---------------------------- MODULE MetricsProofs ----------------------------
(***************************************************************************)
(* Theorems about what agents report and what the server makes of it:      *)
(* Telemetry, for any set of interfaces, any number of rows, reports and   *)
(* events and any width of the counters, and AdaptiveScaler, for any set   *)
(* of load indices, any number of faults and any SHIFT.                    *)
(***************************************************************************)
EXTENDS Telemetry, AdaptiveScaler, FiniteSetsExt, FiniteSetTheorems, TLAPS

-----------------------------------------------------------------------------
(* Sums over finite sets. *)

\* A set of subsets of a finite set has a member none of whose parts is one.
LEMMA MinimalSubset ==
    ASSUME NEW T, IsFiniteSet(T), NEW B, B \subseteq SUBSET T, B # {}
    PROVE  \E s \in B : \A u \in SUBSET s : u # s => u \notin B
<1>1. IsWellFoundedOn(StrictSubsetOrdering(T), SUBSET T)
  BY FS_StrictSubsetOrderingWellFounded, FS_FiniteSubsetsOfFinite
<1>2. PICK s \in B : \A u \in B : <<u, s>> \notin StrictSubsetOrdering(T)
  BY <1>1, WFMin
<1>3. ASSUME NEW u \in SUBSET s, u # s, u \in B PROVE FALSE
  <2>1. <<u, s>> \in (SUBSET T) \X (SUBSET T)
    BY <1>3
  <2> QED
    BY <1>2, <1>3, <2>1 DEF StrictSubsetOrdering
<1> QED
  BY <1>2, <1>3

\* The element that a fold over a set takes first.
Picked(s) == CHOOSE x \in s : TRUE

\* A part of what is left when the element that is picked is taken out.
LEMMA PickedIn ==
    ASSUME NEW s, s # {}
    PROVE  Picked(s) \in s /\ s \ {Picked(s)} # s
BY DEF Picked

\* The function that SumFunctionOnSet computes.
IsSum(g, f, T) ==
    g = [s \in SUBSET T |-> IF s = {} THEN 0 ELSE f[Picked(s)] + g[s \ {Picked(s)}]]

\* So the library defines it.
LEMMA SumIs ==
    ASSUME NEW f, NEW T
    PROVE  SumFunctionOnSet(f, T) = (CHOOSE g : IsSum(g, f, T))[T]
BY DEF SumFunctionOnSet, FoldFunctionOnSet, MapThenFoldSet, IsSum, Picked

\* Two such functions agree on the sets that both are defined for.
LEMMA SumUnique ==
    ASSUME NEW f, NEW T, IsFiniteSet(T), NEW U \in SUBSET T,
           NEW g, IsSum(g, f, T), NEW h, IsSum(h, f, U)
    PROVE  \A s \in SUBSET U : g[s] = h[s]
<1> DEFINE B == {s \in SUBSET U : g[s] # h[s]}
<1> SUFFICES ASSUME B # {} PROVE FALSE
  OBVIOUS
<1>1. PICK s \in B : \A u \in SUBSET s : u # s => u \notin B
  <2>1. B \subseteq SUBSET T
    OBVIOUS
  <2> HIDE DEF B
  <2> QED
    BY <2>1, MinimalSubset
<1>2. s \in SUBSET U /\ s \in SUBSET T /\ g[s] # h[s]
  OBVIOUS
<1>3. /\ g[s] = IF s = {} THEN 0 ELSE f[Picked(s)] + g[s \ {Picked(s)}]
      /\ h[s] = IF s = {} THEN 0 ELSE f[Picked(s)] + h[s \ {Picked(s)}]
  BY <1>2, Zenon DEF IsSum
<1>4. CASE s = {}
  BY <1>2, <1>3, <1>4
<1>5. CASE s # {}
  <2>1. s \ {Picked(s)} \in SUBSET s /\ s \ {Picked(s)} # s
    BY <1>5, PickedIn
  <2>2. g[s \ {Picked(s)}] = h[s \ {Picked(s)}]
    BY <1>1, <1>2, <2>1
  <2> QED
    BY <1>2, <1>3, <1>5, <2>2
<1> QED
  BY <1>4, <1>5

\* Every finite set has one.
LEMMA SumExists ==
    ASSUME NEW f, NEW T, IsFiniteSet(T)
    PROVE  \E g : IsSum(g, f, T)
<1> DEFINE B == {s \in SUBSET T : ~ \E g : IsSum(g, f, s)}
<1> SUFFICES ASSUME B # {} PROVE FALSE
  OBVIOUS
<1>1. PICK U \in B : \A u \in SUBSET U : u # U => u \notin B
  <2>1. B \subseteq SUBSET T
    OBVIOUS
  <2> HIDE DEF B
  <2> QED
    BY <2>1, MinimalSubset
<1>2. U \in SUBSET T /\ IsFiniteSet(U) /\ ~ \E g : IsSum(g, f, U)
  BY FS_Subset
<1> DEFINE G(s) == CHOOSE g : IsSum(g, f, s)
           V(s) == G(s)[s]
           new == [s \in SUBSET U |-> IF s = {} THEN 0 ELSE f[Picked(s)] + V(s \ {Picked(s)})]
<1>3. ASSUME NEW s \in SUBSET U, s # U PROVE IsSum(G(s), f, s)
  <2>1. \E g : IsSum(g, f, s)
    BY <1>1, <1>2, <1>3
  <2> QED
    BY <2>1
<1>4. ASSUME NEW s \in SUBSET U, s # U
      PROVE  V(s) = IF s = {} THEN 0 ELSE f[Picked(s)] + V(s \ {Picked(s)})
  <2> DEFINE r == s \ {Picked(s)}
  <2>1. IsSum(G(s), f, s) /\ IsFiniteSet(s)
    BY <1>2, <1>3, <1>4, FS_Subset
  <2>2. V(s) = IF s = {} THEN 0 ELSE f[Picked(s)] + G(s)[r]
    <3> HIDE DEF G
    <3> QED
      BY <2>1 DEF IsSum
  <2>3. CASE s = {}
    BY <2>2, <2>3
  <2>4. CASE s # {}
    <3>1. r \in SUBSET s /\ r \in SUBSET U /\ r # U
      BY <1>4, <2>4, PickedIn
    <3>2. IsSum(G(r), f, r)
      BY <1>3, <3>1
    <3>3. G(s)[r] = G(r)[r]
      <4> HIDE DEF G, r
      <4> QED
        BY <2>1, <3>1, <3>2, SumUnique
    <3> QED
      BY <2>2, <2>4, <3>3
  <2> QED
    BY <2>3, <2>4
<1>5. ASSUME NEW s \in SUBSET U
      PROVE  new[s] = IF s = {} THEN 0 ELSE f[Picked(s)] + new[s \ {Picked(s)}]
  <2> DEFINE r == s \ {Picked(s)}
  <2>1. CASE s = {}
    BY <2>1
  <2>2. CASE s # {}
    <3>1. r \in SUBSET U /\ r # U
      BY <2>2, PickedIn
    <3>2. new[r] = V(r)
      <4>1. new[r] = IF r = {} THEN 0 ELSE f[Picked(r)] + V(r \ {Picked(r)})
        BY <3>1
      <4> QED
        BY <1>4, <3>1, <4>1
    <3> QED
      BY <2>2, <3>2
  <2> QED
    BY <2>1, <2>2
<1>6. IsSum(new, f, U)
  <2>1. new = [s \in SUBSET U |-> new[s]]
    OBVIOUS
  <2> HIDE DEF new
  <2> QED
    BY <1>5, <2>1 DEF IsSum
<1> QED
  BY <1>2, <1>6

\* The sum of nothing is zero; otherwise it is what is picked, and the rest.
LEMMA SumStep ==
    ASSUME NEW f, NEW T, IsFiniteSet(T)
    PROVE  /\ T = {} => SumFunctionOnSet(f, T) = 0
           /\ T # {} => SumFunctionOnSet(f, T) =
                           f[Picked(T)] + SumFunctionOnSet(f, T \ {Picked(T)})
<1> DEFINE G(s) == CHOOSE g : IsSum(g, f, s)
           r == T \ {Picked(T)}
<1>1. IsFiniteSet(r) /\ r \in SUBSET T
  BY FS_Subset
<1>2. IsSum(G(T), f, T) /\ IsSum(G(r), f, r)
  BY <1>1, SumExists
<1>3. SumFunctionOnSet(f, T) = G(T)[T] /\ SumFunctionOnSet(f, r) = G(r)[r]
  BY SumIs
<1> HIDE DEF G, r
<1>4. G(T)[r] = G(r)[r]
  BY <1>1, <1>2, SumUnique
<1>5. G(T)[T] = IF T = {} THEN 0 ELSE f[Picked(T)] + G(T)[T \ {Picked(T)}]
  BY <1>2, Zenon DEF IsSum
<1> QED
  BY <1>3, <1>4, <1>5 DEF r

\* A sum of integers is an integer.
LEMMA SumType ==
    ASSUME NEW f, NEW T, IsFiniteSet(T), \A x \in T : f[x] \in Int
    PROVE  SumFunctionOnSet(f, T) \in Int
<1> DEFINE B == {s \in SUBSET T : SumFunctionOnSet(f, s) \notin Int}
<1> SUFFICES ASSUME B # {} PROVE FALSE
  OBVIOUS
<1>1. PICK s \in B : \A u \in SUBSET s : u # s => u \notin B
  <2>1. B \subseteq SUBSET T
    OBVIOUS
  <2> HIDE DEF B
  <2> QED
    BY <2>1, MinimalSubset
<1>2. IsFiniteSet(s) /\ s \in SUBSET T /\ SumFunctionOnSet(f, s) \notin Int
  <2>1. s \in SUBSET T /\ SumFunctionOnSet(f, s) \notin Int
    OBVIOUS
  <2> QED
    BY <2>1, FS_Subset
<1>3. s # {}
  <2>1. s = {} => SumFunctionOnSet(f, s) = 0
    BY <1>2, SumStep
  <2>2. 0 \in Int
    OBVIOUS
  <2> QED
    BY <1>2, <2>1, <2>2
<1>4. /\ SumFunctionOnSet(f, s) = f[Picked(s)] + SumFunctionOnSet(f, s \ {Picked(s)})
      /\ Picked(s) \in s /\ s \ {Picked(s)} # s
  BY <1>2, <1>3, SumStep, PickedIn
<1>5. SumFunctionOnSet(f, s \ {Picked(s)}) \in Int /\ f[Picked(s)] \in Int
  BY <1>1, <1>2, <1>4
<1> QED
  BY <1>2, <1>4, <1>5

\* Any element can be taken out first.
LEMMA SumRemove ==
    ASSUME NEW f, NEW T, IsFiniteSet(T), \A x \in T : f[x] \in Int, NEW x \in T
    PROVE  SumFunctionOnSet(f, T) = f[x] + SumFunctionOnSet(f, T \ {x})
<1> DEFINE B == {s \in SUBSET T :
                    \E y \in s : SumFunctionOnSet(f, s) # f[y] + SumFunctionOnSet(f, s \ {y})}
<1> SUFFICES ASSUME B # {} PROVE FALSE
  OBVIOUS
<1>1. PICK s \in B : \A u \in SUBSET s : u # s => u \notin B
  <2>1. B \subseteq SUBSET T
    OBVIOUS
  <2> HIDE DEF B
  <2> QED
    BY <2>1, MinimalSubset
<1>2. s \in SUBSET T /\ IsFiniteSet(s)
  BY FS_Subset
<1>3. PICK y \in s : SumFunctionOnSet(f, s) # f[y] + SumFunctionOnSet(f, s \ {y})
  OBVIOUS
<1> DEFINE p == Picked(s)
           r == s \ {p}
           q == s \ {y}
<1>4. SumFunctionOnSet(f, s) = f[p] + SumFunctionOnSet(f, r) /\ p \in s
  BY <1>2, SumStep, PickedIn
<1> HIDE DEF p
<1>5. p # y
  BY <1>3, <1>4
<1>6. SumFunctionOnSet(f, r) = f[y] + SumFunctionOnSet(f, r \ {y})
  BY <1>1, <1>2, <1>4, <1>5
<1>7. SumFunctionOnSet(f, q) = f[p] + SumFunctionOnSet(f, q \ {p})
  BY <1>1, <1>2, <1>4, <1>5
<1>8. r \ {y} = q \ {p}
  OBVIOUS
<1>9. SumFunctionOnSet(f, r \ {y}) \in Int /\ f[p] \in Int /\ f[y] \in Int
  <2>1. \A z \in s : f[z] \in Int
    BY <1>2
  <2>2. r \ {y} \in SUBSET s
    OBVIOUS
  <2> HIDE DEF r
  <2>3. IsFiniteSet(r \ {y}) /\ \A z \in r \ {y} : f[z] \in Int
    BY <1>2, <2>1, <2>2, FS_Subset
  <2>4. SumFunctionOnSet(f, r \ {y}) \in Int
    BY <2>3, SumType
  <2> QED
    BY <1>4, <2>1, <2>4
<1> HIDE DEF B, q, r
<1>10. SumFunctionOnSet(f, s) = f[y] + SumFunctionOnSet(f, q)
  <2> DEFINE X == SumFunctionOnSet(f, r \ {y})
  <2>1. /\ SumFunctionOnSet(f, s) = f[p] + SumFunctionOnSet(f, r)
        /\ SumFunctionOnSet(f, r) = f[y] + X
        /\ SumFunctionOnSet(f, q) = f[p] + X
        /\ X \in Int /\ f[p] \in Int /\ f[y] \in Int
    BY <1>4, <1>6, <1>7, <1>8, <1>9
  <2> HIDE DEF X
  <2> QED
    BY <2>1
<1> QED
  BY <1>3, <1>10 DEF q

\* Smaller terms have a smaller sum, and equal terms the same.
LEMMA SumMonotone ==
    ASSUME NEW T, IsFiniteSet(T), NEW f, NEW g,
           \A x \in T : f[x] \in Int /\ g[x] \in Int /\ f[x] <= g[x]
    PROVE  SumFunctionOnSet(f, T) <= SumFunctionOnSet(g, T)
<1> DEFINE B == {s \in SUBSET T : ~ (SumFunctionOnSet(f, s) <= SumFunctionOnSet(g, s))}
<1> SUFFICES ASSUME B # {} PROVE FALSE
  OBVIOUS
<1>1. PICK s \in B : \A u \in SUBSET s : u # s => u \notin B
  <2>1. B \subseteq SUBSET T
    OBVIOUS
  <2> HIDE DEF B
  <2> QED
    BY <2>1, MinimalSubset
<1>2. /\ s \in SUBSET T /\ IsFiniteSet(s)
      /\ ~ (SumFunctionOnSet(f, s) <= SumFunctionOnSet(g, s))
  BY FS_Subset
<1> DEFINE p == Picked(s)
           r == s \ {p}
<1>3. s # {}
  BY <1>2, SumStep
<1>4. /\ SumFunctionOnSet(f, s) = f[p] + SumFunctionOnSet(f, r)
      /\ SumFunctionOnSet(g, s) = g[p] + SumFunctionOnSet(g, r)
      /\ p \in s /\ r # s
  BY <1>2, <1>3, SumStep, PickedIn
<1>5. SumFunctionOnSet(f, r) <= SumFunctionOnSet(g, r)
  BY <1>1, <1>2, <1>4
<1>6. SumFunctionOnSet(f, r) \in Int /\ SumFunctionOnSet(g, r) \in Int
  <2>1. IsFiniteSet(r) /\ \A x \in r : f[x] \in Int /\ g[x] \in Int
    BY <1>2, FS_Subset
  <2> HIDE DEF r
  <2> QED
    BY <2>1, SumType
<1> HIDE DEF r, p
<1> QED
  BY <1>2, <1>4, <1>5, <1>6

\* One term grows by b, and the others do not grow: so does the sum.
LEMMA SumGrows ==
    ASSUME NEW T, IsFiniteSet(T), NEW i \in T, NEW b \in Nat, NEW f, NEW g,
           \A x \in T : f[x] \in Int /\ g[x] \in Int,
           \A x \in T \ {i} : g[x] <= f[x], g[i] <= f[i] + b
    PROVE  SumFunctionOnSet(g, T) <= SumFunctionOnSet(f, T) + b
<1> DEFINE R == T \ {i}
<1>1. /\ SumFunctionOnSet(f, T) = f[i] + SumFunctionOnSet(f, R)
      /\ SumFunctionOnSet(g, T) = g[i] + SumFunctionOnSet(g, R)
  BY SumRemove
<1>2. IsFiniteSet(R) /\ \A x \in R : f[x] \in Int /\ g[x] \in Int /\ g[x] <= f[x]
  BY FS_Subset
<1> HIDE DEF R
<1>3. SumFunctionOnSet(f, R) \in Int /\ SumFunctionOnSet(g, R) \in Int
  BY <1>2, SumType
<1>4. SumFunctionOnSet(g, R) <= SumFunctionOnSet(f, R)
  BY <1>2, SumMonotone
<1> QED
  BY <1>1, <1>3, <1>4

\* A part of a sum of natural numbers is no larger than the sum.
LEMMA SumPart ==
    ASSUME NEW T, IsFiniteSet(T), NEW U \in SUBSET T, NEW f, \A x \in T : f[x] \in Nat
    PROVE  SumFunctionOnSet(f, U) <= SumFunctionOnSet(f, T)
<1> DEFINE B == {s \in SUBSET T :
                    \E u \in SUBSET s : ~ (SumFunctionOnSet(f, u) <= SumFunctionOnSet(f, s))}
<1> SUFFICES ASSUME B # {} PROVE FALSE
  OBVIOUS
<1>1. PICK s \in B : \A u \in SUBSET s : u # s => u \notin B
  <2>1. B \subseteq SUBSET T
    OBVIOUS
  <2> HIDE DEF B
  <2> QED
    BY <2>1, MinimalSubset
<1>2. s \in SUBSET T /\ IsFiniteSet(s) /\ \A x \in s : f[x] \in Nat
  BY FS_Subset
<1>3. PICK u \in SUBSET s : ~ (SumFunctionOnSet(f, u) <= SumFunctionOnSet(f, s))
  OBVIOUS
<1>4. SumFunctionOnSet(f, s) \in Int
  BY <1>2, SumType
<1>5. PICK x \in s : x \notin u
  BY <1>3, <1>4
<1> DEFINE r == s \ {x}
<1>6. SumFunctionOnSet(f, s) = f[x] + SumFunctionOnSet(f, r)
  BY <1>2, SumRemove
<1>7. SumFunctionOnSet(f, u) <= SumFunctionOnSet(f, r)
  BY <1>1, <1>2, <1>5
<1>8. SumFunctionOnSet(f, u) \in Int /\ SumFunctionOnSet(f, r) \in Int /\ f[x] \in Nat
  <2>1. IsFiniteSet(u) /\ IsFiniteSet(r) /\ \A y \in u : f[y] \in Int
    BY <1>2, FS_Subset
  <2>2. \A y \in r : f[y] \in Int
    BY <1>2
  <2> HIDE DEF r
  <2> QED
    BY <1>2, <2>1, <2>2, SumType
<1> HIDE DEF r
<1> QED
  BY <1>3, <1>4, <1>6, <1>7, <1>8

\* The sum of f + w * g.
LEMMA SumLinear ==
    ASSUME NEW T, IsFiniteSet(T), NEW w \in Int, NEW f, NEW g, NEW h,
           \A x \in T : f[x] \in Int /\ g[x] \in Int /\ h[x] = f[x] + w * g[x]
    PROVE  SumFunctionOnSet(h, T) = SumFunctionOnSet(f, T) + w * SumFunctionOnSet(g, T)
<1> DEFINE Linear(s) ==
              SumFunctionOnSet(h, s) = SumFunctionOnSet(f, s) + w * SumFunctionOnSet(g, s)
           B == {s \in SUBSET T : ~ Linear(s)}
<1> SUFFICES ASSUME B # {} PROVE FALSE
  OBVIOUS
<1>1. PICK s \in B : \A u \in SUBSET s : u # s => u \notin B
  <2>1. B \subseteq SUBSET T
    OBVIOUS
  <2> HIDE DEF B
  <2> QED
    BY <2>1, MinimalSubset
<1>2. s \in SUBSET T /\ IsFiniteSet(s) /\ ~ Linear(s)
  BY FS_Subset
<1> DEFINE p == Picked(s)
           r == s \ {p}
<1>3. s # {}
  <2> SUFFICES ASSUME s = {} PROVE FALSE
    OBVIOUS
  <2>1. /\ SumFunctionOnSet(f, s) = 0 /\ SumFunctionOnSet(g, s) = 0
        /\ SumFunctionOnSet(h, s) = 0
    BY <1>2, SumStep
  <2>2. Linear(s)
    BY <2>1
  <2> QED
    BY <1>2, <2>2
<1>4. /\ SumFunctionOnSet(f, s) = f[p] + SumFunctionOnSet(f, r)
      /\ SumFunctionOnSet(g, s) = g[p] + SumFunctionOnSet(g, r)
      /\ SumFunctionOnSet(h, s) = h[p] + SumFunctionOnSet(h, r)
      /\ p \in s /\ r # s
  BY <1>2, <1>3, SumStep, PickedIn
<1>5. Linear(r)
  BY <1>1, <1>2, <1>4
<1>6. SumFunctionOnSet(f, r) \in Int /\ SumFunctionOnSet(g, r) \in Int
  <2>1. IsFiniteSet(r) /\ \A x \in r : f[x] \in Int /\ g[x] \in Int
    BY <1>2, FS_Subset
  <2> HIDE DEF r
  <2> QED
    BY <2>1, SumType
<1>7. f[p] \in Int /\ g[p] \in Int /\ h[p] = f[p] + w * g[p]
  BY <1>2, <1>4
<1>8. SumFunctionOnSet(h, r) = SumFunctionOnSet(f, r) + w * SumFunctionOnSet(g, r)
  BY <1>5
<1>9. ~ (SumFunctionOnSet(h, s) = SumFunctionOnSet(f, s) + w * SumFunctionOnSet(g, s))
  BY <1>2
<1> HIDE DEF r, p, B, Linear
<1>10. w * (g[p] + SumFunctionOnSet(g, r)) = w * g[p] + w * SumFunctionOnSet(g, r)
  BY <1>6, <1>7
<1>11. w * g[p] \in Int /\ w * SumFunctionOnSet(g, r) \in Int
  BY <1>6, <1>7
<1> QED
  BY <1>4, <1>6, <1>7, <1>8, <1>9, <1>10, <1>11

\* The sum of natural numbers is one.
LEMMA SumNat ==
    ASSUME NEW T, IsFiniteSet(T), NEW f, \A x \in T : f[x] \in Nat
    PROVE  SumFunctionOnSet(f, T) \in Nat
<1>1. SumFunctionOnSet(f, {}) <= SumFunctionOnSet(f, T)
  BY SumPart
<1>2. SumFunctionOnSet(f, {}) = 0
  BY SumStep, FS_EmptySet
<1>3. SumFunctionOnSet(f, T) \in Int
  BY SumType
<1> QED
  BY <1>1, <1>2, <1>3

\* No term of a sum of natural numbers is larger than the sum.
LEMMA SumTerm ==
    ASSUME NEW T, IsFiniteSet(T), NEW f, \A x \in T : f[x] \in Nat, NEW i \in T
    PROVE  f[i] <= SumFunctionOnSet(f, T)
<1> DEFINE R == T \ {i}
<1>1. IsFiniteSet(R) /\ \A x \in R : f[x] \in Nat
  BY FS_RemoveElement
<1>2. SumFunctionOnSet(f, T) = f[i] + SumFunctionOnSet(f, R)
  <2>1. \A x \in T : f[x] \in Int
    OBVIOUS
  <2> QED
    BY <2>1, SumRemove
<1> HIDE DEF R
<1>3. SumFunctionOnSet(f, R) \in Nat
  BY <1>1, SumNat
<1> QED
  BY <1>2, <1>3

-----------------------------------------------------------------------------
(* The traffic reporter. *)

\* Rows on their way are known, and a row not yet added is in no table.
RowsKnown ==
    /\ \A r \in ToSet(stats) : r <= added
    /\ sending # None => \A r \in ToSet(sending) : r <= added
    /\ \A k \in DOMAIN wire : \A r \in ToSet(wire[k]) : r <= added
    /\ \A r \in Rows : r > added => stored[r] = 0

\* Without an overlap, what send has marshalled is what the slice still holds.
Overlaps ==
    /\ clash => raced = added
    /\ adding # 0 /\ sending # None => clash
    /\ ~clash /\ sending # None => sending = stats

\* The row is being added or in the slice; the messages that carry it.
InHand(r) == r = adding \/ r \in ToSet(stats)
Carrying(w, r) == {k \in DOMAIN w : r \in ToSet(w[k])}
Reports(r) == Carrying(wire, r)

\* The row is in one place: the slice, one message, or the table; or it has
\* been dropped.
OnePlace(r) ==
    /\ InHand(r) => stored[r] = 0 /\ Reports(r) = {}
    /\ Reports(r) # {} => stored[r] = 0
    /\ \A k, l \in Reports(r) : k = l
    /\ stored[r] <= 1
    /\ ~InHand(r) /\ Reports(r) = {} /\ stored[r] = 0 => r \in Idle \cup dropped

\* So is every row since the last overlap.
RowsInOnePlace == \A r \in raced + 1 .. added : OnePlace(r)

\* The types of the variables, in the parts that the proofs take one by one.
FrameTyped ==
    connected \in BOOLEAN /\ serverAvailable \in BOOLEAN /\ events \in 0 .. MaxEvents

\* What the slice and a report may hold.
Batch == Seq(Rows \cup {Old})

RowsTyped ==
    /\ stats \in Batch /\ added \in 0 .. MaxRows /\ adding \in 0 .. added
    /\ sending \in Batch \cup {None}
    /\ wire \in Seq(Batch) /\ stored \in [Rows -> Nat]
    /\ clash \in BOOLEAN /\ raced \in 0 .. added /\ dropped \subseteq 1 .. added

\* The inductive invariant of the reporter.
RowsInv == RowsTyped /\ RowsKnown /\ Overlaps /\ RowsInOnePlace

-----------------------------------------------------------------------------
\* What is in a sequence after an append.
LEMMA AppendFacts ==
    ASSUME NEW S, NEW s \in Seq(S), NEW x \in S
    PROVE  /\ Append(s, x) \in Seq(S)
           /\ DOMAIN Append(s, x) = DOMAIN s \cup {Len(s) + 1} /\ Len(s) + 1 \notin DOMAIN s
           /\ \A k \in DOMAIN s : Append(s, x)[k] = s[k]
           /\ Append(s, x)[Len(s) + 1] = x
OBVIOUS

\* The members of a sequence after an append.
LEMMA AppendSet ==
    ASSUME NEW S, NEW s \in Seq(S), NEW x \in S
    PROVE  ToSet(Append(s, x)) = ToSet(s) \cup {x}
<1> DEFINE t == Append(s, x)
<1>1. /\ DOMAIN t = DOMAIN s \cup {Len(s) + 1}
      /\ \A k \in DOMAIN s : t[k] = s[k]
      /\ t[Len(s) + 1] = x
  BY AppendFacts
<1> HIDE DEF t
<1> QED
  BY <1>1 DEF ToSet

\* What is left of a sequence without its head.
LEMMA TailFacts ==
    ASSUME NEW S, NEW s \in Seq(S), s # <<>>
    PROVE  /\ Tail(s) \in Seq(S) /\ Head(s) = s[1] /\ s[1] \in S /\ 1 \in DOMAIN s
           /\ DOMAIN s \subseteq Nat
           /\ \A k \in DOMAIN Tail(s) : k \in Nat /\ k + 1 \in DOMAIN s /\ Tail(s)[k] = s[k + 1]
           /\ \A k \in DOMAIN s : k # 1 => k - 1 \in DOMAIN Tail(s) /\ Tail(s)[k - 1] = s[k]
OBVIOUS

\* The members of a sequence over a set.
LEMMA MembersIn ==
    ASSUME NEW S, NEW s \in Seq(S)
    PROVE  ToSet(s) \subseteq S
BY DEF ToSet

\* The messages that carry a row when one more is sent.
LEMMA CarryingAppend ==
    ASSUME NEW w \in Seq(Batch), NEW m \in Batch, NEW r
    PROVE  Carrying(Append(w, m), r) =
              Carrying(w, r) \cup (IF r \in ToSet(m) THEN {Len(w) + 1} ELSE {})
<1> DEFINE t == Append(w, m)
<1>1. /\ DOMAIN t = DOMAIN w \cup {Len(w) + 1} /\ Len(w) + 1 \notin DOMAIN w
      /\ \A k \in DOMAIN w : t[k] = w[k]
      /\ t[Len(w) + 1] = m
  BY AppendFacts
<1> HIDE DEF t
<1> QED
  BY <1>1 DEF Carrying

\* The messages that carry it when the first has arrived: all move up by one.
LEMMA CarryingTail ==
    ASSUME NEW w \in Seq(Batch), w # <<>>, NEW r
    PROVE  /\ Carrying(Tail(w), r) = {k - 1 : k \in Carrying(w, r) \ {1}}
           /\ 1 \in Carrying(w, r) <=> r \in ToSet(Head(w))
           /\ Carrying(w, r) \subseteq Nat
<1> DEFINE t == Tail(w)
<1>1. /\ Head(w) = w[1] /\ 1 \in DOMAIN w /\ DOMAIN w \subseteq Nat
      /\ \A k \in DOMAIN t : k \in Nat /\ k + 1 \in DOMAIN w /\ t[k] = w[k + 1]
      /\ \A k \in DOMAIN w : k # 1 => k - 1 \in DOMAIN t /\ t[k - 1] = w[k]
  BY TailFacts
<1> HIDE DEF t
<1>2. Carrying(t, r) \subseteq {k - 1 : k \in Carrying(w, r) \ {1}}
  <2> SUFFICES ASSUME NEW k \in Carrying(t, r)
               PROVE  \E j \in Carrying(w, r) \ {1} : k = j - 1
    OBVIOUS
  <2>1. k \in DOMAIN t /\ r \in ToSet(t[k])
    BY DEF Carrying
  <2>2. k \in Nat /\ k + 1 \in DOMAIN w /\ t[k] = w[k + 1]
    BY <1>1, <2>1
  <2>3. k + 1 \in Carrying(w, r)
    BY <2>1, <2>2 DEF Carrying
  <2>4. k # 0
    BY <1>1, <2>1, <2>2 DEF t
  <2> QED
    BY <2>2, <2>3, <2>4
<1>3. {k - 1 : k \in Carrying(w, r) \ {1}} \subseteq Carrying(t, r)
  BY <1>1 DEF Carrying
<1> QED
  BY <1>1, <1>2, <1>3 DEF Carrying, t

\* The slice after a write.
LEMMA WriteFacts ==
    ASSUME NEW overlap \in BOOLEAN, NEW s \in Batch, Write(overlap, s),
           raced \in 0 .. added, added \in 0 .. MaxRows, added' \in added .. MaxRows,
           MaxRows \in Nat, \A x \in ToSet(s) : x <= added'
    PROVE  /\ stats' \in Batch /\ raced' \in 0 .. added' /\ \A x \in ToSet(stats') : x <= added'
           /\ overlap => raced' = added'
           /\ ~overlap => raced' = raced /\ stats' = s
<1>1. CASE overlap
  <2>1. raced' = added' /\ \E n \in 0 .. added' : stats' = [k \in 1 .. n |-> Old]
    BY <1>1 DEF Write
  <2>2. PICK n \in 0 .. added' : stats' = [k \in 1 .. n |-> Old]
    BY <2>1
  <2>3. stats' \in Batch
    BY <2>2 DEF Batch
  <2>4. \A x \in ToSet(stats') : x = 0
    BY <2>2 DEF ToSet, Old
  <2> QED
    BY <1>1, <2>1, <2>3, <2>4
<1>2. CASE ~overlap
  BY <1>2 DEF Write
<1> QED
  BY <1>1, <1>2

\* What the invariant says of each variable.
LEMMA RowsFacts ==
    ASSUME RowsInv
    PROVE  /\ MaxRows \in Nat /\ added \in 0 .. MaxRows /\ adding \in 0 .. added
           /\ raced \in 0 .. added /\ stats \in Batch /\ wire \in Seq(Batch)
           /\ stored \in [Rows -> Nat] /\ dropped \subseteq 1 .. added
           /\ clash \in BOOLEAN /\ sending \in Batch \cup {None}
           /\ \A x \in ToSet(stats) : x <= added
           /\ \A r \in raced + 1 .. added : r \in Rows
<1>1. /\ MaxRows \in Nat /\ added \in 0 .. MaxRows /\ raced \in 0 .. added
  BY TelemetryAssumption DEF RowsInv, RowsTyped
<1>2. \A r \in raced + 1 .. added : r \in Rows
  BY <1>1 DEF Rows
<1> QED
  BY <1>1, <1>2 DEF RowsInv, RowsTyped, RowsKnown

\* A row is added: a new one, in hand, unless operations overlap.
LEMMA BeginAddStatKeeps == ASSUME RowsInv, BeginAddStat PROVE RowsInv'
<1>1. /\ adding = 0 /\ added < MaxRows /\ added' = added + 1 /\ adding' = added + 1
      /\ clash' = (clash \/ sending # None) /\ Write(clash', stats)
      /\ sending' = IF sending = None THEN None ELSE <<Old>>
      /\ UNCHANGED <<wire, stored, dropped>>
  BY DEF BeginAddStat, Begin
<1>2. added' \in added .. MaxRows /\ clash' \in BOOLEAN /\ added' = added + 1
  BY <1>1, RowsFacts
<1>3. /\ stats' \in Batch /\ raced' \in 0 .. added' /\ \A x \in ToSet(stats') : x <= added'
      /\ clash' => raced' = added'
      /\ ~clash' => raced' = raced /\ stats' = stats
  <2>1. \A x \in ToSet(stats) : x <= added'
    <3> SUFFICES ASSUME NEW x \in ToSet(stats) PROVE x <= added'
      OBVIOUS
    <3>1. x \in 0 .. MaxRows /\ x <= added
      BY RowsFacts, MembersIn DEF Batch, Rows, Old
    <3> QED
      BY <1>2, <3>1, RowsFacts
  <2> QED
    BY <1>1, <1>2, <2>1, RowsFacts, WriteFacts
<1>4. RowsTyped'
  <2>1. sending' \in Batch \cup {None}
    <3>1. <<Old>> \in Batch
      BY DEF Batch
    <3> QED
      BY <1>1, <3>1
  <2>2. adding' \in 0 .. added' /\ added' \in 0 .. MaxRows /\ dropped' \subseteq 1 .. added'
    BY <1>1, RowsFacts
  <2> QED
    BY <1>1, <1>2, <1>3, <2>1, <2>2, RowsFacts DEF RowsTyped
<1>5. RowsKnown'
  <2>1. sending' # None => \A r \in ToSet(sending') : r <= added'
    <3>1. ToSet(<<Old>>) = {0}
      BY DEF ToSet, Old
    <3> QED
      BY <1>1, <1>2, <3>1, RowsFacts
  <2>2. \A k \in DOMAIN wire' : \A r \in ToSet(wire'[k]) : r <= added'
    <3> SUFFICES ASSUME NEW k \in DOMAIN wire, NEW r \in ToSet(wire[k]) PROVE r <= added + 1
      BY <1>1
    <3>1. wire[k] \in Batch /\ r \in 0 .. MaxRows
      <4>1. wire[k] \in Batch
        BY RowsFacts
      <4> QED
        BY <4>1, RowsFacts, MembersIn DEF Batch, Rows, Old
    <3>2. r <= added
      BY DEF RowsInv, RowsKnown
    <3> QED
      BY <3>1, <3>2, RowsFacts
  <2>3. \A r \in Rows : r > added' => stored'[r] = 0
    BY <1>1, RowsFacts DEF RowsInv, RowsKnown, Rows
  <2> QED
    BY <1>3, <2>1, <2>2, <2>3 DEF RowsKnown
<1>6. Overlaps'
  BY <1>1, <1>3 DEF Overlaps
<1>7. RowsInOnePlace'
  <2>1. CASE clash'
    BY <1>2, <1>3, <2>1, RowsFacts DEF RowsInOnePlace
  <2>2. CASE ~clash'
    <3>1. UNCHANGED <<stats, raced, stored, dropped, wire>>
      BY <1>1, <1>3, <2>2
    <3> SUFFICES ASSUME NEW r \in raced + 1 .. added + 1 PROVE OnePlace(r)'
      BY <1>1, <3>1 DEF RowsInOnePlace
    <3>2. CASE r = added + 1
      <4>1. stored[r] = 0
        BY <1>1, <3>2, RowsFacts DEF RowsInv, RowsKnown, Rows
      <4>2. Reports(r) = {}
        BY <1>1, <3>2, RowsFacts DEF RowsInv, RowsKnown, Reports, Carrying
      <4> QED
        BY <1>1, <3>1, <3>2, <4>1, <4>2 DEF OnePlace, InHand, Reports
    <3>3. CASE r \in raced + 1 .. added
      <4>1. OnePlace(r)
        BY <3>3 DEF RowsInv, RowsInOnePlace
      <4>2. r # adding /\ r # adding'
        BY <1>1, <3>3, RowsFacts
      <4> QED
        BY <3>1, <4>1, <4>2 DEF OnePlace, InHand, Reports
    <3> QED
      BY <3>2, <3>3, RowsFacts
  <2> QED
    BY <2>1, <2>2
<1> QED
  BY <1>4, <1>5, <1>6, <1>7 DEF RowsInv

\* What leaves the messages, the table and the rows added as they are.
LEMMA SliceKeeps ==
    ASSUME RowsInv, UNCHANGED <<added, wire, stored>>, stats' \in Batch, raced' \in 0 .. added,
           adding' \in 0 .. added, \A x \in ToSet(stats') : x <= added,
           sending' \in {None, <<Old>>, sending, stats}, clash' \in BOOLEAN,
           dropped' \subseteq 1 .. added
    PROVE  RowsTyped' /\ RowsKnown'
<1>1. sending' \in Batch \cup {None}
  <2>1. <<Old>> \in Batch
    BY DEF Batch
  <2> QED
    BY <2>1, RowsFacts
<1>2. sending' # None => \A r \in ToSet(sending') : r <= added
  <2>1. ToSet(<<Old>>) = {0}
    BY DEF ToSet, Old
  <2> QED
    BY <2>1, RowsFacts DEF RowsInv, RowsKnown
<1>3. RowsTyped'
  BY <1>1, RowsFacts DEF RowsTyped
<1>4. RowsKnown'
  BY <1>2 DEF RowsInv, RowsKnown
<1> QED
  BY <1>3, <1>4

\* The row goes into the slice.
LEMMA EndAddStatKeeps == ASSUME RowsInv, EndAddStat PROVE RowsInv'
<1>1. /\ adding # 0 /\ adding' = 0 /\ added' = added
      /\ clash' = (clash /\ sending # None) /\ Write(clash, Append(stats, adding))
      /\ UNCHANGED <<sending, wire, stored, dropped>>
  BY DEF EndAddStat, End
<1>2. /\ Append(stats, adding) \in Batch
      /\ ToSet(Append(stats, adding)) = ToSet(stats) \cup {adding}
  <2>1. adding \in Rows \cup {Old}
    BY RowsFacts DEF Rows, Old
  <2>2. stats \in Seq(Rows \cup {Old})
    BY RowsFacts DEF Batch
  <2>3. Append(stats, adding) \in Seq(Rows \cup {Old})
    BY <2>1, <2>2, AppendFacts
  <2>4. ToSet(Append(stats, adding)) = ToSet(stats) \cup {adding}
    BY <2>1, <2>2, AppendSet
  <2> QED
    BY <2>3, <2>4 DEF Batch
<1>3. /\ stats' \in Batch /\ raced' \in 0 .. added' /\ \A x \in ToSet(stats') : x <= added'
      /\ clash => raced' = added'
      /\ ~clash => raced' = raced /\ stats' = Append(stats, adding)
  <2>1. \A x \in ToSet(Append(stats, adding)) : x <= added'
    BY <1>1, <1>2, RowsFacts
  <2>2. added' \in added .. MaxRows
    BY <1>1, RowsFacts
  <2> QED
    BY <1>1, <1>2, <2>1, <2>2, RowsFacts, WriteFacts
<1>4. clash' \in BOOLEAN
  BY <1>1
<1>5. RowsTyped' /\ RowsKnown'
  BY <1>1, <1>3, <1>4, RowsFacts, SliceKeeps
<1>6. Overlaps'
  BY <1>1, <1>3 DEF RowsInv, Overlaps
<1>7. RowsInOnePlace'
  <2>1. CASE clash
    BY <1>1, <1>3, <2>1, RowsFacts DEF RowsInOnePlace
  <2>2. CASE ~clash
    <3>1. ToSet(stats') = ToSet(stats) \cup {adding} /\ raced' = raced
      BY <1>2, <1>3, <2>2
    <3> SUFFICES ASSUME NEW r \in raced + 1 .. added PROVE OnePlace(r)'
      BY <1>1, <3>1 DEF RowsInOnePlace
    <3>2. OnePlace(r) /\ r # 0
      BY RowsFacts DEF RowsInv, RowsInOnePlace
    <3>3. InHand(r)' <=> InHand(r)
      BY <1>1, <3>1, <3>2 DEF InHand
    <3> QED
      BY <1>1, <3>2, <3>3 DEF OnePlace, Reports
  <2> QED
    BY <2>1, <2>2
<1> QED
  BY <1>5, <1>6, <1>7 DEF RowsInv

\* The rows in the slice are thrown away.
LEMMA SendSkipsKeeps == ASSUME RowsInv, SendSkips PROVE RowsInv'
<1>1. /\ sending = None /\ added' = added /\ Write(adding # 0, <<>>) /\ clash' = (adding # 0)
      /\ dropped' = dropped \cup (ToSet(stats) \ {Old})
      /\ UNCHANGED <<adding, sending, wire, stored>>
  BY DEF SendSkips
<1>2. <<>> \in Batch /\ ToSet(<<>>) = {}
  BY DEF Batch, ToSet
<1>3. /\ stats' \in Batch /\ raced' \in 0 .. added' /\ \A x \in ToSet(stats') : x <= added'
      /\ adding # 0 => raced' = added'
      /\ adding = 0 => raced' = raced /\ stats' = <<>>
  <2>1. added' \in added .. MaxRows /\ (adding # 0) \in BOOLEAN
    BY <1>1, RowsFacts
  <2> HIDE DEF Batch
  <2> QED
    BY <1>1, <1>2, <2>1, RowsFacts, WriteFacts
<1>4. clash' \in BOOLEAN
  BY <1>1
<1>5. dropped' \subseteq 1 .. added
  <2>1. ToSet(stats) \subseteq 0 .. MaxRows
    BY RowsFacts, MembersIn DEF Batch, Rows, Old
  <2> QED
    BY <1>1, <2>1, RowsFacts DEF Old
<1>6. RowsTyped' /\ RowsKnown'
  BY <1>1, <1>3, <1>4, <1>5, RowsFacts, SliceKeeps
<1>7. Overlaps'
  BY <1>1, <1>3 DEF Overlaps
<1>8. RowsInOnePlace'
  <2>1. CASE adding # 0
    BY <1>1, <1>3, <2>1, RowsFacts DEF RowsInOnePlace
  <2>2. CASE adding = 0
    <3>1. ToSet(stats') = {} /\ raced' = raced
      BY <1>2, <1>3, <2>2
    <3> SUFFICES ASSUME NEW r \in raced + 1 .. added PROVE OnePlace(r)'
      BY <1>1, <3>1 DEF RowsInOnePlace
    <3>2. OnePlace(r) /\ r # 0
      BY RowsFacts DEF RowsInv, RowsInOnePlace
    <3>3. ~InHand(r)' /\ (InHand(r) => r \in dropped')
      BY <1>1, <2>2, <3>1, <3>2 DEF InHand, Old
    <3> QED
      BY <1>1, <3>2, <3>3 DEF OnePlace, Reports
  <2> QED
    BY <2>1, <2>2
<1> QED
  BY <1>6, <1>7, <1>8 DEF RowsInv

\* send marshals the slice, and leaves it as it is.
LEMMA MarshalKeeps == ASSUME RowsInv, Marshal PROVE RowsInv'
<1>1. /\ sending = None /\ added' = added
      /\ clash' = (clash \/ adding # 0) /\ Write(clash', stats)
      /\ sending' = IF clash' THEN <<Old>> ELSE stats
      /\ UNCHANGED <<adding, wire, stored, dropped>>
  BY DEF Marshal, Begin
<1>2. clash' \in BOOLEAN
  BY <1>1, RowsFacts
<1>3. /\ stats' \in Batch /\ raced' \in 0 .. added' /\ \A x \in ToSet(stats') : x <= added'
      /\ clash' => raced' = added'
      /\ ~clash' => raced' = raced /\ stats' = stats
  <2>1. added' \in added .. MaxRows
    BY <1>1, RowsFacts
  <2> QED
    BY <1>1, <1>2, <2>1, RowsFacts, WriteFacts
<1>4. RowsTyped' /\ RowsKnown'
  BY <1>1, <1>2, <1>3, RowsFacts, SliceKeeps
<1>5. Overlaps'
  BY <1>1, <1>3 DEF Overlaps
<1>6. RowsInOnePlace'
  <2>1. CASE clash'
    <3>1. raced' = added /\ added' = added /\ added \in Nat
      BY <1>1, <1>3, <2>1, RowsFacts
    <3> QED
      BY <3>1 DEF RowsInOnePlace
  <2>2. CASE ~clash'
    <3>1. stats' = stats /\ raced' = raced
      BY <1>3, <2>2
    <3> QED
      BY <1>1, <3>1 DEF RowsInv, RowsInOnePlace, OnePlace, InHand, Reports
  <2> QED
    BY <2>1, <2>2
<1> QED
  BY <1>4, <1>5, <1>6 DEF RowsInv

\* A report is under way, or its rows stay in the slice.
LEMMA PublishKeeps == ASSUME RowsInv, NEW ok \in BOOLEAN, Publish(ok) PROVE RowsInv'
<1>1. /\ sending # None /\ sending' = None /\ added' = added
      /\ wire' = IF ok THEN Append(wire, sending) ELSE wire
      /\ clash' = (clash /\ adding # 0) /\ Write(clash, Remaining(ok))
      /\ UNCHANGED <<adding, stored, dropped>>
  BY DEF Publish, End
<1>2. Remaining(ok) \in Batch /\ \A x \in ToSet(Remaining(ok)) : x <= added
  <2>1. <<>> \in Batch /\ ToSet(<<>>) = {}
    BY DEF Batch, ToSet
  <2> QED
    BY <2>1, RowsFacts DEF Remaining
<1>3. /\ stats' \in Batch /\ raced' \in 0 .. added' /\ \A x \in ToSet(stats') : x <= added'
      /\ clash => raced' = added'
      /\ ~clash => raced' = raced /\ stats' = Remaining(ok)
  <2>1. added' \in added .. MaxRows
    BY <1>1, RowsFacts
  <2> QED
    BY <1>1, <1>2, <2>1, RowsFacts, WriteFacts
<1>4. clash' \in BOOLEAN /\ sending \in Batch
  BY <1>1, RowsFacts
<1>5. wire' \in Seq(Batch)
  BY <1>1, <1>4, RowsFacts, AppendFacts
<1>6. RowsTyped'
  BY <1>1, <1>3, <1>4, <1>5, RowsFacts DEF RowsTyped
<1>7. \A k \in DOMAIN wire' : \A r \in ToSet(wire'[k]) : r <= added
  <2>1. \A r \in ToSet(sending) : r <= added
    BY <1>1 DEF RowsInv, RowsKnown
  <2>2. \A k \in DOMAIN wire : \A r \in ToSet(wire[k]) : r <= added
    BY DEF RowsInv, RowsKnown
  <2>3. CASE ok
    <3>1. /\ DOMAIN wire' = DOMAIN wire \cup {Len(wire) + 1}
          /\ \A k \in DOMAIN wire : wire'[k] = wire[k]
          /\ wire'[Len(wire) + 1] = sending
      BY <1>1, <1>4, <2>3, RowsFacts, AppendFacts
    <3> QED
      BY <2>1, <2>2, <3>1
  <2>4. CASE ~ok
    BY <1>1, <2>2, <2>4
  <2> QED
    BY <2>3, <2>4
<1>8. RowsKnown'
  BY <1>1, <1>3, <1>7, RowsFacts DEF RowsInv, RowsKnown
<1>9. Overlaps'
  BY <1>1, <1>3 DEF Overlaps
<1>10. RowsInOnePlace'
  <2>1. CASE clash
    <3>1. raced' = added /\ added' = added /\ added \in Nat
      BY <1>1, <1>3, <2>1, RowsFacts
    <3> QED
      BY <3>1 DEF RowsInOnePlace
  <2>2. CASE ~clash
    <3>1. adding = 0 /\ sending = stats /\ stats' = Remaining(ok) /\ raced' = raced
      BY <1>1, <1>3, <2>2 DEF RowsInv, Overlaps
    <3> SUFFICES ASSUME NEW r \in raced + 1 .. added PROVE OnePlace(r)'
      BY <1>1, <3>1 DEF RowsInOnePlace
    <3>2. OnePlace(r) /\ r # 0
      BY RowsFacts DEF RowsInv, RowsInOnePlace
    <3>3. CASE ok
      <4>1. ~InHand(r)'
        BY <1>1, <3>1, <3>2, <3>3 DEF InHand, Remaining, ToSet
      <4>2. Reports(r)' = Reports(r) \cup (IF r \in ToSet(stats) THEN {Len(wire) + 1} ELSE {})
        <5>1. wire' = Append(wire, stats)
          BY <1>1, <3>1, <3>3
        <5> QED
          BY <5>1, RowsFacts, CarryingAppend DEF Reports
      <4>3. InHand(r) <=> r \in ToSet(stats)
        BY <3>1, <3>2 DEF InHand
      <4> QED
        BY <1>1, <3>2, <4>1, <4>2, <4>3 DEF OnePlace
    <3>4. CASE ~ok
      <4>1. stats' = stats /\ wire' = wire
        BY <1>1, <3>1, <3>4 DEF Remaining
      <4> QED
        BY <1>1, <3>2, <4>1 DEF OnePlace, InHand, Reports
    <3> QED
      BY <3>3, <3>4
  <2> QED
    BY <2>1, <2>2
<1> QED
  BY <1>6, <1>8, <1>9, <1>10 DEF RowsInv

\* The first message is gone, and with it rows that are now stored or dropped.
LEMMA ArrivalKeeps ==
    ASSUME RowsInv, wire # <<>>, wire' = Tail(wire),
           UNCHANGED <<stats, adding, sending, added, clash, raced>>,
           stored' \in [Rows -> Nat], dropped' \subseteq 1 .. added, dropped \subseteq dropped',
           \A r \in Rows : \/ stored'[r] = stored[r] /\ r \notin ToSet(Head(wire))
                           \/ stored'[r] = stored[r] /\ r \in Idle \cup dropped'
                           \/ stored'[r] = stored[r] + 1 /\ r \in ToSet(Head(wire))
    PROVE  RowsInv'
<1>1. /\ wire' \in Seq(Batch) /\ Head(wire) = wire[1] /\ 1 \in DOMAIN wire
      /\ \A k \in DOMAIN wire' : k + 1 \in DOMAIN wire /\ wire'[k] = wire[k + 1]
  BY RowsFacts, TailFacts
<1>2. RowsTyped'
  BY <1>1, RowsFacts DEF RowsInv, RowsTyped
<1>3. RowsKnown'
  <2>1. \A k \in DOMAIN wire' : \A r \in ToSet(wire'[k]) : r <= added
    BY <1>1 DEF RowsInv, RowsKnown
  <2>2. ASSUME NEW r \in Rows, r > added PROVE stored'[r] = 0
    <3>1. stored[r] = 0
      BY <2>2 DEF RowsInv, RowsKnown
    <3>2. r \notin ToSet(Head(wire))
      <4>1. r \in ToSet(Head(wire)) => r <= added
        BY <1>1 DEF RowsInv, RowsKnown
      <4> QED
        BY <2>2, <4>1, RowsFacts DEF Rows
    <3> QED
      BY <3>1, <3>2
  <2> QED
    BY <2>1, <2>2 DEF RowsInv, RowsKnown
<1>4. Overlaps'
  BY DEF RowsInv, Overlaps
<1>5. RowsInOnePlace'
  <2> SUFFICES ASSUME NEW r \in raced + 1 .. added PROVE OnePlace(r)'
    BY DEF RowsInOnePlace
  <2>1. OnePlace(r) /\ r \in Rows /\ stored[r] \in Nat
    BY RowsFacts DEF RowsInv, RowsInOnePlace
  <2>2. InHand(r)' <=> InHand(r)
    BY DEF InHand
  <2>3. /\ Reports(r)' = {k - 1 : k \in Reports(r) \ {1}}
        /\ 1 \in Reports(r) <=> r \in ToSet(Head(wire))
        /\ Reports(r) \subseteq Nat
    BY RowsFacts, CarryingTail DEF Reports
  <2>4. CASE r \in ToSet(Head(wire))
    <3>1. 1 \in Reports(r) /\ Reports(r) = {1} /\ stored[r] = 0 /\ ~InHand(r)
      BY <2>1, <2>3, <2>4 DEF OnePlace
    <3>2. Reports(r)' = {}
      BY <2>3, <3>1
    <3>3. stored'[r] <= 1 /\ (stored'[r] = 0 => r \in Idle \cup dropped')
      BY <2>1, <2>4, <3>1
    <3> QED
      BY <2>2, <3>1, <3>2, <3>3 DEF OnePlace
  <2>5. CASE r \notin ToSet(Head(wire))
    <3>1. stored'[r] = stored[r]
      BY <2>1, <2>5
    <3>2. Reports(r)' = {} <=> Reports(r) = {}
      BY <2>3, <2>5
    <3>3. \A k, l \in Reports(r)' : k = l
      BY <2>1, <2>3 DEF OnePlace
    <3> QED
      BY <2>1, <2>2, <3>1, <3>2, <3>3 DEF OnePlace
  <2> QED
    BY <2>4, <2>5
<1> QED
  BY <1>2, <1>3, <1>4, <1>5 DEF RowsInv

\* The rows of the first report have been added.
LEMMA HeadFacts ==
    ASSUME RowsInv, wire # <<>>
    PROVE  ToSet(Head(wire)) \ {Old} \subseteq 1 .. added
<1>1. Head(wire) = wire[1] /\ 1 \in DOMAIN wire /\ wire[1] \in Batch
  BY RowsFacts, TailFacts
<1>2. ToSet(wire[1]) \subseteq 0 .. MaxRows
  BY <1>1, RowsFacts, MembersIn DEF Batch, Rows, Old
<1>3. \A r \in ToSet(wire[1]) : r <= added
  BY <1>1 DEF RowsInv, RowsKnown
<1> QED
  BY <1>1, <1>2, <1>3, RowsFacts DEF Old

\* A report is lost: its rows are dropped.
LEMMA LoseReportKeeps == ASSUME RowsInv, LoseReport PROVE RowsInv'
<1>1. /\ wire # <<>> /\ wire' = Tail(wire)
      /\ UNCHANGED <<stats, adding, sending, added, stored, clash, raced>>
      /\ dropped' = dropped \cup (ToSet(Head(wire)) \ {Old})
  BY DEF LoseReport
<1>2. dropped' \subseteq 1 .. added
  BY <1>1, RowsFacts, HeadFacts
<1>3. ASSUME NEW r \in Rows PROVE r \notin ToSet(Head(wire)) \/ r \in Idle \cup dropped'
  BY <1>1 DEF Rows, Old
<1> QED
  BY <1>1, <1>2, <1>3, RowsFacts, ArrivalKeeps

\* The rows of the first message are stored, skipped or refused.
LEMMA CollectKeeps == ASSUME RowsInv, Collect PROVE RowsInv'
<1> DEFINE active == ToSet(Head(wire)) \ (Idle \cup {Old})
<1>1. PICK refused \in {{}} \cup {{r} : r \in active} :
         /\ dropped' = dropped \cup refused
         /\ stored' = [r \in Rows |-> stored[r] + IF r \in active \ refused THEN 1 ELSE 0]
  BY DEF Collect
<1>2. /\ wire # <<>> /\ wire' = Tail(wire)
      /\ UNCHANGED <<stats, adding, sending, added, clash, raced>>
  BY DEF Collect
<1>3. refused \subseteq active /\ active \subseteq 1 .. added
  BY <1>2, HeadFacts
<1>4. dropped' \subseteq 1 .. added /\ dropped \subseteq dropped'
  BY <1>1, <1>3, RowsFacts
<1>5. ASSUME NEW r \in Rows
      PROVE  /\ stored'[r] \in Nat
             /\ \/ stored'[r] = stored[r] /\ r \notin ToSet(Head(wire))
                \/ stored'[r] = stored[r] /\ r \in Idle \cup dropped'
                \/ stored'[r] = stored[r] + 1 /\ r \in ToSet(Head(wire))
  <2>1. stored'[r] = stored[r] + IF r \in active \ refused THEN 1 ELSE 0
    BY <1>1
  <2>2. stored[r] \in Nat /\ r # 0
    BY RowsFacts DEF Rows
  <2>3. CASE r \in active \ refused
    BY <2>1, <2>2, <2>3
  <2>4. CASE r \in refused
    BY <1>1, <2>1, <2>2, <2>4
  <2>5. CASE r \notin active
    BY <1>3, <2>1, <2>2, <2>5 DEF Old
  <2> QED
    BY <2>3, <2>4, <2>5
<1>6. stored' \in [Rows -> Nat]
  <2>1. stored' = [r \in Rows |-> stored'[r]]
    BY <1>1
  <2> QED
    BY <1>5, <2>1
<1> HIDE DEF active
<1> QED
  BY <1>2, <1>4, <1>5, <1>6, ArrivalKeeps

\* Nothing else touches the rows.
\* Steps of the monitor and the kernel do not touch the reporter.
LEMMA RowsStutter == ASSUME RowsInv, UNCHANGED rows PROVE RowsInv'
<1>1. UNCHANGED <<stats, adding, sending, added, wire, stored, clash, raced, dropped>>
  BY DEF rows
<1> QED
  BY <1>1 DEF RowsInv, RowsTyped, RowsKnown, Overlaps, RowsInOnePlace, OnePlace, InHand, Reports

\* Every step keeps the invariant.
LEMMA RowsStep == ASSUME RowsInv, [Next]_vars PROVE RowsInv'
<1>1. CASE \/ BeginAddStat \/ EndAddStat \/ SendSkips \/ Marshal
           \/ LoseReport \/ Collect \/ \E ok \in BOOLEAN : Publish(ok)
  BY <1>1, BeginAddStatKeeps, EndAddStatKeeps, SendSkipsKeeps, MarshalKeeps, LoseReportKeeps,
     CollectKeeps, PublishKeeps
<1>2. CASE Connection \/ WatchServer \/ UNCHANGED vars
  BY <1>2, RowsStutter DEF Connection, WatchServer, vars
<1>3. ASSUME NEW i \in Ifaces,
             (\E b \in Bytes : Traffic(i, b)) \/ AddInterface(i) \/ RemoveInterface(i)
      PROVE  RowsInv'
  BY <1>3, RowsStutter DEF Traffic, AddInterface, RemoveInterface, agent
<1>4. CASE CpuTick \/ IowaitDown
  BY <1>4, RowsStutter DEF CpuTick, IowaitDown, agent
<1>5. ASSUME NEW cpuRead \in BOOLEAN, NEW netRead \in BOOLEAN,
             Start(cpuRead, netRead) \/ CollectMetrics(cpuRead, netRead)
      PROVE  RowsInv'
  BY <1>5, RowsStutter DEF Start, CollectMetrics, server
<1>6. CASE ReportSkips \/ \E ok \in BOOLEAN : ReportMetrics(ok)
  BY <1>6, RowsStutter DEF ReportSkips, ReportMetrics, server
<1> QED
  BY <1>1, <1>2, <1>3, <1>4, <1>5, <1>6 DEF Next

\* Nothing has been added yet.
LEMMA RowsInit == Init => RowsInv
<1> SUFFICES ASSUME Init PROVE RowsInv
  OBVIOUS
<1>1. /\ stats = <<>> /\ adding = 0 /\ sending = None /\ added = 0 /\ wire = <<>>
      /\ stored = [r \in Rows |-> 0] /\ clash = FALSE /\ raced = 0 /\ dropped = {}
  BY DEF Init
<1>2. <<>> \in Batch /\ <<>> \in Seq(Batch) /\ ToSet(<<>>) = {} /\ DOMAIN <<>> = {}
  BY DEF Batch, ToSet
<1>3. MaxRows \in Nat /\ clash \in BOOLEAN /\ sending \in Batch \cup {None}
  BY <1>1, TelemetryAssumption
<1>4. stored \in [Rows -> Nat] /\ added \in 0 .. MaxRows
  BY <1>1, <1>3
<1>5. RowsTyped
  BY <1>1, <1>2, <1>3, <1>4 DEF RowsTyped
<1> QED
  BY <1>1, <1>2, <1>5 DEF RowsInv, RowsKnown, Overlaps, RowsInOnePlace

\* A row is stored at most once, and missing only for a reason.
LEMMA RowsInvImplies == RowsInv => RowsStoredOnce
<1> SUFFICES ASSUME RowsInv, NEW r \in raced + 1 .. added
             PROVE  /\ stored[r] <= 1
                    /\ ~Pending(r) /\ stored[r] = 0 => r \in Idle \cup dropped
  BY DEF RowsStoredOnce
<1>1. OnePlace(r)
  BY DEF RowsInv, RowsInOnePlace
<1>2. ~Pending(r) => ~InHand(r) /\ Reports(r) = {}
  BY DEF Pending, InHand, Reports, Carrying, ToSet
<1> QED
  BY <1>1, <1>2 DEF OnePlace

\* So it always holds.
LEMMA RowsAlways == Spec => []RowsInv
<1>1. RowsInv /\ [Next]_vars => RowsInv'
  BY RowsStep
<1> QED
  BY <1>1, RowsInit, PTL DEF Spec

\* Whatever reports fail, are lost or are refused, a row added since the last
\* overlap of AddStat and send is never stored twice, and is missing only for a
\* reason, for any number of rows and reports (reporter.go:33-35, 49-87;
\* collector.go:40-65).
THEOREM RowsAlwaysStoredOnce == Spec => []RowsStoredOnce
<1> QED
  BY RowsAlways, RowsInvImplies, PTL

-----------------------------------------------------------------------------
(* The system monitor. *)

\* What was last read of a counter and of the times, zero if nothing was.
LastRead(i) == IF lastNetStats[i] = None THEN 0 ELSE lastNetStats[i]
LastCpu == IF lastCPUStat = None THEN [total |-> 0, idle |-> 0] ELSE lastCPUStat

\* A counter that has not restarted shows what was read last and the bytes
\* since; one that has, no more than the bytes since.
CountersFit ==
    \A i \in Ifaces : dev[i] # None =>
        IF i \in restarted THEN dev[i] <= unread[i] ELSE dev[i] = LastRead(i) + unread[i]

\* The bytes behind the counters and the readings.
Traffics == [i \in Ifaces |-> LastRead(i) + unread[i]]

\* Each event adds at most a share of half the word.
TrafficBounded ==
    /\ 2 * SumFunctionOnSet(Traffics, Ifaces) * MaxEvents <= W * events
    /\ events = 0 => SumFunctionOnSet(Traffics, Ifaces) = 0

\* Busy time only grows; idle time too, unless it went down since it was read.
TimesFit ==
    /\ cpu.idle <= cpu.total /\ cpu.total <= events
    /\ LastCpu.idle <= LastCpu.total /\ LastCpu.total <= events
    /\ LastCpu.total - LastCpu.idle <= cpu.total - cpu.idle
    /\ ~back => LastCpu.idle <= cpu.idle

\* What the database would take of a sample is true.
SampleTrue ==
    sample # None =>
        /\ Storable(sample.net) =>
              sample.net <= sample.bytes /\ (sample.exact => sample.net = sample.bytes)
        /\ sample.smooth => sample.cpu <= SCALE

\* A counter for each interface there is.
Counters == [Ifaces -> 0 .. W - 1 \cup {None}]

\* What holds of the counters, of the times, and of the sample.
NetInv ==
    /\ dev \in Counters /\ lastNetStats \in Counters
    /\ unread \in [Ifaces -> Nat] /\ restarted \subseteq Ifaces
    /\ CountersFit /\ TrafficBounded

CpuInv ==
    /\ cpu \in Times /\ lastCPUStat \in Times \cup {None} /\ back \in BOOLEAN
    /\ TimesFit

SampleInv ==
    /\ sample \in Sample \cup {None} /\ metrics \in Sample \cup {None}
    /\ SampleTrue /\ StoredMetricsTrue

\* The inductive invariant of the monitor and what it measures.
HostInv == FrameTyped /\ NetInv /\ CpuInv /\ SampleInv

-----------------------------------------------------------------------------
\* The constants, as the arithmetic needs them.
LEMMA Words ==
    /\ IsFiniteSet(Ifaces) /\ None \notin Int
    /\ MaxEvents \in Nat /\ SCALE \in Nat \ {0} /\ W \in Nat \ {0} /\ MaxEvents < W
    /\ \A b \in Bytes : b \in Nat /\ 2 * b * MaxEvents <= W
<1>1. /\ IsFiniteSet(Ifaces) /\ None \notin Int /\ Bytes \subseteq Nat
      /\ MaxEvents \in Nat /\ SCALE \in Nat \ {0} /\ W \in Nat /\ SCALE * MaxEvents < W
      /\ \A b \in Bytes : 2 * b * MaxEvents <= W
  BY TelemetryAssumption
<1>2. MaxEvents <= SCALE * MaxEvents /\ SCALE * MaxEvents \in Nat
  BY <1>1
<1> QED
  BY <1>1, <1>2

\* Adding multiples of the word does not change what is below it.
LEMMA ModUnique ==
    ASSUME NEW w \in Nat, w > 0, NEW a \in 0 .. w - 1, NEW k \in Int
    PROVE  (a + w * k) % w = a
<1> DEFINE x == a + w * k
           q == x \div w
           r == x % w
<1>1. w * k \in Int /\ x \in Int
  OBVIOUS
<1> HIDE DEF x
<1>2. q \in Int /\ r \in 0 .. w - 1 /\ x = w * q + r
  BY <1>1
<1> HIDE DEF q, r
<1>3. w * (k - q) = r - a /\ k - q \in Int
  <2>1. w * (k - q) = w * k - w * q /\ w * q \in Int
    BY <1>2
  <2> QED
    BY <1>1, <1>2, <2>1 DEF x
<1>4. \A m \in Int : m >= 1 => w * m >= w
  OBVIOUS
<1>5. \A m \in Int : m <= -1 => w * m <= -w
  OBVIOUS
<1>6. k - q = 0
  BY <1>2, <1>3, <1>4, <1>5
<1>7. r = a
  BY <1>2, <1>3, <1>6
<1> QED
  BY <1>7 DEF r, x

\* A difference and its remainder.
LEMMA MinusFacts ==
    ASSUME NEW x \in Int, NEW y \in Int
    PROVE  /\ Minus(x, y) \in 0 .. W - 1
           /\ \E k \in Int : Minus(x, y) = (x - y) + W * k
           /\ 0 <= x - y /\ x - y < W => Minus(x, y) = x - y
<1>1. W \in Nat /\ W > 0
  BY Words
<1> DEFINE d == x - y
           q == d \div W
<1>2. d \in Int
  OBVIOUS
<1> HIDE DEF d
<1>3. q \in Int /\ d % W \in 0 .. W - 1 /\ d = W * q + (d % W)
  BY <1>1, <1>2
<1> HIDE DEF q
<1>4. (d % W) = d + W * (-q) /\ -q \in Int
  <2>1. W * (-q) = -(W * q) /\ W * q \in Int
    BY <1>1, <1>3
  <2> QED
    BY <1>1, <1>2, <1>3, <2>1
<1>5. ASSUME 0 <= d, d < W PROVE d % W = d
  <2>1. (d + W * 0) % W = d
    BY <1>1, <1>2, <1>5, ModUnique
  <2> QED
    BY <1>1, <1>2, <2>1
<1> QED
  BY <1>3, <1>4, <1>5 DEF d, Minus

\* What grows by a share of half the word at each event stays within half of it.
LEMMA HalfOfWord ==
    ASSUME NEW w \in Nat, NEW m \in Nat, NEW e \in 0 .. m, NEW x \in Nat,
           2 * x * m <= w * e, e = 0 => x = 0
    PROVE  2 * x <= w
<1>1. CASE e = 0
  BY <1>1
<1>2. CASE e # 0
  <2>1. m >= 1 /\ w * e <= w * m
    BY <1>2
  <2> DEFINE y == 2 * x
  <2>2. y \in Nat /\ y * m <= w * m
    BY <2>1
  <2> HIDE DEF y
  <2>3. y > w => y * m > w * m
    BY <2>1, <2>2
  <2>4. y <= w
    BY <2>2, <2>3
  <2> QED
    BY <2>4 DEF y
<1> QED
  BY <1>1, <1>2

\* The bytes behind the counters, added up, are at most half the word.
LEMMA TrafficFacts ==
    ASSUME FrameTyped, NetInv
    PROVE  /\ \A i \in Ifaces : /\ LastRead(i) \in Nat /\ unread[i] \in Nat
                                /\ Traffics[i] = LastRead(i) + unread[i] /\ Traffics[i] \in Nat
                                /\ dev[i] # None => dev[i] \in 0 .. W - 1
                                /\ lastNetStats[i] # None =>
                                      lastNetStats[i] = LastRead(i) /\ LastRead(i) \in 0 .. W - 1
           /\ SumFunctionOnSet(Traffics, Ifaces) \in Nat
           /\ 2 * SumFunctionOnSet(Traffics, Ifaces) <= W
           /\ events \in 0 .. MaxEvents
<1>1. \A i \in Ifaces : /\ LastRead(i) \in Nat /\ unread[i] \in Nat
                        /\ Traffics[i] = LastRead(i) + unread[i] /\ Traffics[i] \in Nat
                        /\ dev[i] # None => dev[i] \in 0 .. W - 1
                        /\ lastNetStats[i] # None =>
                              lastNetStats[i] = LastRead(i) /\ LastRead(i) \in 0 .. W - 1
  BY Words DEF NetInv, Counters, LastRead, Traffics
<1> DEFINE x == SumFunctionOnSet(Traffics, Ifaces)
<1>2. x \in Nat
  BY <1>1, Words, SumNat
<1>3. 2 * x * MaxEvents <= W * events /\ (events = 0 => x = 0) /\ events \in 0 .. MaxEvents
  BY DEF NetInv, TrafficBounded, FrameTyped
<1> HIDE DEF x
<1>4. 2 * x <= W
  BY <1>2, <1>3, Words, HalfOfWord
<1> QED
  BY <1>1, <1>2, <1>3, <1>4 DEF x

\* Events and traffic keep pace.
LEMMA Pace ==
    ASSUME NEW w \in Nat, NEW m \in Nat, NEW x \in Nat, NEW y \in Nat, NEW e \in Nat,
           NEW b \in Nat, 2 * x * m <= w * e
    PROVE  /\ y <= x => 2 * y * m <= w * e /\ 2 * y * m <= w * (e + 1)
           /\ y <= x + b /\ 2 * b * m <= w => 2 * y * m <= w * (e + 1)
<1>1. \A c \in Nat : y <= c => y * m <= c * m
  OBVIOUS
<1>2. w * (e + 1) = w * e + w /\ w * e \in Nat
  OBVIOUS
<1>3. 2 * y * m = 2 * (y * m) /\ 2 * x * m = 2 * (x * m) /\ 2 * b * m = 2 * (b * m)
  OBVIOUS
<1>4. y * m \in Nat /\ x * m \in Nat /\ b * m \in Nat /\ (x + b) * m = x * m + b * m
  OBVIOUS
<1>5. y <= x => y * m <= x * m
  BY <1>1
<1>6. y <= x + b => y * m <= x * m + b * m
  BY <1>1, <1>4
<1> QED
  BY <1>2, <1>3, <1>4, <1>5, <1>6

\* The difference of the counters, if the database takes it, is at most the
\* bytes since they were read, and exactly that without a restart.
LEMMA DeltaTrue ==
    ASSUME FrameTyped, NetInv
    PROVE  /\ NetworkDelta \in 0 .. W - 1 /\ SumFunctionOnSet(unread, Known) \in Nat
           /\ Storable(NetworkDelta) => NetworkDelta <= SumFunctionOnSet(unread, Known)
           /\ Storable(NetworkDelta) /\ restarted \cap Known = {}
                => NetworkDelta = SumFunctionOnSet(unread, Known)
<1> DEFINE f == [i \in Known |-> Minus(dev[i], lastNetStats[i])]
           d == [i \in Known |-> dev[i] - lastNetStats[i]]
           F == SumFunctionOnSet(f, Known)
           D == SumFunctionOnSet(d, Known)
           U == SumFunctionOnSet(unread, Known)
           L == SumFunctionOnSet(lastNetStats, Known)
           N == SumFunctionOnSet(dev, Known)
           T == SumFunctionOnSet(Traffics, Known)
           All == SumFunctionOnSet(Traffics, Ifaces)
<1>1. Known \in SUBSET Ifaces /\ IsFiniteSet(Known)
  BY Words, FS_Subset DEF Known
<1>2. ASSUME NEW i \in Known
      PROVE  /\ dev[i] \in 0 .. W - 1 /\ lastNetStats[i] \in 0 .. W - 1 /\ unread[i] \in Nat
             /\ Traffics[i] = lastNetStats[i] + unread[i] /\ Traffics[i] \in Nat
             /\ IF i \in restarted THEN dev[i] <= unread[i]
                ELSE dev[i] = lastNetStats[i] + unread[i]
  <2>1. i \in Ifaces /\ dev[i] # None /\ lastNetStats[i] # None
    BY DEF Known
  <2>2. IF i \in restarted THEN dev[i] <= unread[i] ELSE dev[i] = LastRead(i) + unread[i]
    BY <2>1 DEF NetInv, CountersFit
  <2> QED
    BY <2>1, <2>2, TrafficFacts
<1>3. ASSUME NEW i \in Known
      PROVE  /\ f[i] \in Int /\ d[i] \in Int
             /\ \E k \in Int : f[i] = d[i] + W * k
             /\ d[i] <= unread[i] /\ dev[i] = d[i] + lastNetStats[i]
             /\ restarted \cap Known = {} => d[i] = unread[i]
  <2>1. dev[i] \in Int /\ lastNetStats[i] \in Int /\ unread[i] \in Nat
    BY <1>2
  <2>2. f[i] = Minus(dev[i], lastNetStats[i]) /\ d[i] = dev[i] - lastNetStats[i]
    OBVIOUS
  <2>3. f[i] \in Int /\ \E k \in Int : f[i] = d[i] + W * k
    <3>1. Minus(dev[i], lastNetStats[i]) \in 0 .. W - 1
      BY <2>1, MinusFacts
    <3>2. \E k \in Int : Minus(dev[i], lastNetStats[i]) = (dev[i] - lastNetStats[i]) + W * k
      BY <2>1, MinusFacts
    <3> QED
      BY <2>2, <3>1, <3>2
  <2>4. d[i] \in Int /\ d[i] <= unread[i] /\ dev[i] = d[i] + lastNetStats[i]
    BY <1>2, <2>2
  <2>5. restarted \cap Known = {} => d[i] = unread[i]
    BY <1>2, <2>2
  <2> QED
    BY <2>3, <2>4, <2>5
<1>4. NetworkDelta = F % W
  BY DEF NetworkDelta, SumFunction
<1> HIDE DEF f, d
<1>5. /\ F \in Int /\ D \in Int /\ U \in Nat /\ L \in Nat /\ N \in Nat /\ T \in Nat
      /\ \A i \in Known : /\ dev[i] \in Nat /\ lastNetStats[i] \in Nat
                          /\ dev[i] \in Int /\ lastNetStats[i] \in Int /\ unread[i] \in Int
                          /\ Traffics[i] \in Int /\ lastNetStats[i] <= Traffics[i]
                          /\ unread[i] <= Traffics[i]
  <2>1. \A i \in Known : /\ dev[i] \in Nat /\ lastNetStats[i] \in Nat
                         /\ dev[i] \in Int /\ lastNetStats[i] \in Int /\ unread[i] \in Int
                         /\ Traffics[i] \in Int /\ lastNetStats[i] <= Traffics[i]
                         /\ unread[i] <= Traffics[i]
    BY <1>2
  <2>2. F \in Int /\ D \in Int
    BY <1>1, <1>3, SumType
  <2>3. U \in Nat /\ L \in Nat /\ N \in Nat /\ T \in Nat
    BY <1>1, <1>2, <2>1, SumNat
  <2> QED
    BY <2>1, <2>2, <2>3
<1>6. PICK k \in Int : F = D + W * k
  <2>1. W \in Int
    BY Words
  <2> DEFINE q == [i \in Known |-> CHOOSE k \in Int : f[i] = d[i] + W * k]
  <2>2. \A i \in Known : d[i] \in Int /\ q[i] \in Int /\ f[i] = d[i] + W * q[i]
    BY <1>3
  <2> HIDE DEF q
  <2>3. SumFunctionOnSet(q, Known) \in Int
    BY <1>1, <2>2, SumType
  <2>4. F = D + W * SumFunctionOnSet(q, Known)
    BY <1>1, <2>1, <2>2, SumLinear
  <2> QED
    BY <2>3, <2>4
<1>7. D <= U /\ (restarted \cap Known = {} => U <= D)
  <2>1. D <= U
    BY <1>1, <1>3, <1>5, SumMonotone
  <2>2. ASSUME restarted \cap Known = {} PROVE U <= D
    <3>1. \A i \in Known : unread[i] <= d[i]
      BY <1>3, <1>5, <2>2
    <3> QED
      BY <1>1, <1>3, <1>5, <3>1, SumMonotone
  <2> QED
    BY <2>1, <2>2
<1>8. N = D + L
  <2>1. \A i \in Known : d[i] \in Int /\ lastNetStats[i] \in Int
                          /\ dev[i] = d[i] + 1 * lastNetStats[i]
    BY <1>3, <1>5
  <2>2. N = D + 1 * L
    BY <1>1, <2>1, SumLinear
  <2> QED
    BY <1>5, <2>2
<1>9. L <= T /\ U <= T
  BY <1>1, <1>5, SumMonotone
<1>10. T <= All /\ 2 * All <= W /\ All \in Nat
  <2>1. \A i \in Ifaces : Traffics[i] \in Nat
    BY TrafficFacts
  <2> QED
    BY <1>1, <2>1, Words, SumPart, TrafficFacts
<1> HIDE DEF F, D, U, L, N, T, All
<1>11. W \in Nat /\ W > 0
  BY Words
<1>12. NetworkDelta \in 0 .. W - 1
  BY <1>4, <1>5, <1>11
<1>13. CASE D >= 0
  <2>1. D \in 0 .. W - 1
    BY <1>5, <1>7, <1>9, <1>10, <1>11, <1>13
  <2>2. NetworkDelta = D
    BY <1>4, <1>6, <1>11, <2>1, ModUnique
  <2> QED
    BY <1>5, <1>7, <1>12, <2>2 DEF U
<1>14. CASE D < 0
  <2>1. D + W \in 0 .. W - 1 /\ 2 * (D + W) >= W
    BY <1>5, <1>8, <1>9, <1>10, <1>11, <1>14
  <2>2. F = (D + W) + W * (k - 1)
    <3>1. W * (k - 1) = W * k - W /\ W * k \in Int
      BY <1>6, <1>11
    <3> QED
      BY <1>5, <1>6, <1>11, <3>1
  <2>3. NetworkDelta = D + W
    <3>1. k - 1 \in Int
      BY <1>6
    <3> QED
      BY <1>4, <1>11, <2>1, <2>2, <3>1, ModUnique
  <2>4. ~Storable(NetworkDelta)
    BY <1>5, <1>11, <2>1, <2>3 DEF Storable
  <2> QED
    BY <1>5, <1>12, <2>4 DEF U
<1> QED
  BY <1>5, <1>13, <1>14

\* The percentage is at most SCALE unless the idle time went down.
LEMMA PercentTrue ==
    ASSUME FrameTyped, CpuInv, lastCPUStat # None
    PROVE  CpuUsage \in Nat /\ (~back => CpuUsage <= SCALE)
<1> DEFINE x == cpu.total - lastCPUStat.total
           y == cpu.idle - lastCPUStat.idle
           t == Minus(cpu.total, lastCPUStat.total)
           i == Minus(cpu.idle, lastCPUStat.idle)
           busy == Minus(t, i)
<1>1. /\ cpu.total \in Nat /\ cpu.idle \in Nat
      /\ lastCPUStat.total \in Nat /\ lastCPUStat.idle \in Nat
      /\ cpu.total <= events /\ events \in 0 .. MaxEvents
      /\ y <= x /\ (~back => 0 <= y)
  BY DEF FrameTyped, CpuInv, Times, TimesFit, LastCpu
<1>2. SCALE \in Nat /\ SCALE > 0 /\ W \in Nat /\ W > 0 /\ MaxEvents \in Nat /\ MaxEvents < W
  BY Words
<1>3. /\ t \in 0 .. W - 1 /\ i \in 0 .. W - 1
      /\ 0 <= x /\ x < W => t = x
      /\ 0 <= y /\ y < W => i = y
  <2>1. /\ cpu.total \in Int /\ lastCPUStat.total \in Int
        /\ cpu.idle \in Int /\ lastCPUStat.idle \in Int
    BY <1>1
  <2> QED
    BY <2>1, MinusFacts
<1>4. /\ busy \in 0 .. W - 1
      /\ 0 <= t - i /\ t - i < W => busy = t - i
  <2>1. t \in Int /\ i \in Int
    BY <1>2, <1>3
  <2> HIDE DEF t, i
  <2> QED
    BY <2>1, MinusFacts
<1>5. CpuUsage = IF t = 0 THEN 0 ELSE ((SCALE * busy) % W) \div t
  BY DEF CpuUsage, Percent
<1>6. x \in Int /\ y \in Int /\ x <= MaxEvents
  BY <1>1, <1>2
<1> HIDE DEF x, y, t, i, busy
<1>7. (SCALE * busy) % W \in 0 .. W - 1
  <2>1. SCALE * busy \in Nat
    BY <1>2, <1>4
  <2> QED
    BY <1>2, <2>1
<1>8. \A n \in Nat, m \in Nat : m > 0 => n \div m \in Nat
  OBVIOUS
<1>9. CpuUsage \in Nat
  BY <1>2, <1>3, <1>5, <1>7, <1>8
<1>10. ASSUME ~back PROVE CpuUsage <= SCALE
  <2>1. 0 <= y /\ y <= x /\ x < W /\ t = x /\ i = y /\ busy = x - y
    BY <1>1, <1>2, <1>3, <1>4, <1>6, <1>10
  <2>2. CASE t = 0
    BY <1>2, <1>5, <2>2
  <2>3. CASE t # 0
    <3>1. busy \in Nat /\ t \in Nat /\ t > 0 /\ busy <= t /\ busy <= MaxEvents
      BY <1>2, <1>3, <1>4, <1>6, <2>1, <2>3
    <3>2. SCALE * busy <= SCALE * t /\ SCALE * busy <= SCALE * MaxEvents /\ SCALE * busy \in Nat
      BY <1>2, <3>1
    <3>3. SCALE * MaxEvents < W /\ SCALE * MaxEvents \in Nat
      BY <1>2, TelemetryAssumption
    <3>4. (SCALE * busy) % W = SCALE * busy
      <4> DEFINE z == SCALE * busy
      <4>1. z \in 0 .. W - 1
        BY <1>2, <3>2, <3>3
      <4> HIDE DEF z
      <4>2. (z + W * 0) % W = z
        BY <1>2, <4>1, ModUnique
      <4>3. z % W = z
        BY <1>2, <4>1, <4>2
      <4> QED
        BY <4>3 DEF z
    <3>5. (SCALE * busy) \div t <= SCALE
      <4> DEFINE z == SCALE * busy
                 q == z \div t
      <4>1. z \in Nat /\ z <= SCALE * t
        BY <3>2
      <4> HIDE DEF z
      <4>2. q \in Int /\ t * q <= z
        BY <3>1, <4>1
      <4> HIDE DEF q
      <4>3. t * q <= t * SCALE
        BY <1>2, <3>1, <4>1, <4>2
      <4>4. q > SCALE => t * q > t * SCALE
        BY <1>2, <3>1, <4>2
      <4>5. q <= SCALE
        BY <1>2, <3>1, <4>2, <4>3, <4>4
      <4> QED
        BY <4>5 DEF q, z
    <3> QED
      BY <1>5, <2>3, <3>4, <3>5
  <2> QED
    BY <2>2, <2>3
<1> QED
  BY <1>9, <1>10

\* Every step counts at most one event.
LEMMA FrameStep ==
    ASSUME FrameTyped, [Next]_vars
    PROVE  FrameTyped' /\ events' \in {events, events + 1}
<1>1. /\ connected \in BOOLEAN /\ serverAvailable \in BOOLEAN /\ events \in 0 .. MaxEvents
      /\ MaxEvents \in Nat
  BY Words DEF FrameTyped
<1> DEFINE Counted == events' = events \/ (events < MaxEvents /\ events' = events + 1)
           Kept == connected' = connected /\ serverAvailable' = serverAvailable
<1>2. ASSUME Event PROVE Counted
  BY <1>2 DEF Event
<1>3. CASE Connection \/ WatchServer
  <2>1. Counted /\ connected' \in BOOLEAN /\ serverAvailable' \in BOOLEAN
    BY <1>1, <1>2, <1>3 DEF Connection, WatchServer
  <2> QED
    BY <1>1, <2>1 DEF FrameTyped
<1>4. ASSUME Counted, Kept PROVE FrameTyped' /\ events' \in {events, events + 1}
  <2>1. events' \in 0 .. MaxEvents
    BY <1>1, <1>4
  <2>2. connected' \in BOOLEAN /\ serverAvailable' \in BOOLEAN
    BY <1>1, <1>4
  <2> QED
    BY <1>4, <2>1, <2>2 DEF FrameTyped
<1>5. CASE \/ BeginAddStat \/ EndAddStat \/ SendSkips \/ Marshal
           \/ LoseReport \/ Collect \/ \E ok \in BOOLEAN : Publish(ok)
  <2>1. Counted /\ Kept
    BY <1>2, <1>5 DEF BeginAddStat, EndAddStat, SendSkips, Marshal, LoseReport, Collect, Publish,
       rest
  <2> QED
    BY <1>4, <2>1
<1>6. CASE UNCHANGED vars
  BY <1>4, <1>6 DEF vars
<1>7. ASSUME NEW i \in Ifaces,
             (\E b \in Bytes : Traffic(i, b)) \/ AddInterface(i) \/ RemoveInterface(i)
      PROVE  FrameTyped' /\ events' \in {events, events + 1}
  BY <1>2, <1>4, <1>7 DEF Traffic, AddInterface, RemoveInterface, agent
<1>8. CASE CpuTick \/ IowaitDown
  BY <1>2, <1>4, <1>8 DEF CpuTick, IowaitDown, agent
<1>9. ASSUME NEW cpuRead \in BOOLEAN, NEW netRead \in BOOLEAN,
             Start(cpuRead, netRead) \/ CollectMetrics(cpuRead, netRead)
      PROVE  FrameTyped' /\ events' \in {events, events + 1}
  <2>1. Counted /\ Kept
    BY <1>2, <1>9 DEF Start, CollectMetrics, server
  <2> QED
    BY <1>4, <2>1
<1>10. CASE ReportSkips \/ \E ok \in BOOLEAN : ReportMetrics(ok)
  BY <1>2, <1>4, <1>10 DEF ReportSkips, ReportMetrics, server
<1> QED
  BY <1>3, <1>5, <1>6, <1>7, <1>8, <1>9, <1>10 DEF Next

\* The bound on traffic is kept if one interface gains b bytes at an event.
LEMMA BoundGrows ==
    ASSUME FrameTyped, NetInv, events' = events + 1,
           NEW i \in Ifaces, NEW b \in Bytes,
           lastNetStats' \in Counters, unread' \in [Ifaces -> Nat],
           \A j \in Ifaces \ {i} : Traffics'[j] <= Traffics[j],
           Traffics'[i] <= Traffics[i] + b
    PROVE  TrafficBounded'
<1> DEFINE x == SumFunctionOnSet(Traffics, Ifaces)
           y == SumFunctionOnSet(Traffics', Ifaces)
<1>1. \A j \in Ifaces : Traffics[j] \in Int /\ Traffics'[j] \in Nat
  BY TrafficFacts DEF Traffics, LastRead, Counters
<1>2. y <= x + b
  BY <1>1, Words, SumGrows
<1>3. x \in Nat /\ y \in Nat /\ events \in 0 .. MaxEvents
  BY <1>1, Words, TrafficFacts, SumNat
<1>4. 2 * x * MaxEvents <= W * events
  BY DEF NetInv, TrafficBounded
<1> HIDE DEF x, y
<1>5. b \in Nat /\ 2 * b * MaxEvents <= W /\ W \in Nat /\ MaxEvents \in Nat
  BY Words
<1>6. 2 * y * MaxEvents <= W * (events + 1)
  BY <1>2, <1>3, <1>4, <1>5, Pace
<1>7. events' # 0
  BY <1>3, <1>5
<1> QED
  BY <1>6, <1>7 DEF y, TrafficBounded

\* It is kept at any step where no interface gains any.
LEMMA BoundKept ==
    ASSUME FrameTyped, NetInv, events' \in {events, events + 1},
           lastNetStats' \in Counters, unread' \in [Ifaces -> Nat],
           \A j \in Ifaces : Traffics'[j] <= Traffics[j]
    PROVE  TrafficBounded'
<1> DEFINE x == SumFunctionOnSet(Traffics, Ifaces)
           y == SumFunctionOnSet(Traffics', Ifaces)
<1>1. \A j \in Ifaces : Traffics[j] \in Int /\ Traffics'[j] \in Nat /\ Traffics'[j] \in Int
  BY TrafficFacts DEF Traffics, LastRead, Counters
<1>2. y <= x
  BY <1>1, Words, SumMonotone
<1>3. x \in Nat /\ y \in Nat /\ events \in 0 .. MaxEvents
  BY <1>1, Words, TrafficFacts, SumNat
<1>4. 2 * x * MaxEvents <= W * events /\ (events = 0 => x = 0)
  BY DEF NetInv, TrafficBounded
<1> HIDE DEF x, y
<1>5. W \in Nat /\ MaxEvents \in Nat /\ 0 \in Nat /\ events \in Nat
  BY <1>3, Words
<1>6. 2 * y * MaxEvents <= W * events /\ 2 * y * MaxEvents <= W * (events + 1)
  BY <1>2, <1>3, <1>4, <1>5, Pace
<1>7. events' = 0 => y = 0
  BY <1>2, <1>3, <1>4, <1>5
<1> QED
  BY <1>6, <1>7 DEF y, TrafficBounded

\* An interface counts bytes: its counter does not wrap.
LEMMA TrafficKeeps ==
    ASSUME FrameTyped, NetInv, NEW i \in Ifaces, NEW b \in Bytes, Traffic(i, b)
    PROVE  NetInv'
<1>1. /\ dev[i] # None /\ events' = events + 1 /\ events < MaxEvents
      /\ dev' = [dev EXCEPT ![i] = (@ + b) % W]
      /\ unread' = [unread EXCEPT ![i] = @ + b]
      /\ UNCHANGED <<restarted, lastNetStats>>
  BY DEF Traffic, Event, agent
<1>2. b \in Nat /\ 2 * b * MaxEvents <= W /\ W \in Nat /\ W > 0 /\ MaxEvents \in Nat
  BY Words
<1>3. unread \in [Ifaces -> Nat] /\ dev \in Counters /\ lastNetStats \in Counters
  BY DEF NetInv
<1>4. /\ unread' \in [Ifaces -> Nat]
      /\ \A j \in Ifaces : unread'[j] = IF j = i THEN unread[i] + b ELSE unread[j]
  BY <1>1, <1>2, <1>3
<1>5. \A j \in Ifaces : LastRead(j)' = LastRead(j)
  BY <1>1 DEF LastRead
<1>6. \A j \in Ifaces : Traffics'[j] = IF j = i THEN Traffics[i] + b ELSE Traffics[j]
  BY <1>2, <1>4, <1>5, TrafficFacts DEF Traffics
<1>7. TrafficBounded'
  <2>1. \A j \in Ifaces \ {i} : Traffics'[j] <= Traffics[j]
    BY <1>6, TrafficFacts
  <2>2. Traffics'[i] <= Traffics[i] + b
    BY <1>2, <1>6, TrafficFacts
  <2> QED
    BY <1>1, <1>3, <1>4, <2>1, <2>2, BoundGrows
<1>8. dev[i] + b <= Traffics'[i] /\ dev[i] + b \in Nat
  <2>1. IF i \in restarted THEN dev[i] <= unread[i] ELSE dev[i] = LastRead(i) + unread[i]
    BY <1>1 DEF NetInv, CountersFit
  <2>2. /\ LastRead(i) \in Nat /\ unread[i] \in Nat
        /\ Traffics[i] = LastRead(i) + unread[i]
    BY TrafficFacts
  <2>3. dev[i] \in Nat
    <3>1. dev[i] \in 0 .. W - 1
      BY <1>1, TrafficFacts
    <3> QED
      BY <3>1
  <2>4. dev[i] <= Traffics[i]
    BY <2>1, <2>2, <2>3
  <2>5. Traffics'[i] = Traffics[i] + b
    BY <1>6
  <2> QED
    BY <1>2, <2>2, <2>3, <2>4, <2>5
<1>9. dev[i] + b \in 0 .. W - 1
  <2> DEFINE y == SumFunctionOnSet(Traffics', Ifaces)
  <2>1. \A j \in Ifaces : Traffics'[j] \in Nat
    BY <1>2, <1>6, TrafficFacts
  <2>2. y \in Nat /\ Traffics'[i] <= y
    BY <2>1, Words, SumNat, SumTerm
  <2>3. /\ 2 * y * MaxEvents <= W * events' /\ (events' = 0 => y = 0)
        /\ events' \in 0 .. MaxEvents
    BY <1>1, <1>2, <1>7, TrafficFacts DEF TrafficBounded
  <2> HIDE DEF y
  <2>4. 2 * y <= W
    BY <1>2, <2>2, <2>3, HalfOfWord
  <2> QED
    BY <1>2, <1>8, <2>1, <2>2, <2>4
<1>10. (dev[i] + b) % W = dev[i] + b
  <2> DEFINE n == dev[i] + b
  <2>1. n \in 0 .. W - 1
    BY <1>9
  <2> HIDE DEF n
  <2>2. (n + W * 0) % W = n /\ n + W * 0 = n
    BY <1>2, <2>1, ModUnique
  <2> QED
    BY <2>2 DEF n
<1>11. dev' \in Counters /\ \A j \in Ifaces : dev'[j] = IF j = i THEN dev[i] + b ELSE dev[j]
  BY <1>1, <1>3, <1>9, <1>10 DEF Counters
<1>12. CountersFit'
  <2> SUFFICES ASSUME NEW j \in Ifaces, dev'[j] # None
               PROVE  IF j \in restarted THEN dev'[j] <= unread'[j]
                      ELSE dev'[j] = LastRead(j) + unread'[j]
    BY <1>1, <1>5 DEF CountersFit
  <2>1. dev[j] # None
    BY <1>1, <1>11
  <2>2. IF j \in restarted THEN dev[j] <= unread[j] ELSE dev[j] = LastRead(j) + unread[j]
    BY <2>1 DEF NetInv, CountersFit
  <2> QED
    BY <1>2, <1>4, <1>11, <2>1, <2>2, TrafficFacts
<1> QED
  BY <1>1, <1>3, <1>4, <1>7, <1>11, <1>12 DEF NetInv

\* An interface appears or goes.
LEMMA InterfaceKeeps ==
    ASSUME FrameTyped, NetInv, NEW i \in Ifaces, AddInterface(i) \/ RemoveInterface(i)
    PROVE  NetInv'
<1>1. /\ events' = events + 1 /\ UNCHANGED <<unread, lastNetStats>>
      /\ \/ dev' = [dev EXCEPT ![i] = 0] /\ restarted' = restarted \cup {i}
         \/ dev' = [dev EXCEPT ![i] = None] /\ restarted' = restarted
  BY DEF AddInterface, RemoveInterface, Event, agent
<1>2. /\ unread \in [Ifaces -> Nat] /\ dev \in Counters /\ lastNetStats \in Counters
      /\ restarted \subseteq Ifaces /\ W \in Nat /\ W > 0
  BY Words DEF NetInv
<1>3. dev' \in Counters /\ \A j \in Ifaces : j # i => dev'[j] = dev[j]
  BY <1>1, <1>2 DEF Counters
<1>4. \A j \in Ifaces : LastRead(j)' = LastRead(j)
  BY <1>1 DEF LastRead
<1>5. TrafficBounded'
  <2>1. \A j \in Ifaces : Traffics'[j] <= Traffics[j]
    BY <1>1, <1>4, TrafficFacts DEF Traffics
  <2> QED
    BY <1>1, <1>2, <2>1, BoundKept
<1>6. CountersFit'
  <2> SUFFICES ASSUME NEW j \in Ifaces, dev'[j] # None
               PROVE  IF j \in restarted' THEN dev'[j] <= unread[j]
                      ELSE dev'[j] = LastRead(j) + unread[j]
    BY <1>1, <1>4 DEF CountersFit
  <2>1. CASE j = i
    <3>1. dev'[j] = 0 /\ j \in restarted'
      BY <1>1, <1>2, <2>1 DEF Counters
    <3> QED
      BY <1>2, <3>1
  <2>2. CASE j # i
    <3>1. dev'[j] = dev[j] /\ (j \in restarted' <=> j \in restarted)
      BY <1>1, <1>3, <2>2
    <3>2. IF j \in restarted THEN dev[j] <= unread[j] ELSE dev[j] = LastRead(j) + unread[j]
      BY <3>1 DEF NetInv, CountersFit
    <3> QED
      BY <3>1, <3>2
  <2> QED
    BY <2>1, <2>2
<1>7. restarted' \subseteq Ifaces
  BY <1>1, <1>2
<1> QED
  BY <1>1, <1>2, <1>3, <1>5, <1>6, <1>7 DEF NetInv

\* The counters are read: what was unread is now read.
LEMMA ReadNetKeeps ==
    ASSUME FrameTyped, NetInv, ReadNet, dev' = dev, events' \in {events, events + 1}
    PROVE  NetInv'
<1>1. /\ unread \in [Ifaces -> Nat] /\ dev \in Counters /\ lastNetStats \in Counters
      /\ restarted \subseteq Ifaces /\ W \in Nat /\ W > 0 /\ None \notin Int
  BY Words DEF NetInv
<1>2. \A j \in Ifaces : /\ lastNetStats'[j] = IF dev[j] = None THEN lastNetStats[j] ELSE dev[j]
                        /\ unread'[j] = IF dev[j] = None THEN unread[j] ELSE 0
                        /\ j \in restarted' <=> j \in restarted /\ dev[j] = None
  BY DEF ReadNet
<1>3. lastNetStats' \in Counters /\ unread' \in [Ifaces -> Nat] /\ restarted' \subseteq Ifaces
  BY <1>1 DEF ReadNet, Counters
<1>4. \A j \in Ifaces : LastRead(j)' = IF dev[j] = None THEN LastRead(j) ELSE dev[j]
  BY <1>2 DEF LastRead
<1>5. \A j \in Ifaces : Traffics'[j] <= Traffics[j]
  <2> SUFFICES ASSUME NEW j \in Ifaces PROVE Traffics'[j] <= Traffics[j]
    OBVIOUS
  <2>1. Traffics'[j] = LastRead(j)' + unread'[j]
    BY DEF Traffics
  <2>2. CASE dev[j] = None
    BY <1>2, <1>4, <2>1, <2>2, TrafficFacts
  <2>3. CASE dev[j] # None
    <3>1. IF j \in restarted THEN dev[j] <= unread[j] ELSE dev[j] = LastRead(j) + unread[j]
      BY <2>3 DEF NetInv, CountersFit
    <3> QED
      BY <1>2, <1>4, <2>1, <2>3, <3>1, TrafficFacts
  <2> QED
    BY <2>2, <2>3
<1>6. TrafficBounded'
  BY <1>3, <1>5, BoundKept
<1>7. CountersFit'
  <2> SUFFICES ASSUME NEW j \in Ifaces, dev[j] # None
               PROVE  j \notin restarted' /\ dev[j] = LastRead(j)' + unread'[j]
    BY DEF CountersFit
  <2> QED
    BY <1>2, <1>4, TrafficFacts
<1> QED
  BY <1>1, <1>3, <1>6, <1>7 DEF NetInv

\* Nothing changes but the number of events.
LEMMA NetStutter ==
    ASSUME FrameTyped, NetInv, UNCHANGED <<dev, lastNetStats, unread, restarted>>,
           events' \in {events, events + 1}
    PROVE  NetInv'
<1>1. \A j \in Ifaces : LastRead(j)' = LastRead(j)
  BY DEF LastRead
<1>2. \A j \in Ifaces : Traffics'[j] <= Traffics[j]
  BY <1>1, TrafficFacts DEF Traffics
<1>3. TrafficBounded'
  BY <1>2, BoundKept DEF NetInv
<1>4. CountersFit'
  BY <1>1 DEF NetInv, CountersFit
<1> QED
  BY <1>3, <1>4 DEF NetInv

\* The processor's times: a tick, a step back, a reading, and none of these.
LEMMA CpuKeeps ==
    ASSUME FrameTyped, CpuInv, events' \in {events, events + 1},
           \/ CpuTick \/ IowaitDown
           \/ cpu' = cpu /\ ReadCpu
           \/ cpu' = cpu /\ back' = back /\ lastCPUStat = None
                /\ lastCPUStat' = [total |-> 0, idle |-> 0]
           \/ UNCHANGED <<cpu, lastCPUStat, back>>
    PROVE  CpuInv'
<1>1. /\ cpu \in Times /\ cpu.total \in Nat /\ cpu.idle \in Nat /\ back \in BOOLEAN
      /\ LastCpu.total \in Nat /\ LastCpu.idle \in Nat /\ events \in Nat
      /\ cpu.idle <= cpu.total /\ cpu.total <= events
      /\ LastCpu.idle <= LastCpu.total /\ LastCpu.total <= events
      /\ LastCpu.total - LastCpu.idle <= cpu.total - cpu.idle
      /\ ~back => LastCpu.idle <= cpu.idle
  BY Words DEF FrameTyped, CpuInv, TimesFit, Times, LastCpu
<1>2. CASE CpuTick
  <2>1. PICK idle \in {0, 1} : cpu' = [total |-> cpu.total + 1, idle |-> cpu.idle + idle]
    BY <1>2 DEF CpuTick
  <2>2. events' = events + 1 /\ UNCHANGED <<lastCPUStat, back>> /\ LastCpu' = LastCpu
    BY <1>2 DEF CpuTick, Event, agent, LastCpu
  <2>3. cpu' \in Times /\ cpu'.total = cpu.total + 1 /\ cpu'.idle = cpu.idle + idle
    BY <1>1, <2>1 DEF Times
  <2>4. TimesFit'
    BY <1>1, <2>2, <2>3 DEF TimesFit
  <2> QED
    BY <2>2, <2>3, <2>4 DEF CpuInv
<1>3. CASE IowaitDown
  <2>1. /\ events' = events + 1 /\ lastCPUStat' = lastCPUStat /\ back' = TRUE
        /\ LastCpu' = LastCpu /\ cpu.idle > 0
        /\ cpu' = [total |-> cpu.total - 1, idle |-> cpu.idle - 1]
    BY <1>3 DEF IowaitDown, Event, agent, LastCpu
  <2>2. cpu' \in Times /\ cpu'.total = cpu.total - 1 /\ cpu'.idle = cpu.idle - 1
    BY <1>1, <2>1 DEF Times
  <2>3. TimesFit'
    BY <1>1, <2>1, <2>2 DEF TimesFit
  <2> QED
    BY <2>1, <2>2, <2>3 DEF CpuInv
<1>4. CASE cpu' = cpu /\ ReadCpu
  <2>1. lastCPUStat' = cpu /\ back' = FALSE /\ cpu' = cpu
    BY <1>4 DEF ReadCpu
  <2>2. LastCpu' = cpu \/ (cpu = None /\ LastCpu' = [total |-> 0, idle |-> 0])
    BY <2>1 DEF LastCpu
  <2>3. TimesFit'
    BY <1>1, <2>1, <2>2 DEF TimesFit
  <2> QED
    BY <1>1, <2>1, <2>3 DEF CpuInv
<1>5. CASE /\ cpu' = cpu /\ back' = back /\ lastCPUStat = None
           /\ lastCPUStat' = [total |-> 0, idle |-> 0]
  <2>1. LastCpu' = LastCpu /\ lastCPUStat' \in Times
    BY <1>5 DEF LastCpu, Times
  <2>2. TimesFit'
    BY <1>1, <1>5, <2>1 DEF TimesFit
  <2> QED
    BY <1>1, <1>5, <2>1, <2>2 DEF CpuInv
<1>6. CASE UNCHANGED <<cpu, lastCPUStat, back>>
  <2>1. LastCpu' = LastCpu
    BY <1>6 DEF LastCpu
  <2>2. TimesFit'
    BY <1>1, <1>6, <2>1 DEF TimesFit
  <2> QED
    BY <1>6, <2>2 DEF CpuInv
<1> QED
  BY <1>2, <1>3, <1>4, <1>5, <1>6

\* A sample is taken: what the database would take of it is true.
LEMMA CollectSample ==
    ASSUME FrameTyped, NetInv, CpuInv, NEW cpuRead \in BOOLEAN, NEW netRead \in BOOLEAN,
           CollectMetrics(cpuRead, netRead)
    PROVE  SampleInv'
<1> DEFINE c == IF cpuRead THEN CpuUsage ELSE 0
           n == IF netRead THEN NetworkDelta ELSE 0
           b == IF netRead THEN SumFunctionOnSet(unread, Known) ELSE 0
           e == netRead => restarted \cap Known = {}
           s == cpuRead => ~back
<1>1. /\ sample' = [cpu |-> c, net |-> n, bytes |-> b, exact |-> e, smooth |-> s]
      /\ metrics' = None /\ lastCPUStat # None
  BY DEF CollectMetrics
<1>2. /\ NetworkDelta \in 0 .. W - 1 /\ SumFunctionOnSet(unread, Known) \in Nat
      /\ Storable(NetworkDelta) => NetworkDelta <= SumFunctionOnSet(unread, Known)
      /\ Storable(NetworkDelta) /\ restarted \cap Known = {}
           => NetworkDelta = SumFunctionOnSet(unread, Known)
  BY DeltaTrue
<1>3. CpuUsage \in Nat /\ (~back => CpuUsage <= SCALE)
  BY <1>1, PercentTrue
<1>4. W \in Nat /\ W > 0 /\ SCALE \in Nat
  BY Words
<1>5. c \in Nat /\ n \in 0 .. W - 1 /\ b \in Nat
  BY <1>2, <1>3, <1>4
<1>6. e \in BOOLEAN /\ s \in BOOLEAN
  OBVIOUS
<1>7. /\ Storable(n) => n <= b
      /\ Storable(n) /\ e => n = b
  BY <1>2
<1>8. s => c <= SCALE
  BY <1>3, <1>4
<1> HIDE DEF c, n, b, e, s
<1>9. sample' \in Sample
  BY <1>1, <1>5, <1>6 DEF Sample
<1>10. SampleTrue'
  <2>1. /\ sample'.cpu = c /\ sample'.net = n /\ sample'.bytes = b
        /\ sample'.exact = e /\ sample'.smooth = s
    BY <1>1
  <2>2. Storable(sample'.net) =>
           sample'.net <= sample'.bytes /\ (sample'.exact => sample'.net = sample'.bytes)
    BY <1>7, <2>1
  <2>3. sample'.smooth => sample'.cpu <= SCALE
    BY <1>8, <2>1
  <2> QED
    BY <2>2, <2>3 DEF SampleTrue, Storable
<1>11. StoredMetricsTrue'
  BY <1>1 DEF StoredMetricsTrue
<1> QED
  BY <1>1, <1>9, <1>10, <1>11 DEF SampleInv

\* It is reported or dropped: it is stored only if the database takes it.
LEMMA ReportSample ==
    ASSUME SampleInv, sample # None, sample' = None,
           \/ metrics' \in {metrics, None}
           \/ Storable(sample.net) /\ metrics' = sample
    PROVE  SampleInv'
<1>1. SampleTrue'
  BY DEF SampleTrue
<1>2. CASE metrics' \in {metrics, None}
  <2>1. StoredMetricsTrue'
    BY <1>2 DEF SampleInv, StoredMetricsTrue
  <2> QED
    BY <1>1, <1>2, <2>1 DEF SampleInv
<1>3. CASE Storable(sample.net) /\ metrics' = sample
  <2>1. /\ sample.net <= sample.bytes
        /\ sample.exact => sample.net = sample.bytes
        /\ sample.smooth => sample.cpu <= SCALE
    BY <1>3 DEF SampleInv, SampleTrue
  <2>2. StoredMetricsTrue'
    BY <1>3, <2>1 DEF StoredMetricsTrue
  <2> QED
    BY <1>1, <1>3, <2>2 DEF SampleInv
<1> QED
  BY <1>2, <1>3

\* Other steps leave both as they are.
LEMMA SampleStutter == ASSUME SampleInv, UNCHANGED <<sample, metrics>> PROVE SampleInv'
BY DEF SampleInv, SampleTrue, StoredMetricsTrue

\* Every step keeps the invariant.
LEMMA HostStep == ASSUME HostInv, [Next]_vars PROVE HostInv'
<1>1. FrameTyped /\ NetInv /\ CpuInv /\ SampleInv
  BY DEF HostInv
<1>2. FrameTyped' /\ events' \in {events, events + 1}
  BY <1>1, FrameStep
<1> DEFINE NetKept == UNCHANGED <<dev, lastNetStats, unread, restarted>>
           CpuKept == UNCHANGED <<cpu, lastCPUStat, back>>
           SampleKept == UNCHANGED <<sample, metrics>>
<1>3. ASSUME NetKept PROVE NetInv'
  BY <1>1, <1>2, <1>3, NetStutter
<1>4. ASSUME CpuKept PROVE CpuInv'
  BY <1>1, <1>2, <1>4, CpuKeeps
<1>5. ASSUME SampleKept PROVE SampleInv'
  BY <1>1, <1>5, SampleStutter
<1>6. CASE Connection \/ WatchServer \/ UNCHANGED vars
  <2>1. NetKept /\ CpuKept /\ SampleKept
    BY <1>6 DEF Connection, WatchServer, vars, kernel, monitor
  <2> QED
    BY <1>2, <1>3, <1>4, <1>5, <2>1 DEF HostInv
<1>7. CASE \/ BeginAddStat \/ EndAddStat \/ SendSkips \/ Marshal
           \/ LoseReport \/ Collect \/ \E ok \in BOOLEAN : Publish(ok)
  <2>1. UNCHANGED <<kernel, monitor>>
    BY <1>7 DEF BeginAddStat, EndAddStat, SendSkips, Marshal, LoseReport, Collect, Publish, rest
  <2>2. NetKept /\ CpuKept /\ SampleKept
    BY <2>1 DEF kernel, monitor
  <2> QED
    BY <1>2, <1>3, <1>4, <1>5, <2>2 DEF HostInv
<1>8. ASSUME NEW i \in Ifaces,
             (\E b \in Bytes : Traffic(i, b)) \/ AddInterface(i) \/ RemoveInterface(i)
      PROVE  HostInv'
  <2>1. NetInv'
    BY <1>1, <1>8, TrafficKeeps, InterfaceKeeps
  <2>2. CpuKept /\ SampleKept
    BY <1>8 DEF Traffic, AddInterface, RemoveInterface, agent
  <2> QED
    BY <1>2, <1>4, <1>5, <2>1, <2>2 DEF HostInv
<1>9. CASE CpuTick \/ IowaitDown
  <2>1. NetKept /\ SampleKept
    BY <1>9 DEF CpuTick, IowaitDown, agent
  <2>2. CpuInv'
    BY <1>1, <1>2, <1>9, CpuKeeps
  <2> QED
    BY <1>2, <1>3, <1>5, <2>1, <2>2 DEF HostInv
<1>10. ASSUME NEW cpuRead \in BOOLEAN, NEW netRead \in BOOLEAN, Start(cpuRead, netRead)
       PROVE  HostInv'
  <2>1. /\ dev' = dev /\ cpu' = cpu /\ SampleKept /\ lastCPUStat = None
        /\ IF cpuRead THEN ReadCpu
           ELSE lastCPUStat' = [total |-> 0, idle |-> 0] /\ back' = back
        /\ IF netRead THEN ReadNet ELSE UNCHANGED <<lastNetStats, unread, restarted>>
    BY <1>10 DEF Start, server
  <2>2. NetInv'
    BY <1>1, <1>2, <1>3, <2>1, ReadNetKeeps
  <2>3. CpuInv'
    BY <1>1, <1>2, <2>1, CpuKeeps
  <2> QED
    BY <1>2, <1>5, <2>1, <2>2, <2>3 DEF HostInv
<1>11. ASSUME NEW cpuRead \in BOOLEAN, NEW netRead \in BOOLEAN, CollectMetrics(cpuRead, netRead)
       PROVE  HostInv'
  <2>1. /\ dev' = dev /\ cpu' = cpu
        /\ IF cpuRead THEN ReadCpu ELSE UNCHANGED <<lastCPUStat, back>>
        /\ IF netRead THEN ReadNet ELSE UNCHANGED <<lastNetStats, unread, restarted>>
    BY <1>11 DEF CollectMetrics, server
  <2>2. NetInv'
    BY <1>1, <1>2, <1>3, <2>1, ReadNetKeeps
  <2>3. CpuInv'
    BY <1>1, <1>2, <2>1, CpuKeeps
  <2>4. SampleInv'
    BY <1>1, <1>11, CollectSample
  <2> QED
    BY <1>2, <2>2, <2>3, <2>4 DEF HostInv
<1>12. CASE ReportSkips
  <2>1. NetKept /\ CpuKept /\ sample # None /\ sample' = None /\ metrics' = metrics
    BY <1>12 DEF ReportSkips, server, kernel
  <2> QED
    BY <1>1, <1>2, <1>3, <1>4, <2>1, ReportSample DEF HostInv
<1>13. ASSUME NEW ok \in BOOLEAN, ReportMetrics(ok)
       PROVE  HostInv'
  <2>1. /\ NetKept /\ CpuKept /\ sample # None /\ sample' = None
        /\ metrics' = IF ok /\ Storable(sample.net) THEN sample ELSE None
    BY <1>13 DEF ReportMetrics, server, kernel
  <2>2. SampleInv'
    BY <1>1, <2>1, ReportSample
  <2> QED
    BY <1>2, <1>3, <1>4, <2>1, <2>2 DEF HostInv
<1> QED
  BY <1>6, <1>7, <1>8, <1>9, <1>10, <1>11, <1>12, <1>13 DEF Next

\* Nothing has been read or sampled yet.
LEMMA HostInit == Init => HostInv
<1> SUFFICES ASSUME Init PROVE HostInv
  OBVIOUS
<1>1. /\ MaxEvents \in Nat /\ W \in Nat /\ W > 0 /\ IsFiniteSet(Ifaces) /\ None \notin Int
  BY Words
<1>2. FrameTyped
  BY <1>1 DEF Init, FrameTyped
<1>3. NetInv
  <2>1. /\ dev \in Counters /\ lastNetStats \in Counters
        /\ unread \in [Ifaces -> Nat] /\ restarted \subseteq Ifaces
    BY <1>1 DEF Init, Counters
  <2>2. \A i \in Ifaces : LastRead(i) = 0 /\ unread[i] = 0
    BY DEF Init, LastRead
  <2>3. CountersFit
    BY <2>2 DEF Init, CountersFit
  <2>4. SumFunctionOnSet(Traffics, Ifaces) = 0
    <3> DEFINE t == Traffics
               x == SumFunctionOnSet(t, Ifaces)
    <3>1. \A i \in Ifaces : t[i] = 0
      BY <2>2 DEF Traffics
    <3> HIDE DEF t
    <3>2. \A i \in Ifaces : t[i] \in Int /\ t[i] \in Nat /\ t[i] = t[i] + 1 * t[i]
      BY <3>1
    <3>3. x = x + 1 * x
      <4>1. 1 \in Int
        OBVIOUS
      <4> QED
        BY <1>1, <3>2, <4>1, SumLinear
    <3>4. x \in Nat
      BY <1>1, <3>2, SumNat
    <3> HIDE DEF x
    <3>5. x = 0
      BY <3>3, <3>4
    <3> QED
      BY <3>5 DEF x, t
  <2>5. TrafficBounded
    BY <1>1, <2>4 DEF Init, TrafficBounded
  <2> QED
    BY <2>1, <2>3, <2>5 DEF NetInv
<1>4. CpuInv
  <2>1. cpu = [total |-> 0, idle |-> 0] /\ lastCPUStat = None /\ back = FALSE /\ events = 0
    BY DEF Init
  <2>2. LastCpu = [total |-> 0, idle |-> 0]
    BY <2>1 DEF LastCpu
  <2>3. /\ cpu.total = 0 /\ cpu.idle = 0 /\ LastCpu.total = 0 /\ LastCpu.idle = 0
        /\ cpu \in Times
    BY <2>1, <2>2 DEF Times
  <2>4. TimesFit
    BY <2>1, <2>3 DEF TimesFit
  <2> QED
    BY <2>1, <2>3, <2>4 DEF CpuInv
<1>5. SampleInv
  BY DEF Init, SampleInv, SampleTrue, StoredMetricsTrue
<1> QED
  BY <1>2, <1>3, <1>4, <1>5 DEF HostInv

\* So it always holds.
LEMMA HostAlways == Spec => []HostInv
<1>1. HostInv /\ [Next]_vars => HostInv'
  BY HostStep
<1> QED
  BY <1>1, HostInit, PTL DEF Spec

\* A stored row never shows more traffic than there was, and is exact and within
\* its range as long as nothing restarted, for any number of interfaces, any
\* SCALE and any width of the counters (monitor.go:65-85, 180-205;
\* system_collector.go:43-63).
THEOREM StoredMetricsAlwaysTrue == Spec => []StoredMetricsTrue
<1>1. HostInv => StoredMetricsTrue
  BY DEF HostInv, SampleInv
<1> QED
  BY <1>1, HostAlways, PTL

\* Every variable keeps its type: no counter of the kernel and no reading leaves
\* the word, and the rows under way are rows that were added (reporter.go:49-87;
\* monitor.go:65-85).
THEOREM TelemetryTypeCorrect == Spec => []TypeOK
<1>1. RowsInv /\ HostInv => TypeOK
  <2> SUFFICES ASSUME RowsInv, HostInv PROVE TypeOK
    OBVIOUS
  <2>1. FrameTyped /\ RowsTyped
    BY DEF RowsInv, HostInv
  <2>2. /\ dev \in Counters /\ lastNetStats \in Counters
        /\ unread \in [Ifaces -> Nat] /\ restarted \subseteq Ifaces
        /\ cpu \in Times /\ lastCPUStat \in Times \cup {None} /\ back \in BOOLEAN
        /\ sample \in Sample \cup {None} /\ metrics \in Sample \cup {None}
    BY DEF HostInv, NetInv, CpuInv, SampleInv
  <2> QED
    BY <2>1, <2>2 DEF TypeOK, FrameTyped, RowsTyped, Counters, Batch
<1> QED
  BY <1>1, RowsAlways, HostAlways, PTL

-----------------------------------------------------------------------------
(* The adaptive scaler. *)

\* Every index has a level, and every level its limit.
LEMMA LevelType ==
    /\ \A x \in Readings : indexToLevel(x) \in 0 .. 4
    /\ \A l \in 0 .. 4 : Limit(l) \in Limits
<1>1. ASSUME NEW x \in Readings PROVE indexToLevel(x) \in 0 .. 4
  <2>1. x \in 0 .. 100
    BY AdaptiveScalerAssumption
  <2> QED
    BY <2>1 DEF indexToLevel
<1>2. DOMAIN levelRateLimit = 1 .. 4
  BY DEF levelRateLimit
<1>3. ASSUME NEW l \in 0 .. 4 PROVE Limit(l) \in Limits
  <2>1. CASE l > 0
    BY <1>2, <2>1 DEF Limits, Limit, Range
  <2>2. CASE ~(l > 0)
    BY <2>2 DEF Limits, Limit
  <2> QED
    BY <2>1, <2>2
<1> QED
  BY <1>1, <1>3

\* Appending to a sequence makes it one longer, with the new element at its end.
LEMMA AppendedLast ==
    ASSUME NEW T, NEW s \in Seq(T), NEW e \in T
    PROVE  /\ Append(s, e) \in Seq(T) /\ Len(Append(s, e)) = Len(s) + 1
           /\ Append(s, e)[Len(s) + 1] = e
OBVIOUS

\* Taking one element out of a sequence leaves its last one at the end, unless
\* that is the one.
LEMMA RemovedAt ==
    ASSUME NEW T, NEW s \in Seq(T), NEW k \in 1 .. Len(s)
    PROVE  /\ RemoveAt(s, k) \in Seq(T) /\ Len(RemoveAt(s, k)) = Len(s) - 1
           /\ k < Len(s) => RemoveAt(s, k)[Len(s) - 1] = s[Len(s)]
<1> DEFINE a == SubSeq(s, 1, k - 1)
           b == SubSeq(s, k + 1, Len(s))
<1>1. a \in Seq(T) /\ Len(a) = k - 1
  OBVIOUS
<1>2. /\ b \in Seq(T) /\ Len(b) = Len(s) - k
      /\ \A i \in 1 .. Len(s) - k : b[i] = s[k + i]
  OBVIOUS
<1>3. RemoveAt(s, k) = a \o b
  BY DEF RemoveAt
<1>4. k < Len(s) => b[Len(s) - k] = s[Len(s)]
  BY <1>2
<1> HIDE DEF a, b
<1>5. a \o b \in Seq(T) /\ Len(a \o b) = Len(s) - 1
  <2>1. a \in Seq(T) /\ b \in Seq(T)
    BY <1>1, <1>2
  <2>2. a \o b \in Seq(T)
    BY <2>1
  <2>3. Len(a \o b) = Len(a) + Len(b)
    BY <2>1
  <2>4. k \in Int /\ Len(s) \in Int
    OBVIOUS
  <2> QED
    BY <1>1, <1>2, <2>2, <2>3, <2>4
<1>6. k < Len(s) => (a \o b)[Len(s) - 1] = b[Len(s) - k]
  BY <1>1, <1>2
<1> QED
  BY <1>3, <1>4, <1>5, <1>6

\* What the last announcement left or will leave at the agent, unless it went
\* astray: it is still to come if some announcement is not overtaken, and has
\* been handled if none is.
Ordered ==
    ~astray =>
        /\ overtaken = Len(announced) => rule = Limit(level)
        /\ overtaken < Len(announced) => announced[Len(announced)] = Limit(level)
Restored ==
    /\ ~astray /\ level = 0 /\ HasManual => own \/ restoring > 0
    /\ own \/ restoring > 0 => HasManual
OnItsWay ==
    /\ announced \in Seq(Limits) /\ restoring \in Nat
    /\ overtaken \in 0 .. Len(announced) /\ astray \in BOOLEAN
    /\ Ordered /\ Restored
\* Reports that wait for an escalation asked for it one after another.
Confirming == esc <= run

\* The inductive invariant of the scaler.
ScalerInv == ScalerTypeOK /\ OnItsWay /\ Confirming

\* A level made known to the agent is the last thing it will hear of, and if it
\* cannot be the announcement is astray.
LEMMA DeliverKeeps ==
    ASSUME ScalerInv, NEW l \in 0 .. 4, Deliver(l), level' = l, UNCHANGED held
    PROVE  OnItsWay' /\ faults' \in 0 .. MaxFaults
<1>1. /\ announced \in Seq(Limits) /\ restoring \in Nat /\ overtaken \in 0 .. Len(announced)
      /\ astray \in BOOLEAN /\ own \in BOOLEAN /\ HasManual \in BOOLEAN
      /\ faults \in 0 .. MaxFaults /\ MaxFaults \in Nat
      /\ (own \/ restoring > 0 => HasManual)
  BY AdaptiveScalerAssumption DEF ScalerInv, ScalerTypeOK, OnItsWay, Restored
<1>2. Limit(l) \in Limits
  BY LevelType
<1>3. rule' = rule /\ own' = own
  BY DEF held
<1>4. CASE /\ announced' = Append(announced, Limit(l)) /\ overtaken' = overtaken
           /\ \/ /\ restoring' = IF l = 0 /\ HasManual THEN restoring + 1 ELSE restoring
                 /\ astray' = FALSE /\ faults' = faults
              \/ restoring' = restoring /\ astray' = TRUE /\ Fault
  <2>1. /\ announced' \in Seq(Limits) /\ Len(announced') = Len(announced) + 1
        /\ announced'[Len(announced')] = Limit(l)
    BY <1>1, <1>2, <1>4, AppendedLast
  <2>2. overtaken' \in 0 .. Len(announced') /\ overtaken' < Len(announced')
    BY <1>1, <1>4, <2>1
  <2>3. Ordered'
    BY <2>1, <2>2 DEF Ordered
  <2>4. CASE /\ restoring' = IF l = 0 /\ HasManual THEN restoring + 1 ELSE restoring
             /\ astray' = FALSE /\ faults' = faults
    <3>1. restoring' \in Nat
      BY <1>1, <2>4
    <3>2. ASSUME level' = 0, HasManual PROVE restoring' > 0
      BY <1>1, <2>4, <3>2
    <3>3. own' \/ restoring' > 0 => HasManual
      BY <1>1, <1>3, <2>4
    <3>4. Restored'
      BY <3>2, <3>3 DEF Restored
    <3>5. astray' \in BOOLEAN /\ faults' \in 0 .. MaxFaults
      BY <1>1, <2>4
    <3> QED
      BY <2>1, <2>2, <2>3, <3>1, <3>4, <3>5 DEF OnItsWay
  <2>5. CASE restoring' = restoring /\ astray' = TRUE /\ Fault
    <3>1. faults' \in 0 .. MaxFaults
      BY <1>1, <2>5 DEF Fault
    <3>2. Restored'
      BY <1>1, <1>3, <2>5 DEF Restored
    <3>3. restoring' \in Nat /\ astray' \in BOOLEAN
      BY <1>1, <2>5
    <3> QED
      BY <2>1, <2>2, <2>3, <3>1, <3>2, <3>3 DEF OnItsWay
  <2> QED
    BY <1>4, <2>4, <2>5
<1>5. CASE astray' = TRUE /\ UNCHANGED <<way, faults>>
  <2>1. announced' = announced /\ restoring' = restoring /\ overtaken' = overtaken
    BY <1>5 DEF way
  <2>2. Ordered' /\ Restored'
    BY <1>1, <1>3, <1>5, <2>1 DEF Ordered, Restored
  <2>3. astray' \in BOOLEAN /\ faults' \in 0 .. MaxFaults
    BY <1>1, <1>5
  <2> QED
    BY <1>1, <2>1, <2>2, <2>3 DEF OnItsWay
<1> QED
  BY <1>4, <1>5 DEF Deliver

\* A report that changes no level sends nothing.
LEMMA SilentKeeps ==
    ASSUME ScalerInv, Silent, level' = level, UNCHANGED held
    PROVE  OnItsWay' /\ faults' \in 0 .. MaxFaults
BY DEF ScalerInv, ScalerTypeOK, OnItsWay, Ordered, Restored, Limit, Silent, way, held

\* A change of level is announced.
LEMMA MoveKeeps ==
    ASSUME ScalerInv, NEW x \in Readings, NEW l \in 0 .. 4, Move(x, l), UNCHANGED held
    PROVE  /\ level' \in {level, l} /\ last' \in Readings \cup {0}
           /\ OnItsWay' /\ faults' \in 0 .. MaxFaults
<1>1. last \in Readings \cup {0}
  BY DEF ScalerInv, ScalerTypeOK
<1>2. CASE UNCHANGED <<level, last>> /\ Silent
  BY <1>1, <1>2, SilentKeeps
<1>3. CASE level' = l /\ last' = x /\ Deliver(l)
  BY <1>3, DeliverKeeps
<1> QED
  BY <1>2, <1>3 DEF Move

\* What a report does to the level, the counters and what is on its way.
Decides(x) ==
    \/ AwaitEscalation(x) \/ Escalate(x) \/ AwaitRecovery(x) \/ StepDown(x) \/ Steady(x)

\* The level is one of five; it rises only if a third report asks for it; the
\* counter of escalations counts reports that ask for a level above.
LEMMA DecidesKeep ==
    ASSUME ScalerInv, NEW x \in Readings, Decides(x), UNCHANGED held
    PROVE  /\ level' \in 0 .. 4 /\ stable' \in 0 .. 2 /\ esc' \in 0 .. 2
           /\ last' \in Readings \cup {0}
           /\ OnItsWay' /\ faults' \in 0 .. MaxFaults
           /\ esc' = 0 \/ (esc' = esc + 1 /\ indexToLevel(x) > level)
           /\ level' > level => esc = 2 /\ indexToLevel(x) > level
<1>1. /\ level \in 0 .. 4 /\ stable \in 0 .. 2 /\ esc \in 0 .. 2 /\ last \in Readings \cup {0}
      /\ indexToLevel(x) \in 0 .. 4
  BY LevelType DEF ScalerInv, ScalerTypeOK
<1>2. CASE AwaitEscalation(x)
  <2>1. level' = level /\ Silent
    BY <1>2 DEF AwaitEscalation
  <2>2. OnItsWay' /\ faults' \in 0 .. MaxFaults
    BY <2>1, SilentKeeps
  <2> QED
    BY <1>1, <1>2, <2>2 DEF AwaitEscalation
<1>3. CASE Escalate(x)
  <2>1. Move(x, indexToLevel(x))
    BY <1>3 DEF Escalate
  <2>2. indexToLevel(x) > level /\ esc = 2 /\ esc' = 0 /\ stable' = 0
    BY <1>3 DEF Escalate
  <2>3. level' \in 0 .. 4 /\ stable' \in 0 .. 2 /\ esc' \in 0 .. 2
    <3>1. level' \in {level, indexToLevel(x)}
      BY <1>1, <2>1, MoveKeeps
    <3> QED
      BY <1>1, <2>2, <3>1
  <2>4. last' \in Readings \cup {0} /\ OnItsWay' /\ faults' \in 0 .. MaxFaults
    BY <1>1, <2>1, MoveKeeps
  <2> QED
    BY <2>2, <2>3, <2>4
<1>4. CASE AwaitRecovery(x)
  <2>1. level' = level /\ Silent
    BY <1>4 DEF AwaitRecovery
  <2>2. OnItsWay' /\ faults' \in 0 .. MaxFaults
    BY <2>1, SilentKeeps
  <2> QED
    BY <1>1, <1>4, <2>2 DEF AwaitRecovery
<1>5. CASE StepDown(x)
  <2>1. Move(x, level - 1) /\ level - 1 \in 0 .. 4 /\ esc' = 0
    BY <1>1, <1>5 DEF StepDown
  <2>2. stable' \in {0, 2}
    BY <1>5 DEF StepDown
  <2>3. level' \in {level, level - 1}
    BY <2>1, MoveKeeps
  <2>4. level' \in 0 .. 4 /\ ~(level' > level)
    BY <1>1, <2>1, <2>3
  <2>5. last' \in Readings \cup {0} /\ OnItsWay' /\ faults' \in 0 .. MaxFaults
    BY <2>1, MoveKeeps
  <2>6. stable' \in 0 .. 2 /\ esc' \in 0 .. 2
    BY <2>1, <2>2
  <2> QED
    BY <2>1, <2>4, <2>5, <2>6
<1>6. CASE Steady(x)
  <2>1. level' = level /\ Silent
    BY <1>6 DEF Steady
  <2>2. OnItsWay' /\ faults' \in 0 .. MaxFaults
    BY <2>1, SilentKeeps
  <2> QED
    BY <1>1, <1>6, <2>2 DEF Steady
<1> QED
  BY <1>2, <1>3, <1>4, <1>5, <1>6 DEF Decides

\* A report keeps the invariant, and raises the level only at the third in a row.
LEMMA ReportKeeps ==
    ASSUME ScalerInv, Report
    PROVE  ScalerInv' /\ (level' > level => run' = 3)
<1>1. PICK x \in Readings, y \in Readings \cup {Absent} : ProcessAdaptive(x, y)
  BY DEF Report
<1> DEFINE deviating == level = 0 /\ indexToLevel(x) = 0 /\ x > 0
           anchored == deviating /\ deviations >= SHIFT /\ y # Absent
           idx == IF anchored THEN y ELSE x
<1>2. idx \in Readings
  BY <1>1
<1>3. /\ deviations' = IF ~deviating \/ anchored THEN 0
                        ELSE IF deviations > SHIFT THEN deviations ELSE deviations + 1
      /\ Decides(idx) /\ reading' = idx /\ beat' = ~beat
      /\ run' = IF indexToLevel(idx) <= level THEN 0 ELSE IF run = 3 THEN 3 ELSE run + 1
      /\ UNCHANGED held /\ link' = link
  BY <1>1 DEF ProcessAdaptive, Decides
<1>4. /\ deviations \in 0 .. SHIFT + 1 /\ run \in 0 .. 3 /\ link \in BOOLEAN
      /\ rule \in Limits /\ own \in BOOLEAN
      /\ level \in 0 .. 4 /\ esc \in 0 .. 2 /\ esc <= run /\ SHIFT \in Nat
  BY AdaptiveScalerAssumption DEF ScalerInv, ScalerTypeOK, Confirming
<1>5. deviations' \in 0 .. SHIFT + 1
  <2>1. \/ deviations' \in {0, deviations}
        \/ deviations' = deviations + 1 /\ ~(deviations > SHIFT)
    BY <1>3
  <2> QED
    BY <1>4, <2>1
<1> HIDE DEF deviating, anchored, idx
<1>6. indexToLevel(idx) \in 0 .. 4
  BY <1>2, LevelType
<1>7. run' \in 0 .. 3
  BY <1>3, <1>4
<1>8. /\ level' \in 0 .. 4 /\ stable' \in 0 .. 2 /\ esc' \in 0 .. 2
      /\ last' \in Readings \cup {0}
      /\ OnItsWay' /\ faults' \in 0 .. MaxFaults
      /\ esc' = 0 \/ (esc' = esc + 1 /\ indexToLevel(idx) > level)
      /\ level' > level => esc = 2 /\ indexToLevel(idx) > level
  BY <1>2, <1>3, DecidesKeep
<1>9. esc' <= run' /\ (level' > level => run' = 3)
  BY <1>3, <1>4, <1>6, <1>7, <1>8
<1>10. link' \in BOOLEAN /\ beat' \in BOOLEAN /\ rule' \in Limits /\ own' \in BOOLEAN
  BY <1>3, <1>4 DEF held
<1>11. reading' \in Readings \cup {0}
  BY <1>2, <1>3
<1>12. /\ announced' \in Seq(Limits) /\ restoring' \in Nat
       /\ overtaken' \in 0 .. Len(announced') /\ astray' \in BOOLEAN
  BY <1>8 DEF OnItsWay
<1> QED
  BY <1>5, <1>7, <1>8, <1>9, <1>10, <1>11, <1>12 DEF ScalerInv, ScalerTypeOK, Confirming

\* What the invariant says of the parts that a step of the agent or a fault reads.
LEMMA Parts ==
    ASSUME ScalerInv
    PROVE  /\ level \in 0 .. 4 /\ stable \in 0 .. 2 /\ esc \in 0 .. 2
           /\ deviations \in 0 .. SHIFT + 1 /\ last \in Readings \cup {0}
           /\ rule \in Limits /\ own \in BOOLEAN /\ link \in BOOLEAN
           /\ faults \in 0 .. MaxFaults /\ MaxFaults \in Nat /\ SHIFT \in Nat
           /\ reading \in Readings \cup {0} /\ run \in 0 .. 3 /\ beat \in BOOLEAN
           /\ announced \in Seq(Limits) /\ restoring \in Nat
           /\ overtaken \in 0 .. Len(announced) /\ astray \in BOOLEAN
           /\ Ordered /\ Restored /\ esc <= run
BY AdaptiveScalerAssumption DEF ScalerInv, ScalerTypeOK, OnItsWay, Confirming

\* Handling an announcement keeps account of what has been overtaken.
LEMMA HandleKeeps ==
    ASSUME ScalerInv, NEW k \in DOMAIN announced, Handle(k)
    PROVE  ScalerInv' /\ ~(level' > level)
<1> DEFINE n == Len(announced)
<1>1. k \in 1 .. n /\ n \in Nat /\ overtaken \in 0 .. n /\ announced[k] \in Limits
  BY Parts
<1>2. /\ announced' = RemoveAt(announced, k) /\ rule' = announced[k]
      /\ overtaken' = IF k > overtaken THEN k - 1 ELSE overtaken - 1
      /\ astray' = (astray \/ overtaken = n)
      /\ UNCHANGED <<scaler, own, restoring, link, faults, asked>>
  BY DEF Handle
<1>3. /\ announced' \in Seq(Limits) /\ Len(announced') = n - 1
      /\ k < n => announced'[n - 1] = announced[n]
  BY <1>1, <1>2, Parts, RemovedAt
<1>4. level' = level /\ own' = own /\ restoring' = restoring
  BY <1>2 DEF scaler
<1> HIDE DEF n
<1>5. overtaken' \in 0 .. Len(announced')
  BY <1>1, <1>2, <1>3
<1>6. ASSUME ~astray'
      PROVE  /\ overtaken' = Len(announced') => rule' = Limit(level')
             /\ overtaken' < Len(announced') => announced'[Len(announced')] = Limit(level')
  <2>1. ~astray /\ overtaken < n
    <3>1. ~(astray \/ overtaken = n)
      BY <1>2, <1>6, Zenon
    <3>2. ~astray /\ overtaken # n
      BY <3>1, Zenon
    <3> QED
      BY <1>1, <3>2
  <2>2. announced[n] = Limit(level)
    BY <2>1, Parts DEF Ordered, n
  <2>3. ASSUME overtaken' = Len(announced') PROVE k = n
    BY <1>1, <1>2, <1>3, <2>1, <2>3
  <2>4. ASSUME overtaken' < Len(announced') PROVE k < n
    BY <1>1, <1>2, <1>3, <2>1, <2>4
  <2>5. Limit(level') = Limit(level)
    BY <1>4
  <2>6. ASSUME overtaken' = Len(announced') PROVE rule' = Limit(level')
    BY <1>2, <2>2, <2>3, <2>5, <2>6
  <2>7. ASSUME overtaken' < Len(announced')
        PROVE  announced'[Len(announced')] = Limit(level')
    <3>1. announced'[n - 1] = announced[n] /\ Len(announced') = n - 1
      BY <1>3, <2>4, <2>7
    <3> QED
      BY <2>2, <2>5, <3>1
  <2> QED
    BY <2>6, <2>7
<1>7. Ordered'
  BY <1>6 DEF Ordered
<1>8. astray' \in BOOLEAN /\ (~astray' => ~astray)
  BY <1>2
<1>9. Restored'
  BY <1>4, <1>8, Parts DEF Restored
<1>10. OnItsWay'
  BY <1>3, <1>4, <1>5, <1>7, <1>8, <1>9, Parts DEF OnItsWay
<1>11. ScalerTypeOK'
  <2>1. rule' \in Limits
    BY <1>1, <1>2
  <2>2. /\ level' \in 0 .. 4 /\ stable' \in 0 .. 2 /\ esc' \in 0 .. 2
        /\ deviations' \in 0 .. SHIFT + 1 /\ last' \in Readings \cup {0}
    BY <1>2, Parts DEF scaler
  <2>3. reading' \in Readings \cup {0} /\ run' \in 0 .. 3 /\ beat' \in BOOLEAN
    BY <1>2, Parts DEF asked
  <2>4. own' \in BOOLEAN /\ link' \in BOOLEAN /\ faults' \in 0 .. MaxFaults /\ restoring' \in Nat
    BY <1>2, Parts
  <2> QED
    BY <1>3, <1>5, <1>8, <2>1, <2>2, <2>3, <2>4 DEF ScalerTypeOK
<1>12. Confirming' /\ ~(level' > level)
  BY <1>2, Parts DEF Confirming, scaler, asked
<1> QED
  BY <1>10, <1>11, <1>12 DEF ScalerInv

\* The rules tagged for the agent, once published, arrive.
LEMMA RestoreKeeps ==
    ASSUME ScalerInv, Restore
    PROVE  ScalerInv' /\ ~(level' > level)
<1>1. /\ restoring > 0 /\ restoring' = restoring - 1 /\ own' = TRUE
      /\ UNCHANGED <<scaler, rule, announced, overtaken, astray, link, faults, asked>>
  BY DEF Restore
<1>2. restoring' \in Nat /\ HasManual
  BY <1>1, Parts DEF Restored
<1>3. Restored'
  BY <1>1, <1>2 DEF Restored
<1>4. level' = level /\ Limit(level') = Limit(level)
  BY <1>1 DEF scaler
<1>5. Ordered'
  BY <1>1, <1>4, Parts DEF Ordered
<1>6. OnItsWay'
  BY <1>1, <1>2, <1>3, <1>5, Parts DEF OnItsWay
<1>7. ScalerTypeOK' /\ Confirming' /\ ~(level' > level)
  <2>1. own' \in BOOLEAN
    BY <1>1
  <2> QED
    BY <1>1, <1>2, <2>1, Parts DEF ScalerTypeOK, Confirming, scaler, asked
<1> QED
  BY <1>6, <1>7 DEF ScalerInv

\* Once astray, only the types and the rules tagged for the agent matter.
LEMMA AstrayKeeps ==
    ASSUME astray', announced' \in Seq(Limits), restoring' \in Nat,
           overtaken' \in 0 .. Len(announced'), astray' \in BOOLEAN,
           own' \/ restoring' > 0 => HasManual
    PROVE  OnItsWay'
BY DEF OnItsWay, Ordered, Restored

\* A restarted server announces nothing: level 0 then is what the agent holds
\* only if it was before.
LEMMA RestartKeeps ==
    ASSUME ScalerInv, RestartServer
    PROVE  ScalerInv' /\ ~(level' > level)
<1>1. /\ Fault /\ level' = 0 /\ stable' = 0 /\ esc' = 0 /\ deviations' = 0 /\ last' = 0
      /\ astray' = (astray \/ level > 0)
      /\ UNCHANGED <<held, way, link, asked>>
  BY DEF RestartServer
<1>2. /\ rule' = rule /\ own' = own /\ announced' = announced /\ restoring' = restoring
      /\ overtaken' = overtaken /\ reading' = reading /\ run' = run /\ beat' = beat
      /\ link' = link
  BY <1>1 DEF held, way, asked
<1>3. faults' \in 0 .. MaxFaults
  BY <1>1, Parts DEF Fault
<1>4. (level > 0) \in BOOLEAN /\ astray' \in BOOLEAN
  BY <1>1, Parts
<1>5. own' \/ restoring' > 0 => HasManual
  BY <1>2, Parts DEF Restored
<1>6. CASE astray'
  <2>1. OnItsWay'
    BY <1>2, <1>4, <1>5, <1>6, Parts, AstrayKeeps
  <2> QED
    BY <1>1, <1>2, <1>3, <1>4, <2>1, Parts DEF ScalerInv, ScalerTypeOK, Confirming
<1>7. CASE ~astray'
  <2>1. ~astray /\ level = 0 /\ level' = level
    <3>1. ~(astray \/ level > 0)
      BY <1>1, <1>7, Zenon
    <3>2. ~astray /\ ~(level > 0)
      BY <3>1, Zenon
    <3>3. level = 0
      BY <3>2, Parts
    <3> QED
      BY <1>1, <3>2, <3>3
  <2>2. Ordered'
    BY <1>2, <2>1, Parts DEF Ordered, Limit
  <2>3. Restored'
    BY <1>2, <2>1, Parts DEF Restored
  <2>4. OnItsWay'
    BY <1>2, <1>4, <2>2, <2>3, Parts DEF OnItsWay
  <2> QED
    BY <1>1, <1>2, <1>3, <1>4, <2>4, Parts DEF ScalerInv, ScalerTypeOK, Confirming
<1> QED
  BY <1>6, <1>7

\* A reload undoes what was announced.
LEMMA ReloadKeeps ==
    ASSUME ScalerInv, ReloadAgent
    PROVE  ScalerInv' /\ ~(level' > level)
<1>1. /\ Fault /\ rule' = Absent /\ own' = FALSE /\ astray' = TRUE
      /\ \/ UNCHANGED way
         \/ announced' = <<>> /\ restoring' = 0 /\ overtaken' = 0
      /\ UNCHANGED <<scaler, link, asked>>
  BY DEF ReloadAgent
<1>2. faults' \in 0 .. MaxFaults
  BY <1>1, Parts DEF Fault
<1>3. /\ announced' \in Seq(Limits) /\ restoring' \in {0, restoring}
      /\ overtaken' \in 0 .. Len(announced')
  <2>1. CASE UNCHANGED way
    BY <2>1, Parts DEF way
  <2>2. CASE announced' = <<>> /\ restoring' = 0 /\ overtaken' = 0
    BY <2>2
  <2> QED
    BY <1>1, <2>1, <2>2
<1>4. restoring' \in Nat /\ (own' \/ restoring' > 0 => HasManual)
  BY <1>1, <1>3, Parts DEF Restored
<1>5. OnItsWay'
  BY <1>1, <1>3, <1>4, AstrayKeeps
<1>6. rule' \in Limits /\ own' \in BOOLEAN /\ astray' \in BOOLEAN
  BY <1>1 DEF Limits
<1> QED
  BY <1>1, <1>2, <1>3, <1>4, <1>5, <1>6, Parts
  DEF ScalerInv, ScalerTypeOK, Confirming, scaler, asked

\* What a lost connection loses makes the last announcement astray.
LEMMA DisconnectKeeps ==
    ASSUME ScalerInv, Disconnect
    PROVE  ScalerInv' /\ ~(level' > level)
<1>1. PICK n \in 0 .. Len(announced), m \in 0 .. restoring :
        /\ announced' = SubSeq(announced, 1, n) /\ restoring' = m
        /\ overtaken' = IF overtaken > n THEN n ELSE overtaken
        /\ astray' = (astray \/ n < Len(announced) \/ m < restoring)
  BY DEF Disconnect
<1>2. Fault /\ link' = FALSE /\ UNCHANGED <<scaler, held, asked>>
  BY DEF Disconnect
<1>3. faults' \in 0 .. MaxFaults
  BY <1>2, Parts DEF Fault
<1>4. announced' \in Seq(Limits) /\ Len(announced') = n
  BY <1>1, Parts
<1>5. restoring' \in Nat /\ overtaken' \in 0 .. Len(announced')
  <2>1. n \in Nat /\ m \in Nat /\ overtaken \in Nat
    BY Parts
  <2> QED
    BY <1>1, <1>4, <2>1
<1>6. (n < Len(announced)) \in BOOLEAN /\ (m < restoring) \in BOOLEAN
  OBVIOUS
<1>7. astray' \in BOOLEAN
  BY <1>1, <1>6, Parts
<1>8. own' = own /\ rule' = rule /\ level' = level
  BY <1>2 DEF held, scaler
<1>9. OnItsWay'
  <2>1. CASE astray'
    <3>1. own' \/ restoring' > 0 => HasManual
      BY <1>1, <1>8, Parts DEF Restored
    <3> QED
      BY <1>4, <1>5, <1>7, <2>1, <3>1, AstrayKeeps
  <2>2. CASE ~astray'
    <3>1. ~astray /\ n = Len(announced) /\ m = restoring
      <4>1. ~(astray \/ n < Len(announced) \/ m < restoring)
        BY <1>1, <2>2, Zenon
      <4>2. ~astray /\ ~(n < Len(announced)) /\ ~(m < restoring)
        BY <4>1, Zenon
      <4>3. Len(announced) \in Nat /\ restoring \in Nat
        BY Parts
      <4> QED
        BY <4>2, <4>3
    <3>2. announced' = announced /\ overtaken' = overtaken /\ restoring' = restoring
      BY <1>1, <3>1, Parts
    <3>3. Ordered' /\ Restored'
      BY <1>8, <3>1, <3>2, Parts DEF Ordered, Restored, Limit
    <3> QED
      BY <1>4, <1>5, <1>7, <3>3 DEF OnItsWay
  <2> QED
    BY <2>1, <2>2
<1>10. ScalerTypeOK'
  <2>1. /\ level' \in 0 .. 4 /\ stable' \in 0 .. 2 /\ esc' \in 0 .. 2
        /\ deviations' \in 0 .. SHIFT + 1 /\ last' \in Readings \cup {0}
    BY <1>2, Parts DEF scaler
  <2>2. reading' \in Readings \cup {0} /\ run' \in 0 .. 3 /\ beat' \in BOOLEAN
    BY <1>2, Parts DEF asked
  <2>3. rule' \in Limits /\ own' \in BOOLEAN /\ link' \in BOOLEAN
    BY <1>2, <1>8, Parts
  <2> QED
    BY <1>3, <1>4, <1>5, <1>7, <2>1, <2>2, <2>3 DEF ScalerTypeOK
<1>11. Confirming' /\ ~(level' > level)
  BY <1>2, Parts DEF Confirming, scaler, asked
<1> QED
  BY <1>9, <1>10, <1>11 DEF ScalerInv

\* The scaler starts with no level and no rule.
LEMMA ScalerInvInit == ScalerInit => ScalerInv
<1> SUFFICES ASSUME ScalerInit PROVE ScalerInv
  OBVIOUS
<1>1. MaxFaults \in Nat /\ SHIFT \in Nat /\ HasManual \in BOOLEAN
  BY AdaptiveScalerAssumption
<1>2. own \in BOOLEAN /\ link \in BOOLEAN /\ beat \in BOOLEAN /\ astray \in BOOLEAN
  BY <1>1 DEF ScalerInit
<1>3. /\ level = 0 /\ stable = 0 /\ esc = 0 /\ deviations = 0 /\ last = 0
      /\ rule = Absent /\ announced = <<>> /\ restoring = 0 /\ overtaken = 0
      /\ link = TRUE /\ faults = 0 /\ reading = 0 /\ run = 0
  BY DEF ScalerInit
<1>4. Ordered
  BY <1>3 DEF Ordered, Limit
<1>5. (~astray /\ HasManual => own) /\ (own => HasManual)
  <2>1. astray = (own # HasManual) /\ (own = FALSE \/ own = HasManual)
    BY DEF ScalerInit
  <2>2. own => HasManual
    BY <2>1, Zenon
  <2>3. ASSUME ~astray, HasManual PROVE own
    BY <2>1, <2>3, Zenon
  <2> QED
    BY <2>2, <2>3
<1>6. ~(restoring > 0)
  BY <1>3
<1>7. Restored
  BY <1>5, <1>6, Zenon DEF Restored
<1>8. /\ announced \in Seq(Limits) /\ restoring \in Nat /\ overtaken \in 0 .. Len(announced)
      /\ rule \in Limits
  BY <1>3 DEF Limits
<1> QED
  BY <1>1, <1>2, <1>3, <1>4, <1>7, <1>8 DEF ScalerInv, ScalerTypeOK, OnItsWay, Confirming

\* Every step keeps the invariant.
LEMMA ScalerInvStep ==
    ScalerInv /\ [ScalerNext]_scalerVars => ScalerInv' /\ (level' > level => run' = 3)
<1> SUFFICES ASSUME ScalerInv, [ScalerNext]_scalerVars
             PROVE  ScalerInv' /\ (level' > level => run' = 3)
  OBVIOUS
<1>1. CASE UNCHANGED scalerVars
  <2>1. level \in 0 .. 4 /\ level' = level
    BY <1>1, Parts DEF scalerVars, scaler
  <2>2. ScalerInv'
    BY <1>1 DEF ScalerInv, ScalerTypeOK, OnItsWay, Ordered, Restored, Confirming, Limit,
       scalerVars, scaler, held, way, asked
  <2> QED
    BY <2>1, <2>2
<1>2. CASE HandleUpdate \/ HandleDelete
  BY <1>2, HandleKeeps DEF HandleUpdate, HandleDelete
<1>3. CASE Reconnect
  <2>1. level \in 0 .. 4 /\ level' = level /\ link' = TRUE
    BY <1>3, Parts DEF Reconnect, scaler
  <2>2. ScalerInv'
    BY <1>3 DEF Reconnect, ScalerInv, ScalerTypeOK, OnItsWay, Ordered, Restored, Confirming,
       Limit, scaler, held, way, asked
  <2> QED
    BY <2>1, <2>2
<1> QED
  BY <1>1, <1>2, <1>3, ReportKeeps, RestoreKeeps, RestartKeeps, ReloadKeeps, DisconnectKeeps
  DEF ScalerNext

\* So it always holds.
LEMMA ScalerInvAlways == ScalerSpec => []ScalerInv
<1>1. ScalerInv /\ [ScalerNext]_scalerVars => ScalerInv'
  BY ScalerInvStep
<1> QED
  BY <1>1, ScalerInvInit, PTL DEF ScalerSpec

\* Every variable keeps its type: levels are 0 to 4, counters do not run away
\* (adaptive_scaler.go:168-292).
THEOREM ScalerTypeCorrect == ScalerSpec => []ScalerTypeOK
<1>1. ScalerInv => ScalerTypeOK
  BY DEF ScalerInv
<1> QED
  BY <1>1, ScalerInvAlways, PTL

\* However announcements are delayed, reordered between the subscriptions or
\* lost: once none is on its way the agent holds what the last one said, unless
\* that one was lost, not made in full, overtaken or undone, for any sequence
\* of reports and any number of faults (adaptive_scaler.go:278-290,
\* listener.go:61-89).
THEOREM AgentAlwaysFollows == ScalerSpec => []AgentFollows
<1>1. ASSUME ScalerInv, announced = <<>>, restoring = 0, ~astray
      PROVE  rule = Limit(level) /\ (level = 0 => own = HasManual)
  <2>1. overtaken = Len(announced)
    BY <1>1, Parts
  <2>2. rule = Limit(level)
    BY <1>1, <2>1, Parts DEF Ordered
  <2>3. ~(restoring > 0)
    BY <1>1
  <2>4. own \in BOOLEAN /\ HasManual \in BOOLEAN
    BY <1>1, Parts, AdaptiveScalerAssumption
  <2>5. Restored
    BY <1>1, Parts
  <2>6. ASSUME level = 0 PROVE own = HasManual
    <3>1. HasManual => own
      BY <1>1, <2>3, <2>5, <2>6, Zenon DEF Restored
    <3>2. own => HasManual
      BY <2>5, Zenon DEF Restored
    <3> QED
      BY <2>4, <3>1, <3>2
  <2> QED
    BY <2>2, <2>6
<1>2. ScalerInv => AgentFollows
  BY <1>1 DEF AgentFollows
<1> QED
  BY <1>2, ScalerInvAlways, PTL

\* The level rises only with a third report in a row that asks for more, for
\* any sequence of reports and faults (adaptive_scaler.go:226-239).
THEOREM EscalationAlwaysConfirmed == ScalerSpec => EscalationConfirmed
<1>1. ScalerInv /\ [ScalerNext]_scalerVars => [level' > level => run' = 3]_scalerVars
  BY ScalerInvStep
<1> QED
  BY <1>1, ScalerInvAlways, PTL DEF ScalerSpec, EscalationConfirmed
=============================================================================
