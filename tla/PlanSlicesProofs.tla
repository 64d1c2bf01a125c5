--------------------------- MODULE PlanSlicesProofs ---------------------------
(***************************************************************************)
(* What the arithmetic of plan periods computes, for any payments: periods *)
(* count from the start of the window, a payment claims a period that no   *)
(* payment has, and Renumbered gives every slice a period of its own.      *)
(* Slices have ranks by their start; the numbers of Renumbered grow with   *)
(* the rank, by induction over the natural numbers.                        *)
(***************************************************************************)
EXTENDS PlanSlices, TLAPS, FiniteSetTheorems, WellFoundedInduction

EffectFields == {"state", "order", "start", "end", "key"}

-----------------------------------------------------------------------------
(* Least and greatest elements, and the slices in their order. *)

\* A nonempty set of naturals has a least element.
LEMMA LeastElement ==
  ASSUME NEW S \in SUBSET Nat, S # {} PROVE \E n \in S : \A m \in S : n <= m
<1> DEFINE R == OpToRel(<, Nat)
<1>1. IsWellFoundedOn(R, Nat)
  BY Zenon, NatLessThanWellFounded
<1>2. \A a \in Nat, b \in Nat : a < b => <<a, b>> \in R
  BY DEF OpToRel
<1> HIDE DEF R
<1>3. PICK n \in S : \A m \in S : <<m, n>> \notin R
  BY <1>1, WFMin
<1>4. n \in Nat /\ S \subseteq Nat
  OBVIOUS
<1>5. \A m \in S : ~(m < n)
  BY <1>2, <1>3, <1>4
<1>6. \A m \in S : m \in Nat => n <= m
  BY <1>4, <1>5
<1>7. QED BY <1>3, <1>4, <1>6

\* Induction, stated with the set of the numbers that satisfy the fact.
LEMMA Induct ==
  ASSUME NEW S, 0 \in S, \A n \in Nat : n \in S => n + 1 \in S PROVE \A n \in Nat : n \in S
<1>1. SUFFICES ASSUME NEW k \in Nat, k \notin S PROVE FALSE
  OBVIOUS
<1> DEFINE M == {n \in Nat : n \notin S}
<1>2. PICK n \in M : \A m \in M : n <= m
  BY <1>1, LeastElement
<1>3. n # 0 /\ n - 1 \in Nat /\ n - 1 \notin M
  BY <1>2
<1>4. QED BY <1>3

\* Min of a nonempty set of naturals is in it.
LEMMA MinIn ==
  ASSUME NEW S \in SUBSET Nat, S # {} PROVE Min(S) \in S /\ \A m \in S : Min(S) <= m
<1>1. PICK n \in S : \A m \in S : n <= m
  BY LeastElement
<1> QED BY <1>1 DEF Min

\* The smaller and the greater of two numbers.
LEMMA TwoOf ==
  ASSUME NEW a \in Int, NEW b \in Int
  PROVE  /\ Min({a, b}) = IF a <= b THEN a ELSE b
         /\ Max({a, b}) = IF a >= b THEN a ELSE b
<1>1. Min({a, b}) = IF a <= b THEN a ELSE b
  <2> DEFINE m == IF a <= b THEN a ELSE b
  <2>1. m \in {a, b} /\ (\A y \in {a, b} : m <= y) /\ m \in Int
    OBVIOUS
  <2>2. \A x \in {a, b} : (\A y \in {a, b} : x <= y) => x = m
    BY <2>1
  <2> HIDE DEF m
  <2>3. Min({a, b}) \in {a, b} /\ \A y \in {a, b} : Min({a, b}) <= y
    BY <2>1 DEF Min
  <2>4. Min({a, b}) = m
    BY <2>2, <2>3
  <2> QED BY <2>4 DEF m
<1>2. Max({a, b}) = IF a >= b THEN a ELSE b
  <2> DEFINE m == IF a >= b THEN a ELSE b
  <2>1. m \in {a, b} /\ (\A y \in {a, b} : m >= y) /\ m \in Int
    OBVIOUS
  <2>2. \A x \in {a, b} : (\A y \in {a, b} : x >= y) => x = m
    BY <2>1
  <2> HIDE DEF m
  <2>3. Max({a, b}) \in {a, b} /\ \A y \in {a, b} : Max({a, b}) >= y
    BY <2>1 DEF Max
  <2>4. Max({a, b}) = m
    BY <2>2, <2>3
  <2> QED BY <2>4 DEF m
<1> QED BY <1>1, <1>2

\* A set of naturals up to n has a greatest element.
LEMMA GreatestElement ==
  ASSUME NEW n \in Nat, NEW S \in SUBSET (0..n), S # {} PROVE \E k \in S : \A m \in S : m <= k
<1> DEFINE D == {n - k : k \in S}
<1>0. \A k \in S : k \in 0..n /\ n - k \in Nat
  <2>1. \A k \in 0..n : n - k \in Nat
    OBVIOUS
  <2> QED BY <2>1
<1>1. D \in SUBSET Nat /\ D # {}
  BY <1>0
<1>2. PICK d \in D : \A c \in D : d <= c
  BY <1>1, LeastElement
<1>3. PICK k \in S : d = n - k
  BY <1>2
<1>4. ASSUME NEW m \in S PROVE m <= k
  <2>1. n - m \in D
    OBVIOUS
  <2>2. n - k <= n - m
    BY <1>2, <1>3, <2>1
  <2> QED BY <2>2
<1> QED BY <1>4

\* A finite set that lies in another, which has an element more, is smaller.
LEMMA Smaller ==
  ASSUME NEW T, IsFiniteSet(T), NEW S \in SUBSET T, NEW x \in T, x \notin S
  PROVE  Cardinality(S) \in Nat /\ Cardinality(T) \in Nat /\ Cardinality(S) < Cardinality(T)
<1>1. IsFiniteSet(S) /\ Cardinality(S) <= Cardinality(T) /\ (Cardinality(S) = Cardinality(T) => S = T)
  BY FS_Subset
<1>2. Cardinality(S) \in Nat /\ Cardinality(T) \in Nat
  BY <1>1, FS_CardinalityType
<1> QED BY <1>1, <1>2

\* Numbers that the elements of a finite set have: one of them is the greatest.
LEMMA GreatestOf ==
  ASSUME NEW T, IsFiniteSet(T), T # {}, NEW v, \A q \in T : v[q] \in Int
  PROVE  \E q \in T : \A r \in T : v[r] <= v[q]
<1> DEFINE B(q) == {r \in T : v[r] < v[q]}
           C == {Cardinality(B(q)) : q \in T}
<1>1. \A q \in T : B(q) \in SUBSET T /\ q \notin B(q)
  OBVIOUS
<1>2. \A q \in T : Cardinality(B(q)) \in Nat /\ Cardinality(T) \in Nat /\ Cardinality(B(q)) < Cardinality(T)
  <2> SUFFICES ASSUME NEW q \in T
               PROVE  Cardinality(B(q)) \in Nat /\ Cardinality(T) \in Nat /\ Cardinality(B(q)) < Cardinality(T)
    OBVIOUS
  <2>1. PICK S : S = B(q)
    OBVIOUS
  <2>2. S \in SUBSET T /\ q \notin S
    BY <2>1, <1>1
  <2>3. Cardinality(S) \in Nat /\ Cardinality(T) \in Nat /\ Cardinality(S) < Cardinality(T)
    BY <2>2, Smaller
  <2> QED BY <2>1, <2>3
<1>3. C \in SUBSET (0..Cardinality(T)) /\ C # {} /\ Cardinality(T) \in Nat
  <2> HIDE DEF B
  <2> QED BY <1>2
<1>4. PICK k \in C : \A m \in C : m <= k
  <2> HIDE DEF C
  <2> QED BY <1>3, GreatestElement
<1>5. PICK q \in T : k = Cardinality(B(q))
  <2> HIDE DEF B
  <2> QED BY <1>4
<1>6. ASSUME NEW r \in T, ~(v[r] <= v[q]) PROVE FALSE
  <2>1. PICK R, Q : R = B(r) /\ Q = B(q)
    OBVIOUS
  <2>2. Q \in SUBSET R /\ q \in R /\ q \notin Q
    <3>1. v[q] < v[r] /\ v[q] \in Int /\ v[r] \in Int
      BY <1>6
    <3> QED BY <2>1, <3>1
  <2>3. IsFiniteSet(R)
    BY <2>1, FS_Subset
  <2>4. Cardinality(Q) \in Nat /\ Cardinality(R) \in Nat /\ Cardinality(Q) < Cardinality(R)
    BY <2>2, <2>3, Smaller
  <2>5. Cardinality(R) \in C
    BY <2>1
  <2>6. Cardinality(R) <= Cardinality(Q)
    <3> HIDE DEF C
    <3> QED BY <1>4, <1>5, <2>1, <2>5
  <2> QED BY <2>4, <2>6
<1> HIDE DEF B, C
<1> QED BY <1>6

\* Max and Min of what the elements of a finite set have.
LEMMA MaxOf ==
  ASSUME NEW T, IsFiniteSet(T), T # {}, NEW v, \A q \in T : v[q] \in Int
  PROVE  /\ \E q \in T : Max({v[r] : r \in T}) = v[q]
         /\ \A r \in T : v[r] <= Max({v[s] : s \in T})
<1> DEFINE S == {v[r] : r \in T}
<1>1. PICK q \in T : \A r \in T : v[r] <= v[q]
  BY GreatestOf
<1>2. v[q] \in S /\ \A y \in S : v[q] >= y
  BY <1>1
<1>3. Max(S) \in S /\ \A y \in S : Max(S) >= y
  <2> HIDE DEF S
  <2> QED BY <1>2 DEF Max
<1>4. \A r \in T : v[r] \in S
  OBVIOUS
<1>5. \A r \in T : v[r] <= Max(S)
  <2>1. Max(S) \in Int
    BY <1>3
  <2> HIDE DEF S
  <2> QED BY <1>3, <1>4, <2>1
<1>6. \E r \in T : Max(S) = v[r]
  BY <1>3
<1> QED BY <1>5, <1>6

\* The same for Min.
LEMMA MinOf ==
  ASSUME NEW T, IsFiniteSet(T), T # {}, NEW v, \A q \in T : v[q] \in Int
  PROVE  /\ \E q \in T : Min({v[r] : r \in T}) = v[q]
         /\ \A r \in T : Min({v[s] : s \in T}) <= v[r]
<1> DEFINE S == {v[r] : r \in T}
           w == [q \in T |-> -v[q]]
<1>1. PICK q \in T : \A r \in T : v[q] <= v[r]
  <2>1. \A q \in T : w[q] \in Int /\ w[q] = -v[q]
    OBVIOUS
  <2> HIDE DEF w
  <2>2. PICK q \in T : \A r \in T : w[r] <= w[q]
    BY <2>1, GreatestOf
  <2>3. \A r \in T : v[q] <= v[r]
    BY <2>1, <2>2
  <2> QED BY <2>3
<1>2. v[q] \in S /\ \A y \in S : v[q] <= y
  BY <1>1
<1>3. Min(S) \in S /\ \A y \in S : Min(S) <= y
  <2> HIDE DEF S
  <2> QED BY <1>2 DEF Min
<1>4. \A r \in T : v[r] \in S
  OBVIOUS
<1>5. \A r \in T : Min(S) <= v[r]
  <2>1. Min(S) \in Int
    BY <1>3
  <2> HIDE DEF S
  <2> QED BY <1>3, <1>4, <2>1
<1>6. \E r \in T : Min(S) = v[r]
  BY <1>3
<1> QED BY <1>5, <1>6

\* The slices of a set that come before one: by their start, then by the payment.
Before(f, mine, q) == {r \in mine : f[r].start < f[q].start \/ (f[r].start = f[q].start /\ r < q)}
Rank(f, mine, q) == Cardinality(Before(f, mine, q))

\* Slices are ranked without gaps, and no two have the same rank.
LEMMA Ranks ==
  ASSUME NEW mine \in SUBSET Nat, IsFiniteSet(mine), NEW f, \A q \in mine : f[q].start \in Int
  PROVE  /\ \A q \in mine : Rank(f, mine, q) \in Nat /\ Rank(f, mine, q) < Cardinality(mine)
         /\ \A q, r \in mine : q # r => Rank(f, mine, q) # Rank(f, mine, r)
         /\ \A q, r \in mine : r \in Before(f, mine, q) => Rank(f, mine, r) < Rank(f, mine, q)
         /\ \A q \in mine : Rank(f, mine, q) # 0 => \E r \in mine : Rank(f, mine, r) = Rank(f, mine, q) - 1
<1>1. ASSUME NEW q \in mine
      PROVE  /\ Before(f, mine, q) \in SUBSET mine /\ q \notin Before(f, mine, q)
             /\ IsFiniteSet(Before(f, mine, q)) /\ Rank(f, mine, q) \in Nat
             /\ Rank(f, mine, q) < Cardinality(mine)
  <2>1. Before(f, mine, q) \in SUBSET mine /\ q \notin Before(f, mine, q)
    BY DEF Before
  <2> QED BY <2>1, Smaller, FS_Subset DEF Rank
<1>2. ASSUME NEW q \in mine, NEW r \in mine, r \in Before(f, mine, q)
      PROVE  Before(f, mine, r) \subseteq Before(f, mine, q) /\ Rank(f, mine, r) < Rank(f, mine, q)
  <2>1. Before(f, mine, r) \subseteq Before(f, mine, q)
    <3>1. f[r].start < f[q].start \/ (f[r].start = f[q].start /\ r < q)
      BY <1>2 DEF Before
    <3> SUFFICES ASSUME NEW s \in Before(f, mine, r) PROVE s \in Before(f, mine, q)
      OBVIOUS
    <3>2. s \in mine /\ (f[s].start < f[r].start \/ (f[s].start = f[r].start /\ s < r))
      BY DEF Before
    <3>3. /\ f[s].start \in Int /\ f[r].start \in Int /\ f[q].start \in Int
          /\ s \in Nat /\ r \in Nat /\ q \in Nat
      BY <3>2
    <3>4. f[s].start < f[q].start \/ (f[s].start = f[q].start /\ s < q)
      BY <3>1, <3>2, <3>3
    <3> QED BY <3>2, <3>4 DEF Before
  <2>2. r \notin Before(f, mine, r) /\ IsFiniteSet(Before(f, mine, q))
    BY <1>1
  <2> QED BY <1>2, <2>1, <2>2, Smaller DEF Rank
<1>3. \A q, r \in mine : q # r => q \in Before(f, mine, r) \/ r \in Before(f, mine, q)
  <2> SUFFICES ASSUME NEW q \in mine, NEW r \in mine, q # r
               PROVE  q \in Before(f, mine, r) \/ r \in Before(f, mine, q)
    OBVIOUS
  <2>1. f[q].start \in Int /\ f[r].start \in Int /\ q \in Nat /\ r \in Nat
    OBVIOUS
  <2>2. \A a, b \in Int, m, n \in Nat : m # n => a < b \/ (a = b /\ m < n) \/ b < a \/ (b = a /\ n < m)
    OBVIOUS
  <2>3. \/ f[q].start < f[r].start \/ (f[q].start = f[r].start /\ q < r)
        \/ f[r].start < f[q].start \/ (f[r].start = f[q].start /\ r < q)
    BY <2>1, <2>2
  <2> QED BY <2>3 DEF Before
<1>4. ASSUME NEW q \in mine, NEW r \in mine, q # r PROVE Rank(f, mine, q) # Rank(f, mine, r)
  <2>1. Rank(f, mine, q) \in Nat /\ Rank(f, mine, r) \in Nat
    BY <1>1
  <2>2. Rank(f, mine, q) < Rank(f, mine, r) \/ Rank(f, mine, r) < Rank(f, mine, q)
    BY <1>2, <1>3, <1>4
  <2> QED BY <2>1, <2>2
<1>5. ASSUME NEW q \in mine, Rank(f, mine, q) # 0
      PROVE  \E r \in mine : Rank(f, mine, r) = Rank(f, mine, q) - 1
  <2> DEFINE B == Before(f, mine, q)
             v == [s \in B |-> Rank(f, mine, s)]
  <2>1. B \in SUBSET mine /\ IsFiniteSet(B) /\ B # {}
    BY <1>1, <1>5, FS_EmptySet DEF Rank
  <2>2. \A s \in B : v[s] \in Int /\ v[s] = Rank(f, mine, s)
    BY <1>1, <2>1
  <2>3. PICK r \in B : \A s \in B : v[s] <= v[r]
    <3> HIDE DEF B, v
    <3> QED BY <2>1, <2>2, GreatestOf
  <2>4. r \in mine /\ r \notin Before(f, mine, r) /\ Before(f, mine, r) \subseteq B /\ IsFiniteSet(Before(f, mine, r))
    BY <1>1, <1>2, <2>1, <2>3
  <2>5. ASSUME NEW s \in B, s # r, s \notin Before(f, mine, r) PROVE FALSE
    <3>1. s \in mine /\ r \in Before(f, mine, s)
      BY <1>3, <2>1, <2>4, <2>5
    <3>2. Rank(f, mine, r) < Rank(f, mine, s)
      BY <1>2, <2>4, <3>1
    <3>3. Rank(f, mine, s) <= Rank(f, mine, r)
      <4> HIDE DEF B, v
      <4> QED BY <2>2, <2>3
    <3>4. Rank(f, mine, s) \in Nat /\ Rank(f, mine, r) \in Nat
      BY <1>1, <2>4, <3>1
    <3> QED BY <3>2, <3>3, <3>4
  <2>6. B = Before(f, mine, r) \cup {r}
    <3> HIDE DEF B
    <3> QED BY <2>3, <2>4, <2>5
  <2>7. Cardinality(B) = Cardinality(Before(f, mine, r)) + 1
    <3> HIDE DEF B
    <3> QED BY <2>4, <2>6, FS_AddElement
  <2>8. Rank(f, mine, r) \in Nat
    BY <1>1, <2>4
  <2> QED BY <2>4, <2>7, <2>8 DEF Rank
<1> QED BY <1>1, <1>2, <1>4, <1>5

\* Below the rank of a slice every rank is taken.
LEMMA RanksBelow ==
  ASSUME NEW mine \in SUBSET Nat, IsFiniteSet(mine), NEW f, \A q \in mine : f[q].start \in Int,
         NEW q \in mine, NEW k \in 0..Rank(f, mine, q)
  PROVE  \E r \in mine : Rank(f, mine, r) = k
<1> DEFINE T == {n \in Nat : n <= Rank(f, mine, q) => \E r \in mine : Rank(f, mine, r) = Rank(f, mine, q) - n}
<1>0. \A r \in mine : Rank(f, mine, r) \in Nat
  BY Ranks
<1>1. 0 \in T
  BY <1>0
<1>2. ASSUME NEW n \in Nat, n \in T PROVE n + 1 \in T
  <2>1. SUFFICES ASSUME n + 1 <= Rank(f, mine, q)
                 PROVE  \E r \in mine : Rank(f, mine, r) = Rank(f, mine, q) - (n + 1)
    OBVIOUS
  <2>2. PICK r \in mine : Rank(f, mine, r) = Rank(f, mine, q) - n
    BY <1>0, <1>2, <2>1
  <2>3. Rank(f, mine, r) # 0
    BY <1>0, <2>1, <2>2
  <2>4. PICK s \in mine : Rank(f, mine, s) = Rank(f, mine, r) - 1
    BY <2>3, Ranks
  <2>5. Rank(f, mine, s) = Rank(f, mine, q) - (n + 1)
    BY <1>0, <2>2, <2>4
  <2> QED BY <2>5
<1>3. \A n \in Nat : n \in T
  <2> HIDE DEF T
  <2> QED BY <1>1, <1>2, Induct
<1>4. Rank(f, mine, q) - k \in T /\ Rank(f, mine, q) - k \in Nat /\ k \in Nat
  <2> HIDE DEF T
  <2>1. Rank(f, mine, q) - k \in Nat /\ k \in Nat
    BY <1>0
  <2> QED BY <1>3, <2>1
<1>5. PICK r \in mine : Rank(f, mine, r) = Rank(f, mine, q) - (Rank(f, mine, q) - k)
  BY <1>0, <1>4
<1> QED BY <1>0, <1>4, <1>5

\* Periods for slices in a row: each its own, or the one after the last.
Row(g, N, a) == g = [n \in 0..N |-> IF n = 0 THEN -1 ELSE Max({a[n], g[n - 1] + 1})]

\* The recursion has a solution.
LEMMA NumbersExist ==
  ASSUME NEW N \in Nat, NEW a
  PROVE  \E g : Row(g, N, a)
<1> DEFINE T == {m \in Nat : \E g : g = [n \in 0..m |-> IF n = 0 THEN -1 ELSE Max({a[n], g[n - 1] + 1})]}
<1>1. 0 \in T
  <2> DEFINE g == [n \in 0..0 |-> -1]
  <2>1. g = [n \in 0..0 |-> IF n = 0 THEN -1 ELSE Max({a[n], g[n - 1] + 1})]
    OBVIOUS
  <2> HIDE DEF g
  <2> QED BY <2>1
<1>2. ASSUME NEW m \in Nat, m \in T PROVE m + 1 \in T
  <2>1. PICK g : g = [n \in 0..m |-> IF n = 0 THEN -1 ELSE Max({a[n], g[n - 1] + 1})]
    BY <1>2
  <2> DEFINE h == [n \in 0..(m + 1) |-> IF n = 0 THEN -1 ELSE Max({a[n], g[n - 1] + 1})]
  <2>2. ASSUME NEW n \in 0..m PROVE h[n] = g[n]
    <3>1. n \in 0..(m + 1)
      OBVIOUS
    <3>2. h[n] = IF n = 0 THEN -1 ELSE Max({a[n], g[n - 1] + 1})
      BY <3>1
    <3>3. g[n] = IF n = 0 THEN -1 ELSE Max({a[n], g[n - 1] + 1})
      BY Zenon, <2>1
    <3> QED BY <3>2, <3>3
  <2>3. \A n \in 0..(m + 1) : n # 0 => n - 1 \in 0..m
    OBVIOUS
  <2>4. ASSUME NEW n \in 0..(m + 1)
        PROVE  (IF n = 0 THEN -1 ELSE Max({a[n], g[n - 1] + 1})) = (IF n = 0 THEN -1 ELSE Max({a[n], h[n - 1] + 1}))
    <3> HIDE DEF h
    <3> QED BY <2>2, <2>3
  <2>5. h = [n \in 0..(m + 1) |-> IF n = 0 THEN -1 ELSE Max({a[n], h[n - 1] + 1})]
    BY Zenon, <2>4
  <2> HIDE DEF h
  <2>6. \E k : k = [n \in 0..(m + 1) |-> IF n = 0 THEN -1 ELSE Max({a[n], k[n - 1] + 1})]
    BY Zenon, <2>5
  <2>7. m + 1 \in Nat
    OBVIOUS
  <2> QED BY Zenon, <2>6, <2>7
<1>3. \A m \in Nat : m \in T
  <2> HIDE DEF T
  <2> QED BY <1>1, <1>2, Induct
<1>4. N \in T
  BY Zenon, <1>3
<1> QED BY Zenon, <1>4 DEF Row

\* The numbers are periods and grow, as far as the slices have periods.
LEMMA NumbersGrow ==
  ASSUME NEW N \in Nat, NEW a, NEW g, Row(g, N, a), NEW K \in 0..N, \A n \in 1..K : a[n] \in Nat
  PROVE  /\ \A n \in 1..K : g[n] \in Nat
         /\ \A n \in 1..K : \A m \in 1..K : m < n => g[m] < g[n]
<1>0. ASSUME NEW n \in 0..N PROVE g[n] = IF n = 0 THEN -1 ELSE Max({a[n], g[n - 1] + 1})
  BY Zenon DEF Row
<1> DEFINE T == {n \in Nat : n <= K => /\ g[n] \in Int /\ g[n] >= -1 /\ (\A m \in 1..n : g[m] \in Nat)
                                       /\ \A m \in 1..n : m < n => g[m] < g[n]}
<1>1. 0 \in T
  <2>1. g[0] = IF 0 = 0 THEN -1 ELSE Max({a[0], g[0 - 1] + 1})
    <3>1. 0 \in 0..N
      OBVIOUS
    <3> QED BY Zenon, <3>1, <1>0
  <2>2. g[0] = -1
    BY <2>1
  <2> QED BY <2>2
<1>2. ASSUME NEW n \in Nat, n \in T PROVE n + 1 \in T
  <2>1. SUFFICES ASSUME n + 1 <= K
                 PROVE  /\ g[n + 1] \in Int /\ g[n + 1] >= -1 /\ (\A m \in 1..(n + 1) : g[m] \in Nat)
                        /\ \A m \in 1..(n + 1) : m < n + 1 => g[m] < g[n + 1]
    OBVIOUS
  <2>2. n + 1 \in 0..N /\ n + 1 \in 1..K
    BY <2>1
  <2>3. g[n + 1] = IF n + 1 = 0 THEN -1 ELSE Max({a[n + 1], g[(n + 1) - 1] + 1})
    BY Zenon, <2>2, <1>0
  <2>4. g[n] \in Int /\ g[n] >= -1 /\ (\A m \in 1..n : g[m] \in Nat) /\ \A m \in 1..n : m < n => g[m] < g[n]
    BY <1>2, <2>1
  <2>5. a[n + 1] \in Nat /\ (n + 1) - 1 = n /\ n + 1 # 0
    BY <2>2
  <2>6. g[n + 1] = Max({a[n + 1], g[n] + 1})
    BY <2>3, <2>5
  <2>7. g[n + 1] \in Nat /\ g[n + 1] > g[n]
    <3>1. PICK x, y : x = a[n + 1] /\ y = g[n] + 1
      OBVIOUS
    <3>2. x \in Int /\ y \in Int /\ x >= 0 /\ y >= 0
      BY <2>4, <2>5, <3>1
    <3>3. Max({x, y}) = IF x >= y THEN x ELSE y
      BY <3>2, TwoOf
    <3>4. g[n + 1] = Max({x, y})
      BY Zenon, <2>6, <3>1
    <3> QED BY <2>4, <3>1, <3>2, <3>3, <3>4
  <2>8. \A m \in 1..(n + 1) : m = n + 1 \/ (m \in 1..n /\ (m = n \/ m < n))
    OBVIOUS
  <2>9. \A m \in 1..(n + 1) : g[m] \in Nat
    BY <2>4, <2>7, <2>8
  <2>10. ASSUME NEW m \in 1..(n + 1), m < n + 1 PROVE g[m] < g[n + 1]
    <3>1. m = n \/ (m \in 1..n /\ m < n)
      BY <2>8, <2>10
    <3>2. g[m] <= g[n] /\ g[m] \in Int
      BY <2>4, <2>9, <3>1
    <3> QED BY <2>4, <2>7, <3>2
  <2> QED BY <2>7, <2>9, <2>10
<1>3. \A n \in Nat : n \in T
  <2> HIDE DEF T
  <2> QED BY <1>1, <1>2, Induct
<1>4. ASSUME NEW n \in 1..K PROVE g[n] \in Nat /\ \A m \in 1..K : m < n => g[m] < g[n]
  <2>1. n \in Nat /\ n <= K /\ n \in 1..n
    OBVIOUS
  <2>2. (\A m \in 1..n : g[m] \in Nat) /\ \A m \in 1..n : m < n => g[m] < g[n]
    BY <1>3, <2>1
  <2>3. \A m \in 1..K : m < n => m \in 1..n
    OBVIOUS
  <2> QED BY <2>1, <2>2, <2>3
<1> QED BY <1>4

\* A period counts from the start of its window.
LEMMA PeriodType == ASSUME NEW e, e.start \in Int, NEW t \in Int PROVE Period(e, t) \in Nat
<1>1. MonthLength \in Nat \ {0}
  BY SliceConstants
<1>2. CASE t < e.start
  BY <1>2 DEF Period
<1>3. CASE ~(t < e.start)
  <2>1. t - e.start \in Nat
    BY <1>3
  <2>2. \A n \in Nat, d \in Nat \ {0} : n \div d \in Nat
    OBVIOUS
  <2> QED BY <1>1, <1>3, <2>1, <2>2 DEF Period
<1> QED BY <1>2, <1>3

\* The slice with the n-th rank, and the numbers as Renumbered counts them.
Counts(g, f, mine, e) ==
  g = [n \in 0..Cardinality(mine) |->
        IF n = 0 THEN -1
        ELSE LET q == CHOOSE r \in mine : Cardinality({s \in mine : f[s].start < f[r].start \/ (f[s].start = f[r].start /\ s < r)}) = n - 1
             IN  Max({Period(e, f[q].start), g[n - 1] + 1})]

NumberOf(f, mine, e) == CHOOSE g : Counts(g, f, mine, e)

\* Renumbered gives each slice the key of a number of the row.
LEMMA RenumberedIs ==
  ASSUME NEW f, NEW p, NEW o, NEW e
  PROVE  Renumbered(f, p, o, e) =
           [q \in Pay |->
             IF q \in Slices(f, p, o)
             THEN [f[q] EXCEPT !.key = KeyOf(o, e, NumberOf(f, Slices(f, p, o), e)[Rank(f, Slices(f, p, o), q) + 1])]
             ELSE f[q]]
BY Zenon DEF Renumbered, NumberOf, Counts, Rank, Before

\* The n-th slice has a period of its own, and periods grow with the rank.
LEMMA NumberOfGrows ==
  ASSUME NEW mine \in SUBSET Nat, IsFiniteSet(mine), NEW f, \A q \in mine : f[q].start \in Int,
         NEW e, e.start \in Int
  PROVE  /\ \A q \in mine : NumberOf(f, mine, e)[Rank(f, mine, q) + 1] \in Nat
         /\ \A q, r \in mine : q # r =>
              NumberOf(f, mine, e)[Rank(f, mine, q) + 1] # NumberOf(f, mine, e)[Rank(f, mine, r) + 1]
<1> DEFINE N == Cardinality(mine)
           a == [n \in 0..N |-> Period(e, f[CHOOSE r \in mine : Rank(f, mine, r) = n - 1].start)]
           g == NumberOf(f, mine, e)
<1>1. N \in Nat
  BY FS_CardinalityType
<1>2. PICK h : Row(h, N, a)
  <2> HIDE DEF N, a
  <2> QED BY <1>1, NumbersExist
<1>3. ASSUME NEW k PROVE Row(k, N, a) <=> Counts(k, f, mine, e)
  <2>1. ASSUME NEW n \in 0..N
        PROVE  (IF n = 0 THEN -1 ELSE Max({a[n], k[n - 1] + 1})) =
               (IF n = 0 THEN -1
                ELSE LET q == CHOOSE r \in mine : Cardinality({s \in mine : f[s].start < f[r].start \/ (f[s].start = f[r].start /\ s < r)}) = n - 1
                     IN  Max({Period(e, f[q].start), k[n - 1] + 1}))
    <3>1. a[n] = Period(e, f[CHOOSE r \in mine : Cardinality({s \in mine : f[s].start < f[r].start \/ (f[s].start = f[r].start /\ s < r)}) = n - 1].start)
      BY Zenon DEF Rank, Before
    <3> HIDE DEF a, N
    <3> QED BY Zenon, <3>1
  <2> HIDE DEF a
  <2> QED BY Zenon, <2>1 DEF Row, Counts
<1>4. Row(g, N, a)
  <2>1. Counts(h, f, mine, e)
    BY Zenon, <1>2, <1>3
  <2>2. Counts(g, f, mine, e)
    BY Zenon, <2>1 DEF NumberOf
  <2> QED BY Zenon, <2>2, <1>3
<1>5. \A q \in mine : Rank(f, mine, q) \in Nat /\ Rank(f, mine, q) < N
  BY Ranks
<1>6. ASSUME NEW q \in mine, NEW n \in 1..(Rank(f, mine, q) + 1) PROVE a[n] \in Nat
  <2>1. n - 1 \in 0..Rank(f, mine, q) /\ n \in 0..N
    BY <1>1, <1>5
  <2>2. \E r \in mine : Rank(f, mine, r) = n - 1
    BY <2>1, RanksBelow
  <2> DEFINE s == CHOOSE r \in mine : Rank(f, mine, r) = n - 1
  <2>3. s \in mine
    BY <2>2
  <2>4. a[n] = Period(e, f[s].start)
    BY Zenon, <2>1
  <2> HIDE DEF s, a
  <2> QED BY <2>3, <2>4, PeriodType
<1> HIDE DEF a, g, N
<1>7. ASSUME NEW q \in mine, NEW r \in mine, Rank(f, mine, r) <= Rank(f, mine, q)
      PROVE  /\ g[Rank(f, mine, q) + 1] \in Nat
             /\ q # r => g[Rank(f, mine, r) + 1] < g[Rank(f, mine, q) + 1]
  <2> DEFINE K == Rank(f, mine, q) + 1
             M == Rank(f, mine, r) + 1
  <2>1. K \in 0..N /\ K \in 1..K /\ M \in 1..K /\ (q # r => M < K)
    <3>1. q # r => Rank(f, mine, q) # Rank(f, mine, r)
      BY Ranks
    <3> QED BY <1>1, <1>5, <1>7, <3>1
  <2>2. \A n \in 1..K : a[n] \in Nat
    BY <1>6
  <2> HIDE DEF K, M
  <2>3. /\ \A n \in 1..K : g[n] \in Nat
        /\ \A n \in 1..K : \A m \in 1..K : m < n => g[m] < g[n]
    BY <1>1, <1>4, <2>1, <2>2, NumbersGrow
  <2> QED BY <2>1, <2>3 DEF K, M
<1>8. \A q \in mine : g[Rank(f, mine, q) + 1] \in Nat
  <2> SUFFICES ASSUME NEW q \in mine PROVE g[Rank(f, mine, q) + 1] \in Nat
    OBVIOUS
  <2>1. Rank(f, mine, q) \in Nat
    BY <1>5
  <2>2. Rank(f, mine, q) <= Rank(f, mine, q)
    BY <2>1
  <2> QED BY <1>7, <2>2
<1>9. ASSUME NEW q \in mine, NEW r \in mine, q # r PROVE g[Rank(f, mine, q) + 1] # g[Rank(f, mine, r) + 1]
  <2>1. Rank(f, mine, q) <= Rank(f, mine, r) \/ Rank(f, mine, r) <= Rank(f, mine, q)
    BY <1>5
  <2>2. g[Rank(f, mine, r) + 1] < g[Rank(f, mine, q) + 1] \/ g[Rank(f, mine, q) + 1] < g[Rank(f, mine, r) + 1]
    BY <1>7, <1>9, <2>1
  <2> QED BY <1>8, <2>2
<1> QED BY <1>8, <1>9 DEF g

\* A payment claims a period that no payment has: there are more periods to try than payments.
LEMMA ClaimedIs ==
  ASSUME NEW f, NEW o, NEW e, e.start \in Int, NEW had, NEW t \in Int
  PROVE  \E n \in Nat : Claimed(f, o, e, had, t) = KeyOf(o, e, n) /\ \A q \in Pay : f[q].key # KeyOf(o, e, n)
<1> DEFINE first == Period(e, t)
           free == {n \in first..(first + Cardinality(Pay) + 1) :
                      (n > first \/ ~had) /\ \A q \in Pay : f[q].key # KeyOf(o, e, n)}
           C == Cardinality(Pay)
           tried == (first + 1)..(first + C + 1)
           taken == [n \in tried |-> CHOOSE q \in Pay : f[q].key = KeyOf(o, e, n)]
<1>1. first \in Nat
  BY PeriodType
<1>2. C \in Nat /\ IsFiniteSet(Pay)
  BY SliceConstants, FS_CardinalityType
<1>3. Claimed(f, o, e, had, t) = KeyOf(o, e, Min(free))
  BY Zenon DEF Claimed
<1>4. ASSUME NEW n, NEW m, KeyOf(o, e, n) = KeyOf(o, e, m) PROVE n = m
  BY <1>4 DEF KeyOf
<1>5. free # {}
  <2> HIDE DEF first
  <2>1. SUFFICES ASSUME free = {} PROVE FALSE
    OBVIOUS
  <2>2. IsFiniteSet(tried) /\ Cardinality(tried) > C
    <3>1. first + 1 \in Int /\ first + C + 1 \in Int /\ ~(first + 1 > first + C + 1)
      BY <1>1, <1>2
    <3>2. IsFiniteSet(tried) /\ Cardinality(tried) = (first + C + 1) - (first + 1) + 1
      BY <3>1, FS_Interval
    <3> QED BY <1>1, <1>2, <3>2
  <2>3. ASSUME NEW n \in tried PROVE \E q \in Pay : f[q].key = KeyOf(o, e, n)
    <3>1. n \in first..(first + C + 1) /\ n > first
      BY <1>1, <1>2
    <3> QED BY <2>1, <3>1
  <2> HIDE DEF C, tried
  <2>4. taken \in [tried -> Pay] /\ \A n \in tried : f[taken[n]].key = KeyOf(o, e, n)
    BY <2>3
  <2> HIDE DEF taken
  <2>5. PICK n, m \in tried : n # m /\ taken[n] = taken[m]
    BY <1>2, <2>2, <2>4, FS_PigeonHole DEF C
  <2>6. KeyOf(o, e, n) = KeyOf(o, e, m)
    BY <2>4, <2>5
  <2> QED BY <1>4, <2>5, <2>6
<1>6. free \in SUBSET Nat
  BY <1>1, <1>2
<1>7. Min(free) \in free
  <2> HIDE DEF free
  <2> QED BY <1>5, <1>6, MinIn
<1>8. Min(free) \in Nat /\ \A q \in Pay : f[q].key # KeyOf(o, e, Min(free))
  BY <1>6, <1>7
<1> HIDE DEF free
<1> QED BY <1>3, <1>8

\* The slices of a checkout are finitely many payments.
LEMMA SlicesFinite ==
  ASSUME NEW f, NEW p, NEW o
  PROVE  /\ Slices(f, p, o) \in SUBSET Pay /\ Slices(f, p, o) \in SUBSET Nat /\ IsFiniteSet(Slices(f, p, o))
         /\ \A S : S \in SUBSET Slices(f, p, o) => IsFiniteSet(S)
<1>1. Slices(f, p, o) \in SUBSET Pay
  BY DEF Slices
<1>2. IsFiniteSet(Slices(f, p, o)) /\ Slices(f, p, o) \in SUBSET Nat
  BY <1>1, SliceConstants, FS_Subset
<1> QED BY <1>1, <1>2, FS_Subset

\* After the numbering every slice of the checkout has a period of its own in the window.
LEMMA RenumberedKeys ==
  ASSUME NEW f, \A q \in Pay : DOMAIN f[q] = EffectFields /\ f[q].start \in Int, NEW p, NEW o,
         NEW e, e.start \in Int
  PROVE  /\ \A q \in Slices(f, p, o) : \E n \in Nat : Renumbered(f, p, o, e)[q] = [f[q] EXCEPT !.key = KeyOf(o, e, n)]
         /\ \A q \in Pay : q \notin Slices(f, p, o) => Renumbered(f, p, o, e)[q] = f[q]
         /\ \A q, r \in Slices(f, p, o) : q # r => Renumbered(f, p, o, e)[q].key # Renumbered(f, p, o, e)[r].key
<1> DEFINE mine == Slices(f, p, o)
           g == NumberOf(f, mine, e)
           R == Renumbered(f, p, o, e)
<1>1. mine \in SUBSET Pay /\ mine \in SUBSET Nat /\ IsFiniteSet(mine)
  BY SlicesFinite
<1>2. \A q \in Pay : R[q] = IF q \in mine THEN [f[q] EXCEPT !.key = KeyOf(o, e, g[Rank(f, mine, q) + 1])] ELSE f[q]
  BY Zenon, RenumberedIs
<1> HIDE DEF mine, R
<1>3. /\ \A q \in mine : g[Rank(f, mine, q) + 1] \in Nat
      /\ \A q, r \in mine : q # r => g[Rank(f, mine, q) + 1] # g[Rank(f, mine, r) + 1]
  BY <1>1, NumberOfGrows
<1> HIDE DEF g
<1>4. ASSUME NEW q \in mine
      PROVE  /\ R[q] = [f[q] EXCEPT !.key = KeyOf(o, e, g[Rank(f, mine, q) + 1])]
             /\ R[q].key = KeyOf(o, e, g[Rank(f, mine, q) + 1])
  <2>1. q \in Pay /\ DOMAIN f[q] = EffectFields
    BY <1>1
  <2>2. R[q] = [f[q] EXCEPT !.key = KeyOf(o, e, g[Rank(f, mine, q) + 1])]
    BY <1>2, <2>1
  <2>3. \A k : [f[q] EXCEPT !.key = k].key = k
    BY <2>1 DEF EffectFields
  <2> QED BY <2>2, <2>3
<1>5. ASSUME NEW q \in mine, NEW r \in mine, q # r PROVE R[q].key # R[r].key
  <2>1. g[Rank(f, mine, q) + 1] # g[Rank(f, mine, r) + 1]
    BY <1>3, <1>5
  <2>2. PICK n, m : n = g[Rank(f, mine, q) + 1] /\ m = g[Rank(f, mine, r) + 1]
    OBVIOUS
  <2>3. KeyOf(o, e, n) # KeyOf(o, e, m)
    BY <2>1, <2>2 DEF KeyOf
  <2>4. R[q].key = KeyOf(o, e, n) /\ R[r].key = KeyOf(o, e, m)
    BY Zenon, <1>4, <2>2
  <2> QED BY Zenon, <2>3, <2>4
<1> QED BY <1>2, <1>3, <1>4, <1>5 DEF mine, R
=============================================================================
