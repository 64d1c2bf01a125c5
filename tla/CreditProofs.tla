------------------------------ MODULE CreditProofs ------------------------------
(***************************************************************************)
(* Proofs about the credit ledger, for any number of accounts, packs,      *)
(* overlapping calls and rows.                                             *)
(*                                                                         *)
(* The first sections are about the operators: sums over a ledger, what a  *)
(* row posted in the order of the replay does to them, and what either     *)
(* replay may leave.  They go by induction over the length of the ledger,  *)
(* stated with sets of numbers.  Then comes the inductive invariant IInv:  *)
(* the types of the rows (TypeInv), the spends between their read and      *)
(* their commit (SpendInv), and the packs, their payments and reversals    *)
(* between read and write (PackInv).                                       *)
(***************************************************************************)
EXTENDS CreditProperties, PlanSlicesProofs, SequenceTheorems

-----------------------------------------------------------------------------
(* Recursion over numbers. *)

\* f starts from a and goes on by F for n steps.
Follows(f, n, S, a, F) ==
  f \in [0..n -> S] /\ f[0] = a /\ \A i \in 1..n : f[i] = F[<<i, f[i - 1]>>]

\* A sequence of n steps by F exists.
LEMMA Recursion ==
  ASSUME NEW S, NEW n \in Nat, NEW a \in S, NEW F \in [(1..n) \X S -> S]
  PROVE  \E g : Follows(g, n, S, a, F)
<1> DEFINE Upto(m) == \E g \in [0..m -> S] : g[0] = a /\ \A i \in 1..m : g[i] = F[<<i, g[i - 1]>>]
           T == {m \in Nat : m <= n => Upto(m)}
<1>1. 0 \in T
  <2>1. [i \in 0..0 |-> a] \in [0..0 -> S] /\ [i \in 0..0 |-> a][0] = a /\ 1..0 = {}
    OBVIOUS
  <2>2. QED BY <2>1
<1>2. ASSUME NEW m \in Nat, m \in T PROVE m + 1 \in T
  <2>1. SUFFICES ASSUME m + 1 <= n PROVE Upto(m + 1)
    OBVIOUS
  <2>2. PICK g \in [0..m -> S] : g[0] = a /\ \A i \in 1..m : g[i] = F[<<i, g[i - 1]>>]
    BY <1>2, <2>1
  <2> DEFINE h == [i \in 0..(m + 1) |-> IF i = m + 1 THEN F[<<i, g[m]>>] ELSE g[i]]
  <2>3. g[m] \in S /\ m + 1 \in 1..n /\ m \in 0..m
    BY <2>1
  <2>4. F[<<m + 1, g[m]>>] \in S
    BY <2>3
  <2>5. h \in [0..(m + 1) -> S]
    <3>1. \A i \in 0..(m + 1) : i = m + 1 \/ i \in 0..m
      OBVIOUS
    <3>2. QED BY <3>1, <2>4
  <2>6. h[0] = a
    BY <2>2
  <2>7. ASSUME NEW i \in 1..(m + 1) PROVE h[i] = F[<<i, h[i - 1]>>]
    <3>1. i - 1 \in 0..(m + 1) /\ i - 1 # m + 1 /\ i \in 0..(m + 1)
      OBVIOUS
    <3>2. h[i - 1] = g[i - 1]
      BY <3>1
    <3>3. CASE i = m + 1
      BY <3>1, <3>2, <3>3
    <3>4. CASE i # m + 1
      <4>1. i \in 1..m
        BY <3>4
      <4>2. QED BY <3>1, <3>2, <3>4, <4>1, <2>2
    <3>5. QED BY <3>3, <3>4
  <2> HIDE DEF h
  <2>8. QED BY <2>5, <2>6, <2>7
<1> HIDE DEF Upto
<1>3. \A m \in Nat : m \in T
  <2> HIDE DEF T
  <2>1. QED BY <1>1, <1>2, Induct
<1>4. Upto(n)
  BY <1>3
<1>5. QED BY <1>4 DEF Upto, Follows

-----------------------------------------------------------------------------
(* Sums. *)

\* A sum is the last of its partial sums.
LEMMA TotalIs ==
  ASSUME NEW s \in Seq(Int), NEW g \in [0..Len(s) -> Int],
         g[0] = 0, \A i \in 1..Len(s) : g[i] = g[i - 1] + s[i]
  PROVE  Total(s) = g[Len(s)]
<1> DEFINE N == 0..Len(s)
           Adds(f) == f = [i \in N |-> IF i = 0 THEN 0 ELSE f[i - 1] + s[i]]
           sum == CHOOSE f : Adds(f)
<1>1. Total(s) = sum[Len(s)]
  BY DEF Total
<1>2. Len(s) \in Nat /\ \A i \in N : i = 0 \/ i \in 1..Len(s)
  OBVIOUS
<1>3. Adds(g)
  BY <1>2
<1>4. Adds(sum)
  <2> HIDE DEF Adds
  <2>1. QED BY <1>3
<1> HIDE DEF sum
<1> DEFINE T == {i \in Nat : i \in N => sum[i] = g[i]}
<1>5. 0 \in T
  BY <1>4
<1>6. ASSUME NEW i \in Nat, i \in T PROVE i + 1 \in T
  <2>1. SUFFICES ASSUME i + 1 \in N PROVE sum[i + 1] = g[i + 1]
    OBVIOUS
  <2>2. i \in N /\ i + 1 \in 1..Len(s) /\ i + 1 # 0 /\ (i + 1) - 1 = i
    BY <1>2, <2>1
  <2>3. sum[i + 1] = sum[i] + s[i + 1]
    BY <1>4, <2>1, <2>2
  <2>4. g[i + 1] = g[i] + s[i + 1]
    BY <2>2
  <2>5. QED BY <1>6, <2>2, <2>3, <2>4
<1>7. \A i \in Nat : i \in T
  <2> HIDE DEF T
  <2>1. QED BY <1>5, <1>6, Induct
<1>8. QED BY <1>1, <1>2, <1>7

\* Every sequence of numbers has its partial sums.
LEMMA PartialSums ==
  ASSUME NEW s \in Seq(Int)
  PROVE  \E g \in [0..Len(s) -> Int] : /\ g[0] = 0
                                       /\ \A i \in 1..Len(s) : g[i] = g[i - 1] + s[i]
                                       /\ Total(s) = g[Len(s)]
<1>1. PICK n \in Nat : n = Len(s)
  OBVIOUS
<1> DEFINE F == [x \in (1..n) \X Int |-> x[2] + s[x[1]]]
<1>2. F \in [(1..n) \X Int -> Int]
  <2>1. \A x \in (1..n) \X Int : x[1] \in 1..n /\ x[2] \in Int
    OBVIOUS
  <2>2. \A i \in 1..n : s[i] \in Int
    BY <1>1
  <2>3. QED BY <2>1, <2>2
<1>3. \A i \in 1..n, m \in Int : F[<<i, m>>] = m + s[i]
  OBVIOUS
<1> HIDE DEF F
<1>4. PICK g : Follows(g, n, Int, 0, F)
  <2>1. 0 \in Int
    OBVIOUS
  <2>2. QED BY <1>2, <2>1, Recursion, Zenon
<1>4a. g \in [0..n -> Int] /\ g[0] = 0 /\ \A i \in 1..n : g[i] = F[<<i, g[i - 1]>>]
  BY <1>4 DEF Follows
<1>5. \A i \in 1..n : i - 1 \in 0..n
  OBVIOUS
<1>6. \A i \in 1..n : g[i] = g[i - 1] + s[i]
  BY <1>3, <1>4a, <1>5
<1>7. Total(s) = g[Len(s)]
  BY <1>1, <1>4a, <1>6, TotalIs
<1>8. QED BY <1>1, <1>4a, <1>6, <1>7

\* A sum of integers is an integer.
LEMMA IntTotal ==
  ASSUME NEW s \in Seq(Int)
  PROVE  Total(s) \in Int
<1>1. PICK g \in [0..Len(s) -> Int] : Total(s) = g[Len(s)]
  BY PartialSums
<1>2. Len(s) \in 0..Len(s)
  OBVIOUS
<1>3. QED BY <1>1, <1>2

\* The sums of nothing and of one number.
LEMMA TotalSmall ==
  /\ Total(<<>>) = 0
  /\ \A x \in Int : Total(<<x>>) = x
<1>1. Total(<<>>) = 0
  <2>1. <<>> \in Seq(Int) /\ Len(<<>>) = 0
    OBVIOUS
  <2>2. PICK g \in [0..Len(<<>>) -> Int] : g[0] = 0 /\ Total(<<>>) = g[Len(<<>>)]
    BY <2>1, PartialSums
  <2>3. QED BY <2>1, <2>2
<1>2. ASSUME NEW x \in Int PROVE Total(<<x>>) = x
  <2>1. <<x>> \in Seq(Int) /\ Len(<<x>>) = 1 /\ <<x>>[1] = x
    OBVIOUS
  <2>2. PICK g \in [0..Len(<<x>>) -> Int] : /\ g[0] = 0
                                            /\ \A i \in 1..Len(<<x>>) : g[i] = g[i - 1] + <<x>>[i]
                                            /\ Total(<<x>>) = g[Len(<<x>>)]
    BY <2>1, PartialSums
  <2>3. 1 \in 1..Len(<<x>>) /\ 1 - 1 = 0
    BY <2>1
  <2>4. g[1] = g[0] + x
    BY <2>1, <2>2, <2>3
  <2>5. QED BY <2>1, <2>2, <2>4
<1>3. QED BY <1>1, <1>2

\* The sum of two sequences in a row.
LEMMA TotalConcat ==
  ASSUME NEW s \in Seq(Int), NEW t \in Seq(Int)
  PROVE  Total(s \o t) = Total(s) + Total(t)
<1>1. PICK m \in Nat, n \in Nat : m = Len(s) /\ n = Len(t)
  OBVIOUS
<1>2. PICK f \in [0..m -> Int] : /\ f[0] = 0 /\ Total(s) = f[m]
                                 /\ \A i \in 1..m : f[i] = f[i - 1] + s[i]
  BY <1>1, PartialSums
<1>3. PICK g \in [0..n -> Int] : /\ g[0] = 0 /\ Total(t) = g[n]
                                 /\ \A i \in 1..n : g[i] = g[i - 1] + t[i]
  BY <1>1, PartialSums
<1>4. /\ s \o t \in Seq(Int) /\ Len(s \o t) = m + n
      /\ \A i \in 1..(m + n) : (s \o t)[i] = IF i <= m THEN s[i] ELSE t[i - m]
  BY <1>1
<1> DEFINE h == [i \in 0..(m + n) |-> IF i <= m THEN f[i] ELSE f[m] + g[i - m]]
<1>5. h \in [0..(m + n) -> Int]
  <2>1. \A i \in 0..(m + n) : IF i <= m THEN i \in 0..m ELSE i - m \in 0..n
    OBVIOUS
  <2>2. m \in 0..m
    OBVIOUS
  <2>3. QED BY <2>1, <2>2
<1>6. h[0] = 0 /\ h[m + n] = f[m] + g[n]
  <2>1. 0 \in 0..(m + n) /\ m + n \in 0..(m + n) /\ 0 <= m /\ m \in 0..m
    OBVIOUS
  <2>2. CASE n = 0
    <3>1. h[m + n] = f[m] /\ g[n] = 0
      BY <1>3, <2>1, <2>2
    <3>2. QED BY <1>2, <2>1, <3>1
  <2>3. CASE n # 0
    <3>1. ~(m + n <= m) /\ (m + n) - m = n
      BY <2>3
    <3>2. QED BY <1>2, <2>1, <3>1
  <2>4. QED BY <2>2, <2>3
<1>7. ASSUME NEW i \in 1..(m + n) PROVE h[i] = h[i - 1] + (s \o t)[i]
  <2>1. i \in 0..(m + n) /\ i - 1 \in 0..(m + n)
    OBVIOUS
  <2>2. CASE i <= m
    <3>1. i \in 1..m /\ i - 1 <= m
      BY <2>2
    <3>2. h[i] = f[i] /\ h[i - 1] = f[i - 1] /\ (s \o t)[i] = s[i]
      BY <1>4, <2>1, <2>2, <3>1
    <3>3. QED BY <1>2, <3>1, <3>2
  <2>3. CASE ~(i <= m)
    <3>1. i - m \in 1..n /\ (i - m) - 1 = (i - 1) - m
      BY <2>3
    <3>2. h[i] = f[m] + g[i - m] /\ (s \o t)[i] = t[i - m]
      BY <1>4, <2>1, <2>3
    <3>3. h[i - 1] = f[m] + g[(i - m) - 1]
      <4>1. CASE i - 1 <= m
        <5>1. i - 1 = m /\ (i - m) - 1 = 0
          BY <4>1, <2>3
        <5>2. m \in 0..m
          OBVIOUS
        <5>3. h[i - 1] = f[m] /\ f[m] \in Int
          BY <2>1, <5>1, <5>2
        <5>4. QED BY <1>3, <5>1, <5>3
      <4>2. CASE ~(i - 1 <= m)
        BY <2>1, <3>1, <4>2
      <4>3. QED BY <4>1, <4>2
    <3>4. g[i - m] = g[(i - m) - 1] + t[i - m]
      BY <1>3, <3>1
    <3>5. f[m] \in Int /\ g[(i - m) - 1] \in Int /\ t[i - m] \in Int
      <4>1. m \in 0..m /\ (i - m) - 1 \in 0..n
        BY <3>1
      <4>2. t[i - m] \in Int
        BY <1>1, <3>1
      <4>3. QED BY <4>1, <4>2
    <3>6. QED
      <4> HIDE DEF h
      <4>1. PICK a \in Int, b \in Int, c \in Int : a = f[m] /\ b = g[(i - m) - 1] /\ c = t[i - m]
        BY <3>5
      <4>2. h[i] = a + (b + c) /\ h[i - 1] = a + b /\ (s \o t)[i] = c
        BY <3>2, <3>3, <3>4, <4>1
      <4>3. QED BY <4>2
  <2>4. QED BY <2>2, <2>3
<1> HIDE DEF h
<1>8. Total(s \o t) = h[m + n]
  <2>1. PICK w \in Seq(Int) : w = s \o t /\ Len(w) = m + n
    BY <1>4
  <2>2. h \in [0..Len(w) -> Int] /\ \A i \in 1..Len(w) : h[i] = h[i - 1] + w[i]
    BY <1>5, <1>7, <2>1
  <2>3. Total(w) = h[Len(w)]
    BY <1>6, <2>2, TotalIs
  <2>4. QED BY <2>1, <2>3
<1>9. QED BY <1>2, <1>3, <1>6, <1>8

\* What is at most w term by term, s and t taken together, is so in sum.
LEMMA TotalFits ==
  ASSUME NEW s \in Seq(Int), NEW t \in Seq(Int), NEW w \in Seq(Int),
         Len(s) = Len(w), Len(t) = Len(w),
         \A i \in 1..Len(w) : s[i] + t[i] <= w[i]
  PROVE  Total(s) + Total(t) <= Total(w)
<1>1. PICK n \in Nat : n = Len(s) /\ n = Len(t) /\ n = Len(w)
  OBVIOUS
<1>2. PICK f \in [0..n -> Int] : /\ f[0] = 0 /\ Total(s) = f[n]
                                 /\ \A i \in 1..n : f[i] = f[i - 1] + s[i]
  <2>1. \E f \in [0..Len(s) -> Int] : /\ f[0] = 0
                                      /\ \A i \in 1..Len(s) : f[i] = f[i - 1] + s[i]
                                      /\ Total(s) = f[Len(s)]
    BY PartialSums
  <2>2. QED BY <1>1, <2>1
<1>3. PICK g \in [0..n -> Int] : /\ g[0] = 0 /\ Total(t) = g[n]
                                 /\ \A i \in 1..n : g[i] = g[i - 1] + t[i]
  <2>1. \E e \in [0..Len(t) -> Int] : /\ e[0] = 0
                                      /\ \A i \in 1..Len(t) : e[i] = e[i - 1] + t[i]
                                      /\ Total(t) = e[Len(t)]
    BY PartialSums
  <2>2. QED BY <1>1, <2>1
<1>4. PICK h \in [0..n -> Int] : /\ h[0] = 0 /\ Total(w) = h[n]
                                 /\ \A i \in 1..n : h[i] = h[i - 1] + w[i]
  <2>1. \E e \in [0..Len(w) -> Int] : /\ e[0] = 0
                                      /\ \A i \in 1..Len(w) : e[i] = e[i - 1] + w[i]
                                      /\ Total(w) = e[Len(w)]
    BY PartialSums
  <2>2. QED BY <1>1, <2>1
<1> DEFINE T == {i \in Nat : i \in 0..n => f[i] + g[i] <= h[i]}
<1>5. 0 \in T
  BY <1>2, <1>3, <1>4
<1>6. ASSUME NEW i \in Nat, i \in T PROVE i + 1 \in T
  <2>1. SUFFICES ASSUME i + 1 \in 0..n PROVE f[i + 1] + g[i + 1] <= h[i + 1]
    OBVIOUS
  <2>2. i \in 0..n /\ i + 1 \in 1..n /\ (i + 1) - 1 = i
    BY <2>1
  <2>3. f[i] + g[i] <= h[i] /\ s[i + 1] + t[i + 1] <= w[i + 1]
    BY <1>1, <1>6, <2>2
  <2>4. /\ f[i + 1] = f[i] + s[i + 1] /\ g[i + 1] = g[i] + t[i + 1]
        /\ h[i + 1] = h[i] + w[i + 1]
    BY <1>2, <1>3, <1>4, <2>2
  <2>5. {f[i], g[i], h[i], s[i + 1], t[i + 1], w[i + 1]} \subseteq Int
    BY <1>1, <2>2
  <2>6. PICK a \in Int, b \in Int, c \in Int, x \in Int, y \in Int, z \in Int :
           /\ a = f[i] /\ b = g[i] /\ c = h[i]
           /\ x = s[i + 1] /\ y = t[i + 1] /\ z = w[i + 1]
    BY <2>5
  <2>7. a + b <= c /\ x + y <= z => (a + x) + (b + y) <= c + z
    OBVIOUS
  <2>8. QED BY <2>3, <2>4, <2>6, <2>7
<1>7. \A i \in Nat : i \in T
  <2> HIDE DEF T
  <2>1. QED BY <1>5, <1>6, Induct
<1>8. n \in 0..n
  OBVIOUS
<1>9. QED BY <1>2, <1>3, <1>4, <1>7, <1>8

-----------------------------------------------------------------------------
(* Rows put in their place *)

\* A function on 1..n is a sequence of length n.
LEMMA SeqOf ==
  ASSUME NEW S, NEW n \in Nat, NEW f \in [1..n -> S]
  PROVE  f \in Seq(S) /\ Len(f) = n
<1>1. f \in Seq(S)
  BY SeqDef
<1>2. QED BY <1>1, LenProperties

\* A row is inserted before the last rows that are replayed after it.
LEMMA InsertIs ==
  ASSUME NEW R, NEW L \in Seq(R), NEW row \in R
  PROVE  \E e \in 0..Len(L) :
           Insert(L, row) = SubSeq(L, 1, e) \o <<row>> \o SubSeq(L, e + 1, Len(L))
<1>1. PICK n \in Nat : n = Len(L)
  OBVIOUS
<1> DEFINE T == {i \in 0..n : \A j \in 1..n : j > i => After(L[j], row)}
           Place(i) == /\ i > 0 => ~After(L[i], row)
                       /\ \A j \in 1..n : j > i => After(L[j], row)
<1>2. T \in SUBSET Nat /\ n \in T
  OBVIOUS
<1>3. PICK e \in T : \A m \in T : e <= m
  <2> HIDE DEF T
  <2>1. QED BY <1>2, LeastElement
<1>4. Place(e)
  <2>1. SUFFICES ASSUME e > 0, After(L[e], row) PROVE FALSE
    OBVIOUS
  <2>2. e \in 1..n /\ e - 1 \in 0..n /\ \A j \in 1..n : j > e - 1 => j = e \/ j > e
    BY <2>1
  <2>4. e - 1 \in T
    BY <2>1, <2>2
  <2>5. QED BY <1>3, <2>2, <2>4
<1> DEFINE c == CHOOSE i \in 0..n : Place(i)
<1>5. c \in 0..n /\ Place(c)
  <2> HIDE DEF Place
  <2>1. e \in 0..n
    OBVIOUS
  <2>2. QED BY <1>4, <2>1
<1>6. Insert(L, row) = SubSeq(L, 1, c) \o <<row>> \o SubSeq(L, c + 1, Len(L))
  BY <1>1 DEF Insert
<1> HIDE DEF c
<1>7. QED BY <1>1, <1>5, <1>6

\* M is L with the row put behind its first e rows.
Placed(M, L, row, e) ==
  /\ e \in 0..Len(L)
  /\ Len(M) = Len(L) + 1
  /\ \A i \in 1..Len(L) : M[IF i <= e THEN i ELSE i + 1] = L[i]
  /\ M[e + 1] = row

\* Insert leaves the other rows in their order.
LEMMA InsertSeq ==
  ASSUME NEW R, NEW L \in Seq(R), NEW row \in R
  PROVE  /\ Insert(L, row) \in Seq(R)
         /\ \E e : Placed(Insert(L, row), L, row, e)
<1>1. PICK n \in Nat : n = Len(L)
  OBVIOUS
<1>2. PICK e \in 0..n : Insert(L, row) = SubSeq(L, 1, e) \o <<row>> \o SubSeq(L, e + 1, n)
  BY <1>1, InsertIs
<1> DEFINE A == SubSeq(L, 1, e)
           B == SubSeq(L, e + 1, n)
           M == A \o <<row>>
<1>3. /\ A \in Seq(R) /\ Len(A) = e
      /\ \A i \in 1..e : A[i] = L[i]
  <2>1. \A i \in 1..e : L[i] \in R
    BY <1>1
  <2>2. /\ A \in Seq(R)
        /\ Len(A) = IF 1 <= e THEN e - 1 + 1 ELSE 0
        /\ \A i \in 1..(e - 1 + 1) : A[i] = L[1 + i - 1]
    BY <2>1, SubSeqProperties
  <2>3. e - 1 + 1 = e /\ (~(1 <= e) => e = 0) /\ \A i \in 1..e : 1 + i - 1 = i
    OBVIOUS
  <2> HIDE DEF A
  <2>4. QED BY <2>2, <2>3
<1>4. /\ B \in Seq(R) /\ Len(B) = n - e
      /\ \A i \in 1..(n - e) : B[i] = L[e + i]
  <2>1. \A i \in (e + 1)..n : L[i] \in R
    BY <1>1
  <2>2. e + 1 \in Int /\ n \in Int
    OBVIOUS
  <2>3. /\ B \in Seq(R)
        /\ Len(B) = IF e + 1 <= n THEN n - (e + 1) + 1 ELSE 0
        /\ \A i \in 1..(n - (e + 1) + 1) : B[i] = L[(e + 1) + i - 1]
    BY <2>1, <2>2, SubSeqProperties
  <2>4. n - (e + 1) + 1 = n - e /\ (~(e + 1 <= n) => n - e = 0)
    OBVIOUS
  <2>5. \A i \in 1..(n - e) : (e + 1) + i - 1 = e + i
    OBVIOUS
  <2> HIDE DEF B
  <2>6. QED BY <2>3, <2>4, <2>5
<1> HIDE DEF A, B
<1>5. /\ M \in Seq(R) /\ Len(M) = e + 1
      /\ \A i \in 1..(e + 1) : M[i] = IF i <= e THEN A[i] ELSE row
  <2>1. <<row>> \in Seq(R) /\ Len(<<row>>) = 1 /\ <<row>>[1] = row
    OBVIOUS
  <2>2. /\ M \in Seq(R) /\ Len(M) = e + 1
        /\ \A i \in 1..(e + 1) : M[i] = IF i <= e THEN A[i] ELSE <<row>>[i - e]
    BY <1>3, <2>1, ConcatProperties
  <2>3. \A i \in 1..(e + 1) : ~(i <= e) => i - e = 1
    OBVIOUS
  <2> HIDE DEF M
  <2>4. QED BY <2>1, <2>2, <2>3
<1> HIDE DEF M
<1>6. /\ M \o B \in Seq(R) /\ Len(M \o B) = n + 1
      /\ \A i \in 1..(n + 1) : (M \o B)[i] = IF i <= e + 1 THEN M[i] ELSE B[i - (e + 1)]
  <2>1. Len(M) + Len(B) = n + 1
    BY <1>4, <1>5
  <2>2. /\ M \o B \in Seq(R) /\ Len(M \o B) = Len(M) + Len(B)
        /\ \A i \in 1..(Len(M) + Len(B)) :
             (M \o B)[i] = IF i <= Len(M) THEN M[i] ELSE B[i - Len(M)]
    BY <1>4, <1>5, ConcatProperties
  <2>3. QED BY <1>5, <2>1, <2>2
<1>7. Insert(L, row) = M \o B
  BY <1>2 DEF A, B, M
<1>8. ASSUME NEW i \in 1..n PROVE (M \o B)[IF i <= e THEN i ELSE i + 1] = L[i]
  <2>1. CASE i <= e
    <3>1. i \in 1..(n + 1) /\ i <= e + 1 /\ i \in 1..(e + 1) /\ i \in 1..e
      BY <2>1
    <3>2. QED BY <1>3, <1>5, <1>6, <2>1, <3>1
  <2>2. CASE ~(i <= e)
    <3>1. /\ i + 1 \in 1..(n + 1) /\ ~(i + 1 <= e + 1)
          /\ (i + 1) - (e + 1) \in 1..(n - e) /\ e + ((i + 1) - (e + 1)) = i
      BY <2>2
    <3>2. (M \o B)[i + 1] = B[(i + 1) - (e + 1)]
      BY <1>6, <3>1
    <3>3. B[(i + 1) - (e + 1)] = L[i]
      BY <1>4, <3>1
    <3>4. QED BY <2>2, <3>2, <3>3
  <2>3. QED BY <2>1, <2>2
<1>9. (M \o B)[e + 1] = row
  <2>1. e + 1 \in 1..(n + 1) /\ e + 1 \in 1..(e + 1) /\ ~(e + 1 <= e)
    OBVIOUS
  <2>2. QED BY <1>5, <1>6, <2>1
<1>10. Placed(M \o B, L, row, e)
  BY <1>1, <1>2, <1>6, <1>8, <1>9 DEF Placed
<1>11. QED BY <1>6, <1>7, <1>10

\* A value of every row, and the rows of a ledger as a set.
Values(L, val) == [i \in 1..Len(L) |-> val[L[i]]]
\* The rows of L, whatever their order.
RowsOf(L) == {L[i] : i \in 1..Len(L)}

\* The values are a sequence as long as the ledger.
LEMMA ValuesSeq ==
  ASSUME NEW R, NEW val \in [R -> Int], NEW L \in Seq(R)
  PROVE  /\ Values(L, val) \in Seq(Int) /\ Len(Values(L, val)) = Len(L)
         /\ \A i \in 1..Len(L) : Values(L, val)[i] = val[L[i]]
         /\ Total(Values(L, val)) \in Int
<1>1. Len(L) \in Nat /\ \A i \in 1..Len(L) : L[i] \in R
  BY ElementOfSeq
<1>2. Values(L, val) \in [1..Len(L) -> Int]
  BY <1>1 DEF Values
<1>3. Values(L, val) \in Seq(Int) /\ Len(Values(L, val)) = Len(L)
  BY <1>1, <1>2, SeqOf
<1>4. \A i \in 1..Len(L) : Values(L, val)[i] = val[L[i]]
  BY DEF Values
<1>5. QED BY <1>3, <1>4, IntTotal

\* The sums over no row and over one row.
LEMMA ValuesSmall ==
  ASSUME NEW R, NEW val \in [R -> Int]
  PROVE  /\ Total(Values(<<>>, val)) = 0
         /\ \A r \in R : Total(Values(<<r>>, val)) = val[r]
<1>1. Total(Values(<<>>, val)) = 0
  <2>1. <<>> \in Seq(R) /\ Len(<<>>) = 0
    OBVIOUS
  <2>2. Values(<<>>, val) \in Seq(Int) /\ Len(Values(<<>>, val)) = 0
    BY <2>1, ValuesSeq
  <2>3. Values(<<>>, val) = <<>>
    BY <2>2
  <2>4. QED BY <2>3, TotalSmall
<1>2. ASSUME NEW r \in R PROVE Total(Values(<<r>>, val)) = val[r]
  <2>1. <<r>> \in Seq(R) /\ Len(<<r>>) = 1 /\ <<r>>[1] = r
    OBVIOUS
  <2>2. /\ Values(<<r>>, val) \in Seq(Int) /\ Len(Values(<<r>>, val)) = 1
        /\ Values(<<r>>, val)[1] = val[r]
    <3>1. 1 \in 1..Len(<<r>>)
      BY <2>1
    <3>2. QED BY <2>1, <3>1, ValuesSeq, ZenonT(30)
  <2>3. PICK x \in Int : x = val[r]
    OBVIOUS
  <2>4. Values(<<r>>, val) = <<x>>
    <3>1. <<x>> \in Seq(Int) /\ Len(<<x>>) = 1 /\ <<x>>[1] = x
      OBVIOUS
    <3>2. \A i \in 1..1 : i = 1
      OBVIOUS
    <3>3. QED BY <2>2, <2>3, <3>1, <3>2, SeqEqual
  <2>5. QED BY <2>3, <2>4, TotalSmall
<1>3. QED BY <1>1, <1>2

\* The sum over two ledgers in a row.
LEMMA ValuesConcat ==
  ASSUME NEW R, NEW val \in [R -> Int], NEW L \in Seq(R), NEW M \in Seq(R)
  PROVE  Total(Values(L \o M, val)) = Total(Values(L, val)) + Total(Values(M, val))
<1> DEFINE s == Values(L, val)
           t == Values(M, val)
           w == Values(L \o M, val)
<1>1. /\ L \o M \in Seq(R) /\ Len(L \o M) = Len(L) + Len(M)
      /\ \A i \in 1..(Len(L) + Len(M)) : (L \o M)[i] = IF i <= Len(L) THEN L[i] ELSE M[i - Len(L)]
  BY ConcatProperties
<1>2. /\ s \in Seq(Int) /\ Len(s) = Len(L)
      /\ \A i \in 1..Len(L) : s[i] = val[L[i]]
  BY ValuesSeq
<1>3. /\ t \in Seq(Int) /\ Len(t) = Len(M)
      /\ \A i \in 1..Len(M) : t[i] = val[M[i]]
  <2>1. t \in Seq(Int)
    BY ValuesSeq
  <2>2. Len(t) = Len(M)
    BY ValuesSeq
  <2>3. \A i \in 1..Len(M) : t[i] = val[M[i]]
    BY DEF Values
  <2>4. QED BY <2>1, <2>2, <2>3
<1>4. /\ w \in Seq(Int) /\ Len(w) = Len(L) + Len(M)
      /\ \A i \in 1..(Len(L) + Len(M)) : w[i] = val[(L \o M)[i]]
  <2>1. L \o M \in Seq(R)
    BY <1>1
  <2>2. /\ w \in Seq(Int) /\ Len(w) = Len(L \o M)
        /\ \A i \in 1..Len(L \o M) : w[i] = val[(L \o M)[i]]
    <3>1. w \in Seq(Int)
      BY <2>1, ValuesSeq
    <3>2. Len(w) = Len(L \o M)
      BY <2>1, ValuesSeq
    <3>3. \A i \in 1..Len(L \o M) : w[i] = val[(L \o M)[i]]
      BY DEF Values
    <3>4. QED BY <3>1, <3>2, <3>3
  <2> HIDE DEF w
  <2>3. QED BY <1>1, <2>2
<1> HIDE DEF s, t, w
<1>5. /\ s \o t \in Seq(Int) /\ Len(s \o t) = Len(L) + Len(M)
      /\ \A i \in 1..(Len(L) + Len(M)) : (s \o t)[i] = IF i <= Len(L) THEN s[i] ELSE t[i - Len(L)]
  <2>1. /\ s \o t \in Seq(Int) /\ Len(s \o t) = Len(s) + Len(t)
        /\ \A i \in 1..(Len(s) + Len(t)) : (s \o t)[i] = IF i <= Len(s) THEN s[i] ELSE t[i - Len(s)]
    BY <1>2, <1>3, ConcatProperties
  <2>2. QED BY <1>2, <1>3, <2>1
<1>6. ASSUME NEW i \in 1..(Len(L) + Len(M)) PROVE w[i] = (s \o t)[i]
  <2>1. Len(L) \in Nat /\ Len(M) \in Nat
    OBVIOUS
  <2>2. CASE i <= Len(L)
    <3>1. i \in 1..Len(L)
      BY <2>1, <2>2
    <3>2. w[i] = val[L[i]]
      BY <1>1, <1>4, <2>2
    <3>3. (s \o t)[i] = val[L[i]]
      BY <1>2, <1>5, <2>2, <3>1
    <3>4. QED BY <3>2, <3>3
  <2>3. CASE ~(i <= Len(L))
    <3>1. i - Len(L) \in 1..Len(M)
      BY <2>1, <2>3
    <3>2. w[i] = val[M[i - Len(L)]]
      BY <1>1, <1>4, <2>3
    <3>3. (s \o t)[i] = val[M[i - Len(L)]]
      BY <1>3, <1>5, <2>3, <3>1
    <3>4. QED BY <3>2, <3>3
  <2>4. QED BY <2>2, <2>3
<1>7. w = s \o t
  BY <1>4, <1>5, <1>6, SeqEqual
<1>8. Total(w) = Total(s) + Total(t)
  BY <1>2, <1>3, <1>7, TotalConcat
<1>9. QED BY <1>8 DEF s, t, w

\* A row adds its value wherever it is inserted.
LEMMA InsertTotal ==
  ASSUME NEW R, NEW L \in Seq(R), NEW row \in R,
         NEW val \in [R -> Int]
  PROVE  Total(Values(Insert(L, row), val)) = Total(Values(L, val)) + val[row]
<1>1. PICK e \in 0..Len(L) :
        Insert(L, row) = SubSeq(L, 1, e) \o <<row>> \o SubSeq(L, e + 1, Len(L))
  BY InsertIs
<1> DEFINE A == SubSeq(L, 1, e)
           B == SubSeq(L, e + 1, Len(L))
<1>2. Len(L) \in Nat
  OBVIOUS
<1>3. A \in Seq(R) /\ B \in Seq(R)
  <2>1. /\ \A i \in 1..e : L[i] \in R
        /\ \A i \in (e + 1)..Len(L) : L[i] \in R
    BY <1>2, ElementOfSeq
  <2>2. e \in Int /\ e + 1 \in Int /\ Len(L) \in Int /\ 1 \in Int
    BY <1>2
  <2>3. A \in Seq(R)
    BY <2>1, <2>2, SubSeqProperties
  <2>4. B \in Seq(R)
    BY <2>1, <2>2, SubSeqProperties
  <2>5. QED BY <2>3, <2>4
<1>4. L = A \o B
  <2>1. 1 \in 1..(Len(L) + 1) /\ e \in (1 - 1)..Len(L) /\ Len(L) \in e..Len(L)
    BY <1>2
  <2>2. SubSeq(L, 1, e) \o SubSeq(L, e + 1, Len(L)) = SubSeq(L, 1, Len(L))
    BY <2>1, ConcatAdjacentSubSeq
  <2>3. QED BY <2>2, SubSeqFull
<1>5. Insert(L, row) = (A \o <<row>>) \o B
  BY <1>1
<1> HIDE DEF A, B
<1>6. <<row>> \in Seq(R)
  OBVIOUS
<1>7. A \o <<row>> \in Seq(R)
  BY <1>3, <1>6, ConcatProperties
<1>8. Total(Values(A \o <<row>>, val)) = Total(Values(A, val)) + val[row]
  BY <1>3, <1>6, ValuesConcat, ValuesSmall
<1>9. Total(Values((A \o <<row>>) \o B, val))
        = (Total(Values(A, val)) + val[row]) + Total(Values(B, val))
  BY <1>3, <1>7, <1>8, ValuesConcat
<1>10. Total(Values(A \o B, val)) = Total(Values(A, val)) + Total(Values(B, val))
  BY <1>3, ValuesConcat
<1>11. PICK a \in Int, b \in Int, v \in Int :
         a = Total(Values(A, val)) /\ b = Total(Values(B, val)) /\ v = val[row]
  BY <1>3, ValuesSeq
<1>12. Total(Values(Insert(L, row), val)) = (a + v) + b
  BY <1>5, <1>9, <1>11
<1>13. Total(Values(L, val)) = a + b
  BY <1>4, <1>10, <1>11
<1>14. QED BY <1>11, <1>12, <1>13

\* Insert adds its row and no other.
LEMMA InsertRows ==
  ASSUME NEW R, NEW L \in Seq(R), NEW row \in R
  PROVE  RowsOf(Insert(L, row)) = RowsOf(L) \cup {row}
<1>1. PICK n \in Nat : n = Len(L)
  OBVIOUS
<1> DEFINE M == Insert(L, row)
<1>2. PICK e : Placed(M, L, row, e)
  BY InsertSeq
<1> HIDE DEF M
<1>3. /\ e \in 0..n /\ Len(M) = n + 1 /\ M[e + 1] = row
      /\ \A i \in 1..n : M[IF i <= e THEN i ELSE i + 1] = L[i]
  BY <1>1, <1>2 DEF Placed
<1>4. ASSUME NEW i \in 1..(n + 1) PROVE M[i] = row \/ \E j \in 1..n : M[i] = L[j]
  <2>1. CASE i <= e
    <3>1. i \in 1..n
      BY <1>3, <2>1
    <3>2. QED BY <1>3, <2>1, <3>1
  <2>2. CASE i = e + 1
    BY <1>3, <2>2
  <2>3. CASE i > e + 1
    <3>1. i - 1 \in 1..n /\ ~(i - 1 <= e) /\ (i - 1) + 1 = i
      BY <1>3, <2>3
    <3>2. M[(i - 1) + 1] = L[i - 1]
      BY <1>3, <3>1
    <3>3. QED BY <3>1, <3>2
  <2>4. QED BY <1>3, <2>1, <2>2, <2>3
<1>5. ASSUME NEW j \in 1..n PROVE \E i \in 1..(n + 1) : M[i] = L[j]
  <2>1. j \in 1..(n + 1) /\ j + 1 \in 1..(n + 1)
    OBVIOUS
  <2>2. QED BY <1>3, <2>1
<1>6. e + 1 \in 1..(n + 1) /\ M[e + 1] = row
  BY <1>3
<1>7. RowsOf(M) = RowsOf(L) \cup {row}
  <2>1. RowsOf(M) = {M[i] : i \in 1..(n + 1)} /\ RowsOf(L) = {L[i] : i \in 1..n}
    BY <1>1, <1>3 DEF RowsOf
  <2>2. {M[i] : i \in 1..(n + 1)} \subseteq {L[i] : i \in 1..n} \cup {row}
    BY <1>4
  <2>3. {L[i] : i \in 1..n} \subseteq {M[i] : i \in 1..(n + 1)}
    BY <1>5
  <2>4. row \in {M[i] : i \in 1..(n + 1)}
    BY <1>6
  <2>5. QED BY <2>1, <2>2, <2>3, <2>4
<1>8. QED BY <1>7 DEF M

\* f goes on by F as long as it stays in S.
Carried(f, n, S, F) == f[0] \in S /\ \A i \in 1..n : f[i - 1] \in S => f[i] = F[<<i, f[i - 1]>>]

\* A function that goes on by F stays in S.
LEMMA Recursed ==
  ASSUME NEW S, NEW n \in Nat, NEW F \in [(1..n) \X S -> S], NEW f, Carried(f, n, S, F)
  PROVE  \A i \in 0..n : f[i] \in S
<1>0. f[0] \in S /\ \A i \in 1..n : f[i - 1] \in S => f[i] = F[<<i, f[i - 1]>>]
  BY DEF Carried
<1> DEFINE T == {i \in Nat : i \in 0..n => f[i] \in S}
<1>1. 0 \in T
  BY <1>0
<1>2. ASSUME NEW i \in Nat, i \in T PROVE i + 1 \in T
  <2>1. SUFFICES ASSUME i + 1 \in 0..n PROVE f[i + 1] \in S
    OBVIOUS
  <2>2. i \in 0..n /\ i + 1 \in 1..n /\ (i + 1) - 1 = i
    BY <2>1
  <2>3. f[i] \in S
    BY <1>2, <2>2
  <2>4. f[i + 1] = F[<<i + 1, f[i]>>]
    BY <1>0, <2>2, <2>3
  <2>5. <<i + 1, f[i]>> \in (1..n) \X S
    BY <2>2, <2>3
  <2>6. QED BY <2>4, <2>5
<1>3. \A i \in Nat : i \in T
  <2> HIDE DEF T
  <2>1. QED BY <1>1, <1>2, Induct
<1>4. QED BY <1>3

\* g is the ledger after each of the rows.
Posts(g, L, rows, R) ==
  /\ g \in [0..Len(rows) -> Seq(R)]
  /\ g[0] = L
  /\ \A i \in 1..Len(rows) : g[i] = Insert(g[i - 1], rows[i])
  /\ Post(L, rows) = g[Len(rows)]

\* Post inserts its rows one after the other.
LEMMA PostIs ==
  ASSUME NEW R, NEW L \in Seq(R), NEW rows \in Seq(R)
  PROVE  \E g : Posts(g, L, rows, R)
<1>1. PICK n \in Nat : n = Len(rows)
  OBVIOUS
<1> DEFINE F == [x \in (1..n) \X Seq(R) |-> Insert(x[2], rows[x[1]])]
           Adds(f) == f = [i \in 0..n |-> IF i = 0 THEN L ELSE Insert(f[i - 1], rows[i])]
           f == CHOOSE h : Adds(h)
<1>2. F \in [(1..n) \X Seq(R) -> Seq(R)]
  <2>1. \A x \in (1..n) \X Seq(R) : rows[x[1]] \in R /\ x[2] \in Seq(R)
    BY <1>1
  <2>2. \A x \in (1..n) \X Seq(R) : Insert(x[2], rows[x[1]]) \in Seq(R)
    BY <2>1, InsertSeq
  <2>3. QED BY <2>2
<1>3. \A i \in 1..n, M \in Seq(R) : F[<<i, M>>] = Insert(M, rows[i])
  OBVIOUS
<1>4. Post(L, rows) = f[n]
  BY <1>1 DEF Post
<1> HIDE DEF F
<1>5. PICK g : Follows(g, n, Seq(R), L, F)
  BY <1>2, Recursion
<1>6. /\ g \in [0..n -> Seq(R)] /\ g[0] = L
      /\ \A i \in 1..n : g[i] = F[<<i, g[i - 1]>>]
  BY <1>5 DEF Follows
<1>7. Adds(g)
  <2>1. \A i \in 0..n : i = 0 \/ (i # 0 /\ i \in 1..n /\ i - 1 \in 0..n)
    OBVIOUS
  <2>2. \A i \in 1..n : g[i - 1] \in Seq(R)
    BY <1>6, <2>1
  <2>3. \A i \in 1..n : g[i] = Insert(g[i - 1], rows[i])
    BY <1>3, <1>6, <2>2
  <2>4. \A i \in 0..n : g[i] = IF i = 0 THEN L ELSE Insert(g[i - 1], rows[i])
    BY <1>6, <2>1, <2>3
  <2>5. QED BY <1>6, <2>4
<1>8. Adds(f)
  <2> HIDE DEF Adds
  <2>1. QED BY <1>7
<1> HIDE DEF f
<1>9. f[0] = L /\ \A i \in 1..n : f[i] = Insert(f[i - 1], rows[i])
  <2>1. 0 \in 0..n /\ \A i \in 1..n : i # 0 /\ i \in 0..n
    OBVIOUS
  <2>2. QED BY <1>8, <2>1
<1>10. \A i \in 0..n : f[i] \in Seq(R)
  <2>1. \A i \in 1..n : f[i - 1] \in Seq(R) => f[i] = F[<<i, f[i - 1]>>]
    BY <1>3, <1>9
  <2>2. Carried(f, n, Seq(R), F)
    BY <1>9, <2>1 DEF Carried
  <2>3. QED BY <1>2, <2>2, Recursed
<1>11. f \in [0..n -> Seq(R)]
  BY <1>8, <1>10
<1> HIDE DEF Adds
<1>12. Posts(f, L, rows, R)
  BY <1>1, <1>4, <1>9, <1>11 DEF Posts
<1>13. QED BY <1>12

\* What each insertion keeps, Post keeps.
LEMMA PostInduct ==
  ASSUME NEW R, NEW L \in Seq(R), NEW rows \in Seq(R),
         NEW Z \in SUBSET Seq(R), L \in Z,
         \A M \in Z, r \in RowsOf(rows) : Insert(M, r) \in Z
  PROVE  Post(L, rows) \in Z
<1>1. PICK n \in Nat : n = Len(rows)
  OBVIOUS
<1>2. PICK g : Posts(g, L, rows, R)
  BY PostIs
<1>3. g[0] = L /\ (\A i \in 1..n : g[i] = Insert(g[i - 1], rows[i])) /\ Post(L, rows) = g[n]
  BY <1>1, <1>2 DEF Posts
<1> DEFINE T == {i \in Nat : i \in 0..n => g[i] \in Z}
<1>4. 0 \in T
  BY <1>3
<1>5. ASSUME NEW i \in Nat, i \in T PROVE i + 1 \in T
  <2>1. SUFFICES ASSUME i + 1 \in 0..n PROVE g[i + 1] \in Z
    OBVIOUS
  <2>2. i \in 0..n /\ i + 1 \in 1..n /\ (i + 1) - 1 = i
    BY <2>1
  <2>3. g[i] \in Z /\ g[i + 1] = Insert(g[i], rows[i + 1])
    BY <1>3, <1>5, <2>2
  <2>4. rows[i + 1] \in RowsOf(rows)
    BY <1>1, <2>2 DEF RowsOf
  <2>5. QED BY <2>3, <2>4
<1>6. \A i \in Nat : i \in T
  <2> HIDE DEF T
  <2>1. QED BY <1>4, <1>5, Induct
<1>7. n \in 0..n
  OBVIOUS
<1>8. QED BY <1>3, <1>6, <1>7

\* Post adds its rows and no other.
LEMMA PostRows ==
  ASSUME NEW R, NEW L \in Seq(R), NEW rows \in Seq(R)
  PROVE  /\ Post(L, rows) \in Seq(R)
         /\ RowsOf(L) \subseteq RowsOf(Post(L, rows))
         /\ RowsOf(Post(L, rows)) \subseteq RowsOf(L) \cup RowsOf(rows)
<1> DEFINE Z == {M \in Seq(R) : /\ RowsOf(L) \subseteq RowsOf(M)
                                /\ RowsOf(M) \subseteq RowsOf(L) \cup RowsOf(rows)}
<1>1. L \in Z /\ Z \in SUBSET Seq(R)
  OBVIOUS
<1>2. ASSUME NEW M \in Z, NEW r \in RowsOf(rows) PROVE Insert(M, r) \in Z
  <2>1. r \in R /\ M \in Seq(R)
    <3>1. \A i \in 1..Len(rows) : rows[i] \in R
      OBVIOUS
    <3>2. QED BY <3>1 DEF RowsOf
  <2>2. Insert(M, r) \in Seq(R) /\ RowsOf(Insert(M, r)) = RowsOf(M) \cup {r}
    BY <2>1, InsertSeq, InsertRows
  <2>3. QED BY <2>2
<1> HIDE DEF Z
<1>3. Post(L, rows) \in Z
  BY <1>1, <1>2, PostInduct
<1>4. QED BY <1>3 DEF Z

\* The rows posted add their sum, wherever their times put them.
LEMMA PostTotal ==
  ASSUME NEW R, NEW L \in Seq(R), NEW rows \in Seq(R),
         NEW val \in [R -> Int]
  PROVE  Total(Values(Post(L, rows), val)) = Total(Values(L, val)) + Total(Values(rows, val))
<1>1. PICK n \in Nat : n = Len(rows)
  OBVIOUS
<1>2. PICK g : Posts(g, L, rows, R)
  BY PostIs
<1>3. /\ g \in [0..n -> Seq(R)] /\ g[0] = L /\ Post(L, rows) = g[n]
      /\ \A i \in 1..n : g[i] = Insert(g[i - 1], rows[i])
  BY <1>1, <1>2 DEF Posts
<1> DEFINE v == Values(rows, val)
<1>4. v \in Seq(Int) /\ Len(v) = n /\ \A i \in 1..n : v[i] = val[rows[i]] /\ rows[i] \in R
  <2>1. v \in Seq(Int) /\ Len(v) = n
    BY <1>1, ValuesSeq
  <2>2. \A i \in 1..n : v[i] = val[rows[i]]
    BY <1>1 DEF Values
  <2>3. \A i \in 1..n : rows[i] \in R
    BY <1>1
  <2> HIDE DEF v
  <2>4. QED BY <2>1, <2>2, <2>3
<1> HIDE DEF v
<1>5. PICK h \in [0..n -> Int] : h[0] = 0 /\ (\A i \in 1..n : h[i] = h[i - 1] + v[i]) /\ Total(v) = h[n]
  <2>1. \E h \in [0..Len(v) -> Int] : /\ h[0] = 0
                                      /\ \A i \in 1..Len(v) : h[i] = h[i - 1] + v[i]
                                      /\ Total(v) = h[Len(v)]
    BY <1>4, PartialSums
  <2>2. QED BY <1>4, <2>1
<1>6. PICK a \in Int : a = Total(Values(L, val))
  BY ValuesSeq
<1> DEFINE T == {i \in Nat : i \in 0..n => Total(Values(g[i], val)) = a + h[i]}
<1>7. 0 \in T
  BY <1>3, <1>5, <1>6
<1>8. ASSUME NEW i \in Nat, i \in T PROVE i + 1 \in T
  <2>1. SUFFICES ASSUME i + 1 \in 0..n PROVE Total(Values(g[i + 1], val)) = a + h[i + 1]
    OBVIOUS
  <2>2. i \in 0..n /\ i + 1 \in 1..n /\ (i + 1) - 1 = i
    BY <2>1
  <2>3. g[i] \in Seq(R) /\ g[i + 1] = Insert(g[i], rows[i + 1]) /\ rows[i + 1] \in R
    BY <1>3, <1>4, <2>2
  <2>4. Total(Values(g[i + 1], val)) = Total(Values(g[i], val)) + val[rows[i + 1]]
    BY <2>3, InsertTotal
  <2>5. PICK b \in Int, c \in Int : b = h[i] /\ c = val[rows[i + 1]]
    BY <2>2, <2>3
  <2>6. Total(Values(g[i], val)) = a + b /\ h[i + 1] = b + c
    BY <1>4, <1>5, <1>8, <2>2, <2>5
  <2>7. Total(Values(g[i + 1], val)) = (a + b) + c
    BY <2>4, <2>5, <2>6
  <2>8. a + h[i + 1] = (a + b) + c
    BY <2>6
  <2>9. QED BY <2>7, <2>8
<1>9. \A i \in Nat : i \in T
  <2> HIDE DEF T
  <2>1. QED BY <1>7, <1>8, Induct
<1>10. n \in 0..n
  OBVIOUS
<1>11. QED BY <1>3, <1>5, <1>6, <1>9, <1>10 DEF v

\* No row and one row posted.
LEMMA PostSmall ==
  ASSUME NEW R, NEW L \in Seq(R)
  PROVE  /\ Post(L, <<>>) = L
         /\ \A r \in R : Post(L, <<r>>) = Insert(L, r)
<1>1. Post(L, <<>>) = L
  <2>1. <<>> \in Seq(R) /\ Len(<<>>) = 0
    OBVIOUS
  <2>2. PICK g : Posts(g, L, <<>>, R)
    BY <2>1, PostIs
  <2>3. QED BY <2>1, <2>2 DEF Posts
<1>2. ASSUME NEW r \in R PROVE Post(L, <<r>>) = Insert(L, r)
  <2>1. <<r>> \in Seq(R) /\ Len(<<r>>) = 1 /\ <<r>>[1] = r
    OBVIOUS
  <2>2. PICK g : Posts(g, L, <<r>>, R)
    BY <2>1, PostIs
  <2>3. /\ g[0] = L /\ Post(L, <<r>>) = g[1]
        /\ \A i \in 1..1 : g[i] = Insert(g[i - 1], <<r>>[i])
    BY <2>1, <2>2 DEF Posts
  <2>4. 1 \in 1..1 /\ 1 - 1 = 0
    OBVIOUS
  <2>5. QED BY <2>1, <2>3, <2>4
<1>3. QED BY <1>1, <1>2

-----------------------------------------------------------------------------
(* The inductive invariant *)

-----------------------------------------------------------------------------
(* The inductive invariant *)

Reversals == {"refund", "chargeback"}
Payments == {"pay"} \cup Reversals
Revokes == {"rebill_revoke", "rebill_revoke:chargeback"}
\* The kinds of row whose ref may be a pack, and that count for what is left of it.
OfPack == {"pack"} \cup Revokes
\* The kinds of row that a settlement writes.
Grants == {"plan_monthly", "plan_expire", "free_weekly", "free_weekly_expire"}
Ref == {None} \cup Hotel \cup Draft \cup Pack \cup Pay \cup Periodic
         \cup (User \X Int \X Nat \X {0}) \cup [1..1 -> Nat]

\* A row as the code writes it: what a grant or a pack gives is positive, what a spend
\* or a reversal takes is negative.
Entry == {r \in [kind : Kinds, ref : Ref, delta : Int \ {0}, at : Nat] :
            /\ r.ref \in RefsOf(r.kind)
            /\ r.kind \in {"plan_monthly", "free_weekly", "pack"} => r.delta > 0
            /\ r.kind \in Spends \cup Revokes => r.delta < 0}
GrantEntry == {r \in Entry : r.kind \in Grants}

\* What a call under way holds.
Shaped(c) ==
  /\ c.pc # "idle" => c.user \in User
  /\ c.pc # "idle" /\ c.op \in {"unlock", "review"} => c.ref \in Hotel
  /\ c.pc # "idle" /\ c.op = "draft" => c.ref \in Draft
  /\ c.pc # "idle" /\ c.op \in Payments => c.ref \in Pack \cup Pay
  /\ c.pc = "lookup" => c.op = "unlock"
  /\ c.pc = "entered" /\ c.op \in Reversals => c.amount >= 0
Pcs == {"idle", "begun", "lookup", "entered"}
Ops == {"refresh", "unlock", "draft", "pay", "refund", "chargeback", "review", "admin_grant", "delete"}
CallFields == [pc : Pcs, op : Ops, user : User \cup {None},
               ref : {None} \cup Hotel \cup Draft \cup Pack \cup Pay,
               at : Nat, second : BOOLEAN, locked : BOOLEAN,
               grants : Seq(GrantEntry), amount : Int, was : Entitlement]
Call == {c \in CallFields : Shaped(c)}
\* TypeOK, with what the rows of the ledger and the calls hold in more detail.
TypeInv ==
  /\ now \in Nat
  /\ ledger \in [User -> Seq(Entry)]
  /\ plan \in [User -> Entitlement]
  /\ effect \in [Pay -> Effect]
  /\ closed \subseteq User
  /\ owned \subseteq User \X Hotel /\ reported \subseteq User \X Hotel
  /\ cache \in [Hotel -> {"none", "found", "not_found", "invalid"}]
  /\ saved \in [User -> SUBSET Hotel]
  /\ paid \in [Pack -> {"none", "refused", "granted", "revoked"}]
  /\ call \in [Proc -> Call]

\* A spend between its read and its commit.
Spending(p) == call[p].pc = "entered" /\ call[p].op \in {"unlock", "draft"}
Cost(p) == IF call[p].op = "unlock" THEN UnlockCost ELSE DraftCost
\* A closed account that was given credits after all: its spends may overlap.
Loose(u) == u \in closed /\ Gifted(u)

\* A spend of an open account holds the lock of its account's grants.
SpendLocked == \A p \in Proc : Spending(p) /\ call[p].user \notin closed => call[p].locked
\* One spend of an account at most is between its read and its commit.
SpendAlone ==
  \A p \in Proc, q \in Proc :
    p # q /\ Spending(p) /\ Spending(q) /\ call[p].user = call[q].user => Loose(call[p].user)
\* What is spent and what the spend is about to take fit in what was granted.
SpendFits ==
  \A p \in Proc : Spending(p) /\ ~Loose(call[p].user) =>
    SpentTotal(ledger[call[p].user]) + Cost(p)
      <= Granted(ledger[call[p].user]) + Granted(call[p].grants)
\* A closed account is granted nothing.
ClosedGrantsNothing == \A p \in Proc : call[p].user \in closed => call[p].grants = <<>>
\* A closed account has nothing left, unless it was given credits after all.
ClosedEmpty == \A u \in closed : Gifted(u) \/ Balance(ledger[u]) <= 0
SpendInv == /\ SpendLocked /\ SpendAlone /\ SpendFits
            /\ ClosedGrantsNothing /\ ClosedEmpty /\ SpentWasGranted

\* A pack that is not revoked has no reversal.
NotRevoked ==
  \A u \in User, k \in Pack : paid[k] # "revoked" =>
    \A r \in RowsOf(ledger[u]) : r.kind \in Revokes => r.ref # k
\* p has read its payment, or what is left of it, and its write is next.
Paying(p) == call[p].pc = "entered" /\ call[p].op \in Payments
\* One call of a payment at most is between its read and its write.
PayAlone ==
  \A p \in Proc, q \in Proc : p # q /\ Paying(p) /\ Paying(q) => call[p].ref # call[q].ref
\* A payment about to be granted is new.
PayNew ==
  \A p \in Proc : Paying(p) /\ call[p].op = "pay" /\ call[p].ref \in Pack => paid[call[p].ref] = "none"
\* What a reversal is about to take of a pack is still there.
ReversalFits ==
  \A p \in Proc : Paying(p) /\ call[p].op \in Reversals /\ call[p].ref \in Pack =>
    call[p].amount <= PackRest(ledger[call[p].user], call[p].ref)
PackInv == NotRevoked /\ PayAlone /\ PayNew /\ ReversalFits /\ PackReversedOnce

\* An unlock that will debit has shown an address, which can only become invalid.
Shown == \A p \in Proc : call[p].pc = "entered" /\ call[p].op = "unlock" =>
           call[p].amount = 1 /\ cache[call[p].ref] \in {"found", "invalid"}

-----------------------------------------------------------------------------
(* What the replays leave *)

\* A sum of numbers none of which is negative.
LEMMA TotalNat ==
  ASSUME NEW s \in Seq(Int), \A i \in 1..Len(s) : s[i] >= 0
  PROVE  Total(s) \in Nat
<1>1. PICK g \in [0..Len(s) -> Int] : /\ g[0] = 0
                                      /\ \A i \in 1..Len(s) : g[i] = g[i - 1] + s[i]
                                      /\ Total(s) = g[Len(s)]
  BY PartialSums
<1>2. Len(s) \in Nat /\ \A i \in 1..Len(s) : s[i] \in Nat
  OBVIOUS
<1> DEFINE T == {i \in Nat : i \in 0..Len(s) => g[i] \in Nat}
<1>3. 0 \in T
  BY <1>1
<1>4. ASSUME NEW i \in Nat, i \in T PROVE i + 1 \in T
  <2>1. SUFFICES ASSUME i + 1 \in 0..Len(s) PROVE g[i + 1] \in Nat
    OBVIOUS
  <2>2. i \in 0..Len(s) /\ i + 1 \in 1..Len(s) /\ (i + 1) - 1 = i
    BY <1>2, <2>1
  <2>3. g[i] \in Nat /\ g[i + 1] = g[i] + s[i + 1] /\ s[i + 1] \in Nat
    BY <1>1, <1>2, <1>4, <2>2
  <2>4. QED BY <2>3
<1>5. \A i \in Nat : i \in T
  <2> HIDE DEF T
  <2>1. QED BY <1>3, <1>4, Induct
<1>6. QED BY <1>1, <1>2, <1>5

-----------------------------------------------------------------------------
Left == [plan : Nat, weekly : Nat]

\* The fields of a row.
LEMMA EntryRow ==
  ASSUME NEW r \in Entry
  PROVE  /\ r.kind \in Kinds /\ r.ref \in Ref /\ r.ref \in RefsOf(r.kind) /\ r.delta \in Int /\ r.delta # 0
         /\ r.at \in Nat /\ r.at \in Int
         /\ r = [kind |-> r.kind, ref |-> r.ref, delta |-> r.delta, at |-> r.at]
         /\ r.kind \in {"plan_monthly", "free_weekly", "pack"} => r.delta > 0
         /\ r.kind \in Spends \cup Revokes => r.delta < 0
<1> HIDE DEF RefsOf, Ref, Kinds
<1> QED BY DEF Entry

\* What Least takes, and what it leaves.
LEMMA LeastLeaves ==
  ASSUME NEW m \in Nat, NEW n \in Int
  PROVE  /\ m - Least(m, n) \in Nat
         /\ n \in Nat => Least(m, n) \in Nat /\ Least(m, n) <= m /\ Least(m, n) <= n
         /\ n - Least(m, n) \in Nat
BY DEF Least

\* The same, for amounts.
LEMMA TakenNat ==
  ASSUME NEW m \in Nat, NEW n \in Nat
  PROVE  /\ m - Least(m, n) \in Nat /\ n - Least(m, n) \in Nat
         /\ Least(m, n) \in Nat /\ Least(m, n) <= m /\ Least(m, n) <= n
BY DEF Least

\* One more row leaves no bucket of the plan and the week negative.
LEMMA CountedLeft ==
  ASSUME NEW w \in Left, NEW r \in Entry, NEW L
  PROVE  Counted(w, r, L) \in Left
<1>1. w.plan \in Nat /\ w.weekly \in Nat /\ r.delta \in Int /\ -r.delta \in Int
  BY EntryRow DEF Left
<1>2. ASSUME NEW x \in Left, NEW n \in Int PROVE LessPlan(x, n) \in Left /\ LessWeekly(x, n) \in Left
  <2>1. x.plan \in Nat /\ x.weekly \in Nat
    BY DEF Left
  <2>2. x.plan - Least(x.plan, n) \in Nat /\ x.weekly - Least(x.weekly, n) \in Nat
    BY <2>1, LeastLeaves
  <2>3. QED BY <2>2 DEF LessPlan, LessWeekly, Left
<1>3. Spent(w, -r.delta) \in Left
  <2>1. PICK n \in Int, m \in Nat : n = -r.delta /\ m = w.plan
    BY <1>1
  <2>2. n - Least(m, n) \in Int
    BY LeastLeaves
  <2>3. LessPlan(w, n) \in Left
    BY <1>2
  <2>4. Spent(w, n) \in Left
    BY <1>2, <2>1, <2>2, <2>3 DEF Spent
  <2>5. QED BY <2>1, <2>4
<1>4. r.kind \in {"plan_monthly", "free_weekly"} =>
        /\ [w EXCEPT !.plan = @ + r.delta] \in Left
        /\ [w EXCEPT !.weekly = @ + r.delta] \in Left
  <2>1. SUFFICES ASSUME r.kind \in {"plan_monthly", "free_weekly"}
                 PROVE  /\ [w EXCEPT !.plan = @ + r.delta] \in Left
                        /\ [w EXCEPT !.weekly = @ + r.delta] \in Left
    OBVIOUS
  <2>2. r.delta > 0
    BY <2>1, EntryRow
  <2>3. w.plan + r.delta \in Nat /\ w.weekly + r.delta \in Nat
    BY <1>1, <2>2
  <2>4. QED BY <2>3 DEF Left
<1>5. LessPlan(w, -r.delta) \in Left /\ LessWeekly(w, -r.delta) \in Left
  BY <1>1, <1>2
<1> HIDE DEF LessPlan, LessWeekly, Spent, Left, Entry
<1>6. QED BY <1>3, <1>4, <1>5 DEF Counted

\* f counts what the rows leave of the plan and the week.
Counting(f, L) ==
  /\ f \in [0..Len(L) -> Left]
  /\ f[0] = [plan |-> 0, weekly |-> 0]
  /\ \A i \in 1..Len(L) : f[i] = Counted(f[i - 1], L[i], L)
  /\ Unspent(L) = f[Len(L)]

\* Unspent replays the rows one after the other.
LEMMA UnspentIs ==
  ASSUME NEW L \in Seq(Entry)
  PROVE  \E f : Counting(f, L)
<1>1. PICK n \in Nat : n = Len(L)
  OBVIOUS
<1> DEFINE a == [plan |-> 0, weekly |-> 0]
           F == [x \in (1..n) \X Left |-> Counted(x[2], L[x[1]], L)]
           Adds(f) == f = [i \in 0..n |-> IF i = 0 THEN a ELSE Counted(f[i - 1], L[i], L)]
           f == CHOOSE h : Adds(h)
<1>2. F \in [(1..n) \X Left -> Left] /\ a \in Left
  <2>1. \A x \in (1..n) \X Left : L[x[1]] \in Entry /\ x[2] \in Left
    BY <1>1
  <2>2. \A x \in (1..n) \X Left : Counted(x[2], L[x[1]], L) \in Left
    BY <2>1, CountedLeft
  <2>3. a \in Left
    BY DEF Left
  <2>4. QED BY <2>2, <2>3
<1>3. \A i \in 1..n, w \in Left : F[<<i, w>>] = Counted(w, L[i], L)
  OBVIOUS
<1>4. Unspent(L) = f[n]
  BY <1>1 DEF Unspent
<1> HIDE DEF F, a
<1>5. PICK g : Follows(g, n, Left, a, F)
  BY <1>2, Recursion
<1>6. /\ g \in [0..n -> Left] /\ g[0] = a
      /\ \A i \in 1..n : g[i] = F[<<i, g[i - 1]>>]
  BY <1>5 DEF Follows
<1>7. Adds(g)
  <2>1. \A i \in 0..n : i = 0 \/ (i # 0 /\ i \in 1..n /\ i - 1 \in 0..n)
    OBVIOUS
  <2>2. ASSUME NEW i \in 1..n PROVE g[i - 1] \in Left
    <3>1. i - 1 \in 0..n
      OBVIOUS
    <3>2. QED BY <1>6, <3>1
  <2>3. \A i \in 1..n : g[i] = Counted(g[i - 1], L[i], L)
    BY <1>3, <1>6, <2>2
  <2>4. \A i \in 0..n : g[i] = IF i = 0 THEN a ELSE Counted(g[i - 1], L[i], L)
    BY <1>6, <2>1, <2>3
  <2>5. QED BY <1>6, <2>4
<1>8. Adds(f)
  <2> HIDE DEF Adds
  <2>1. QED BY <1>7
<1> HIDE DEF f
<1>9. f[0] = a /\ \A i \in 1..n : f[i] = Counted(f[i - 1], L[i], L)
  <2>1. 0 \in 0..n /\ \A i \in 1..n : i # 0 /\ i \in 0..n
    OBVIOUS
  <2>2. QED BY <1>8, <2>1
<1>13. DOMAIN f = 0..n
  BY <1>8
<1> HIDE DEF Adds
<1>10. \A i \in 0..n : f[i] \in Left
  <2>1. \A i \in 1..n : f[i - 1] \in Left => f[i] = F[<<i, f[i - 1]>>]
    BY <1>3, <1>9
  <2>2. Carried(f, n, Left, F)
    BY <1>2, <1>9, <2>1 DEF Carried
  <2>3. QED BY <1>2, <2>2, Recursed
<1>11. f \in [0..n -> Left]
  <2>1. f = [i \in 0..n |-> f[i]]
    BY <1>8, <1>13 DEF Adds
  <2>2. QED BY <1>10, <2>1
<1>12. Counting(f, L)
  BY <1>1, <1>4, <1>9, <1>11 DEF Counting, a
<1>14. QED BY <1>12

\* The replay of the plan and the week leaves amounts.
LEMMA UnspentLeft ==
  ASSUME NEW L \in Seq(Entry)
  PROVE  Unspent(L) \in Left
<1>1. PICK f : Counting(f, L)
  BY UnspentIs
<1>2. Len(L) \in 0..Len(L)
  OBVIOUS
<1>3. QED BY <1>1, <1>2 DEF Counting

-----------------------------------------------------------------------------
(* What is left in the buckets *)

Held == [kind : Kinds, ref : Ref, left : Int]
Purse == [weekly : Int, kept : Seq(Held)]

\* The amounts of the first buckets add up.
LEMMA LeftUpToInt ==
  ASSUME NEW kept \in Seq(Held), NEW from, NEW n \in 0..Len(kept)
  PROVE  LeftUpTo(kept, from, n) \in Int
<1> DEFINE v == [j \in 1..n |-> IF j \in from THEN kept[j].left ELSE 0]
           Adds(f) == f = [j \in 0..n |-> IF j = 0 THEN 0
                                          ELSE f[j - 1] + (IF j \in from THEN kept[j].left ELSE 0)]
           sum == CHOOSE f : Adds(f)
<1>1. n \in Nat /\ \A j \in 1..n : kept[j] \in Held /\ kept[j].left \in Int
  <2>1. \A j \in 1..n : kept[j] \in Held
    OBVIOUS
  <2> QED BY <2>1 DEF Held
<1>2. LeftUpTo(kept, from, n) = sum[n]
  BY DEF LeftUpTo
<1>3. v \in Seq(Int) /\ Len(v) = n /\ \A j \in 1..n : v[j] = IF j \in from THEN kept[j].left ELSE 0
  <2>1. v \in [1..n -> Int]
    BY <1>1
  <2>2. \A j \in 1..n : v[j] = IF j \in from THEN kept[j].left ELSE 0
    OBVIOUS
  <2> HIDE DEF v
  <2> QED BY <1>1, <2>1, <2>2, SeqOf
<1> HIDE DEF v
<1>4. PICK g \in [0..n -> Int] : g[0] = 0 /\ \A i \in 1..n : g[i] = g[i - 1] + v[i]
  BY <1>3, PartialSums
<1>5. Adds(g)
  <2>1. \A j \in 0..n : j = 0 \/ j \in 1..n
    OBVIOUS
  <2> QED BY <1>3, <1>4, <2>1
<1>6. Adds(sum)
  <2> HIDE DEF Adds
  <2> QED BY <1>5
<1> HIDE DEF sum
<1> DEFINE T == {i \in Nat : i \in 0..n => sum[i] \in Int}
<1>7. 0 \in T
  BY <1>6
<1>8. ASSUME NEW i \in Nat, i \in T PROVE i + 1 \in T
  <2>1. SUFFICES ASSUME i + 1 \in 0..n PROVE sum[i + 1] \in Int
    OBVIOUS
  <2>2. i \in 0..n /\ i + 1 \in 1..n /\ i + 1 # 0 /\ (i + 1) - 1 = i
    BY <1>1, <2>1
  <2>3. sum[i + 1] = sum[i] + (IF i + 1 \in from THEN kept[i + 1].left ELSE 0)
    BY <1>6, <2>1, <2>2
  <2>4. sum[i] \in Int /\ kept[i + 1].left \in Int
    BY <1>1, <1>8, <2>2
  <2> QED BY <2>3, <2>4
<1>9. \A i \in Nat : i \in T
  <2> HIDE DEF T
  <2> QED BY <1>7, <1>8, Induct
<1> QED BY <1>1, <1>2, <1>9

\* So do all of them.
LEMMA LeftInInt ==
  ASSUME NEW kept \in Seq(Held), NEW from
  PROVE  LeftIn(kept, from) \in Int
<1>1. Len(kept) \in 0..Len(kept)
  OBVIOUS
<1> QED BY <1>1, LeftUpToInt DEF LeftIn

\* A bucket with another amount is a bucket.
LEMMA HeldWith ==
  ASSUME NEW b \in Held, NEW m \in Int
  PROVE  [b EXCEPT !.left = m] \in Held
BY DEF Held

\* Drained buckets are buckets.
LEMMA DrainHeld ==
  ASSUME NEW kept \in Seq(Held), NEW from, NEW n \in Int
  PROVE  Drain(kept, from, n) \in Seq(Held) /\ Len(Drain(kept, from, n)) = Len(kept)
<1> DEFINE take(i) == Least(kept[i].left, AtLeast0(n - LeftUpTo(kept, from, i - 1)))
           d == Drain(kept, from, n)
<1>1. PICK m \in Nat : m = Len(kept) /\ DOMAIN kept = 1..m
  OBVIOUS
<1>2. ASSUME NEW i \in 1..m
      PROVE  (IF i \in from THEN [kept[i] EXCEPT !.left = @ - take(i)] ELSE kept[i]) \in Held
  <2>1. kept[i] \in Held /\ kept[i].left \in Int
    <3>1. kept[i] \in Held
      BY <1>1
    <3> QED BY <3>1 DEF Held
  <2>2. i - 1 \in 0..m
    OBVIOUS
  <2>3. LeftUpTo(kept, from, i - 1) \in Int
    BY <1>1, <2>2, LeftUpToInt
  <2>4. take(i) \in Int
    BY <2>1, <2>3 DEF Least, AtLeast0
  <2> HIDE DEF take
  <2>5. kept[i].left - take(i) \in Int
    BY <2>1, <2>4
  <2>6. [kept[i] EXCEPT !.left = kept[i].left - take(i)] \in Held
    BY <2>1, <2>5, HeldWith
  <2> QED BY <2>1, <2>6
<1>3. d = [i \in 1..m |-> IF i \in from THEN [kept[i] EXCEPT !.left = @ - take(i)] ELSE kept[i]]
  BY <1>1 DEF Drain
<1> HIDE DEF take, d
<1>4. d \in [1..m -> Held]
  BY <1>2, <1>3
<1>5. d \in Seq(Held) /\ Len(d) = m
  BY <1>4, SeqOf
<1> QED BY <1>1, <1>5 DEF d

\* A spend leaves buckets.
LEMMA DebitedPurse ==
  ASSUME NEW b \in Purse, NEW n \in Int
  PROVE  Debited(b, n) \in Purse
<1> DEFINE from == OfPlan(b.kept)
           rest == AtLeast0(n - LeftIn(b.kept, from))
           over == AtLeast0(rest - b.weekly)
           one == Drain(b.kept, from, n)
           two == Drain(b.kept, DOMAIN b.kept \ from, over)
           both == [i \in DOMAIN b.kept |-> IF i \in from THEN one[i] ELSE two[i]]
<1>1. b.weekly \in Int /\ b.kept \in Seq(Held)
  BY DEF Purse
<1>2. LeftIn(b.kept, from) \in Int
  BY <1>1, LeftInInt
<1>3. Debited(b, n) = [weekly |-> b.weekly - Least(b.weekly, rest), kept |-> both]
  BY DEF Debited
<1>4. rest \in Int /\ over \in Int
  <2> HIDE DEF from
  <2> QED BY <1>1, <1>2 DEF AtLeast0
<1> HIDE DEF rest, over, from
<1>5. one \in Seq(Held) /\ two \in Seq(Held) /\ Len(one) = Len(b.kept) /\ Len(two) = Len(b.kept)
  BY <1>1, <1>4, DrainHeld
<1> HIDE DEF one, two
<1>6. PICK m \in Nat : m = Len(b.kept) /\ DOMAIN b.kept = 1..m
  BY <1>1
<1>7. both \in [1..m -> Held]
  <2>1. \A i \in 1..m : one[i] \in Held /\ two[i] \in Held
    BY <1>5, <1>6
  <2> QED BY <1>6, <2>1
<1> HIDE DEF both
<1>8. both \in Seq(Held)
  BY <1>7, SeqOf
<1>9. b.weekly - Least(b.weekly, rest) \in Int
  BY <1>1, <1>4 DEF Least
<1> QED BY <1>3, <1>8, <1>9 DEF Purse

\* So does any row.
LEMMA BucketedPurse ==
  ASSUME NEW b \in Purse, NEW r \in Entry, NEW key
  PROVE  Bucketed(b, r, key) \in Purse
<1>1. /\ b.weekly \in Int /\ b.kept \in Seq(Held) /\ r.delta \in Int /\ -r.delta \in Int
      /\ r.kind \in Kinds /\ r.ref \in Ref
  BY EntryRow DEF Purse
<1> HIDE DEF Entry
<1>2. ASSUME NEW m \in Int PROVE [b EXCEPT !.weekly = m] \in Purse
  BY DEF Purse
<1>3. ASSUME NEW s \in Seq(Held) PROVE [b EXCEPT !.kept = s] \in Purse
  BY DEF Purse
<1>4. b.weekly + r.delta \in Int /\ b.weekly - Least(b.weekly, -r.delta) \in Int
  BY <1>1 DEF Least
<1>5. [b EXCEPT !.weekly = b.weekly + r.delta] \in Purse /\ LessWeekly(b, -r.delta) \in Purse
  BY <1>2, <1>4 DEF LessWeekly
<1>6. Append(b.kept, Bucket(r)) \in Seq(Held)
  <2>1. Bucket(r) \in Held
    BY <1>1 DEF Bucket, Held
  <2> QED BY <1>1, <2>1, AppendProperties
<1>7. [b EXCEPT !.kept = Append(b.kept, Bucket(r))] \in Purse
  BY <1>3, <1>6
<1>8. /\ Drain(b.kept, OfPlan(b.kept), -r.delta) \in Seq(Held)
      /\ Drain(b.kept, Revoked(b.kept, r.ref, key), -r.delta) \in Seq(Held)
  BY <1>1, DrainHeld
<1>9. /\ [b EXCEPT !.kept = Drain(b.kept, OfPlan(b.kept), -r.delta)] \in Purse
      /\ [b EXCEPT !.kept = Drain(b.kept, Revoked(b.kept, r.ref, key), -r.delta)] \in Purse
  BY <1>3, <1>8
<1>10. Debited(b, -r.delta) \in Purse
  BY <1>1, DebitedPurse
<1>11. CASE r.delta > 0
  <2>1. ~(r.delta <= 0)
    BY <1>1, <1>11
  <2> QED BY <1>5, <1>7, <1>11, <2>1 DEF Bucketed
<1>12. CASE ~(r.delta > 0)
  <2>1. r.delta <= 0
    BY <1>1, <1>12
  <2> QED BY <1>5, <1>9, <1>10, <1>12, <2>1 DEF Bucketed
<1> QED BY <1>11, <1>12

\* The replay of the buckets ends with buckets.
LEMMA BucketsPurse ==
  ASSUME NEW L \in Seq(Entry), NEW key
  PROVE  Buckets(L, key) \in Purse
<1>1. PICK n \in Nat : n = Len(L)
  OBVIOUS
<1> DEFINE F == [x \in (1..n) \X Purse |-> Bucketed(x[2], L[x[1]], key)]
           Step(w, i) == CHOOSE b \in {Bucketed(before, L[i], key) : before \in {w}} : TRUE
           Adds(f) == f = [i \in 0..n |-> IF i = 0 THEN NoBuckets ELSE Step(f[i - 1], i)]
           f == CHOOSE h : Adds(h)
<1>2. F \in [(1..n) \X Purse -> Purse] /\ NoBuckets \in Purse
  <2>1. \A x \in (1..n) \X Purse : L[x[1]] \in Entry /\ x[2] \in Purse
    BY <1>1
  <2>2. \A x \in (1..n) \X Purse : Bucketed(x[2], L[x[1]], key) \in Purse
    BY <2>1, BucketedPurse
  <2>3. NoBuckets \in Purse
    <3>1. <<>> \in Seq(Held)
      OBVIOUS
    <3> QED BY <3>1 DEF Purse, NoBuckets
  <2> QED BY <2>2, <2>3
<1>3. \A i \in 1..n, w \in Purse : F[<<i, w>>] = Step(w, i)
  <2> TAKE i \in 1..n, w \in Purse
  <2>1. {Bucketed(before, L[i], key) : before \in {w}} = {Bucketed(w, L[i], key)}
    OBVIOUS
  <2>2. Step(w, i) = Bucketed(w, L[i], key)
    BY <2>1
  <2> QED BY <2>2
<1>4. Buckets(L, key) = f[n]
  BY <1>1 DEF Buckets
<1> HIDE DEF F, Step
<1>5. PICK g : Follows(g, n, Purse, NoBuckets, F)
  BY <1>2, Recursion
<1>6. /\ g \in [0..n -> Purse] /\ g[0] = NoBuckets
      /\ \A i \in 1..n : g[i] = F[<<i, g[i - 1]>>]
  BY <1>5 DEF Follows
<1>7. Adds(g)
  <2>1. \A i \in 0..n : i = 0 \/ (i # 0 /\ i \in 1..n /\ i - 1 \in 0..n)
    OBVIOUS
  <2>2. \A i \in 1..n : i - 1 \in 0..n /\ g[i - 1] \in Purse
    BY <1>6
  <2>3. \A i \in 1..n : g[i] = Step(g[i - 1], i)
    BY <1>3, <1>6, <2>2
  <2>4. \A i \in 0..n : g[i] = IF i = 0 THEN NoBuckets ELSE Step(g[i - 1], i)
    BY <1>6, <2>1, <2>3
  <2>5. g = [i \in 0..n |-> g[i]]
    BY <1>6
  <2> QED BY <2>4, <2>5
<1>8. Adds(f)
  <2> HIDE DEF Adds
  <2> QED BY <1>7
<1> HIDE DEF f
<1>9. f[0] = NoBuckets /\ \A i \in 1..n : f[i] = Step(f[i - 1], i)
  <2>1. 0 \in 0..n /\ \A i \in 1..n : i # 0 /\ i \in 0..n
    OBVIOUS
  <2> QED BY <1>8, <2>1
<1>10. \A i \in 1..n : f[i - 1] \in Purse => f[i] = F[<<i, f[i - 1]>>]
  BY <1>3, <1>9
<1>11. Carried(f, n, Purse, F)
  BY <1>2, <1>9, <1>10 DEF Carried
<1>12. \A i \in 0..n : f[i] \in Purse
  BY <1>2, <1>11, Recursed
<1> QED BY <1>4, <1>12

\* What is left is an amount.
LEMMA UnusedNat ==
  ASSUME NEW L \in Seq(Entry), NEW key
  PROVE  /\ UnusedPlan(L, key) \in Nat
         /\ \A kind, ref : UnusedOf(L, key, kind, ref) \in Nat
<1> DEFINE kept == Buckets(L, key).kept
<1>1. kept \in Seq(Held)
  BY BucketsPurse DEF Purse
<1>2. \A from : LeftIn(kept, from) \in Int
  BY <1>1, LeftInInt
<1>3. UnusedPlan(L, key) = AtLeast0(LeftIn(kept, OfPlan(kept)))
  BY DEF UnusedPlan
<1>4. \A kind, ref : UnusedOf(L, key, kind, ref) = AtLeast0(LeftIn(kept, Labelled(kept, kind, ref)))
  BY DEF UnusedOf
<1> HIDE DEF kept
<1>5. \A m \in Int : AtLeast0(m) \in Nat
  BY DEF AtLeast0
<1> QED BY <1>2, <1>3, <1>4, <1>5

-----------------------------------------------------------------------------
(* Sums over a ledger *)

\* What the rows of a pack leave, as a sum of values.
RestOf(k) == [r \in Entry |-> IF r.kind \in OfPack /\ r.ref = k THEN r.delta ELSE 0]

\* The value of a row.
LEMMA RestOfIs ==
  ASSUME NEW k
  PROVE  /\ RestOf(k) \in [Entry -> Int]
         /\ \A r \in Entry : RestOf(k)[r] = (IF r.kind \in OfPack /\ r.ref = k THEN r.delta ELSE 0)
<1>1. \A r \in Entry : r.delta \in Int
  BY EntryRow
<1>2. \A r \in Entry : (IF r.kind \in OfPack /\ r.ref = k THEN r.delta ELSE 0) \in Int
  BY <1>1
<1> HIDE DEF Entry
<1>3. QED BY <1>2 DEF RestOf

\* What the rows leave of a pack is their sum.
LEMMA RestIs ==
  ASSUME NEW L \in Seq(Entry), NEW k
  PROVE  PackRest(L, k) = Total(Values(L, RestOf(k))) /\ PackRest(L, k) \in Int
<1>1. \A i \in 1..Len(L) : RestOf(k)[L[i]]
        = IF L[i].kind \in {"pack", "rebill_revoke", "rebill_revoke:chargeback"} /\ L[i].ref = k
          THEN L[i].delta ELSE 0
  BY ElementOfSeq, RestOfIs DEF OfPack, Revokes
<1>2. Values(L, RestOf(k))
        = [i \in 1..Len(L) |->
             IF L[i].kind \in {"pack", "rebill_revoke", "rebill_revoke:chargeback"} /\ L[i].ref = k
             THEN L[i].delta ELSE 0]
  BY <1>1 DEF Values
<1>3. Total(Values(L, RestOf(k))) \in Int
  BY RestOfIs, ValuesSeq
<1>4. QED BY <1>2, <1>3 DEF PackRest, SumOf

\* The values whose sums are Balance, Granted and SpentTotal.
DeltaOf == [r \in Entry |-> r.delta]
GrantedOf == [r \in Entry |-> AtLeast0(r.delta)]
SpentOf == [r \in Entry |-> IF r.kind \in Spends THEN -r.delta ELSE 0]

\* No row is worth more than it grants.
LEMMA ValuesOf ==
  /\ DeltaOf \in [Entry -> Int] /\ GrantedOf \in [Entry -> Int] /\ SpentOf \in [Entry -> Int]
  /\ \A r \in Entry : /\ DeltaOf[r] = r.delta
                      /\ GrantedOf[r] = AtLeast0(r.delta)
                      /\ SpentOf[r] = (IF r.kind \in Spends THEN -r.delta ELSE 0)
                      /\ GrantedOf[r] \in Nat
                      /\ r.delta + SpentOf[r] <= GrantedOf[r]
<1>1. \A r \in Entry : /\ r.delta \in Int /\ AtLeast0(r.delta) \in Nat
                       /\ (IF r.kind \in Spends THEN -r.delta ELSE 0) \in Int
                       /\ r.delta + (IF r.kind \in Spends THEN -r.delta ELSE 0) <= AtLeast0(r.delta)
  BY EntryRow DEF AtLeast0
<1>2. Nat \subseteq Int
  OBVIOUS
<1> HIDE DEF Entry
<1>3. DeltaOf \in [Entry -> Int] /\ \A r \in Entry : DeltaOf[r] = r.delta
  BY <1>1 DEF DeltaOf
<1>4. GrantedOf \in [Entry -> Int] /\ \A r \in Entry : GrantedOf[r] = AtLeast0(r.delta)
  BY <1>1, <1>2 DEF GrantedOf
<1>5. /\ SpentOf \in [Entry -> Int]
      /\ \A r \in Entry : SpentOf[r] = (IF r.kind \in Spends THEN -r.delta ELSE 0)
  BY <1>1 DEF SpentOf
<1>6. QED BY <1>1, <1>3, <1>4, <1>5

\* The three sums, as sums of values.
LEMMA SumsAre ==
  ASSUME NEW L \in Seq(Entry)
  PROVE  /\ Balance(L) = Total(Values(L, DeltaOf)) /\ Balance(L) \in Int
         /\ Granted(L) = Total(Values(L, GrantedOf)) /\ Granted(L) \in Int
         /\ SpentTotal(L) = Total(Values(L, SpentOf)) /\ SpentTotal(L) \in Int
<1>1. \A i \in 1..Len(L) : /\ DeltaOf[L[i]] = L[i].delta
                           /\ GrantedOf[L[i]] = AtLeast0(L[i].delta)
                           /\ SpentOf[L[i]] = (IF L[i].kind \in Spends THEN -L[i].delta ELSE 0)
  BY ElementOfSeq, ValuesOf
<1>2. Values(L, DeltaOf) = [i \in 1..Len(L) |-> L[i].delta]
  BY <1>1 DEF Values
<1>3. Values(L, GrantedOf) = [i \in 1..Len(L) |-> AtLeast0(L[i].delta)]
  BY <1>1 DEF Values
<1>4. Values(L, SpentOf) = [i \in 1..Len(L) |-> IF L[i].kind \in Spends THEN -L[i].delta ELSE 0]
  BY <1>1 DEF Values
<1>5. /\ Total(Values(L, DeltaOf)) \in Int /\ Total(Values(L, GrantedOf)) \in Int
      /\ Total(Values(L, SpentOf)) \in Int
  BY ValuesOf, ValuesSeq
<1>6. QED BY <1>2, <1>3, <1>4, <1>5 DEF Balance, Granted, SpentTotal

\* What is posted adds up.
LEMMA SumsPost ==
  ASSUME NEW L \in Seq(Entry), NEW rows \in Seq(Entry)
  PROVE  /\ Post(L, rows) \in Seq(Entry)
         /\ Balance(Post(L, rows)) = Balance(L) + Balance(rows)
         /\ Granted(Post(L, rows)) = Granted(L) + Granted(rows)
         /\ SpentTotal(Post(L, rows)) = SpentTotal(L) + SpentTotal(rows)
         /\ \A k : PackRest(Post(L, rows), k) = PackRest(L, k) + PackRest(rows, k)
<1>1. Post(L, rows) \in Seq(Entry)
  BY PostRows
<1>2. Balance(Post(L, rows)) = Balance(L) + Balance(rows)
  <2>1. Total(Values(Post(L, rows), DeltaOf)) = Total(Values(L, DeltaOf)) + Total(Values(rows, DeltaOf))
    BY ValuesOf, PostTotal
  <2>2. /\ Balance(Post(L, rows)) = Total(Values(Post(L, rows), DeltaOf)) /\ Balance(L) = Total(Values(L, DeltaOf))
        /\ Balance(rows) = Total(Values(rows, DeltaOf))
    BY <1>1, SumsAre
  <2>3. QED BY <2>1, <2>2
<1>3. Granted(Post(L, rows)) = Granted(L) + Granted(rows)
  <2>1. Total(Values(Post(L, rows), GrantedOf)) = Total(Values(L, GrantedOf)) + Total(Values(rows, GrantedOf))
    BY ValuesOf, PostTotal
  <2>2. /\ Granted(Post(L, rows)) = Total(Values(Post(L, rows), GrantedOf)) /\ Granted(L) = Total(Values(L, GrantedOf))
        /\ Granted(rows) = Total(Values(rows, GrantedOf))
    BY <1>1, SumsAre
  <2>3. QED BY <2>1, <2>2
<1>4. SpentTotal(Post(L, rows)) = SpentTotal(L) + SpentTotal(rows)
  <2>1. Total(Values(Post(L, rows), SpentOf)) = Total(Values(L, SpentOf)) + Total(Values(rows, SpentOf))
    BY ValuesOf, PostTotal
  <2>2. /\ SpentTotal(Post(L, rows)) = Total(Values(Post(L, rows), SpentOf)) /\ SpentTotal(L) = Total(Values(L, SpentOf))
        /\ SpentTotal(rows) = Total(Values(rows, SpentOf))
    BY <1>1, SumsAre
  <2>3. QED BY <2>1, <2>2
<1>5. ASSUME NEW k PROVE PackRest(Post(L, rows), k) = PackRest(L, k) + PackRest(rows, k)
  <2>1. Total(Values(Post(L, rows), RestOf(k))) = Total(Values(L, RestOf(k))) + Total(Values(rows, RestOf(k)))
    BY RestOfIs, PostTotal
  <2>2. /\ PackRest(Post(L, rows), k) = Total(Values(Post(L, rows), RestOf(k))) /\ PackRest(L, k) = Total(Values(L, RestOf(k)))
        /\ PackRest(rows, k) = Total(Values(rows, RestOf(k)))
    BY <1>1, RestIs
  <2>3. QED BY <2>1, <2>2
<1>6. QED BY <1>1, <1>2, <1>3, <1>4, <1>5

\* And two ledgers in a row add theirs.
LEMMA SumsConcat ==
  ASSUME NEW L \in Seq(Entry), NEW rows \in Seq(Entry)
  PROVE  /\ L \o rows \in Seq(Entry)
         /\ Balance(L \o rows) = Balance(L) + Balance(rows)
         /\ Granted(L \o rows) = Granted(L) + Granted(rows)
         /\ SpentTotal(L \o rows) = SpentTotal(L) + SpentTotal(rows)
         /\ \A k : PackRest(L \o rows, k) = PackRest(L, k) + PackRest(rows, k)
<1>1. L \o rows \in Seq(Entry)
  BY ConcatProperties
<1>2. Balance(L \o rows) = Balance(L) + Balance(rows)
  <2>1. Total(Values(L \o rows, DeltaOf)) = Total(Values(L, DeltaOf)) + Total(Values(rows, DeltaOf))
    BY ValuesOf, ValuesConcat
  <2>2. /\ Balance(L \o rows) = Total(Values(L \o rows, DeltaOf)) /\ Balance(L) = Total(Values(L, DeltaOf))
        /\ Balance(rows) = Total(Values(rows, DeltaOf))
    BY <1>1, SumsAre
  <2>3. QED BY <2>1, <2>2
<1>3. Granted(L \o rows) = Granted(L) + Granted(rows)
  <2>1. Total(Values(L \o rows, GrantedOf)) = Total(Values(L, GrantedOf)) + Total(Values(rows, GrantedOf))
    BY ValuesOf, ValuesConcat
  <2>2. /\ Granted(L \o rows) = Total(Values(L \o rows, GrantedOf)) /\ Granted(L) = Total(Values(L, GrantedOf))
        /\ Granted(rows) = Total(Values(rows, GrantedOf))
    BY <1>1, SumsAre
  <2>3. QED BY <2>1, <2>2
<1>4. SpentTotal(L \o rows) = SpentTotal(L) + SpentTotal(rows)
  <2>1. Total(Values(L \o rows, SpentOf)) = Total(Values(L, SpentOf)) + Total(Values(rows, SpentOf))
    BY ValuesOf, ValuesConcat
  <2>2. /\ SpentTotal(L \o rows) = Total(Values(L \o rows, SpentOf)) /\ SpentTotal(L) = Total(Values(L, SpentOf))
        /\ SpentTotal(rows) = Total(Values(rows, SpentOf))
    BY <1>1, SumsAre
  <2>3. QED BY <2>1, <2>2
<1>5. ASSUME NEW k PROVE PackRest(L \o rows, k) = PackRest(L, k) + PackRest(rows, k)
  <2>1. Total(Values(L \o rows, RestOf(k))) = Total(Values(L, RestOf(k))) + Total(Values(rows, RestOf(k)))
    <3>1. RestOf(k) \in [Entry -> Int]
      BY RestOfIs
    <3>2. QED BY <3>1, ValuesConcat
  <2>2. /\ PackRest(L \o rows, k) = Total(Values(L \o rows, RestOf(k))) /\ PackRest(L, k) = Total(Values(L, RestOf(k)))
        /\ PackRest(rows, k) = Total(Values(rows, RestOf(k)))
    BY <1>1, RestIs
  <2>3. QED BY <2>1, <2>2
<1>6. QED BY <1>1, <1>2, <1>3, <1>4, <1>5

\* The sums over no row and over one row.
LEMMA SumsSmall ==
  /\ <<>> \in Seq(Entry) /\ Balance(<<>>) = 0 /\ Granted(<<>>) = 0 /\ SpentTotal(<<>>) = 0
  /\ \A k : PackRest(<<>>, k) = 0
  /\ \A r \in Entry : /\ <<r>> \in Seq(Entry)
                      /\ Balance(<<r>>) = r.delta
                      /\ Granted(<<r>>) = AtLeast0(r.delta)
                      /\ SpentTotal(<<r>>) = (IF r.kind \in Spends THEN -r.delta ELSE 0)
                      /\ \A k : PackRest(<<r>>, k)
                                  = IF r.kind \in OfPack /\ r.ref = k THEN r.delta ELSE 0
<1>1. <<>> \in Seq(Entry) /\ \A r \in Entry : <<r>> \in Seq(Entry)
  OBVIOUS
<1>2. Balance(<<>>) = 0 /\ Granted(<<>>) = 0 /\ SpentTotal(<<>>) = 0
  BY <1>1, SumsAre, ValuesOf, ValuesSmall
<1>3. ASSUME NEW k PROVE PackRest(<<>>, k) = 0
  <2>1. Total(Values(<<>>, RestOf(k))) = 0
    BY RestOfIs, ValuesSmall
  <2>2. PackRest(<<>>, k) = Total(Values(<<>>, RestOf(k)))
    BY <1>1, RestIs
  <2>3. QED BY <2>1, <2>2
<1>4. ASSUME NEW r \in Entry
      PROVE  /\ Balance(<<r>>) = r.delta
             /\ Granted(<<r>>) = AtLeast0(r.delta)
             /\ SpentTotal(<<r>>) = (IF r.kind \in Spends THEN -r.delta ELSE 0)
  <2>1. /\ Total(Values(<<r>>, DeltaOf)) = DeltaOf[r]
        /\ Total(Values(<<r>>, GrantedOf)) = GrantedOf[r]
        /\ Total(Values(<<r>>, SpentOf)) = SpentOf[r]
    BY ValuesOf, ValuesSmall
  <2>2. /\ Balance(<<r>>) = Total(Values(<<r>>, DeltaOf))
        /\ Granted(<<r>>) = Total(Values(<<r>>, GrantedOf))
        /\ SpentTotal(<<r>>) = Total(Values(<<r>>, SpentOf))
    BY <1>1, SumsAre
  <2>3. QED BY <2>1, <2>2, ValuesOf
<1>5. ASSUME NEW r \in Entry, NEW k
      PROVE  PackRest(<<r>>, k) = IF r.kind \in OfPack /\ r.ref = k THEN r.delta ELSE 0
  <2>1. Total(Values(<<r>>, RestOf(k))) = RestOf(k)[r]
    BY RestOfIs, ValuesSmall
  <2>2. PackRest(<<r>>, k) = Total(Values(<<r>>, RestOf(k)))
    BY <1>1, RestIs
  <2>3. QED BY <2>1, <2>2, RestOfIs
<1>6. QED BY <1>1, <1>2, <1>3, <1>4, <1>5

\* A sum of zeroes.
LEMMA TotalZero ==
  ASSUME NEW s \in Seq(Int), \A i \in 1..Len(s) : s[i] = 0
  PROVE  Total(s) = 0
<1>1. Total(s) \in Nat
  BY TotalNat
<1>2. \A i \in 1..Len(s) : s[i] + s[i] <= s[i]
  OBVIOUS
<1>3. Total(s) + Total(s) <= Total(s)
  BY <1>2, TotalFits
<1>4. QED BY <1>1, <1>3

\* A balance is what was granted less what was spent and reversed.
LEMMA BalanceBound ==
  ASSUME NEW L \in Seq(Entry)
  PROVE  Balance(L) + SpentTotal(L) <= Granted(L)
<1> DEFINE s == Values(L, DeltaOf)
           t == Values(L, SpentOf)
           w == Values(L, GrantedOf)
<1>1. /\ s \in Seq(Int) /\ Len(s) = Len(L)
      /\ t \in Seq(Int) /\ Len(t) = Len(L)
      /\ w \in Seq(Int) /\ Len(w) = Len(L)
  BY ValuesOf, ValuesSeq
<1>2. \A i \in 1..Len(L) : s[i] + t[i] <= w[i]
  BY ElementOfSeq, ValuesOf DEF Values
<1> HIDE DEF s, t, w
<1>3. Total(s) + Total(t) <= Total(w)
  BY <1>1, <1>2, TotalFits
<1>4. QED BY <1>3, SumsAre DEF s, t, w

-----------------------------------------------------------------------------
(* Windows and slices *)

\* What the assumptions of PlanSlices and CreditLedger say of the constants.
LEMMA Constants ==
  /\ Weekly \in Nat /\ PlanAmount \in Nat /\ PlanAmount > 0 /\ PackSize \in Nat /\ PackSize > 0
  /\ UnlockCost \in Nat /\ UnlockCost > 0 /\ DraftCost \in Nat /\ DraftCost > 0
  /\ WeekLength \in Nat /\ WeekLength > 0 /\ YearLength \in Nat /\ YearLength > 0
  /\ MonthLength \in Nat /\ MonthLength > 0
  /\ MaxTime \in Nat /\ FreeSaved \in Nat
  /\ None \notin User /\ Known \subseteq Hotel /\ Disputed \subseteq Pack \cup Pay
  /\ Pay \subseteq Nat /\ IsFiniteSet(Pay) /\ Pack \cap Pay = {}
  /\ \A k \in Pack \cup Pay : Payer[k] \in User /\ k # None
BY CreditConstants, SliceConstants

\* The fields of an entitlement.
LEMMA EntFields ==
  ASSUME NEW e \in Entitlement
  PROVE  e.status \in {"none", "active", "expired", "revoked"} /\ e.start \in Int /\ e.expires \in Int
BY DEF Entitlement

\* An entitlement with another status or another end.
LEMMA EntIs ==
  ASSUME NEW e \in Entitlement
  PROVE  /\ \A s \in {"none", "active", "expired", "revoked"} : [e EXCEPT !.status = s] \in Entitlement
         /\ \A m \in Int : [e EXCEPT !.expires = m] \in Entitlement
         /\ \A m \in Int, s \in {"none", "active", "expired", "revoked"} :
              [e EXCEPT !.expires = m, !.status = s] \in Entitlement
BY DEF Entitlement

\* The fields of a payment's row.
LEMMA EffectIs ==
  ASSUME NEW x \in Effect
  PROVE  /\ x.start \in Int /\ x.end \in Int /\ DOMAIN x = EffectFields
         /\ \A s \in {"none", "refused", "granted", "revoked"} : [x EXCEPT !.state = s] \in Effect
         /\ \A k \in Periodic : [x EXCEPT !.key = k] \in Effect
         /\ \A a \in Int, b \in Int : [x EXCEPT !.start = a, !.end = b] \in Effect
BY DEF Effect, EffectFields

\* A settlement, a payment and a chargeback keep the type of an entitlement.
LEMMA WindowTypes ==
  ASSUME NEW e \in Entitlement, NEW t \in Nat, NEW u
  PROVE  /\ Settled(u, e, t) \in Entitlement
         /\ Settled(u, e, t).start = e.start
         /\ \A length \in Nat : Extended(e, length, t) \in Entitlement
         /\ \A status : Terminated(e, status, t) \in Entitlement
<1>1. e.status \in {"none", "active", "expired", "revoked"} /\ e.start \in Int /\ e.expires \in Int
  BY EntFields
<1>2. Settled(u, e, t) \in Entitlement /\ Settled(u, e, t).start = e.start
  <2>1. [e EXCEPT !.status = "expired"] \in Entitlement /\ [e EXCEPT !.status = "expired"].start = e.start
    BY DEF Entitlement
  <2>2. QED BY <2>1 DEF Settled, Lapsed
<1>3. ASSUME NEW length \in Nat PROVE Extended(e, length, t) \in Entitlement
  BY <1>1 DEF Extended, Entitlement
<1>4. ASSUME NEW status PROVE Terminated(e, status, t) \in Entitlement
  <2>1. Min({e.expires, t}) \in Int
    BY <1>1, TwoOf
  <2>2. QED BY <1>1, <2>1, EntIs DEF Terminated
<1>5. QED BY <1>2, <1>3, <1>4

\* What Cut leaves is a window.
LEMMA CutType ==
  ASSUME NEW e \in Entitlement, NEW f \in [Pay -> Effect], NEW p, NEW x \in Effect, NEW t \in Nat
  PROVE  Cut(e, f, p, x, t) \in Entitlement
<1> DEFINE later == Later(f, p, x.order, t)
           starts == [q \in Pay |-> f[q].start]
           ends == [q \in Pay |-> f[q].end]
<1>1. e.status \in {"none", "active", "expired", "revoked"} /\ e.start \in Int /\ e.expires \in Int
  BY EntFields
<1>2. Min({e.expires, t}) \in Int
  BY <1>1, TwoOf
<1>3. later \in SUBSET Slices(f, p, x.order) /\ IsFiniteSet(later) /\ later \subseteq Pay
  BY SlicesFinite DEF Later
<1>4. \A q \in Pay : starts[q] \in Int /\ ends[q] \in Int
  BY EffectIs
<1> HIDE DEF later
<1>5. later # {} => Min({f[q].start : q \in later}) \in Int /\ Max({f[q].end : q \in later}) \in Int
  <2>1. {f[q].start : q \in later} = {starts[q] : q \in later} /\ {f[q].end : q \in later} = {ends[q] : q \in later}
    BY <1>3
  <2>2. \A q \in later : starts[q] \in Int /\ ends[q] \in Int
    BY <1>3, <1>4
  <2> HIDE DEF starts, ends
  <2>3. later # {} => Min({starts[q] : q \in later}) \in Int
    BY <1>3, <2>2, MinOf
  <2>4. later # {} => Max({ends[q] : q \in later}) \in Int
    BY <1>3, <2>2, MaxOf
  <2>5. QED BY <2>1, <2>3, <2>4
<1>6. GoesOn(f, p, x, t) => later # {}
  BY DEF GoesOn, later
<1> DEFINE low == Min({f[q].start : q \in later})
           high == Max({f[q].end : q \in later})
           m == Min({e.expires, t})
<1>7. Cut(e, f, p, x, t) =
        IF ~GoesOn(f, p, x, t)
        THEN [e EXCEPT !.expires = m, !.status = IF @ = "revoked" THEN @ ELSE "expired"]
        ELSE IF e.status = "revoked" THEN [e EXCEPT !.expires = m]
        ELSE [status |-> "active", start |-> IF Current(x, t) THEN low ELSE e.start, expires |-> high]
  BY DEF Cut, later
<1>8. m \in Int /\ (GoesOn(f, p, x, t) => low \in Int /\ high \in Int)
  BY <1>2, <1>5, <1>6
<1> HIDE DEF low, high, m
<1>9. [e EXCEPT !.expires = m, !.status = IF @ = "revoked" THEN @ ELSE "expired"] \in Entitlement
  BY <1>1, <1>8, EntIs
<1>10. [e EXCEPT !.expires = m] \in Entitlement
  BY <1>8, EntIs
<1>11. GoesOn(f, p, x, t) =>
         [status |-> "active", start |-> IF Current(x, t) THEN low ELSE e.start, expires |-> high] \in Entitlement
  BY <1>1, <1>8 DEF Entitlement
<1>12. QED BY <1>7, <1>9, <1>10, <1>11

\* The rows of payments that have moved up, or that were numbered again.
LEMMA SliceTypes ==
  ASSUME NEW f \in [Pay -> Effect]
  PROVE  /\ \A p, t : \A x \in Effect : MovedUp(f, p, x, t) \in [Pay -> Effect]
         /\ \A p : \A u \in User, e \in Entitlement : Renumbered(f, p, u, e) \in [Pay -> Effect]
<1>1. \A q \in Pay : f[q] \in Effect
  OBVIOUS
<1>2. ASSUME NEW p, NEW t, NEW x \in Effect PROVE MovedUp(f, p, x, t) \in [Pay -> Effect]
  <2>1. ASSUME NEW q \in Pay
        PROVE  [f[q] EXCEPT !.start = @ - (x.end - x.start), !.end = @ - (x.end - x.start)] \in Effect
    <3>1. f[q].start - (x.end - x.start) \in Int /\ f[q].end - (x.end - x.start) \in Int
      <4>1. f[q] \in Effect
        BY <1>1
      <4>2. f[q].start \in Int /\ f[q].end \in Int /\ x.start \in Int /\ x.end \in Int
        BY <4>1, EffectIs
      <4>3. QED BY <4>2
    <3>2. f[q] \in Effect
      BY <1>1
    <3>3. QED BY <3>1, <3>2 DEF Effect
  <2>2. QED BY <1>1, <2>1 DEF MovedUp
<1>3. ASSUME NEW p, NEW u \in User, NEW e \in Entitlement PROVE Renumbered(f, p, u, e) \in [Pay -> Effect]
  <2> DEFINE g == Renumbered(f, p, u, e)
  <2>1. \A q \in Pay : DOMAIN f[q] = EffectFields /\ f[q].start \in Int
    BY <1>1, EffectIs
  <2>2. e.start \in Int
    BY EntFields
  <2>3. \A q \in Slices(f, p, u) : \E n \in Nat : g[q] = [f[q] EXCEPT !.key = KeyOf(u, e, n)]
    BY <2>1, <2>2, RenumberedKeys
  <2>4. \A q \in Pay : q \notin Slices(f, p, u) => g[q] = f[q]
    BY <2>1, <2>2, RenumberedKeys
  <2>5. \A n \in Nat : KeyOf(u, e, n) \in Periodic
    BY <2>2 DEF KeyOf, Periodic
  <2>6. \A q \in Pay : g[q] \in Effect
    <3>1. TAKE q \in Pay
    <3>2. CASE q \in Slices(f, p, u)
      <4>1. PICK n \in Nat : g[q] = [f[q] EXCEPT !.key = KeyOf(u, e, n)]
        BY <2>3, <3>2
      <4>2. f[q] \in Effect /\ KeyOf(u, e, n) \in Periodic
        BY <1>1, <2>5
      <4> HIDE DEF g
      <4>3. QED BY <4>1, <4>2 DEF Effect
    <3>3. QED BY <1>1, <2>4, <3>2
  <2>7. g = [q \in Pay |-> g[q]]
    BY DEF Renumbered
  <2> HIDE DEF g
  <2>8. QED BY <2>6, <2>7 DEF g
<1>4. QED BY <1>2, <1>3

\* The key of the period a payment grants.
LEMMA ClaimedType ==
  ASSUME NEW f, NEW u \in User, NEW e \in Entitlement, NEW had, NEW t \in Nat
  PROVE  Claimed(f, u, e, had, t) \in Periodic
<1>1. e.start \in Int /\ t \in Int
  BY EntFields
<1>2. PICK n \in Nat : Claimed(f, u, e, had, t) = KeyOf(u, e, n)
  <2>1. \E n \in Nat : Claimed(f, u, e, had, t) = KeyOf(u, e, n) /\ \A q \in Pay : f[q].key # KeyOf(u, e, n)
    BY <1>1, ClaimedIs
  <2>2. QED BY <2>1
<1>3. QED BY <1>1, <1>2 DEF KeyOf, Periodic

-----------------------------------------------------------------------------
(* The rows of a settlement *)

\* The kinds of rows.
LEMMA KindsAre ==
  Kinds = {"account_deletion", "admin_grant", "ai_draft", "courtesy", "free_weekly",
           "free_weekly_expire", "pack", "plan_expire", "plan_monthly", "rebill_revoke",
           "rebill_revoke:chargeback", "rebill_revoke_plan", "unlock"}
<1>1. DOMAIN KeyOrder = 1..13
  BY DEF KeyOrder
<1>2. \A i : i \in 1..13 <=> i = 1 \/ i = 2 \/ i = 3 \/ i = 4 \/ i = 5 \/ i = 6 \/ i = 7 \/ i = 8
                             \/ i = 9 \/ i = 10 \/ i = 11 \/ i = 12 \/ i = 13
  OBVIOUS
<1>3. /\ KeyOrder[1] = "account_deletion" /\ KeyOrder[2] = "admin_grant" /\ KeyOrder[3] = "ai_draft"
      /\ KeyOrder[4] = "courtesy" /\ KeyOrder[5] = "free_weekly" /\ KeyOrder[6] = "free_weekly_expire"
      /\ KeyOrder[7] = "pack" /\ KeyOrder[8] = "plan_expire" /\ KeyOrder[9] = "plan_monthly"
      /\ KeyOrder[10] = "rebill_revoke" /\ KeyOrder[11] = "rebill_revoke:chargeback"
      /\ KeyOrder[12] = "rebill_revoke_plan" /\ KeyOrder[13] = "unlock"
  BY DEF KeyOrder
<1>4. QED BY <1>1, <1>2, <1>3 DEF Kinds

\* What the key of a row names.
LEMMA RefsAre ==
  /\ RefsOf("plan_monthly") = Periodic
  /\ RefsOf("plan_expire") = Periodic \cup (User \X Int \X Nat \X {0})
  /\ RefsOf("free_weekly") = [1..1 -> Nat] /\ RefsOf("free_weekly_expire") = [1..1 -> Nat]
  /\ \A kind \in OfPack \cup {"rebill_revoke_plan"} : RefsOf(kind) = Pack \cup Pay
  /\ RefsOf("unlock") = Hotel /\ RefsOf("courtesy") = Hotel
  /\ RefsOf("ai_draft") = Draft
  /\ RefsOf("admin_grant") = {None} /\ RefsOf("account_deletion") = {None}
  /\ \A kind \in Kinds : RefsOf(kind) \subseteq Ref
<1>1. /\ RefsOf("plan_monthly") = Periodic
      /\ RefsOf("plan_expire") = Periodic \cup (User \X Int \X Nat \X {0})
      /\ RefsOf("free_weekly") = [1..1 -> Nat] /\ RefsOf("free_weekly_expire") = [1..1 -> Nat]
  BY DEF RefsOf
<1>2. /\ RefsOf("pack") = Pack \cup Pay /\ RefsOf("rebill_revoke") = Pack \cup Pay
      /\ RefsOf("rebill_revoke:chargeback") = Pack \cup Pay
      /\ RefsOf("rebill_revoke_plan") = Pack \cup Pay
  BY DEF RefsOf
<1>3. /\ RefsOf("unlock") = Hotel /\ RefsOf("courtesy") = Hotel
      /\ RefsOf("ai_draft") = Draft
      /\ RefsOf("admin_grant") = {None} /\ RefsOf("account_deletion") = {None}
  BY DEF RefsOf
<1>5. \A kind \in OfPack \cup {"rebill_revoke_plan"} : RefsOf(kind) = Pack \cup Pay
  BY <1>2 DEF OfPack, Revokes
<1>6. \A kind \in Kinds : RefsOf(kind) \subseteq Ref
  BY <1>1, <1>2, <1>3, KindsAre DEF Ref
<1>7. QED BY <1>1, <1>2, <1>3, <1>5, <1>6

\* A row that is written.
LEMMA NewEntry ==
  ASSUME NEW kind \in Kinds, NEW ref \in RefsOf(kind), NEW delta \in Int, NEW at \in Nat, delta # 0,
         kind \in {"plan_monthly", "free_weekly", "pack"} => delta > 0,
         kind \in Spends \cup Revokes => delta < 0
  PROVE  /\ NewRow(kind, ref, delta, at) \in Entry
         /\ kind \in Grants => NewRow(kind, ref, delta, at) \in GrantEntry
         /\ NewRow(kind, ref, delta, at).kind = kind /\ NewRow(kind, ref, delta, at).ref = ref
         /\ NewRow(kind, ref, delta, at).delta = delta /\ NewRow(kind, ref, delta, at).at = at
<1> DEFINE r == NewRow(kind, ref, delta, at)
<1>1. /\ r = [kind |-> kind, ref |-> ref, delta |-> delta, at |-> at]
      /\ r.kind = kind /\ r.ref = ref /\ r.delta = delta /\ r.at = at
  BY DEF NewRow
<1>2. ref \in Ref /\ delta \in Int \ {0}
  BY RefsAre
<1>3. r \in [kind : Kinds, ref : Ref, delta : Int \ {0}, at : Nat]
  BY <1>1, <1>2
<1> HIDE DEF r
<1>4. r \in Entry
  BY <1>1, <1>3 DEF Entry
<1>5. kind \in Grants => r \in GrantEntry
  BY <1>1, <1>4 DEF GrantEntry
<1>6. QED BY <1>1, <1>4, <1>5 DEF r

\* One of the periods granted is the last.
LEMMA LastPeriod ==
  ASSUME NEW L \in Seq(Entry), Periods(L) # {}
  PROVE  \E i \in Periods(L) : \A j \in Periods(L) : j <= i
<1>1. PICK n \in Nat : n = Len(L)
  OBVIOUS
<1>2. Periods(L) \in SUBSET (0..n)
  BY <1>1 DEF Periods
<1>3. QED BY <1>2, GreatestElement

\* A fourth part of a key.
LEMMA AppendThree ==
  ASSUME NEW u \in User, NEW a \in Int, NEW n \in Nat
  PROVE  Append(<<u, a, n>>, 0) = <<u, a, n, 0>>
<1> DEFINE S == User \cup Int
<1>1. <<u, a, n>> \in Seq(S) /\ Len(<<u, a, n>>) = 3
  OBVIOUS
<1>2. PICK s \in Seq(S) : s = <<u, a, n>> /\ Len(s) = 3 /\ s[1] = u /\ s[2] = a /\ s[3] = n
  BY <1>1
<1>3. PICK w : w = Append(s, 0)
  OBVIOUS
<1>4. w \in Seq(S) /\ Len(w) = 4 /\ w[4] = 0 /\ w[1] = u /\ w[2] = a /\ w[3] = n
  <2>1. 0 \in S /\ \A i \in 1..3 : i \in 1..Len(s)
    BY <1>2
  <2>2. w \in Seq(S) /\ Len(w) = 4
    BY <1>2, <1>3, <2>1, AppendProperties
  <2>3. w[4] = 0
    BY <1>2, <1>3, <2>1, AppendProperties
  <2>4. \A i \in 1..3 : w[i] = s[i]
    BY <1>2, <1>3, <2>1, AppendProperties
  <2>5. QED BY <1>2, <2>2, <2>3, <2>4
<1>5. w = <<w[1], w[2], w[3], w[4]>>
  BY <1>4
<1>6. QED BY <1>2, <1>3, <1>4, <1>5

\* The key of the reversal that ends the last period of a plan.
LEMMA LapseKeyType ==
  ASSUME NEW L \in Seq(Entry), Periods(L) # {}
  PROVE  LapseKey(L) \in RefsOf("plan_expire")
<1>1. PICK n \in Nat : n = Len(L)
  OBVIOUS
<1> DEFINE last == CHOOSE i \in Periods(L) : \A j \in Periods(L) : j <= i
<1>3. last \in Periods(L)
  BY LastPeriod
<1>4. LapseKey(L) = Append(L[last].ref, 0)
  BY DEF LapseKey
<1> HIDE DEF last
<1>5. L[last].kind = "plan_monthly" /\ L[last] \in Entry
  BY <1>1, <1>3, ElementOfSeq DEF Periods
<1>6. L[last].ref \in Periodic
  BY <1>5, EntryRow, RefsAre
<1>7. PICK u \in User, a \in Int, m \in Nat : L[last].ref = <<u, a, m>>
  BY <1>6 DEF Periodic
<1>8. Append(L[last].ref, 0) = <<u, a, m, 0>>
  BY <1>7, AppendThree
<1>9. <<u, a, m, 0>> \in User \X Int \X Nat \X {0}
  OBVIOUS
<1>10. QED BY <1>4, <1>8, <1>9, RefsAre

\* Whole weeks.
LEMMA Divides ==
  ASSUME NEW m \in Nat, NEW n \in Nat, n > 0 PROVE m \div n \in Nat
OBVIOUS

\* The rows of a settlement at t.
Dated(t) == {r \in GrantEntry : r.at = t}

\* The grant of a period of the plan.
LEMMA PlanRowsAre ==
  ASSUME NEW u \in User, NEW L \in Seq(Entry), NEW pl \in Entitlement, NEW at \in Nat
  PROVE  PlanRows(u, L, pl, at) \in Seq(Dated(at))
<1> DEFINE period == KeyOf(u, pl, Period(pl, at))
           left == Unspent(L).plan
           expire == NewRow("plan_expire", period, -left, at)
           monthly == NewRow("plan_monthly", period, PlanAmount, at)
<1>2. period \in Periodic
  <2>1. pl.start \in Int /\ at \in Int
    BY EntFields
  <2>2. Period(pl, at) \in Nat
    BY <2>1, PeriodType
  <2>3. QED BY <2>1, <2>2 DEF KeyOf, Periodic
<1>3. left \in Nat
  BY UnspentLeft DEF Left
<1> HIDE DEF period, left
<1>4. monthly \in Dated(at)
  <2>1. "plan_monthly" \in Kinds \cap Grants /\ "plan_monthly" \notin Spends \cup Revokes
    BY KindsAre DEF Grants, Spends, Revokes
  <2>2. PlanAmount \in Int /\ PlanAmount # 0 /\ PlanAmount > 0
    BY Constants
  <2>3. period \in RefsOf("plan_monthly")
    BY <1>2, RefsAre
  <2>4. monthly \in GrantEntry /\ monthly.at = at
    BY <2>1, <2>2, <2>3, NewEntry
  <2>5. QED BY <2>4 DEF Dated
<1>5. left > 0 => expire \in Dated(at)
  <2>1. "plan_expire" \in Kinds \cap Grants /\ "plan_expire" \notin Spends \cup Revokes
        /\ "plan_expire" \notin {"plan_monthly", "free_weekly", "pack"}
    BY KindsAre DEF Grants, Spends, Revokes
  <2>2. -left \in Int /\ (left > 0 => -left # 0)
    BY <1>3
  <2>3. period \in RefsOf("plan_expire")
    BY <1>2, RefsAre
  <2>4. left > 0 => expire \in GrantEntry /\ expire.at = at
    BY <2>1, <2>2, <2>3, NewEntry
  <2>5. QED BY <2>4 DEF Dated
<1> DEFINE first == IF left > 0 /\ ~Has(L, "plan_expire", period) THEN <<expire>> ELSE <<>>
<1>6. PlanRows(u, L, pl, at) = IF Has(L, "plan_monthly", period) THEN <<>> ELSE first \o <<monthly>>
  BY DEF PlanRows, period, left
<1> HIDE DEF expire, monthly
<1>7. first \in Seq(Dated(at))
  BY <1>5
<1>8. <<monthly>> \in Seq(Dated(at)) /\ <<>> \in Seq(Dated(at))
  BY <1>4
<1> HIDE DEF first
<1>9. first \o <<monthly>> \in Seq(Dated(at))
  BY <1>7, <1>8, ConcatProperties
<1>10. QED BY <1>6, <1>8, <1>9

\* The lapse of what is left of a plan.
LEMMA LapseRowsAre ==
  ASSUME NEW L \in Seq(Entry), NEW at \in Nat
  PROVE  LapseRows(L, at) \in Seq(Dated(at))
<1> DEFINE left == Unspent(L).plan
           expire == NewRow("plan_expire", LapseKey(L), -left, at)
<1>1. left \in Nat
  BY UnspentLeft DEF Left
<1>2. LapseRows(L, at) \in {<<>>, <<expire>>} /\ (left = 0 \/ Periods(L) = {} => LapseRows(L, at) = <<>>)
  BY DEF LapseRows
<1> HIDE DEF left
<1>3. left # 0 /\ Periods(L) # {} => expire \in Dated(at)
  <2>1. "plan_expire" \in Kinds \cap Grants /\ "plan_expire" \notin Spends \cup Revokes
        /\ "plan_expire" \notin {"plan_monthly", "free_weekly", "pack"}
    BY KindsAre DEF Grants, Spends, Revokes
  <2>2. -left \in Int /\ (left # 0 => -left # 0)
    BY <1>1
  <2>3. Periods(L) # {} => LapseKey(L) \in RefsOf("plan_expire")
    BY LapseKeyType
  <2>4. QED BY <2>1, <2>2, <2>3, NewEntry DEF Dated
<1> HIDE DEF expire
<1>4. <<>> \in Seq(Dated(at)) /\ (expire \in Dated(at) => <<expire>> \in Seq(Dated(at)))
  OBVIOUS
<1>5. QED BY <1>2, <1>3, <1>4

\* The weekly grant, and the lapse of the last one.
LEMMA WeeklyRowsAre ==
  ASSUME NEW L \in Seq(Entry), NEW at \in Nat
  PROVE  WeeklyRows(L, at) \in Seq(Dated(at))
<1> DEFINE week == <<at \div WeekLength>>
           left == Unspent(L).weekly
           expire == NewRow("free_weekly_expire", week, -left, at)
           weekly == NewRow("free_weekly", week, Weekly, at)
<1>1. week \in RefsOf("free_weekly") /\ week \in RefsOf("free_weekly_expire")
  <2>1. at \div WeekLength \in Nat
    BY Constants, Divides
  <2>2. week \in [1..1 -> Nat]
    BY <2>1
  <2>3. QED BY <2>2, RefsAre
<1>2. left \in Nat
  BY UnspentLeft DEF Left
<1> HIDE DEF week, left
<1>3. Weekly # 0 => weekly \in Dated(at)
  <2>1. "free_weekly" \in Kinds \cap Grants /\ "free_weekly" \notin Spends \cup Revokes
        /\ "free_weekly" # "plan_monthly"
    BY KindsAre DEF Grants, Spends, Revokes
  <2>2. Weekly \in Int /\ (Weekly # 0 => Weekly > 0)
    BY Constants
  <2>3. QED BY <1>1, <2>1, <2>2, NewEntry DEF Dated
<1>4. left > 0 => expire \in Dated(at)
  <2>1. "free_weekly_expire" \in Kinds \cap Grants /\ "free_weekly_expire" \notin Spends \cup Revokes
        /\ "free_weekly_expire" \notin {"plan_monthly", "free_weekly", "pack"}
    BY KindsAre DEF Grants, Spends, Revokes
  <2>2. -left \in Int /\ (left > 0 => -left # 0)
    BY <1>2
  <2>3. QED BY <1>1, <2>1, <2>2, NewEntry DEF Dated
<1> DEFINE first == IF left > 0 /\ ~Has(L, "free_weekly_expire", week) THEN <<expire>> ELSE <<>>
<1>5. WeeklyRows(L, at) = IF Weekly = 0 \/ Has(L, "free_weekly", week) THEN <<>> ELSE first \o <<weekly>>
  BY DEF WeeklyRows, week, left
<1> HIDE DEF expire, weekly
<1>6. first \in Seq(Dated(at))
  BY <1>4
<1>7. <<>> \in Seq(Dated(at)) /\ (Weekly # 0 => <<weekly>> \in Seq(Dated(at)))
  BY <1>3
<1> HIDE DEF first
<1>8. Weekly # 0 => first \o <<weekly>> \in Seq(Dated(at))
  BY <1>6, <1>7, ConcatProperties
<1>9. QED BY <1>5, <1>7, <1>8

\* A settlement writes grants and lapses, and none for a closed account.
LEMMA GrantRowsAre ==
  ASSUME NEW u \in User, NEW L \in Seq(Entry), NEW pl \in Entitlement, NEW at \in Nat
  PROVE  /\ GrantRows(u, L, pl, at) \in Seq(GrantEntry)
         /\ \A r \in RowsOf(GrantRows(u, L, pl, at)) : r.at = at
         /\ u \in closed => GrantRows(u, L, pl, at) = <<>>
<1>1. u \in closed => GrantRows(u, L, pl, at) = <<>>
  BY DEF GrantRows
<1>2. <<>> \in Seq(Dated(at))
  OBVIOUS
<1>3. ASSUME u \notin closed, Covers(Settled(u, pl, at), at)
      PROVE  GrantRows(u, L, pl, at) \in Seq(Dated(at))
  <2>1. GrantRows(u, L, pl, at) = PlanRows(u, L, pl, at)
    BY <1>3 DEF GrantRows
  <2>2. QED BY <2>1, PlanRowsAre
<1>4. ASSUME u \notin closed, ~Covers(Settled(u, pl, at), at)
      PROVE  GrantRows(u, L, pl, at) \in Seq(Dated(at))
  <2>1. GrantRows(u, L, pl, at) = LapseRows(L, at) \o WeeklyRows(L, at)
    BY <1>4 DEF GrantRows
  <2>2. LapseRows(L, at) \in Seq(Dated(at)) /\ WeeklyRows(L, at) \in Seq(Dated(at))
    BY LapseRowsAre, WeeklyRowsAre
  <2>3. QED BY <2>1, <2>2, ConcatProperties
<1>5. GrantRows(u, L, pl, at) \in Seq(Dated(at))
  BY <1>1, <1>2, <1>3, <1>4
<1>6. Dated(at) \subseteq GrantEntry /\ \A r \in Dated(at) : r.at = at
  BY DEF Dated
<1>7. GrantRows(u, L, pl, at) \in Seq(GrantEntry)
  BY <1>5, <1>6, SeqMonotonic
<1>8. \A r \in RowsOf(GrantRows(u, L, pl, at)) : r.at = at
  BY <1>5, <1>6 DEF RowsOf
<1>9. QED BY <1>1, <1>7, <1>8

-----------------------------------------------------------------------------
(* Types *)

\* The fields of a call.
LEMMA CallIs ==
  ASSUME NEW c \in Call
  PROVE  /\ c.pc \in Pcs /\ c.op \in Ops
         /\ c.user \in User \cup {None} /\ c.ref \in {None} \cup Hotel \cup Draft \cup Pack \cup Pay
         /\ c.at \in Nat /\ c.second \in BOOLEAN /\ c.locked \in BOOLEAN
         /\ c.grants \in Seq(GrantEntry) /\ c.amount \in Int /\ c.was \in Entitlement
         /\ Shaped(c) /\ c \in CallFields
BY DEF Call, CallFields

\* A caller at rest.
LEMMA IdleCall == Idle \in Call
<1>1. <<>> \in Seq(GrantEntry)
  OBVIOUS
<1>2. NoEnt \in Entitlement
  BY DEF NoEnt, Entitlement
<1>3. Idle \in CallFields
  BY <1>1, <1>2 DEF Idle, CallFields, Pcs, Ops
<1>4. Shaped(Idle)
  BY DEF Idle, Shaped
<1>5. QED BY <1>3, <1>4 DEF Call

\* One caller goes on.
LEMMA NextCall ==
  ASSUME TypeInv, NEW p \in Proc, NEW c \in Call, Goes(p, c)
  PROVE  call' \in [Proc -> Call]
BY DEF TypeInv, Goes

\* One caller comes to its end.
LEMMA EndedCall ==
  ASSUME TypeInv, NEW p \in Proc, Ended(p)
  PROVE  call' \in [Proc -> Call]
BY IdleCall, NextCall DEF Ended

\* Rows posted to one account.
LEMMA PostedType ==
  ASSUME TypeInv, NEW u \in User, NEW rows \in Seq(Entry),
         ledger' = [ledger EXCEPT ![u] = Post(@, rows)]
  PROVE  /\ ledger' \in [User -> Seq(Entry)]
         /\ ledger'[u] = Post(ledger[u], rows)
         /\ \A v \in User : v # u => ledger'[v] = ledger[v]
<1>1. ledger \in [User -> Seq(Entry)] /\ ledger[u] \in Seq(Entry)
  BY DEF TypeInv
<1>2. Post(ledger[u], rows) \in Seq(Entry)
  BY <1>1, SumsPost
<1>3. QED BY <1>1, <1>2

\* The rows the transactions write besides their grants.
LEMMA WrittenRows ==
  ASSUME NEW at \in Nat
  PROVE  /\ \A h \in Hotel : NewRow("unlock", h, -UnlockCost, at) \in Entry
         /\ \A d \in Draft : NewRow("ai_draft", d, -DraftCost, at) \in Entry
         /\ \A k \in Pack : NewRow("pack", k, PackSize, at) \in Entry
         /\ \A n \in Nat, k \in Pack \cup Pay, kind \in Revokes \cup {"rebill_revoke_plan"} : n # 0 =>
              NewRow(kind, k, -n, at) \in Entry
         /\ \A h \in Hotel : NewRow("courtesy", h, UnlockCost, at) \in Entry
         /\ NewRow("admin_grant", None, 1, at) \in Entry
         /\ \A n \in Nat : n # 0 => NewRow("account_deletion", None, -n, at) \in Entry
<1>1. /\ {"unlock", "ai_draft", "pack", "rebill_revoke_plan", "courtesy", "admin_grant",
          "account_deletion"} \cup Revokes \subseteq Kinds
      /\ \A kind \in {"rebill_revoke_plan", "courtesy", "admin_grant", "account_deletion"} :
           kind \notin Spends \cup Revokes
      /\ "pack" \notin Spends \cup Revokes
      /\ Revokes \cap {"plan_monthly", "free_weekly", "pack"} = {}
  BY KindsAre DEF Spends, Revokes
<1>2. /\ -UnlockCost \in Int /\ -UnlockCost < 0 /\ -DraftCost \in Int /\ -DraftCost < 0
      /\ UnlockCost \in Int /\ UnlockCost # 0 /\ PackSize \in Int /\ PackSize > 0
      /\ 1 \in Int /\ 1 # 0
  BY Constants
<1>3. /\ \A n \in Nat : n # 0 => -n \in Int /\ -n # 0 /\ -n < 0
      /\ \A n \in Int : n < 0 \/ n > 0 => n # 0
  OBVIOUS
<1>4. \A h \in Hotel : NewRow("unlock", h, -UnlockCost, at) \in Entry
  BY <1>1, <1>2, <1>3, RefsAre, NewEntry
<1>5. \A d \in Draft : NewRow("ai_draft", d, -DraftCost, at) \in Entry
  BY <1>1, <1>2, <1>3, RefsAre, NewEntry
<1>6. \A k \in Pack : NewRow("pack", k, PackSize, at) \in Entry
  <2>1. Pack \subseteq RefsOf("pack")
    BY RefsAre DEF OfPack
  <2>2. QED BY <1>1, <1>2, <1>3, <2>1, NewEntry
<1>7. ASSUME NEW n \in Nat, NEW k \in Pack \cup Pay, NEW kind \in Revokes \cup {"rebill_revoke_plan"}, n # 0
      PROVE  NewRow(kind, k, -n, at) \in Entry
  <2>1. k \in RefsOf(kind) /\ kind \in Kinds /\ kind \notin {"plan_monthly", "free_weekly", "pack"}
    BY <1>1, RefsAre DEF OfPack
  <2>2. -n \in Int /\ -n # 0 /\ -n < 0
    BY <1>3, <1>7
  <2>3. QED BY <2>1, <2>2, NewEntry
<1>8. \A h \in Hotel : NewRow("courtesy", h, UnlockCost, at) \in Entry
  BY <1>1, <1>2, RefsAre, NewEntry
<1>9. NewRow("admin_grant", None, 1, at) \in Entry
  <2>1. None \in RefsOf("admin_grant")
    BY RefsAre
  <2>2. QED BY <1>1, <1>2, <2>1, NewEntry
<1>10. ASSUME NEW n \in Nat, n # 0 PROVE NewRow("account_deletion", None, -n, at) \in Entry
  <2>1. None \in RefsOf("account_deletion")
    BY RefsAre
  <2>2. -n \in Int /\ -n # 0
    BY <1>3, <1>10
  <2>3. QED BY <1>1, <2>1, <2>2, NewEntry
<1>11. QED BY <1>4, <1>5, <1>6, <1>7, <1>8, <1>9, <1>10

-----------------------------------------------------------------------------
(* What posting rows does to a ledger *)

\* The rows are about no pack.
NoPack(rows) == \A r \in RowsOf(rows) : r.kind \in OfPack => r.ref \notin Pack
\* No row is a spend.
NoSpend(rows) == \A r \in RowsOf(rows) : r.kind \notin Spends
\* The ledger holds a gift, or a pack.
Gift(L) == \E r \in RowsOf(L) : r.kind \in {"admin_grant", "courtesy", "pack"}

\* The rows that are new in M are of no pack.
Neutral(L, M) ==
  /\ \A k \in Pack : PackRest(M, k) = PackRest(L, k)
  /\ \A r \in RowsOf(M) : r.kind \in OfPack /\ r.ref \in Pack => r \in RowsOf(L)
\* No credit is spent between L and M.
Unspending(L, M) ==
  SpentTotal(M) = SpentTotal(L) /\ Granted(M) >= Granted(L) /\ RowsOf(L) \subseteq RowsOf(M)

\* Gifted, as a fact about the rows.
LEMMA GiftedIs ==
  ASSUME NEW u \in User
  PROVE  Gifted(u) <=> Gift(ledger[u])
BY DEF Gifted, Gift, RowsOf

\* What rows about no pack, or of no spend, add.
LEMMA RowSums ==
  ASSUME NEW rows \in Seq(Entry)
  PROVE  /\ Granted(rows) \in Nat
         /\ NoSpend(rows) => SpentTotal(rows) = 0
         /\ NoPack(rows) => \A k \in Pack : PackRest(rows, k) = 0
<1>1. \A i \in 1..Len(rows) : rows[i] \in Entry /\ rows[i] \in RowsOf(rows)
  BY ElementOfSeq DEF RowsOf
<1>2. Granted(rows) \in Nat
  <2> DEFINE s == Values(rows, GrantedOf)
  <2>1. s \in Seq(Int) /\ Len(s) = Len(rows)
    BY ValuesOf, ValuesSeq
  <2>2. \A i \in 1..Len(rows) : s[i] \in Nat
    BY <1>1, ValuesOf DEF Values
  <2> HIDE DEF s
  <2>3. Total(s) \in Nat
    BY <2>1, <2>2, TotalNat
  <2>4. QED BY <2>3, SumsAre DEF s
<1>3. ASSUME NoSpend(rows) PROVE SpentTotal(rows) = 0
  <2> DEFINE s == Values(rows, SpentOf)
  <2>1. s \in Seq(Int) /\ Len(s) = Len(rows)
    BY ValuesOf, ValuesSeq
  <2>2. \A i \in 1..Len(rows) : s[i] = 0
    BY <1>1, <1>3, ValuesOf DEF Values, NoSpend
  <2> HIDE DEF s
  <2>3. Total(s) = 0
    BY <2>1, <2>2, TotalZero
  <2>4. QED BY <2>3, SumsAre DEF s
<1>4. ASSUME NoPack(rows), NEW k \in Pack PROVE PackRest(rows, k) = 0
  <2> DEFINE s == Values(rows, RestOf(k))
  <2>1. s \in Seq(Int) /\ Len(s) = Len(rows)
    BY RestOfIs, ValuesSeq
  <2>2. \A i \in 1..Len(rows) : s[i] = 0
    BY <1>1, <1>4, RestOfIs DEF Values, NoPack
  <2> HIDE DEF s
  <2>3. Total(s) = 0
    BY <2>1, <2>2, TotalZero
  <2>4. QED BY <2>3, RestIs DEF s
<1>5. QED BY <1>2, <1>3, <1>4

\* Grants are about no pack, and spend nothing.
LEMMA GrantSums ==
  ASSUME NEW rows \in Seq(GrantEntry)
  PROVE  rows \in Seq(Entry) /\ NoPack(rows) /\ NoSpend(rows)
<1>1. rows \in Seq(Entry)
  BY SeqMonotonic DEF GrantEntry
<1>2. \A i \in 1..Len(rows) : rows[i].kind \in Grants
  BY ElementOfSeq DEF GrantEntry
<1>3. \A r \in RowsOf(rows) : r.kind \in Grants
  BY <1>2 DEF RowsOf
<1>4. Grants \cap OfPack = {} /\ Grants \cap Spends = {}
  BY DEF Grants, OfPack, Revokes, Spends
<1>5. QED BY <1>1, <1>3, <1>4 DEF NoPack, NoSpend

\* What one row is.
LEMMA OneRow ==
  ASSUME NEW r \in Entry
  PROVE  /\ <<r>> \in Seq(Entry) /\ RowsOf(<<r>>) = {r}
         /\ NoPack(<<r>>) <=> (r.kind \in OfPack => r.ref \notin Pack)
         /\ NoSpend(<<r>>) <=> r.kind \notin Spends
         /\ \A L \in Seq(Entry) : RowsOf(Post(L, <<r>>)) = RowsOf(L) \cup {r}
<1>1. <<r>> \in Seq(Entry) /\ Len(<<r>>) = 1 /\ <<r>>[1] = r
  OBVIOUS
<1>2. RowsOf(<<r>>) = {r}
  BY <1>1 DEF RowsOf
<1>3. ASSUME NEW L \in Seq(Entry) PROVE RowsOf(Post(L, <<r>>)) = RowsOf(L) \cup {r}
  BY PostSmall, InsertRows
<1>4. QED BY <1>1, <1>2, <1>3 DEF NoPack, NoSpend

\* What rows about no pack, or of no spend, leave alone.
LEMMA PostEffects ==
  ASSUME NEW L \in Seq(Entry), NEW rows \in Seq(Entry)
  PROVE  /\ Post(L, rows) \in Seq(Entry)
         /\ RowsOf(L) \subseteq RowsOf(Post(L, rows))
         /\ NoPack(rows) => Neutral(L, Post(L, rows))
         /\ NoSpend(rows) => Unspending(L, Post(L, rows))
<1> DEFINE M == Post(L, rows)
<1>1. /\ M \in Seq(Entry) /\ RowsOf(L) \subseteq RowsOf(M)
      /\ RowsOf(M) \subseteq RowsOf(L) \cup RowsOf(rows)
  BY PostRows
<1>2. /\ Granted(M) = Granted(L) + Granted(rows)
      /\ SpentTotal(M) = SpentTotal(L) + SpentTotal(rows)
      /\ \A k : PackRest(M, k) = PackRest(L, k) + PackRest(rows, k)
  BY SumsPost
<1>3. Granted(L) \in Int /\ SpentTotal(L) \in Int /\ \A k : PackRest(L, k) \in Int
  BY SumsAre, RestIs
<1>4. ASSUME NoPack(rows) PROVE Neutral(L, M)
  <2>1. \A k \in Pack : PackRest(M, k) = PackRest(L, k)
    BY <1>2, <1>3, <1>4, RowSums
  <2>2. \A r \in RowsOf(M) : r.kind \in OfPack /\ r.ref \in Pack => r \in RowsOf(L)
    BY <1>1, <1>4 DEF NoPack
  <2>3. QED BY <2>1, <2>2 DEF Neutral
<1>5. ASSUME NoSpend(rows) PROVE Unspending(L, M)
  <2>1. SpentTotal(rows) = 0 /\ Granted(rows) \in Nat
    BY <1>5, RowSums
  <2> HIDE DEF M
  <2>2. SpentTotal(M) = SpentTotal(L) /\ Granted(M) >= Granted(L)
    BY <1>2, <1>3, <2>1
  <2>3. QED BY <1>1, <2>2 DEF Unspending
<1>6. QED BY <1>1, <1>4, <1>5

\* A ledger left as it is.
LEMMA Same ==
  ASSUME NEW L \in Seq(Entry)
  PROVE  Neutral(L, L) /\ Unspending(L, L)
BY SumsAre DEF Neutral, Unspending

\* Two changes in a row.
LEMMA Through ==
  ASSUME NEW L \in Seq(Entry), NEW M \in Seq(Entry), NEW N \in Seq(Entry)
  PROVE  /\ Neutral(L, M) /\ Neutral(M, N) => Neutral(L, N)
         /\ Unspending(L, M) /\ Unspending(M, N) => Unspending(L, N)
<1>1. Granted(L) \in Int /\ Granted(M) \in Int /\ Granted(N) \in Int
  BY SumsAre
<1>2. QED BY <1>1 DEF Neutral, Unspending

-----------------------------------------------------------------------------
(* Steps that spend nothing, or write nothing of a pack *)

\* The step writes no row about a pack.
Quiet == \A u \in User : Neutral(ledger[u], ledger'[u])
\* The step spends nothing, and gives a closed account nothing but by hand.
Frugal ==
  \A u \in User : /\ Unspending(ledger[u], ledger'[u])
                  /\ u \in closed => Gift(ledger'[u]) \/ Balance(ledger'[u]) <= Balance(ledger[u])

\* A step that writes no row.
LEMMA Untouched ==
  ASSUME TypeInv, ledger' = ledger
  PROVE  Quiet /\ Frugal
<1>1. \A u \in User : ledger[u] \in Seq(Entry)
  BY DEF TypeInv
<1>2. \A u \in User : Balance(ledger[u]) \in Int
  BY <1>1, SumsAre
<1>3. QED BY <1>1, <1>2, Same DEF Quiet, Frugal

\* A step that posts rows to one account.
LEMMA Posting ==
  ASSUME TypeInv, NEW u \in User, NEW rows \in Seq(Entry),
         ledger' = [ledger EXCEPT ![u] = Post(@, rows)]
  PROVE  /\ ledger' \in [User -> Seq(Entry)]
         /\ NoPack(rows) => Quiet
         /\ NoSpend(rows) /\ (u \in closed => Gift(ledger'[u]) \/ Balance(rows) <= 0) => Frugal
<1>1. /\ ledger' \in [User -> Seq(Entry)]
      /\ ledger'[u] = Post(ledger[u], rows)
      /\ \A v \in User : v # u => ledger'[v] = ledger[v]
  BY PostedType
<1>2. \A v \in User : ledger[v] \in Seq(Entry)
  BY DEF TypeInv
<1>3. ASSUME NoPack(rows) PROVE Quiet
  <2>1. \A v \in User : Neutral(ledger[v], ledger'[v])
    BY <1>1, <1>2, <1>3, PostEffects, Same
  <2>2. QED BY <2>1 DEF Quiet
<1>4. ASSUME NoSpend(rows), u \in closed => Gift(ledger'[u]) \/ Balance(rows) <= 0 PROVE Frugal
  <2>1. \A v \in User : Unspending(ledger[v], ledger'[v])
    BY <1>1, <1>2, <1>4, PostEffects, Same
  <2>2. /\ \A v \in User : Balance(ledger[v]) \in Int
        /\ Balance(ledger'[u]) = Balance(ledger[u]) + Balance(rows) /\ Balance(rows) \in Int
    BY <1>1, <1>2, SumsAre, SumsPost
  <2>3. u \in closed => Gift(ledger'[u]) \/ Balance(ledger'[u]) <= Balance(ledger[u])
    BY <1>4, <2>2
  <2>4. \A v \in User : v # u => Balance(ledger'[v]) <= Balance(ledger[v])
    BY <1>1, <2>2
  <2>5. QED BY <2>1, <2>3, <2>4 DEF Frugal
<1>5. QED BY <1>1, <1>3, <1>4

-----------------------------------------------------------------------------
(* Every action keeps the types *)

\* A caller under way, its account and its plan.
LEMMA CallTyped ==
  ASSUME TypeInv, NEW p \in Proc
  PROVE  /\ call[p] \in Call
         /\ call[p].pc # "idle" =>
              /\ call[p].user \in User /\ call[p].at \in Nat
              /\ ledger[call[p].user] \in Seq(Entry) /\ plan[call[p].user] \in Entitlement
<1>1. call[p] \in Call
  BY DEF TypeInv
<1>2. call[p].pc # "idle" => call[p].user \in User
  BY <1>1, CallIs DEF Shaped
<1>3. QED BY <1>1, <1>2, CallIs DEF TypeInv

\* An account.
LEMMA UserTyped ==
  ASSUME TypeInv, NEW u \in User
  PROVE  ledger[u] \in Seq(Entry) /\ plan[u] \in Entitlement /\ now \in Nat
         /\ Balance(ledger[u]) \in Int
BY SumsAre DEF TypeInv

\* The grants of a transaction under way.
LEMMA GrantsOf ==
  ASSUME TypeInv, NEW p \in Proc, call[p].pc # "idle"
  PROVE  LET rows == GrantRows(call[p].user, ledger[call[p].user], plan[call[p].user], call[p].at)
         IN  /\ rows \in Seq(GrantEntry) /\ rows \in Seq(Entry)
             /\ NoPack(rows) /\ NoSpend(rows)
             /\ call[p].user \in closed => rows = <<>> /\ Balance(rows) <= 0
<1> DEFINE rows == GrantRows(call[p].user, ledger[call[p].user], plan[call[p].user], call[p].at)
<1>1. rows \in Seq(GrantEntry) /\ (call[p].user \in closed => rows = <<>>)
  BY CallTyped, GrantRowsAre
<1> HIDE DEF rows
<1>2. Balance(<<>>) = 0
  BY SumsSmall
<1>3. QED BY <1>1, <1>2, GrantSums DEF rows

\* Settlement keeps the type of the plans.
LEMMA SettledType ==
  ASSUME TypeInv, NEW u \in User, NEW t \in Nat,
         plan' = [plan EXCEPT ![u] = Settled(u, @, t)]
  PROVE  plan' \in [User -> Entitlement]
<1>1. Settled(u, plan[u], t) \in Entitlement
  BY UserTyped, WindowTypes
<1>2. plan \in [User -> Entitlement]
  BY DEF TypeInv
<1>3. QED BY <1>1, <1>2

-----------------------------------------------------------------------------
(* Every action keeps the types *)

\* The call that Begin starts.
NewCall(u, op, ref, at) ==
  [Idle EXCEPT !.pc = "begun", !.op = op, !.user = u, !.ref = ref, !.at = at]
\* The calls that begin.
Starts(u, op, ref) ==
  \/ op \in {"refresh", "admin_grant", "delete"} /\ ref = None
  \/ op \in {"unlock", "review"} /\ ref \in Hotel
  \/ op = "draft" /\ ref \in Draft
  \/ op \in Payments /\ ref \in Pack \cup Pay

\* Begin.
LEMMA BeginType ==
  ASSUME TypeInv, NEW p \in Proc, NEW u \in User, NEW op, NEW ref, Starts(u, op, ref),
         Begin(p, u, op, ref)
  PROVE  TypeInv' /\ call'[p] = NewCall(u, op, ref, now) /\ Quiet /\ Frugal
<1> DEFINE c == [Idle EXCEPT !.pc = "begun", !.op = op, !.user = u, !.ref = ref, !.at = now]
<1>1. now \in Nat /\ ref \in {None} \cup Hotel \cup Draft \cup Pack \cup Pay /\ op \in Ops
  BY DEF TypeInv, Starts, Ops, Payments, Reversals
<1>2. /\ c.pc = "begun" /\ c.op = op /\ c.user = u /\ c.ref = ref
      /\ c \in CallFields
  <2>1. Idle \in CallFields
    BY IdleCall, CallIs
  <2>2. "begun" \in Pcs
    BY DEF Pcs
  <2>3. QED BY <1>1, <2>1, <2>2 DEF CallFields
<1> HIDE DEF c
<1>3. Shaped(c)
  BY <1>2 DEF Shaped, Starts, Payments, Reversals
<1>4. c \in Call
  BY <1>2, <1>3 DEF Call
<1>5. Goes(p, c)
  BY DEF Begin, c
<1>6. call' \in [Proc -> Call]
  BY <1>4, <1>5, NextCall
<1>7. call'[p] = c
  BY <1>5 DEF Goes, TypeInv
<1>8. call'[p] = NewCall(u, op, ref, now)
  BY <1>7 DEF NewCall, c
<1>9. Quiet /\ Frugal
  BY Untouched DEF Begin
<1>10. now' \in Nat
  BY <1>1 DEF Begin
<1>11. QED BY <1>6, <1>8, <1>9, <1>10 DEF TypeInv, Begin

\* Refresh.
LEMMA RefreshType ==
  ASSUME TypeInv, NEW p \in Proc, Refresh(p)
  PROVE  TypeInv' /\ Quiet /\ Frugal
<1> DEFINE c == call[p]
           rows == GrantRows(c.user, ledger[c.user], plan[c.user], c.at)
<1>1. c.pc # "idle" /\ c.user \in User /\ c.at \in Nat
  BY CallTyped DEF Refresh
<1>2. rows \in Seq(Entry) /\ NoPack(rows) /\ NoSpend(rows)
      /\ (c.user \in closed => Balance(rows) <= 0)
  BY <1>1, GrantsOf
<1>3. /\ ledger' = [ledger EXCEPT ![c.user] = Post(@, rows)]
      /\ plan' = [plan EXCEPT ![c.user] = Settled(c.user, @, c.at)]
      /\ Ended(p)
      /\ UNCHANGED <<now, effect, closed, owned, cache, saved, reported, paid>>
  BY DEF Refresh
<1> HIDE DEF rows
<1>4. ledger' \in [User -> Seq(Entry)] /\ Quiet /\ Frugal
  BY <1>1, <1>2, <1>3, Posting
<1>5. plan' \in [User -> Entitlement]
  BY <1>1, <1>3, SettledType
<1>6. call' \in [Proc -> Call]
  BY <1>3, EndedCall
<1>7. QED BY <1>3, <1>4, <1>5, <1>6 DEF TypeInv

\* EnterUnlock, which writes grants, or keeps them for its commit.
LEMMA EnterUnlockType ==
  ASSUME TypeInv, NEW p \in Proc, EnterUnlock(p)
  PROVE  TypeInv' /\ Quiet /\ Frugal
<1> DEFINE c == call[p]
           rows == GrantRows(c.user, ledger[c.user], plan[c.user], c.at)
           L == Post(ledger[c.user], rows)
           e == [c EXCEPT !.pc = "entered", !.locked = c.user \notin closed,
                          !.grants = rows,
                          !.amount = IF cache[c.ref] = "found" THEN 1 ELSE 0]
           l == [c EXCEPT !.pc = "lookup"]
<1>1. c.pc # "idle" /\ c.user \in User /\ c.at \in Nat /\ c.op = "unlock" /\ c \in Call /\ c \in CallFields
  BY CallTyped, CallIs DEF EnterUnlock
<1>2. rows \in Seq(Entry) /\ rows \in Seq(GrantEntry) /\ NoPack(rows) /\ NoSpend(rows)
      /\ (c.user \in closed => Balance(rows) <= 0)
  BY <1>1, GrantsOf
<1>3. /\ plan' = [plan EXCEPT ![c.user] = Settled(c.user, @, c.at)]
      /\ UNCHANGED <<now, effect, closed, owned, cache, reported, paid>>
      /\ \/ Goes(p, e) /\ UNCHANGED <<ledger, saved>>
         \/ ledger' = [ledger EXCEPT ![c.user] = L] /\ Goes(p, l) /\ UNCHANGED saved
         \/ ledger' = [ledger EXCEPT ![c.user] = L] /\ Ended(p) /\ UNCHANGED saved
  BY DEF EnterUnlock
<1>4. e \in Call /\ l \in Call
  <2> DEFINE b == c.user \notin closed
             n == IF cache[c.ref] = "found" THEN 1 ELSE 0
  <2>1. b \in BOOLEAN /\ n \in Int
    OBVIOUS
  <2> HIDE DEF rows, b, n
  <2>2. Shaped(c) /\ Shaped([c EXCEPT !.pc = "entered", !.locked = b, !.grants = rows, !.amount = n])
        /\ Shaped([c EXCEPT !.pc = "lookup"])
    BY <1>1, CallIs DEF Shaped, Payments, Reversals
  <2>3. [c EXCEPT !.pc = "entered", !.locked = b, !.grants = rows, !.amount = n] \in Call
    BY <1>1, <1>2, <2>1, <2>2 DEF Call, CallFields, Pcs
  <2>4. [c EXCEPT !.pc = "lookup"] \in Call
    BY <1>1, <2>2 DEF Call, CallFields, Pcs
  <2>5. QED BY <2>3, <2>4 DEF b, n
<1>5. call' \in [Proc -> Call]
  <2> HIDE DEF e, l
  <2>1. QED BY <1>3, <1>4, NextCall, EndedCall
<1>6. plan' \in [User -> Entitlement]
  BY <1>1, <1>3, SettledType
<1>7. ledger' \in [User -> Seq(Entry)] /\ Quiet /\ Frugal
  <2> HIDE DEF rows, e, l
  <2>1. CASE UNCHANGED ledger
    BY <2>1, Untouched DEF TypeInv
  <2>2. CASE ledger' = [ledger EXCEPT ![c.user] = L]
    <3>1. ledger' = [ledger EXCEPT ![c.user] = Post(@, rows)]
      BY <2>2
    <3>2. QED BY <1>1, <1>2, <3>1, Posting
  <2>3. QED BY <1>3, <2>1, <2>2
<1>8. QED BY <1>3, <1>5, <1>6, <1>7 DEF TypeInv

\* Lookup, which caches an answer.
LEMMA LookupType ==
  ASSUME TypeInv, NEW p \in Proc, NEW answer \in {"found", "not_found"}, Lookup(p, answer)
  PROVE  TypeInv' /\ Quiet /\ Frugal
<1> DEFINE c == call[p]
           b == [c EXCEPT !.pc = "begun", !.at = now, !.second = TRUE]
<1>1. c.pc = "lookup" /\ c \in Call /\ c \in CallFields /\ c.op = "unlock" /\ now \in Nat
  BY CallTyped, CallIs DEF Lookup, Shaped, TypeInv
<1>2. Shaped(b)
  BY <1>1, CallIs DEF Shaped, Payments, Reversals
<1>3. b \in Call
  BY <1>1, <1>2 DEF Call, CallFields, Pcs
<1>4. call' \in [Proc -> Call]
  BY <1>3, NextCall DEF Lookup
<1>5. cache' \in [Hotel -> {"none", "found", "not_found", "invalid"}]
  BY DEF Lookup, TypeInv
<1>6. Quiet /\ Frugal
  BY Untouched DEF Lookup
<1>7. QED BY <1>4, <1>5, <1>6 DEF TypeInv, Lookup

\* EnterDraft, which writes grants, or keeps them for its commit.
LEMMA EnterDraftType ==
  ASSUME TypeInv, NEW p \in Proc, EnterDraft(p)
  PROVE  TypeInv' /\ Quiet /\ Frugal
<1> DEFINE c == call[p]
           rows == GrantRows(c.user, ledger[c.user], plan[c.user], c.at)
           L == Post(ledger[c.user], rows)
           e == [c EXCEPT !.pc = "entered", !.locked = c.user \notin closed, !.grants = rows]
<1>1. c.pc # "idle" /\ c.user \in User /\ c.at \in Nat /\ c.op = "draft" /\ c \in Call /\ c \in CallFields
  BY CallTyped, CallIs DEF EnterDraft
<1>2. rows \in Seq(Entry) /\ rows \in Seq(GrantEntry) /\ NoPack(rows) /\ NoSpend(rows)
      /\ (c.user \in closed => Balance(rows) <= 0)
  BY <1>1, GrantsOf
<1>3. /\ UNCHANGED <<now, effect, closed, owned, cache, saved, reported, paid>>
      /\ \/ plan' = plan \/ plan' = [plan EXCEPT ![c.user] = Settled(c.user, @, c.at)]
      /\ \/ Goes(p, e) /\ UNCHANGED ledger
         \/ Ended(p) /\ UNCHANGED ledger
         \/ ledger' = [ledger EXCEPT ![c.user] = L] /\ Ended(p)
  BY DEF EnterDraft
<1>4. e \in Call
  <2> DEFINE b == c.user \notin closed
  <2>1. b \in BOOLEAN
    OBVIOUS
  <2> HIDE DEF rows, b
  <2>2. Shaped([c EXCEPT !.pc = "entered", !.locked = b, !.grants = rows])
    BY <1>1, CallIs DEF Shaped, Payments, Reversals
  <2>3. [c EXCEPT !.pc = "entered", !.locked = b, !.grants = rows] \in Call
    BY <1>1, <1>2, <2>1, <2>2 DEF Call, CallFields, Pcs
  <2>4. QED BY <2>3 DEF b
<1>5. call' \in [Proc -> Call]
  <2> HIDE DEF e
  <2>1. QED BY <1>3, <1>4, NextCall, EndedCall
<1>6. plan' \in [User -> Entitlement]
  BY <1>1, <1>3, SettledType DEF TypeInv
<1>7. ledger' \in [User -> Seq(Entry)] /\ Quiet /\ Frugal
  <2> HIDE DEF rows, e
  <2>1. CASE UNCHANGED ledger
    BY <2>1, Untouched DEF TypeInv
  <2>2. CASE ledger' = [ledger EXCEPT ![c.user] = L]
    <3>1. ledger' = [ledger EXCEPT ![c.user] = Post(@, rows)]
      BY <2>2
    <3>2. QED BY <1>1, <1>2, <3>1, Posting
  <2>3. QED BY <1>3, <2>1, <2>2
<1>8. QED BY <1>3, <1>5, <1>6, <1>7 DEF TypeInv

\* A caller dies and its transaction is rolled back.
LEMMA DieType ==
  ASSUME TypeInv, NEW p \in Proc, Die(p)
  PROVE  TypeInv' /\ Quiet /\ Frugal
BY EndedCall, Untouched DEF Die, TypeInv

\* Time goes on.
LEMMA TickType ==
  ASSUME TypeInv, Tick
  PROVE  TypeInv' /\ Quiet /\ Frugal
BY Untouched DEF Tick, TypeInv

\* The pipeline and the reports.
LEMMA SavesType ==
  ASSUME TypeInv, NEW u \in User, NEW h \in Hotel, SaveHotel(u, h) \/ CloseItem(u, h) \/ Report(u, h)
  PROVE  TypeInv' /\ Quiet /\ Frugal
<1>1. UNCHANGED <<now, ledger, plan, effect, closed, owned, cache, paid, call>>
  BY DEF SaveHotel, CloseItem, Report
<1>2. saved' \in [User -> SUBSET Hotel]
  <2>1. saved' = saved \/ saved' = [saved EXCEPT ![u] = @ \cup {h}] \/ saved' = [saved EXCEPT ![u] = @ \ {h}]
    BY DEF SaveHotel, CloseItem, Report
  <2>2. saved \in [User -> SUBSET Hotel]
    BY DEF TypeInv
  <2>3. saved[u] \cup {h} \in SUBSET Hotel /\ saved[u] \ {h} \in SUBSET Hotel
    BY <2>2
  <2>4. QED BY <2>1, <2>2, <2>3
<1>3. reported' \subseteq User \X Hotel
  <2>1. reported' = reported \/ reported' = reported \cup {<<u, h>>}
    BY DEF SaveHotel, CloseItem, Report
  <2>2. QED BY <2>1 DEF TypeInv
<1>4. Quiet /\ Frugal
  BY <1>1, Untouched
<1>5. QED BY <1>1, <1>2, <1>3, <1>4 DEF TypeInv

\* What the commit of a spend does to the sums of its account.
Commits(p) ==
  LET u == call[p].user
      L == ledger[u]
      M == ledger'[u]
  IN  /\ SpentTotal(M) \in {SpentTotal(L), SpentTotal(L) + Cost(p)}
      /\ Granted(M) = Granted(L) + Granted(call[p].grants)
      /\ RowsOf(L) \subseteq RowsOf(M)
      /\ call[p].grants = <<>> => Balance(M) <= Balance(L)
      /\ \A v \in User : v # u => ledger'[v] = ledger[v]

\* The rows of a commit: the grants, and the spend unless the pipeline is full by then.
LEMMA CommitSums ==
  ASSUME TypeInv, NEW p \in Proc, call[p].pc # "idle", NEW row \in Entry,
         row.kind \in Spends, row.delta = -Cost(p), NEW rows,
         rows = call[p].grants \/ rows = call[p].grants \o <<row>>,
         ledger' = [ledger EXCEPT ![call[p].user] = Post(@, rows)]
  PROVE  /\ ledger' \in [User -> Seq(Entry)]
         /\ Quiet /\ Commits(p)
<1> DEFINE u == call[p].user
           g == call[p].grants
           L == ledger[u]
           M == Post(L, rows)
<1>1. u \in User /\ L \in Seq(Entry) /\ g \in Seq(GrantEntry)
  BY CallTyped, CallIs
<1> HIDE DEF u
<1>2. g \in Seq(Entry) /\ NoPack(g) /\ NoSpend(g) /\ SpentTotal(g) = 0 /\ Granted(g) \in Nat
      /\ Balance(g) \in Int /\ Balance(<<>>) = 0
  BY <1>1, GrantSums, RowSums, SumsAre, SumsSmall
<1> HIDE DEF g, L
<1>3. PICK cost \in Nat : cost = Cost(p) /\ cost > 0
  BY Constants DEF Cost
<1>4. AtLeast0(-cost) = 0 /\ -(-cost) = cost /\ row.kind \notin OfPack
  BY <1>3 DEF AtLeast0, Spends, OfPack, Revokes
<1>5. /\ <<row>> \in Seq(Entry) /\ RowsOf(<<row>>) = {row}
      /\ Balance(<<row>>) = -cost /\ Granted(<<row>>) = 0 /\ SpentTotal(<<row>>) = cost
  BY <1>3, <1>4, OneRow, SumsSmall
<1>6. g \o <<row>> \in Seq(Entry)
      /\ Balance(g \o <<row>>) = Balance(g) + Balance(<<row>>)
      /\ Granted(g \o <<row>>) = Granted(g) + Granted(<<row>>)
      /\ SpentTotal(g \o <<row>>) = SpentTotal(g) + SpentTotal(<<row>>)
      /\ \A k : PackRest(g \o <<row>>, k) = PackRest(g, k) + PackRest(<<row>>, k)
  BY <1>2, <1>5, SumsConcat
<1>7. /\ rows \in Seq(Entry) /\ Granted(rows) = Granted(g) /\ SpentTotal(rows) \in {0, cost}
      /\ Balance(rows) <= Balance(g) /\ Balance(rows) \in Int
  <2>1. rows = g \/ rows = g \o <<row>>
    BY DEF g
  <2>2. CASE rows = g
    BY <1>2, <2>2
  <2>3. CASE rows = g \o <<row>>
    BY <1>2, <1>3, <1>5, <1>6, <2>3
  <2>4. QED BY <2>1, <2>2, <2>3
<1>8. NoPack(rows)
  <2>1. RowsOf(g \o <<row>>) = RowsOf(g) \cup {row}
    <3>1. PICK n \in Nat : n = Len(g)
      BY <1>2
    <3>2. /\ Len(g \o <<row>>) = n + 1
          /\ \A i \in 1..n : (g \o <<row>>)[i] = g[i]
          /\ (g \o <<row>>)[n + 1] = row
      BY <1>2, <1>5, <3>1, ConcatProperties
    <3>3. \A i \in 1..(n + 1) : i \in 1..n \/ i = n + 1
      BY <3>1
    <3>4. RowsOf(g) = {g[i] : i \in 1..n}
          /\ RowsOf(g \o <<row>>) = {(g \o <<row>>)[i] : i \in 1..(n + 1)}
      BY <3>1, <3>2 DEF RowsOf
    <3>5. n + 1 \in 1..(n + 1) /\ \A i \in 1..n : i \in 1..(n + 1)
      BY <3>1
    <3>6. QED BY <3>2, <3>3, <3>4, <3>5
  <2>2. RowsOf(rows) \subseteq RowsOf(g) \cup {row}
    BY <2>1 DEF g
  <2>3. QED BY <1>2, <1>4, <2>2 DEF NoPack
<1>9. ledger' = [ledger EXCEPT ![u] = Post(@, rows)]
  BY DEF u
<1>10. ledger' \in [User -> Seq(Entry)] /\ Quiet
  BY <1>1, <1>7, <1>8, <1>9, Posting
<1>11. ledger'[u] = M /\ \A v \in User : v # u => ledger'[v] = ledger[v]
  BY <1>1, <1>7, <1>9, PostedType DEF L
<1>12. RowsOf(L) \subseteq RowsOf(M)
  BY <1>1, <1>7, PostEffects
<1>13. /\ Balance(M) = Balance(L) + Balance(rows)
       /\ Granted(M) = Granted(L) + Granted(rows)
       /\ SpentTotal(M) = SpentTotal(L) + SpentTotal(rows)
       /\ Balance(L) \in Int /\ SpentTotal(L) \in Int
  BY <1>1, <1>7, SumsPost, SumsAre
<1>14. Commits(p)
  <2> HIDE DEF M
  <2>1. SpentTotal(M) \in {SpentTotal(L), SpentTotal(L) + cost}
    BY <1>3, <1>7, <1>13
  <2>2. Granted(M) = Granted(L) + Granted(g)
    BY <1>7, <1>13
  <2>3. g = <<>> => Balance(M) <= Balance(L)
    BY <1>2, <1>7, <1>13
  <2>4. QED BY <1>3, <1>11, <1>12, <2>1, <2>2, <2>3 DEF Commits, u, g, L
<1>15. QED BY <1>10, <1>14

\* CommitUnlock.
LEMMA CommitUnlockType ==
  ASSUME TypeInv, NEW p \in Proc, CommitUnlock(p)
  PROVE  TypeInv' /\ Quiet /\ Commits(p)
<1> DEFINE c == call[p]
           row == NewRow("unlock", c.ref, -UnlockCost, c.at)
           full == c.amount = 1 /\ SaveResult(c.user, c.ref, c.at) = "limit_reached"
           debit == IF full THEN <<>> ELSE <<row>>
<1>1. c.pc = "entered" /\ c.op = "unlock" /\ c \in Call /\ c.user \in User /\ c.ref \in Hotel /\ c.at \in Nat
  BY CallTyped, CallIs DEF CommitUnlock, Shaped
<1>2. row \in Entry /\ row.kind \in Spends /\ row.delta = -Cost(p)
  BY <1>1, WrittenRows DEF NewRow, Spends, Cost
<1>3. c.grants \o <<>> = c.grants
  BY <1>1, CallIs
<1>4. c.grants \o debit = c.grants \/ c.grants \o debit = c.grants \o <<row>>
  BY <1>3
<1>5. ledger' = [ledger EXCEPT ![c.user] = Post(@, c.grants \o debit)]
  BY DEF CommitUnlock
<1>6. /\ owned' = owned \/ owned' = owned \cup {<<c.user, c.ref>>}
      /\ saved' = saved \/ saved' = [saved EXCEPT ![c.user] = @ \cup {c.ref}]
      /\ Ended(p)
      /\ UNCHANGED <<now, plan, effect, closed, cache, reported, paid>>
  BY DEF CommitUnlock
<1> HIDE DEF row, full
<1>7. ledger' \in [User -> Seq(Entry)] /\ Quiet /\ Commits(p)
  <2> HIDE DEF debit
  <2>1. QED BY <1>1, <1>2, <1>4, <1>5, CommitSums
<1>8. saved' \in [User -> SUBSET Hotel]
  <2>1. saved \in [User -> SUBSET Hotel]
    BY DEF TypeInv
  <2>2. saved[c.user] \cup {c.ref} \in SUBSET Hotel
    BY <1>1, <2>1
  <2>3. QED BY <1>6, <2>1, <2>2
<1>9. call' \in [Proc -> Call]
  BY <1>6, EndedCall
<1>10. owned' \subseteq User \X Hotel
  BY <1>1, <1>6 DEF TypeInv
<1>11. QED BY <1>6, <1>7, <1>8, <1>9, <1>10 DEF TypeInv

\* CommitDraft.
LEMMA CommitDraftType ==
  ASSUME TypeInv, NEW p \in Proc, CommitDraft(p)
  PROVE  TypeInv' /\ Quiet /\ Commits(p)
<1> DEFINE c == call[p]
           row == NewRow("ai_draft", c.ref, -DraftCost, c.at)
<1>1. c.pc = "entered" /\ c.op = "draft" /\ c \in Call /\ c.user \in User /\ c.at \in Nat
      /\ c.ref \in Draft /\ c.grants \in Seq(GrantEntry)
  BY CallTyped, CallIs DEF CommitDraft, Shaped
<1>2. row \in Entry /\ row.kind \in Spends /\ row.delta = -Cost(p)
  BY <1>1, WrittenRows DEF NewRow, Spends, Cost
<1>3. c.grants \in Seq(Entry)
  BY <1>1, GrantSums
<1>4. Append(c.grants, row) = c.grants \o <<row>>
  BY <1>2, <1>3, AppendIsConcat
<1>5. ledger' = [ledger EXCEPT ![c.user] = Post(@, c.grants \o <<row>>)]
  BY <1>4 DEF CommitDraft
<1> HIDE DEF row
<1>6. ledger' \in [User -> Seq(Entry)] /\ Quiet /\ Commits(p)
  BY <1>1, <1>2, <1>5, CommitSums
<1>7. Ended(p) /\ UNCHANGED <<now, plan, effect, closed, owned, cache, saved, reported, paid>>
  BY DEF CommitDraft
<1>8. call' \in [Proc -> Call]
  BY <1>7, EndedCall
<1>9. QED BY <1>6, <1>7, <1>8 DEF TypeInv

\* EnterPayment, which reads the window and the grants.
LEMMA EnterPaymentType ==
  ASSUME TypeInv, NEW p \in Proc, EnterPayment(p)
  PROVE  TypeInv' /\ Quiet /\ Frugal
<1> DEFINE c == call[p]
           new == [c EXCEPT !.was = plan[c.user]]
           key == KeyOf(c.user, Window(new), Period(Window(new), c.at))
           n == IF c.ref \in Pay /\ Has(ledger[c.user], "plan_monthly", key) THEN 1 ELSE 0
           e == [new EXCEPT !.pc = "entered", !.amount = n]
<1>1. c.pc # "idle" /\ c \in Call /\ c \in CallFields /\ c.op = "pay" /\ plan[c.user] \in Entitlement
      /\ n \in Int /\ c.user \in User
  BY CallTyped, CallIs DEF EnterPayment
<1>2. Ended(p) \/ Goes(p, e)
  BY DEF EnterPayment
<1> HIDE DEF n
<1>3. e \in CallFields
  BY <1>1 DEF CallFields, Pcs
<1>4. Shaped(c) /\ e.op = "pay" /\ e.user = c.user /\ e.ref = c.ref /\ e.pc = "entered"
  BY <1>1, CallIs DEF CallFields
<1> HIDE DEF e
<1>5. Shaped(e)
  BY <1>1, <1>4 DEF Shaped, Payments, Reversals
<1>6. call' \in [Proc -> Call]
  BY <1>2, <1>3, <1>5, NextCall, EndedCall DEF Call
<1>7. Quiet /\ Frugal
  BY Untouched DEF EnterPayment
<1>8. QED BY <1>6, <1>7 DEF TypeInv, EnterPayment

\* A credit given: a gift, or a pack.
LEMMA GiftType ==
  ASSUME TypeInv, NEW u \in User, NEW row \in Entry, row.kind \in {"admin_grant", "courtesy", "pack"},
         ledger' = [ledger EXCEPT ![u] = Post(@, <<row>>)]
  PROVE  /\ ledger' \in [User -> Seq(Entry)] /\ Frugal
         /\ row.kind # "pack" => Quiet
<1>1. <<row>> \in Seq(Entry) /\ NoSpend(<<row>>) /\ (row.kind # "pack" => NoPack(<<row>>))
  BY OneRow DEF OfPack, Revokes, Spends
<1>2. ledger'[u] = Post(ledger[u], <<row>>) /\ ledger[u] \in Seq(Entry)
  BY <1>1, PostedType, UserTyped
<1>3. row \in RowsOf(ledger'[u])
  BY <1>2, OneRow
<1>4. Gift(ledger'[u])
  BY <1>3 DEF Gift
<1>5. QED BY <1>1, <1>4, Posting

\* GrantPack.
LEMMA GrantPackType ==
  ASSUME TypeInv, NEW p \in Proc, GrantPack(p)
  PROVE  TypeInv' /\ Frugal
<1> DEFINE c == call[p]
           row == NewRow("pack", c.ref, PackSize, c.at)
<1>1. c.pc # "idle" /\ c.user \in User /\ c.at \in Nat /\ c.ref \in Pack
  BY CallTyped DEF GrantPack
<1>2. row \in Entry /\ row.kind = "pack"
  BY <1>1, WrittenRows DEF NewRow
<1>3. ledger' = [ledger EXCEPT ![c.user] = Post(@, <<row>>)]
  BY DEF GrantPack
<1> HIDE DEF row
<1>4. ledger' \in [User -> Seq(Entry)] /\ Frugal
  BY <1>1, <1>2, <1>3, GiftType
<1>5. paid' \in [Pack -> {"none", "refused", "granted", "revoked"}]
  BY <1>1 DEF TypeInv, GrantPack
<1>6. call' \in [Proc -> Call]
  BY EndedCall DEF GrantPack
<1>7. QED BY <1>4, <1>5, <1>6 DEF TypeInv, GrantPack

\* GrantPlan.
LEMMA GrantPlanType ==
  ASSUME TypeInv, NEW p \in Proc, GrantPlan(p)
  PROVE  TypeInv' /\ Quiet /\ Frugal
<1> DEFINE c == call[p]
           u == c.user
           new == Window(c)
           rows == GrantRows(u, ledger[u], new, c.at)
           key == Claimed(effect, u, new, c.amount = 1, c.at)
           x == [state |-> "granted", order |-> u, start |-> new.expires - Length(u),
                 end |-> new.expires, key |-> key]
<1>1. /\ c.pc # "idle" /\ u \in User /\ c.at \in Nat /\ c.ref \in Pay /\ c.was \in Entitlement
      /\ ledger[u] \in Seq(Entry)
  BY CallTyped, CallIs DEF GrantPlan
<1>2. Length(u) \in Nat
  BY Constants DEF Length
<1>3. new \in Entitlement
  BY <1>1, <1>2, WindowTypes DEF Window
<1>4. /\ ledger' = [ledger EXCEPT ![u] = Post(@, rows)]
      /\ plan' = [plan EXCEPT ![u] = new]
      /\ effect' = [effect EXCEPT ![c.ref] = x]
      /\ Ended(p)
      /\ UNCHANGED <<now, closed, owned, cache, saved, reported, paid>>
  BY DEF GrantPlan
<1> HIDE DEF new
<1>5. key \in Periodic
  BY <1>1, <1>3, ClaimedType
<1>6. new.expires - Length(u) \in Int /\ new.expires \in Int
  BY <1>2, <1>3, EntFields
<1> HIDE DEF key
<1>7. x \in Effect
  BY <1>1, <1>5, <1>6 DEF Effect
<1> HIDE DEF x
<1>8. rows \in Seq(Entry) /\ NoPack(rows) /\ NoSpend(rows) /\ (u \in closed => Balance(rows) <= 0)
  <2>1. rows \in Seq(GrantEntry) /\ (u \in closed => rows = <<>>)
    BY <1>1, <1>3, GrantRowsAre
  <2> HIDE DEF rows
  <2>2. QED BY <2>1, GrantSums, SumsSmall
<1> HIDE DEF rows
<1>9. ledger' \in [User -> Seq(Entry)] /\ Quiet /\ Frugal
  BY <1>1, <1>4, <1>8, Posting
<1>10. plan' \in [User -> Entitlement] /\ effect' \in [Pay -> Effect]
  BY <1>1, <1>3, <1>4, <1>7 DEF TypeInv
<1>11. call' \in [Proc -> Call]
  BY <1>4, EndedCall
<1>12. QED BY <1>4, <1>9, <1>10, <1>11 DEF TypeInv

\* A reversal takes an amount that is not negative.
LEMMA TakeNat ==
  ASSUME TypeInv, NEW u \in User, NEW op, NEW k
  PROVE  Take(u, op, k) \in Nat
<1> DEFINE L == ledger[u]
<1>1. L \in Seq(Entry) /\ Balance(L) \in Int
  BY UserTyped
<1>2. AtLeast0(Balance(L)) \in Nat /\ \A m \in Int : AtLeast0(m) \in Nat
  BY <1>1 DEF AtLeast0
<1>3. \A m \in Nat, n \in Nat : Least(m, n) \in Nat
  BY TakenNat
<1>4. UnusedPlan(L, Keys) \in Nat /\ \A kind, ref : UnusedOf(L, Keys, kind, ref) \in Nat
  BY <1>1, UnusedNat
<1>5. \A kind, ref : Sold(L, kind, ref) \in Nat
  <2>1. TAKE kind, ref
  <2> DEFINE s == [i \in 1..Len(L) |-> IF L[i].kind \in {kind} /\ L[i].ref = ref THEN L[i].delta ELSE 0]
  <2>2. s \in Seq(Int)
    <3>1. PICK n \in Nat : n = Len(L)
      BY <1>1
    <3>2. \A i \in 1..n : L[i].delta \in Int
      BY <1>1, <3>1, ElementOfSeq, EntryRow
    <3>3. s \in [1..n -> Int]
      BY <3>1, <3>2
    <3> HIDE DEF s
    <3>4. QED BY <3>3, SeqOf
  <2>3. SumOf(L, {kind}, ref) \in Int
    BY <2>2, IntTotal DEF SumOf
  <2>4. QED BY <1>2, <2>3 DEF Sold
<1>6. AtLeast0(PackRest(L, k)) \in Nat
  BY <1>1, <1>2, RestIs
<1>7. /\ \A kind, ref : Least(Least(UnusedOf(L, Keys, kind, ref), Sold(L, kind, ref)), AtLeast0(Balance(L))) \in Nat
      /\ Least(Least(UnusedPlan(L, Keys), UnusedPlan(L, Keys)), AtLeast0(Balance(L))) \in Nat
  BY <1>2, <1>3, <1>4, <1>5
<1>8. QED BY <1>6, <1>7 DEF Take

\* ReadReversal.
LEMMA ReadReversalType ==
  ASSUME TypeInv, NEW p \in Proc, ReadReversal(p)
  PROVE  TypeInv' /\ Quiet /\ Frugal
<1> DEFINE c == call[p]
           n == Take(c.user, c.op, c.ref)
           e == [c EXCEPT !.pc = "entered", !.amount = n]
<1>1. /\ c.pc = "begun" /\ c.op \in Reversals /\ c \in Call /\ c \in CallFields /\ c.user \in User
      /\ c.ref \in Pack \cup Pay
  BY CallTyped, CallIs DEF ReadReversal, Shaped, Payments, Reversals
<1>2. n \in Nat /\ n \in Int
  BY <1>1, TakeNat
<1>3. Ended(p) \/ Goes(p, e)
  BY DEF ReadReversal
<1>4. /\ paid' = paid \/ (c.ref \in Pack /\ paid' = [paid EXCEPT ![c.ref] = "refused"])
      /\ effect' = effect \/ (c.ref \in Pay /\ effect' = [effect EXCEPT ![c.ref].state = "refused"])
  BY DEF ReadReversal
<1> HIDE DEF n
<1>5. e \in Call
  <2>1. e \in CallFields
    BY <1>1, <1>2 DEF CallFields, Pcs
  <2>2. Shaped(c) /\ e.op = c.op /\ e.user = c.user /\ e.ref = c.ref /\ e.pc = "entered" /\ e.amount = n
    BY <1>1, CallIs DEF CallFields
  <2> HIDE DEF e
  <2>3. Shaped(e)
    BY <1>1, <1>2, <2>2 DEF Shaped, Payments, Reversals
  <2>4. QED BY <2>1, <2>3 DEF Call
<1>6. call' \in [Proc -> Call]
  <2> HIDE DEF e
  <2>1. QED BY <1>3, <1>5, NextCall, EndedCall
<1>7. Quiet /\ Frugal
  BY Untouched DEF ReadReversal
<1>8. paid' \in [Pack -> {"none", "refused", "granted", "revoked"}]
  BY <1>4 DEF TypeInv
<1>9. effect' \in [Pay -> Effect]
  <2>1. effect \in [Pay -> Effect]
    BY DEF TypeInv
  <2>2. c.ref \in Pay => [effect[c.ref] EXCEPT !.state = "refused"] \in Effect
    BY <2>1, EffectIs
  <2>3. QED BY <1>4, <2>1, <2>2
<1>10. QED BY <1>6, <1>7, <1>8, <1>9 DEF TypeInv, ReadReversal

\* What the row of a reversal does to a ledger.
LEMMA TakenIs ==
  ASSUME NEW L \in Seq(Entry), NEW kind \in Revokes \cup {"rebill_revoke_plan"}, NEW c,
         c.amount \in Nat, c.at \in Nat, c.ref \in Pack \cup Pay
  PROVE  /\ Taken(L, kind, c) \in Seq(Entry)
         /\ Unspending(L, Taken(L, kind, c))
         /\ Balance(Taken(L, kind, c)) <= Balance(L)
         /\ c.ref \notin Pack => Neutral(L, Taken(L, kind, c))
<1> DEFINE row == NewRow(kind, c.ref, -c.amount, c.at)
           M == Taken(L, kind, c)
<1>1. Balance(L) \in Int
  BY SumsAre
<1>2. CASE c.amount = 0 \/ Has(L, kind, c.ref)
  <2>1. M = L
    BY <1>2 DEF Taken
  <2>2. QED BY <1>1, <2>1, Same
<1>3. CASE ~(c.amount = 0 \/ Has(L, kind, c.ref))
  <2>1. M = Post(L, <<row>>)
    BY <1>3 DEF Taken
  <2>2. row \in Entry
    BY <1>3, WrittenRows
  <2>3. row.kind = kind /\ row.ref = c.ref /\ row.delta = -c.amount /\ row.kind \notin Spends
    BY DEF NewRow, Spends, Revokes
  <2> HIDE DEF row, M
  <2>4. <<row>> \in Seq(Entry) /\ NoSpend(<<row>>) /\ Balance(<<row>>) = -c.amount
        /\ (c.ref \notin Pack => NoPack(<<row>>))
    BY <2>2, <2>3, OneRow, SumsSmall
  <2>5. M \in Seq(Entry) /\ Unspending(L, M) /\ (c.ref \notin Pack => Neutral(L, M))
    BY <2>1, <2>4, PostEffects
  <2>6. Balance(M) = Balance(L) + Balance(<<row>>)
    BY <2>1, <2>4, SumsPost
  <2>7. Balance(M) <= Balance(L)
    BY <1>1, <2>4, <2>6
  <2>8. QED BY <2>5, <2>7 DEF M
<1>4. QED BY <1>2, <1>3

\* A step that changes the ledger of one account.
LEMMA Changing ==
  ASSUME TypeInv, NEW u \in User, NEW M \in Seq(Entry), ledger' = [ledger EXCEPT ![u] = M],
         Unspending(ledger[u], M), u \in closed => Balance(M) <= Balance(ledger[u])
  PROVE  /\ ledger' \in [User -> Seq(Entry)] /\ Frugal
         /\ Neutral(ledger[u], M) => Quiet
<1>1. /\ ledger \in [User -> Seq(Entry)] /\ ledger' \in [User -> Seq(Entry)]
      /\ ledger'[u] = M /\ \A v \in User : v # u => ledger'[v] = ledger[v]
  BY DEF TypeInv
<1>2. \A v \in User : ledger[v] \in Seq(Entry) /\ Balance(ledger[v]) \in Int
  BY UserTyped
<1>3. ASSUME Neutral(ledger[u], M) PROVE Quiet
  <2>1. \A v \in User : Neutral(ledger[v], ledger'[v])
    BY <1>1, <1>2, <1>3, Same
  <2>2. QED BY <2>1 DEF Quiet
<1>4. \A v \in User : Unspending(ledger[v], ledger'[v])
  BY <1>1, <1>2, Same
<1>5. \A v \in User : v \in closed => Balance(ledger'[v]) <= Balance(ledger[v])
  <2>1. u \in closed => Balance(ledger'[u]) <= Balance(ledger[u])
    BY <1>1
  <2>2. \A v \in User : v # u => Balance(ledger'[v]) <= Balance(ledger[v])
    BY <1>1, <1>2
  <2>3. QED BY <2>1, <2>2
<1>6. Frugal
  BY <1>4, <1>5 DEF Frugal
<1>7. QED BY <1>1, <1>3, <1>6

\* ReversePack.
LEMMA ReversePackType ==
  ASSUME TypeInv, NEW p \in Proc, ReversePack(p)
  PROVE  TypeInv' /\ Frugal
<1> DEFINE c == call[p]
           kind == IF c.op = "chargeback" /\ Has(ledger[c.user], "rebill_revoke", c.ref)
                   THEN "rebill_revoke:chargeback" ELSE "rebill_revoke"
           M == Taken(ledger[c.user], kind, c)
<1>1. /\ c.pc = "entered" /\ c.op \in Reversals /\ c.user \in User /\ c.ref \in Pack
      /\ c.at \in Nat /\ c.amount \in Nat /\ ledger[c.user] \in Seq(Entry)
  BY CallTyped, CallIs DEF ReversePack, Shaped, Reversals
<1>2. kind \in Revokes \cup {"rebill_revoke_plan"}
  BY DEF Revokes
<1>3. /\ paid' = [paid EXCEPT ![c.ref] = "revoked"]
      /\ ledger' = [ledger EXCEPT ![c.user] = M]
      /\ Ended(p) /\ UNCHANGED <<now, plan, effect, closed, owned, cache, saved, reported>>
  BY DEF ReversePack
<1> HIDE DEF kind
<1>4. M \in Seq(Entry) /\ Unspending(ledger[c.user], M) /\ Balance(M) <= Balance(ledger[c.user])
  BY <1>1, <1>2, TakenIs
<1> HIDE DEF M
<1>5. ledger' \in [User -> Seq(Entry)] /\ Frugal
  BY <1>1, <1>3, <1>4, Changing
<1>6. call' \in [Proc -> Call]
  BY <1>3, EndedCall
<1>7. paid' \in [Pack -> {"none", "refused", "granted", "revoked"}]
  BY <1>1, <1>3 DEF TypeInv
<1>8. QED BY <1>3, <1>5, <1>6, <1>7 DEF TypeInv

\* What a plan's reversal leaves of the rows and of the window is of its type.
LEMMA ReversedTypes ==
  ASSUME TypeInv, NEW u \in User, NEW k \in Pay, NEW op, NEW t \in Nat, NEW whole
  PROVE  LET x == effect[k]
             f == IF whole THEN effect ELSE MovedUp(effect, k, x, t)
             g == [f EXCEPT ![k].state = "revoked"]
             after == IF whole THEN Terminated(plan[u], op, t) ELSE Cut(plan[u], f, k, x, t)
         IN  /\ g \in [Pay -> Effect] /\ after \in Entitlement
             /\ Renumbered(g, k, u, after) \in [Pay -> Effect]
<1> DEFINE x == effect[k]
           f == IF whole THEN effect ELSE MovedUp(effect, k, x, t)
           g == [f EXCEPT ![k].state = "revoked"]
           after == IF whole THEN Terminated(plan[u], op, t) ELSE Cut(plan[u], f, k, x, t)
<1>1. effect \in [Pay -> Effect] /\ x \in Effect /\ plan[u] \in Entitlement
  BY DEF TypeInv
<1>2. MovedUp(effect, k, x, t) \in [Pay -> Effect]
  BY <1>1, SliceTypes
<1>3. f \in [Pay -> Effect]
  BY <1>1, <1>2
<1> HIDE DEF f, x
<1>4. g \in [Pay -> Effect]
  <2>1. [f[k] EXCEPT !.state = "revoked"] \in Effect
    BY <1>3, EffectIs
  <2>2. QED BY <1>3, <2>1
<1>5. after \in Entitlement
  <2>1. Terminated(plan[u], op, t) \in Entitlement
    BY <1>1, WindowTypes
  <2>2. Cut(plan[u], f, k, x, t) \in Entitlement
    BY <1>1, <1>3, CutType
  <2>3. QED BY <2>1, <2>2
<1> HIDE DEF g, after
<1>6. Renumbered(g, k, u, after) \in [Pay -> Effect]
  BY <1>4, <1>5, SliceTypes
<1>7. QED BY <1>4, <1>5, <1>6 DEF g, after, f, x

\* ReversePlan, which takes of the plan alone.
LEMMA ReversePlanType ==
  ASSUME TypeInv, NEW p \in Proc, ReversePlan(p)
  PROVE  TypeInv' /\ Quiet /\ Frugal
<1> DEFINE c == call[p]
           u == c.user
           whole == Whole(u, c.op)
           x == effect[c.ref]
           f == IF whole THEN effect ELSE MovedUp(effect, c.ref, x, c.at)
           g == [f EXCEPT ![c.ref].state = "revoked"]
           after == IF whole THEN Terminated(plan[u], c.op, c.at) ELSE Cut(plan[u], f, c.ref, x, c.at)
           settles == whole \/ Current(x, c.at) \/ ~GoesOn(f, c.ref, x, c.at)
           kind == IF whole THEN "rebill_revoke_plan" ELSE "rebill_revoke"
           L == Taken(ledger[u], kind, c)
           rows == GrantRows(u, L, after, c.at)
           M == IF settles THEN Post(L, rows) ELSE L
<1>1. /\ c.pc = "entered" /\ c.op \in Reversals /\ u \in User /\ c.ref \in Pay /\ c.ref \notin Pack
      /\ c.at \in Nat /\ c.amount \in Nat /\ ledger[u] \in Seq(Entry) /\ Balance(ledger[u]) \in Int
  <2>1. c.pc = "entered" /\ c.op \in Reversals /\ c.ref \in Pay
    BY DEF ReversePlan, Reversals
  <2>2. u \in User /\ c.at \in Nat /\ c.amount \in Nat
    BY <2>1, CallTyped, CallIs DEF Shaped
  <2>3. QED BY <2>1, <2>2, UserTyped, Constants
<1>2. /\ effect' = IF whole \/ after.status = "revoked" THEN g ELSE Renumbered(g, c.ref, u, after)
      /\ plan' = [plan EXCEPT ![u] = IF settles THEN Settled(u, after, c.at) ELSE after]
      /\ ledger' = [ledger EXCEPT ![u] = M]
      /\ Ended(p)
      /\ UNCHANGED <<now, closed, owned, cache, saved, reported, paid>>
  BY DEF ReversePlan
<1>3. g \in [Pay -> Effect] /\ after \in Entitlement /\ Renumbered(g, c.ref, u, after) \in [Pay -> Effect]
  BY <1>1, ReversedTypes
<1> HIDE DEF g, after, settles, f, x
<1>4. effect' \in [Pay -> Effect]
  BY <1>2, <1>3
<1>5. Settled(u, after, c.at) \in Entitlement
  BY <1>1, <1>3, WindowTypes
<1>6. plan' \in [User -> Entitlement]
  BY <1>1, <1>2, <1>3, <1>5 DEF TypeInv
<1>7. kind \in Revokes \cup {"rebill_revoke_plan"}
  BY DEF Revokes
<1> HIDE DEF kind, whole
<1>8. /\ L \in Seq(Entry) /\ Unspending(ledger[u], L) /\ Neutral(ledger[u], L)
      /\ Balance(L) <= Balance(ledger[u]) /\ Balance(L) \in Int
  <2>1. /\ L \in Seq(Entry) /\ Unspending(ledger[u], L) /\ Neutral(ledger[u], L)
        /\ Balance(L) <= Balance(ledger[u])
    BY <1>1, <1>7, TakenIs
  <2>2. QED BY <2>1, SumsAre
<1> HIDE DEF L
<1>9. rows \in Seq(Entry) /\ NoPack(rows) /\ NoSpend(rows) /\ (u \in closed => Balance(rows) <= 0)
      /\ Balance(rows) \in Int
  <2> HIDE DEF u
  <2>1. \A pl \in Entitlement, at \in Nat : GrantRows(u, L, pl, at) \in Seq(GrantEntry)
    BY <1>1, <1>8, GrantRowsAre
  <2>2. \A pl, at : u \in closed => GrantRows(u, L, pl, at) = <<>>
    BY DEF GrantRows
  <2>3. rows \in Seq(GrantEntry) /\ (u \in closed => rows = <<>>)
    BY <1>1, <1>3, <2>1, <2>2
  <2> HIDE DEF rows
  <2>4. QED BY <2>3, GrantSums, SumsSmall, SumsAre
<1> HIDE DEF rows
<1>10. /\ Post(L, rows) \in Seq(Entry) /\ Neutral(L, Post(L, rows)) /\ Unspending(L, Post(L, rows))
       /\ Balance(Post(L, rows)) = Balance(L) + Balance(rows)
  BY <1>8, <1>9, PostEffects, SumsPost
<1>11. M \in Seq(Entry) /\ Neutral(ledger[u], M) /\ Unspending(ledger[u], M)
  <2>1. Neutral(ledger[u], Post(L, rows)) /\ Unspending(ledger[u], Post(L, rows))
    BY <1>1, <1>8, <1>10, Through
  <2>2. QED BY <1>8, <1>10, <2>1
<1>12. u \in closed => Balance(M) <= Balance(ledger[u])
  <2>1. u \in closed => Balance(Post(L, rows)) <= Balance(ledger[u])
    BY <1>1, <1>8, <1>9, <1>10
  <2>2. QED BY <1>8, <2>1
<1> HIDE DEF M
<1>13. ledger' \in [User -> Seq(Entry)] /\ Quiet /\ Frugal
  BY <1>1, <1>2, <1>11, <1>12, Changing
<1>14. call' \in [Proc -> Call]
  BY <1>2, EndedCall
<1>15. QED BY <1>2, <1>4, <1>6, <1>13, <1>14 DEF TypeInv

\* ReviewReport.
LEMMA ReviewReportType ==
  ASSUME TypeInv, NEW p \in Proc, NEW d, ReviewReport(p, d)
  PROVE  TypeInv' /\ Quiet /\ Frugal
<1> DEFINE c == call[p]
           row == NewRow("courtesy", c.ref, UnlockCost, c.at)
<1>1. c.pc # "idle" /\ c.user \in User /\ c.at \in Nat /\ c.ref \in Hotel
  BY CallTyped, CallIs DEF ReviewReport, Shaped
<1>2. row \in Entry /\ row.kind \in {"admin_grant", "courtesy", "pack"} /\ row.kind # "pack"
  BY <1>1, WrittenRows DEF NewRow
<1>3. /\ reported' = reported \ {<<c.user, c.ref>>}
      /\ \/ UNCHANGED <<ledger, cache>>
         \/ /\ ledger' = [ledger EXCEPT ![c.user] = Post(@, <<row>>)]
            /\ cache' = [cache EXCEPT ![c.ref] = "invalid"]
      /\ Ended(p)
      /\ UNCHANGED <<now, plan, effect, closed, owned, saved, paid>>
  BY DEF ReviewReport
<1> HIDE DEF row
<1>4. ledger' \in [User -> Seq(Entry)] /\ Quiet /\ Frugal
  <2>1. CASE UNCHANGED ledger
    BY <2>1, Untouched DEF TypeInv
  <2>2. CASE ledger' = [ledger EXCEPT ![c.user] = Post(@, <<row>>)]
    BY <1>1, <1>2, <2>2, GiftType
  <2>3. QED BY <1>3, <2>1, <2>2
<1>5. cache' \in [Hotel -> {"none", "found", "not_found", "invalid"}]
  BY <1>3 DEF TypeInv
<1>6. reported' \subseteq User \X Hotel
  BY <1>3 DEF TypeInv
<1>7. call' \in [Proc -> Call]
  BY <1>3, EndedCall
<1>8. QED BY <1>3, <1>4, <1>5, <1>6, <1>7 DEF TypeInv

\* AdminGrant.
LEMMA AdminGrantType ==
  ASSUME TypeInv, NEW p \in Proc, AdminGrant(p)
  PROVE  TypeInv' /\ Quiet /\ Frugal
<1> DEFINE c == call[p]
           row == NewRow("admin_grant", None, 1, c.at)
<1>1. c.pc # "idle" /\ c.user \in User /\ c.at \in Nat
  BY CallTyped DEF AdminGrant
<1>2. row \in Entry /\ row.kind \in {"admin_grant", "courtesy", "pack"} /\ row.kind # "pack"
  BY <1>1, WrittenRows DEF NewRow
<1>3. /\ ledger' = ledger \/ ledger' = [ledger EXCEPT ![c.user] = Post(@, <<row>>)]
      /\ Ended(p)
      /\ UNCHANGED <<now, plan, effect, closed, owned, cache, saved, reported, paid>>
  BY DEF AdminGrant
<1> HIDE DEF row
<1>4. ledger' \in [User -> Seq(Entry)] /\ Quiet /\ Frugal
  <2>1. CASE ledger' = ledger
    BY <2>1, Untouched DEF TypeInv
  <2>2. CASE ledger' = [ledger EXCEPT ![c.user] = Post(@, <<row>>)]
    BY <1>1, <1>2, <2>2, GiftType
  <2>3. QED BY <1>3, <2>1, <2>2
<1>5. call' \in [Proc -> Call]
  BY <1>3, EndedCall
<1>6. QED BY <1>3, <1>4, <1>5 DEF TypeInv

\* RequestDeletion takes what is left.
LEMMA RequestDeletionType ==
  ASSUME TypeInv, NEW p \in Proc, RequestDeletion(p)
  PROVE  /\ TypeInv' /\ Quiet /\ Frugal
         /\ call[p].user \notin closed => Balance(ledger'[call[p].user]) <= 0
<1> DEFINE c == call[p]
           u == c.user
           b == Balance(ledger[u])
           row == NewRow("account_deletion", None, -b, c.at)
<1>1. c.pc # "idle" /\ u \in User /\ c.at \in Nat /\ b \in Int /\ ledger[u] \in Seq(Entry)
  BY CallTyped, UserTyped DEF RequestDeletion
<1>2. /\ ledger' = IF u \in closed \/ b <= 0 THEN ledger ELSE [ledger EXCEPT ![u] = Post(@, <<row>>)]
      /\ closed' = closed \cup {u}
      /\ Ended(p)
      /\ UNCHANGED <<now, plan, effect, owned, cache, saved, reported, paid>>
  BY DEF RequestDeletion
<1>3. ledger' \in [User -> Seq(Entry)] /\ Quiet /\ Frugal /\ (u \notin closed => Balance(ledger'[u]) <= 0)
  <2>1. CASE u \in closed \/ b <= 0
    BY <1>2, <2>1, Untouched DEF TypeInv
  <2>2. CASE ~(u \in closed \/ b <= 0)
    <3>1. b \in Nat /\ b # 0
      BY <1>1, <2>2
    <3> HIDE DEF b
    <3>2. /\ row \in Entry /\ row.kind \notin Spends /\ row.kind \notin OfPack
          /\ row.delta = -b
      BY <1>1, <3>1, WrittenRows DEF NewRow, Spends, OfPack, Revokes
    <3>3. ledger' = [ledger EXCEPT ![u] = Post(@, <<row>>)]
      BY <1>2, <2>2
    <3> HIDE DEF row
    <3>4. <<row>> \in Seq(Entry) /\ NoSpend(<<row>>) /\ NoPack(<<row>>) /\ Balance(<<row>>) = -b
      BY <3>2, OneRow, SumsSmall
    <3>5. ledger' \in [User -> Seq(Entry)] /\ Quiet /\ Frugal
      BY <1>1, <1>2, <2>2, <3>3, <3>4, Posting
    <3>6. ledger'[u] = Post(ledger[u], <<row>>)
      BY <1>1, <3>3, <3>4, PostedType
    <3>7. Balance(ledger'[u]) = Balance(ledger[u]) + Balance(<<row>>)
      BY <1>1, <3>4, <3>6, SumsPost
    <3>8. Balance(ledger'[u]) <= 0
      BY <1>1, <3>4, <3>7 DEF b
    <3>9. QED BY <3>5, <3>8
  <2>3. QED BY <2>1, <2>2
<1>4. closed' \subseteq User
  BY <1>1, <1>2 DEF TypeInv
<1>5. call' \in [Proc -> Call]
  BY <1>2, EndedCall
<1>6. QED BY <1>2, <1>3, <1>4, <1>5 DEF TypeInv

-----------------------------------------------------------------------------
(* Packs and their reversals *)

\* A payment or a reversal between its read and its write.
LEMMA PayTyped ==
  ASSUME TypeInv, NEW p \in Proc, Paying(p)
  PROVE  /\ call[p].user \in User /\ call[p].ref \in Pack \cup Pay /\ call[p].op \in Payments
         /\ call[p].at \in Nat /\ call[p].pc # "idle"
         /\ call[p].op \in Reversals => call[p].amount \in Nat
<1>1. call[p] \in Call /\ call[p].pc = "entered" /\ call[p].op \in Payments
  BY CallTyped DEF Paying
<1>2. Shaped(call[p]) /\ call[p].at \in Nat /\ call[p].amount \in Int
  BY <1>1, CallIs
<1>3. QED BY <1>1, <1>2 DEF Shaped

\* While a pack has no reversal, what it sold is what is left of it.
LEMMA SoldIs ==
  ASSUME NEW L \in Seq(Entry), NEW k, \A r \in RowsOf(L) : r.kind \in Revokes => r.ref # k
  PROVE  SumOf(L, {"pack"}, k) = PackRest(L, k)
<1>1. ASSUME NEW i \in 1..Len(L)
      PROVE  (L[i].kind \in {"pack"} /\ L[i].ref = k)
               <=> (L[i].kind \in {"pack", "rebill_revoke", "rebill_revoke:chargeback"} /\ L[i].ref = k)
  <2>1. L[i] \in RowsOf(L)
    BY DEF RowsOf
  <2>2. QED BY <2>1 DEF Revokes
<1>2. [i \in 1..Len(L) |-> IF L[i].kind \in {"pack"} /\ L[i].ref = k THEN L[i].delta ELSE 0]
        = [i \in 1..Len(L) |->
             IF L[i].kind \in {"pack", "rebill_revoke", "rebill_revoke:chargeback"} /\ L[i].ref = k
             THEN L[i].delta ELSE 0]
  BY <1>1
<1>3. QED BY <1>2 DEF SumOf, PackRest

\* A quiet step keeps the packs, if no caller comes to write a payment or a reversal.
LEMMA PackKept ==
  ASSUME TypeInv, PackInv, Quiet, paid' = paid,
         \A p \in Proc : call'[p] = call[p] \/ ~Paying(p)'
  PROVE  PackInv'
<1>1. /\ \A u \in User, k \in Pack : PackRest(ledger'[u], k) = PackRest(ledger[u], k)
      /\ \A u \in User : \A r \in RowsOf(ledger'[u]) :
           r.kind \in OfPack /\ r.ref \in Pack => r \in RowsOf(ledger[u])
  BY DEF Quiet, Neutral
<1>2. \A p \in Proc : Paying(p)' => Paying(p) /\ call'[p] = call[p]
  BY DEF Paying
<1>3. NotRevoked'
  <2>1. \A u \in User, k \in Pack : paid[k] # "revoked" =>
          \A r \in RowsOf(ledger'[u]) : r.kind \in Revokes => r.ref # k
    BY <1>1 DEF PackInv, NotRevoked, OfPack
  <2>2. QED BY <2>1 DEF NotRevoked, RowsOf
<1>4. PayAlone'
  BY <1>2 DEF PackInv, PayAlone
<1>5. PayNew'
  BY <1>2 DEF PackInv, PayNew
<1>6. ReversalFits'
  <2>1. ASSUME NEW p \in Proc, Paying(p)', call'[p].op \in Reversals, call'[p].ref \in Pack
        PROVE  call'[p].amount <= PackRest(ledger'[call'[p].user], call'[p].ref)
    <3>1. Paying(p) /\ call'[p] = call[p] /\ call[p].user \in User
      BY <1>2, <2>1, PayTyped
    <3>2. QED BY <1>1, <2>1, <3>1 DEF PackInv, ReversalFits
  <2>2. QED BY <2>1 DEF ReversalFits, PackRest
<1>7. PackReversedOnce'
  <2>1. \A u \in User, k \in Pack : PackRest(ledger'[u], k) >= 0
    BY <1>1 DEF PackInv, PackReversedOnce
  <2>2. QED BY <2>1 DEF PackReversedOnce, PackRest
<1>8. QED BY <1>3, <1>4, <1>5, <1>6, <1>7 DEF PackInv

\* One row of one pack is written.
LEMMA PackRowPosted ==
  ASSUME TypeInv, NEW u \in User, NEW k \in Pack, NEW row \in Entry,
         row.kind \in OfPack, row.ref = k,
         ledger' = [ledger EXCEPT ![u] = Post(@, <<row>>)]
  PROVE  /\ \A v \in User, j \in Pack :
              v # u \/ j # k => PackRest(ledger'[v], j) = PackRest(ledger[v], j)
         /\ PackRest(ledger'[u], k) = PackRest(ledger[u], k) + row.delta
         /\ \A v \in User : RowsOf(ledger'[v]) \subseteq RowsOf(ledger[v]) \cup {row}
<1> DEFINE L == ledger[u]
           M == Post(L, <<row>>)
<1>1. L \in Seq(Entry) /\ <<row>> \in Seq(Entry) /\ RowsOf(M) = RowsOf(L) \cup {row}
  BY UserTyped, OneRow
<1>2. ledger'[u] = M /\ \A v \in User : v # u => ledger'[v] = ledger[v]
  BY <1>1, PostedType
<1>3. ASSUME NEW j \in Pack
      PROVE  PackRest(M, j) = PackRest(L, j) + (IF j = k THEN row.delta ELSE 0) /\ PackRest(L, j) \in Int
  <2>1. PackRest(M, j) = PackRest(L, j) + PackRest(<<row>>, j)
    BY <1>1, SumsPost
  <2>2. PackRest(<<row>>, j) = IF j = k THEN row.delta ELSE 0
    BY SumsSmall
  <2>3. PackRest(L, j) \in Int
    BY <1>1, RestIs
  <2>4. QED BY <2>1, <2>2, <2>3
<1> HIDE DEF M, L
<1>4. \A j \in Pack : j # k => PackRest(M, j) = PackRest(L, j)
  BY <1>3
<1>5. \A v \in User, j \in Pack : v # u \/ j # k => PackRest(ledger'[v], j) = PackRest(ledger[v], j)
  BY <1>2, <1>4 DEF L
<1>6. PackRest(M, k) = PackRest(L, k) + row.delta
  BY <1>3
<1>7. \A v \in User : RowsOf(ledger'[v]) \subseteq RowsOf(ledger[v]) \cup {row}
  BY <1>1, <1>2 DEF L
<1>8. QED BY <1>2, <1>5, <1>6, <1>7 DEF L

\* A call of a pack's payment ends with its write, which leaves the other packs alone.
LEMMA PackWritten ==
  ASSUME TypeInv, PackInv, NEW p \in Proc, Paying(p), call[p].ref \in Pack, Ended(p),
         NEW state \in {"granted", "revoked"}, paid' = [paid EXCEPT ![call[p].ref] = state],
         NEW rest \in Int, rest >= 0, PackRest(ledger'[call[p].user], call[p].ref) = rest,
         \A v \in User, j \in Pack : v # call[p].user \/ j # call[p].ref =>
           PackRest(ledger'[v], j) = PackRest(ledger[v], j),
         NEW extra, \A r \in extra : r.ref = call[p].ref,
         \A v \in User : RowsOf(ledger'[v]) \subseteq RowsOf(ledger[v]) \cup extra,
         state = "granted" =>
           paid[call[p].ref] # "revoked" /\ \A r \in extra : r.kind \notin Revokes
  PROVE  PackInv'
<1>1. PICK u \in User, k \in Pack : u = call[p].user /\ k = call[p].ref
  BY PayTyped
<1>2. call'[p] = Idle /\ \A q \in Proc : q # p => call'[q] = call[q]
  BY DEF Ended, Goes, TypeInv
<1>3. \A q \in Proc : Paying(q)' => q # p /\ Paying(q) /\ call'[q] = call[q] /\ call[q].ref # k
  <2>1. \A q \in Proc : Paying(q)' => q # p /\ Paying(q) /\ call'[q] = call[q]
    BY <1>2 DEF Paying, Idle
  <2>2. \A q \in Proc : q # p /\ Paying(q) => call[q].ref # k
    BY <1>1 DEF PackInv, PayAlone
  <2>3. QED BY <2>1, <2>2
<1>4. paid'[k] = state /\ \A j \in Pack : j # k => paid'[j] = paid[j]
  BY <1>1 DEF TypeInv
<1>5. NotRevoked'
  <2>1. ASSUME NEW v \in User, NEW j \in Pack, paid'[j] # "revoked", NEW r \in RowsOf(ledger'[v]),
               r.kind \in Revokes
        PROVE  r.ref # j
    <3>1. r \in RowsOf(ledger[v]) \/ r \in extra
      BY <2>1
    <3>2. CASE r \in extra
      <4>1. state # "granted" /\ r.ref = k
        BY <1>1, <2>1, <3>2
      <4>2. QED BY <1>4, <2>1, <4>1
    <3>3. CASE r \in RowsOf(ledger[v])
      <4>1. paid[j] # "revoked"
        BY <1>1, <1>4, <2>1
      <4>2. QED BY <2>1, <3>3, <4>1 DEF PackInv, NotRevoked
    <3>4. QED BY <3>1, <3>2, <3>3
  <2>2. QED BY <2>1 DEF NotRevoked, RowsOf
<1>6. PayAlone'
  BY <1>3 DEF PackInv, PayAlone
<1>7. PayNew'
  BY <1>3, <1>4 DEF PackInv, PayNew
<1>8. ReversalFits'
  <2>1. ASSUME NEW q \in Proc, Paying(q)', call'[q].op \in Reversals, call'[q].ref \in Pack
        PROVE  call'[q].amount <= PackRest(ledger'[call'[q].user], call'[q].ref)
    <3>1. Paying(q) /\ call'[q] = call[q] /\ call[q].ref # k /\ call[q].user \in User
      BY <1>3, <2>1, PayTyped
    <3>2. QED BY <1>1, <2>1, <3>1 DEF PackInv, ReversalFits
  <2>2. QED BY <2>1 DEF ReversalFits, PackRest
<1>9. PackReversedOnce'
  <2>1. \A v \in User, j \in Pack : PackRest(ledger[v], j) >= 0
    BY DEF PackInv, PackReversedOnce
  <2>2. PackRest(ledger'[u], k) >= 0
    BY <1>1
  <2>3. \A v \in User, j \in Pack : PackRest(ledger'[v], j) >= 0
    BY <1>1, <2>1, <2>2
  <2>4. QED BY <2>3 DEF PackReversedOnce, PackRest
<1>10. QED BY <1>5, <1>6, <1>7, <1>8, <1>9 DEF PackInv

\* A pack is granted: its payment is still new.
LEMMA GrantPackStep ==
  ASSUME TypeInv, PackInv, NEW p \in Proc, GrantPack(p)
  PROVE  PackInv'
<1> DEFINE c == call[p]
           row == NewRow("pack", c.ref, PackSize, c.at)
<1>1. Paying(p) /\ c.ref \in Pack /\ c.op = "pay"
  BY DEF GrantPack, Paying, Payments
<1>2. c.user \in User /\ c.at \in Nat /\ paid[c.ref] = "none"
  BY <1>1, PayTyped DEF PackInv, PayNew
<1>3. row \in Entry /\ row.kind = "pack" /\ row.ref = c.ref /\ row.delta = PackSize
  BY <1>1, <1>2, WrittenRows DEF NewRow
<1>4. /\ paid' = [paid EXCEPT ![c.ref] = "granted"] /\ Ended(p)
      /\ ledger' = [ledger EXCEPT ![c.user] = Post(@, <<row>>)]
  BY DEF GrantPack
<1> HIDE DEF row
<1>5. row.kind \in OfPack /\ row.kind \notin Revokes
  BY <1>3 DEF OfPack, Revokes
<1>6. /\ \A v \in User, j \in Pack : v # c.user \/ j # c.ref => PackRest(ledger'[v], j) = PackRest(ledger[v], j)
      /\ PackRest(ledger'[c.user], c.ref) = PackRest(ledger[c.user], c.ref) + row.delta
      /\ \A v \in User : RowsOf(ledger'[v]) \subseteq RowsOf(ledger[v]) \cup {row}
  BY <1>1, <1>2, <1>3, <1>4, <1>5, PackRowPosted, ZenonT(30)
<1>7. PICK rest \in Int : rest >= 0 /\ PackRest(ledger'[c.user], c.ref) = rest
  <2>1. PackRest(ledger[c.user], c.ref) \in Int /\ PackRest(ledger[c.user], c.ref) >= 0
    BY <1>1, <1>2, UserTyped, RestIs DEF PackInv, PackReversedOnce
  <2>2. PackSize \in Nat
    BY Constants
  <2>3. QED BY <1>3, <1>6, <2>1, <2>2
<1>8. \A r \in {row} : r.ref = c.ref /\ r.kind \notin Revokes
  BY <1>3, <1>5
<1>9. \A v \in User : RowsOf(ledger'[v]) \subseteq RowsOf(ledger[v]) \cup {row}
  BY <1>6
<1>10. "granted" \in {"granted", "revoked"} /\ paid[c.ref] # "revoked"
  BY <1>2
<1>11. \E extra : /\ \A r \in extra : r.ref = c.ref /\ r.kind \notin Revokes
                  /\ \A v \in User : RowsOf(ledger'[v]) \subseteq RowsOf(ledger[v]) \cup extra
  BY <1>8, <1>9
<1>12. QED BY <1>1, <1>4, <1>6, <1>7, <1>10, <1>11, PackWritten

\* A pack is reversed: what its reversal takes is still there.
LEMMA ReversePackStep ==
  ASSUME TypeInv, PackInv, NEW p \in Proc, ReversePack(p)
  PROVE  PackInv'
<1> DEFINE c == call[p]
           kind == IF c.op = "chargeback" /\ Has(ledger[c.user], "rebill_revoke", c.ref)
                   THEN "rebill_revoke:chargeback" ELSE "rebill_revoke"
           row == NewRow(kind, c.ref, -c.amount, c.at)
           extra == {r \in Entry : r.ref = c.ref}
<1>1. Paying(p) /\ c.ref \in Pack /\ c.op \in Reversals
  BY DEF ReversePack, Paying, Payments, Reversals
<1>2. c.user \in User /\ c.at \in Nat /\ c.amount \in Nat
  BY <1>1, PayTyped
<1>3. PICK old \in Int : /\ PackRest(ledger[c.user], c.ref) = old /\ c.amount <= old
  <2>1. PackRest(ledger[c.user], c.ref) \in Int
    BY <1>2, UserTyped, RestIs
  <2>2. QED BY <1>1, <2>1 DEF PackInv, ReversalFits
<1>4. /\ paid' = [paid EXCEPT ![c.ref] = "revoked"] /\ Ended(p)
      /\ ledger' = [ledger EXCEPT ![c.user] = Taken(@, kind, c)]
  BY DEF ReversePack
<1>5. /\ \A v \in User, j \in Pack : v # c.user \/ j # c.ref => PackRest(ledger'[v], j) = PackRest(ledger[v], j)
      /\ PackRest(ledger'[c.user], c.ref) \in {old, old - c.amount}
      /\ \A v \in User : RowsOf(ledger'[v]) \subseteq RowsOf(ledger[v]) \cup extra
  <2>1. CASE c.amount = 0 \/ Has(ledger[c.user], kind, c.ref)
    <3>1. ledger' = ledger
      BY <1>2, <1>4, <2>1 DEF Taken, TypeInv
    <3>2. QED BY <1>3, <3>1
  <2>2. CASE ~(c.amount = 0 \/ Has(ledger[c.user], kind, c.ref))
    <3>1. kind \in Revokes
      BY DEF Revokes
    <3>2. ledger' = [ledger EXCEPT ![c.user] = Post(@, <<row>>)]
      BY <1>4, <2>2 DEF Taken
    <3> HIDE DEF kind
    <3>3. row \in Entry /\ row.kind \in Revokes /\ row.ref = c.ref /\ row.delta = -c.amount
      BY <1>1, <1>2, <2>2, <3>1, WrittenRows DEF NewRow
    <3> HIDE DEF row
    <3>4. row.kind \in OfPack /\ row \in extra
      BY <3>3 DEF OfPack
    <3>5. /\ \A v \in User, j \in Pack : v # c.user \/ j # c.ref => PackRest(ledger'[v], j) = PackRest(ledger[v], j)
          /\ PackRest(ledger'[c.user], c.ref) = PackRest(ledger[c.user], c.ref) + row.delta
          /\ \A v \in User : RowsOf(ledger'[v]) \subseteq RowsOf(ledger[v]) \cup {row}
      BY <1>1, <1>2, <3>2, <3>3, <3>4, PackRowPosted, ZenonT(30)
    <3>6. PackRest(ledger'[c.user], c.ref) = old - c.amount
      BY <1>2, <1>3, <3>3, <3>5
    <3>7. QED BY <3>4, <3>5, <3>6
  <2>3. QED BY <2>1, <2>2
<1>6. PICK rest \in Int : rest >= 0 /\ PackRest(ledger'[c.user], c.ref) = rest
  BY <1>2, <1>3, <1>5
<1>7. \E ref : /\ \A r \in ref : r.ref = c.ref
               /\ \A v \in User : RowsOf(ledger'[v]) \subseteq RowsOf(ledger[v]) \cup ref
  BY <1>5
<1>8. "revoked" \in {"granted", "revoked"} /\ "revoked" # "granted"
  OBVIOUS
<1> HIDE DEF kind, extra
<1>9. QED BY <1>1, <1>4, <1>5, <1>6, <1>7, <1>8, PackWritten

\* A payment is found to be new, and no other call of it is under way.
LEMMA EnterPaymentStep ==
  ASSUME TypeInv, PackInv, NEW p \in Proc, EnterPayment(p)
  PROVE  PackInv'
<1> DEFINE c == call[p]
<1>1. c \in Call /\ c \in CallFields /\ c.op = "pay" /\ c.pc = "begun" /\ PayLockFree(p, c.ref)
  BY CallTyped, CallIs DEF EnterPayment
<1>2. UNCHANGED <<ledger, paid>> /\ \A q \in Proc : q # p => call'[q] = call[q]
  BY DEF EnterPayment, Goes, Ended, TypeInv
<1>3. \/ call'[p].pc = "idle"
      \/ /\ State(c.ref) = "none" /\ call'[p].op = "pay" /\ call'[p].ref = c.ref
  <2> DEFINE new == [c EXCEPT !.was = plan[c.user]]
             key == KeyOf(c.user, Window(new), Period(Window(new), c.at))
             n == IF c.ref \in Pay /\ Has(ledger[c.user], "plan_monthly", key) THEN 1 ELSE 0
             e == [new EXCEPT !.pc = "entered", !.amount = n]
  <2>1. Ended(p) \/ (State(c.ref) = "none" /\ Goes(p, e))
    BY DEF EnterPayment
  <2> HIDE DEF n
  <2>2. e.op = "pay" /\ e.ref = c.ref
    BY <1>1 DEF CallFields
  <2> HIDE DEF e
  <2>3. Goes(p, e) => call'[p] = e
    BY DEF Goes, TypeInv
  <2>4. Ended(p) => call'[p].pc = "idle"
    BY DEF Ended, Goes, TypeInv, Idle
  <2>5. QED BY <2>1, <2>2, <2>3, <2>4
<1>4. \A q \in Proc : q # p /\ Paying(q) => call[q].ref # c.ref
  BY <1>1 DEF PayLockFree, Paying, Payments, Reversals
<1> HIDE DEF c
<1>5. \A q \in Proc : Paying(q)' =>
         \/ q # p /\ Paying(q) /\ call'[q] = call[q]
         \/ q = p /\ call'[q].ref = c.ref /\ call'[q].op = "pay" /\ State(c.ref) = "none"
  BY <1>2, <1>3 DEF Paying
<1>6. PayAlone'
  BY <1>4, <1>5 DEF PackInv, PayAlone
<1>7. PayNew'
  BY <1>2, <1>5 DEF PackInv, PayNew, State
<1>8. ReversalFits'
  BY <1>2, <1>5 DEF PackInv, ReversalFits, Reversals
<1>9. NotRevoked' /\ PackReversedOnce'
  BY <1>2 DEF PackInv, NotRevoked, PackReversedOnce
<1>10. QED BY <1>6, <1>7, <1>8, <1>9 DEF PackInv

\* A reversal takes no more of a pack than is left of it.
LEMMA TakeFits ==
  ASSUME TypeInv, PackInv, NEW u \in User, NEW k \in Pack, NEW op \in Reversals,
         op = "refund" => paid[k] # "revoked"
  PROVE  Take(u, op, k) <= PackRest(ledger[u], k)
<1>1. PICK rest \in Int : PackRest(ledger[u], k) = rest /\ rest >= 0
  BY UserTyped, RestIs DEF PackInv, PackReversedOnce
<1>2. CASE op = "chargeback"
  BY <1>1, <1>2 DEF Take, AtLeast0
<1>3. CASE op = "refund"
  <2>1. \A r \in RowsOf(ledger[u]) : r.kind \in Revokes => r.ref # k
    BY <1>3 DEF PackInv, NotRevoked
  <2>2. SumOf(ledger[u], {"pack"}, k) = rest
    BY <1>1, <2>1, UserTyped, SoldIs
  <2>3. PICK unused \in Int, balance \in Int :
          unused = UnusedOf(ledger[u], Keys, "pack", k) /\ balance = AtLeast0(Balance(ledger[u]))
    <3>1. PICK b \in Int : b = Balance(ledger[u])
      BY UserTyped
    <3>2. AtLeast0(b) \in Int
      BY DEF AtLeast0
    <3>3. UnusedOf(ledger[u], Keys, "pack", k) \in Nat
      BY UserTyped, UnusedNat
    <3>4. QED BY <3>1, <3>2, <3>3
  <2>4. Take(u, op, k) = Least(Least(unused, rest), balance)
    BY <1>1, <1>3, <2>2, <2>3 DEF Take, Sold, AtLeast0
  <2>5. Least(Least(unused, rest), balance) <= rest
    BY DEF Least
  <2>6. QED BY <1>1, <2>4, <2>5
<1>4. QED BY <1>2, <1>3 DEF Reversals

\* A reversal is read: no other call of its payment is under way.
LEMMA ReadReversalStep ==
  ASSUME TypeInv, PackInv, NEW p \in Proc, ReadReversal(p)
  PROVE  PackInv'
<1> DEFINE c == call[p]
           n == Take(c.user, c.op, c.ref)
           e == [c EXCEPT !.pc = "entered", !.amount = n]
<1>1. /\ c.op \in Reversals /\ c \in CallFields /\ c.user \in User /\ c.ref \in Pack \cup Pay
      /\ PayLockFree(p, c.ref)
  BY CallTyped, CallIs DEF ReadReversal, Shaped, Payments, Reversals
<1>2. ledger' = ledger /\ \A q \in Proc : q # p => call'[q] = call[q]
  BY DEF ReadReversal, Goes, Ended, TypeInv
<1>3. \A q \in Proc : q # p /\ Paying(q) => call[q].ref # c.ref
  BY <1>1 DEF PayLockFree, Paying, Payments, Reversals
<1>4. \/ Ended(p) /\ paid' = paid
      \/ /\ Ended(p) /\ State(c.ref) \in {"none", "refused"}
         /\ c.ref \in Pack /\ paid' = [paid EXCEPT ![c.ref] = "refused"]
      \/ /\ Goes(p, e) /\ paid' = paid
         /\ State(c.ref) = "granted" \/ c.op = "chargeback"
  BY DEF ReadReversal
<1>5. /\ e.op = c.op /\ e.ref = c.ref /\ e.user = c.user /\ e.amount = n
  <2> HIDE DEF n
  <2>1. QED BY <1>1 DEF CallFields
<1>6. c.ref \in Pack /\ (State(c.ref) = "granted" \/ c.op = "chargeback") =>
        n <= PackRest(ledger[c.user], c.ref)
  <2>1. SUFFICES ASSUME c.ref \in Pack, State(c.ref) = "granted" \/ c.op = "chargeback"
                 PROVE  n <= PackRest(ledger[c.user], c.ref)
    OBVIOUS
  <2>2. c.op = "refund" => paid[c.ref] # "revoked"
    BY <2>1 DEF State
  <2>3. QED BY <1>1, <2>1, <2>2, TakeFits
<1> HIDE DEF n, e, c
<1>7. (Ended(p) => call'[p].pc = "idle") /\ (Goes(p, e) => call'[p] = e)
  BY DEF Ended, Goes, TypeInv, Idle
<1>8. \A k \in Pack : paid'[k] = paid[k] \/ (k = c.ref /\ paid[k] # "revoked" /\ paid'[k] = "refused")
  BY <1>4 DEF State, TypeInv
<1>9. \A q \in Proc : Paying(q)' =>
        \/ q # p /\ Paying(q) /\ call'[q] = call[q] /\ call[q].ref # c.ref
        \/ /\ q = p /\ call'[q].ref = c.ref /\ call'[q].user = c.user /\ call'[q].op = c.op
           /\ c.ref \in Pack => call'[q].amount <= PackRest(ledger[c.user], c.ref)
  <2>1. ASSUME NEW q \in Proc, q # p, Paying(q)'
        PROVE  Paying(q) /\ call'[q] = call[q] /\ call[q].ref # c.ref
    BY <1>2, <1>3, <2>1 DEF Paying
  <2>2. ASSUME Paying(p)'
        PROVE  /\ call'[p].ref = c.ref /\ call'[p].user = c.user /\ call'[p].op = c.op
               /\ c.ref \in Pack => call'[p].amount <= PackRest(ledger[c.user], c.ref)
    <3>1. call'[p] = e /\ (State(c.ref) = "granted" \/ c.op = "chargeback")
      BY <1>4, <1>7, <2>2 DEF Paying
    <3>2. QED BY <1>5, <1>6, <3>1
  <2>3. QED BY <2>1, <2>2
<1>10. NotRevoked'
  BY <1>2, <1>8 DEF PackInv, NotRevoked
<1>11. PayAlone'
  BY <1>9 DEF PackInv, PayAlone
<1>12. PayNew'
  BY <1>1, <1>8, <1>9 DEF PackInv, PayNew, Reversals
<1>13. ReversalFits'
  BY <1>2, <1>9 DEF PackInv, ReversalFits
<1>14. PackReversedOnce'
  BY <1>2 DEF PackInv, PackReversedOnce
<1>15. QED BY <1>10, <1>11, <1>12, <1>13, <1>14 DEF PackInv

-----------------------------------------------------------------------------
(* Spends *)

\* A caller that spends.
LEMMA SpendTyped ==
  ASSUME TypeInv, NEW p \in Proc, Spending(p)
  PROVE  /\ call[p].user \in User /\ call[p].grants \in Seq(Entry) /\ call[p].pc # "idle"
         /\ Granted(call[p].grants) \in Nat /\ Cost(p) \in Nat /\ Cost(p) > 0
         /\ Granted(ledger[call[p].user]) \in Int /\ SpentTotal(ledger[call[p].user]) \in Int
<1>1. call[p].user \in User /\ call[p].grants \in Seq(GrantEntry) /\ call[p].pc # "idle"
  BY CallTyped, CallIs DEF Spending
<1>2. call[p].grants \in Seq(Entry)
  BY <1>1, GrantSums
<1>3. QED BY <1>1, <1>2, UserTyped, RowSums, SumsAre, Constants DEF Cost

\* The sums of an account are integers.
LEMMA UserSums ==
  ASSUME TypeInv, NEW u \in User
  PROVE  Granted(ledger[u]) \in Int /\ SpentTotal(ledger[u]) \in Int /\ Balance(ledger[u]) \in Int
BY UserTyped, SumsAre

\* A frugal step keeps the spends, if no caller enters one.
LEMMA SpendKept ==
  ASSUME TypeInv, TypeInv', SpendInv, Frugal, closed' = closed,
         \A p \in Proc : \/ call'[p] = call[p]
                         \/ /\ ~Spending(p)'
                            /\ \/ call'[p].grants = <<>>
                               \/ call'[p].grants = call[p].grants /\ call'[p].user = call[p].user
  PROVE  SpendInv'
<1>1. ASSUME NEW u \in User
      PROVE  /\ SpentTotal(ledger'[u]) = SpentTotal(ledger[u])
             /\ Granted(ledger'[u]) >= Granted(ledger[u])
             /\ Granted(ledger'[u]) \in Int
             /\ Gifted(u) => Gifted(u)'
             /\ u \in closed => Gifted(u)' \/ Balance(ledger'[u]) <= Balance(ledger[u])
  <2>1. Unspending(ledger[u], ledger'[u])
    BY DEF Frugal
  <2>2. ledger'[u] \in Seq(Entry)
    BY DEF TypeInv
  <2>3. Gift(ledger[u]) => Gift(ledger'[u])
    BY <2>1 DEF Unspending, Gift
  <2>4. Gifted(u)' <=> Gift(ledger'[u])
    BY DEF Gifted, Gift, RowsOf
  <2>5. QED BY <2>1, <2>2, <2>3, <2>4, SumsAre, GiftedIs DEF Frugal, Unspending
<1>2. \A u \in User : Loose(u) => Loose(u)'
  BY <1>1 DEF Loose
<1>3. \A p \in Proc : Spending(p)' => Spending(p) /\ call'[p] = call[p] /\ Cost(p)' = Cost(p)
                                      /\ call[p].user \in User
  BY SpendTyped DEF Spending, Cost
<1>4. SpendLocked'
  BY <1>3 DEF SpendInv, SpendLocked
<1>5. SpendAlone'
  BY <1>2, <1>3 DEF SpendInv, SpendAlone
<1>6. SpendFits'
  <2>1. ASSUME NEW p \in Proc, Spending(p)', ~Loose(call[p].user)'
        PROVE  SpentTotal(ledger'[call'[p].user]) + Cost(p)'
                 <= Granted(ledger'[call'[p].user]) + Granted(call'[p].grants)
    <3>1. PICK u \in User : Spending(p) /\ call'[p] = call[p] /\ Cost(p)' = Cost(p) /\ u = call[p].user
      BY <1>3, <2>1
    <3>2. ~Loose(u)
      BY <1>2, <2>1, <3>1
    <3>3. SpentTotal(ledger[u]) + Cost(p) <= Granted(ledger[u]) + Granted(call[p].grants)
      BY <3>1, <3>2 DEF SpendInv, SpendFits
    <3>4. Granted(call[p].grants) \in Int /\ Cost(p) \in Int /\ Granted(ledger[u]) \in Int /\ SpentTotal(ledger[u]) \in Int
      BY <3>1, SpendTyped
    <3>5. SpentTotal(ledger'[u]) + Cost(p) <= Granted(ledger'[u]) + Granted(call[p].grants)
      BY <1>1, <3>3, <3>4
    <3>6. QED BY <3>1, <3>5
  <2>2. QED BY <2>1 DEF SpendFits
<1>7. ClosedGrantsNothing'
  BY DEF SpendInv, ClosedGrantsNothing
<1>8. ClosedEmpty'
  <2>1. SUFFICES ASSUME NEW u \in closed, ~Gifted(u)' PROVE Balance(ledger'[u]) <= 0
    BY DEF ClosedEmpty
  <2>2. u \in User
    BY DEF TypeInv
  <2>3. ~Gifted(u) /\ Balance(ledger'[u]) <= Balance(ledger[u])
    BY <1>1, <2>1, <2>2
  <2>4. Balance(ledger[u]) <= 0
    BY <2>3 DEF SpendInv, ClosedEmpty
  <2>5. Balance(ledger[u]) \in Int /\ Balance(ledger'[u]) \in Int
    <3>1. ledger'[u] \in Seq(Entry)
      BY <2>2 DEF TypeInv
    <3>2. QED BY <2>2, <3>1, UserSums, SumsAre
  <2>6. QED BY <2>3, <2>4, <2>5
<1>9. SpentWasGranted'
  <2>1. SUFFICES ASSUME NEW u \in User, ~Loose(u)' PROVE SpentTotal(ledger'[u]) <= Granted(ledger'[u])
    BY DEF SpentWasGranted, Loose
  <2>2. SpentTotal(ledger[u]) <= Granted(ledger[u])
    BY <1>2, <2>1 DEF SpendInv, SpentWasGranted, Loose
  <2>3. QED BY <1>1, <2>2, UserSums
<1>10. QED BY <1>4, <1>5, <1>6, <1>7, <1>8, <1>9 DEF SpendInv

\* A spend enters: it is alone, and the balance it read covers it.
LEMMA EnterStep ==
  ASSUME TypeInv, TypeInv', SpendInv, NEW p \in Proc,
         call[p].pc = "begun", call[p].op \in {"unlock", "draft"},
         call[p].user \in closed \/ GrantLockFree(call[p].user),
         closed' = closed, ledger' = ledger,
         \A q \in Proc : q # p => call'[q] = call[q],
         call'[p].pc = "entered", call'[p].op = call[p].op, call'[p].user = call[p].user,
         call'[p].locked = (call[p].user \notin closed),
         NEW rows \in Seq(GrantEntry), call'[p].grants = rows,
         call[p].user \in closed => rows = <<>>,
         Balance(Post(ledger[call[p].user], rows)) >= Cost(p)
  PROVE  SpendInv'
<1> DEFINE u == call[p].user
           L == Post(ledger[u], rows)
<1>1. u \in User /\ ledger[u] \in Seq(Entry)
  BY CallTyped
<1>2. rows \in Seq(Entry) /\ NoSpend(rows) /\ SpentTotal(rows) = 0 /\ Granted(rows) \in Nat
  BY GrantSums, RowSums
<1>3. PICK cost \in Nat : cost = Cost(p) /\ cost > 0
  BY Constants DEF Cost
<1>4. Cost(p)' = cost
  BY <1>3 DEF Cost
<1> HIDE DEF u
<1>5. \A v \in User : Gifted(v)' <=> Gifted(v)
  BY DEF Gifted
<1>6. \A v \in User : Loose(v)' <=> Loose(v)
  BY <1>5 DEF Loose
<1>7. u \in closed => Loose(u)
  <2>1. SUFFICES ASSUME u \in closed PROVE Gifted(u)
    BY DEF Loose
  <2>2. rows = <<>>
    BY <2>1 DEF u
  <2>3. L = ledger[u]
    BY <1>1, <2>2, PostSmall
  <2>4. Balance(ledger[u]) >= cost
    BY <1>3, <2>3 DEF u
  <2>5. ~(Balance(ledger[u]) <= 0)
    BY <1>1, <1>3, <2>4, UserSums
  <2>6. QED BY <2>1, <2>5 DEF SpendInv, ClosedEmpty
<1>8. ASSUME NEW q \in Proc, q # p, Spending(q), call[q].user = u PROVE u \in closed
  <2>1. SUFFICES ASSUME u \notin closed PROVE FALSE
    OBVIOUS
  <2>2. call[q].locked
    BY <1>8, <2>1 DEF SpendInv, SpendLocked
  <2>3. GrantLockFree(u)
    BY <2>1 DEF u
  <2>4. QED BY <1>8, <2>2, <2>3 DEF GrantLockFree
<1>9. \A q \in Proc : q # p /\ Spending(q)' =>
        /\ Spending(q) /\ call'[q] = call[q] /\ Cost(q)' = Cost(q) /\ call[q].user \in User
  BY SpendTyped DEF Spending, Cost
<1>10. SpendLocked'
  <2>1. ASSUME NEW q \in Proc, Spending(q)', call'[q].user \notin closed' PROVE call'[q].locked
    <3>1. CASE q = p
      BY <2>1, <3>1
    <3>2. CASE q # p
      BY <1>9, <2>1, <3>2 DEF SpendInv, SpendLocked
    <3>3. QED BY <3>1, <3>2
  <2>2. QED BY <2>1 DEF SpendLocked
<1>11. SpendAlone'
  <2>1. ASSUME NEW q \in Proc, NEW r \in Proc, q # r, Spending(q)', Spending(r)',
               call'[q].user = call'[r].user
        PROVE  Loose(call[q].user)'
    <3>1. CASE q # p /\ r # p
      <4>1. Spending(q) /\ Spending(r) /\ call[q].user = call[r].user /\ call[q].user \in User
            /\ call'[q] = call[q]
        BY <1>9, <2>1, <3>1
      <4>2. Loose(call[q].user)
        BY <2>1, <4>1 DEF SpendInv, SpendAlone
      <4>3. QED BY <1>6, <4>1, <4>2
    <3>2. CASE q = p
      <4>1. Spending(r) /\ call[r].user = u /\ r # p
        BY <1>9, <2>1, <3>2 DEF u
      <4>2. Loose(u)
        BY <1>7, <1>8, <4>1
      <4>3. QED BY <1>1, <1>6, <3>2, <4>2 DEF u
    <3>3. CASE r = p
      <4>1. Spending(q) /\ call[q].user = u /\ q # p /\ call'[q] = call[q]
        BY <1>9, <2>1, <3>3 DEF u
      <4>2. Loose(u)
        BY <1>7, <1>8, <4>1
      <4>3. QED BY <1>1, <1>6, <4>1, <4>2
    <3>4. QED BY <3>1, <3>2, <3>3
  <2>2. QED BY <2>1 DEF SpendAlone
<1>12. SpendFits'
  <2>1. ASSUME NEW q \in Proc, Spending(q)', ~Loose(call[q].user)'
        PROVE  SpentTotal(ledger'[call'[q].user]) + Cost(q)'
                 <= Granted(ledger'[call'[q].user]) + Granted(call'[q].grants)
    <3>1. CASE q = p
      <4>1. L \in Seq(Entry)
        BY <1>1, <1>2, PostEffects
      <4>2. /\ Granted(L) = Granted(ledger[u]) + Granted(rows)
            /\ SpentTotal(L) = SpentTotal(ledger[u]) + SpentTotal(rows)
        BY <1>1, <1>2, SumsPost
      <4>3. Balance(L) >= cost
        BY <1>3 DEF u
      <4>4. /\ Balance(L) \in Int /\ SpentTotal(L) \in Int /\ Granted(L) \in Int
            /\ Balance(L) + SpentTotal(L) <= Granted(L)
        BY <4>1, SumsAre, BalanceBound
      <4>5. SpentTotal(ledger[u]) \in Int /\ Granted(ledger[u]) \in Int
        BY <1>1, UserSums
      <4> HIDE DEF L
      <4>6. SpentTotal(ledger[u]) + cost <= Granted(ledger[u]) + Granted(rows)
        BY <1>2, <4>2, <4>3, <4>4, <4>5
      <4>7. QED BY <1>4, <3>1, <4>6 DEF u
    <3>2. CASE q # p
      <4>1. Spending(q) /\ call'[q] = call[q] /\ Cost(q)' = Cost(q) /\ call[q].user \in User
        BY <1>9, <2>1, <3>2
      <4>2. ~Loose(call[q].user)
        BY <1>6, <2>1, <4>1
      <4>3. QED BY <4>1, <4>2 DEF SpendInv, SpendFits
    <3>3. QED BY <3>1, <3>2
  <2>2. QED BY <2>1 DEF SpendFits
<1>13. ClosedGrantsNothing'
  <2>1. ASSUME NEW q \in Proc, call'[q].user \in closed' PROVE call'[q].grants = <<>>
    <3>1. CASE q = p
      BY <2>1, <3>1
    <3>2. CASE q # p
      BY <2>1, <3>2 DEF SpendInv, ClosedGrantsNothing
    <3>3. QED BY <3>1, <3>2
  <2>2. QED BY <2>1 DEF ClosedGrantsNothing
<1>14. ClosedEmpty'
  BY DEF SpendInv, ClosedEmpty, Gifted
<1>15. SpentWasGranted'
  BY DEF SpendInv, SpentWasGranted, Gifted
<1>16. QED BY <1>10, <1>11, <1>12, <1>13, <1>14, <1>15 DEF SpendInv

\* A spend commits what it had entered.
LEMMA CommitStep ==
  ASSUME TypeInv, TypeInv', SpendInv, NEW p \in Proc, Spending(p), Commits(p),
         Ended(p), closed' = closed
  PROVE  SpendInv'
<1> DEFINE u == call[p].user
<1>1. /\ u \in User /\ Granted(call[p].grants) \in Nat /\ Cost(p) \in Nat
      /\ Granted(ledger[u]) \in Int /\ SpentTotal(ledger[u]) \in Int
  BY SpendTyped
<1>2. /\ SpentTotal(ledger'[u]) \in {SpentTotal(ledger[u]), SpentTotal(ledger[u]) + Cost(p)}
      /\ Granted(ledger'[u]) = Granted(ledger[u]) + Granted(call[p].grants)
      /\ RowsOf(ledger[u]) \subseteq RowsOf(ledger'[u])
      /\ call[p].grants = <<>> => Balance(ledger'[u]) <= Balance(ledger[u])
      /\ \A v \in User : v # u => ledger'[v] = ledger[v]
  BY DEF Commits
<1>3. call'[p] = Idle /\ \A q \in Proc : q # p => call'[q] = call[q]
  BY DEF Ended, Goes, TypeInv
<1>4. u \in closed => call[p].grants = <<>>
  BY DEF SpendInv, ClosedGrantsNothing
<1>5. ~Loose(u) => /\ SpentTotal(ledger[u]) + Cost(p) <= Granted(ledger[u]) + Granted(call[p].grants)
                   /\ SpentTotal(ledger[u]) <= Granted(ledger[u])
  BY <1>1 DEF SpendInv, SpendFits, SpentWasGranted, Loose
<1>6. \A q \in Proc : q # p /\ Spending(q) /\ call[q].user = u => Loose(u)
  BY DEF SpendInv, SpendAlone
<1> HIDE DEF u
<1>7. \A v \in User : Gifted(v) => Gifted(v)'
  <2>1. \A v \in User : RowsOf(ledger[v]) \subseteq RowsOf(ledger'[v])
    BY <1>2
  <2>2. \A v \in User : Gift(ledger[v]) => Gift(ledger'[v])
    BY <2>1 DEF Gift
  <2>3. \A v \in User : Gifted(v)' <=> Gift(ledger'[v])
    BY DEF Gifted, Gift, RowsOf
  <2>4. QED BY <2>2, <2>3, GiftedIs
<1>8. \A v \in User : Loose(v) => Loose(v)'
  BY <1>7 DEF Loose
<1>9. \A q \in Proc : Spending(q)' => /\ q # p /\ Spending(q) /\ call'[q] = call[q] /\ Cost(q)' = Cost(q)
                                      /\ call[q].user \in User
  BY <1>3, SpendTyped DEF Spending, Cost, Idle
<1>10. SpendLocked'
  BY <1>9 DEF SpendInv, SpendLocked
<1>11. SpendAlone'
  BY <1>8, <1>9 DEF SpendInv, SpendAlone
<1>12. SpendFits'
  <2>1. ASSUME NEW q \in Proc, Spending(q)', ~Loose(call[q].user)'
        PROVE  SpentTotal(ledger'[call'[q].user]) + Cost(q)'
                 <= Granted(ledger'[call'[q].user]) + Granted(call'[q].grants)
    <3>1. /\ q # p /\ Spending(q) /\ call'[q] = call[q] /\ Cost(q)' = Cost(q)
          /\ call[q].user \in User /\ ~Loose(call[q].user)
      BY <1>8, <1>9, <2>1
    <3>2. ledger'[call[q].user] = ledger[call[q].user]
      BY <1>2, <1>6, <3>1
    <3>3. QED BY <3>1, <3>2 DEF SpendInv, SpendFits
  <2>2. QED BY <2>1 DEF SpendFits
<1>13. ClosedGrantsNothing'
  BY <1>3 DEF SpendInv, ClosedGrantsNothing, Idle
<1>14. ClosedEmpty'
  <2>1. SUFFICES ASSUME NEW v \in closed, ~Gifted(v)' PROVE Balance(ledger'[v]) <= 0
    BY DEF ClosedEmpty
  <2>2. v \in User
    BY DEF TypeInv
  <2>3. Balance(ledger[v]) <= 0
    BY <1>7, <2>1, <2>2 DEF SpendInv, ClosedEmpty
  <2>4. Balance(ledger'[v]) <= Balance(ledger[v]) \/ ledger'[v] = ledger[v]
    BY <1>2, <1>4, <2>2
  <2>5. Balance(ledger[v]) \in Int /\ Balance(ledger'[v]) \in Int
    <3>1. ledger'[v] \in Seq(Entry)
      BY <2>2 DEF TypeInv
    <3>2. QED BY <2>2, <3>1, UserSums, SumsAre
  <2>6. QED BY <2>3, <2>4, <2>5
<1>15. SpentWasGranted'
  <2>1. SUFFICES ASSUME NEW v \in User, ~Loose(v)' PROVE SpentTotal(ledger'[v]) <= Granted(ledger'[v])
    BY DEF SpentWasGranted, Loose
  <2>2. ~Loose(v)
    BY <1>8, <2>1
  <2>3. CASE v # u
    BY <1>2, <2>2, <2>3 DEF SpendInv, SpentWasGranted, Loose
  <2>4. CASE v = u
    BY <1>1, <1>2, <1>5, <2>2, <2>4 DEF u
  <2>5. QED BY <2>3, <2>4
<1>16. QED BY <1>10, <1>11, <1>12, <1>13, <1>14, <1>15 DEF SpendInv

\* An account closes and is emptied: a spend under way had read a balance that covers it.
LEMMA DeletionStep ==
  ASSUME TypeInv, TypeInv', SpendInv, NEW d \in Proc, RequestDeletion(d), Frugal,
         NEW u \in User, u = call[d].user, Balance(ledger'[u]) <= 0
  PROVE  SpendInv'
<1>1. /\ closed' = closed \cup {u} /\ call'[d] = Idle
      /\ \A q \in Proc : q # d => call'[q] = call[q]
      /\ \A p \in Proc : call[p].user = u => call[p].grants = <<>>
  BY DEF RequestDeletion, Ended, Goes, TypeInv
<1>2. ASSUME NEW v \in User
      PROVE  /\ SpentTotal(ledger'[v]) = SpentTotal(ledger[v])
             /\ Granted(ledger'[v]) >= Granted(ledger[v])
             /\ Granted(ledger'[v]) \in Int
             /\ Gifted(v) => Gifted(v)'
             /\ v \in closed => Gifted(v)' \/ Balance(ledger'[v]) <= Balance(ledger[v])
             /\ Balance(ledger'[v]) \in Int
  <2>1. Unspending(ledger[v], ledger'[v])
    BY DEF Frugal
  <2>2. ledger'[v] \in Seq(Entry)
    BY DEF TypeInv
  <2>3. Gift(ledger[v]) => Gift(ledger'[v])
    BY <2>1 DEF Unspending, Gift
  <2>4. Gifted(v)' <=> Gift(ledger'[v])
    BY DEF Gifted, Gift, RowsOf
  <2>5. QED BY <2>1, <2>2, <2>3, <2>4, SumsAre, GiftedIs DEF Frugal, Unspending
<1>3. \A v \in User : Loose(v) => Loose(v)'
  BY <1>1, <1>2 DEF Loose
<1>4. \A p \in Proc : Spending(p)' => Spending(p) /\ call'[p] = call[p] /\ Cost(p)' = Cost(p)
                                      /\ call[p].user \in User
  BY <1>1, SpendTyped DEF Spending, Cost, Idle
<1>5. SpendLocked'
  BY <1>1, <1>4 DEF SpendInv, SpendLocked
<1>6. SpendAlone'
  BY <1>3, <1>4 DEF SpendInv, SpendAlone
<1>7. SpendFits'
  <2>1. ASSUME NEW p \in Proc, Spending(p)', ~Loose(call[p].user)'
        PROVE  SpentTotal(ledger'[call'[p].user]) + Cost(p)'
                 <= Granted(ledger'[call'[p].user]) + Granted(call'[p].grants)
    <3>1. PICK v \in User : Spending(p) /\ call'[p] = call[p] /\ Cost(p)' = Cost(p) /\ v = call[p].user
      BY <1>4, <2>1
    <3>2. ~Loose(v)
      BY <1>3, <2>1, <3>1
    <3>3. SpentTotal(ledger[v]) + Cost(p) <= Granted(ledger[v]) + Granted(call[p].grants)
      BY <3>1, <3>2 DEF SpendInv, SpendFits
    <3>4. Granted(call[p].grants) \in Int /\ Cost(p) \in Int /\ Granted(ledger[v]) \in Int /\ SpentTotal(ledger[v]) \in Int
      BY <3>1, SpendTyped
    <3>5. SpentTotal(ledger'[v]) + Cost(p) <= Granted(ledger'[v]) + Granted(call[p].grants)
      BY <1>2, <3>3, <3>4
    <3>6. QED BY <3>1, <3>5
  <2>2. QED BY <2>1 DEF SpendFits
<1>8. ClosedGrantsNothing'
  BY <1>1 DEF SpendInv, ClosedGrantsNothing, Idle
<1>9. ClosedEmpty'
  <2>1. SUFFICES ASSUME NEW v \in closed', ~Gifted(v)' PROVE Balance(ledger'[v]) <= 0
    BY DEF ClosedEmpty
  <2>2. v \in User
    BY DEF TypeInv
  <2>3. CASE v = u
    BY <2>3
  <2>4. CASE v # u
    <3>1. v \in closed /\ ~Gifted(v) /\ Balance(ledger'[v]) <= Balance(ledger[v])
      BY <1>1, <1>2, <2>1, <2>2, <2>4
    <3>2. Balance(ledger[v]) <= 0
      BY <3>1 DEF SpendInv, ClosedEmpty
    <3>3. QED BY <1>2, <2>2, <3>1, <3>2, UserSums
  <2>5. QED BY <2>3, <2>4
<1>10. SpentWasGranted'
  <2>1. SUFFICES ASSUME NEW v \in User, ~Loose(v)' PROVE SpentTotal(ledger'[v]) <= Granted(ledger'[v])
    BY DEF SpentWasGranted, Loose
  <2>2. SpentTotal(ledger[v]) <= Granted(ledger[v])
    BY <1>3, <2>1 DEF SpendInv, SpentWasGranted, Loose
  <2>3. QED BY <1>2, <2>2, UserSums
<1>11. QED BY <1>5, <1>6, <1>7, <1>8, <1>9, <1>10 DEF SpendInv
-----------------------------------------------------------------------------
(* The invariant *)

\* The inductive invariant.
IInv == TypeInv /\ SpendInv /\ PackInv

\* It holds at first.
LEMMA InitInv == Init => IInv
<1>1. SUFFICES ASSUME Init PROVE IInv
  OBVIOUS
<1>2. \A u \in User : ledger[u] = <<>>
  BY <1>1 DEF Init
<1>3. \A p \in Proc : call[p] = Idle
  BY <1>1 DEF Init
<1>4. \A p \in Proc : ~Spending(p) /\ ~Paying(p) /\ call[p].grants = <<>>
  BY <1>3 DEF Spending, Paying, Idle
<1>5. TypeInv
  <2>1. ledger \in [User -> Seq(Entry)]
    <3>1. <<>> \in Seq(Entry)
      OBVIOUS
    <3>2. QED BY <1>1, <3>1 DEF Init
  <2>2. plan \in [User -> Entitlement]
    <3>1. NoEnt \in Entitlement
      BY DEF NoEnt, Entitlement
    <3>2. QED BY <1>1, <3>1 DEF Init
  <2>3. effect \in [Pay -> Effect]
    <3>1. NoEffect \in Effect
      BY DEF NoEffect, Effect
    <3>2. QED BY <1>1, <3>1 DEF Init
  <2>4. call \in [Proc -> Call]
    BY <1>1, IdleCall DEF Init
  <2>5. cache \in [Hotel -> {"none", "found", "not_found", "invalid"}]
    BY <1>1 DEF Init
  <2>6. QED BY <1>1, <2>1, <2>2, <2>3, <2>4, <2>5 DEF Init, TypeInv
<1>6. SpendInv
  <2>1. SpentWasGranted
    BY <1>2, SumsSmall DEF SpentWasGranted
  <2>2. ClosedEmpty
    BY <1>1 DEF ClosedEmpty, Init
  <2>3. QED BY <1>4, <2>1, <2>2
           DEF SpendInv, SpendLocked, SpendAlone, SpendFits, ClosedGrantsNothing
<1>7. PackInv
  <2>1. \A u \in User : RowsOf(ledger[u]) = {}
    BY <1>2 DEF RowsOf
  <2>2. PackReversedOnce
    <3>1. \A u \in User, k \in Pack : PackRest(ledger[u], k) = 0
      BY <1>2, SumsSmall
    <3>2. QED BY <3>1 DEF PackReversedOnce
  <2>3. QED BY <1>4, <2>1, <2>2 DEF PackInv, NotRevoked, PayAlone, PayNew, ReversalFits
<1>8. QED BY <1>5, <1>6, <1>7 DEF IInv

\* Most actions write no row of a pack and enter neither a spend nor a payment.
LEMMA QuietStep ==
  ASSUME IInv, TypeInv', Quiet, Frugal, paid' = paid, closed' = closed,
         \A p \in Proc : \/ call'[p] = call[p]
                         \/ /\ ~Spending(p)' /\ ~Paying(p)'
                            /\ \/ call'[p].grants = <<>>
                               \/ call'[p].grants = call[p].grants /\ call'[p].user = call[p].user
  PROVE  IInv'
<1>1. PackInv'
  BY PackKept DEF IInv
<1>2. SpendInv'
  BY SpendKept DEF IInv
<1>3. QED BY <1>1, <1>2 DEF IInv

\* A call at its end neither spends nor pays.
LEMMA EndedIs ==
  ASSUME TypeInv, NEW p \in Proc, Ended(p)
  PROVE  /\ ~Spending(p)' /\ ~Paying(p)' /\ call'[p].grants = <<>>
         /\ \A q \in Proc : q # p => call'[q] = call[q]
<1>1. call'[p] = Idle /\ \A q \in Proc : q # p => call'[q] = call[q]
  BY DEF Ended, Goes, TypeInv
<1>2. QED BY <1>1 DEF Spending, Paying, Idle

\* The beginning of a call keeps the invariant.
LEMMA BeginsStep ==
  ASSUME IInv, NEW p \in Proc, NEW u \in User, NEW op, NEW ref, Starts(u, op, ref),
         Begin(p, u, op, ref)
  PROVE  IInv'
<1>1. TypeInv /\ TypeInv' /\ Quiet /\ Frugal /\ call'[p] = NewCall(u, op, ref, now)
  BY BeginType DEF IInv
<1>2. ~Spending(p)' /\ ~Paying(p)' /\ call'[p].grants = <<>>
  BY <1>1 DEF NewCall, Idle, Spending, Paying
<1>3. closed' = closed /\ paid' = paid /\ \A q \in Proc : q # p => call'[q] = call[q]
  BY <1>1 DEF Begin, Goes, TypeInv
<1>4. QED BY <1>1, <1>2, <1>3, QuietStep

\* EnterUnlock keeps the invariant.
LEMMA EnterUnlockStep ==
  ASSUME IInv, NEW p \in Proc, EnterUnlock(p)
  PROVE  IInv'
<1> DEFINE c == call[p]
           rows == GrantRows(c.user, ledger[c.user], plan[c.user], c.at)
           L == Post(ledger[c.user], rows)
           e == [c EXCEPT !.pc = "entered", !.locked = c.user \notin closed,
                          !.grants = rows,
                          !.amount = IF cache[c.ref] = "found" THEN 1 ELSE 0]
           l == [c EXCEPT !.pc = "lookup"]
<1>1. TypeInv /\ TypeInv' /\ Quiet /\ Frugal /\ SpendInv /\ PackInv
  BY EnterUnlockType DEF IInv
<1>2. /\ c.pc = "begun" /\ c.op = "unlock" /\ c.user \in User /\ c \in CallFields
      /\ ledger[c.user] \in Seq(Entry)
  BY <1>1, CallTyped, CallIs DEF EnterUnlock
<1>3. rows \in Seq(GrantEntry) /\ rows \in Seq(Entry) /\ (c.user \in closed => rows = <<>>)
  BY <1>1, <1>2, GrantsOf
<1>4. /\ UNCHANGED <<now, closed, paid>>
      /\ c.user \in closed \/ GrantLockFree(c.user)
      /\ \/ Verdict(c.user, c.ref, L, c.at) = "unlocked" /\ Goes(p, e) /\ UNCHANGED ledger
         \/ Goes(p, l)
         \/ Ended(p)
  BY DEF EnterUnlock
<1>5. CASE Verdict(c.user, c.ref, L, c.at) = "unlocked" /\ Goes(p, e) /\ UNCHANGED ledger
  <2>1. Balance(L) >= UnlockCost
    <3>1. ~(Balance(L) < UnlockCost)
      BY <1>5 DEF Verdict
    <3>2. L \in Seq(Entry)
      BY <1>2, <1>3, PostEffects
    <3>3. Balance(L) \in Int /\ UnlockCost \in Int
      BY <3>2, SumsAre, Constants
    <3>4. QED BY <3>1, <3>3
  <2> HIDE DEF rows
  <2>2. /\ e.pc = "entered" /\ e.op = c.op /\ e.user = c.user
        /\ e.locked = (c.user \notin closed) /\ e.grants = rows
    BY <1>2 DEF CallFields
  <2> HIDE DEF e
  <2>3. call'[p] = e /\ \A q \in Proc : q # p => call'[q] = call[q]
    BY <1>1, <1>5 DEF Goes, TypeInv
  <2>4. Balance(L) >= Cost(p)
    BY <1>2, <2>1 DEF Cost
  <2>5. SpendInv'
    BY <1>1, <1>2, <1>3, <1>4, <1>5, <2>2, <2>3, <2>4, EnterStep
  <2>6. \A q \in Proc : call'[q] = call[q] \/ ~Paying(q)'
    BY <1>2, <2>2, <2>3 DEF Paying, Payments, Reversals
  <2>7. PackInv'
    BY <1>1, <1>4, <2>6, PackKept
  <2>8. QED BY <1>1, <2>5, <2>7 DEF IInv
<1>6. CASE Goes(p, l)
  <2>1. l.pc = "lookup" /\ l.grants = c.grants /\ l.user = c.user
    BY <1>2 DEF CallFields
  <2> HIDE DEF l
  <2>2. call'[p] = l /\ \A q \in Proc : q # p => call'[q] = call[q]
    BY <1>1, <1>6 DEF Goes, TypeInv
  <2>3. ~Spending(p)' /\ ~Paying(p)'
    BY <2>1, <2>2 DEF Spending, Paying
  <2>4. QED BY <1>1, <1>4, <2>1, <2>2, <2>3, QuietStep
<1>7. CASE Ended(p)
  BY <1>1, <1>4, <1>7, EndedIs, QuietStep
<1>8. QED BY <1>4, <1>5, <1>6, <1>7

\* EnterDraft keeps the invariant.
LEMMA EnterDraftStep ==
  ASSUME IInv, NEW p \in Proc, EnterDraft(p)
  PROVE  IInv'
<1> DEFINE c == call[p]
           rows == GrantRows(c.user, ledger[c.user], plan[c.user], c.at)
           L == Post(ledger[c.user], rows)
           e == [c EXCEPT !.pc = "entered", !.locked = c.user \notin closed, !.grants = rows]
<1>1. TypeInv /\ TypeInv' /\ Quiet /\ Frugal /\ SpendInv /\ PackInv
  BY EnterDraftType DEF IInv
<1>2. /\ c.pc = "begun" /\ c.op = "draft" /\ c.user \in User /\ c \in CallFields
      /\ ledger[c.user] \in Seq(Entry)
  BY <1>1, CallTyped, CallIs DEF EnterDraft
<1>3. rows \in Seq(GrantEntry) /\ rows \in Seq(Entry) /\ (c.user \in closed => rows = <<>>)
  BY <1>1, <1>2, GrantsOf
<1>4. /\ UNCHANGED <<now, closed, paid>>
      /\ c.user \in closed \/ GrantLockFree(c.user)
      /\ \/ ~(Balance(L) < DraftCost) /\ Goes(p, e) /\ UNCHANGED ledger
         \/ Ended(p)
  BY DEF EnterDraft
<1>5. CASE ~(Balance(L) < DraftCost) /\ Goes(p, e) /\ UNCHANGED ledger
  <2>1. Balance(L) >= DraftCost
    <3>1. L \in Seq(Entry)
      BY <1>2, <1>3, PostEffects
    <3>2. Balance(L) \in Int /\ DraftCost \in Int
      BY <3>1, SumsAre, Constants
    <3>3. QED BY <1>5, <3>2
  <2> HIDE DEF rows
  <2>2. /\ e.pc = "entered" /\ e.op = c.op /\ e.user = c.user
        /\ e.locked = (c.user \notin closed) /\ e.grants = rows
    BY <1>2 DEF CallFields
  <2> HIDE DEF e
  <2>3. call'[p] = e /\ \A q \in Proc : q # p => call'[q] = call[q]
    BY <1>1, <1>5 DEF Goes, TypeInv
  <2>4. Balance(L) >= Cost(p)
    BY <1>2, <2>1 DEF Cost
  <2>5. SpendInv'
    BY <1>1, <1>2, <1>3, <1>4, <1>5, <2>2, <2>3, <2>4, EnterStep
  <2>6. \A q \in Proc : call'[q] = call[q] \/ ~Paying(q)'
    BY <1>2, <2>2, <2>3 DEF Paying, Payments, Reversals
  <2>7. PackInv'
    BY <1>1, <1>4, <2>6, PackKept
  <2>8. QED BY <1>1, <2>5, <2>7 DEF IInv
<1>6. CASE Ended(p)
  BY <1>1, <1>4, <1>6, EndedIs, QuietStep
<1>7. QED BY <1>4, <1>5, <1>6

\* The commits keep the invariant.
LEMMA CommitsStep ==
  ASSUME IInv, NEW p \in Proc, CommitUnlock(p) \/ CommitDraft(p)
  PROVE  IInv'
<1>1. TypeInv /\ TypeInv' /\ Quiet /\ Commits(p) /\ SpendInv /\ PackInv
  BY CommitUnlockType, CommitDraftType DEF IInv
<1>2. Spending(p) /\ Ended(p) /\ UNCHANGED <<closed, paid>>
  BY DEF CommitUnlock, CommitDraft, Spending
<1>3. SpendInv'
  BY <1>1, <1>2, CommitStep
<1>4. PackInv'
  BY <1>1, <1>2, EndedIs, PackKept
<1>5. QED BY <1>1, <1>3, <1>4 DEF IInv

\* The other steps that end a call, and the lookup, keep the invariant.
LEMMA CallStep ==
  ASSUME IInv, NEW p \in Proc,
         \/ Refresh(p) \/ Die(p) \/ AdminGrant(p) \/ GrantPlan(p) \/ ReversePlan(p)
         \/ \E d \in {"accept", "reject"} : ReviewReport(p, d)
         \/ \E answer \in {"found", "not_found"} : Lookup(p, answer)
  PROVE  IInv'
<1>1. TypeInv /\ TypeInv' /\ Quiet /\ Frugal
  BY RefreshType, DieType, AdminGrantType, GrantPlanType, ReversePlanType, ReviewReportType,
     LookupType DEF IInv
<1>2. UNCHANGED <<closed, paid>>
  BY DEF Refresh, Die, AdminGrant, GrantPlan, ReversePlan, ReviewReport, Lookup
<1>3. CASE Ended(p)
  BY <1>1, <1>2, <1>3, EndedIs, QuietStep
<1>4. CASE \E answer \in {"found", "not_found"} : Lookup(p, answer)
  <2> DEFINE b == [call[p] EXCEPT !.pc = "begun", !.at = now, !.second = TRUE]
  <2>1. call[p] \in CallFields
    BY <1>1, CallTyped, CallIs
  <2>2. b.pc = "begun" /\ b.grants = call[p].grants /\ b.user = call[p].user
    BY <2>1 DEF CallFields
  <2>3. call'[p] = b /\ \A q \in Proc : q # p => call'[q] = call[q]
    BY <1>1, <1>4 DEF Lookup, Goes, TypeInv
  <2> HIDE DEF b
  <2>4. ~Spending(p)' /\ ~Paying(p)'
    BY <2>2, <2>3 DEF Spending, Paying
  <2>5. QED BY <1>1, <1>2, <2>2, <2>3, <2>4, QuietStep
<1>5. QED BY <1>3, <1>4 DEF Refresh, Die, AdminGrant, GrantPlan, ReversePlan, ReviewReport

\* The steps of a pack's payment and of the reading of a reversal keep the invariant.
LEMMA PaymentStep ==
  ASSUME IInv, NEW p \in Proc,
         EnterPayment(p) \/ GrantPack(p) \/ ReadReversal(p) \/ ReversePack(p)
  PROVE  IInv'
<1>1. TypeInv /\ PackInv /\ SpendInv /\ TypeInv' /\ Frugal
  BY EnterPaymentType, GrantPackType, ReadReversalType, ReversePackType DEF IInv
<1>2. PackInv'
  BY <1>1, EnterPaymentStep, GrantPackStep, ReadReversalStep, ReversePackStep
<1>3. closed' = closed
  BY DEF EnterPayment, GrantPack, ReadReversal, ReversePack
<1>4. \/ Ended(p)
      \/ /\ call'[p].grants = call[p].grants /\ call'[p].user = call[p].user
         /\ ~Spending(p)' /\ \A q \in Proc : q # p => call'[q] = call[q]
  <2>1. CASE EnterPayment(p)
    <3> DEFINE c == call[p]
               new == [c EXCEPT !.was = plan[c.user]]
               key == KeyOf(c.user, Window(new), Period(Window(new), c.at))
               n == IF c.ref \in Pay /\ Has(ledger[c.user], "plan_monthly", key) THEN 1 ELSE 0
               e == [new EXCEPT !.pc = "entered", !.amount = n]
    <3>1. c \in CallFields /\ c.op = "pay" /\ (Ended(p) \/ Goes(p, e))
      BY <1>1, <2>1, CallTyped, CallIs DEF EnterPayment
    <3> HIDE DEF n
    <3>2. e.op = "pay" /\ e.grants = c.grants /\ e.user = c.user
      BY <3>1 DEF CallFields
    <3> HIDE DEF e
    <3>3. Goes(p, e) => call'[p] = e /\ \A q \in Proc : q # p => call'[q] = call[q]
      BY <1>1 DEF Goes, TypeInv
    <3>4. QED BY <3>1, <3>2, <3>3 DEF Spending
  <2>2. CASE ReadReversal(p)
    <3> DEFINE c == call[p]
               n == Take(c.user, c.op, c.ref)
               e == [c EXCEPT !.pc = "entered", !.amount = n]
    <3>1. c \in CallFields /\ c.op \in Reversals /\ (Ended(p) \/ Goes(p, e))
      BY <1>1, <2>2, CallTyped, CallIs DEF ReadReversal, Reversals
    <3> HIDE DEF n
    <3>2. e.op = c.op /\ e.grants = c.grants /\ e.user = c.user
      BY <3>1 DEF CallFields
    <3> HIDE DEF e
    <3>3. Goes(p, e) => call'[p] = e /\ \A q \in Proc : q # p => call'[q] = call[q]
      BY <1>1 DEF Goes, TypeInv
    <3>4. QED BY <3>1, <3>2, <3>3 DEF Spending, Reversals
  <2>3. QED BY <2>1, <2>2 DEF GrantPack, ReversePack
<1>5. SpendInv'
  BY <1>1, <1>3, <1>4, EndedIs, SpendKept
<1>6. QED BY <1>1, <1>2, <1>5 DEF IInv

\* The request to delete the account keeps the invariant.
LEMMA RequestDeletionStep ==
  ASSUME IInv, NEW p \in Proc, RequestDeletion(p)
  PROVE  IInv'
<1>1. /\ TypeInv /\ TypeInv' /\ Quiet /\ Frugal /\ SpendInv /\ PackInv /\ call[p].user \in User
      /\ call[p].user \notin closed => Balance(ledger'[call[p].user]) <= 0
  BY RequestDeletionType, CallTyped DEF IInv, RequestDeletion
<1>2. Ended(p) /\ paid' = paid /\ closed' = closed \cup {call[p].user}
  BY DEF RequestDeletion
<1>3. PackInv'
  BY <1>1, <1>2, EndedIs, PackKept
<1>4. SpendInv'
  <2>1. CASE call[p].user \in closed
    <3>1. closed' = closed
      BY <1>2, <2>1
    <3>2. QED BY <1>1, <1>2, <3>1, EndedIs, SpendKept
  <2>2. CASE call[p].user \notin closed
    BY <1>1, <2>2, DeletionStep
  <2>3. QED BY <2>1, <2>2
<1>5. QED BY <1>1, <1>3, <1>4 DEF IInv

\* Every step keeps the invariant.
LEMMA NextInv == IInv /\ [Next]_vars => IInv'
<1>1. SUFFICES ASSUME IInv, [Next]_vars PROVE IInv'
  OBVIOUS
<1>2. CASE UNCHANGED vars
  <2>1. TypeInv /\ ledger' = ledger /\ call' = call /\ paid' = paid /\ closed' = closed
    BY <1>1, <1>2 DEF IInv, vars
  <2>2. TypeInv'
    BY <1>2, <2>1 DEF TypeInv, vars
  <2>3. QED BY <1>1, <2>1, <2>2, Untouched, QuietStep
<1>3. CASE Tick \/ \E u \in User, h \in Hotel : SaveHotel(u, h) \/ CloseItem(u, h) \/ Report(u, h)
  <2>1. TypeInv' /\ Quiet /\ Frugal
    BY <1>1, <1>3, TickType, SavesType DEF IInv
  <2>2. call' = call /\ closed' = closed /\ paid' = paid
    BY <1>3 DEF Tick, SaveHotel, CloseItem, Report
  <2>3. QED BY <1>1, <2>1, <2>2, QuietStep
<1>4. ASSUME NEW p \in Proc, NEW u \in User,
             \/ \E op \in {"refresh", "admin_grant", "delete"} : Begin(p, u, op, None)
             \/ \E h \in Hotel : Begin(p, u, "unlock", h) \/ Begin(p, u, "review", h)
             \/ \E d \in Draft : Begin(p, u, "draft", d)
      PROVE  IInv'
  <2>1. PICK op, ref : Starts(u, op, ref) /\ Begin(p, u, op, ref)
    BY <1>4 DEF Starts
  <2>2. QED BY <1>1, <2>1, BeginsStep
<1>5. ASSUME NEW p \in Proc, NEW k \in Pack \cup Pay, NEW op \in Payments, Begin(p, Payer[k], op, k)
      PROVE  IInv'
  <2>1. Starts(Payer[k], op, k) /\ Payer[k] \in User
    BY Constants DEF Starts
  <2>2. QED BY <1>1, <1>5, <2>1, BeginsStep
<1>6. ASSUME NEW p \in Proc,
             \/ Refresh(p) \/ EnterUnlock(p) \/ CommitUnlock(p)
             \/ EnterDraft(p) \/ CommitDraft(p)
             \/ EnterPayment(p) \/ GrantPack(p) \/ GrantPlan(p)
             \/ ReadReversal(p) \/ ReversePack(p) \/ ReversePlan(p)
             \/ AdminGrant(p) \/ RequestDeletion(p) \/ Die(p)
             \/ \E d \in {"accept", "reject"} : ReviewReport(p, d)
             \/ \E answer \in {"found", "not_found"} : Lookup(p, answer)
      PROVE  IInv'
  BY <1>1, <1>6, EnterUnlockStep, EnterDraftStep, CommitsStep, CallStep, PaymentStep,
     RequestDeletionStep
<1>7. CASE Next
  <2>1. \/ Tick
        \/ \E u \in User, h \in Hotel : SaveHotel(u, h) \/ CloseItem(u, h) \/ Report(u, h)
        \/ \E p \in Proc, u \in User :
             \/ \E op \in {"refresh", "admin_grant", "delete"} : Begin(p, u, op, None)
             \/ \E h \in Hotel : Begin(p, u, "unlock", h) \/ Begin(p, u, "review", h)
             \/ \E d \in Draft : Begin(p, u, "draft", d)
        \/ \E p \in Proc, k \in Pack \cup Pay, op \in Payments : Begin(p, Payer[k], op, k)
        \/ \E p \in Proc :
             \/ Refresh(p) \/ EnterUnlock(p) \/ CommitUnlock(p)
             \/ EnterDraft(p) \/ CommitDraft(p)
             \/ EnterPayment(p) \/ GrantPack(p) \/ GrantPlan(p)
             \/ ReadReversal(p) \/ ReversePack(p) \/ ReversePlan(p)
             \/ AdminGrant(p) \/ RequestDeletion(p) \/ Die(p)
             \/ \E d \in {"accept", "reject"} : ReviewReport(p, d)
             \/ \E answer \in {"found", "not_found"} : Lookup(p, answer)
    BY <1>7 DEF Next, Payments, Reversals
  <2>2. QED BY <1>3, <1>4, <1>5, <1>6, <2>1
<1>8. QED BY <1>1, <1>2, <1>7

-----------------------------------------------------------------------------
(* The theorems. *)

\* The invariant holds throughout.
LEMMA InvariantHolds == Spec => []IInv
BY InitInv, NextInv, PTL DEF Spec

\* Rows as the code writes them have their types.
LEMMA EntriesTyped ==
  ASSUME NEW L \in Seq(Entry)
  PROVE  Typed(L)
<1>1. DOMAIN L = 1..Len(L)
  OBVIOUS
<1>2. ASSUME NEW i \in DOMAIN L PROVE L[i].kind \in Kinds /\ L[i] \in Rows(L[i].kind)
  <2>1. PICK r \in Entry : r = L[i]
    BY <1>1
  <2>2. r \in [kind : Kinds, ref : Ref, delta : Int \ {0}, at : Nat] /\ r.ref \in RefsOf(r.kind)
    BY DEF Entry
  <2>3. r \in Rows(r.kind)
    BY <2>2 DEF Rows
  <2>4. QED BY <2>1, <2>2, <2>3
<1>3. QED BY <1>1, <1>2 DEF Typed

\* Every table and call holds values of its type: in particular no row is ever
\* written with a zero delta, whatever is left of a grant or a pack.
THEOREM TypeCorrect == Spec => []TypeOK
<1>1. ASSUME TypeInv PROVE TypeOK
  <2>1. DOMAIN ledger = User /\ \A u \in User : Typed(ledger[u])
    BY <1>1, EntriesTyped DEF TypeInv
  <2>2. \A p \in Proc : call[p] \in Call
    BY <1>1 DEF TypeInv
  <2>3. \A p \in Proc : Typed(call[p].grants)
    <3>1. ASSUME NEW p \in Proc PROVE Typed(call[p].grants)
      <4>1. call[p].grants \in Seq(GrantEntry)
        BY <2>2, CallIs
      <4>2. QED BY <4>1, GrantSums, EntriesTyped
    <3>2. QED BY <3>1
  <2> DEFINE G == {call[p].grants : p \in Proc}
             D == [pc : {"idle", "begun", "lookup", "entered"},
                        op : {"refresh", "unlock", "draft", "pay", "refund", "chargeback",
                              "review", "admin_grant", "delete"},
                        user : User \cup {None}, ref : {None} \cup Hotel \cup Draft \cup Pack \cup Pay,
                        at : Nat, second : BOOLEAN, locked : BOOLEAN,
                        grants : G, amount : Int, was : Entitlement]
  <2>4. ASSUME NEW p \in Proc PROVE call[p] \in D
    <3>1. PICK c \in CallFields : c = call[p]
      BY <2>2, CallIs
    <3>2. c.grants \in G
      BY <3>1
    <3> HIDE DEF G
    <3>3. c \in D
      BY <3>2 DEF CallFields, Pcs, Ops
    <3>4. QED BY <3>1, <3>3
  <2>5. call \in [Proc -> D]
    <3> HIDE DEF D
    <3>1. call \in [Proc -> Call]
      BY <1>1 DEF TypeInv
    <3>2. QED BY <2>4, <3>1
  <2>6. QED BY <1>1, <2>1, <2>3, <2>5 DEF TypeInv, TypeOK
<1>2. IInv => TypeOK
  BY <1>1 DEF IInv
<1>3. QED BY <1>2, InvariantHolds, PTL

\* However unlocks, drafts, refreshes, payments, reversals and a deletion overlap, an
\* account spends no more than it was granted, but for a closed one that was given credits
\* after all; refunds and chargebacks of one pack take no more than the pack gave.
THEOREM NothingIsTakenTwice == Spec => []NothingTwice
<1>1. IInv => NothingTwice
  BY DEF IInv, SpendInv, PackInv, NothingTwice
<1>2. QED BY <1>1, InvariantHolds, PTL

-----------------------------------------------------------------------------
(* Unlocks show an address *)

\* What an unlock shows and saves, step by step.
LEMMA ShownStep ==
  ASSUME ~ChargeOnMiss, IInv, Shown, PaidForAddress, [Next]_vars
  PROVE  /\ Shown' /\ PaidForAddress'
         /\ \A u \in User, h \in Hotel : <<u, h>> \in owned' \ owned =>
              /\ h \in saved'[u]
              /\ \/ h \in saved[u] \/ Cardinality(saved[u]) < FreeSaved
                 \/ \E p \in Proc : call[p].user = u /\ Covers(plan[u], call[p].at)
<1> DEFINE Saves == \A u \in User, h \in Hotel : <<u, h>> \in owned' \ owned =>
              /\ h \in saved'[u]
              /\ \/ h \in saved[u] \/ Cardinality(saved[u]) < FreeSaved
                 \/ \E p \in Proc : call[p].user = u /\ Covers(plan[u], call[p].at)
           Goal == Shown' /\ PaidForAddress' /\ Saves
<1> SUFFICES Goal
  OBVIOUS
<1>1. TypeInv /\ cache \in [Hotel -> {"none", "found", "not_found", "invalid"}]
      /\ saved \in [User -> SUBSET Hotel] /\ call \in [Proc -> Call]
  BY DEF IInv, TypeInv
<1>2. ASSUME owned' = owned, \A h \in Hotel : cache[h] \in {"found", "invalid"} => cache'[h] \in {"found", "invalid"},
             \A p \in Proc : \/ call'[p] = call[p] \/ call'[p].pc # "entered" \/ call'[p].op # "unlock"
                             \/ call'[p].amount = 1 /\ cache'[call'[p].ref] \in {"found", "invalid"}
      PROVE  Goal
  <2>1. Saves
    BY <1>2
  <2>2. PaidForAddress'
    BY <1>2 DEF PaidForAddress
  <2>3. Shown'
    <3>1. ASSUME NEW p \in Proc, call'[p].pc = "entered", call'[p].op = "unlock"
          PROVE  call'[p].amount = 1 /\ cache'[call'[p].ref] \in {"found", "invalid"}
      <4>1. CASE call'[p] = call[p]
        <5>1. call[p].ref \in Hotel
          BY <1>1, <3>1, <4>1, CallTyped, CallIs DEF Shaped
        <5>2. QED BY <1>2, <3>1, <4>1, <5>1 DEF Shown
      <4>2. QED BY <1>2, <3>1, <4>1
    <3>2. QED BY <3>1 DEF Shown
  <2>4. QED BY <2>1, <2>2, <2>3
<1>3. ASSUME NEW p \in Proc, Ended(p) PROVE call'[p].pc # "entered" /\ \A q \in Proc : q # p => call'[q] = call[q]
  <2>1. call'[p] = Idle /\ \A q \in Proc : q # p => call'[q] = call[q]
    BY <1>1, <1>3 DEF Ended, Goes
  <2>2. QED BY <2>1 DEF Idle
<1> HIDE DEF Goal
<1>4. CASE UNCHANGED vars
  BY <1>2, <1>4 DEF vars
<1>5. CASE Tick \/ \E u \in User, h \in Hotel : SaveHotel(u, h) \/ CloseItem(u, h) \/ Report(u, h)
  BY <1>2, <1>5 DEF Tick, SaveHotel, CloseItem, Report
<1>6. ASSUME NEW p \in Proc, NEW u, NEW op, NEW ref, Begin(p, u, op, ref) PROVE Goal
  <2>1. call'[p] = NewCall(u, op, ref, now) /\ \A q \in Proc : q # p => call'[q] = call[q]
    BY <1>1, <1>6 DEF Begin, Goes, NewCall
  <2>2. call'[p].pc # "entered"
    BY <2>1 DEF NewCall, Idle
  <2>3. QED BY <1>2, <1>6, <2>1, <2>2 DEF Begin
<1>7. ASSUME NEW p \in Proc,
             \/ Refresh(p) \/ Die(p) \/ CommitDraft(p) \/ GrantPack(p) \/ GrantPlan(p)
             \/ ReversePack(p) \/ ReversePlan(p) \/ AdminGrant(p) \/ RequestDeletion(p)
      PROVE  Goal
  <2>1. Ended(p) /\ owned' = owned /\ cache' = cache
    BY <1>7 DEF Refresh, Die, CommitDraft, GrantPack, GrantPlan, ReversePack, ReversePlan,
                AdminGrant, RequestDeletion
  <2>2. QED BY <1>2, <1>3, <2>1
<1>8. ASSUME NEW p \in Proc, EnterDraft(p) \/ EnterPayment(p) \/ ReadReversal(p) PROVE Goal
  <2>1. owned' = owned /\ cache' = cache /\ call[p].op # "unlock" /\ call[p] \in CallFields
    BY <1>1, <1>8, CallTyped, CallIs DEF EnterDraft, EnterPayment, ReadReversal
  <2>2. call'[p].op = call[p].op \/ call'[p].pc # "entered"
    <3>1. CASE Ended(p)
      BY <1>3, <3>1
    <3>2. CASE ~Ended(p) /\ EnterDraft(p)
      <4> DEFINE rows == GrantRows(call[p].user, ledger[call[p].user], plan[call[p].user], call[p].at)
                 e == [call[p] EXCEPT !.pc = "entered", !.locked = call[p].user \notin closed, !.grants = rows]
      <4>1. Goes(p, e)
        BY <3>2 DEF EnterDraft
      <4> HIDE DEF rows
      <4>2. e.op = call[p].op
        BY <2>1 DEF CallFields
      <4> HIDE DEF e
      <4>3. QED BY <1>1, <4>1, <4>2 DEF Goes
    <3>3. CASE ~Ended(p) /\ ReadReversal(p)
      <4> DEFINE n == Take(call[p].user, call[p].op, call[p].ref)
                 e == [call[p] EXCEPT !.pc = "entered", !.amount = n]
      <4>1. Goes(p, e)
        BY <3>3 DEF ReadReversal
      <4> HIDE DEF n
      <4>2. e.op = call[p].op
        BY <2>1 DEF CallFields
      <4> HIDE DEF e
      <4>3. QED BY <1>1, <4>1, <4>2 DEF Goes
    <3>4. CASE ~Ended(p) /\ EnterPayment(p)
      <4> DEFINE c == call[p]
                 new == [c EXCEPT !.was = plan[c.user]]
                 key == KeyOf(c.user, Window(new), Period(Window(new), c.at))
                 n == IF c.ref \in Pay /\ Has(ledger[c.user], "plan_monthly", key) THEN 1 ELSE 0
                 e == [new EXCEPT !.pc = "entered", !.amount = n]
      <4>1. Goes(p, e)
        BY <3>4 DEF EnterPayment
      <4> HIDE DEF n
      <4>2. e.op = call[p].op
        BY <2>1 DEF CallFields
      <4> HIDE DEF e
      <4>3. QED BY <1>1, <4>1, <4>2 DEF Goes
    <3>5. QED BY <1>8, <3>1, <3>2, <3>3, <3>4
  <2>3. \A q \in Proc : q # p => call'[q] = call[q]
    BY <1>1, <1>8 DEF EnterDraft, EnterPayment, ReadReversal, Ended, Goes
  <2>4. QED BY <1>2, <2>1, <2>2, <2>3
<1>9. ASSUME NEW p \in Proc, EnterUnlock(p) PROVE Goal
  <2> DEFINE c == call[p]
             rows == GrantRows(c.user, ledger[c.user], plan[c.user], c.at)
             L == Post(ledger[c.user], rows)
             n == IF cache[c.ref] = "found" THEN 1 ELSE 0
             e == [c EXCEPT !.pc = "entered", !.locked = c.user \notin closed,
                            !.grants = rows, !.amount = n]
             l == [c EXCEPT !.pc = "lookup"]
  <2>1. /\ owned' = owned /\ cache' = cache
        /\ \/ Verdict(c.user, c.ref, L, c.at) = "unlocked" /\ Goes(p, e)
           \/ Goes(p, l)
           \/ Ended(p)
    BY <1>9 DEF EnterUnlock
  <2>2. c \in CallFields /\ c.op = "unlock" /\ c.ref \in Hotel
    BY <1>1, <1>9, CallTyped, CallIs DEF EnterUnlock, Shaped
  <2>3. CASE Ended(p)
    BY <1>2, <1>3, <2>1, <2>3
  <2>4. CASE Goes(p, l)
    <3>1. l.pc # "entered"
      BY <2>2 DEF CallFields
    <3> HIDE DEF l
    <3>2. call'[p] = l /\ \A q \in Proc : q # p => call'[q] = call[q]
      BY <1>1, <2>4 DEF Goes
    <3>3. QED BY <1>2, <2>1, <3>1, <3>2
  <2>5. CASE Verdict(c.user, c.ref, L, c.at) = "unlocked" /\ Goes(p, e)
    <3>1. cache[c.ref] = "found"
      <4>1. cache[c.ref] # "none" /\ cache[c.ref] # "invalid" /\ cache[c.ref] # "not_found"
        BY <2>5 DEF Verdict
      <4>2. QED BY <1>1, <2>2, <4>1
    <3>2. n = 1
      BY <3>1
    <3> HIDE DEF rows, n
    <3>3. e.amount = 1 /\ e.ref = c.ref
      BY <2>2, <3>2 DEF CallFields
    <3> HIDE DEF e
    <3>4. call'[p] = e /\ \A q \in Proc : q # p => call'[q] = call[q]
      BY <1>1, <2>5 DEF Goes
    <3>5. QED BY <1>2, <2>1, <3>1, <3>3, <3>4
  <2>6. QED BY <2>1, <2>3, <2>4, <2>5
<1>10. ASSUME NEW p \in Proc, CommitUnlock(p) PROVE Goal
  <2> DEFINE c == call[p]
             full == SaveResult(c.user, c.ref, c.at) = "limit_reached"
  <2>1. /\ c.pc = "entered" /\ c.op = "unlock" /\ c.user \in User /\ c.ref \in Hotel
        /\ c.amount = 1 /\ cache[c.ref] \in {"found", "invalid"}
    BY <1>1, <1>10, CallTyped, CallIs DEF CommitUnlock, Shaped, Shown
  <2>2. /\ owned' = IF full THEN owned ELSE owned \cup {<<c.user, c.ref>>}
        /\ saved' = IF full THEN saved ELSE [saved EXCEPT ![c.user] = @ \cup {c.ref}]
        /\ Ended(p) /\ cache' = cache
    BY <1>10, <2>1 DEF CommitUnlock
  <2>3. Saves
    <3>1. SUFFICES ASSUME NEW u \in User, NEW h \in Hotel, <<u, h>> \in owned' \ owned
                   PROVE  /\ h \in saved'[u]
                          /\ \/ h \in saved[u] \/ Cardinality(saved[u]) < FreeSaved
                             \/ \E q \in Proc : call[q].user = u /\ Covers(plan[u], call[q].at)
      OBVIOUS
    <3>2. ~full /\ u = c.user /\ h = c.ref
      BY <2>2, <3>1
    <3>3. h \in saved'[u]
      BY <1>1, <2>1, <2>2, <3>2
    <3>4. h \in saved[u] \/ Covers(plan[u], c.at) \/ Cardinality(saved[u]) < FreeSaved
      BY <3>2 DEF SaveResult
    <3>5. QED BY <3>2, <3>3, <3>4
  <2>4. PaidForAddress'
    BY <2>1, <2>2 DEF PaidForAddress
  <2>5. Shown'
    BY <1>3, <2>2 DEF Shown
  <2>6. QED BY <2>3, <2>4, <2>5 DEF Goal
<1>11. ASSUME NEW p \in Proc, NEW answer \in {"found", "not_found"}, Lookup(p, answer) PROVE Goal
  <2> DEFINE b == [call[p] EXCEPT !.pc = "begun", !.at = now, !.second = TRUE]
  <2>1. call[p] \in CallFields /\ owned' = owned
        /\ cache' = [cache EXCEPT ![call[p].ref] = IF @ = "none" THEN answer ELSE @]
    BY <1>1, <1>11, CallTyped, CallIs DEF Lookup
  <2>2. b.pc # "entered"
    BY <2>1 DEF CallFields
  <2> HIDE DEF b
  <2>3. call'[p] = b /\ \A q \in Proc : q # p => call'[q] = call[q]
    BY <1>1, <1>11 DEF Lookup, Goes, b
  <2>4. \A h \in Hotel : cache[h] \in {"found", "invalid"} => cache'[h] \in {"found", "invalid"}
    BY <1>1, <2>1
  <2>5. QED BY <1>2, <2>1, <2>2, <2>3, <2>4
<1>12. ASSUME NEW p \in Proc, NEW d, ReviewReport(p, d) PROVE Goal
  <2>1. Ended(p) /\ owned' = owned /\ (cache' = cache \/ cache' = [cache EXCEPT ![call[p].ref] = "invalid"])
    BY <1>12 DEF ReviewReport
  <2>2. \A g \in Hotel : cache[g] \in {"found", "invalid"} => cache'[g] \in {"found", "invalid"}
    BY <1>1, <2>1
  <2>3. QED BY <1>2, <1>3, <2>1, <2>2
<1>13. QED
  <2>1. UNCHANGED vars \/ Next
    OBVIOUS
  <2>2. CASE Next
    <3>1. \/ Tick
          \/ \E u \in User, h \in Hotel : SaveHotel(u, h) \/ CloseItem(u, h) \/ Report(u, h)
          \/ \E p \in Proc : \E u, op, ref : Begin(p, u, op, ref)
          \/ \E p \in Proc :
               \/ Refresh(p) \/ EnterUnlock(p) \/ CommitUnlock(p)
               \/ EnterDraft(p) \/ CommitDraft(p)
               \/ EnterPayment(p) \/ GrantPack(p) \/ GrantPlan(p)
               \/ ReadReversal(p) \/ ReversePack(p) \/ ReversePlan(p)
               \/ AdminGrant(p) \/ RequestDeletion(p) \/ Die(p)
               \/ \E d \in {"accept", "reject"} : ReviewReport(p, d)
               \/ \E answer \in {"found", "not_found"} : Lookup(p, answer)
      BY <2>2 DEF Next
    <3>2. QED BY <1>5, <1>6, <1>7, <1>8, <1>9, <1>10, <1>11, <1>12, <3>1
  <2>3. QED BY <1>4, <2>1, <2>2

\* And at first.
LEMMA ShownInit == Init => Shown /\ PaidForAddress
BY DEF Init, Shown, PaidForAddress, Idle

\* While credit_config charges no miss, an unlock that costs a credit shows an address,
\* although the address is read in one step and debited in a later one.
THEOREM AddressIsShown == ASSUME ~ChargeOnMiss PROVE Spec => []PaidForAddress
<1>1. IInv /\ Shown /\ PaidForAddress /\ [Next]_vars => Shown' /\ PaidForAddress'
  BY ShownStep
<1>2. QED BY <1>1, ShownInit, InvariantHolds, PTL DEF Spec

\* While credit_config charges no miss, a hotel is on the pipeline the moment its unlock
\* is paid, and a free pipeline with no room is left as it is.
THEOREM UnlockIsSaved == ASSUME ~ChargeOnMiss PROVE Spec => DebitSaves
<1>1. IInv /\ Shown /\ PaidForAddress /\ [Next]_vars => Shown' /\ PaidForAddress'
  BY ShownStep
<1> DEFINE Saves == \A u \in User, h \in Hotel :
       <<u, h>> \in owned' \ owned =>
         /\ h \in saved'[u]
         /\ \/ h \in saved[u] \/ Cardinality(saved[u]) < FreeSaved
            \/ \E p \in Proc : call[p].user = u /\ Covers(plan[u], call[p].at)
<1>2. IInv /\ Shown /\ PaidForAddress /\ [Next]_vars => [Saves]_vars
  BY ShownStep
<1>3. Spec => [][Saves]_vars
  BY <1>1, <1>2, ShownInit, InvariantHolds, PTL DEF Spec
<1>4. QED BY <1>3 DEF DebitSaves
=============================================================================
