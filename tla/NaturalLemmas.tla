---------------------------- MODULE NaturalLemmas ----------------------------
(* Facts about sets of natural numbers, for the proofs about the models:   *)
(* the least and the greatest of a set, as FiniteSetsExt defines them, that *)
(* finitely many numbers have a bound, and what PartialSums adds up.        *)
EXTENDS Integers, FiniteSetsExt, PartialSums, WellFoundedInduction, TLAPS

(* The least of a set of natural numbers is one of them. *)
LEMMA MinIsLeast ==
  ASSUME NEW S \in SUBSET Nat, S # {}
  PROVE  Min(S) \in S /\ \A x \in S : Min(S) <= x
  <1>1. PICK m \in S : \A x \in S : ~ (<<x, m>> \in OpToRel(<, Nat))
    BY WFMin, NatLessThanWellFounded
  <1>2. \A x \in S : m <= x
    <2> TAKE x \in S
    <2>1. x \in Nat /\ m \in Nat
      OBVIOUS
    <2>2. ~ (x < m)
      BY <1>1, <2>1 DEF OpToRel
    <2> QED
      BY <2>1, <2>2
  <1> QED
    BY <1>2 DEF Min

(* The greatest of a bounded set of natural numbers is one of them. *)
LEMMA MaxIsGreatest ==
  ASSUME NEW S \in SUBSET Nat, S # {}, NEW b \in Nat, \A x \in S : x <= b
  PROVE  Max(S) \in S /\ \A x \in S : x <= Max(S)
  <1> DEFINE T == {c \in Nat : \A x \in S : x <= c}
  <1> DEFINE c == Min(T)
  <1>1. T \in SUBSET Nat /\ T # {}
    OBVIOUS
  <1>2. c \in T /\ \A d \in T : c <= d
    BY <1>1, MinIsLeast
  <1> HIDE DEF c
  <1>3. c \in S
    <2>1. SUFFICES ASSUME c \notin S PROVE FALSE
      OBVIOUS
    <2>2. \A x \in S : x <= c /\ x # c /\ x \in Nat /\ c \in Nat
      BY <1>2, <2>1
    <2>3. \A x \in S : x <= c - 1
      BY <2>2
    <2>4. c - 1 \in Nat
      <3>1. PICK x \in S : TRUE
        OBVIOUS
      <3> QED
        BY <2>2, <3>1
    <2>5. c - 1 \in T
      BY <2>3, <2>4
    <2> QED
      BY <1>2, <2>2, <2>5
  <1>4. \A x \in S : c >= x
    BY <1>2
  <1>5. \A m \in S : (\A x \in S : m >= x) => m = c
    BY <1>2, <1>3, <1>4
  <1> QED
    BY <1>3, <1>4, <1>5 DEF Max

LEMMA MaxOfTwo ==
  ASSUME NEW a \in Nat, NEW b \in Nat
  PROVE  Max({a, b}) \in Nat /\ a <= Max({a, b}) /\ b <= Max({a, b})
  <1> DEFINE S == {a, b}
  <1>1. S \in SUBSET Nat /\ S # {} /\ a + b \in Nat /\ \A x \in S : x <= a + b
    OBVIOUS
  <1>2. Max(S) \in S /\ \A x \in S : x <= Max(S)
    <2> HIDE DEF S
    <2> QED
      BY <1>1, MaxIsGreatest
  <1> QED
    BY <1>2

(* Finitely many natural numbers have a bound. *)
LEMMA BoundExists ==
  ASSUME NEW n \in Nat, NEW f, \A k \in 1 .. n : f[k] \in Nat
  PROVE  \E b \in Nat : \A k \in 1 .. n : f[k] <= b
  <1> DEFINE Bounded(j) == \E b \in Nat : \A k \in 1 .. j : f[k] <= b
  <1>1. Bounded(0)
    OBVIOUS
  <1>2. ASSUME NEW j \in Nat, j < n, Bounded(j)
        PROVE  Bounded(j + 1)
    <2>1. PICK b \in Nat : \A k \in 1 .. j : f[k] <= b
      BY <1>2
    <2>2. f[j + 1] \in Nat
      BY <1>2
    <2>3. \A k \in 1 .. j + 1 : f[k] <= b + f[j + 1]
      <3> TAKE k \in 1 .. j + 1
      <3>1. f[k] \in Nat
        BY <1>2
      <3>2. k = j + 1 \/ k \in 1 .. j
        OBVIOUS
      <3> QED
        BY <2>1, <2>2, <3>1, <3>2
    <2> QED
      BY <2>2, <2>3
  <1> HIDE DEF Bounded
  <1> DEFINE Bad == {j \in Nat : j <= n /\ ~Bounded(j)}
  <1> DEFINE least == Min(Bad)
  <1>3. Bad = {}
    <2>1. SUFFICES ASSUME Bad # {} PROVE FALSE
      OBVIOUS
    <2>2. least \in Bad /\ \A i \in Bad : least <= i
      BY <2>1, MinIsLeast
    <2> HIDE DEF least
    <2>3. least \in Nat /\ least # 0 /\ least <= n /\ ~Bounded(least)
      BY <1>1, <2>2
    <2>4. least - 1 \in Nat /\ least - 1 \notin Bad
      BY <2>2, <2>3
    <2>5. Bounded(least - 1)
      BY <2>3, <2>4
    <2>6. (least - 1) + 1 = least
      BY <2>3
    <2> QED
      BY <1>2, <2>3, <2>4, <2>5, <2>6
  <1>4. Bounded(n)
    BY <1>3
  <1> QED
    BY <1>4 DEF Bounded

-----------------------------------------------------------------------------
(* Induction: a set of naturals that holds 0 and every successor holds all. *)
LEMMA AllNaturals ==
  ASSUME NEW S, 0 \in S, \A i \in Nat : i \in S => i + 1 \in S
  PROVE  Nat \subseteq S
  <1> DEFINE Bad == Nat \ S
  <1> DEFINE least == Min(Bad)
  <1>1. SUFFICES ASSUME Bad # {} PROVE FALSE
    OBVIOUS
  <1>2. least \in Bad /\ \A i \in Bad : least <= i
    BY <1>1, MinIsLeast
  <1> HIDE DEF least
  <1>3. least \in Nat /\ least # 0
    BY <1>2
  <1>4. least - 1 \in Nat /\ least - 1 \notin Bad /\ (least - 1) + 1 = least
    BY <1>2, <1>3
  <1> QED
    BY <1>2, <1>3, <1>4

IsSum(f, g, n) == f = [i \in 0 .. n |-> IF i = 0 THEN 0 ELSE f[i - 1] + g[i]]

LEMMA SumExists == ASSUME NEW g, NEW n \in Nat PROVE \E f : IsSum(f, g, n)
  <1> DEFINE S == {k \in Nat : \E f : IsSum(f, g, k)}
  <1>1. 0 \in S
    <2>1. IsSum([i \in {0} |-> 0], g, 0)
      BY DEF IsSum
    <2> QED
      BY <2>1
  <1>2. ASSUME NEW k \in Nat, k \in S PROVE k + 1 \in S
    <2>1. PICK f : IsSum(f, g, k)
      BY <1>2
    <2> DEFINE h == [i \in 0 .. k + 1 |-> IF i = k + 1 THEN f[k] + g[k + 1] ELSE f[i]]
    <2>2. \A i \in 0 .. k : f[i] = IF i = 0 THEN 0 ELSE f[i - 1] + g[i]
      BY <2>1 DEF IsSum
    <2>3. \A i \in 0 .. k + 1 : h[i] = IF i = 0 THEN 0 ELSE h[i - 1] + g[i]
      <3> TAKE i \in 0 .. k + 1
      <3>1. CASE i = k + 1
        BY <3>1
      <3>2. CASE i \in 0 .. k
        BY <3>2, <2>2
      <3> QED
        BY <3>1, <3>2
    <2>4. h = [i \in 0 .. k + 1 |-> h[i]]
      OBVIOUS
    <2> HIDE DEF h
    <2>5. IsSum(h, g, k + 1)
      BY <2>3, <2>4 DEF IsSum
    <2> QED
      BY <2>5
  <1>3. Nat \subseteq S
    <2> HIDE DEF S
    <2> QED
      BY <1>1, <1>2, AllNaturals
  <1> QED
    BY <1>3

LEMMA SumIs == ASSUME NEW g, NEW n \in Nat PROVE \E f : IsSum(f, g, n) /\ SumTo(g, n) = f[n]
  <1> DEFINE c == CHOOSE f : IsSum(f, g, n)
  <1>1. IsSum(c, g, n)
    BY SumExists
  <1>2. SumTo(g, n) = c[n]
    BY DEF SumTo, IsSum
  <1> QED
    BY <1>1, <1>2

(* Sums with n and with n + 1 numbers agree up to n. *)
LEMMA SumsAgree ==
  ASSUME NEW g, NEW h, NEW n \in Nat, NEW m \in Nat, NEW e, NEW f,
         IsSum(e, g, n), IsSum(f, h, m), n <= m, \A i \in 1 .. n : g[i] = h[i]
  PROVE  e[n] = f[n]
  <1> DEFINE S == {k \in Nat : k <= n => e[k] = f[k]}
  <1>1. /\ \A i \in 0 .. n : e[i] = IF i = 0 THEN 0 ELSE e[i - 1] + g[i]
        /\ \A i \in 0 .. m : f[i] = IF i = 0 THEN 0 ELSE f[i - 1] + h[i]
    BY DEF IsSum
  <1>2. 0 \in S
    BY <1>1
  <1>3. ASSUME NEW k \in Nat, k \in S PROVE k + 1 \in S
    <2>1. SUFFICES ASSUME k + 1 <= n PROVE e[k + 1] = f[k + 1]
      OBVIOUS
    <2>2. e[k] = f[k] /\ g[k + 1] = h[k + 1]
      BY <1>3, <2>1
    <2>3. e[k + 1] = e[k] + g[k + 1] /\ f[k + 1] = f[k] + h[k + 1]
      BY <1>1, <2>1
    <2> QED
      BY <2>2, <2>3
  <1>4. Nat \subseteq S
    <2> HIDE DEF S
    <2> QED
      BY <1>2, <1>3, AllNaturals
  <1> QED
    BY <1>4

LEMMA SumOfNone == ASSUME NEW g PROVE SumTo(g, 0) = 0
  <1>1. PICK f : IsSum(f, g, 0) /\ SumTo(g, 0) = f[0]
    BY SumIs
  <1> QED
    BY <1>1 DEF IsSum

(* One more number adds itself, whatever else the sequence holds behind it. *)
LEMMA SumOfMore ==
  ASSUME NEW g, NEW h, NEW n \in Nat, \A i \in 1 .. n : g[i] = h[i]
  PROVE  SumTo(h, n + 1) = SumTo(g, n) + h[n + 1]
  <1>1. PICK e : IsSum(e, g, n) /\ SumTo(g, n) = e[n]
    BY SumIs
  <1>2. PICK f : IsSum(f, h, n + 1) /\ SumTo(h, n + 1) = f[n + 1]
    BY SumIs
  <1>3. f[n + 1] = f[n] + h[n + 1]
    BY <1>2 DEF IsSum
  <1>4. e[n] = f[n]
    <2> DEFINE m == n + 1
    <2>1. m \in Nat
      OBVIOUS
    <2>2. n <= m
      OBVIOUS
    <2>3. IsSum(f, h, m)
      BY <1>2
    <2>4. IsSum(e, g, n)
      BY <1>1
    <2> HIDE DEF m
    <2> QED
      BY <2>1, <2>2, <2>3, <2>4, SumsAgree, SMT
  <1> QED
    BY <1>1, <1>2, <1>3, <1>4

LEMMA SumIsNatural ==
  ASSUME NEW g, NEW n \in Nat, \A i \in 1 .. n : g[i] \in Nat
  PROVE  SumTo(g, n) \in Nat
  <1> DEFINE S == {k \in Nat : k <= n => SumTo(g, k) \in Nat}
  <1>1. 0 \in S
    BY SumOfNone
  <1>2. ASSUME NEW k \in Nat, k \in S PROVE k + 1 \in S
    <2>1. SUFFICES ASSUME k + 1 <= n PROVE SumTo(g, k + 1) \in Nat
      OBVIOUS
    <2>2. SumTo(g, k) \in Nat /\ g[k + 1] \in Nat
      BY <1>2, <2>1
    <2>3. SumTo(g, k + 1) = SumTo(g, k) + g[k + 1]
      BY SumOfMore
    <2> QED
      BY <2>2, <2>3
  <1>3. Nat \subseteq S
    <2> HIDE DEF S
    <2> QED
      BY <1>1, <1>2, AllNaturals
  <1> QED
    BY <1>3

(* Sums of naturals only grow. *)
LEMMA SumsGrow ==
  ASSUME NEW g, NEW n \in Nat, \A i \in 1 .. n : g[i] \in Nat
  PROVE  \A j, k \in 0 .. n : j < k => SumTo(g, j) + g[j + 1] <= SumTo(g, k)
  <1> SUFFICES ASSUME NEW j \in 0 .. n
               PROVE  \A k \in 0 .. n : j < k => SumTo(g, j) + g[j + 1] <= SumTo(g, k)
    OBVIOUS
  <1> DEFINE S == {k \in Nat : k <= n /\ j < k => SumTo(g, j) + g[j + 1] <= SumTo(g, k)}
  <1>1. 0 \in S
    OBVIOUS
  <1>2. ASSUME NEW k \in Nat, k \in S PROVE k + 1 \in S
    <2>1. SUFFICES ASSUME k + 1 <= n, j < k + 1
                   PROVE  SumTo(g, j) + g[j + 1] <= SumTo(g, k + 1)
      OBVIOUS
    <2>2. SumTo(g, k + 1) = SumTo(g, k) + g[k + 1] /\ g[k + 1] \in Nat
      BY <2>1, SumOfMore
    <2>3. SumTo(g, k) \in Nat /\ SumTo(g, j) \in Nat
      BY <2>1, SumIsNatural
    <2>4. g[j + 1] \in Nat
      BY <2>1
    <2>5. CASE j = k
      BY <2>2, <2>3, <2>5
    <2>6. CASE j < k
      BY <1>2, <2>1, <2>2, <2>3, <2>4, <2>6
    <2> QED
      BY <2>1, <2>5, <2>6
  <1>3. Nat \subseteq S
    <2> HIDE DEF S
    <2> QED
      BY <1>1, <1>2, AllNaturals
  <1> QED
    BY <1>3
===============================================================================
