-------------------------- MODULE FrontDoorsProofs --------------------------
(***************************************************************************)
(* For every call, workflow file and request.  First the plan of a         *)
(* workflow of any number of tasks: build_execution_graph emits each task  *)
(* once and behind what it reads, layer by layer, and leaves one out       *)
(* exactly when tasks wait on one another in a circle.  The loops of the   *)
(* pass are recursive functions and a fold; each is shown to have a        *)
(* solution, by induction with the property as a set of numbers, and then  *)
(* followed with one invariant for the inner loop and one for the outer.   *)
(*                                                                         *)
(* Then the doors: the tables of commands, builders and options are        *)
(* compared row by row, and an invariant says what a call has become once  *)
(* its workflow stands.                                                    *)
(***************************************************************************)
EXTENDS FrontDoors, FiniteSetTheorems, WellFoundedInduction, TLAPS

-----------------------------------------------------------------------------
(* Numbers.                                                                 *)

\* Every set of natural numbers has a least one.
LEMMA LeastNumber ==
    ASSUME NEW S \in SUBSET Nat, S # {}
    PROVE  \E n \in S : \A m \in S : n <= m
<1>1. IsWellFoundedOn(OpToRel(<, Nat), Nat)
  BY NatLessThanWellFounded
<1>2. \E n \in S : \A m \in S : ~ (<<m, n>> \in OpToRel(<, Nat))
  BY <1>1, WFMin
<1>3. PICK n \in S : \A m \in S : ~ (m < n)
  BY <1>2 DEF OpToRel
<1> QED
  BY <1>3

\* What holds of 0 and is handed on holds up to N.
LEMMA CountingUp ==
    ASSUME NEW N \in Nat, NEW P, 0 \in P,
           \A k \in 0..(N - 1) : k \in P => k + 1 \in P
    PROVE  0..N \subseteq P
<1>1. SUFFICES ASSUME (0..N) \ P # {} PROVE FALSE
  OBVIOUS
<1>2. PICK n \in (0..N) \ P : \A m \in (0..N) \ P : n <= m
  <2>1. (0..N) \ P \in SUBSET Nat
    OBVIOUS
  <2> QED
    BY <1>1, <2>1, LeastNumber
<1>3. n # 0 /\ n - 1 \in 0..(N - 1)
  BY <1>2
<1>4. n - 1 \in P
  BY <1>2, <1>3
<1> QED
  BY <1>2, <1>3, <1>4

\* A set of numbers up to N has a greatest one, and Max finds it.
LEMMA GreatestNumber ==
    ASSUME NEW N \in Nat, NEW S \in SUBSET (1..N), S # {}
    PROVE  Max(S) \in S /\ \A m \in S : m <= Max(S)
<1> DEFINE L == {N - m : m \in S}
<1>1. L \in SUBSET Nat /\ L # {}
  <2>1. \A m \in S : m \in Int /\ N - m \in Nat
    OBVIOUS
  <2> QED
    BY <2>1
<1>2. PICK l \in L : \A m \in L : l <= m
  <2> HIDE DEF L
  <2> QED
    BY <1>1, LeastNumber
<1>3. PICK n \in S : l = N - n
  BY <1>2
<1>4. \A m \in S : m <= n
  <2> TAKE m \in S
  <2>1. l <= N - m
    BY <1>2
  <2> QED
    BY <1>3, <2>1
<1>5. \A m \in S : n >= m
  BY <1>4
<1>6. Max(S) \in S /\ \A m \in S : Max(S) >= m
  BY <1>5 DEF Max
<1> QED
  BY <1>6

-----------------------------------------------------------------------------
(* Sequences that list the members of a set.                                *)

Elements(s) == {s[i] : i \in Numbers(s)}
Lists(s, S) ==
    /\ s \in Seq(Nat)
    /\ \A i, j \in Numbers(s) : s[i] = s[j] => i = j
    /\ Elements(s) = S

LEMMA ListLength ==
    ASSUME NEW s, NEW S, Lists(s, S)
    PROVE  IsFiniteSet(S) /\ Cardinality(S) = Len(s)
<1>1. Len(s) \in Nat /\ s \in [Numbers(s) -> Nat]
  BY DEF Lists, Numbers
<1>2. s \in Bijection(Numbers(s), S)
  <2>1. s \in [Numbers(s) -> S]
    BY <1>1 DEF Lists, Elements
  <2>2. \A y \in S : \E i \in Numbers(s) : s[i] = y
    BY DEF Lists, Elements
  <2> QED
    BY <2>1, <2>2 DEF Lists, Bijection, Injection, Surjection, IsInjective
<1>3. IsFiniteSet(Numbers(s)) /\ Cardinality(Numbers(s)) = Len(s)
  BY <1>1, FS_Interval, SMTT(30) DEF Numbers
<1> QED
  BY <1>2, <1>3, FS_Bijection DEF ExistsBijection

LEMMA EmptyList == Lists(<<>>, {})
BY DEF Lists, Elements, Numbers

LEMMA ListAppend ==
    ASSUME NEW s, NEW S, Lists(s, S), NEW x \in Nat, x \notin S
    PROVE  Lists(Append(s, x), S \cup {x})
<1> DEFINE r == Append(s, x)
<1>1. /\ Len(s) \in Nat /\ Len(r) = Len(s) + 1 /\ r \in Seq(Nat)
      /\ \A i \in Numbers(s) : r[i] = s[i]
      /\ r[Len(s) + 1] = x
  BY DEF Lists, Numbers
<1>2. Numbers(r) = Numbers(s) \cup {Len(s) + 1} /\ Len(s) + 1 \notin Numbers(s)
  BY <1>1 DEF Numbers
<1> HIDE DEF r
<1>3. \A i \in Numbers(s) : s[i] # x
  BY DEF Lists, Elements
<1>4. Elements(r) = S \cup {x}
  BY <1>1, <1>2 DEF Lists, Elements
<1>5. \A i, j \in Numbers(r) : r[i] = r[j] => i = j
  BY <1>1, <1>2, <1>3 DEF Lists
<1>6. Lists(r, S \cup {x})
  BY <1>1, <1>4, <1>5 DEF Lists
<1> QED
  BY <1>6 DEF r

LEMMA ListConcat ==
    ASSUME NEW s, NEW S, Lists(s, S), NEW r, NEW R, Lists(r, R), S \cap R = {}
    PROVE  Lists(s \o r, S \cup R)
<1> DEFINE c == s \o r
           n == Len(s)
           m == Len(r)
<1>1. /\ n \in Nat /\ m \in Nat /\ Len(c) = n + m /\ c \in Seq(Nat)
      /\ \A i \in 1..n : c[i] = s[i]
      /\ \A i \in (n + 1)..(n + m) : c[i] = r[i - n]
  BY DEF Lists, Numbers
<1>2. Numbers(c) = 1..(n + m) /\ Numbers(s) = 1..n /\ Numbers(r) = 1..m
  BY <1>1 DEF Numbers
<1>3. \A i \in 1..n : s[i] \in S
  BY <1>2 DEF Lists, Elements
<1>4. \A i \in 1..m : r[i] \in R
  BY <1>2 DEF Lists, Elements
<1> HIDE DEF c, n, m
<1>5. \A i \in 1..(n + m) : i \in 1..n \/ (i \in (n + 1)..(n + m) /\ i - n \in 1..m)
  BY <1>1
<1>6. \A i, j \in Numbers(c) : c[i] = c[j] => i = j
  <2> TAKE i, j \in Numbers(c)
  <2> HAVE c[i] = c[j]
  <2>1. CASE i \in 1..n /\ j \in 1..n
    BY <1>1, <1>2, <2>1 DEF Lists
  <2>2. CASE i \in (n + 1)..(n + m) /\ j \in (n + 1)..(n + m)
    <3>1. r[i - n] = r[j - n] /\ i - n \in 1..m /\ j - n \in 1..m
      BY <1>1, <2>2, SMTT(30)
    <3>2. i - n = j - n
      BY <1>2, <3>1 DEF Lists
    <3> QED
      BY <1>1, <2>2, <3>2
  <2>3. CASE i \in 1..n /\ j \in (n + 1)..(n + m)
    <3>1. s[i] = r[j - n] /\ j - n \in 1..m
      BY <1>1, <2>3
    <3> QED
      BY <1>3, <1>4, <2>3, <3>1
  <2>4. CASE j \in 1..n /\ i \in (n + 1)..(n + m)
    <3>1. s[j] = r[i - n] /\ i - n \in 1..m
      BY <1>1, <2>4
    <3> QED
      BY <1>3, <1>4, <2>4, <3>1
  <2> QED
    BY <1>2, <1>5, <2>1, <2>2, <2>3, <2>4
<1>7. Elements(c) = S \cup R
  <2>1. ASSUME NEW x \in Elements(c) PROVE x \in S \cup R
    <3>1. PICK i \in 1..(n + m) : x = c[i]
      BY <1>2 DEF Elements
    <3> QED
      BY <1>1, <1>3, <1>4, <1>5, <3>1
  <2>2. ASSUME NEW x \in S PROVE x \in Elements(c)
    <3>1. PICK i \in 1..n : x = s[i]
      BY <1>2 DEF Lists, Elements
    <3>2. i \in 1..(n + m) /\ c[i] = x
      BY <1>1, <3>1
    <3> QED
      BY <1>2, <3>2 DEF Elements
  <2>3. ASSUME NEW x \in R PROVE x \in Elements(c)
    <3>1. PICK i \in 1..m : x = r[i]
      BY <1>2 DEF Lists, Elements
    <3>2. i + n \in (n + 1)..(n + m) /\ (i + n) - n = i /\ i + n \in 1..(n + m)
      BY <1>1, <3>1
    <3>3. c[i + n] = x
      BY <1>1, <3>1, <3>2
    <3> QED
      BY <1>2, <3>2, <3>3 DEF Elements
  <2> QED
    BY <2>1, <2>2, <2>3
<1>8. Lists(c, S \cup R)
  BY <1>1, <1>6, <1>7 DEF Lists
<1> QED
  BY <1>8 DEF c

\* InIndexOrder lists its set: a sorted list of it can be built number by
\* number, and every sorted function of that length is one.
Sorted(s) == \A i, j \in DOMAIN s : i < j => s[i] < s[j]

LEMMA SortedListExists ==
    ASSUME NEW N \in Nat, NEW S \in SUBSET (1..N)
    PROVE  \E s : Lists(s, S) /\ Sorted(s)
<1> DEFINE P == {k \in 0..N : \E s : Lists(s, S \cap (1..k)) /\ Sorted(s)}
<1>1. 0 \in P
  <2>1. S \cap (1..0) = {}
    OBVIOUS
  <2>2. Sorted(<<>>)
    BY DEF Sorted
  <2> QED
    BY <2>1, <2>2, EmptyList
<1>2. ASSUME NEW k \in 0..(N - 1), k \in P PROVE k + 1 \in P
  <2>1. PICK s : Lists(s, S \cap (1..k)) /\ Sorted(s)
    BY <1>2
  <2>2. k + 1 \in 0..N
    OBVIOUS
  <2>3. CASE k + 1 \notin S
    <3>1. S \cap (1..(k + 1)) = S \cap (1..k)
      BY <2>3
    <3> QED
      BY <2>1, <2>2, <3>1
  <2>4. CASE k + 1 \in S
    <3>1. S \cap (1..(k + 1)) = (S \cap (1..k)) \cup {k + 1} /\ k + 1 \notin S \cap (1..k)
      BY <2>4
    <3>2. Lists(Append(s, k + 1), S \cap (1..(k + 1)))
      BY <2>1, <3>1, ListAppend
    <3>3. Sorted(Append(s, k + 1))
      <4>1. s \in Seq(Nat) /\ Len(s) \in Nat /\ DOMAIN s = 1..Len(s)
        BY <2>1 DEF Lists
      <4>2. \A i \in 1..Len(s) : s[i] < k + 1
        <5> TAKE i \in 1..Len(s)
        <5>1. s[i] \in S \cap (1..k)
          BY <2>1 DEF Lists, Elements, Numbers
        <5> QED
          BY <5>1
      <4>3. \A i, j \in 1..Len(s) : i < j => s[i] < s[j]
        BY <2>1, <4>1 DEF Sorted
      <4> QED
        BY <4>1, <4>2, <4>3 DEF Sorted
    <3> QED
      BY <2>2, <3>2, <3>3
  <2> QED
    BY <2>3, <2>4
<1>3. N \in P
  <2>1. 0..N \subseteq P
    <3> HIDE DEF P
    <3> QED
      BY <1>1, <1>2, CountingUp
  <2> QED
    BY <2>1
<1>4. S \cap (1..N) = S
  OBVIOUS
<1> QED
  BY <1>3, <1>4

LEMMA InIndexOrderLists ==
    ASSUME NEW N \in Nat, NEW S \in SUBSET (1..N)
    PROVE  Lists(InIndexOrder(S), S)
<1> DEFINE C == Cardinality(S)
           order == InIndexOrder(S)
<1>1. IsFiniteSet(S) /\ C \in Nat
  <2>1. IsFiniteSet(1..N)
    BY FS_Interval
  <2> QED
    BY <2>1, FS_Subset, FS_CardinalityType
<1>2. order \in [1..C -> S] /\ Sorted(order)
  <2>1. PICK s : Lists(s, S) /\ Sorted(s)
    BY SortedListExists
  <2>2. Len(s) = C
    BY <2>1, ListLength
  <2>3. s \in [1..C -> S]
    <3>1. s \in [1..C -> Nat]
      BY <2>1, <2>2 DEF Lists
    <3>2. \A i \in 1..C : s[i] \in S
      BY <2>1, <2>2 DEF Lists, Elements, Numbers
    <3> QED
      BY <3>1, <3>2
  <2> QED
    BY <2>1, <2>3 DEF InIndexOrder, Sorted
<1> HIDE DEF order
<1>3. \A i, j \in 1..C : order[i] = order[j] => i = j
  <2> TAKE i, j \in 1..C
  <2> HIDE DEF C
  <2>1. i \in Int /\ j \in Int /\ order[i] \in S /\ order[j] \in S
    BY <1>1, <1>2
  <2>4. \A x \in S : x \in Int
    OBVIOUS
  <2>2. i < j => order[i] < order[j]
    BY <1>2 DEF Sorted
  <2>3. j < i => order[j] < order[i]
    BY <1>2 DEF Sorted
  <2>5. order[i] \in Int /\ order[j] \in Int
    BY <2>1, <2>4
  <2> QED
    BY <2>1, <2>2, <2>3, <2>5
<1>4. \A x \in S : \E i \in 1..C : order[i] = x
  <2>1. order \in Injection(1..C, S)
    BY <1>2, <1>3 DEF Injection, IsInjective
  <2>2. IsFiniteSet(1..C) /\ Cardinality(1..C) = C
    BY <1>1, FS_Interval
  <2>3. order \in Surjection(1..C, S)
    BY <1>1, <2>1, <2>2, FS_Injection
  <2> QED
    BY <2>3 DEF Surjection
<1>5. order \in Seq(Nat) /\ Len(order) = C
  <2>1. \A x \in S : x \in Nat
    OBVIOUS
  <2>2. order \in [1..C -> Nat]
    BY <1>2, <2>1
  <2> QED
    BY <1>1, <2>2
<1>6. Elements(order) = S
  BY <1>2, <1>4, <1>5 DEF Elements, Numbers
<1>7. Lists(order, S)
  BY <1>3, <1>5, <1>6 DEF Lists, Numbers
<1> QED
  BY <1>7 DEF order

-----------------------------------------------------------------------------
(* The loops have solutions.                                                *)

\* The inner loop: Visit once for each task of the layer, from first to last.
LEMMA FoldVisits ==
    ASSUME NEW w, NEW base, NEW L \in Seq(Nat)
    PROVE  \E v : /\ v[0] = base
                  /\ \A k \in Numbers(L) : v[k] = Visit(w, v[k - 1], L[k])
                  /\ v[Len(L)] = VisitAll(w, base, L)
<1> DEFINE N == Len(L)
           Next1(g, T) == IF T = {} THEN base ELSE Visit(w, g[T \ {Max(T)}], L[Max(T)])
           Solution(g, k) == g = [T \in SUBSET (1..k) |-> Next1(g, T)]
           P == {k \in 0..N : \E g : Solution(g, k)}
<1>1. N \in Nat
  OBVIOUS
<1>2. 0 \in P
  <2>1. 1..0 = {}
    OBVIOUS
  <2>2. Solution([T \in SUBSET (1..0) |-> base], 0)
    BY <2>1
  <2> QED
    BY <1>1, <2>2
<1>3. ASSUME NEW k \in 0..(N - 1), k \in P PROVE k + 1 \in P
  <2>1. PICK g : Solution(g, k)
    BY <1>3
  <2> DEFINE h == [T \in SUBSET (1..(k + 1)) |->
                      IF k + 1 \in T THEN Visit(w, g[T \ {k + 1}], L[k + 1]) ELSE g[T]]
  <2>2. ASSUME NEW T \in SUBSET (1..(k + 1)), k + 1 \in T PROVE h[T] = Next1(h, T)
    <3>1. Max(T) = k + 1
      <4>1. k + 1 \in Nat
        BY <1>1
      <4>2. Max(T) \in T /\ \A m \in T : m <= Max(T)
        BY <2>2, <4>1, GreatestNumber
      <4>3. Max(T) \in 1..(k + 1) /\ k + 1 <= Max(T)
        BY <2>2, <4>2
      <4> QED
        BY <4>1, <4>3
    <3>2. T \ {k + 1} \in SUBSET (1..(k + 1)) /\ k + 1 \notin T \ {k + 1}
      OBVIOUS
    <3>3. h[T \ {k + 1}] = g[T \ {k + 1}]
      BY <3>2
    <3>4. h[T] = Visit(w, g[T \ {k + 1}], L[k + 1])
      BY <2>2
    <3> QED
      BY <2>2, <3>1, <3>3, <3>4
  <2>3. ASSUME NEW T \in SUBSET (1..(k + 1)), k + 1 \notin T PROVE h[T] = Next1(h, T)
    <3>1. T \in SUBSET (1..k)
      BY <1>1, <2>3
    <3>2. g[T] = Next1(g, T) /\ h[T] = g[T]
      BY <2>1, <2>3, <3>1
    <3>3. h[T \ {Max(T)}] = g[T \ {Max(T)}]
      <4>1. T \ {Max(T)} \in SUBSET (1..(k + 1)) /\ k + 1 \notin T \ {Max(T)}
        BY <2>3
      <4> QED
        BY <4>1
    <3> QED
      BY <3>2, <3>3
  <2>4. Solution(h, k + 1)
    <3>1. \A T \in SUBSET (1..(k + 1)) : h[T] = Next1(h, T)
      BY <2>2, <2>3
    <3>2. h = [T \in SUBSET (1..(k + 1)) |-> h[T]]
      OBVIOUS
    <3> HIDE DEF h
    <3> QED
      BY <3>1, <3>2
  <2>5. k + 1 \in 0..N
    BY <1>1
  <2> QED
    BY <2>4, <2>5
<1>4. N \in P
  <2> HIDE DEF P, N
  <2>1. 0..N \subseteq P
    BY <1>1, <1>2, <1>3, CountingUp
  <2>2. N \in 0..N
    BY <1>1
  <2> QED
    BY <2>1, <2>2
<1> DEFINE iter == CHOOSE g : Solution(g, N)
           v == [k \in 0..N |-> iter[1..k]]
<1>5. Solution(iter, N)
  BY <1>4
<1>6. VisitAll(w, base, L) = iter[1..N]
  <2>1. DOMAIN L = 1..N
    OBVIOUS
  <2> QED
    BY <2>1 DEF VisitAll, FoldLeft, MapThenFoldSet
<1> HIDE DEF iter
<1>7. v[0] = base
  BY <1>1, <1>5
<1>8. ASSUME NEW k \in Numbers(L) PROVE v[k] = Visit(w, v[k - 1], L[k])
  <2> HIDE DEF N
  <2>0. k \in 1..N
    BY DEF Numbers, N
  <2>1. k \in Nat /\ k \in 0..N /\ k - 1 \in 0..N /\ 1..k \in SUBSET (1..N) /\ 1..k # {}
    BY <1>1, <2>0
  <2>2. Max(1..k) = k
    <3>1. Max(1..k) \in 1..k /\ \A m \in 1..k : m <= Max(1..k)
      <4>1. 1..k \in SUBSET (1..k)
        OBVIOUS
      <4> QED
        BY <2>1, <4>1, GreatestNumber
    <3> QED
      BY <2>1, <3>1
  <2>3. (1..k) \ {k} = 1..(k - 1)
    BY <2>1
  <2>4. iter[1..k] = Visit(w, iter[1..(k - 1)], L[k])
    BY <1>5, <2>1, <2>2, <2>3
  <2> QED
    BY <2>1, <2>4
<1>9. v[N] = iter[1..N]
  BY <1>1
<1> QED
  BY <1>6, <1>7, <1>8, <1>9

\* The outer loop: one round after the other.
StartOfPass(w) ==
    [remaining_deps |-> [t \in Numbers(w.tasks) |-> DependencyCount(w, t)],
     task_order |-> <<>>, layers |-> <<>>, next |-> FirstLayer(w)]

LEMMA PassIsRounds ==
    ASSUME NEW w, Len(w.tasks) \in Nat
    PROVE  \E r : /\ r[0] = StartOfPass(w)
                  /\ \A n \in Numbers(w.tasks) : r[n] = Round(w, r[n - 1])
                  /\ r[Len(w.tasks)] = KahnPass(w)
<1> DEFINE N == Len(w.tasks)
           start == StartOfPass(w)
           Solution(g, k) == g = [n \in 0..k |-> IF n = 0 THEN start ELSE Round(w, g[n - 1])]
           P == {k \in 0..N : \E g : Solution(g, k)}
<1>1. N \in Nat
  OBVIOUS
<1> HIDE DEF N, start
<1>2. 0 \in P
  <2>1. 0..0 = {0}
    OBVIOUS
  <2>2. Solution([n \in 0..0 |-> start], 0)
    BY <2>1
  <2>3. 0 \in 0..N
    BY <1>1
  <2> HIDE DEF Solution
  <2> QED
    BY <2>2, <2>3
<1>3. ASSUME NEW k \in 0..(N - 1), k \in P PROVE k + 1 \in P
  <2>1. PICK g : Solution(g, k)
    BY <1>3
  <2> DEFINE h == [n \in 0..(k + 1) |-> IF n = k + 1 THEN Round(w, g[k]) ELSE g[n]]
  <2>2. k \in Nat /\ k + 1 \in 0..N /\ (k + 1) - 1 = k /\ k \in 0..k /\ k \in 0..(k + 1)
    BY <1>1
  <2>3. ASSUME NEW n \in 0..(k + 1) PROVE h[n] = IF n = 0 THEN start ELSE Round(w, h[n - 1])
    <3>1. CASE n = k + 1
      <4>1. n # 0 /\ h[n] = Round(w, g[k]) /\ n - 1 = k /\ h[k] = g[k]
        BY <2>2, <3>1
      <4> HIDE DEF h
      <4> QED
        BY <4>1
    <3>2. CASE n # k + 1
      <4>1. n \in 0..k /\ (n # 0 => n - 1 \in 0..(k + 1) /\ n - 1 # k + 1)
        BY <2>2, <3>2
      <4>2. h[n] = g[n] /\ (n # 0 => h[n - 1] = g[n - 1])
        BY <3>2, <4>1
      <4>3. g[n] = IF n = 0 THEN start ELSE Round(w, g[n - 1])
        BY <2>1, <4>1
      <4> HIDE DEF h
      <4> QED
        BY <4>2, <4>3
    <3> QED
      BY <3>1, <3>2
  <2>4. h = [n \in 0..(k + 1) |-> h[n]]
    OBVIOUS
  <2>5. Solution(h, k + 1)
    <3> HIDE DEF h
    <3> QED
      BY <2>3, <2>4
  <2> QED
    BY <2>2, <2>5
<1>4. N \in P
  <2> HIDE DEF P
  <2>1. 0..N \subseteq P
    BY <1>1, <1>2, <1>3, CountingUp
  <2>2. N \in 0..N
    BY <1>1
  <2> QED
    BY <2>1, <2>2
<1> DEFINE rounds == CHOOSE g : Solution(g, N)
<1>5. Solution(rounds, N)
  BY <1>4
<1>6. KahnPass(w) = rounds[N]
  BY DEF KahnPass, StartOfPass, N, start
<1> HIDE DEF rounds
<1>7. rounds[0] = start
  BY <1>1, <1>5
<1>8. ASSUME NEW n \in Numbers(w.tasks) PROVE rounds[n] = Round(w, rounds[n - 1])
  <2>1. n \in 1..N
    BY DEF N, Numbers
  <2>2. n \in 0..N /\ n # 0
    BY <1>1, <2>1
  <2> QED
    BY <1>5, <2>2
<1> QED
  BY <1>6, <1>7, <1>8 DEF N, start

-----------------------------------------------------------------------------
(* What a task waits for.                                                   *)

Deps(w, t) ==
    {d \in Numbers(w.tasks) :
        \E i \in Numbers(w.tasks[t].inputs) : w.tasks[t].inputs[i] = w.tasks[d].id}
\* The tasks that read from none but those of V.
Ready(w, V) == {t \in Numbers(w.tasks) : Deps(w, t) \subseteq V}
\* The inputs of t that tasks outside V produce.
PendingInputs(w, t, V) ==
    {i \in Numbers(w.tasks[t].inputs) :
        \E d \in Numbers(w.tasks) \ V : w.tasks[t].inputs[i] = w.tasks[d].id}
Pending(w, t, V) == Cardinality(PendingInputs(w, t, V))
DistinctTaskIds(w) ==
    \A d, e \in Numbers(w.tasks) : w.tasks[d].id = w.tasks[e].id => d = e

LEMMA SequenceFacts ==
    ASSUME NEW s, IsSequence(s)
    PROVE  Len(s) \in Nat /\ DOMAIN s = 1..Len(s) /\ Numbers(s) = 1..Len(s)
BY DEF IsSequence, Numbers

\* The counters of the pass count pending inputs.
LEMMA PendingFacts ==
    ASSUME NEW w, TasksAreLists(w), NEW t \in Numbers(w.tasks), NEW V
    PROVE  /\ IsFiniteSet(PendingInputs(w, t, V))
           /\ Pending(w, t, V) \in Nat
           /\ Pending(w, t, V) = 0 <=> Deps(w, t) \subseteq V
           /\ DependencyCount(w, t) = Pending(w, t, {})
<1> DEFINE I == Numbers(w.tasks[t].inputs)
<1>1. IsFiniteSet(I)
  <2>1. IsSequence(w.tasks[t].inputs)
    BY DEF TasksAreLists
  <2> QED
    BY <2>1, SequenceFacts, FS_Interval
<1>2. IsFiniteSet(PendingInputs(w, t, V))
  <2>1. PendingInputs(w, t, V) \in SUBSET I
    BY DEF PendingInputs
  <2> QED
    BY <1>1, <2>1, FS_Subset
<1>3. Pending(w, t, V) \in Nat
  BY <1>2, FS_CardinalityType DEF Pending
<1>4. Pending(w, t, V) = 0 <=> PendingInputs(w, t, V) = {}
  BY <1>2, FS_EmptySet DEF Pending
<1>5. PendingInputs(w, t, V) = {} <=> Deps(w, t) \subseteq V
  BY DEF PendingInputs, Deps
<1>6. DependencyCount(w, t) = Pending(w, t, {})
  <2>1. Numbers(w.tasks) \ {} = Numbers(w.tasks)
    OBVIOUS
  <2> QED
    BY <2>1 DEF DependencyCount, Pending, PendingInputs
<1> QED
  BY <1>2, <1>3, <1>4, <1>5, <1>6

\* Visiting x takes off what its dependents read from it.
LEMMA PendingDrops ==
    ASSUME NEW w, TasksAreLists(w), DistinctTaskIds(w), NEW t \in Numbers(w.tasks),
           NEW V, NEW x \in Numbers(w.tasks) \ V
    PROVE  /\ InputsFrom(w, t, x) \in Nat
           /\ InputsFrom(w, t, x) > 0 <=> x \in Deps(w, t)
           /\ Pending(w, t, V) - InputsFrom(w, t, x) = Pending(w, t, V \cup {x})
<1> DEFINE A == PendingInputs(w, t, V)
           B == {i \in Numbers(w.tasks[t].inputs) : w.tasks[t].inputs[i] = w.tasks[x].id}
           C == PendingInputs(w, t, V \cup {x})
<1>1. B \in SUBSET A /\ C = A \ B
  BY DEF PendingInputs, DistinctTaskIds
<1>2. IsFiniteSet(A)
  BY PendingFacts
<1>3. B = {} <=> x \notin Deps(w, t)
  BY DEF Deps
<1> HIDE DEF A, B, C
<1>4. IsFiniteSet(B) /\ A \cap B = B
  BY <1>1, <1>2, FS_Subset
<1>5. Cardinality(B) \in Nat /\ (Cardinality(B) = 0 <=> B = {})
  BY <1>4, FS_EmptySet, FS_CardinalityType
<1>6. Cardinality(C) = Cardinality(A) - Cardinality(B)
  BY <1>1, <1>2, <1>4, FS_Difference
<1>7. InputsFrom(w, t, x) = Cardinality(B)
  BY DEF InputsFrom, B
<1> QED
  BY <1>3, <1>5, <1>6, <1>7 DEF Pending, A, C

-----------------------------------------------------------------------------
(* The inner loop: V0 is what was visited when the round began, V what is.  *)

Passes(w) ==
    [remaining_deps : [Numbers(w.tasks) -> Nat], task_order : Seq(Nat),
     layers : Seq(Seq(Nat)), next : Seq(Nat)]

\* Each task of order stands behind all it reads from.
InDependencyOrder(w, order) ==
    \A k \in Numbers(order) : Deps(w, order[k]) \subseteq {order[j] : j \in 1..(k - 1)}

VisitInv(w, p, V0, V) ==
    /\ p \in Passes(w)
    /\ V \subseteq Numbers(w.tasks)
    /\ p.remaining_deps = [t \in Numbers(w.tasks) |-> Pending(w, t, V)]
    /\ Lists(p.task_order, V)
    /\ InDependencyOrder(w, p.task_order)
    /\ Lists(p.next, Ready(w, V) \ Ready(w, V0))

LEMMA AppendOrdered ==
    ASSUME NEW w, NEW order, NEW V, Lists(order, V), InDependencyOrder(w, order),
           NEW x \in Nat, Deps(w, x) \subseteq V
    PROVE  InDependencyOrder(w, Append(order, x))
<1> DEFINE r == Append(order, x)
           n == Len(order)
<1>1. /\ n \in Nat /\ Len(r) = n + 1
      /\ \A i \in 1..n : r[i] = order[i]
      /\ r[n + 1] = x
  BY DEF Lists
<1> HIDE DEF r, n
<1>2. ASSUME NEW k \in 1..(n + 1) PROVE Deps(w, r[k]) \subseteq {r[j] : j \in 1..(k - 1)}
  <2>1. \A j \in 1..(k - 1) : j \in 1..n /\ r[j] = order[j]
    BY <1>1
  <2>2. {r[j] : j \in 1..(k - 1)} = {order[j] : j \in 1..(k - 1)}
    BY <2>1
  <2>3. CASE k = n + 1
    <3>1. V = {order[j] : j \in 1..n}
      BY DEF Lists, Elements, Numbers, n
    <3>2. k - 1 = n
      BY <1>1, <2>3
    <3> QED
      BY <1>1, <2>2, <2>3, <3>1, <3>2
  <2>4. CASE k # n + 1
    <3>1. k \in Numbers(order) /\ r[k] = order[k]
      BY <1>1, <2>4 DEF Numbers, n
    <3> QED
      BY <2>2, <3>1 DEF InDependencyOrder
  <2> QED
    BY <2>3, <2>4
<1>3. InDependencyOrder(w, r)
  BY <1>1, <1>2 DEF InDependencyOrder, Numbers
<1> QED
  BY <1>3 DEF r

\* Visiting a task whose dependencies were visited before the round.
LEMMA VisitKeeps ==
    ASSUME NEW w, TasksAreLists(w), DistinctTaskIds(w), NEW V0, NEW V, V0 \subseteq V,
           NEW p, VisitInv(w, p, V0, V), NEW x \in Ready(w, V0) \ V
    PROVE  /\ VisitInv(w, Visit(w, p, x), V0, V \cup {x})
           /\ Visit(w, p, x).layers = p.layers
<1>x. PICK y \in Numbers(w.tasks) \ V : y = x
  BY DEF Ready
<1>drops. ASSUME NEW c \in Numbers(w.tasks)
          PROVE  /\ InputsFrom(w, c, x) \in Nat
                 /\ InputsFrom(w, c, x) > 0 <=> x \in Deps(w, c)
                 /\ Pending(w, c, V) - InputsFrom(w, c, x) = Pending(w, c, V \cup {x})
  <2>1. /\ InputsFrom(w, c, y) \in Nat
        /\ InputsFrom(w, c, y) > 0 <=> y \in Deps(w, c)
        /\ Pending(w, c, V) - InputsFrom(w, c, y) = Pending(w, c, V \cup {y})
    BY PendingDrops
  <2> QED
    BY <1>x, <2>1
<1> DEFINE T == Numbers(w.tasks)
           q == Visit(w, p, x)
           left == [c \in T |-> p.remaining_deps[c] - InputsFrom(w, c, x)]
           children == {c \in T : InputsFrom(w, c, x) > 0}
           joins == {c \in children : left[c] = 0}
<1>1. /\ x \in T /\ x \notin V /\ Deps(w, x) \subseteq V0
      /\ T = 1..Len(w.tasks) /\ Len(w.tasks) \in Nat
  BY SequenceFacts DEF Ready, TasksAreLists
<1>2. x \in Nat
  BY <1>1
<1>3. left = [c \in T |-> Pending(w, c, V \cup {x})]
  <2>1. ASSUME NEW c \in T
        PROVE  p.remaining_deps[c] - InputsFrom(w, c, x) = Pending(w, c, V \cup {x})
    <3>1. p.remaining_deps[c] = Pending(w, c, V)
      BY DEF VisitInv
    <3> QED
      BY <1>drops, <3>1
  <2> QED
    BY <2>1
<1>4. joins = Ready(w, V \cup {x}) \ Ready(w, V)
  <2>1. ASSUME NEW c \in T
        PROVE  (InputsFrom(w, c, x) > 0 <=> x \in Deps(w, c))
               /\ (left[c] = 0 <=> Deps(w, c) \subseteq V \cup {x})
    <3>1. left[c] = Pending(w, c, V \cup {x})
      BY <1>3
    <3>2. Pending(w, c, V \cup {x}) = 0 <=> Deps(w, c) \subseteq V \cup {x}
      BY PendingFacts
    <3>3. InputsFrom(w, c, x) > 0 <=> x \in Deps(w, c)
      BY <1>drops
    <3> QED
      BY <3>1, <3>2, <3>3
  <2> HIDE DEF left
  <2>2. joins = {c \in T : x \in Deps(w, c) /\ Deps(w, c) \subseteq V \cup {x}}
    BY <2>1
  <2>3. \A c : (x \in Deps(w, c) /\ Deps(w, c) \subseteq V \cup {x})
                 <=> (Deps(w, c) \subseteq V \cup {x} /\ ~(Deps(w, c) \subseteq V))
    BY <1>1
  <2> HIDE DEF joins
  <2> QED
    BY <2>2, <2>3 DEF Ready
<1>5. q = [p EXCEPT !.remaining_deps = left, !.task_order = Append(@, x),
                    !.next = @ \o InIndexOrder(joins)]
  BY DEF Visit
<1>6. Lists(InIndexOrder(joins), joins)
  <2>1. joins \in SUBSET (1..Len(w.tasks))
    BY <1>1
  <2> HIDE DEF joins
  <2> QED
    BY <1>1, <2>1, InIndexOrderLists
<1> HIDE DEF joins, left, q
<1>7. p \in Passes(w) /\ p.task_order \in Seq(Nat) /\ p.next \in Seq(Nat)
  BY DEF VisitInv, Passes
<1>8. left \in [T -> Nat]
  BY <1>3, PendingFacts
<1>9. InIndexOrder(joins) \in Seq(Nat)
  BY <1>6 DEF Lists
<1>10. Append(p.task_order, x) \in Seq(Nat) /\ p.next \o InIndexOrder(joins) \in Seq(Nat)
  BY <1>2, <1>7, <1>9
<1>11. /\ q \in Passes(w)
       /\ q.remaining_deps = left /\ q.task_order = Append(p.task_order, x)
       /\ q.next = p.next \o InIndexOrder(joins) /\ q.layers = p.layers
  BY <1>5, <1>7, <1>8, <1>10 DEF Passes
<1>12. Lists(q.task_order, V \cup {x})
  BY <1>1, <1>2, <1>11, ListAppend DEF VisitInv
<1>13. InDependencyOrder(w, q.task_order)
  <2>1. Deps(w, x) \subseteq V
    BY <1>1
  <2> QED
    BY <1>2, <1>11, <2>1, AppendOrdered DEF VisitInv
<1>14. Lists(q.next, Ready(w, V \cup {x}) \ Ready(w, V0))
  <2>1. Ready(w, V0) \subseteq Ready(w, V) /\ Ready(w, V) \subseteq Ready(w, V \cup {x})
    BY DEF Ready
  <2>2. (Ready(w, V) \ Ready(w, V0)) \cap joins = {}
    BY <1>4
  <2>3. (Ready(w, V) \ Ready(w, V0)) \cup joins = Ready(w, V \cup {x}) \ Ready(w, V0)
    BY <1>4, <2>1
  <2>4. Lists(p.next, Ready(w, V) \ Ready(w, V0))
    BY DEF VisitInv
  <2>5. Lists(p.next \o InIndexOrder(joins), (Ready(w, V) \ Ready(w, V0)) \cup joins)
    BY <1>6, <2>2, <2>4, ListConcat
  <2> QED
    BY <1>11, <2>3, <2>5
<1>15. V \cup {x} \subseteq T
  BY <1>1 DEF VisitInv
<1>16. VisitInv(w, q, V0, V \cup {x})
  BY <1>3, <1>11, <1>12, <1>13, <1>14, <1>15 DEF VisitInv
<1> QED
  BY <1>11, <1>16 DEF q

-----------------------------------------------------------------------------
(* The outer loop: between two rounds, V is what was visited.               *)

\* What the layers before the k-th hold.
Before(layers, k) == UNION {Elements(layers[m]) : m \in 1..(k - 1)}
InLayers(layers) == UNION {Elements(layers[m]) : m \in Numbers(layers)}
\* Each layer is what became ready with those before it.
LayeredByReadiness(w, layers) ==
    \A k \in Numbers(layers) :
        /\ Before(layers, k) \subseteq Ready(w, Before(layers, k))
        /\ Elements(layers[k]) = Ready(w, Before(layers, k)) \ Before(layers, k)

RoundInv(w, p, V) ==
    /\ p \in Passes(w)
    /\ V \subseteq Ready(w, V)
    /\ p.remaining_deps = [t \in Numbers(w.tasks) |-> Pending(w, t, V)]
    /\ Lists(p.task_order, V)
    /\ InDependencyOrder(w, p.task_order)
    /\ Lists(p.next, Ready(w, V) \ V)
    /\ LayeredByReadiness(w, p.layers)
    /\ InLayers(p.layers) = V

LEMMA AppendLayer ==
    ASSUME NEW w, NEW layers \in Seq(Seq(Nat)), LayeredByReadiness(w, layers),
           NEW V, V = InLayers(layers), V \subseteq Ready(w, V),
           NEW L \in Seq(Nat), Elements(L) = Ready(w, V) \ V
    PROVE  /\ LayeredByReadiness(w, Append(layers, L))
           /\ InLayers(Append(layers, L)) = Ready(w, V)
<1> DEFINE r == Append(layers, L)
           n == Len(layers)
<1>1. /\ n \in Nat /\ Len(r) = n + 1
      /\ \A m \in 1..n : r[m] = layers[m]
      /\ r[n + 1] = L
  OBVIOUS
<1> HIDE DEF r, n
<1>2. ASSUME NEW k \in 1..(n + 1) PROVE Before(r, k) = Before(layers, k)
  <2>1. \A m \in 1..(k - 1) : r[m] = layers[m]
    BY <1>1
  <2> QED
    BY <2>1 DEF Before
<1>3. ASSUME NEW k \in 1..(n + 1)
      PROVE  /\ Before(r, k) \subseteq Ready(w, Before(r, k))
             /\ Elements(r[k]) = Ready(w, Before(r, k)) \ Before(r, k)
  <2>1. CASE k = n + 1
    <3>1. Before(layers, n + 1) = V
      <4>1. (n + 1) - 1 = n
        BY <1>1
      <4> QED
        BY <4>1 DEF Before, InLayers, Numbers, n
    <3> QED
      BY <1>1, <1>2, <2>1, <3>1
  <2>2. CASE k # n + 1
    <3>1. k \in Numbers(layers) /\ r[k] = layers[k]
      BY <1>1, <2>2 DEF Numbers, n
    <3> QED
      BY <1>2, <3>1 DEF LayeredByReadiness
  <2> QED
    BY <2>1, <2>2
<1>4. LayeredByReadiness(w, r)
  BY <1>1, <1>3 DEF LayeredByReadiness, Numbers
<1>5. InLayers(r) = V \cup Elements(L)
  <2>1. Numbers(r) = (1..n) \cup {n + 1} /\ Numbers(layers) = 1..n
    BY <1>1 DEF Numbers, n
  <2>2. UNION {Elements(r[m]) : m \in (1..n) \cup {n + 1}}
          = (UNION {Elements(layers[m]) : m \in 1..n}) \cup Elements(L)
    BY <1>1
  <2> QED
    BY <2>1, <2>2 DEF InLayers
<1>6. InLayers(r) = Ready(w, V)
  BY <1>5
<1> QED
  BY <1>4, <1>6 DEF r

\* A round visits all that became ready in the round before.
LEMMA RoundKeeps ==
    ASSUME NEW w, TasksAreLists(w), DistinctTaskIds(w), NEW V, NEW p, RoundInv(w, p, V),
           p.next # <<>>
    PROVE  RoundInv(w, Round(w, p), Ready(w, V))
<1> DEFINE L == p.next
           base == [p EXCEPT !.next = <<>>, !.layers = Append(@, p.next)]
           So(k) == V \cup {L[j] : j \in 1..k}
<1>1. /\ p \in Passes(w) /\ L \in Seq(Nat) /\ Len(L) \in Nat
      /\ p.layers \in Seq(Seq(Nat)) /\ Append(p.layers, L) \in Seq(Seq(Nat))
  <2>1. p \in Passes(w)
    BY DEF RoundInv
  <2>2. p.next \in Seq(Nat) /\ p.layers \in Seq(Seq(Nat))
    BY <2>1 DEF Passes
  <2> QED
    BY <2>1, <2>2
<1>2. /\ base \in Passes(w)
      /\ base.remaining_deps = p.remaining_deps /\ base.task_order = p.task_order
      /\ base.layers = Append(p.layers, L) /\ base.next = <<>>
  <2>1. <<>> \in Seq(Nat)
    OBVIOUS
  <2> QED
    BY <1>1, <2>1 DEF Passes
<1>3. Lists(L, Ready(w, V) \ V)
  BY DEF RoundInv
<1>4. VisitInv(w, base, V, V)
  <2>1. V \subseteq Numbers(w.tasks)
    BY DEF RoundInv, Ready
  <2>2. Lists(base.next, Ready(w, V) \ Ready(w, V))
    <3>1. Ready(w, V) \ Ready(w, V) = {}
      OBVIOUS
    <3> QED
      BY <1>2, <3>1, EmptyList
  <2> HIDE DEF base
  <2> QED
    BY <1>2, <2>1, <2>2 DEF VisitInv, RoundInv
<1>5. PICK v : /\ v[0] = base
               /\ \A k \in Numbers(L) : v[k] = Visit(w, v[k - 1], L[k])
               /\ v[Len(L)] = VisitAll(w, base, L)
  <2> HIDE DEF base, L
  <2> QED
    BY <1>1, FoldVisits
<1>6. Round(w, p) = v[Len(L)]
  BY <1>5 DEF Round
<1> HIDE DEF base, L
<1> DEFINE P == {k \in 0..Len(L) : VisitInv(w, v[k], V, So(k)) /\ v[k].layers = base.layers}
<1>7. 0 \in P
  <2>1. So(0) = V
    OBVIOUS
  <2>2. 0 \in 0..Len(L)
    BY <1>1
  <2> HIDE DEF So
  <2> QED
    BY <1>4, <1>5, <2>1, <2>2
<1>8. ASSUME NEW k \in 0..(Len(L) - 1), k \in P PROVE k + 1 \in P
  <2>1. k + 1 \in Numbers(L) /\ (k + 1) - 1 = k /\ k + 1 \in 0..Len(L)
    BY <1>1 DEF Numbers
  <2>2. v[k + 1] = Visit(w, v[k], L[k + 1])
    BY <1>5, <2>1
  <2>3. L[k + 1] \in Ready(w, V) \ So(k)
    <3>1. L[k + 1] \in Ready(w, V) \ V
      BY <1>3, <2>1 DEF Lists, Elements
    <3>2. ASSUME NEW j \in 1..k PROVE L[j] # L[k + 1]
      <4>1. j \in Numbers(L) /\ j # k + 1
        BY <1>1 DEF Numbers
      <4> QED
        BY <1>3, <2>1, <4>1 DEF Lists
    <3> QED
      BY <3>1, <3>2
  <2>4. So(k + 1) = So(k) \cup {L[k + 1]}
    <3>1. 1..(k + 1) = (1..k) \cup {k + 1}
      OBVIOUS
    <3> QED
      BY <3>1
  <2>5. V \subseteq So(k)
    OBVIOUS
  <2>6. VisitInv(w, v[k], V, So(k)) /\ v[k].layers = base.layers
    BY <1>8
  <2>9. PICK U : U = So(k)
    OBVIOUS
  <2>10. PICK y : y = L[k + 1]
    OBVIOUS
  <2> HIDE DEF So
  <2>13. PICK z : z = v[k]
    OBVIOUS
  <2>11. VisitInv(w, z, V, U) /\ V \subseteq U /\ y \in Ready(w, V) \ U
    BY <2>3, <2>5, <2>6, <2>9, <2>10, <2>13
  <2>12. /\ VisitInv(w, Visit(w, z, y), V, U \cup {y})
         /\ Visit(w, z, y).layers = z.layers
    BY <2>11, VisitKeeps
  <2>7. /\ VisitInv(w, Visit(w, v[k], L[k + 1]), V, So(k) \cup {L[k + 1]})
        /\ Visit(w, v[k], L[k + 1]).layers = v[k].layers
    BY <2>9, <2>10, <2>12, <2>13
  <2>8. VisitInv(w, v[k + 1], V, So(k + 1)) /\ v[k + 1].layers = base.layers
    BY <2>2, <2>4, <2>6, <2>7
  <2> QED
    BY <2>1, <2>8
<1>9. VisitInv(w, v[Len(L)], V, So(Len(L))) /\ v[Len(L)].layers = base.layers
  <2>1. 0..Len(L) \subseteq P
    <3> HIDE DEF P
    <3> QED
      BY <1>1, <1>7, <1>8, CountingUp
  <2>2. Len(L) \in 0..Len(L)
    BY <1>1
  <2>3. Len(L) \in P
    BY <2>1, <2>2
  <2> QED
    BY <2>3
<1>10. So(Len(L)) = Ready(w, V)
  <2>1. {L[j] : j \in 1..Len(L)} = Ready(w, V) \ V
    BY <1>3 DEF Lists, Elements, Numbers
  <2> QED
    BY <2>1 DEF RoundInv
<1>11. /\ LayeredByReadiness(w, Append(p.layers, L))
       /\ InLayers(Append(p.layers, L)) = Ready(w, V)
  <2>1. Elements(L) = Ready(w, V) \ V
    BY <1>3 DEF Lists
  <2>2. LayeredByReadiness(w, p.layers) /\ InLayers(p.layers) = V /\ V \subseteq Ready(w, V)
    BY DEF RoundInv
  <2> QED
    BY <1>1, <2>1, <2>2, AppendLayer, SMTT(30)
<1>12. Ready(w, V) \subseteq Ready(w, Ready(w, V))
  BY DEF RoundInv, Ready
<1> HIDE DEF So, P
<1> QED
  BY <1>2, <1>6, <1>9, <1>10, <1>11, <1>12 DEF VisitInv, RoundInv

-----------------------------------------------------------------------------
(* The whole pass.                                                          *)

LEMMA StartKept ==
    ASSUME NEW w, TasksAreLists(w)
    PROVE  RoundInv(w, StartOfPass(w), {})
<1> DEFINE T == Numbers(w.tasks)
           p == StartOfPass(w)
           first == {t \in T : DependencyCount(w, t) = 0}
<1>1. Len(w.tasks) \in Nat /\ T = 1..Len(w.tasks)
  BY SequenceFacts DEF TasksAreLists
<1>2. \A t \in T : DependencyCount(w, t) = Pending(w, t, {}) /\ Pending(w, t, {}) \in Nat
                   /\ (Pending(w, t, {}) = 0 <=> Deps(w, t) \subseteq {})
  BY PendingFacts
<1>3. first = Ready(w, {}) \ {}
  BY <1>2 DEF Ready
<1>4. Lists(FirstLayer(w), Ready(w, {}) \ {})
  <2>1. first \in SUBSET (1..Len(w.tasks))
    BY <1>1
  <2> HIDE DEF first
  <2>2. Lists(InIndexOrder(first), first)
    BY <1>1, <2>1, InIndexOrderLists
  <2> QED
    BY <1>3, <2>2 DEF FirstLayer, first
<1>5. /\ p.remaining_deps = [t \in T |-> DependencyCount(w, t)]
      /\ p.task_order = <<>> /\ p.layers = <<>> /\ p.next = FirstLayer(w)
  BY DEF StartOfPass
<1>6. p.remaining_deps = [t \in T |-> Pending(w, t, {})]
  BY <1>2, <1>5
<1>7. p \in Passes(w)
  <2>1. FirstLayer(w) \in Seq(Nat)
    BY <1>4 DEF Lists
  <2>2. [t \in T |-> DependencyCount(w, t)] \in [T -> Nat]
    BY <1>2
  <2>3. <<>> \in Seq(Nat) /\ <<>> \in Seq(Seq(Nat))
    OBVIOUS
  <2> QED
    BY <2>1, <2>2, <2>3 DEF StartOfPass, Passes
<1> HIDE DEF p
<1>8. InDependencyOrder(w, <<>>) /\ LayeredByReadiness(w, <<>>) /\ InLayers(<<>>) = {}
  BY DEF InDependencyOrder, LayeredByReadiness, InLayers, Numbers
<1>9. RoundInv(w, p, {})
  BY <1>4, <1>5, <1>6, <1>7, <1>8, EmptyList DEF RoundInv
<1> QED
  BY <1>9 DEF p

\* After as many rounds as there are tasks nothing is ready any more.
LEMMA PassEnds ==
    ASSUME NEW w, TasksAreLists(w), DistinctTaskIds(w)
    PROVE  \E V : RoundInv(w, KahnPass(w), V) /\ Ready(w, V) = V
<1> DEFINE N == Len(w.tasks)
           T == Numbers(w.tasks)
<1>1. N \in Nat /\ T = 1..N /\ IsFiniteSet(T) /\ Cardinality(T) = N
  <2>1. N \in Nat /\ T = 1..N
    BY SequenceFacts DEF TasksAreLists
  <2> QED
    BY <2>1, FS_Interval
<1>2. PICK r : /\ r[0] = StartOfPass(w)
               /\ \A n \in T : r[n] = Round(w, r[n - 1])
               /\ r[N] = KahnPass(w)
  BY <1>1, PassIsRounds
<1> HIDE DEF N, T
<1>3. ASSUME NEW V, NEW p, RoundInv(w, p, V)
      PROVE  V \in SUBSET T /\ IsFiniteSet(V) /\ Cardinality(V) \in Nat /\ Cardinality(V) <= N
  <2>1. V \in SUBSET T
    BY <1>3 DEF RoundInv, Ready, T
  <2> QED
    BY <1>1, <2>1, FS_Subset, FS_CardinalityType
<1> DEFINE Progress(n) == \E V : RoundInv(w, r[n], V) /\ (r[n].next = <<>> \/ Cardinality(V) >= n)
           P == {n \in 0..N : Progress(n)}
<1>4. 0 \in P
  <2>1. RoundInv(w, r[0], {}) /\ Cardinality({}) >= 0
    BY <1>2, StartKept, FS_EmptySet
  <2> QED
    BY <1>1, <2>1
<1>5. ASSUME NEW n \in 0..(N - 1), n \in P PROVE n + 1 \in P
  <2>1. PICK V : RoundInv(w, r[n], V) /\ (r[n].next = <<>> \/ Cardinality(V) >= n)
    BY <1>5
  <2>2. n + 1 \in T /\ (n + 1) - 1 = n /\ n + 1 \in 0..N
    BY <1>1
  <2>3. r[n + 1] = Round(w, r[n])
    BY <1>2, <2>2
  <2>4. CASE r[n].next = <<>>
    <3>1. r[n + 1] = r[n]
      BY <2>3, <2>4 DEF Round
    <3> QED
      BY <2>1, <2>2, <2>4, <3>1
  <2>5. CASE r[n].next # <<>>
    <3>1. RoundInv(w, r[n + 1], Ready(w, V))
      <4>1. PICK p : p = r[n]
        OBVIOUS
      <4>2. RoundInv(w, Round(w, p), Ready(w, V))
        BY <2>1, <2>5, <4>1, RoundKeeps
      <4> QED
        BY <2>3, <4>1, <4>2
    <3>2. Ready(w, V) # V
      <4>1. Lists(r[n].next, Ready(w, V) \ V)
        BY <2>1 DEF RoundInv
      <4>2. r[n].next \in Seq(Nat) /\ r[n].next # <<>>
        BY <2>5, <4>1 DEF Lists
      <4>3. 1 \in Numbers(r[n].next)
        BY <4>2 DEF Numbers
      <4>4. r[n].next[1] \in Ready(w, V) \ V
        BY <4>1, <4>3 DEF Lists, Elements
      <4> QED
        BY <4>4
    <3>3. V \subseteq Ready(w, V)
      BY <2>1 DEF RoundInv
    <3>4. IsFiniteSet(Ready(w, V)) /\ Cardinality(Ready(w, V)) \in Nat /\ Cardinality(V) \in Nat
      BY <1>3, <2>1, <3>1
    <3>5. Cardinality(V) < Cardinality(Ready(w, V))
      BY <3>2, <3>3, <3>4, FS_Subset
    <3>6. Cardinality(Ready(w, V)) >= n + 1
      <4>1. Cardinality(V) >= n /\ n \in Nat
        BY <1>1, <2>1, <2>5
      <4> QED
        BY <3>4, <3>5, <4>1
    <3> QED
      BY <2>2, <3>1, <3>6
  <2> QED
    BY <2>4, <2>5
<1>6. Progress(N)
  <2>1. 0..N \subseteq P
    <3> HIDE DEF P
    <3> QED
      BY <1>1, <1>4, <1>5, CountingUp
  <2>2. N \in 0..N
    BY <1>1
  <2>3. N \in P
    BY <2>1, <2>2
  <2> QED
    BY <2>3
<1>7. PICK V : RoundInv(w, r[N], V) /\ (r[N].next = <<>> \/ Cardinality(V) >= N)
  BY <1>6
<1>8. Ready(w, V) = V
  <2>1. V \subseteq Ready(w, V) /\ Ready(w, V) \subseteq T
    BY <1>7 DEF RoundInv, Ready, T
  <2>2. CASE r[N].next = <<>>
    <3>1. Lists(<<>>, Ready(w, V) \ V)
      BY <1>7, <2>2 DEF RoundInv
    <3>2. Ready(w, V) \ V = {}
      BY <3>1 DEF Lists, Elements, Numbers
    <3> QED
      BY <2>1, <3>2
  <2>3. CASE Cardinality(V) >= N
    <3>1. V \in SUBSET T /\ Cardinality(V) = N
      BY <1>1, <1>3, <1>7, <2>3
    <3>2. V = T
      BY <1>1, <3>1, FS_Subset
    <3> QED
      BY <2>1, <3>2
  <2> QED
    BY <1>7, <2>2, <2>3
<1> QED
  BY <1>2, <1>7, <1>8

\* No set of tasks waits on itself.
Acyclic(w) ==
    \A S \in SUBSET Numbers(w.tasks) : S # {} => \E t \in S : S \cap Deps(w, t) = {}

LEMMA AllEmittedIffAcyclic ==
    ASSUME NEW w, TasksAreLists(w), DistinctTaskIds(w)
    PROVE  Len(KahnPass(w).task_order) = Len(w.tasks) <=> Acyclic(w)
<1> DEFINE T == Numbers(w.tasks)
           order == KahnPass(w).task_order
<1>1. PICK V : RoundInv(w, KahnPass(w), V) /\ Ready(w, V) = V
  BY PassEnds
<1>2. IsFiniteSet(T) /\ Cardinality(T) = Len(w.tasks)
  <2>1. Len(w.tasks) \in Nat /\ T = 1..Len(w.tasks)
    BY SequenceFacts DEF TasksAreLists
  <2> QED
    BY <2>1, FS_Interval
<1>3. Lists(order, V) /\ InDependencyOrder(w, order) /\ V \in SUBSET T
  BY <1>1 DEF RoundInv, Ready
<1>4. Cardinality(V) = Len(order)
  BY <1>3, ListLength
<1> HIDE DEF order
<1>5. Len(order) = Len(w.tasks) <=> V = T
  <2>1. Cardinality(V) = Cardinality(T) => V = T
    BY <1>2, <1>3, FS_Subset
  <2> QED
    BY <1>2, <1>4, <2>1
<1>6. ASSUME V # T PROVE ~ Acyclic(w)
  <2>1. T \ V # {} /\ T \ V \in SUBSET T
    BY <1>3, <1>6
  <2>2. ASSUME NEW t \in T \ V PROVE (T \ V) \cap Deps(w, t) # {}
    <3>1. t \notin Ready(w, V)
      BY <1>1, <2>2
    <3>2. ~ (Deps(w, t) \subseteq V)
      BY <3>1 DEF Ready
    <3>3. Deps(w, t) \subseteq T
      BY DEF Deps
    <3> QED
      BY <3>2, <3>3
  <2> QED
    BY <2>1, <2>2 DEF Acyclic
<1>7. ASSUME V = T, NEW S \in SUBSET T, S # {} PROVE \E t \in S : S \cap Deps(w, t) = {}
  <2> DEFINE K == {k \in Numbers(order) : order[k] \in S}
  <2>1. Len(order) \in Nat /\ Numbers(order) = 1..Len(order)
    BY <1>3 DEF Lists, Numbers
  <2>2. K # {}
    <3>1. PICK t \in S : t \in Elements(order)
      BY <1>3, <1>7 DEF Lists
    <3> QED
      BY <3>1 DEF Elements
  <2>3. PICK k \in K : \A m \in K : k <= m
    <3>1. K \in SUBSET Nat
      BY <2>1
    <3> HIDE DEF K
    <3> QED
      BY <2>2, <3>1, LeastNumber
  <2>4. \A j \in 1..(k - 1) : order[j] \notin S
    <3> TAKE j \in 1..(k - 1)
    <3>1. j \in Numbers(order) /\ ~ (k <= j)
      BY <2>1
    <3>2. j \notin K
      BY <2>3, <3>1
    <3> QED
      BY <3>1, <3>2
  <2>5. Deps(w, order[k]) \subseteq {order[j] : j \in 1..(k - 1)}
    BY <1>3 DEF InDependencyOrder
  <2>6. S \cap Deps(w, order[k]) = {}
    BY <2>4, <2>5
  <2> QED
    BY <2>6
<1>8. V = T => Acyclic(w)
  BY <1>7 DEF Acyclic
<1> QED
  BY <1>5, <1>6, <1>8 DEF order

\* A pass that emits as many tasks as there are has emitted them all.
LEMMA FullPass ==
    ASSUME NEW w, TasksAreLists(w), DistinctTaskIds(w),
           Len(KahnPass(w).task_order) = Len(w.tasks)
    PROVE  RoundInv(w, KahnPass(w), Numbers(w.tasks))
<1>1. PICK V : RoundInv(w, KahnPass(w), V)
  BY PassEnds
<1>2. IsFiniteSet(Numbers(w.tasks)) /\ Cardinality(Numbers(w.tasks)) = Len(w.tasks)
  <2>1. Len(w.tasks) \in Nat /\ Numbers(w.tasks) = 1..Len(w.tasks)
    BY SequenceFacts DEF TasksAreLists
  <2> QED
    BY <2>1, FS_Interval
<1>3. V \in SUBSET Numbers(w.tasks) /\ Lists(KahnPass(w).task_order, V)
  BY <1>1 DEF RoundInv, Ready
<1>4. Cardinality(V) = Len(w.tasks)
  BY <1>3, ListLength
<1>5. V = Numbers(w.tasks)
  BY <1>2, <1>3, <1>4, FS_Subset
<1> QED
  BY <1>1, <1>5

-----------------------------------------------------------------------------
(* What is accepted.                                                        *)

LEMMA ConcatFacts ==
    ASSUME NEW U, NEW a \in Seq(U), NEW b \in Seq(U), NEW c, c = a \o b
    PROVE  /\ c \in Seq(U) /\ Len(c) = Len(a) + Len(b)
           /\ \A i \in 1..Len(a) : i \in 1..Len(c) /\ c[i] = a[i]
           /\ \A i \in 1..Len(b) : c[Len(a) + i] = b[i]
OBVIOUS

LEMMA DeclaredIdsAre ==
    ASSUME NEW w, IsWorkflow(w)
    PROVE  \E n, m, k \in Nat :
           /\ Numbers(w.inputs) = 1..n /\ Numbers(w.tasks) = 1..m /\ Numbers(w.outputs) = 1..k
           /\ Numbers(DeclaredIds(w)) = 1..(n + m + k)
           /\ \A i \in 1..n : DeclaredIds(w)[i] = w.inputs[i]
           /\ \A t \in 1..m : DeclaredIds(w)[n + t] = w.tasks[t].id
           /\ \A o \in 1..k : DeclaredIds(w)[n + m + o] = w.outputs[o].id
<1>0. PICK n, m, k \in Nat : n = Len(w.inputs) /\ m = Len(w.tasks) /\ k = Len(w.outputs)
  BY SequenceFacts DEF IsWorkflow, TasksAreLists
<1> DEFINE a == w.inputs
           b == [t \in Numbers(w.tasks) |-> w.tasks[t].id]
           c == [o \in Numbers(w.outputs) |-> w.outputs[o].id]
           U == Range(a) \cup Range(b) \cup Range(c)
<1>1. /\ n \in Nat /\ m \in Nat /\ k \in Nat
      /\ DOMAIN a = 1..n /\ Len(a) = n
      /\ Numbers(a) = 1..n /\ Numbers(w.tasks) = 1..m /\ Numbers(w.outputs) = 1..k
  BY <1>0, SequenceFacts DEF IsWorkflow, TasksAreLists
<1>2. a \in Seq(U) /\ Len(a) = n
  <2>1. a \in Seq(Range(a))
    BY DEF IsWorkflow, TasksAreLists, IsSequence
  <2>2. a \in [1..n -> U]
    <3>1. a \in [1..n -> Range(a)]
      BY <1>1, <2>1
    <3> HIDE DEF b, c
    <3> QED
      BY <3>1
  <2> HIDE DEF U
  <2> QED
    BY <1>1, <2>2
<1>3. b \in Seq(U) /\ Len(b) = m /\ \A t \in 1..m : b[t] = w.tasks[t].id
  <2>1. b \in [1..m -> Range(b)]
    BY <1>1 DEF Range
  <2>2. b \in [1..m -> U]
    <3> HIDE DEF a, b, c
    <3> QED
      BY <2>1
  <2>3. \A t \in 1..m : b[t] = w.tasks[t].id
    BY <1>1
  <2> HIDE DEF U, b
  <2> QED
    BY <1>1, <2>2, <2>3
<1>4. c \in Seq(U) /\ Len(c) = k /\ \A o \in 1..k : c[o] = w.outputs[o].id
  <2>1. c \in [1..k -> Range(c)]
    BY <1>1 DEF Range
  <2>2. c \in [1..k -> U]
    <3> HIDE DEF a, b, c
    <3> QED
      BY <2>1
  <2>3. \A o \in 1..k : c[o] = w.outputs[o].id
    BY <1>1
  <2> HIDE DEF U, c
  <2> QED
    BY <1>1, <2>2, <2>3
<1>5. DeclaredIds(w) = (a \o b) \o c
  BY DEF DeclaredIds
<1> HIDE DEF a, b, c, U
<1>16. PICK V : V = U
  OBVIOUS
<1>6. PICK x \in Seq(V), y \in Seq(V), z \in Seq(V) : x = a /\ y = b /\ z = c
  BY <1>2, <1>3, <1>4, <1>16
<1>8. n = Len(x) /\ m = Len(y) /\ k = Len(z)
  BY <1>2, <1>3, <1>4, <1>6
<1>7. PICK l \in Nat : l = n + m
  OBVIOUS
<1>17. PICK xy : xy = x \o y
  OBVIOUS
<1>9. /\ xy \in Seq(V) /\ l = Len(xy)
      /\ \A i \in 1..n : i \in 1..l /\ xy[i] = x[i]
      /\ \A t \in 1..m : n + t \in 1..l /\ xy[n + t] = y[t]
  <2>1. /\ xy \in Seq(V) /\ Len(xy) = Len(x) + Len(y)
        /\ \A i \in 1..Len(x) : i \in 1..Len(xy) /\ xy[i] = x[i]
        /\ \A t \in 1..Len(y) : xy[Len(x) + t] = y[t]
    BY <1>17, ConcatFacts
  <2> QED
    BY <1>7, <1>8, <2>1
<1>18. PICK xyz : xyz = xy \o z
  OBVIOUS
<1>10. /\ Len(xyz) = l + k
       /\ \A i \in 1..l : xyz[i] = xy[i]
       /\ \A o \in 1..k : xyz[l + o] = z[o]
  <2>1. /\ Len(xyz) = Len(xy) + Len(z)
        /\ \A i \in 1..Len(xy) : xyz[i] = xy[i]
        /\ \A o \in 1..Len(z) : xyz[Len(xy) + o] = z[o]
    BY <1>9, <1>18, ConcatFacts
  <2> QED
    BY <1>8, <1>9, <2>1
<1>11. DeclaredIds(w) = xyz
  BY <1>5, <1>6, <1>17, <1>18
<1>12. Numbers(DeclaredIds(w)) = 1..(n + m + k)
  BY <1>7, <1>10, <1>11 DEF Numbers
<1>13. \A i \in 1..n : DeclaredIds(w)[i] = w.inputs[i]
  BY <1>6, <1>7, <1>9, <1>10, <1>11 DEF a
<1>14. \A t \in 1..m : DeclaredIds(w)[n + t] = w.tasks[t].id
  BY <1>3, <1>6, <1>7, <1>9, <1>10, <1>11
<1>15. \A o \in 1..k : DeclaredIds(w)[n + m + o] = w.outputs[o].id
  BY <1>4, <1>6, <1>7, <1>10, <1>11
<1> QED
  BY <1>1, <1>12, <1>13, <1>14, <1>15 DEF a

\* No id is empty and none is declared twice.
UniqueIds(w) ==
    LET ids == DeclaredIds(w) IN
    /\ \A i, j \in Numbers(ids) : ids[i] = ids[j] => i = j
    /\ \A i \in Numbers(ids) : ids[i] # EmptyId

LEMMA NoBadIds ==
    ASSUME NEW w, IsWorkflow(w)
    PROVE  BadIds(w) = {} <=> UniqueIds(w)
<1> DEFINE ids == DeclaredIds(w)
<1>1. PICK l \in Nat : Numbers(ids) = 1..l
  <2>1. PICK n, m, k \in Nat : Numbers(ids) = 1..(n + m + k)
    BY DeclaredIdsAre
  <2>2. n + m + k \in Nat
    OBVIOUS
  <2> QED
    BY <2>1, <2>2
<1>2. BadIds(w) = {i \in 1..l : ids[i] = EmptyId \/ \E j \in 1..(i - 1) : ids[j] = ids[i]}
  BY <1>1 DEF BadIds
<1>3. UniqueIds(w) <=> /\ \A i, j \in 1..l : ids[i] = ids[j] => i = j
                       /\ \A i \in 1..l : ids[i] # EmptyId
  BY <1>1 DEF UniqueIds
<1> HIDE DEF ids
<1>4. ASSUME BadIds(w) = {} PROVE UniqueIds(w)
  <2>1. \A i \in 1..l : ids[i] # EmptyId /\ \A j \in 1..(i - 1) : ids[j] # ids[i]
    BY <1>2, <1>4
  <2>2. ASSUME NEW i \in 1..l, NEW j \in 1..l, ids[i] = ids[j] PROVE i = j
    <3>1. i \in 1..(j - 1) \/ j \in 1..(i - 1) \/ i = j
      BY <1>1
    <3> QED
      BY <2>1, <2>2, <3>1
  <2> QED
    BY <1>3, <2>1, <2>2
<1>5. ASSUME UniqueIds(w) PROVE BadIds(w) = {}
  <2>1. ASSUME NEW i \in 1..l, NEW j \in 1..(i - 1) PROVE ids[j] # ids[i]
    <3>1. j \in 1..l /\ j # i
      BY <1>1
    <3> QED
      BY <1>3, <1>5, <3>1
  <2> QED
    BY <1>2, <1>3, <1>5, <2>1
<1> QED
  BY <1>4, <1>5

Producers(w) ==
    {w.inputs[i] : i \in Numbers(w.inputs)} \cup {w.tasks[t].id : t \in Numbers(w.tasks)}

LEMMA UniqueIdsResolve ==
    ASSUME NEW w, IsWorkflow(w), UniqueIds(w)
    PROVE  DistinctTaskIds(w) /\ ArtifactIds(w) = Producers(w)
<1> DEFINE ids == DeclaredIds(w)
<1>0. PICK n, m, k \in Nat :
          /\ Numbers(w.inputs) = 1..n /\ Numbers(w.tasks) = 1..m /\ Numbers(w.outputs) = 1..k
          /\ Numbers(ids) = 1..(n + m + k)
          /\ \A i \in 1..n : ids[i] = w.inputs[i]
          /\ \A t \in 1..m : ids[n + t] = w.tasks[t].id
          /\ \A o \in 1..k : ids[n + m + o] = w.outputs[o].id
  BY DeclaredIdsAre
<1>1. /\ Numbers(ids) = 1..(n + m + k)
      /\ \A i \in 1..n : ids[i] = w.inputs[i]
      /\ \A t \in 1..m : ids[n + t] = w.tasks[t].id
      /\ \A o \in 1..k : ids[n + m + o] = w.outputs[o].id
  BY <1>0
<1>2. Numbers(w.inputs) = 1..n /\ Numbers(w.tasks) = 1..m /\ Numbers(w.outputs) = 1..k
  BY <1>0
<1>3. \A i, j \in 1..(n + m + k) : ids[i] = ids[j] => i = j
  BY <1>1 DEF UniqueIds
<1>4. ArtifactIds(w) = {ids[i] : i \in 1..(n + m + k)} \ {w.outputs[o].id : o \in 1..k}
  BY <1>1, <1>2 DEF ArtifactIds
<1> HIDE DEF ids
<1>5. ASSUME NEW d \in 1..m, NEW e \in 1..m, w.tasks[d].id = w.tasks[e].id PROVE d = e
  <2>1. n + d \in 1..(n + m + k) /\ n + e \in 1..(n + m + k)
    BY <1>1
  <2>2. ids[n + d] = ids[n + e]
    BY <1>1, <1>5
  <2>3. n + d = n + e
    BY <1>3, <2>1, <2>2
  <2> QED
    BY <1>1, <2>3
<1>6. ASSUME NEW x \in Producers(w) PROVE x \in ArtifactIds(w)
  <2>1. PICK i \in 1..(n + m) : x = ids[i]
    <3>1. CASE x \in {w.inputs[i] : i \in 1..n}
      <4>1. PICK i \in 1..n : x = w.inputs[i]
        BY <3>1
      <4> QED
        BY <1>1, <4>1
    <3>2. CASE x \in {w.tasks[t].id : t \in 1..m}
      <4>1. PICK t \in 1..m : x = w.tasks[t].id
        BY <3>2
      <4>2. n + t \in 1..(n + m)
        BY <1>1
      <4> QED
        BY <1>1, <4>1, <4>2
    <3> QED
      BY <1>2, <1>6, <3>1, <3>2 DEF Producers
  <2>2. ASSUME NEW o \in 1..k PROVE x # w.outputs[o].id
    <3>1. n + m + o \in 1..(n + m + k) /\ i \in 1..(n + m + k) /\ n + m + o # i
      BY <1>1
    <3> QED
      BY <1>1, <1>3, <2>1, <3>1
  <2>3. i \in 1..(n + m + k)
    BY <1>1
  <2> QED
    BY <1>4, <2>1, <2>2, <2>3
<1>7. ASSUME NEW x \in ArtifactIds(w) PROVE x \in Producers(w)
  <2>1. PICK i \in 1..(n + m + k) : x = ids[i]
    BY <1>4, <1>7
  <2>2. i \in 1..n \/ i - n \in 1..m \/ i - n - m \in 1..k
    BY <1>1
  <2>3. CASE i \in 1..n
    BY <1>1, <1>2, <2>1, <2>3 DEF Producers
  <2>4. CASE i - n \in 1..m
    <3>1. n + (i - n) = i
      BY <1>1
    <3>2. x = w.tasks[i - n].id
      BY <1>1, <2>1, <2>4, <3>1
    <3> QED
      BY <1>2, <2>4, <3>2 DEF Producers
  <2>5. CASE i - n - m \in 1..k
    <3>1. n + m + (i - n - m) = i
      BY <1>1
    <3>2. x = w.outputs[i - n - m].id
      BY <1>1, <2>1, <2>5, <3>1
    <3> QED
      BY <1>4, <1>7, <2>5, <3>2
  <2> QED
    BY <2>2, <2>3, <2>4, <2>5
<1> QED
  BY <1>2, <1>5, <1>6, <1>7 DEF DistinctTaskIds

\* The chain of checks lets through what every check lets through.
LEMMA NotRejected ==
    ASSUME NEW w, IsWorkflow(w)
    PROVE  Rejection(w) = "none" <=>
               /\ ~ w.zero_limit
               /\ Len(w.tasks) <= w.max_tasks
               /\ BadIds(w) = {} /\ FaultyTasks(w) = {} /\ DanglingOutputs(w) = {}
               /\ Len(KahnPass(w).task_order) = Len(w.tasks)
<1>1. Len(w.tasks) \in Nat /\ w.max_tasks \in Nat /\ w.zero_limit \in BOOLEAN
  BY SequenceFacts DEF IsWorkflow, TasksAreLists
<1>2. CASE w.zero_limit
  BY <1>2 DEF Rejection
<1>3. CASE ~ w.zero_limit /\ Len(w.tasks) > w.max_tasks
  BY <1>1, <1>3 DEF Rejection
<1>4. CASE ~ w.zero_limit /\ Len(w.tasks) <= w.max_tasks
  BY <1>1, <1>4 DEF Rejection
<1> QED
  BY <1>1, <1>2, <1>3, <1>4

LEMMA AcceptedIsWellFormed ==
    ASSUME IsWorkflow(workflow)
    PROVE  Rejection(workflow) = "none" <=> WellFormed
<1> DEFINE w == workflow
           T == Numbers(w.tasks)
<1>1. IsWorkflow(w)
  OBVIOUS
<1>2. ASSUME NEW t \in T
      PROVE  /\ IsSequence(w.tasks[t].inputs)
             /\ w.tasks[t].inputs = <<>> <=> ~ (Len(w.tasks[t].inputs) > 0)
  <2>1. IsSequence(w.tasks[t].inputs)
    BY DEF IsWorkflow, TasksAreLists
  <2>2. PICK s : s = w.tasks[t].inputs
    OBVIOUS
  <2>3. s \in Seq(Range(s))
    BY <2>1, <2>2 DEF IsSequence
  <2>4. s = <<>> <=> ~ (Len(s) > 0)
    BY <2>3
  <2> QED
    BY <2>1, <2>2, <2>4
<1>3. WellFormed <=>
        /\ ~ w.zero_limit /\ Len(w.tasks) <= w.max_tasks
        /\ UniqueIds(w)
        /\ \A t \in T : /\ Len(w.tasks[t].inputs) > 0
                        /\ \A i \in Numbers(w.tasks[t].inputs) :
                               w.tasks[t].inputs[i] \in Producers(w)
        /\ \A o \in Numbers(w.outputs) : w.outputs[o].from \in Producers(w)
        /\ \A S \in SUBSET T : S # {} => \E t \in S : \A d \in S : ~ReadsFrom(t, d)
  BY DEF WellFormed, UniqueIds, Producers, TaskNumbers
<1>4. ASSUME UniqueIds(w)
      PROVE  (FaultyTasks(w) = {} <=>
                 \A t \in T : /\ Len(w.tasks[t].inputs) > 0
                              /\ \A i \in Numbers(w.tasks[t].inputs) :
                                     w.tasks[t].inputs[i] \in Producers(w))
             /\ (DanglingOutputs(w) = {} <=>
                 \A o \in Numbers(w.outputs) : w.outputs[o].from \in Producers(w))
  <2>1. ArtifactIds(w) = Producers(w)
    BY <1>1, <1>4, UniqueIdsResolve
  <2> QED
    BY <1>2, <2>1 DEF FaultyTasks, DanglingOutputs
<1>5. ASSUME NEW S \in SUBSET T, NEW t \in S
      PROVE  (S \cap Deps(w, t) = {}) <=> \A d \in S : ~ReadsFrom(t, d)
  BY DEF Deps, ReadsFrom
<1>6. Acyclic(w) <=> \A S \in SUBSET T : S # {} => \E t \in S : \A d \in S : ~ReadsFrom(t, d)
  BY <1>5 DEF Acyclic
<1>7. ASSUME UniqueIds(w)
      PROVE  Len(KahnPass(w).task_order) = Len(w.tasks) <=> Acyclic(w)
  BY <1>1, <1>7, UniqueIdsResolve, AllEmittedIffAcyclic DEF IsWorkflow
<1>8. BadIds(w) = {} <=> UniqueIds(w)
  BY <1>1, NoBadIds
<1> HIDE DEF w, T
<1>9. Rejection(w) = "none" <=> WellFormed
  BY <1>1, <1>3, <1>4, <1>6, <1>7, <1>8, NotRejected
<1> QED
  BY <1>9 DEF w

-----------------------------------------------------------------------------
(* The plan of what is accepted.                                            *)

\* Every task is in the order of an accepted workflow.
LEMMA AcceptedPass ==
    ASSUME NEW w, IsWorkflow(w), Rejection(w) = "none"
    PROVE  RoundInv(w, KahnPass(w), Numbers(w.tasks))
<1>1. DistinctTaskIds(w)
  BY NotRejected, NoBadIds, UniqueIdsResolve
<1> QED
  BY <1>1, FullPass, NotRejected DEF IsWorkflow

LEMMA OneLayerEach ==
    ASSUME NEW w, NEW layers \in Seq(Seq(Nat)), LayeredByReadiness(w, layers),
           NEW k \in Numbers(layers), NEW m \in Numbers(layers),
           NEW t \in Elements(layers[k]), t \in Elements(layers[m])
    PROVE  k = m
<1>1. k \in Int /\ m \in Int
  BY DEF Numbers
<1>2. ASSUME NEW i \in Numbers(layers), NEW j \in Numbers(layers), i < j,
             t \in Elements(layers[i])
      PROVE  t \notin Elements(layers[j])
  <2>1. i \in 1..(j - 1)
    BY <1>2 DEF Numbers
  <2>2. t \in Before(layers, j)
    BY <1>2, <2>1 DEF Before
  <2> QED
    BY <2>2 DEF LayeredByReadiness
<1> QED
  BY <1>1, <1>2

\* What is behind the first layer became ready with the layer before it.
LEMMA NoLayerTooLate ==
    ASSUME NEW w, NEW layers \in Seq(Seq(Nat)), LayeredByReadiness(w, layers),
           NEW k \in Numbers(layers), k > 1, NEW t \in Elements(layers[k])
    PROVE  \E d \in Deps(w, t) : d \in Elements(layers[k - 1])
<1>1. k - 1 \in Numbers(layers) /\ k \in Int
  BY DEF Numbers
<1>2. Before(layers, k) = Before(layers, k - 1) \cup Elements(layers[k - 1])
  <2>1. PICK j \in Nat \ {0} : j = k - 1
    BY <1>1
  <2>2. 1..j = (1..(j - 1)) \cup {j}
    OBVIOUS
  <2> QED
    BY <2>1, <2>2 DEF Before
<1>3. Before(layers, k) = Ready(w, Before(layers, k - 1))
  BY <1>1, <1>2 DEF LayeredByReadiness
<1>4. t \in Ready(w, Before(layers, k)) /\ t \notin Before(layers, k)
  BY DEF LayeredByReadiness
<1>5. ~ (Deps(w, t) \subseteq Before(layers, k - 1)) /\ Deps(w, t) \subseteq Before(layers, k)
  BY <1>3, <1>4 DEF Ready
<1> QED
  BY <1>2, <1>5

LEMMA LayersHold ==
    ASSUME IsWorkflow(workflow), Rejection(workflow) = "none",
           plan = ExecutionPlan(workflow)
    PROVE  LayersAreDepths
<1> DEFINE w == workflow
           T == Numbers(w.tasks)
           layers == plan.layers
           layerOf(t) == {k \in Numbers(layers) :
                             \E i \in Numbers(layers[k]) : layers[k][i] = t}
<1>1. RoundInv(w, KahnPass(w), T)
  BY AcceptedPass
<1>2. layers = KahnPass(w).layers
  BY DEF ExecutionPlan
<1>3. /\ layers \in Seq(Seq(Nat)) /\ LayeredByReadiness(w, layers) /\ InLayers(layers) = T
      /\ Numbers(layers) \subseteq Int
  BY <1>1, <1>2 DEF RoundInv, Passes, Numbers
<1>4. \A t, k : k \in layerOf(t) <=> k \in Numbers(layers) /\ t \in Elements(layers[k])
  BY DEF Elements
<1>5. \A t, d \in T : ReadsFrom(t, d) <=> d \in Deps(w, t)
  BY DEF ReadsFrom, Deps
<1>6. SUFFICES /\ \A t \in T : Cardinality(layerOf(t)) = 1
               /\ \A t \in T : \A k \in layerOf(t) :
                      /\ \A d \in T : ReadsFrom(t, d) => \A m \in layerOf(d) : m < k
                      /\ k > 1 => \E d \in T : ReadsFrom(t, d) /\ k - 1 \in layerOf(d)
  BY DEF LayersAreDepths, TaskNumbers
<1> HIDE DEF layerOf, layers, T, w
<1>7. ASSUME NEW t \in T PROVE Cardinality(layerOf(t)) = 1
  <2>1. PICK k \in Numbers(layers) : t \in Elements(layers[k])
    BY <1>3 DEF InLayers
  <2>2. layerOf(t) = {k}
    <3>1. \A m \in layerOf(t) : m = k
      BY <1>3, <1>4, <2>1, OneLayerEach
    <3> QED
      BY <1>4, <2>1, <3>1
  <2> QED
    BY <2>2, FS_Singleton
<1>8. ASSUME NEW t \in T, NEW k \in layerOf(t), NEW d \in T, ReadsFrom(t, d),
             NEW m \in layerOf(d)
      PROVE  m < k
  <2>1. k \in Numbers(layers) /\ m \in Numbers(layers) /\ t \in Elements(layers[k])
        /\ d \in Elements(layers[m]) /\ d \in Deps(w, t)
    BY <1>4, <1>5, <1>8
  <2>2. d \in Before(layers, k)
    BY <1>3, <2>1 DEF LayeredByReadiness, Ready
  <2>3. PICK j \in 1..(k - 1) : d \in Elements(layers[j])
    BY <2>2 DEF Before
  <2>4. j \in Numbers(layers) /\ j < k
    BY <1>3, <2>1 DEF Numbers
  <2>5. j = m
    BY <1>3, <2>1, <2>3, <2>4, OneLayerEach
  <2> QED
    BY <2>4, <2>5
<1>9. ASSUME NEW t \in T, NEW k \in layerOf(t), k > 1
      PROVE  \E d \in T : ReadsFrom(t, d) /\ k - 1 \in layerOf(d)
  <2>1. k \in Numbers(layers) /\ t \in Elements(layers[k]) /\ k \in Int
    BY <1>3, <1>4
  <2>2. PICK d \in Deps(w, t) : d \in Elements(layers[k - 1])
    BY <1>3, <1>9, <2>1, NoLayerTooLate
  <2>3. d \in T
    BY DEF Deps, T
  <2>4. k - 1 \in Numbers(layers)
    BY <1>9, <2>1 DEF Numbers
  <2> QED
    BY <1>4, <1>5, <2>2, <2>3, <2>4
<1> QED
  BY <1>7, <1>8, <1>9

LEMMA EvictionHolds ==
    ASSUME IsWorkflow(workflow), Rejection(workflow) = "none",
           plan = ExecutionPlan(workflow)
    PROVE  SequentialEvictionIsSafe
<1> DEFINE w == workflow
           order == plan.task_order
<1>1. RoundInv(w, KahnPass(w), Numbers(w.tasks))
  BY AcceptedPass
<1>2. order = KahnPass(w).task_order
  BY DEF ExecutionPlan
<1>3. /\ Lists(order, Numbers(w.tasks)) /\ InDependencyOrder(w, order)
      /\ Len(order) \in Nat /\ Numbers(order) = 1..Len(order)
  BY <1>1, <1>2 DEF RoundInv, Lists, Numbers
<1>4. \A k \in Numbers(order) : order[k] \in Numbers(w.tasks)
  BY <1>3 DEF Lists, Elements
<1>5. plan.last_consumer = [ref \in ConsumedRefs(w) |-> LastConsumer(w, order, ref)]
  BY <1>2 DEF ExecutionPlan
<1> SUFFICES ASSUME NEW k \in Numbers(order), NEW i \in Numbers(w.tasks[order[k]].inputs)
             PROVE  LET ref == w.tasks[order[k]].inputs[i] IN
                    /\ \A j \in 1..(k - 1) : order[j] # plan.last_consumer[ref]
                    /\ \A d \in Numbers(w.tasks) :
                           ref = w.tasks[d].id => \E j \in 1..(k - 1) : order[j] = d
  BY DEF SequentialEvictionIsSafe, TaskNumbers
<1> DEFINE ref == w.tasks[order[k]].inputs[i]
<1>6. ref = w.tasks[order[k]].inputs[i]
  OBVIOUS
<1> HIDE DEF order, w, ref
<1>7. ASSUME NEW j \in 1..(k - 1) PROVE order[j] # plan.last_consumer[ref]
  <2> DEFINE K == {n \in Numbers(order) :
                      \E a \in Numbers(w.tasks[order[n]].inputs) :
                          w.tasks[order[n]].inputs[a] = ref}
  <2>1. k \in K /\ K \in SUBSET (1..Len(order))
    BY <1>3, <1>6
  <2>2. plan.last_consumer[ref] = order[Max(K)]
    <3>1. ref \in ConsumedRefs(w)
      BY <1>4, <1>6 DEF ConsumedRefs
    <3> QED
      BY <1>5, <3>1 DEF LastConsumer
  <2>3. Max(K) \in K /\ k <= Max(K)
    <3> HIDE DEF K
    <3>1. K # {}
      BY <2>1
    <3> QED
      BY <1>3, <2>1, <3>1, GreatestNumber
  <2>4. Max(K) \in Numbers(order) /\ j \in Numbers(order) /\ j # Max(K)
    <3>1. PICK l : l = Max(K)
      OBVIOUS
    <3> HIDE DEF K
    <3>2. l \in 1..Len(order) /\ k <= l /\ k \in 1..Len(order)
      BY <1>3, <2>1, <2>3, <3>1
    <3>3. j \in 1..Len(order) /\ j # l
      BY <1>3, <3>2
    <3> QED
      BY <1>3, <3>1, <3>2, <3>3
  <2> HIDE DEF K
  <2> QED
    BY <1>3, <2>2, <2>4 DEF Lists
<1>8. ASSUME NEW d \in Numbers(w.tasks), ref = w.tasks[d].id
      PROVE  \E j \in 1..(k - 1) : order[j] = d
  <2>1. d \in Deps(w, order[k])
    BY <1>6, <1>8 DEF Deps
  <2>2. d \in {order[j] : j \in 1..(k - 1)}
    BY <1>3, <2>1 DEF InDependencyOrder
  <2> QED
    BY <2>2
<1> QED
  BY <1>7, <1>8 DEF ref, order, w

-----------------------------------------------------------------------------
(* validate_workflow, called.                                               *)

\* The answer is that of the checks, and the plan is the accepted workflow's.
Answered ==
    /\ IsWorkflow(workflow)
    /\ rejection # "pending" => rejection = Rejection(workflow)
    /\ rejection = "none" => plan = ExecutionPlan(workflow)

LEMMA AnsweredHolds == ValidationSpec => []Answered
<1>1. ValidationInit => Answered
  BY WorkflowsAssumption DEF ValidationInit, Answered
<1>2. Answered /\ [ValidationNext]_validationVars => Answered'
  <2> SUFFICES ASSUME Answered, [ValidationNext]_validationVars PROVE Answered'
    OBVIOUS
  <2>1. CASE Accept
    BY <2>1 DEF Accept, Answered
  <2>2. CASE Reject
    BY <2>2 DEF Reject, Answered
  <2>3. CASE UNCHANGED validationVars
    BY <2>3 DEF validationVars, Answered
  <2> QED
    BY <2>1, <2>2, <2>3 DEF ValidationNext
<1> QED
  BY <1>1, <1>2, PTL DEF ValidationSpec

LEMMA AnsweredIsRight ==
    ASSUME Answered
    PROVE  AcceptsExactlyWellFormed /\ LayersAreDepths /\ SequentialEvictionIsSafe
<1>1. AcceptsExactlyWellFormed
  BY AcceptedIsWellFormed DEF Answered, AcceptsExactlyWellFormed, Accepted
<1>2. CASE rejection = "none"
  <2>1. IsWorkflow(workflow) /\ Rejection(workflow) = "none" /\ plan = ExecutionPlan(workflow)
    BY <1>2 DEF Answered
  <2> QED
    BY <1>1, <2>1, LayersHold, EvictionHolds
<1>3. CASE rejection # "none"
  BY <1>1, <1>3 DEF LayersAreDepths, SequentialEvictionIsSafe, Accepted
<1> QED
  BY <1>2, <1>3

\* validate_workflow accepts a workflow of whatever size exactly when it is well
\* formed: distinct ids, every reference resolved, and no tasks waiting on
\* themselves, which is what Kahn's pass finds by counting.
THEOREM AcceptanceIsExact == ValidationSpec => []AcceptsExactlyWellFormed
BY AnsweredHolds, AnsweredIsRight, PTL

\* The layers of every accepted workflow partition its tasks, and each task is
\* one layer behind its deepest dependency.
THEOREM LayeringIsExact == ValidationSpec => []LayersAreDepths
BY AnsweredHolds, AnsweredIsRight, PTL

\* In the task_order of every accepted workflow a task stands behind all it reads
\* from, and evicting each artifact behind its last_consumer takes none away early.
THEOREM EvictionIsSafe == ValidationSpec => []SequentialEvictionIsSafe
BY AnsweredHolds, AnsweredIsRight, PTL

-----------------------------------------------------------------------------
(* The tables.                                                              *)

\* Every command is in one table of arguments and in one of builders.
LEMMA ArgsAre ==
    ASSUME NEW t \in ArgTables, NEW c \in DOMAIN t
    PROVE  ArgsOf(c) = t[c]
<1>1. ASSUME NEW s \in ArgTables, c \in DOMAIN s PROVE s = t
  BY <1>1 DEF ArgTables, EditPageArgs, EditLayoutArgs, EditConvertArgs, DocumentArgs,
     InteractiveArgs, MarkArgs, ImageColorArgs, SignArgs, SecurityArgs, CompareArgs
<1> QED
  BY <1>1 DEF ArgsOf

LEMMA BuildersAre ==
    ASSUME NEW t \in BuilderTables, NEW c \in DOMAIN t
    PROVE  BuilderOf(c) = t[c]
<1>1. ASSUME NEW s \in BuilderTables, c \in DOMAIN s PROVE s = t
  BY <1>1 DEF BuilderTables, PageBuilders, LayoutBuilders, ConversionBuilders,
     CompressionBuilders, InspectBuilders, CompareBuilders, MetadataBuilders, OutlineBuilders,
     AttachBuilders, AnnotFormBuilders, ImageBuilders, ColorBuilders, SignBuilders,
     MarkBuilders, SecurityBuilders
<1> QED
  BY <1>1 DEF BuilderOf

LEMMA CommandsHaveTables ==
    ASSUME NEW c \in CommandNames
    PROVE  /\ \E t \in ArgTables : c \in DOMAIN t
           /\ \E t \in BuilderTables : c \in DOMAIN t
<1>1. \E t \in ArgTables : c \in DOMAIN t
  BY DEF CommandNames, AdvCommands, CommandFamilies, ArgTables, EditPageArgs, EditLayoutArgs,
         EditConvertArgs, DocumentArgs, InteractiveArgs, MarkArgs, ImageColorArgs, SignArgs,
         SecurityArgs, CompareArgs
<1>2. \E t \in BuilderTables : c \in DOMAIN t
  BY DEF CommandNames, AdvCommands, CommandFamilies, BuilderTables, EditPageArgs, EditLayoutArgs,
         PageBuilders, LayoutBuilders, ConversionBuilders, CompressionBuilders, InspectBuilders,
         CompareBuilders, MetadataBuilders, OutlineBuilders, AttachBuilders, AnnotFormBuilders,
         ImageBuilders, ColorBuilders, SignBuilders, MarkBuilders, SecurityBuilders
<1> QED
  BY <1>1, <1>2

\* The commands of each table of builders.
LEMMA BuilderDomains ==
    /\ DOMAIN PageBuilders = {"Merge", "KeepPages", "ExtractPages", "ReorderPages",
                              "DeletePages", "RotatePages", "DeleteBlankPages"}
    /\ DOMAIN LayoutBuilders = {"CropPages", "ScalePages", "SinglePage", "NUp", "Booklet",
                                "PageNumbers"}
    /\ DOMAIN ConversionBuilders = {"Img2pdf", "Svg2pdf", "WatermarkText", "WatermarkImage",
                                    "WatermarkSvg"}
    /\ DOMAIN CompressionBuilders = {"Compress"}
    /\ DOMAIN InspectBuilders = {"Render", "ExtractText"}
    /\ DOMAIN CompareBuilders = {"Report", "VisualDiff"}
    /\ DOMAIN MetadataBuilders = {"MetadataGet", "MetadataValidate", "MetadataSet",
                                  "MetadataDelete"}
    /\ DOMAIN OutlineBuilders = {"OutlineGet", "OutlineDelete", "OutlineSet"}
    /\ DOMAIN AttachBuilders = {"AttachList", "AttachAdd", "AttachExtract", "AttachDelete"}
    /\ DOMAIN AnnotFormBuilders = {"AnnotList", "FormInspect", "FormUnlockReadonly",
                                   "FormRemove", "AnnotAdd", "AnnotDelete", "FormFill",
                                   "InteractiveRemove"}
    /\ DOMAIN ImageBuilders = {"ImageList", "ImageAdd", "ImageReplace", "ImageDelete",
                               "ImageExtract"}
    /\ DOMAIN ColorBuilders = {"ColorInvert", "ColorContrast", "ColorReplace"}
    /\ DOMAIN SignBuilders = {"SignAdd", "SignVerify", "SignList", "SignDeleteField",
                              "Timestamp"}
    /\ DOMAIN MarkBuilders = {"Stamp", "Appearance", "OverlayPdf"}
    /\ DOMAIN SecurityBuilders = {"Encrypt", "PermissionsSet", "Decrypt", "PermissionsGet"}
<1>1. DOMAIN PageBuilders = {"Merge", "KeepPages", "ExtractPages", "ReorderPages",
                             "DeletePages", "RotatePages", "DeleteBlankPages"}
  BY DEF PageBuilders
<1>2. DOMAIN LayoutBuilders = {"CropPages", "ScalePages", "SinglePage", "NUp", "Booklet",
                               "PageNumbers"}
  BY DEF LayoutBuilders
<1>3. DOMAIN ConversionBuilders = {"Img2pdf", "Svg2pdf", "WatermarkText", "WatermarkImage",
                                   "WatermarkSvg"}
  BY DEF ConversionBuilders
<1>4. DOMAIN CompressionBuilders = {"Compress"}
  BY DEF CompressionBuilders
<1>5. DOMAIN InspectBuilders = {"Render", "ExtractText"}
  BY DEF InspectBuilders
<1>6. DOMAIN CompareBuilders = {"Report", "VisualDiff"}
  BY DEF CompareBuilders
<1>7. DOMAIN MetadataBuilders = {"MetadataGet", "MetadataValidate", "MetadataSet",
                                 "MetadataDelete"}
  BY DEF MetadataBuilders
<1>8. DOMAIN OutlineBuilders = {"OutlineGet", "OutlineDelete", "OutlineSet"}
  BY DEF OutlineBuilders
<1>9. DOMAIN AttachBuilders = {"AttachList", "AttachAdd", "AttachExtract", "AttachDelete"}
  BY DEF AttachBuilders
<1>10. DOMAIN AnnotFormBuilders = {"AnnotList", "FormInspect", "FormUnlockReadonly",
                                   "FormRemove", "AnnotAdd", "AnnotDelete", "FormFill",
                                   "InteractiveRemove"}
  BY DEF AnnotFormBuilders
<1>11. DOMAIN ImageBuilders = {"ImageList", "ImageAdd", "ImageReplace", "ImageDelete",
                               "ImageExtract"}
  BY DEF ImageBuilders
<1>12. DOMAIN ColorBuilders = {"ColorInvert", "ColorContrast", "ColorReplace"}
  BY DEF ColorBuilders
<1>13. DOMAIN SignBuilders = {"SignAdd", "SignVerify", "SignList", "SignDeleteField",
                              "Timestamp"}
  BY DEF SignBuilders
<1>14. DOMAIN MarkBuilders = {"Stamp", "Appearance", "OverlayPdf"}
  BY DEF MarkBuilders
<1>15. DOMAIN SecurityBuilders = {"Encrypt", "PermissionsSet", "Decrypt", "PermissionsGet"}
  BY DEF SecurityBuilders
<1> QED
  BY <1>1, <1>2, <1>3, <1>4, <1>5, <1>6, <1>7, <1>8,
     <1>9, <1>10, <1>11, <1>12, <1>13, <1>14, <1>15

\* The commands that take more than one operand.
PairCommands ==
    {"WatermarkText", "WatermarkImage", "WatermarkSvg", "OutlineSet", "AttachAdd", "OverlayPdf",
     "ImageAdd", "ImageReplace", "Report", "VisualDiff", "Img2pdf"}

LEMMA OperandCounts ==
    ASSUME NEW c \in CommandNames, NEW n \in ArgsOf(c).operands
    PROVE  /\ n \in 1..3
           /\ n = 2 => c \in PairCommands \cup {"Merge"}
           /\ n = 3 => c = "Merge"
           /\ c \in {"Merge", "Report", "VisualDiff", "AttachAdd", "OutlineSet", "OverlayPdf",
                     "ImageAdd", "ImageReplace"} => n >= 2
<1>1. PICK t \in ArgTables : c \in DOMAIN t
  BY CommandsHaveTables
<1>2. n \in t[c].operands
  BY <1>1, ArgsAre
<1>3. CASE t = EditPageArgs
  BY <1>1, <1>2, <1>3 DEF EditPageArgs, Args, InputOnly, WatermarkArgs, PairCommands
<1>4. CASE t = EditLayoutArgs
  BY <1>1, <1>2, <1>4 DEF EditLayoutArgs, Args, InputOnly, WatermarkArgs, PairCommands
<1>5. CASE t = EditConvertArgs
  BY <1>1, <1>2, <1>5 DEF EditConvertArgs, Args, InputOnly, WatermarkArgs, PairCommands
<1>6. CASE t = DocumentArgs
  BY <1>1, <1>2, <1>6 DEF DocumentArgs, Args, InputOnly, WatermarkArgs, PairCommands
<1>7. CASE t = InteractiveArgs
  BY <1>1, <1>2, <1>7 DEF InteractiveArgs, Args, InputOnly, WatermarkArgs, PairCommands
<1>8. CASE t = MarkArgs
  BY <1>1, <1>2, <1>8 DEF MarkArgs, Args, InputOnly, WatermarkArgs, PairCommands
<1>9. CASE t = ImageColorArgs
  BY <1>1, <1>2, <1>9 DEF ImageColorArgs, Args, InputOnly, WatermarkArgs, PairCommands
<1>10. CASE t = SignArgs
  BY <1>1, <1>2, <1>10 DEF SignArgs, Args, InputOnly, WatermarkArgs, PairCommands
<1>11. CASE t = SecurityArgs
  BY <1>1, <1>2, <1>11 DEF SecurityArgs, Args, InputOnly, WatermarkArgs, PairCommands
<1>12. CASE t = CompareArgs
  BY <1>1, <1>2, <1>12 DEF CompareArgs, Args, InputOnly, WatermarkArgs, PairCommands
<1> QED
  BY <1>1, <1>3, <1>4, <1>5, <1>6, <1>7, <1>8, <1>9, <1>10, <1>11, <1>12 DEF ArgTables

LEMMA Guards ==
    ASSUME NEW c \in PairCommands \cup {"Merge"}
    PROVE  BuilderOf(c).guard =
               IF c \in {"Merge", "Img2pdf"} THEN "multiple"
               ELSE IF c \in {"WatermarkText", "Report", "VisualDiff"} THEN "none" ELSE "shared"
<1>1. PICK t \in BuilderTables : c \in DOMAIN t
  BY CommandsHaveTables
  DEF PairCommands, CommandNames, CommandFamilies, AdvCommands, EditPageArgs, EditLayoutArgs
<1>2. BuilderOf(c) = t[c]
  BY <1>1, BuildersAre
<1>3. \/ t = PageBuilders /\ c = "Merge"
      \/ t = ConversionBuilders /\ c \in {"Img2pdf", "WatermarkText", "WatermarkImage",
                                        "WatermarkSvg"}
      \/ t = OutlineBuilders /\ c = "OutlineSet"
      \/ t = AttachBuilders /\ c = "AttachAdd"
      \/ t = MarkBuilders /\ c = "OverlayPdf"
      \/ t = ImageBuilders /\ c \in {"ImageAdd", "ImageReplace"}
      \/ t = CompareBuilders /\ c \in {"Report", "VisualDiff"}
  BY <1>1, BuilderDomains DEF PairCommands, BuilderTables
<1>4. CASE t = PageBuilders /\ c = "Merge"
  BY <1>2, <1>4 DEF PageBuilders, Builds
<1>5. CASE t = ConversionBuilders /\ c \in {"Img2pdf", "WatermarkText", "WatermarkImage",
                                           "WatermarkSvg"}
  BY <1>2, <1>5 DEF ConversionBuilders, Builds, Edits
<1>6. CASE t = OutlineBuilders /\ c = "OutlineSet"
  BY <1>2, <1>6 DEF OutlineBuilders, Builds
<1>7. CASE t = AttachBuilders /\ c = "AttachAdd"
  BY <1>2, <1>7 DEF AttachBuilders, Builds
<1>8. CASE t = MarkBuilders /\ c = "OverlayPdf"
  BY <1>2, <1>8 DEF MarkBuilders, Builds
<1>9. CASE t = ImageBuilders /\ c \in {"ImageAdd", "ImageReplace"}
  BY <1>2, <1>9 DEF ImageBuilders, Builds
<1>10. CASE t = CompareBuilders /\ c \in {"Report", "VisualDiff"}
  BY <1>2, <1>10 DEF CompareBuilders, Builds
<1> QED
  BY <1>3, <1>4, <1>5, <1>6, <1>7, <1>8, <1>9, <1>10

\* A command one of whose operands is standard input is on the list of those
\* that read it.
LEMMA StdinAsked ==
    ASSUME NEW c, IsCommand(c), NEW i \in DOMAIN c.operands, c.operands[i] = "-"
    PROVE  cli_reads_stdin(c.command, c.operands)
<1>1. PICK n \in ArgsOf(c.command).operands : c.operands \in [1..n -> {"file", "-"}]
  BY DEF IsCommand
<1>2. c.command \in CommandNames
  BY DEF IsCommand
<1>3. n \in 1..3 /\ DOMAIN c.operands = 1..n /\ i \in 1..n
  BY <1>1, <1>2, OperandCounts
<1>4. CASE i = 1
  <2>1. InputIsStdio(c.operands) /\ EitherIsStdio(c.operands)
    BY <1>3, <1>4 DEF InputIsStdio, EitherIsStdio
  <2> DEFINE F == CommandFamilies
  <2>2. /\ pdf_edit_reads_stdin(c.command, c.operands)
        /\ pdf_inspect_reads_stdin(c.command, c.operands)
        /\ pdf_security_reads_stdin(c.command, c.operands)
        /\ pdf_compare_reads_stdin(c.command, c.operands)
        /\ sign_reads_stdin(c.command, c.operands)
        /\ pdf_adv_reads_stdin(c.command, c.operands)
    BY <2>1 DEF pdf_edit_reads_stdin, pdf_inspect_reads_stdin, pdf_security_reads_stdin,
                pdf_compare_reads_stdin, sign_reads_stdin, pdf_adv_reads_stdin
  <2>3. \/ c.command \in F.PdfEdit \/ c.command \in F.PdfInspect \/ c.command \in F.PdfSecurity
        \/ c.command \in F.PdfCompare \/ c.command \in F.PdfSign \/ c.command \in AdvCommands
    BY <1>2 DEF CommandNames, CommandFamilies
  <2> QED
    BY <2>2, <2>3 DEF cli_reads_stdin
<1>5. CASE i # 1
  <2>1. EitherIsStdio(c.operands)
    BY DEF EitherIsStdio
  <2>2. c.command \in PairCommands \cup {"Merge"}
    BY <1>1, <1>2, <1>3, <1>5, OperandCounts
  <2> QED
    BY <2>1, <2>2
    DEF PairCommands, cli_reads_stdin, CommandNames, pdf_edit_reads_stdin, 
        pdf_compare_reads_stdin, pdf_adv_reads_stdin,
        CommandFamilies, AdvCommands, EditPageArgs, EditLayoutArgs
<1> QED
  BY <1>4, <1>5

-----------------------------------------------------------------------------
(* The calls.                                                               *)

LEMMA ListDomain ==
    ASSUME NEW s, IsSequence(s)
    PROVE  DOMAIN s = Numbers(s) /\ Len(s) \in Nat
BY SequenceFacts DEF IsSequence, Numbers

LEMMA PlainRunIsCall ==
    ASSUME NEW w \in Workflows
    PROVE  IsRunCall(PlainRun(w))
<1> DEFINE content == PlainRun(w).content
           entry == [name |-> "DeleteBlankPages", kind |-> "none", given |-> {}]
           def == ToDef(Operator("PdfEdit", "DeleteBlankPages", "none", {}))
<1>1. IsWorkflow(w)
  BY WorkflowsAssumption
<1>2. /\ content.workflow = w
      /\ content.paths = [i \in DOMAIN w.inputs |-> "file"]
      /\ content.defs = [t \in DOMAIN w.tasks |-> def]
  BY DEF PlainRun
<1>3. DOMAIN w.inputs = Numbers(w.inputs) /\ DOMAIN w.tasks = Numbers(w.tasks)
  BY <1>1, ListDomain DEF IsWorkflow, TasksAreLists
<1>4. IsDef(def)
  <2>1. def = [f \in {"PdfEdit"} |-> {entry}]
    BY DEF ToDef, Operator, Entries
  <2>2. DOMAIN def = {"PdfEdit"} /\ def["PdfEdit"] = {entry}
    BY <2>1
  <2>3. entry = [name |-> entry.name, kind |-> entry.kind, given |-> entry.given]
    OBVIOUS
  <2>4. "PdfEdit" \in OperatorFamilies
    BY DEF OperatorFamilies, Variants
  <2> HIDE DEF def, entry
  <2>5. IsFiniteSet({entry})
    BY FS_Singleton
  <2>6. entry.kind \in KindsOf("PdfEdit", entry.name)
    BY DEF entry, KindsOf, StructOf, Variants, EditVariants, Selectors
  <2> QED
    BY <2>2, <2>3, <2>4, <2>5, <2>6 DEF IsDef
<1> HIDE DEF def
<1>5. IsContent(content)
  BY <1>1, <1>2, <1>3, <1>4 DEF IsContent
<1> QED
  BY <1>5 DEF PlainRun, IsRunCall

\* The stages that the calls of each door pass through.
FrontStages == {"started", "parsed", "refused", "built", "loaded", "accepted", "rejected", "failed"}
CallKept ==
    /\ IsCall(call) /\ stage \in FrontStages
    /\ stage \in {"parsed", "built"} => call.door \in CliDoors
    /\ stage = "started" => ~changed

LEMMA CallStays == CallKept /\ [FrontNext]_frontVars => CallKept'
<1> SUFFICES ASSUME CallKept, [FrontNext]_frontVars PROVE CallKept'
  OBVIOUS
<1> USE DEF CallKept, FrontStages
<1>1. CASE stdin_for_args
  BY <1>1 DEF stdin_for_args
<1>2. CASE FileChanges
  <2>1. IsRunCall(call) /\ stage = "parsed"
    BY <1>2 DEF FileChanges, At, IsCall, IsCommandCall, IsWebCall
  <2>2. PICK c \in Contents : call' = [call EXCEPT !.content = c]
    BY <1>2 DEF FileChanges
  <2>3. IsContent(c)
    BY CallsAssumption
  <2>4. /\ call'.door = "run" /\ DOMAIN call' = {"door", "path", "metrics", "content"}
        /\ call'.path = call.path /\ call'.metrics = call.metrics /\ call'.content = c
    BY <2>1, <2>2 DEF IsRunCall
  <2>5. IsRunCall(call')
    BY <2>1, <2>3, <2>4 DEF IsRunCall
  <2> QED
    BY <1>2, <2>1, <2>4, <2>5 DEF FileChanges, IsCall, CliDoors
<1>3. CASE BuildCommand
  BY <1>3 DEF BuildCommand, Build, At, CliDoors
<1>4. CASE RefuseCommand
  BY <1>4 DEF RefuseCommand, Refuse, At
<1>5. CASE BuildRun
  BY <1>5 DEF BuildRun, Build, At, CliDoors
<1>6. CASE RefuseRun
  BY <1>6 DEF RefuseRun, Refuse, At
<1>7. CASE load_inputs
  BY <1>7 DEF load_inputs
<1>8. CASE api_execute_single
  BY <1>8 DEF api_execute_single
<1>9. CASE api_execute_workflow
  BY <1>9 DEF api_execute_workflow
<1>10. CASE RefuseRequest
  BY <1>10 DEF RefuseRequest, Refuse
<1>11. CASE AcceptLoaded
  BY <1>11 DEF AcceptLoaded
<1>12. CASE RejectLoaded
  BY <1>12 DEF RejectLoaded
<1>13. CASE RunTask
  BY <1>13 DEF RunTask
<1>14. CASE TaskFails
  BY <1>14 DEF TaskFails
<1>15. CASE UNCHANGED frontVars
  BY <1>15 DEF frontVars
<1> QED
  BY <1>1, <1>2, <1>3, <1>4, <1>5, <1>6, <1>7, <1>8, <1>9, <1>10, <1>11, <1>12, <1>13, <1>14,
     <1>15 DEF FrontNext

-----------------------------------------------------------------------------
(* Standard input.                                                          *)

\* What is on standard input besides the inputs of the workflow.
WorkflowReads == IF call.path = "-" THEN {<<"workflow", 0>>} ELSE {}
Inputs(places) == {<<"input", i>> : i \in places}

CommandStdin ==
    call.door = "command" =>
        /\ stage # "started" /\ cli_reads_stdin(call.command, call.operands) => stdin = "read"
        /\ consumed \subseteq BuilderReads(call.command, call.operands)
                              \cup Inputs(Dashes(InputOperands(call.command, call.operands)))
        /\ stage \in {"refused", "built"} =>
               consumed \subseteq BuilderReads(call.command, call.operands)
        /\ Built => ~RefusesOperands(call.command, call.operands)
RunStdin ==
    call.door = "run" =>
        /\ stage # "started" /\ ~changed /\ run_reads_stdin(call.path, call.content)
               => stdin = "read"
        /\ consumed \subseteq WorkflowReads \cup Inputs(DashInputs(call.content))
        /\ stage \in {"refused", "built"} => consumed \subseteq WorkflowReads
        /\ Built => TakesDashes
StdinInv ==
    /\ stage \in {"started", "parsed"} => consumed = {}
    /\ call.door \notin CliDoors => consumed = {}
    /\ CommandStdin /\ RunStdin

LEMMA StdinStays == CallKept /\ StdinInv /\ [FrontNext]_frontVars => StdinInv'
<1> SUFFICES ASSUME CallKept, StdinInv, [FrontNext]_frontVars PROVE StdinInv'
  OBVIOUS
<1> USE DEF StdinInv, CommandStdin, RunStdin, Built, WorkflowReads, InputPaths, TakesDashes,
            CliDoors, At
<1>0. stage \in FrontStages /\ FrontStages' = FrontStages
  BY DEF CallKept, FrontStages
<1>1. CASE stdin_for_args
  BY <1>1 DEF stdin_for_args
<1>2. CASE FileChanges
  <2>1. PICK c \in Contents : call' = [call EXCEPT !.content = c]
    BY <1>2 DEF FileChanges
  <2>2. call'.door = call.door
    BY <1>2, <2>1 DEF FileChanges, CallKept, IsCall, IsCommandCall, IsRunCall, IsWebCall
  <2> QED
    BY <1>2, <2>2 DEF FileChanges
<1>3. CASE BuildCommand
  BY <1>3 DEF BuildCommand, Build
<1>4. CASE RefuseCommand
  BY <1>4 DEF RefuseCommand, Refuse
<1>5. CASE BuildRun
  BY <1>5 DEF BuildRun, Build
<1>6. CASE RefuseRun
  BY <1>6 DEF RefuseRun, Refuse
<1>7. CASE load_inputs
  BY <1>7 DEF load_inputs, Inputs, Dashes, DashInputs
<1>8. CASE api_execute_single
  BY <1>8 DEF api_execute_single
<1>9. CASE api_execute_workflow
  BY <1>9 DEF api_execute_workflow
<1>10. CASE RefuseRequest
  BY <1>10 DEF RefuseRequest, Refuse
<1>11. CASE AcceptLoaded
  BY <1>11 DEF AcceptLoaded
<1>12. CASE RejectLoaded
  BY <1>12 DEF RejectLoaded
<1>13. CASE RunTask
  BY <1>13 DEF RunTask, Unfinished
<1>14. CASE TaskFails
  BY <1>14 DEF TaskFails, Unfinished
<1>15. CASE UNCHANGED frontVars
  BY <1>15 DEF frontVars
<1> QED
  BY <1>1, <1>2, <1>3, <1>4, <1>5, <1>6, <1>7, <1>8, <1>9, <1>10, <1>11, <1>12, <1>13, <1>14,
     <1>15 DEF FrontNext

LEMMA OperandsAre ==
    ASSUME NEW c, IsCommand(c)
    PROVE  \E n \in 1..3 :
           /\ n \in ArgsOf(c.command).operands /\ c.command \in CommandNames
           /\ c.operands \in Seq({"file", "-"}) /\ DOMAIN c.operands = 1..n /\ Len(c.operands) = n
<1>1. PICK n \in ArgsOf(c.command).operands : c.operands \in [1..n -> {"file", "-"}]
  BY DEF IsCommand
<1>2. c.command \in CommandNames
  BY DEF IsCommand
<1>3. n \in 1..3
  BY <1>1, <1>2, OperandCounts
<1>4. c.operands \in Seq({"file", "-"}) /\ DOMAIN c.operands = 1..n /\ Len(c.operands) = n
  BY <1>1, <1>3
<1> QED
  BY <1>1, <1>2, <1>3, <1>4

LEMMA InputsAreOperands ==
    ASSUME NEW c, IsCommand(c), NEW i \in Dashes(InputOperands(c.command, c.operands))
    PROVE  i \in Dashes(c.operands) /\ (c.command \in {"OutlineSet", "WatermarkText"} => i = 1)
<1>1. PICK n \in 1..3 :
        c.operands \in Seq({"file", "-"}) /\ DOMAIN c.operands = 1..n /\ Len(c.operands) = n
  BY OperandsAre
<1>2. CASE c.command \in {"OutlineSet", "WatermarkText"}
  <2>1. PICK s : s = SubSeq(c.operands, 1, 1)
    OBVIOUS
  <2>2. i \in DOMAIN s /\ s[i] = "-"
    BY <1>2, <2>1 DEF Dashes, InputOperands
  <2>3. DOMAIN s = 1..1 /\ s[1] = c.operands[1]
    BY <1>1, <2>1
  <2> QED
    BY <1>1, <2>2, <2>3 DEF Dashes
<1>3. CASE c.command \notin {"OutlineSet", "WatermarkText"}
  BY <1>3 DEF Dashes, InputOperands
<1> QED
  BY <1>2, <1>3

LEMMA StdinIsRead ==
    ASSUME CallKept, StdinInv
    PROVE  StdinReadWhenUsed
<1> SUFFICES ASSUME NEW x \in consumed, ~changed PROVE stdin = "read"
  BY DEF StdinReadWhenUsed
<1>1. stage \notin {"started", "parsed"} /\ call.door \in CliDoors
  BY DEF StdinInv
<1>2. CASE call.door = "command"
  <2>1. IsCommand(call)
    BY <1>2 DEF CallKept, IsCall, IsCommandCall, IsRunCall, IsWebCall
  <2>2. \E i \in DOMAIN call.operands : call.operands[i] = "-"
    <3>1. CASE x \in BuilderReads(call.command, call.operands)
      <4>1. call.command = "OutlineSet" /\ call.operands[2] = "-"
        BY <3>1 DEF BuilderReads
      <4>2. PICK n \in 1..3 : n \in ArgsOf(call.command).operands /\ DOMAIN call.operands = 1..n
                              /\ call.command \in CommandNames
        BY <2>1, OperandsAre
      <4>3. n >= 2
        BY <4>1, <4>2, OperandCounts
      <4> QED
        BY <4>1, <4>2, <4>3
    <3>2. CASE x \in Inputs(Dashes(InputOperands(call.command, call.operands)))
      <4>1. PICK i \in Dashes(InputOperands(call.command, call.operands)) : TRUE
        BY <3>2 DEF Inputs
      <4> QED
        BY <2>1, <4>1, InputsAreOperands DEF Dashes
    <3> QED
      BY <1>2, <3>1, <3>2 DEF StdinInv, CommandStdin
  <2>3. cli_reads_stdin(call.command, call.operands)
    BY <2>1, <2>2, StdinAsked
  <2> QED
    BY <1>1, <1>2, <2>3 DEF StdinInv, CommandStdin
<1>3. CASE call.door = "run"
  <2>1. run_reads_stdin(call.path, call.content)
    <3>1. CASE x \in WorkflowReads
      BY <3>1 DEF WorkflowReads, run_reads_stdin
    <3>2. CASE x \in Inputs(DashInputs(call.content)) /\ x \notin WorkflowReads
      <4>1. stage # "refused" /\ DashInputs(call.content) # {}
        BY <1>3, <3>2 DEF StdinInv, RunStdin, Inputs
      <4>2. TakesDashes
        BY <1>1, <1>3, <4>1 DEF StdinInv, RunStdin, CallKept, FrontStages, Built
      <4> QED
        BY <4>1, <4>2 DEF TakesDashes, run_reads_stdin
    <3> QED
      BY <1>3, <3>1, <3>2 DEF StdinInv, RunStdin
  <2> QED
    BY <1>1, <1>3, <2>1 DEF StdinInv, RunStdin
<1> QED
  BY <1>1, <1>2, <1>3 DEF CliDoors

LEMMA OneOrNone ==
    ASSUME NEW S, IsFiniteSet(S), Cardinality(S) <= 1, NEW x \in S, NEW y \in S
    PROVE  x = y
<1>1. Cardinality(S) = 1
  <2>1. Cardinality(S) \in Nat
    BY FS_CardinalityType
  <2>2. Cardinality(S) # 0
    BY FS_EmptySet
  <2> QED
    BY <2>1, <2>2
<1> QED
  BY <1>1, FS_Singleton

LEMMA AloneCounts ==
    ASSUME NEW S, \A x, y \in S : x = y
    PROVE  Cardinality(S) \in {0, 1}
<1>1. CASE S = {}
  BY <1>1, FS_EmptySet
<1>2. CASE S # {}
  <2>1. PICK x : S = {x}
    BY <1>2
  <2> QED
    BY <2>1, FS_Singleton
<1> QED
  BY <1>1, <1>2

LEMMA StdinIsShared ==
    ASSUME CallKept, StdinInv
    PROVE  StdinSharedOnlyByCompare
<1> SUFFICES ASSUME ~Compares PROVE Cardinality(consumed) \in {0, 1}
  BY DEF StdinSharedOnlyByCompare
<1> SUFFICES ASSUME NEW x \in consumed, NEW y \in consumed PROVE x = y
  BY AloneCounts
<1>1. stage \notin {"started", "parsed"} /\ call.door \in CliDoors
  BY DEF StdinInv
<1>2. CASE call.door = "command"
  <2> DEFINE c == call.command
             operands == call.operands
             ins == Dashes(InputOperands(c, operands))
  <2>1. IsCommand(call)
    BY <1>2 DEF CallKept, IsCall, IsCommandCall, IsRunCall, IsWebCall
  <2>2. PICK n \in 1..3 : /\ n \in ArgsOf(c).operands /\ DOMAIN operands = 1..n
                          /\ c \in CommandNames /\ Len(operands) = n
    BY <2>1, OperandsAre
  <2>3. ASSUME stage # "refused", NEW i \in Dashes(operands), NEW j \in Dashes(operands), i # j
        PROVE  c = "WatermarkText"
    <3>1. ~RefusesOperands(c, operands)
      BY <1>1, <1>2, <2>3 DEF StdinInv, CommandStdin, Built, CallKept, FrontStages
    <3>2. n \in {2, 3}
      BY <2>2, <2>3 DEF Dashes
    <3>3. c \in PairCommands \cup {"Merge"} /\ (n = 3 => c = "Merge")
      BY <2>2, <3>2, OperandCounts
    <3>4. c \notin {"Report", "VisualDiff"}
      BY <1>2 DEF Compares
    <3>5. CASE c \in {"Merge", "Img2pdf"}
      <4>1. ~ (Cardinality(Dashes(operands)) > 1)
        BY <3>1, <3>3, <3>5, Guards DEF RefusesOperands, reject_multiple_stdin_inputs
      <4>2. IsFiniteSet(Dashes(operands)) /\ Cardinality(Dashes(operands)) \in Nat
        <5>1. IsFiniteSet(1..n) /\ Dashes(operands) \subseteq 1..n
          BY <2>2, FS_Interval DEF Dashes
        <5> QED
          BY <5>1, FS_Subset, FS_CardinalityType
      <4> QED
        BY <2>3, <4>1, <4>2, OneOrNone
    <3>6. CASE c \notin {"Merge", "Img2pdf", "WatermarkText"}
      <4>1. BuilderOf(c).guard = "shared" /\ n = 2
        BY <3>2, <3>3, <3>4, <3>6, Guards
      <4>2. operands[1] = "-" /\ operands[2] = "-"
        BY <2>2, <2>3, <4>1 DEF Dashes
      <4> QED
        BY <2>2, <3>1, <4>1, <4>2 DEF RefusesOperands, reject_shared_stdin_inputs
    <3> QED
      BY <3>5, <3>6
  <2>4. ASSUME NEW z \in consumed
        PROVE  \/ z = <<"tree", 2>> /\ c = "OutlineSet" /\ 2 \in Dashes(operands)
               \/ \E i \in ins : z = <<"input", i>> /\ stage # "refused"
    <3>1. CASE z \in BuilderReads(c, operands)
      <4>1. c = "OutlineSet" /\ operands[2] = "-" /\ z = <<"tree", 2>>
        BY <3>1 DEF BuilderReads
      <4>2. n >= 2
        BY <2>2, <4>1, OperandCounts
      <4> QED
        BY <2>2, <4>1, <4>2 DEF Dashes
    <3>2. CASE z \notin BuilderReads(c, operands)
      <4>1. z \in Inputs(ins) /\ stage # "refused"
        BY <1>2, <2>4, <3>2 DEF StdinInv, CommandStdin
      <4> QED
        BY <4>1 DEF Inputs
    <3> QED
      BY <3>1, <3>2
  <2>5. ASSUME NEW i \in ins
        PROVE  i \in Dashes(operands) /\ (c \in {"OutlineSet", "WatermarkText"} => i = 1)
    BY <2>1, <2>5, InputsAreOperands
  <2> HIDE DEF c, operands, ins
  <2> QED
    BY <2>3, <2>4, <2>5
<1>3. CASE call.door = "run"
  <2>1. ASSUME NEW z \in consumed
        PROVE  \/ z = <<"workflow", 0>> /\ call.path = "-"
               \/ \E i \in DashInputs(call.content) : z = <<"input", i>> /\ stage # "refused"
    BY <1>3, <2>1 DEF StdinInv, RunStdin, WorkflowReads, Inputs
  <2>2. ASSUME stage # "refused" PROVE TakesDashes
    BY <1>1, <1>3, <2>2 DEF StdinInv, RunStdin, CallKept, FrontStages, Built
  <2>3. ASSUME stage # "refused", NEW i \in DashInputs(call.content),
               NEW j \in DashInputs(call.content)
        PROVE  i = j
    <3>1. Cardinality(DashInputs(call.content)) <= 1
      BY <2>2, <2>3 DEF TakesDashes
    <3>2. IsFiniteSet(DashInputs(call.content))
      <4>1. IsContent(call.content)
        BY <1>3 DEF CallKept, IsCall, IsCommandCall, IsRunCall, IsWebCall
      <4>2. Len(call.content.workflow.inputs) \in Nat
        BY <4>1, ListDomain DEF IsContent, IsWorkflow
      <4>3. DashInputs(call.content) \subseteq 1..Len(call.content.workflow.inputs)
        BY <4>1 DEF IsContent, DashInputs, Numbers
      <4>4. IsFiniteSet(1..Len(call.content.workflow.inputs))
        BY <4>2, FS_Interval
      <4> QED
        BY <4>3, <4>4, FS_Subset
    <3> QED
      BY <2>3, <3>1, <3>2, OneOrNone
  <2> QED
    BY <2>1, <2>2, <2>3 DEF TakesDashes
<1> QED
  BY <1>1, <1>2, <1>3 DEF CliDoors

LEMMA StdinHolds == FrontSpec => [](CallKept /\ StdinInv)
<1>1. FrontInit => CallKept /\ StdinInv
  <2> SUFFICES ASSUME FrontInit PROVE CallKept /\ StdinInv
    OBVIOUS
  <2>1. IsCall(call)
    BY CallsAssumption, PlainRunIsCall DEF FrontInit, IsCall
  <2> QED
    BY <2>1 DEF FrontInit, CallKept, StdinInv, FrontStages, CommandStdin, RunStdin, Built
<1>2. CallKept /\ StdinInv /\ [FrontNext]_frontVars => (CallKept /\ StdinInv)'
  BY CallStays, StdinStays
<1> QED
  BY <1>1, <1>2, PTL DEF FrontSpec

\* Whatever consumes standard input finds it read beforehand: the list of the
\* commands that read it agrees with the builders, for every operand.
THEOREM StdinIsThereWhenUsed == FrontSpec => []StdinReadWhenUsed
BY StdinHolds, StdinIsRead, PTL

\* No two consumers share standard input, but for the two comparisons.
THEOREM StdinFeedsOne == FrontSpec => []StdinSharedOnlyByCompare
BY StdinHolds, StdinIsShared, PTL

-----------------------------------------------------------------------------
(* The options of the operators.                                            *)

OptionTables ==
    {PageOptions, OverlayOptions, DocumentOptions, OutlineOptions, AttachmentOptions,
     AnnotationOptions, FormOptions, InteractiveOptions, CompressionOptions, SecurityStructs,
     CompareStructs, SignatureStructs}

\* Every options struct is in one of the files.
LEMMA StructsAre ==
    ASSUME NEW t \in OptionTables, NEW s \in DOMAIN t
    PROVE  Structs[s] = t[s]
<1> DEFINE tables == {StructTables[i] : i \in DOMAIN StructTables}
<1>1. tables = OptionTables
  <2>1. DOMAIN StructTables = 1..12
    BY DEF StructTables
  <2>2. ASSUME NEW i \in 1..12 PROVE StructTables[i] \in OptionTables
    BY DEF StructTables, OptionTables
  <2>3. /\ StructTables[1] = PageOptions
        /\ StructTables[2] = OverlayOptions
        /\ StructTables[3] = DocumentOptions
        /\ StructTables[4] = OutlineOptions
        /\ StructTables[5] = AttachmentOptions
        /\ StructTables[6] = AnnotationOptions
        /\ StructTables[7] = FormOptions
        /\ StructTables[8] = InteractiveOptions
        /\ StructTables[9] = CompressionOptions
        /\ StructTables[10] = SecurityStructs
        /\ StructTables[11] = CompareStructs
        /\ StructTables[12] = SignatureStructs
    BY DEF StructTables
  <2> QED
    BY <2>1, <2>2, <2>3 DEF OptionTables
<1>2. ASSUME NEW u \in OptionTables, s \in DOMAIN u PROVE u = t
  BY <1>2 DEF OptionTables, PageOptions, OverlayOptions, DocumentOptions, OutlineOptions,
     AttachmentOptions, AnnotationOptions, FormOptions, InteractiveOptions, CompressionOptions,
     SecurityStructs, CompareStructs, SignatureStructs
<1>3. s \in UNION {DOMAIN StructTables[i] : i \in DOMAIN StructTables}
  BY <1>1
<1>4. (CHOOSE u \in tables : s \in DOMAIN u) = t
  BY <1>1, <1>2
<1> QED
  BY <1>3, <1>4 DEF Structs

AllStructs == UNION {DOMAIN t : t \in OptionTables}
AllFields(s) == Structs[s].required \cup Structs[s].optional
FontStructs == {"WatermarkOptions", "OverlayOptions"}
FileStructs == FontStructs \cup {"SignatureAddOptions", "TimestampAddOptions", "SignatureOptions"}

\* The structs whose fields name fonts or files of the machine.
LEMMA StructPaths ==
    ASSUME NEW s \in AllStructs
    PROVE  /\ s \notin FileStructs => AllFields(s) \cap (PathFields \cup {"font"}) = {}
           /\ s \in FontStructs => /\ AllFields(s) \cap PathFields = {"font_path"}
                                  /\ "font" \in AllFields(s)
           /\ s = "SignatureOptions" => AllFields(s) = {"trust_anchors"}
<1>1. PICK t \in OptionTables : s \in DOMAIN t
  BY DEF AllStructs
<1>2. AllFields(s) = t[s].required \cup t[s].optional
  BY <1>1, StructsAre DEF AllFields
<1>3. CASE t = PageOptions
  BY <1>1, <1>2, <1>3 DEF PageOptions, Struct, NoFields, MarkFields, FileStructs, FontStructs,
     PathFields
<1>4. CASE t = OverlayOptions
  BY <1>1, <1>2, <1>4 DEF OverlayOptions, Struct, NoFields, MarkFields, FileStructs,
     FontStructs, PathFields
<1>5. CASE t = DocumentOptions
  BY <1>1, <1>2, <1>5 DEF DocumentOptions, Struct, NoFields, MarkFields, FileStructs,
     FontStructs, PathFields
<1>6. CASE t = OutlineOptions
  BY <1>1, <1>2, <1>6 DEF OutlineOptions, Struct, NoFields, MarkFields, FileStructs,
     FontStructs, PathFields
<1>7. CASE t = AttachmentOptions
  BY <1>1, <1>2, <1>7 DEF AttachmentOptions, Struct, NoFields, MarkFields, FileStructs,
     FontStructs, PathFields
<1>8. CASE t = AnnotationOptions
  BY <1>1, <1>2, <1>8 DEF AnnotationOptions, Struct, NoFields, MarkFields, FileStructs,
     FontStructs, PathFields
<1>9. CASE t = FormOptions
  BY <1>1, <1>2, <1>9 DEF FormOptions, Struct, NoFields, MarkFields, FileStructs, FontStructs,
     PathFields
<1>10. CASE t = InteractiveOptions
  BY <1>1, <1>2, <1>10 DEF InteractiveOptions, Struct, NoFields, MarkFields, FileStructs,
     FontStructs, PathFields
<1>11. CASE t = CompressionOptions
  BY <1>1, <1>2, <1>11 DEF CompressionOptions, Struct, NoFields, MarkFields, FileStructs,
     FontStructs, PathFields
<1>12. CASE t = SecurityStructs
  BY <1>1, <1>2, <1>12 DEF SecurityStructs, Struct, NoFields, MarkFields, FileStructs,
     FontStructs, PathFields
<1>13. CASE t = CompareStructs
  BY <1>1, <1>2, <1>13 DEF CompareStructs, Struct, NoFields, MarkFields, FileStructs,
     FontStructs, PathFields
<1>14. CASE t = SignatureStructs
  BY <1>1, <1>2, <1>14 DEF SignatureStructs, Struct, NoFields, MarkFields, FileStructs,
     FontStructs, PathFields
<1> QED
  BY <1>1, <1>3, <1>4, <1>5, <1>6, <1>7, <1>8, <1>9, <1>10, <1>11, <1>12, <1>13, <1>14 DEF
     OptionTables

LEMMA VariantStructs ==
    ASSUME NEW family \in OperatorFamilies, NEW name \in DOMAIN Variants[family]
    PROVE  /\ StructOf(family, name) \in AllStructs
           /\ StructOf(family, name) \in FontStructs <=>
                  family = "PdfEdit" /\ name \in {"Watermark", "Overlay"}
           /\ StructOf(family, name) = "SignatureOptions" <=>
                  family = "PdfSign" /\ name \in {"List", "Verify"}
           /\ StructOf(family, name) \in {"SignatureAddOptions", "TimestampAddOptions"} <=>
                  family = "PdfSign" /\ name \in {"Add", "Timestamp"}
<1> DEFINE s == StructOf(family, name)
<1>1. CASE family = "PdfEdit"
  <2>1. s = EditVariants[name] /\ name \in DOMAIN EditVariants
    BY <1>1 DEF Variants, StructOf
  <2>2. s \in AllStructs
    BY <2>1 DEF EditVariants, AllStructs, OptionTables, PageOptions, OverlayOptions,
       DocumentOptions, OutlineOptions, AttachmentOptions, AnnotationOptions, FormOptions,
       InteractiveOptions, CompressionOptions, SecurityStructs, CompareStructs,
       SignatureStructs
  <2> QED
    BY <1>1, <2>1, <2>2 DEF EditVariants, FontStructs
<1>2. CASE family = "PdfInspect"
  <2>1. s = InspectVariants[name] /\ name \in DOMAIN InspectVariants
    BY <1>2 DEF Variants, StructOf
  <2>2. s \in AllStructs
    BY <2>1 DEF InspectVariants, AllStructs, OptionTables, PageOptions, OverlayOptions,
       DocumentOptions, OutlineOptions, AttachmentOptions, AnnotationOptions, FormOptions,
       InteractiveOptions, CompressionOptions, SecurityStructs, CompareStructs,
       SignatureStructs
  <2> QED
    BY <1>2, <2>1, <2>2 DEF InspectVariants, FontStructs
<1>3. CASE family = "PdfSecurity"
  <2>1. s = SecurityVariants[name] /\ name \in DOMAIN SecurityVariants
    BY <1>3 DEF Variants, StructOf
  <2>2. s \in AllStructs
    BY <2>1 DEF SecurityVariants, AllStructs, OptionTables, PageOptions, OverlayOptions,
       DocumentOptions, OutlineOptions, AttachmentOptions, AnnotationOptions, FormOptions,
       InteractiveOptions, CompressionOptions, SecurityStructs, CompareStructs,
       SignatureStructs
  <2> QED
    BY <1>3, <2>1, <2>2 DEF SecurityVariants, FontStructs
<1>4. CASE family = "PdfCompare"
  <2>1. s = CompareVariants[name] /\ name \in DOMAIN CompareVariants
    BY <1>4 DEF Variants, StructOf
  <2>2. s \in AllStructs
    BY <2>1 DEF CompareVariants, AllStructs, OptionTables, PageOptions, OverlayOptions,
       DocumentOptions, OutlineOptions, AttachmentOptions, AnnotationOptions, FormOptions,
       InteractiveOptions, CompressionOptions, SecurityStructs, CompareStructs,
       SignatureStructs
  <2> QED
    BY <1>4, <2>1, <2>2 DEF CompareVariants, FontStructs
<1>5. CASE family = "PdfSign"
  <2>1. s = SignVariants[name] /\ name \in DOMAIN SignVariants
    BY <1>5 DEF Variants, StructOf
  <2>2. s \in AllStructs
    BY <2>1 DEF SignVariants, AllStructs, OptionTables, PageOptions, OverlayOptions,
       DocumentOptions, OutlineOptions, AttachmentOptions, AnnotationOptions, FormOptions,
       InteractiveOptions, CompressionOptions, SecurityStructs, CompareStructs,
       SignatureStructs
  <2> QED
    BY <1>5, <2>1, <2>2 DEF SignVariants, FontStructs
<1> QED
  BY <1>1, <1>2, <1>3, <1>4, <1>5 DEF OperatorFamilies, Variants

LEMMA OperatorIsNotRefused ==
    ASSUME NEW f, NEW n, NEW k, NEW g
    PROVE  Operator(f, n, k, g) # Refused
<1>1. "family" \in DOMAIN Operator(f, n, k, g)
  BY DEF Operator
<1>2. "family" \notin DOMAIN Refused
  BY DEF Refused
<1> QED
  BY <1>1, <1>2

\* A request for an operator of the schema, whatever its options.
LEMMA RequestStaysInside ==
    ASSUME NEW r, IsRequest(r), NEW op, op = parse_op(r)
    PROVE  /\ FormSends(r) => op # Refused
           /\ op # Refused =>
                /\ Offered(r) /\ op.given \subseteq op_schema(r.family, r.name)
                /\ op.given \cap PathFields = {} /\ ("font" \in r.given => ~r.local)
<1> DEFINE s == StructOf(r.family, r.name)
<1>1. /\ r.family \in OperatorFamilies /\ r.name \in DOMAIN Variants[r.family]
      /\ s \in AllStructs
      /\ FieldsOf(r) = AllFields(s) /\ r.given \subseteq AllFields(s)
      /\ RequiredOf(r) = Structs[s].required
  BY VariantStructs DEF IsRequest, FieldsOf, RequiredOf, AllFields
<1>2. op_schema(r.family, r.name) =
        AllFields(s) \ CASE r.name \in {"Watermark", "Overlay"} -> {"font_path"}
                         [] r.name \in {"List", "Verify"}       -> {"trust_anchors"}
                         [] OTHER                               -> {}
  BY DEF op_schema, AllFields
<1>3. Offered(r) <=> ~ (r.family = "PdfSign" /\ r.name \notin {"List", "Verify", "DeleteField"})
  BY <1>1 DEF Offered, schema, OperatorFamilies, Variants, EditVariants, InspectVariants,
     SecurityVariants, CompareVariants, SignVariants
<1>4. CASE ~ Offered(r)
  <2>1. r.family = "PdfSign" /\ r.name \notin {"List", "Verify", "DeleteField"}
    BY <1>3, <1>4
  <2>2. r.name \notin Flags
    BY <1>1, <2>1 DEF Flags, Variants, SignVariants
  <2>3. op = Refused
    BY <2>1, <2>2 DEF parse_op
  <2> QED
    BY <1>4, <2>3 DEF FormSends
<1>5. CASE Offered(r) /\ r.name \in Flags
  <2>1. op = Operator(r.family, r.name, "none", {})
    BY <1>3, <1>5 DEF parse_op, Flags
  <2>2. op # Refused /\ op.given = {}
    BY <2>1, OperatorIsNotRefused DEF Operator
  <2>3. s \notin FileStructs
    BY <1>1, <1>5, VariantStructs DEF Flags, FileStructs
  <2> QED
    BY <1>1, <1>5, <2>2, <2>3, StructPaths
<1>6. CASE Offered(r) /\ r.family = "PdfEdit" /\ r.name \in {"Watermark", "Overlay"}
  <2>1. s \in FontStructs
    BY <1>1, <1>6, VariantStructs
  <2>2. RequiredOf(r) = {}
    <3>1. s = "WatermarkOptions" \/ s = "OverlayOptions"
      BY <2>1 DEF FontStructs
    <3>2. Structs[s] = OverlayOptions[s]
      BY <3>1, StructsAre DEF OptionTables, OverlayOptions
    <3> QED
      BY <1>1, <3>1, <3>2 DEF OverlayOptions, Struct
  <2>3. op = Sanitize(r)
    BY <1>6, <2>2 DEF parse_op, Flags
  <2>4. op_schema(r.family, r.name) = AllFields(s) \ {"font_path"}
    BY <1>2, <1>6
  <2>5. CASE "font_path" \in r.given \/ ("font" \in r.given /\ r.local)
    BY <2>3, <2>4, <2>5 DEF Sanitize, FormSends
  <2>6. CASE ~ ("font_path" \in r.given \/ ("font" \in r.given /\ r.local))
    <3>1. PICK fonts \in SUBSET {"font"} :
            op = Operator(r.family, r.name, r.kind, r.given \cup fonts)
      BY <2>3, <2>6 DEF Sanitize
    <3>2. op # Refused /\ op.given = r.given \cup fonts
      BY <3>1, OperatorIsNotRefused DEF Operator
    <3> QED
      BY <1>1, <1>6, <2>1, <2>4, <2>6, <3>1, <3>2, StructPaths DEF PathFields
  <2> QED
    BY <2>5, <2>6
<1>7. CASE Offered(r) /\ r.name \in {"List", "Verify"} /\ r.family = "PdfSign"
  <2>1. AllFields(s) = {"trust_anchors"}
    BY <1>1, <1>7, VariantStructs, StructPaths
  <2>2. RequiredOf(r) = {}
    <3>1. s = "SignatureOptions"
      BY <1>1, <1>7, VariantStructs
    <3>2. Structs[s] = SignatureStructs[s]
      BY <3>1, StructsAre DEF OptionTables, SignatureStructs
    <3> QED
      BY <1>1, <3>1, <3>2 DEF SignatureStructs, Struct
  <2>3. op = signature_options_without_trust_anchors(r)
    BY <1>7, <2>2 DEF parse_op, Flags
  <2>4. op_schema(r.family, r.name) = {}
    BY <1>2, <1>7, <2>1
  <2>5. CASE "trust_anchors" \in r.given
    BY <2>3, <2>4, <2>5 DEF signature_options_without_trust_anchors, FormSends
  <2>6. CASE "trust_anchors" \notin r.given
    <3>1. op = Operator(r.family, r.name, r.kind, r.given)
      BY <2>3, <2>6 DEF signature_options_without_trust_anchors
    <3>2. op # Refused /\ op.given = {} /\ r.given = {}
      BY <1>1, <2>1, <2>6, <3>1, OperatorIsNotRefused DEF Operator
    <3> QED
      BY <1>7, <3>2
  <2> QED
    BY <2>5, <2>6
<1>8. CASE /\ Offered(r) /\ r.name \notin Flags
           /\ ~ (r.family = "PdfEdit" /\ r.name \in {"Watermark", "Overlay"})
           /\ ~ (r.family = "PdfSign" /\ r.name \in {"List", "Verify"})
  <2>1. r.name \notin {"Watermark", "Overlay"} /\ r.name \notin {"List", "Verify"}
    BY <1>1, <1>8 DEF OperatorFamilies, Variants, EditVariants, InspectVariants,
       SecurityVariants, CompareVariants, SignVariants
  <2>2. s \notin FileStructs
    BY <1>1, <1>3, <1>8, VariantStructs DEF FileStructs
  <2>3. op_schema(r.family, r.name) = AllFields(s)
    BY <1>2, <2>1
  <2>4. CASE RequiredOf(r) \subseteq r.given
    <3>1. op = Operator(r.family, r.name, r.kind, r.given)
      BY <1>3, <1>8, <2>1, <2>4 DEF parse_op
    <3>2. op # Refused /\ op.given = r.given
      BY <3>1, OperatorIsNotRefused DEF Operator
    <3> QED
      BY <1>1, <1>8, <2>2, <2>3, <3>2, StructPaths
  <2>5. CASE ~ (RequiredOf(r) \subseteq r.given)
    BY <1>3, <1>8, <2>1, <2>5 DEF parse_op, FormSends
  <2> QED
    BY <2>4, <2>5
<1> QED
  BY <1>4, <1>5, <1>6, <1>7, <1>8

LEMMA WebIsInside ==
    ASSUME CallKept
    PROVE  WebStaysInside
<1> SUFFICES ASSUME call.door \in {"single", "steps"}, NEW t \in DOMAIN call.tasks
             PROVE  LET r == call.tasks[t]  op == parse_op(r) IN
                    /\ FormSends(r) => op # Refused
                    /\ op # Refused =>
                        /\ Offered(r) /\ op.given \subseteq op_schema(r.family, r.name)
                        /\ op.given \cap PathFields = {} /\ ("font" \in r.given => ~r.local)
  BY DEF WebStaysInside
<1>1. IsRequest(call.tasks[t])
  BY DEF CallKept, IsCall, IsCommandCall, IsRunCall, IsWebCall
<1> QED
  BY <1>1, RequestStaysInside

\* No request, whatever operator and options it names, makes the server open a
\* file or load a font of the machine.
THEOREM RequestsStayInside == FrontSpec => []WebStaysInside
BY StdinHolds, WebIsInside, PTL

-----------------------------------------------------------------------------
(* The serialised form of an operator.                                      *)

\* An operator as the builders and the parser of a workflow file make them: the
\* mode of a signature report is the report's name.
ProperOperator(op) ==
    /\ op.family \in OperatorFamilies /\ op.name \in DOMAIN Variants[op.family]
    /\ op = Operator(op.family, op.name, op.kind, op.given)
    /\ op.family = "PdfSign" =>
        op.kind = IF op.name \in {"List", "Verify"} THEN op.name ELSE "none"

LEMMA NoVariantIsRefused ==
    ASSUME NEW family \in OperatorFamilies, NEW name \in DOMAIN Variants[family]
    PROVE  name # "refused"
BY DEF OperatorFamilies, Variants, EditVariants, InspectVariants, SecurityVariants,
       CompareVariants, SignVariants

LEMMA OneEntry ==
    ASSUME NEW e, NEW counted, e.name \in counted
    PROVE  OneOf({e}, counted) = e
<1>1. {x \in {e} : x.name \in counted} = {e}
  OBVIOUS
<1>2. Cardinality({e}) = 1
  BY FS_Singleton
<1>3. (CHOOSE x \in {e} : TRUE) = e
  OBVIOUS
<1> QED
  BY <1>1, <1>2, <1>3 DEF OneOf

LEMMA OneOfWhich ==
    ASSUME NEW entries, IsFiniteSet(entries), NEW counted, OneOf(entries, counted) # Refused
    PROVE  \E e : entries = {e} /\ e.name \in counted /\ OneOf(entries, counted) = e
<1> DEFINE present == {e \in entries : e.name \in counted}
<1>1. entries \subseteq present /\ Cardinality(present) = 1
  BY DEF OneOf
<1>2. entries = present
  BY <1>1
<1>3. PICK e : entries = {e}
  BY <1>1, <1>2, FS_Singleton
<1>4. e.name \in counted
  BY <1>2, <1>3
<1> QED
  BY <1>3, <1>4, OneEntry

\* What one entry of a family becomes.
Read(family, e) ==
    IF family = "PdfSign" /\ e.name \in {"List", "Verify"} THEN [e EXCEPT !.kind = e.name] ELSE e

LEMMA FamilyRead ==
    ASSUME NEW family \in OperatorFamilies, NEW e, e.name \in DOMAIN Variants[family]
    PROVE  FamilyFromDef(family, {e}) = Read(family, e)
<1>1. OneOf({e}, DOMAIN Variants[family]) = e
  BY OneEntry
<1>2. e # Refused
  BY NoVariantIsRefused DEF Refused
<1> QED
  BY <1>1, <1>2 DEF FamilyFromDef, OperatorFamilies, Variants, PdfEditFromDef, PdfInspectFromDef,
     PdfSecurityFromDef, PdfCompareFromDef, PdfSignFromDef, Read

LEMMA FamilyReads ==
    ASSUME NEW family \in OperatorFamilies, NEW entries, IsFiniteSet(entries),
           FamilyFromDef(family, entries) # Refused
    PROVE  \E e : /\ entries = {e} /\ e.name \in DOMAIN Variants[family]
                  /\ FamilyFromDef(family, entries) = Read(family, e)
<1>1. OneOf(entries, DOMAIN Variants[family]) # Refused
  BY DEF FamilyFromDef, OperatorFamilies, Variants, PdfEditFromDef, PdfInspectFromDef,
     PdfSecurityFromDef, PdfCompareFromDef, PdfSignFromDef
<1>2. PICK e : entries = {e} /\ e.name \in DOMAIN Variants[family]
  BY <1>1, OneOfWhich
<1> QED
  BY <1>2, FamilyRead

LEMMA RoundTrip ==
    ASSUME NEW op, ProperOperator(op)
    PROVE  FromDef(ToDef(op)) = op
<1> DEFINE e == [name |-> op.name, kind |-> op.kind, given |-> op.given]
           def == ToDef(op)
<1>1. DOMAIN def = {op.family} /\ def[op.family] = {e}
  BY DEF ToDef, Entries
<1>2. Read(op.family, e) = e
  BY DEF Read, ProperOperator
<1>3. FamilyFromDef(op.family, {e}) = e
  BY <1>2, FamilyRead DEF ProperOperator
<1>4. e # Refused
  BY NoVariantIsRefused DEF Refused, ProperOperator
<1>5. Cardinality(DOMAIN def) = 1
  BY <1>1, FS_Singleton
<1>6. (CHOOSE f \in DOMAIN def : TRUE) = op.family
  BY <1>1
<1> HIDE DEF def
<1>7. FromDef(def) = Operator(op.family, e.name, e.kind, e.given)
  BY <1>1, <1>3, <1>4, <1>5, <1>6 DEF FromDef
<1> QED
  BY <1>7 DEF def, ProperOperator

LEMMA FileOperator ==
    ASSUME NEW def, IsDef(def), FromDef(def) # Refused
    PROVE  /\ ProperOperator(FromDef(def))
           /\ \A f \in DOMAIN def : \A e \in def[f] :
                  FromDef(def).name = e.name /\ FromDef(def).given = e.given
<1> DEFINE g == CHOOSE f \in DOMAIN def : TRUE
<1>1. Cardinality(DOMAIN def) = 1 /\ \A f \in DOMAIN def : FamilyFromDef(f, def[f]) # Refused
  BY DEF FromDef
<1>2. IsFiniteSet(OperatorFamilies)
  <2>1. IsFiniteSet({"PdfEdit"} \cup {"PdfInspect"})
    BY FS_Singleton, FS_Union
  <2>2. IsFiniteSet({"PdfSecurity"} \cup {"PdfCompare"})
    BY FS_Singleton, FS_Union
  <2>3. IsFiniteSet(({"PdfSecurity"} \cup {"PdfCompare"}) \cup {"PdfSign"})
    BY <2>2, FS_Singleton, FS_Union
  <2>4. IsFiniteSet(({"PdfEdit"} \cup {"PdfInspect"})
                        \cup (({"PdfSecurity"} \cup {"PdfCompare"}) \cup {"PdfSign"}))
    BY <2>1, <2>3, FS_Union
  <2>5. OperatorFamilies = ({"PdfEdit"} \cup {"PdfInspect"})
                              \cup (({"PdfSecurity"} \cup {"PdfCompare"}) \cup {"PdfSign"})
    BY DEF OperatorFamilies, Variants
  <2> QED
    BY <2>4, <2>5
<1>3. DOMAIN def \subseteq OperatorFamilies /\ IsFiniteSet(DOMAIN def)
  BY <1>2, FS_Subset DEF IsDef
<1>4. PICK family : DOMAIN def = {family}
  BY <1>1, <1>3, FS_Singleton
<1>5. g = family
  BY <1>4
<1>6. PICK e : /\ def[family] = {e} /\ e.name \in DOMAIN Variants[family]
               /\ FamilyFromDef(family, def[family]) = Read(family, e)
  <2>1. family \in OperatorFamilies /\ IsFiniteSet(def[family])
    BY <1>3, <1>4 DEF IsDef
  <2> QED
    BY <1>1, <1>4, <2>1, FamilyReads
<1>7. /\ e = [name |-> e.name, kind |-> e.kind, given |-> e.given]
      /\ e.kind \in KindsOf(family, e.name)
  BY <1>4, <1>6 DEF IsDef
<1> DEFINE x == Read(family, e)
<1>8. FromDef(def) = Operator(family, x.name, x.kind, x.given)
  BY <1>1, <1>5, <1>6 DEF FromDef
<1>9. /\ x.name = e.name /\ x.given = e.given
      /\ x.kind = IF family = "PdfSign" /\ e.name \in {"List", "Verify"} THEN e.name ELSE e.kind
  BY <1>7 DEF Read
<1>10. family = "PdfSign" /\ e.name \notin {"List", "Verify"} => e.kind = "none"
  BY <1>6, <1>7 DEF KindsOf, StructOf, Variants, SignVariants, Selectors
<1>11. ProperOperator(FromDef(def))
  <2> HIDE DEF x
  <2>1. family \in OperatorFamilies
    BY <1>3, <1>4
  <2> QED
    BY <1>6, <1>8, <1>9, <1>10, <2>1 DEF ProperOperator, Operator
<1>12. FromDef(def).name = e.name /\ FromDef(def).given = e.given
  BY <1>8, <1>9 DEF Operator
<1> QED
  BY <1>4, <1>6, <1>11, <1>12

-----------------------------------------------------------------------------
(* Parsed documents as inputs.                                              *)

\* The artifacts as they would be, had every document been serialised.
Serialised(artifacts) ==
    [i \in DOMAIN artifacts |-> IF artifacts[i] = "PdfObject" THEN "Pdf" ELSE artifacts[i]]

LEMMA SerialisedLooks ==
    ASSUME NEW artifacts
    PROVE  /\ DOMAIN Serialised(artifacts) = DOMAIN artifacts
           /\ Len(Serialised(artifacts)) = Len(artifacts)
           /\ \A i \in DOMAIN artifacts :
                  Serialised(artifacts)[i] =
                      IF artifacts[i] = "PdfObject" THEN "Pdf" ELSE artifacts[i]
           /\ materialize_object_inputs(Serialised(artifacts))
                  = materialize_object_inputs(artifacts)
BY DEF Serialised, materialize_object_inputs

\* An operator that would take the serialised documents takes the parsed ones.
LEMMA RunsParsed ==
    ASSUME NEW op, op.family \in OperatorFamilies, NEW artifacts,
           Len(artifacts) \in Nat, DOMAIN artifacts = 1..Len(artifacts),
           Runs(op, Serialised(artifacts))
    PROVE  Runs(op, artifacts)
<1> DEFINE s == Serialised(artifacts)
<1>1. /\ DOMAIN s = DOMAIN artifacts /\ Len(s) = Len(artifacts)
      /\ \A i \in DOMAIN artifacts :
             s[i] = IF artifacts[i] = "PdfObject" THEN "Pdf" ELSE artifacts[i]
      /\ materialize_object_inputs(s) = materialize_object_inputs(artifacts)
  BY SerialisedLooks
<1>2. OptionsSuffice(op)
  BY DEF Runs
<1> HIDE DEF s
<1>3. single_pdf_input_bytes(s) => single_pdf_input_bytes(artifacts)
  BY <1>1 DEF single_pdf_input_bytes, pdf_bytes
<1>4. single_pdf_document(s) => single_pdf_document(artifacts)
  BY <1>1 DEF single_pdf_document
<1>5. CASE op.family = "PdfEdit"
  <2>1. run_pdf_edit(op, s)
    BY <1>5 DEF Runs, s
  <2>2. merge_artifacts_to_document(s) => merge_artifacts_to_document(artifacts)
    BY <1>1 DEF merge_artifacts_to_document
  <2>3. image_artifacts_to_pdf(s) => image_artifacts_to_pdf(artifacts)
    BY <1>1 DEF image_artifacts_to_pdf, image_bytes
  <2>4. single_svg_input(s) => single_svg_input(artifacts)
    BY <1>1 DEF single_svg_input, svg_bytes
  <2>5. run_pdf_edit(op, artifacts)
    BY <1>1, <1>3, <1>4, <2>1, <2>2, <2>3, <2>4 DEF run_pdf_edit
  <2> QED
    BY <1>2, <1>5, <2>5 DEF Runs
<1>6. CASE op.family = "PdfInspect"
  BY <1>2, <1>3, <1>4, <1>6 DEF Runs, run_pdf_inspect, s
<1>7. CASE op.family = "PdfSecurity"
  BY <1>2, <1>3, <1>7 DEF Runs, run_pdf_security, s
<1>8. CASE op.family = "PdfCompare"
  BY <1>1, <1>2, <1>8 DEF Runs, run_pdf_compare, s
<1>9. CASE op.family = "PdfSign"
  BY <1>2, <1>3, <1>9 DEF Runs, run_pdf_sign, s
<1> QED
  BY <1>5, <1>6, <1>7, <1>8, <1>9 DEF OperatorFamilies, Variants

-----------------------------------------------------------------------------
(* What the commands build.                                                 *)

LEMMA BuildersAreProper ==
    ASSUME NEW c \in CommandNames, NEW b, b = BuilderOf(c)
    PROVE  /\ b.family \in OperatorFamilies /\ b.name \in DOMAIN Variants[b.family]
           /\ b.family = "PdfSign" =>
                  b.kind = IF b.name \in {"List", "Verify"} THEN b.name ELSE "none"
<1>1. PICK t \in BuilderTables : c \in DOMAIN t /\ b = t[c]
  BY CommandsHaveTables, BuildersAre
<1>2. CASE t = PageBuilders
  BY <1>1, <1>2 DEF PageBuilders, Builds, Edits, Inspects, Signs, Secures, OperatorFamilies,
     Variants,
     EditVariants, InspectVariants, SecurityVariants, CompareVariants, SignVariants
<1>3. CASE t = LayoutBuilders
  BY <1>1, <1>3 DEF LayoutBuilders, Builds, Edits, Inspects, Signs, Secures, OperatorFamilies,
     Variants,
     EditVariants, InspectVariants, SecurityVariants, CompareVariants, SignVariants
<1>4. CASE t = ConversionBuilders
  BY <1>1, <1>4 DEF ConversionBuilders, Builds, Edits, Inspects, Signs, Secures,
     OperatorFamilies, Variants,
     EditVariants, InspectVariants, SecurityVariants, CompareVariants, SignVariants
<1>5. CASE t = CompressionBuilders
  BY <1>1, <1>5 DEF CompressionBuilders, Builds, Edits, Inspects, Signs, Secures,
     OperatorFamilies, Variants,
     EditVariants, InspectVariants, SecurityVariants, CompareVariants, SignVariants
<1>6. CASE t = InspectBuilders
  BY <1>1, <1>6 DEF InspectBuilders, Builds, Edits, Inspects, Signs, Secures, OperatorFamilies,
     Variants,
     EditVariants, InspectVariants, SecurityVariants, CompareVariants, SignVariants
<1>7. CASE t = CompareBuilders
  BY <1>1, <1>7 DEF CompareBuilders, Builds, Edits, Inspects, Signs, Secures, OperatorFamilies,
     Variants,
     EditVariants, InspectVariants, SecurityVariants, CompareVariants, SignVariants
<1>8. CASE t = MetadataBuilders
  BY <1>1, <1>8 DEF MetadataBuilders, Builds, Edits, Inspects, Signs, Secures, OperatorFamilies,
     Variants,
     EditVariants, InspectVariants, SecurityVariants, CompareVariants, SignVariants
<1>9. CASE t = OutlineBuilders
  BY <1>1, <1>9 DEF OutlineBuilders, Builds, Edits, Inspects, Signs, Secures, OperatorFamilies,
     Variants,
     EditVariants, InspectVariants, SecurityVariants, CompareVariants, SignVariants
<1>10. CASE t = AttachBuilders
  BY <1>1, <1>10 DEF AttachBuilders, Builds, Edits, Inspects, Signs, Secures, OperatorFamilies,
     Variants,
     EditVariants, InspectVariants, SecurityVariants, CompareVariants, SignVariants
<1>11. CASE t = AnnotFormBuilders
  BY <1>1, <1>11 DEF AnnotFormBuilders, Builds, Edits, Inspects, Signs, Secures,
     OperatorFamilies, Variants,
     EditVariants, InspectVariants, SecurityVariants, CompareVariants, SignVariants
<1>12. CASE t = ImageBuilders
  BY <1>1, <1>12 DEF ImageBuilders, Builds, Edits, Inspects, Signs, Secures, OperatorFamilies,
     Variants,
     EditVariants, InspectVariants, SecurityVariants, CompareVariants, SignVariants
<1>13. CASE t = ColorBuilders
  BY <1>1, <1>13 DEF ColorBuilders, Builds, Edits, Inspects, Signs, Secures, OperatorFamilies,
     Variants,
     EditVariants, InspectVariants, SecurityVariants, CompareVariants, SignVariants
<1>14. CASE t = SignBuilders
  BY <1>1, <1>14 DEF SignBuilders, Builds, Edits, Inspects, Signs, Secures, OperatorFamilies,
     Variants,
     EditVariants, InspectVariants, SecurityVariants, CompareVariants, SignVariants
<1>15. CASE t = MarkBuilders
  BY <1>1, <1>15 DEF MarkBuilders, Builds, Edits, Inspects, Signs, Secures, OperatorFamilies,
     Variants,
     EditVariants, InspectVariants, SecurityVariants, CompareVariants, SignVariants
<1>16. CASE t = SecurityBuilders
  BY <1>1, <1>16 DEF SecurityBuilders, Builds, Edits, Inspects, Signs, Secures,
     OperatorFamilies, Variants,
     EditVariants, InspectVariants, SecurityVariants, CompareVariants, SignVariants
<1> QED
  BY <1>1, <1>2, <1>3, <1>4, <1>5, <1>6, <1>7, <1>8, <1>9, <1>10, <1>11, <1>12, <1>13, <1>14,
     <1>15, <1>16 DEF BuilderTables

LEMMA BuiltIsProper ==
    ASSUME NEW c \in CommandNames, NEW flags
    PROVE  ProperOperator(BuiltOperator(c, flags))
<1> DEFINE b == BuilderOf(c)
           given == b.sets \cup {FieldOf(f) : f \in flags \cap b.passes}
<1>1. BuiltOperator(c, flags) = Operator(b.family, b.name, b.kind, given)
  BY DEF BuiltOperator
<1> HIDE DEF b, given
<1> QED
  BY <1>1, BuildersAreProper DEF ProperOperator, Operator, b

\* The table of arguments and the table of builders of a command.
TablePairs ==
    {<<EditPageArgs, PageBuilders>>,
     <<EditPageArgs, LayoutBuilders>>,
     <<EditLayoutArgs, LayoutBuilders>>,
     <<EditLayoutArgs, CompressionBuilders>>,
     <<EditConvertArgs, ConversionBuilders>>,
     <<EditConvertArgs, InspectBuilders>>,
     <<DocumentArgs, MetadataBuilders>>,
     <<DocumentArgs, OutlineBuilders>>,
     <<DocumentArgs, AttachBuilders>>,
     <<DocumentArgs, AnnotFormBuilders>>,
     <<DocumentArgs, ImageBuilders>>,
     <<InteractiveArgs, AnnotFormBuilders>>,
     <<InteractiveArgs, MarkBuilders>>,
     <<MarkArgs, ImageBuilders>>,
     <<MarkArgs, MarkBuilders>>,
     <<ImageColorArgs, ImageBuilders>>,
     <<ImageColorArgs, ColorBuilders>>,
     <<SignArgs, SignBuilders>>,
     <<SecurityArgs, SecurityBuilders>>,
     <<CompareArgs, CompareBuilders>>}

LEMMA CommandTables ==
    ASSUME NEW c \in CommandNames
    PROVE  \E p \in TablePairs : /\ c \in DOMAIN p[1] /\ ArgsOf(c) = p[1][c]
                                /\ c \in DOMAIN p[2] /\ BuilderOf(c) = p[2][c]
<1>1. PICK t \in ArgTables : c \in DOMAIN t /\ ArgsOf(c) = t[c]
  BY CommandsHaveTables, ArgsAre
<1>2. PICK u \in BuilderTables : c \in DOMAIN u /\ BuilderOf(c) = u[c]
  BY CommandsHaveTables, BuildersAre
<1>3. <<t, u>> \in TablePairs
  <2>1. CASE t = EditPageArgs
    <3>1. c \in DOMAIN EditPageArgs
      BY <1>1, <2>1
    <3> QED
      BY <1>2, <2>1, <3>1, BuilderDomains DEF TablePairs, BuilderTables, EditPageArgs
  <2>2. CASE t = EditLayoutArgs
    <3>1. c \in DOMAIN EditLayoutArgs
      BY <1>1, <2>2
    <3> QED
      BY <1>2, <2>2, <3>1, BuilderDomains DEF TablePairs, BuilderTables, EditLayoutArgs
  <2>3. CASE t = EditConvertArgs
    <3>1. c \in DOMAIN EditConvertArgs
      BY <1>1, <2>3
    <3> QED
      BY <1>2, <2>3, <3>1, BuilderDomains DEF TablePairs, BuilderTables, EditConvertArgs
  <2>4. CASE t = DocumentArgs
    <3>1. c \in DOMAIN DocumentArgs
      BY <1>1, <2>4
    <3> QED
      BY <1>2, <2>4, <3>1, BuilderDomains DEF TablePairs, BuilderTables, DocumentArgs
  <2>5. CASE t = InteractiveArgs
    <3>1. c \in DOMAIN InteractiveArgs
      BY <1>1, <2>5
    <3> QED
      BY <1>2, <2>5, <3>1, BuilderDomains DEF TablePairs, BuilderTables, InteractiveArgs
  <2>6. CASE t = MarkArgs
    <3>1. c \in DOMAIN MarkArgs
      BY <1>1, <2>6
    <3> QED
      BY <1>2, <2>6, <3>1, BuilderDomains DEF TablePairs, BuilderTables, MarkArgs
  <2>7. CASE t = ImageColorArgs
    <3>1. c \in DOMAIN ImageColorArgs
      BY <1>1, <2>7
    <3> QED
      BY <1>2, <2>7, <3>1, BuilderDomains DEF TablePairs, BuilderTables, ImageColorArgs
  <2>8. CASE t = SignArgs
    <3>1. c \in DOMAIN SignArgs
      BY <1>1, <2>8
    <3> QED
      BY <1>2, <2>8, <3>1, BuilderDomains DEF TablePairs, BuilderTables, SignArgs
  <2>9. CASE t = SecurityArgs
    <3>1. c \in DOMAIN SecurityArgs
      BY <1>1, <2>9
    <3> QED
      BY <1>2, <2>9, <3>1, BuilderDomains DEF TablePairs, BuilderTables, SecurityArgs
  <2>10. CASE t = CompareArgs
    <3>1. c \in DOMAIN CompareArgs
      BY <1>1, <2>10
    <3> QED
      BY <1>2, <2>10, <3>1, BuilderDomains DEF TablePairs, BuilderTables, CompareArgs
  <2> QED
    BY <1>1, <2>1, <2>2, <2>3, <2>4, <2>5, <2>6, <2>7, <2>8, <2>9, <2>10 DEF ArgTables
<1> QED
  BY <1>1, <1>2, <1>3

\* Every flag of a command reaches an option of its operator, and the options
\* that the operator requires come from flags that the parser requires.
FlagsFit(c) ==
    LET a == ArgsOf(c)
        b == BuilderOf(c)
        s == StructOf(b.family, b.name)
    IN  /\ a.required \cup a.optional \subseteq b.passes
        /\ b.sets \subseteq AllFields(s) /\ \A f \in b.passes : FieldOf(f) \in AllFields(s)
        /\ Structs[s].required \subseteq b.sets \cup {FieldOf(f) : f \in a.required}

FoldedFlags ==
    PermissionFlags \cup {"owner_password_file", "user_password_file", "password_file",
        "image_quality", "image_max_width", "image_max_height", "image_format", "entry", "key",
        "field"}

LEMMA PlainFlagsFit ==
    ASSUME NEW c, NEW a, a = ArgsOf(c), NEW b, b = BuilderOf(c),
           NEW s, s = StructOf(b.family, b.name),
           a.required \cup a.optional \subseteq b.passes, b.passes \cap FoldedFlags = {},
           b.sets \subseteq AllFields(s), b.passes \subseteq AllFields(s),
           Structs[s].required \subseteq b.sets \cup a.required
    PROVE  FlagsFit(c)
<1>1. \A f \in b.passes : FieldOf(f) = f
  BY DEF FieldOf, FoldedFlags
<1>2. \A f \in b.passes : FieldOf(f) \in AllFields(s)
  BY <1>1
<1>3. \A f \in a.required : f \in {FieldOf(g) : g \in a.required}
  BY <1>1
<1> QED
  BY <1>2, <1>3 DEF FlagsFit

LEMMA CommandsFit ==
    ASSUME NEW c \in CommandNames
    PROVE  FlagsFit(c)
<1> DEFINE b == BuilderOf(c)
           s == StructOf(b.family, b.name)
<1>1. PICK p \in TablePairs : /\ c \in DOMAIN p[1] /\ ArgsOf(c) = p[1][c]
                              /\ c \in DOMAIN p[2] /\ BuilderOf(c) = p[2][c]
  BY CommandTables
<1>2. CASE p = <<EditPageArgs, PageBuilders>>
  <2>1. /\ c \in DOMAIN EditPageArgs
        /\ ArgsOf(c) = EditPageArgs[c]
        /\ c \in DOMAIN PageBuilders
        /\ b = PageBuilders[c]
    BY <1>1, <1>2
  <2>2. \/ c = "Merge" /\ s = "MergeOptions"
        \/ c = "KeepPages" /\ s = "SplitOptions"
        \/ c = "ExtractPages" /\ s = "PageSelectionOptions"
        \/ c = "ReorderPages" /\ s = "ReorderOptions"
        \/ c = "RotatePages" /\ s = "RotateOptions"
        \/ c = "DeletePages" /\ s = "PageSelectionOptions"
        \/ c = "DeleteBlankPages" /\ s = "DeleteBlankPagesOptions"
    <3>1. c \in {"Merge", "KeepPages", "ExtractPages", "ReorderPages", "RotatePages",
                  "DeletePages", "DeleteBlankPages"}
      BY <2>1, BuilderDomains DEF EditPageArgs
    <3>2. b.family = "PdfEdit" /\ b.name = c
      BY <2>1, <3>1 DEF PageBuilders, Builds, Edits
    <3>3. s = EditVariants[c]
      BY <3>2 DEF StructOf, Variants
    <3> QED
      BY <3>1, <3>3 DEF EditVariants
  <2> HIDE DEF s
  <2>3. Structs[s] = PageOptions[s]
    BY <2>2, StructsAre DEF OptionTables, PageOptions
  <2>4. ArgsOf(c).required \cup ArgsOf(c).optional \subseteq b.passes
    BY <2>1 DEF EditPageArgs, PageBuilders, Builds, Edits, Args, InputOnly
  <2>5. b.sets \subseteq AllFields(s)
    BY <2>1, <2>2, <2>3 DEF AllFields, PageBuilders, Builds, Edits,
       PageOptions, Struct, NoFields
  <2>6. b.passes \subseteq AllFields(s)
    BY <2>1, <2>2, <2>3 DEF AllFields, PageBuilders, Builds, Edits,
       PageOptions, Struct, NoFields
  <2>7. Structs[s].required \subseteq b.sets \cup ArgsOf(c).required
    BY <2>1, <2>2, <2>3 DEF EditPageArgs, PageBuilders, Builds, Edits, Args, InputOnly,
       PageOptions, Struct, NoFields
  <2>8. b.passes \cap FoldedFlags = {}
    BY <2>1, <2>2 DEF PageBuilders, Builds, Edits, PermissionFlags, FoldedFlags
  <2> QED
    BY <2>4, <2>5, <2>6, <2>7, <2>8, PlainFlagsFit DEF s
<1>3. CASE p = <<EditPageArgs, LayoutBuilders>>
  <2>1. /\ c \in DOMAIN EditPageArgs
        /\ ArgsOf(c) = EditPageArgs[c]
        /\ c \in DOMAIN LayoutBuilders
        /\ b = LayoutBuilders[c]
    BY <1>1, <1>3
  <2>2. \/ c = "CropPages" /\ s = "CropPagesOptions"
        \/ c = "ScalePages" /\ s = "ScalePagesOptions"
        \/ c = "SinglePage" /\ s = "SinglePageOptions"
    <3>1. c \in {"CropPages", "ScalePages", "SinglePage"}
      BY <2>1, BuilderDomains DEF EditPageArgs
    <3> QED
      BY <2>1, <3>1 DEF LayoutBuilders, Edits, Builds, StructOf, Variants, EditVariants
  <2> HIDE DEF s
  <2>3. Structs[s] = PageOptions[s]
    BY <2>2, StructsAre DEF OptionTables, PageOptions
  <2>4. ArgsOf(c).required \cup ArgsOf(c).optional \subseteq b.passes
    BY <2>1 DEF EditPageArgs, LayoutBuilders, Edits, Builds, Args, InputOnly
  <2>5. b.sets \subseteq AllFields(s)
    BY <2>1, <2>2, <2>3 DEF AllFields, LayoutBuilders, Edits, Builds,
       PageOptions, Struct, NoFields
  <2>6. b.passes \subseteq AllFields(s)
    BY <2>1, <2>2, <2>3 DEF AllFields, LayoutBuilders, Edits, Builds,
       PageOptions, Struct, NoFields
  <2>7. Structs[s].required \subseteq b.sets \cup ArgsOf(c).required
    BY <2>1, <2>2, <2>3 DEF EditPageArgs, LayoutBuilders, Edits, Builds, Args, InputOnly,
       PageOptions, Struct, NoFields
  <2>8. b.passes \cap FoldedFlags = {}
    BY <2>1, <2>2 DEF LayoutBuilders, Edits, Builds, PermissionFlags, FoldedFlags
  <2> QED
    BY <2>4, <2>5, <2>6, <2>7, <2>8, PlainFlagsFit DEF s
<1>4. CASE p = <<EditLayoutArgs, LayoutBuilders>>
  <2>1. /\ c \in DOMAIN EditLayoutArgs
        /\ ArgsOf(c) = EditLayoutArgs[c]
        /\ c \in DOMAIN LayoutBuilders
        /\ b = LayoutBuilders[c]
    BY <1>1, <1>4
  <2>2. \/ c = "NUp" /\ s = "NUpOptions"
        \/ c = "Booklet" /\ s = "BookletOptions"
        \/ c = "PageNumbers" /\ s = "PageNumbersOptions"
    <3>1. c \in {"NUp", "Booklet", "PageNumbers"}
      BY <2>1, BuilderDomains DEF EditLayoutArgs
    <3> QED
      BY <2>1, <3>1 DEF LayoutBuilders, Edits, Builds, StructOf, Variants, EditVariants
  <2> HIDE DEF s
  <2>3. Structs[s] = PageOptions[s]
    BY <2>2, StructsAre DEF OptionTables, PageOptions
  <2>4. ArgsOf(c).required \cup ArgsOf(c).optional \subseteq b.passes
    BY <2>1 DEF EditLayoutArgs, LayoutBuilders, Edits, Builds, Args, InputOnly
  <2>5. b.sets \subseteq AllFields(s)
    BY <2>1, <2>2, <2>3 DEF AllFields, LayoutBuilders, Edits, Builds,
       PageOptions, Struct, NoFields
  <2>6. b.passes \subseteq AllFields(s)
    BY <2>1, <2>2, <2>3 DEF AllFields, LayoutBuilders, Edits, Builds,
       PageOptions, Struct, NoFields
  <2>7. Structs[s].required \subseteq b.sets \cup ArgsOf(c).required
    BY <2>1, <2>2, <2>3 DEF EditLayoutArgs, LayoutBuilders, Edits, Builds, Args, InputOnly,
       PageOptions, Struct, NoFields
  <2>8. b.passes \cap FoldedFlags = {}
    BY <2>1, <2>2 DEF LayoutBuilders, Edits, Builds, PermissionFlags, FoldedFlags
  <2> QED
    BY <2>4, <2>5, <2>6, <2>7, <2>8, PlainFlagsFit DEF s
<1>5. CASE p = <<EditLayoutArgs, CompressionBuilders>>
  <2>1. /\ c \in DOMAIN EditLayoutArgs
        /\ ArgsOf(c) = EditLayoutArgs[c]
        /\ c \in DOMAIN CompressionBuilders
        /\ b = CompressionBuilders[c]
    BY <1>1, <1>5
  <2>2. \/ c = "Compress" /\ s = "CompressionOptions"
    <3>1. c \in {"Compress"}
      BY <2>1, BuilderDomains DEF EditLayoutArgs
    <3> QED
      BY <2>1, <3>1 DEF CompressionBuilders, Edits, Builds, StructOf, Variants, EditVariants
  <2> HIDE DEF s
  <2>3. Structs[s] = CompressionOptions[s]
    BY <2>2, StructsAre DEF OptionTables, CompressionOptions
  <2>4. ArgsOf(c).required \cup ArgsOf(c).optional \subseteq b.passes
    BY <2>1 DEF EditLayoutArgs, CompressionBuilders, Edits, Builds, Args, InputOnly
  <2>5. b.sets \subseteq AllFields(s)
    BY <2>1, <2>2, <2>3 DEF AllFields, CompressionBuilders, Edits, Builds,
       CompressionOptions, Struct
  <2>6. CASE c = "Compress"
    <3>1. /\ b.passes = {"mode", "image_quality", "image_max_width", "image_max_height",
                         "image_format"}
          /\ ArgsOf(c).required = {}
      BY <2>1, <2>6 DEF EditLayoutArgs, CompressionBuilders, Edits, Builds, Args, InputOnly
    <3>2. AllFields(s) = {"mode", "images"} /\ Structs[s].required = {}
      BY <2>2, <2>3, <2>6 DEF AllFields, CompressionOptions, Struct
    <3>3. \A f \in b.passes : FieldOf(f) \in AllFields(s)
      BY <3>1, <3>2 DEF FieldOf, PermissionFlags
    <3> QED
      BY <2>4, <2>5, <3>2, <3>3 DEF FlagsFit, s
  <2> QED
    BY <2>2, <2>6
<1>6. CASE p = <<EditConvertArgs, ConversionBuilders>>
  <2>1. /\ c \in DOMAIN EditConvertArgs
        /\ ArgsOf(c) = EditConvertArgs[c]
        /\ c \in DOMAIN ConversionBuilders
        /\ b = ConversionBuilders[c]
    BY <1>1, <1>6
  <2>2. \/ c = "Img2pdf" /\ s = "ImageToPdfOptions"
        \/ c = "Svg2pdf" /\ s = "SvgToPdfOptions"
        \/ c = "WatermarkText" /\ s = "WatermarkOptions"
        \/ c = "WatermarkImage" /\ s = "WatermarkOptions"
        \/ c = "WatermarkSvg" /\ s = "WatermarkOptions"
    <3>1. c \in {"Img2pdf", "Svg2pdf", "WatermarkText", "WatermarkImage", "WatermarkSvg"}
      BY <2>1, BuilderDomains DEF EditConvertArgs
    <3> QED
      BY <2>1, <3>1 DEF ConversionBuilders, Builds, Edits, StructOf, Variants, EditVariants
  <2> HIDE DEF s
  <2>3. Structs[s] = OverlayOptions[s]
    BY <2>2, StructsAre DEF OptionTables, OverlayOptions
  <2>4. ArgsOf(c).required \cup ArgsOf(c).optional \subseteq b.passes
    BY <2>1 DEF EditConvertArgs, ConversionBuilders, Builds, Edits, WatermarkPasses, Args,
       InputOnly, WatermarkArgs
  <2>5. b.sets \subseteq AllFields(s)
    BY <2>1, <2>2, <2>3 DEF AllFields, ConversionBuilders, Builds, Edits, WatermarkPasses,
       OverlayOptions, Struct, NoFields, MarkFields
  <2>6. b.passes \subseteq AllFields(s)
    BY <2>1, <2>2, <2>3 DEF AllFields, ConversionBuilders, Builds, Edits, WatermarkPasses,
       OverlayOptions, Struct, NoFields, MarkFields
  <2>7. Structs[s].required \subseteq b.sets \cup ArgsOf(c).required
    BY <2>1, <2>2, <2>3 DEF EditConvertArgs, ConversionBuilders, Builds, Edits,
       WatermarkPasses, Args, InputOnly, WatermarkArgs,
       OverlayOptions, Struct, NoFields, MarkFields
  <2>8. b.passes \cap FoldedFlags = {}
    BY <2>1, <2>2 DEF ConversionBuilders, Builds, Edits, WatermarkPasses, PermissionFlags,
       FoldedFlags
  <2> QED
    BY <2>4, <2>5, <2>6, <2>7, <2>8, PlainFlagsFit DEF s
<1>7. CASE p = <<EditConvertArgs, InspectBuilders>>
  <2>1. /\ c \in DOMAIN EditConvertArgs
        /\ ArgsOf(c) = EditConvertArgs[c]
        /\ c \in DOMAIN InspectBuilders
        /\ b = InspectBuilders[c]
    BY <1>1, <1>7
  <2>2. \/ c = "Render" /\ s = "RenderOptions"
        \/ c = "ExtractText" /\ s = "ExtractTextOptions"
    <3>1. c \in {"Render", "ExtractText"}
      BY <2>1, BuilderDomains DEF EditConvertArgs
    <3> QED
      BY <2>1, <3>1 DEF InspectBuilders, Inspects, Builds, StructOf, Variants, InspectVariants
  <2> HIDE DEF s
  <2>3. Structs[s] = OverlayOptions[s]
    BY <2>2, StructsAre DEF OptionTables, OverlayOptions
  <2>4. ArgsOf(c).required \cup ArgsOf(c).optional \subseteq b.passes
    BY <2>1 DEF EditConvertArgs, InspectBuilders, Inspects, Builds, Args, InputOnly, WatermarkArgs
  <2>5. b.sets \subseteq AllFields(s)
    BY <2>1, <2>2, <2>3 DEF AllFields, InspectBuilders, Inspects, Builds,
       OverlayOptions, Struct, NoFields, MarkFields
  <2>6. b.passes \subseteq AllFields(s)
    BY <2>1, <2>2, <2>3 DEF AllFields, InspectBuilders, Inspects, Builds,
       OverlayOptions, Struct, NoFields, MarkFields
  <2>7. Structs[s].required \subseteq b.sets \cup ArgsOf(c).required
    BY <2>1, <2>2, <2>3 DEF EditConvertArgs, InspectBuilders, Inspects, Builds, Args,
       InputOnly, WatermarkArgs,
       OverlayOptions, Struct, NoFields, MarkFields
  <2>8. b.passes \cap FoldedFlags = {}
    BY <2>1, <2>2 DEF InspectBuilders, Inspects, Builds, PermissionFlags, FoldedFlags
  <2> QED
    BY <2>4, <2>5, <2>6, <2>7, <2>8, PlainFlagsFit DEF s
<1>8. CASE p = <<DocumentArgs, MetadataBuilders>>
  <2>1. /\ c \in DOMAIN DocumentArgs
        /\ ArgsOf(c) = DocumentArgs[c]
        /\ c \in DOMAIN MetadataBuilders
        /\ b = MetadataBuilders[c]
    BY <1>1, <1>8
  <2>2. \/ c = "MetadataGet" /\ s = "MetadataInspectOptions"
        \/ c = "MetadataSet" /\ s = "MetadataEditOptions"
        \/ c = "MetadataDelete" /\ s = "MetadataEditOptions"
        \/ c = "MetadataValidate" /\ s = "MetadataInspectOptions"
    <3>1. c \in {"MetadataGet", "MetadataSet", "MetadataDelete", "MetadataValidate"}
      BY <2>1, BuilderDomains DEF DocumentArgs
    <3> QED
      BY <2>1, <3>1 DEF MetadataBuilders, Edits, Inspects, Builds, StructOf, Variants,
         EditVariants, InspectVariants
  <2> HIDE DEF s
  <2>3. Structs[s] = DocumentOptions[s]
    BY <2>2, StructsAre DEF OptionTables, DocumentOptions
  <2>4. ArgsOf(c).required \cup ArgsOf(c).optional \subseteq b.passes
    BY <2>1 DEF DocumentArgs, MetadataBuilders, Edits, Inspects, Builds, Args, InputOnly
  <2>5. b.sets \subseteq AllFields(s)
    BY <2>1, <2>2, <2>3 DEF AllFields, MetadataBuilders, Edits, Inspects, Builds,
       DocumentOptions, Struct, NoFields
  <2>6. CASE c \in {"MetadataGet", "MetadataValidate"}
    <3>1. b.passes \subseteq AllFields(s)
      BY <2>2, <2>3, <2>1, <2>6 DEF AllFields, MetadataBuilders, Edits, Inspects, Builds,
         DocumentOptions, Struct, NoFields
    <3>2. Structs[s].required \subseteq b.sets \cup ArgsOf(c).required
      BY <2>1, <2>2, <2>3, <2>6 DEF DocumentArgs, MetadataBuilders, Edits, Inspects, Builds,
         Args, InputOnly,
         DocumentOptions, Struct, NoFields
    <3>3. b.passes \cap FoldedFlags = {}
      BY <2>1, <2>6 DEF MetadataBuilders, Edits, Inspects, Builds, PermissionFlags, FoldedFlags
    <3> QED
      BY <2>4, <2>5, <3>1, <3>2, <3>3, PlainFlagsFit DEF s
  <2>7. CASE c = "MetadataSet"
    <3>1. b.passes = {"entry"} /\ ArgsOf(c).required = {"entry"}
      BY <2>1, <2>7 DEF DocumentArgs, MetadataBuilders, Edits, Inspects, Builds, Args, InputOnly
    <3>2. AllFields(s) = {"entries", "keys"} /\ Structs[s].required = {}
      BY <2>2, <2>3, <2>7 DEF AllFields, DocumentOptions, Struct, NoFields
    <3>3. \A f \in b.passes : FieldOf(f) \in AllFields(s)
      BY <3>1, <3>2 DEF FieldOf, PermissionFlags
    <3> QED
      BY <2>4, <2>5, <3>2, <3>3 DEF FlagsFit, s
  <2>8. CASE c = "MetadataDelete"
    <3>1. b.passes = {"key"} /\ ArgsOf(c).required = {"key"}
      BY <2>1, <2>8 DEF DocumentArgs, MetadataBuilders, Edits, Inspects, Builds, Args, InputOnly
    <3>2. AllFields(s) = {"entries", "keys"} /\ Structs[s].required = {}
      BY <2>2, <2>3, <2>8 DEF AllFields, DocumentOptions, Struct, NoFields
    <3>3. \A f \in b.passes : FieldOf(f) \in AllFields(s)
      BY <3>1, <3>2 DEF FieldOf, PermissionFlags
    <3> QED
      BY <2>4, <2>5, <3>2, <3>3 DEF FlagsFit, s
  <2> QED
    BY <2>2, <2>6, <2>7, <2>8
<1>9. CASE p = <<DocumentArgs, OutlineBuilders>>
  <2>1. /\ c \in DOMAIN DocumentArgs
        /\ ArgsOf(c) = DocumentArgs[c]
        /\ c \in DOMAIN OutlineBuilders
        /\ b = OutlineBuilders[c]
    BY <1>1, <1>9
  <2>2. \/ c = "OutlineGet" /\ s = "OutlineInspectOptions"
        \/ c = "OutlineSet" /\ s = "OutlineEditOptions"
        \/ c = "OutlineDelete" /\ s = "OutlineEditOptions"
    <3>1. c \in {"OutlineGet", "OutlineSet", "OutlineDelete"}
      BY <2>1, BuilderDomains DEF DocumentArgs
    <3> QED
      BY <2>1, <3>1 DEF OutlineBuilders, Builds, Edits, Inspects, StructOf, Variants,
         EditVariants, InspectVariants
  <2> HIDE DEF s
  <2>3. Structs[s] = OutlineOptions[s]
    BY <2>2, StructsAre DEF OptionTables, OutlineOptions
  <2>4. ArgsOf(c).required \cup ArgsOf(c).optional \subseteq b.passes
    BY <2>1 DEF DocumentArgs, OutlineBuilders, Builds, Edits, Inspects, Args, InputOnly
  <2>5. b.sets \subseteq AllFields(s)
    BY <2>1, <2>2, <2>3 DEF AllFields, OutlineBuilders, Builds, Edits, Inspects,
       OutlineOptions, Struct, NoFields
  <2>6. b.passes \subseteq AllFields(s)
    BY <2>1, <2>2, <2>3 DEF AllFields, OutlineBuilders, Builds, Edits, Inspects,
       OutlineOptions, Struct, NoFields
  <2>7. Structs[s].required \subseteq b.sets \cup ArgsOf(c).required
    BY <2>1, <2>2, <2>3 DEF DocumentArgs, OutlineBuilders, Builds, Edits, Inspects, Args,
       InputOnly,
       OutlineOptions, Struct, NoFields
  <2>8. b.passes \cap FoldedFlags = {}
    BY <2>1, <2>2 DEF OutlineBuilders, Builds, Edits, Inspects, PermissionFlags, FoldedFlags
  <2> QED
    BY <2>4, <2>5, <2>6, <2>7, <2>8, PlainFlagsFit DEF s
<1>10. CASE p = <<DocumentArgs, AttachBuilders>>
  <2>1. /\ c \in DOMAIN DocumentArgs
        /\ ArgsOf(c) = DocumentArgs[c]
        /\ c \in DOMAIN AttachBuilders
        /\ b = AttachBuilders[c]
    BY <1>1, <1>10
  <2>2. \/ c = "AttachAdd" /\ s = "AttachmentEditOptions"
        \/ c = "AttachList" /\ s = "AttachmentInspectOptions"
        \/ c = "AttachExtract" /\ s = "AttachmentExtractOptions"
        \/ c = "AttachDelete" /\ s = "AttachmentEditOptions"
    <3>1. c \in {"AttachAdd", "AttachList", "AttachExtract", "AttachDelete"}
      BY <2>1, BuilderDomains DEF DocumentArgs
    <3> QED
      BY <2>1, <3>1 DEF AttachBuilders, Builds, Edits, Inspects, StructOf, Variants,
         EditVariants, InspectVariants
  <2> HIDE DEF s
  <2>3. Structs[s] = AttachmentOptions[s]
    BY <2>2, StructsAre DEF OptionTables, AttachmentOptions
  <2>4. ArgsOf(c).required \cup ArgsOf(c).optional \subseteq b.passes
    BY <2>1 DEF DocumentArgs, AttachBuilders, Builds, Edits, Inspects, Args, InputOnly
  <2>5. b.sets \subseteq AllFields(s)
    BY <2>1, <2>2, <2>3 DEF AllFields, AttachBuilders, Builds, Edits, Inspects,
       AttachmentOptions, Struct, NoFields
  <2>6. b.passes \subseteq AllFields(s)
    BY <2>1, <2>2, <2>3 DEF AllFields, AttachBuilders, Builds, Edits, Inspects,
       AttachmentOptions, Struct, NoFields
  <2>7. Structs[s].required \subseteq b.sets \cup ArgsOf(c).required
    BY <2>1, <2>2, <2>3 DEF DocumentArgs, AttachBuilders, Builds, Edits, Inspects, Args,
       InputOnly,
       AttachmentOptions, Struct, NoFields
  <2>8. b.passes \cap FoldedFlags = {}
    BY <2>1, <2>2 DEF AttachBuilders, Builds, Edits, Inspects, PermissionFlags, FoldedFlags
  <2> QED
    BY <2>4, <2>5, <2>6, <2>7, <2>8, PlainFlagsFit DEF s
<1>11. CASE p = <<DocumentArgs, AnnotFormBuilders>>
  <2>1. /\ c \in DOMAIN DocumentArgs
        /\ ArgsOf(c) = DocumentArgs[c]
        /\ c \in DOMAIN AnnotFormBuilders
        /\ b = AnnotFormBuilders[c]
    BY <1>1, <1>11
  <2>2. \/ c = "AnnotList" /\ s = "AnnotationInspectOptions"
        \/ c = "FormInspect" /\ s = "FormInspectOptions"
        \/ c = "FormUnlockReadonly" /\ s = "FormFlag"
        \/ c = "FormRemove" /\ s = "FormFlag"
    <3>1. c \in {"AnnotList", "FormInspect", "FormUnlockReadonly", "FormRemove"}
      BY <2>1, BuilderDomains DEF DocumentArgs
    <3> QED
      BY <2>1, <3>1 DEF AnnotFormBuilders, Edits, Inspects, Builds, StructOf, Variants,
         EditVariants, InspectVariants
  <2> HIDE DEF s
  <2>3. /\ (s \in DOMAIN AnnotationOptions => Structs[s] = AnnotationOptions[s])
        /\ (s \in DOMAIN FormOptions => Structs[s] = FormOptions[s])
    BY <2>2, StructsAre DEF OptionTables, AnnotationOptions, FormOptions
  <2>4. ArgsOf(c).required \cup ArgsOf(c).optional \subseteq b.passes
    BY <2>1 DEF DocumentArgs, AnnotFormBuilders, Edits, Inspects, Builds, Args, InputOnly
  <2>5. b.sets \subseteq AllFields(s)
    BY <2>1, <2>2, <2>3 DEF AllFields, AnnotFormBuilders, Edits, Inspects, Builds,
       AnnotationOptions, FormOptions, Struct, NoFields
  <2>6. b.passes \subseteq AllFields(s)
    BY <2>1, <2>2, <2>3 DEF AllFields, AnnotFormBuilders, Edits, Inspects, Builds,
       AnnotationOptions, FormOptions, Struct, NoFields
  <2>7. Structs[s].required \subseteq b.sets \cup ArgsOf(c).required
    BY <2>1, <2>2, <2>3 DEF DocumentArgs, AnnotFormBuilders, Edits, Inspects, Builds, Args,
       InputOnly,
       AnnotationOptions, FormOptions, Struct, NoFields
  <2>8. b.passes \cap FoldedFlags = {}
    BY <2>1, <2>2 DEF AnnotFormBuilders, Edits, Inspects, Builds, PermissionFlags, FoldedFlags
  <2> QED
    BY <2>4, <2>5, <2>6, <2>7, <2>8, PlainFlagsFit DEF s
<1>12. CASE p = <<DocumentArgs, ImageBuilders>>
  <2>1. /\ c \in DOMAIN DocumentArgs
        /\ ArgsOf(c) = DocumentArgs[c]
        /\ c \in DOMAIN ImageBuilders
        /\ b = ImageBuilders[c]
    BY <1>1, <1>12
  <2>2. \/ c = "ImageList" /\ s = "ImageInspectOptions"
    <3>1. c \in {"ImageList"}
      BY <2>1, BuilderDomains DEF DocumentArgs
    <3> QED
      BY <2>1, <3>1 DEF ImageBuilders, Builds, Edits, Inspects, StructOf, Variants,
         InspectVariants
  <2> HIDE DEF s
  <2>3. Structs[s] = OverlayOptions[s]
    BY <2>2, StructsAre DEF OptionTables, OverlayOptions
  <2>4. ArgsOf(c).required \cup ArgsOf(c).optional \subseteq b.passes
    BY <2>1 DEF DocumentArgs, ImageBuilders, Builds, Edits, Inspects, Args, InputOnly
  <2>5. b.sets \subseteq AllFields(s)
    BY <2>1, <2>2, <2>3 DEF AllFields, ImageBuilders, Builds, Edits, Inspects,
       OverlayOptions, Struct, NoFields, MarkFields
  <2>6. b.passes \subseteq AllFields(s)
    BY <2>1, <2>2, <2>3 DEF AllFields, ImageBuilders, Builds, Edits, Inspects,
       OverlayOptions, Struct, NoFields, MarkFields
  <2>7. Structs[s].required \subseteq b.sets \cup ArgsOf(c).required
    BY <2>1, <2>2, <2>3 DEF DocumentArgs, ImageBuilders, Builds, Edits, Inspects, Args, InputOnly,
       OverlayOptions, Struct, NoFields, MarkFields
  <2>8. b.passes \cap FoldedFlags = {}
    BY <2>1, <2>2 DEF ImageBuilders, Builds, Edits, Inspects, PermissionFlags, FoldedFlags
  <2> QED
    BY <2>4, <2>5, <2>6, <2>7, <2>8, PlainFlagsFit DEF s
<1>13. CASE p = <<InteractiveArgs, AnnotFormBuilders>>
  <2>1. /\ c \in DOMAIN InteractiveArgs
        /\ ArgsOf(c) = InteractiveArgs[c]
        /\ c \in DOMAIN AnnotFormBuilders
        /\ b = AnnotFormBuilders[c]
    BY <1>1, <1>13
  <2>2. \/ c = "AnnotAdd" /\ s = "AnnotationEditOptions"
        \/ c = "AnnotDelete" /\ s = "AnnotationEditOptions"
        \/ c = "FormFill" /\ s = "FormFillOptions"
        \/ c = "InteractiveRemove" /\ s = "InteractiveRemovalOptions"
    <3>1. c \in {"AnnotAdd", "AnnotDelete", "FormFill", "InteractiveRemove"}
      BY <2>1, BuilderDomains DEF InteractiveArgs
    <3> QED
      BY <2>1, <3>1 DEF AnnotFormBuilders, Edits, Inspects, Builds, StructOf, Variants,
         EditVariants
  <2> HIDE DEF s
  <2>3. /\ (s \in DOMAIN AnnotationOptions => Structs[s] = AnnotationOptions[s])
        /\ (s \in DOMAIN FormOptions => Structs[s] = FormOptions[s])
        /\ (s \in DOMAIN InteractiveOptions => Structs[s] = InteractiveOptions[s])
    BY <2>2, StructsAre DEF OptionTables, AnnotationOptions, FormOptions, InteractiveOptions
  <2>4. ArgsOf(c).required \cup ArgsOf(c).optional \subseteq b.passes
    BY <2>1 DEF InteractiveArgs, AnnotFormBuilders, Edits, Inspects, Builds, Args
  <2>5. b.sets \subseteq AllFields(s)
    BY <2>1, <2>2, <2>3 DEF AllFields, AnnotFormBuilders, Edits, Inspects, Builds,
       AnnotationOptions, FormOptions, InteractiveOptions, Struct, NoFields
  <2>6. CASE c \in {"AnnotAdd", "AnnotDelete", "InteractiveRemove"}
    <3>1. b.passes \subseteq AllFields(s)
      BY <2>2, <2>3, <2>1, <2>6 DEF AllFields, AnnotFormBuilders, Edits, Inspects, Builds,
         AnnotationOptions, FormOptions, InteractiveOptions, Struct, NoFields
    <3>2. Structs[s].required \subseteq b.sets \cup ArgsOf(c).required
      BY <2>1, <2>2, <2>3, <2>6 DEF InteractiveArgs, AnnotFormBuilders, Edits, Inspects,
         Builds, Args,
         AnnotationOptions, FormOptions, InteractiveOptions, Struct, NoFields
    <3>3. b.passes \cap FoldedFlags = {}
      BY <2>1, <2>6 DEF AnnotFormBuilders, Edits, Inspects, Builds, PermissionFlags, FoldedFlags
    <3> QED
      BY <2>4, <2>5, <3>1, <3>2, <3>3, PlainFlagsFit DEF s
  <2>7. CASE c = "FormFill"
    <3>1. b.passes = {"field"} /\ ArgsOf(c).required = {"field"}
      BY <2>1, <2>7 DEF InteractiveArgs, AnnotFormBuilders, Edits, Inspects, Builds, Args
    <3>2. AllFields(s) = {"fields"} /\ Structs[s].required = {"fields"}
      BY <2>2, <2>3, <2>7 DEF AllFields, AnnotationOptions, FormOptions, InteractiveOptions,
         Struct, NoFields
    <3>3. \A f \in b.passes : FieldOf(f) \in AllFields(s)
      BY <3>1, <3>2 DEF FieldOf, PermissionFlags
    <3>4. FieldOf("field") = "fields"
      BY DEF FieldOf, PermissionFlags
    <3> QED
      BY <2>4, <2>5, <3>1, <3>2, <3>3, <3>4 DEF FlagsFit, s
  <2> QED
    BY <2>2, <2>6, <2>7
<1>14. CASE p = <<InteractiveArgs, MarkBuilders>>
  <2>1. /\ c \in DOMAIN InteractiveArgs
        /\ ArgsOf(c) = InteractiveArgs[c]
        /\ c \in DOMAIN MarkBuilders
        /\ b = MarkBuilders[c]
    BY <1>1, <1>14
  <2>2. \/ c = "Stamp" /\ s = "OverlayOptions"
    <3>1. c \in {"Stamp"}
      BY <2>1, BuilderDomains DEF InteractiveArgs
    <3> QED
      BY <2>1, <3>1 DEF MarkBuilders, Builds, StructOf, Variants, EditVariants
  <2> HIDE DEF s
  <2>3. Structs[s] = OverlayOptions[s]
    BY <2>2, StructsAre DEF OptionTables, OverlayOptions
  <2>4. ArgsOf(c).required \cup ArgsOf(c).optional \subseteq b.passes
    BY <2>1 DEF InteractiveArgs, MarkBuilders, Builds, Args
  <2>5. b.sets \subseteq AllFields(s)
    BY <2>1, <2>2, <2>3 DEF AllFields, MarkBuilders, Builds,
       OverlayOptions, Struct, NoFields, MarkFields
  <2>6. b.passes \subseteq AllFields(s)
    BY <2>1, <2>2, <2>3 DEF AllFields, MarkBuilders, Builds,
       OverlayOptions, Struct, NoFields, MarkFields
  <2>7. Structs[s].required \subseteq b.sets \cup ArgsOf(c).required
    BY <2>1, <2>2, <2>3 DEF InteractiveArgs, MarkBuilders, Builds, Args,
       OverlayOptions, Struct, NoFields, MarkFields
  <2>8. b.passes \cap FoldedFlags = {}
    BY <2>1, <2>2 DEF MarkBuilders, Builds, PermissionFlags, FoldedFlags
  <2> QED
    BY <2>4, <2>5, <2>6, <2>7, <2>8, PlainFlagsFit DEF s
<1>15. CASE p = <<MarkArgs, ImageBuilders>>
  <2>1. /\ c \in DOMAIN MarkArgs
        /\ ArgsOf(c) = MarkArgs[c]
        /\ c \in DOMAIN ImageBuilders
        /\ b = ImageBuilders[c]
    BY <1>1, <1>15
  <2>2. \/ c = "ImageAdd" /\ s = "ImageEditOptions"
    <3>1. c \in {"ImageAdd"}
      BY <2>1, BuilderDomains DEF MarkArgs
    <3> QED
      BY <2>1, <3>1 DEF ImageBuilders, Builds, Edits, Inspects, StructOf, Variants, EditVariants
  <2> HIDE DEF s
  <2>3. Structs[s] = OverlayOptions[s]
    BY <2>2, StructsAre DEF OptionTables, OverlayOptions
  <2>4. ArgsOf(c).required \cup ArgsOf(c).optional \subseteq b.passes
    BY <2>1 DEF MarkArgs, ImageBuilders, Builds, Edits, Inspects, Args
  <2>5. b.sets \subseteq AllFields(s)
    BY <2>1, <2>2, <2>3 DEF AllFields, ImageBuilders, Builds, Edits, Inspects,
       OverlayOptions, Struct, NoFields, MarkFields
  <2>6. b.passes \subseteq AllFields(s)
    BY <2>1, <2>2, <2>3 DEF AllFields, ImageBuilders, Builds, Edits, Inspects,
       OverlayOptions, Struct, NoFields, MarkFields
  <2>7. Structs[s].required \subseteq b.sets \cup ArgsOf(c).required
    BY <2>1, <2>2, <2>3 DEF MarkArgs, ImageBuilders, Builds, Edits, Inspects, Args,
       OverlayOptions, Struct, NoFields, MarkFields
  <2>8. b.passes \cap FoldedFlags = {}
    BY <2>1, <2>2 DEF ImageBuilders, Builds, Edits, Inspects, PermissionFlags, FoldedFlags
  <2> QED
    BY <2>4, <2>5, <2>6, <2>7, <2>8, PlainFlagsFit DEF s
<1>16. CASE p = <<MarkArgs, MarkBuilders>>
  <2>1. /\ c \in DOMAIN MarkArgs
        /\ ArgsOf(c) = MarkArgs[c]
        /\ c \in DOMAIN MarkBuilders
        /\ b = MarkBuilders[c]
    BY <1>1, <1>16
  <2>2. \/ c = "Appearance" /\ s = "OverlayOptions"
        \/ c = "OverlayPdf" /\ s = "OverlayOptions"
    <3>1. c \in {"Appearance", "OverlayPdf"}
      BY <2>1, BuilderDomains DEF MarkArgs
    <3> QED
      BY <2>1, <3>1 DEF MarkBuilders, Builds, StructOf, Variants, EditVariants
  <2> HIDE DEF s
  <2>3. Structs[s] = OverlayOptions[s]
    BY <2>2, StructsAre DEF OptionTables, OverlayOptions
  <2>4. ArgsOf(c).required \cup ArgsOf(c).optional \subseteq b.passes
    BY <2>1 DEF MarkArgs, MarkBuilders, Builds, Args
  <2>5. b.sets \subseteq AllFields(s)
    BY <2>1, <2>2, <2>3 DEF AllFields, MarkBuilders, Builds,
       OverlayOptions, Struct, NoFields, MarkFields
  <2>6. b.passes \subseteq AllFields(s)
    BY <2>1, <2>2, <2>3 DEF AllFields, MarkBuilders, Builds,
       OverlayOptions, Struct, NoFields, MarkFields
  <2>7. Structs[s].required \subseteq b.sets \cup ArgsOf(c).required
    BY <2>1, <2>2, <2>3 DEF MarkArgs, MarkBuilders, Builds, Args,
       OverlayOptions, Struct, NoFields, MarkFields
  <2>8. b.passes \cap FoldedFlags = {}
    BY <2>1, <2>2 DEF MarkBuilders, Builds, PermissionFlags, FoldedFlags
  <2> QED
    BY <2>4, <2>5, <2>6, <2>7, <2>8, PlainFlagsFit DEF s
<1>17. CASE p = <<ImageColorArgs, ImageBuilders>>
  <2>1. /\ c \in DOMAIN ImageColorArgs
        /\ ArgsOf(c) = ImageColorArgs[c]
        /\ c \in DOMAIN ImageBuilders
        /\ b = ImageBuilders[c]
    BY <1>1, <1>17
  <2>2. \/ c = "ImageReplace" /\ s = "ImageEditOptions"
        \/ c = "ImageDelete" /\ s = "ImageEditOptions"
        \/ c = "ImageExtract" /\ s = "ImageExtractOptions"
    <3>1. c \in {"ImageReplace", "ImageDelete", "ImageExtract"}
      BY <2>1, BuilderDomains DEF ImageColorArgs
    <3> QED
      BY <2>1, <3>1 DEF ImageBuilders, Builds, Edits, Inspects, StructOf, Variants,
         EditVariants, InspectVariants
  <2> HIDE DEF s
  <2>3. Structs[s] = OverlayOptions[s]
    BY <2>2, StructsAre DEF OptionTables, OverlayOptions
  <2>4. ArgsOf(c).required \cup ArgsOf(c).optional \subseteq b.passes
    BY <2>1 DEF ImageColorArgs, ImageBuilders, Builds, Edits, Inspects, Args
  <2>5. b.sets \subseteq AllFields(s)
    BY <2>1, <2>2, <2>3 DEF AllFields, ImageBuilders, Builds, Edits, Inspects,
       OverlayOptions, Struct, NoFields, MarkFields
  <2>6. b.passes \subseteq AllFields(s)
    BY <2>1, <2>2, <2>3 DEF AllFields, ImageBuilders, Builds, Edits, Inspects,
       OverlayOptions, Struct, NoFields, MarkFields
  <2>7. Structs[s].required \subseteq b.sets \cup ArgsOf(c).required
    BY <2>1, <2>2, <2>3 DEF ImageColorArgs, ImageBuilders, Builds, Edits, Inspects, Args,
       OverlayOptions, Struct, NoFields, MarkFields
  <2>8. b.passes \cap FoldedFlags = {}
    BY <2>1, <2>2 DEF ImageBuilders, Builds, Edits, Inspects, PermissionFlags, FoldedFlags
  <2> QED
    BY <2>4, <2>5, <2>6, <2>7, <2>8, PlainFlagsFit DEF s
<1>18. CASE p = <<ImageColorArgs, ColorBuilders>>
  <2>1. /\ c \in DOMAIN ImageColorArgs
        /\ ArgsOf(c) = ImageColorArgs[c]
        /\ c \in DOMAIN ColorBuilders
        /\ b = ColorBuilders[c]
    BY <1>1, <1>18
  <2>2. \/ c = "ColorContrast" /\ s = "ColorEditOptions"
        \/ c = "ColorInvert" /\ s = "ColorEditOptions"
        \/ c = "ColorReplace" /\ s = "ColorEditOptions"
    <3>1. c \in {"ColorContrast", "ColorInvert", "ColorReplace"}
      BY <2>1, BuilderDomains DEF ImageColorArgs
    <3> QED
      BY <2>1, <3>1 DEF ColorBuilders, Edits, Builds, StructOf, Variants, EditVariants
  <2> HIDE DEF s
  <2>3. Structs[s] = OverlayOptions[s]
    BY <2>2, StructsAre DEF OptionTables, OverlayOptions
  <2>4. ArgsOf(c).required \cup ArgsOf(c).optional \subseteq b.passes
    BY <2>1 DEF ImageColorArgs, ColorBuilders, Edits, Builds, Args
  <2>5. b.sets \subseteq AllFields(s)
    BY <2>1, <2>2, <2>3 DEF AllFields, ColorBuilders, Edits, Builds,
       OverlayOptions, Struct, NoFields, MarkFields
  <2>6. b.passes \subseteq AllFields(s)
    BY <2>1, <2>2, <2>3 DEF AllFields, ColorBuilders, Edits, Builds,
       OverlayOptions, Struct, NoFields, MarkFields
  <2>7. Structs[s].required \subseteq b.sets \cup ArgsOf(c).required
    BY <2>1, <2>2, <2>3 DEF ImageColorArgs, ColorBuilders, Edits, Builds, Args,
       OverlayOptions, Struct, NoFields, MarkFields
  <2>8. b.passes \cap FoldedFlags = {}
    BY <2>1, <2>2 DEF ColorBuilders, Edits, Builds, PermissionFlags, FoldedFlags
  <2> QED
    BY <2>4, <2>5, <2>6, <2>7, <2>8, PlainFlagsFit DEF s
<1>19. CASE p = <<SignArgs, SignBuilders>>
  <2>1. /\ c \in DOMAIN SignArgs
        /\ ArgsOf(c) = SignArgs[c]
        /\ c \in DOMAIN SignBuilders
        /\ b = SignBuilders[c]
    BY <1>1, <1>19
  <2>2. \/ c = "SignVerify" /\ s = "SignatureOptions"
        \/ c = "SignAdd" /\ s = "SignatureAddOptions"
        \/ c = "SignList" /\ s = "SignatureOptions"
        \/ c = "SignDeleteField" /\ s = "SignatureDeleteFieldOptions"
        \/ c = "Timestamp" /\ s = "TimestampAddOptions"
    <3>1. c \in {"SignVerify", "SignAdd", "SignList", "SignDeleteField", "Timestamp"}
      BY <2>1, BuilderDomains DEF SignArgs
    <3> QED
      BY <2>1, <3>1 DEF SignBuilders, Signs, Builds, StructOf, Variants, SignVariants
  <2> HIDE DEF s
  <2>3. Structs[s] = SignatureStructs[s]
    BY <2>2, StructsAre DEF OptionTables, SignatureStructs
  <2>4. ArgsOf(c).required \cup ArgsOf(c).optional \subseteq b.passes
    BY <2>1 DEF SignArgs, SignBuilders, Signs, Builds, Args, InputOnly
  <2>5. b.sets \subseteq AllFields(s)
    BY <2>1, <2>2, <2>3 DEF AllFields, SignBuilders, Signs, Builds,
       SignatureStructs, Struct
  <2>6. b.passes \subseteq AllFields(s)
    BY <2>1, <2>2, <2>3 DEF AllFields, SignBuilders, Signs, Builds,
       SignatureStructs, Struct
  <2>7. Structs[s].required \subseteq b.sets \cup ArgsOf(c).required
    BY <2>1, <2>2, <2>3 DEF SignArgs, SignBuilders, Signs, Builds, Args, InputOnly,
       SignatureStructs, Struct
  <2>8. b.passes \cap FoldedFlags = {}
    BY <2>1, <2>2 DEF SignBuilders, Signs, Builds, PermissionFlags, FoldedFlags
  <2> QED
    BY <2>4, <2>5, <2>6, <2>7, <2>8, PlainFlagsFit DEF s
<1>20. CASE p = <<SecurityArgs, SecurityBuilders>>
  <2>1. /\ c \in DOMAIN SecurityArgs
        /\ ArgsOf(c) = SecurityArgs[c]
        /\ c \in DOMAIN SecurityBuilders
        /\ b = SecurityBuilders[c]
    BY <1>1, <1>20
  <2>2. \/ c = "Encrypt" /\ s = "SecurityEncryptOptions"
        \/ c = "Decrypt" /\ s = "SecurityDecryptOptions"
        \/ c = "PermissionsGet" /\ s = "SecurityPermissionGetOptions"
        \/ c = "PermissionsSet" /\ s = "SecurityPermissionSetOptions"
    <3>1. c \in {"Encrypt", "Decrypt", "PermissionsGet", "PermissionsSet"}
      BY <2>1, BuilderDomains DEF SecurityArgs
    <3>2. b.family = "PdfSecurity" /\ b.name = c
      BY <2>1, <3>1 DEF SecurityBuilders, Secures, Builds
    <3>3. s = SecurityVariants[c]
      BY <3>2 DEF StructOf, Variants
    <3> QED
      BY <3>1, <3>3 DEF SecurityVariants
  <2> HIDE DEF s
  <2>3. Structs[s] = SecurityStructs[s]
    BY <2>2, StructsAre DEF OptionTables, SecurityStructs
  <2>4. ArgsOf(c).required \cup ArgsOf(c).optional \subseteq b.passes
    BY <2>1 DEF SecurityArgs, SecurityBuilders, Secures, Builds, Args, PermissionFlags
  <2>5. b.sets \subseteq AllFields(s)
    BY <2>1, <2>2, <2>3 DEF AllFields, SecurityBuilders, Secures, Builds,
       SecurityStructs, Struct
  <2>6. CASE c = "Encrypt"
    <3>1. /\ b.passes = {"owner_password", "owner_password_file", "user_password",
                         "user_password_file"} \cup PermissionFlags
          /\ ArgsOf(c).required = {}
      BY <2>1, <2>6 DEF SecurityArgs, SecurityBuilders, Secures, Builds, Args
    <3>2. /\ AllFields(s) = {"owner_password", "user_password", "algorithm", "permissions"}
          /\ Structs[s].required = {}
      BY <2>2, <2>3, <2>6 DEF AllFields, SecurityStructs, Struct
    <3>3. \A f \in b.passes : FieldOf(f) \in AllFields(s)
      BY <3>1, <3>2 DEF FieldOf, PermissionFlags
    <3> QED
      BY <2>4, <2>5, <3>2, <3>3 DEF FlagsFit, s
  <2>7. CASE c = "Decrypt"
    <3>1. b.passes = {"password", "password_file"} /\ ArgsOf(c).required = {}
      BY <2>1, <2>7 DEF SecurityArgs, SecurityBuilders, Secures, Builds, Args
    <3>2. AllFields(s) = {"password"} /\ Structs[s].required = {}
      BY <2>2, <2>3, <2>7 DEF AllFields, SecurityStructs, Struct
    <3>3. \A f \in b.passes : FieldOf(f) \in AllFields(s)
      BY <3>1, <3>2 DEF FieldOf, PermissionFlags
    <3> QED
      BY <2>4, <2>5, <3>2, <3>3 DEF FlagsFit, s
  <2>8. CASE c = "PermissionsGet"
    <3>1. b.passes = {"password", "password_file"} /\ ArgsOf(c).required = {}
      BY <2>1, <2>8 DEF SecurityArgs, SecurityBuilders, Secures, Builds, Args
    <3>2. AllFields(s) = {"password"} /\ Structs[s].required = {}
      BY <2>2, <2>3, <2>8 DEF AllFields, SecurityStructs, Struct
    <3>3. \A f \in b.passes : FieldOf(f) \in AllFields(s)
      BY <3>1, <3>2 DEF FieldOf, PermissionFlags
    <3> QED
      BY <2>4, <2>5, <3>2, <3>3 DEF FlagsFit, s
  <2>9. CASE c = "PermissionsSet"
    <3>1. /\ b.passes = {"owner_password", "owner_password_file", "user_password",
                         "user_password_file"} \cup PermissionFlags
          /\ ArgsOf(c).required = {}
      BY <2>1, <2>9 DEF SecurityArgs, SecurityBuilders, Secures, Builds, Args
    <3>2. /\ AllFields(s) = {"owner_password", "user_password", "algorithm", "permissions"}
          /\ Structs[s].required = {}
      BY <2>2, <2>3, <2>9 DEF AllFields, SecurityStructs, Struct
    <3>3. \A f \in b.passes : FieldOf(f) \in AllFields(s)
      BY <3>1, <3>2 DEF FieldOf, PermissionFlags
    <3> QED
      BY <2>4, <2>5, <3>2, <3>3 DEF FlagsFit, s
  <2> QED
    BY <2>2, <2>6, <2>7, <2>8, <2>9
<1>21. CASE p = <<CompareArgs, CompareBuilders>>
  <2>1. /\ c \in DOMAIN CompareArgs
        /\ ArgsOf(c) = CompareArgs[c]
        /\ c \in DOMAIN CompareBuilders
        /\ b = CompareBuilders[c]
    BY <1>1, <1>21
  <2>2. \/ c = "Report" /\ s = "CompareOptions"
        \/ c = "VisualDiff" /\ s = "VisualDiffOptions"
    <3>1. c \in {"Report", "VisualDiff"}
      BY <2>1, BuilderDomains DEF CompareArgs
    <3> QED
      BY <2>1, <3>1 DEF CompareBuilders, Builds, StructOf, Variants, CompareVariants
  <2> HIDE DEF s
  <2>3. Structs[s] = CompareStructs[s]
    BY <2>2, StructsAre DEF OptionTables, CompareStructs
  <2>4. ArgsOf(c).required \cup ArgsOf(c).optional \subseteq b.passes
    BY <2>1 DEF CompareArgs, CompareBuilders, Builds, Args
  <2>5. b.sets \subseteq AllFields(s)
    BY <2>1, <2>2, <2>3 DEF AllFields, CompareBuilders, Builds,
       CompareStructs, Struct
  <2>6. b.passes \subseteq AllFields(s)
    BY <2>1, <2>2, <2>3 DEF AllFields, CompareBuilders, Builds,
       CompareStructs, Struct
  <2>7. Structs[s].required \subseteq b.sets \cup ArgsOf(c).required
    BY <2>1, <2>2, <2>3 DEF CompareArgs, CompareBuilders, Builds, Args,
       CompareStructs, Struct
  <2>8. b.passes \cap FoldedFlags = {}
    BY <2>1, <2>2 DEF CompareBuilders, Builds, PermissionFlags, FoldedFlags
  <2> QED
    BY <2>4, <2>5, <2>6, <2>7, <2>8, PlainFlagsFit DEF s
<1> QED
  BY <1>1, <1>2, <1>3, <1>4, <1>5, <1>6, <1>7, <1>8, <1>9, <1>10, <1>11, <1>12, <1>13, <1>14,
     <1>15, <1>16, <1>17, <1>18, <1>19, <1>20, <1>21 DEF TablePairs

-----------------------------------------------------------------------------
(* What a call has become once its workflow stands.                         *)

SingleRefs == [i \in DOMAIN call.files |-> <<"i", i>>]
SingleWorkflow ==
    [inputs |-> SingleRefs, tasks |-> <<[id |-> <<"t", 0>>, inputs |-> SingleRefs]>>,
     outputs |-> WebOutputs(<<"t", 0>>), zero_limit |-> FALSE,
     max_tasks |-> DEFAULT_MAX_WORKFLOW_TASKS]
StepsWorkflow ==
    [inputs |-> load_file_bytes(call.tasks),
     tasks |-> [t \in DOMAIN call.tasks |-> [id |-> <<"t", t>>, inputs |-> StepInputs(t)]],
     outputs |-> WebOutputs(<<"t", Len(call.tasks)>>), zero_limit |-> FALSE,
     max_tasks |-> DEFAULT_MAX_WORKFLOW_TASKS]

BuiltCommand ==
    /\ ~RefusesOperands(call.command, call.operands)
    /\ PasswordsResolve(call.command, call.flags)
    /\ workflow = workflow_from_specs(call.command, call.operands)
    /\ ops = <<BuiltOperator(call.command, call.flags)>>
BuiltRun ==
    /\ Parses(call.content) /\ workflow = call.content.workflow
    /\ ops = [t \in DOMAIN call.content.defs |-> FromDef(call.content.defs[t])]
BuiltSingle ==
    /\ validate_single_request /\ WebOps[1] # Refused
    /\ workflow = SingleWorkflow /\ ops = WebOps
BuiltSteps ==
    /\ validate_workflow_request /\ GoodSteps
    /\ workflow = StepsWorkflow /\ ops = WebOps
BuiltInv ==
    Built =>
        /\ call.door = "command" => BuiltCommand
        /\ call.door = "run" => BuiltRun
        /\ call.door = "single" => BuiltSingle
        /\ call.door = "steps" => BuiltSteps

LEMMA BuiltKeeps ==
    ASSUME CallKept, BuiltInv, UNCHANGED <<call, workflow, ops>>, Built' => Built
    PROVE  BuiltInv'
<1> USE DEF WebOps, StepInputs
<1>1. BuiltCommand' = BuiltCommand
  BY DEF BuiltCommand
<1>2. BuiltRun' = BuiltRun
  BY DEF BuiltRun, Parses
<1>3. BuiltSingle' = BuiltSingle
  BY DEF BuiltSingle, SingleWorkflow, SingleRefs, validate_single_request
<1>4. BuiltSteps' = BuiltSteps
  BY DEF BuiltSteps, StepsWorkflow, validate_workflow_request, GoodSteps
<1> QED
  BY <1>1, <1>2, <1>3, <1>4 DEF BuiltInv

LEMMA BuiltStays == CallKept /\ BuiltInv /\ [FrontNext]_frontVars => BuiltInv'
<1> SUFFICES ASSUME CallKept, BuiltInv, [FrontNext]_frontVars PROVE BuiltInv'
  OBVIOUS
<1>1. CASE stdin_for_args
  BY <1>1 DEF stdin_for_args, BuiltInv, Built
<1>2. CASE FileChanges
  BY <1>2 DEF FileChanges, At, BuiltInv, Built
<1>3. CASE BuildCommand
  BY <1>3 DEF BuildCommand, Build, At, BuiltInv, BuiltCommand
<1>4. CASE RefuseCommand
  BY <1>4 DEF RefuseCommand, Refuse, BuiltInv, Built
<1>5. CASE BuildRun
  BY <1>5 DEF BuildRun, Build, At, BuiltInv, BuiltRun, TakesDashes, Parses
<1>6. CASE RefuseRun
  BY <1>6 DEF RefuseRun, Refuse, BuiltInv, Built
<1>7. CASE load_inputs
  BY <1>7, BuiltKeeps DEF load_inputs, Built, validationVars
<1>8. CASE api_execute_single
  BY <1>8 DEF api_execute_single, At, BuiltInv, BuiltSingle, SingleWorkflow, SingleRefs, WebOps,
     validate_single_request, WebOutputs
<1>9. CASE api_execute_workflow
  BY <1>9 DEF api_execute_workflow, At, BuiltInv, BuiltSteps, StepsWorkflow, StepInputs, WebOps,
     validate_workflow_request, GoodSteps
<1>10. CASE RefuseRequest
  BY <1>10 DEF RefuseRequest, Refuse, BuiltInv, Built
<1>11. CASE AcceptLoaded
  BY <1>11, BuiltKeeps DEF AcceptLoaded, Accept, Built
<1>12. CASE RejectLoaded
  BY <1>12, BuiltKeeps DEF RejectLoaded, Reject, Built
<1>13. CASE RunTask
  BY <1>13, BuiltKeeps DEF RunTask, Built, validationVars
<1>14. CASE TaskFails
  BY <1>14, BuiltKeeps DEF TaskFails, Unfinished, Built, validationVars
<1>15. CASE UNCHANGED frontVars
  BY <1>15, BuiltKeeps DEF frontVars, Built, validationVars
<1> QED
  BY <1>1, <1>2, <1>3, <1>4, <1>5, <1>6, <1>7, <1>8, <1>9, <1>10, <1>11, <1>12, <1>13, <1>14,
     <1>15 DEF FrontNext

-----------------------------------------------------------------------------
(* Validation and the tasks that run.                                       *)

\* Once loaded, a workflow is one, and its answer and plan are those of the
\* checks.
Validated ==
    /\ stage \in {"accepted", "failed"} => rejection = "none"
    /\ stage = "rejected" => rejection \notin {"none", "pending"}
    /\ stage \notin {"accepted", "failed", "rejected"} => rejection = "pending"
    /\ rejection # "pending" => rejection = Rejection(workflow)
    /\ rejection = "none" => plan = ExecutionPlan(workflow)
RunInv ==
    /\ done \in Nat
    /\ stage = "failed" => done < Len(plan.task_order) /\ ~Runs(ops[NextTask], NextKinds)
    /\ done = 0 /\ call.door = "command" /\ stage \in {"loaded", "accepted", "failed"} =>
        kinds = [ref \in ToSet(workflow.inputs) |-> "Bytes"]
FrontInv == CallKept /\ BuiltInv /\ Validated /\ RunInv

LEMMA NextKept ==
    ASSUME UNCHANGED <<workflow, plan, ops, kinds, done>>
    PROVE  /\ NextTask' = NextTask /\ NextKinds' = NextKinds
           /\ Runs(ops[NextTask], NextKinds)' = Runs(ops[NextTask], NextKinds)
<1>1. NextTask' = NextTask
  BY DEF NextTask
<1>2. NextKinds' = NextKinds
  BY <1>1 DEF NextKinds
<1> QED
  BY <1>1, <1>2

LEMMA RunsOn == FrontInv /\ [FrontNext]_frontVars => Validated' /\ RunInv'
<1> SUFFICES ASSUME FrontInv, [FrontNext]_frontVars PROVE Validated' /\ RunInv'
  OBVIOUS
<1> USE DEF FrontInv, validationVars, CliDoors
<1>1. CASE stdin_for_args
  BY <1>1 DEF stdin_for_args, Validated, RunInv
<1>2. CASE FileChanges
  BY <1>2 DEF FileChanges, At, Validated, RunInv
<1>3. CASE BuildCommand
  BY <1>3 DEF BuildCommand, Build, At, Validated, RunInv
<1>4. CASE RefuseCommand
  BY <1>4 DEF RefuseCommand, Refuse, At, Validated, RunInv
<1>5. CASE BuildRun
  BY <1>5 DEF BuildRun, Build, At, Validated, RunInv
<1>6. CASE RefuseRun
  BY <1>6 DEF RefuseRun, Refuse, At, Validated, RunInv
<1>7. CASE load_inputs
  BY <1>7 DEF load_inputs, Validated, RunInv
<1>8. CASE api_execute_single
  BY <1>8 DEF api_execute_single, At, Validated, RunInv
<1>9. CASE api_execute_workflow
  BY <1>9 DEF api_execute_workflow, At, Validated, RunInv
<1>10. CASE RefuseRequest
  BY <1>10 DEF RefuseRequest, Refuse, At, Validated, RunInv
<1>11. CASE AcceptLoaded
  BY <1>11 DEF AcceptLoaded, Accept, Validated, RunInv
<1>12. CASE RejectLoaded
  <2>1. Rejection(workflow) # "pending"
    BY DEF Rejection
  <2> QED
    BY <1>12, <2>1 DEF RejectLoaded, Reject, Validated, RunInv
<1>13. CASE RunTask
  <2>1. done' \in Nat /\ done' # 0
    BY <1>13 DEF RunTask, RunInv
  <2> QED
    BY <1>13, <2>1 DEF RunTask, Unfinished, Validated, RunInv
<1>14. CASE TaskFails
  <2>1. UNCHANGED <<workflow, plan, ops, kinds, done>>
    BY <1>14 DEF TaskFails
  <2>2. ~Runs(ops[NextTask], NextKinds)'
    BY <1>14, <2>1, NextKept DEF TaskFails
  <2> QED
    BY <1>14, <2>2 DEF TaskFails, Unfinished, Validated, RunInv
<1>15. CASE UNCHANGED frontVars
  <2>1. UNCHANGED <<workflow, plan, ops, kinds, done>>
    BY <1>15 DEF frontVars
  <2>2. Runs(ops[NextTask], NextKinds)' = Runs(ops[NextTask], NextKinds)
    BY <2>1, NextKept
  <2> QED
    BY <1>15, <2>2 DEF frontVars, Validated, RunInv
<1> QED
  BY <1>1, <1>2, <1>3, <1>4, <1>5, <1>6, <1>7, <1>8, <1>9, <1>10, <1>11, <1>12, <1>13, <1>14,
     <1>15 DEF FrontNext

LEMMA FrontHolds == FrontSpec => []FrontInv
<1>1. FrontInit => FrontInv
  <2> SUFFICES ASSUME FrontInit PROVE FrontInv
    OBVIOUS
  <2>1. IsCall(call)
    BY CallsAssumption, PlainRunIsCall DEF FrontInit, IsCall
  <2> QED
    BY <2>1 DEF FrontInit, FrontInv, CallKept, FrontStages, BuiltInv, Built, Validated, RunInv
<1>2. FrontInv /\ [FrontNext]_frontVars => FrontInv'
  BY CallStays, BuiltStays, RunsOn DEF FrontInv
<1> QED
  BY <1>1, <1>2, PTL DEF FrontSpec

-----------------------------------------------------------------------------
(* Workflow files.                                                          *)

LEMMA FileOps ==
    ASSUME IsContent(call.content), BuiltRun, NEW t \in DOMAIN ops
    PROVE  /\ t \in DOMAIN call.content.defs /\ IsDef(call.content.defs[t])
           /\ ops[t] = FromDef(call.content.defs[t]) /\ FromDef(call.content.defs[t]) # Refused
<1>1. t \in DOMAIN call.content.defs /\ ops[t] = FromDef(call.content.defs[t])
  BY DEF BuiltRun
<1> QED
  BY <1>1 DEF IsContent, BuiltRun, Parses

LEMMA BuiltOperatorsAreProper ==
    ASSUME FrontInv, call.door \in CliDoors, Built, NEW t \in DOMAIN ops
    PROVE  ProperOperator(ops[t])
<1>1. CASE call.door = "command"
  <2>1. IsCommand(call) /\ BuiltCommand
    BY <1>1 DEF FrontInv, CallKept, BuiltInv, IsCall, IsCommandCall, IsRunCall, IsWebCall
  <2>2. ops[t] = BuiltOperator(call.command, call.flags)
    BY <2>1 DEF BuiltCommand
  <2>3. call.command \in CommandNames
    BY <2>1 DEF IsCommand
  <2> QED
    BY <2>2, <2>3, BuiltIsProper
<1>2. CASE call.door = "run"
  <2>1. IsContent(call.content) /\ BuiltRun
    BY <1>2 DEF FrontInv, CallKept, BuiltInv, IsCall, IsCommandCall, IsRunCall, IsWebCall
  <2> QED
    BY <2>1, FileOps, FileOperator
<1> QED
  BY <1>1, <1>2 DEF CliDoors

LEMMA FilesSurvive ==
    ASSUME FrontInv
    PROVE  SurvivesWorkflowFile
<1> SUFFICES ASSUME call.door \in CliDoors, Built, NEW t \in DOMAIN ops
             PROVE  /\ FromDef(ToDef(ops[t])) = ops[t]
                    /\ ops[t].family = "PdfSign" => ops[t].kind \in {"none", ops[t].name}
                    /\ call.door = "run" =>
                        \A f \in DOMAIN call.content.defs[t] : \A e \in call.content.defs[t][f] :
                            ops[t].name = e.name /\ ops[t].given = e.given
  BY DEF SurvivesWorkflowFile
<1>1. ProperOperator(ops[t])
  BY BuiltOperatorsAreProper
<1>2. FromDef(ToDef(ops[t])) = ops[t]
  BY <1>1, RoundTrip
<1>3. ops[t].family = "PdfSign" => ops[t].kind \in {"none", ops[t].name}
  BY <1>1 DEF ProperOperator
<1>4. ASSUME call.door = "run"
      PROVE  \A f \in DOMAIN call.content.defs[t] : \A e \in call.content.defs[t][f] :
                 ops[t].name = e.name /\ ops[t].given = e.given
  <2>1. IsContent(call.content) /\ BuiltRun
    BY <1>4 DEF FrontInv, CallKept, BuiltInv, IsCall, IsCommandCall, IsRunCall, IsWebCall
  <2> QED
    BY <2>1, FileOps, FileOperator
<1> QED
  BY <1>2, <1>3, <1>4

\* The operator of every command and of every workflow file, with whatever
\* options, reads back from its serialised form as it was, and a file's operator
\* has the name and the options that the file gives it.
THEOREM OperatorsSurviveFiles == FrontSpec => []SurvivesWorkflowFile
BY FrontHolds, FilesSurvive, PTL

-----------------------------------------------------------------------------
(* Flags and options.                                                       *)

LEMMA OptionsReach ==
    ASSUME FrontInv
    PROVE  OptionsReachOperator
<1> SUFFICES ASSUME call.door = "command", Built
             PROVE  /\ {FieldOf(f) : f \in call.flags} \subseteq ops[1].given
                    /\ ops[1].given \subseteq FieldsOf(ops[1])
                    /\ RequiredOf(ops[1]) \subseteq ops[1].given
  BY DEF OptionsReachOperator
<1>1. IsCommand(call) /\ BuiltCommand
  BY DEF FrontInv, CallKept, BuiltInv, IsCall, IsCommandCall, IsRunCall, IsWebCall
<1> DEFINE a == ArgsOf(call.command)
           b == BuilderOf(call.command)
           s == StructOf(b.family, b.name)
           op == ops[1]
<1>2. /\ a.required \subseteq call.flags
      /\ call.flags \subseteq a.required \cup a.optional
  BY <1>1 DEF IsCommand
<1>3. FlagsFit(call.command)
  BY <1>1, CommandsFit DEF IsCommand
<1>4. /\ a.required \cup a.optional \subseteq b.passes
      /\ b.sets \subseteq AllFields(s) /\ \A f \in b.passes : FieldOf(f) \in AllFields(s)
      /\ Structs[s].required \subseteq b.sets \cup {FieldOf(f) : f \in a.required}
  BY <1>3 DEF FlagsFit
<1>5. /\ op.family = b.family /\ op.name = b.name
      /\ op.given = b.sets \cup {FieldOf(f) : f \in call.flags \cap b.passes}
  BY <1>1 DEF BuiltCommand, BuiltOperator, Operator
<1>6. FieldsOf(op) = AllFields(s) /\ RequiredOf(op) = Structs[s].required
  BY <1>5 DEF FieldsOf, RequiredOf, AllFields
<1> HIDE DEF a, b, s, op
<1>7. \A f \in call.flags : FieldOf(f) \in op.given
  BY <1>2, <1>4, <1>5
<1>8. op.given \subseteq FieldsOf(op)
  BY <1>4, <1>5, <1>6
<1>9. RequiredOf(op) \subseteq op.given
  <2>1. \A f \in a.required : FieldOf(f) \in op.given
    BY <1>2, <1>7
  <2> QED
    BY <1>4, <1>5, <1>6, <2>1
<1> QED
  BY <1>7, <1>8, <1>9 DEF op

\* Every flag that the parser lets through reaches the operator as one of its
\* options, and the operator misses none that it requires.
THEOREM FlagsReachOperators == FrontSpec => []OptionsReachOperator
BY FrontHolds, OptionsReach, PTL

-----------------------------------------------------------------------------
(* The workflows that the program builds itself are valid.                  *)

\* Ids of three kinds that cannot be confused, and tasks that read inputs and
\* earlier tasks.
LEMMA InOrderIsAccepted ==
    ASSUME IsWorkflow(workflow), ~workflow.zero_limit,
           Len(workflow.tasks) <= workflow.max_tasks,
           NEW I, NEW T, NEW O, I \cap T = {}, I \cap O = {}, T \cap O = {},
           EmptyId \notin I \cup T \cup O,
           \A i \in Numbers(workflow.inputs) : workflow.inputs[i] \in I,
           \A i, j \in Numbers(workflow.inputs) :
               workflow.inputs[i] = workflow.inputs[j] => i = j,
           \A t \in TaskNumbers : workflow.tasks[t].id \in T,
           \A t, d \in TaskNumbers : workflow.tasks[t].id = workflow.tasks[d].id => t = d,
           \A o \in Numbers(workflow.outputs) : workflow.outputs[o].id \in O,
           \A o, p \in Numbers(workflow.outputs) :
               workflow.outputs[o].id = workflow.outputs[p].id => o = p,
           \A o \in Numbers(workflow.outputs) :
               \E t \in TaskNumbers : workflow.outputs[o].from = workflow.tasks[t].id,
           \A t \in TaskNumbers :
               /\ Len(workflow.tasks[t].inputs) > 0
               /\ \A i \in Numbers(workflow.tasks[t].inputs) :
                      \/ \E k \in Numbers(workflow.inputs) :
                             workflow.tasks[t].inputs[i] = workflow.inputs[k]
                      \/ \E d \in TaskNumbers :
                             d < t /\ workflow.tasks[t].inputs[i] = workflow.tasks[d].id
    PROVE  Rejection(workflow) = "none"
<1> DEFINE w == workflow
           ids == DeclaredIds(w)
<1>1. PICK n, m, k \in Nat :
        /\ Numbers(w.inputs) = 1..n /\ TaskNumbers = 1..m /\ Numbers(w.outputs) = 1..k
        /\ Numbers(ids) = 1..(n + m + k)
        /\ \A i \in 1..n : ids[i] = w.inputs[i]
        /\ \A t \in 1..m : ids[n + t] = w.tasks[t].id
        /\ \A o \in 1..k : ids[n + m + o] = w.outputs[o].id
  BY DeclaredIdsAre DEF TaskNumbers
<1>9. /\ \A i, j \in 1..n : w.inputs[i] = w.inputs[j] => i = j
      /\ \A o, p \in 1..k : w.outputs[o].id = w.outputs[p].id => o = p
  BY <1>1
<1> HIDE DEF ids
<1>2. ASSUME NEW i \in 1..(n + m + k)
      PROVE  \/ i \in 1..n /\ ids[i] = w.inputs[i] /\ ids[i] \in I
             \/ \E t \in 1..m : i = n + t /\ ids[i] = w.tasks[t].id /\ ids[i] \in T
             \/ \E o \in 1..k : i = n + m + o /\ ids[i] = w.outputs[o].id /\ ids[i] \in O
  <2>1. CASE i <= n
    BY <1>1, <2>1
  <2>2. CASE n < i /\ i <= n + m
    <3>1. PICK t \in 1..m : i = n + t
      <4>1. i - n \in 1..m /\ i = n + (i - n)
        BY <2>2
      <4> QED
        BY <4>1
    <3>2. ids[n + t] = w.tasks[t].id /\ w.tasks[t].id \in T
      BY <1>1
    <3> QED
      BY <3>1, <3>2
  <2>3. CASE n + m < i
    <3>1. PICK o \in 1..k : i = n + m + o
      <4>1. i - (n + m) \in 1..k /\ i = n + m + (i - (n + m))
        BY <2>3
      <4> QED
        BY <4>1
    <3>2. ids[n + m + o] = w.outputs[o].id /\ w.outputs[o].id \in O
      BY <1>1
    <3> QED
      BY <3>1, <3>2
  <2> QED
    BY <2>1, <2>2, <2>3
<1>3. ASSUME NEW i \in 1..(n + m + k), NEW j \in 1..(n + m + k), ids[i] = ids[j] PROVE i = j
  <2>1. CASE i \in 1..n
    <3>1. ids[i] \in I /\ ids[i] = w.inputs[i]
      BY <1>1, <2>1
    <3>2. j \in 1..n /\ ids[j] = w.inputs[j]
      BY <1>2, <1>3, <3>1
    <3> QED
      BY <1>9, <1>3, <2>1, <3>1, <3>2
  <2>2. CASE \E t \in 1..m : i = n + t /\ ids[i] = w.tasks[t].id /\ ids[i] \in T
    <3>1. PICK t \in 1..m : i = n + t /\ ids[i] = w.tasks[t].id /\ ids[i] \in T
      BY <2>2
    <3>2. PICK d \in 1..m : j = n + d /\ ids[j] = w.tasks[d].id
      BY <1>2, <1>3, <3>1
    <3>3. t = d
      BY <1>1, <1>3, <3>1, <3>2
    <3> QED
      BY <3>1, <3>2, <3>3
  <2>3. CASE \E o \in 1..k : i = n + m + o /\ ids[i] = w.outputs[o].id /\ ids[i] \in O
    <3>1. PICK o \in 1..k : i = n + m + o /\ ids[i] = w.outputs[o].id /\ ids[i] \in O
      BY <2>3
    <3>2. PICK p \in 1..k : j = n + m + p /\ ids[j] = w.outputs[p].id
      BY <1>2, <1>3, <3>1
    <3>3. o = p
      BY <1>9, <1>3, <3>1, <3>2
    <3> QED
      BY <3>1, <3>2, <3>3
  <2> QED
    BY <1>2, <2>1, <2>2, <2>3
<1>4. ASSUME NEW i \in 1..(n + m + k) PROVE ids[i] # EmptyId
  BY <1>2
<1>5. ASSUME NEW S \in SUBSET TaskNumbers, S # {}
      PROVE  \E t \in S : \A d \in S : ~ReadsFrom(t, d)
  <2>1. PICK t \in S : \A d \in S : t <= d
    BY <1>1, <1>5, LeastNumber
  <2>2. ASSUME NEW d \in S, ReadsFrom(t, d) PROVE FALSE
    <3>1. PICK i \in Numbers(w.tasks[t].inputs) : w.tasks[t].inputs[i] = w.tasks[d].id
      BY <2>2 DEF ReadsFrom
    <3>2. w.tasks[d].id \in T /\ w.tasks[d].id \notin I
      OBVIOUS
    <3>3. PICK e \in TaskNumbers : e < t /\ w.tasks[t].inputs[i] = w.tasks[e].id
      BY <3>1, <3>2
    <3>4. e = d
      <4>1. w.tasks[e].id = w.tasks[d].id /\ d \in TaskNumbers
        BY <3>1, <3>3
      <4> QED
        BY <4>1
    <3>5. t \in 1..m /\ d \in 1..m
      BY <1>1
    <3> QED
      BY <2>1, <3>3, <3>4, <3>5
  <2> QED
    BY <2>2
<1>6. \A i, j \in Numbers(DeclaredIds(w)) : DeclaredIds(w)[i] = DeclaredIds(w)[j] => i = j
  BY <1>1, <1>3 DEF ids
<1>7. \A i \in Numbers(DeclaredIds(w)) : DeclaredIds(w)[i] # EmptyId
  BY <1>1, <1>4 DEF ids
<1>8. WellFormed
  BY <1>5, <1>6, <1>7 DEF WellFormed
<1> QED
  BY <1>8, AcceptedIsWellFormed

\* The task_order of an accepted workflow counts every task once.
LEMMA OrderIsWhole ==
    ASSUME IsWorkflow(workflow), Rejection(workflow) = "none", plan = ExecutionPlan(workflow)
    PROVE  /\ Len(plan.task_order) = Len(workflow.tasks)
           /\ \A k \in Numbers(plan.task_order) : plan.task_order[k] \in TaskNumbers
<1> DEFINE order == plan.task_order
<1>1. Lists(order, TaskNumbers)
  BY AcceptedPass DEF RoundInv, ExecutionPlan, TaskNumbers
<1>2. Cardinality(TaskNumbers) = Len(order)
  BY <1>1, ListLength
<1>3. Len(workflow.tasks) \in Nat
  BY ListDomain DEF IsWorkflow, TasksAreLists
<1>4. Cardinality(TaskNumbers) = Len(workflow.tasks)
  BY <1>3, FS_Interval DEF TaskNumbers, Numbers
<1>5. \A k \in Numbers(order) : order[k] \in TaskNumbers
  BY <1>1 DEF Lists, Elements
<1> QED
  BY <1>2, <1>4, <1>5

-----------------------------------------------------------------------------
(* What a command runs on.                                                  *)

InputNames ==
    {"input", "attachment", "input_0", "input_1", "input_2", "left", "right", "watermark_input"}

\* How many inputs the workflow of a command has.
InputsFit(command, n) ==
    /\ command = "Merge" => n >= 2
    /\ command \in {"WatermarkImage", "WatermarkSvg", "Report", "VisualDiff", "AttachAdd",
                    "OverlayPdf", "ImageAdd", "ImageReplace"} => n = 2
    /\ command \notin {"Merge", "Img2pdf", "WatermarkImage", "WatermarkSvg", "Report",
                       "VisualDiff", "AttachAdd", "OverlayPdf", "ImageAdd", "ImageReplace"}
           => n = 1

LEMMA CommandInputs ==
    ASSUME NEW c, IsCommand(c), NEW ids,
           ids = InputIds(c.command, Len(InputOperands(c.command, c.operands)))
    PROVE  \E n \in 1..3 :
           /\ ids \in Seq(InputNames) /\ Len(ids) = n /\ DOMAIN ids = 1..n
           /\ InputsFit(c.command, n)
           /\ \A i, j \in 1..n : ids[i] = ids[j] => i = j
<1>1. PICK n \in 1..3 :
        /\ n \in ArgsOf(c.command).operands /\ c.command \in CommandNames
        /\ c.operands \in Seq({"file", "-"}) /\ Len(c.operands) = n
  BY OperandsAre
<1>2. /\ n = 2 => c.command \in PairCommands \cup {"Merge"}
      /\ n = 3 => c.command = "Merge"
      /\ c.command \in {"Merge", "Report", "VisualDiff", "AttachAdd", "OutlineSet", "OverlayPdf",
                        "ImageAdd", "ImageReplace"} => n >= 2
  BY <1>1, OperandCounts
<1>3. Len(InputOperands(c.command, c.operands)) =
          IF c.command \in {"OutlineSet", "WatermarkText"} THEN 1 ELSE n
  BY <1>1 DEF InputOperands
<1>4. CASE c.command \in {"Merge", "Img2pdf"}
  <2> DEFINE all == <<"input_0", "input_1", "input_2">>
  <2>1. ids = SubSeq(all, 1, n)
    BY <1>3, <1>4 DEF InputIds, multi_input_workflow
  <2>2. all \in Seq(InputNames) /\ Len(all) = 3 /\ \A i, j \in 1..3 : all[i] = all[j] => i = j
    BY DEF InputNames
  <2> HIDE DEF all
  <2>3. Len(ids) = n /\ DOMAIN ids = 1..n /\ \A i \in 1..n : ids[i] = all[i]
    BY <2>1, <2>2
  <2>4. ids \in Seq(InputNames)
    BY <2>1, <2>2
  <2>5. \A i, j \in 1..n : ids[i] = ids[j] => i = j
    BY <2>2, <2>3
  <2> QED
    BY <1>2, <1>4, <2>3, <2>4, <2>5 DEF InputsFit
<1>5. CASE c.command \in {"Report", "VisualDiff"}
  <2>1. ids = <<"left", "right">>
    BY <1>5 DEF InputIds
  <2> QED
    BY <1>5, <2>1 DEF InputNames, InputsFit
<1>6. CASE c.command \in {"WatermarkImage", "WatermarkSvg"}
  <2>1. ids = <<"input", "watermark_input">>
    BY <1>6 DEF InputIds
  <2> QED
    BY <1>6, <2>1 DEF InputNames, InputsFit
<1>7. CASE c.command \in {"AttachAdd", "OverlayPdf", "ImageAdd", "ImageReplace"}
  <2>1. n = 2
    BY <1>2, <1>7
  <2>2. ids = <<"input", "attachment">>
    BY <1>3, <1>7, <2>1 DEF InputIds, two_input_workflow
  <2> QED
    BY <1>7, <2>2 DEF InputNames, InputsFit
<1>8. CASE c.command \notin {"Merge", "Img2pdf", "WatermarkImage", "WatermarkSvg", "Report",
                             "VisualDiff", "AttachAdd", "OverlayPdf", "ImageAdd", "ImageReplace"}
  <2>1. Len(InputOperands(c.command, c.operands)) = 1
    BY <1>2, <1>3, <1>8 DEF PairCommands
  <2>2. ids = <<"input">>
    BY <1>8, <2>1 DEF InputIds, one_input_workflow
  <2> QED
    BY <1>8, <2>2 DEF InputNames, InputsFit
<1> QED
  BY <1>4, <1>5, <1>6, <1>7, <1>8

\* No task is named like an input or the output.
LEMMA TaskNames ==
    ASSUME NEW c \in CommandNames
    PROVE  BuilderOf(c).task \notin InputNames \cup {"output"}
<1>1. PICK t \in BuilderTables : c \in DOMAIN t /\ BuilderOf(c) = t[c]
  BY CommandsHaveTables, BuildersAre
<1>2. CASE t = PageBuilders
  BY <1>1, <1>2 DEF InputNames, PageBuilders, Builds, Edits
<1>3. CASE t = LayoutBuilders
  BY <1>1, <1>3 DEF InputNames, LayoutBuilders, Builds, Edits
<1>4. CASE t = ConversionBuilders
  BY <1>1, <1>4 DEF InputNames, ConversionBuilders, Builds, Edits
<1>5. CASE t = CompressionBuilders
  BY <1>1, <1>5 DEF InputNames, CompressionBuilders, Builds, Edits
<1>6. CASE t = InspectBuilders
  BY <1>1, <1>6 DEF InputNames, InspectBuilders, Builds, Inspects
<1>7. CASE t = CompareBuilders
  BY <1>1, <1>7 DEF InputNames, CompareBuilders, Builds
<1>8. CASE t = MetadataBuilders
  BY <1>1, <1>8 DEF InputNames, MetadataBuilders, Builds, Edits, Inspects
<1>9. CASE t = OutlineBuilders
  BY <1>1, <1>9 DEF InputNames, OutlineBuilders, Builds, Edits, Inspects
<1>10. CASE t = AttachBuilders
  BY <1>1, <1>10 DEF InputNames, AttachBuilders, Builds, Edits, Inspects
<1>11. CASE t = AnnotFormBuilders
  BY <1>1, <1>11 DEF InputNames, AnnotFormBuilders, Builds, Edits, Inspects
<1>12. CASE t = ImageBuilders
  BY <1>1, <1>12 DEF InputNames, ImageBuilders, Builds, Edits, Inspects
<1>13. CASE t = ColorBuilders
  BY <1>1, <1>13 DEF InputNames, ColorBuilders, Builds, Edits
<1>14. CASE t = SignBuilders
  BY <1>1, <1>14 DEF InputNames, SignBuilders, Builds, Signs
<1>15. CASE t = MarkBuilders
  BY <1>1, <1>15 DEF InputNames, MarkBuilders, Builds
<1>16. CASE t = SecurityBuilders
  BY <1>1, <1>16 DEF InputNames, SecurityBuilders, Builds, Secures
<1> QED
  BY <1>1, <1>2, <1>3, <1>4, <1>5, <1>6, <1>7, <1>8, <1>9, <1>10, <1>11, <1>12, <1>13, <1>14,
     <1>15, <1>16 DEF BuilderTables

LEMMA CommandAccepted ==
    ASSUME call.door = "command", IsCommand(call), BuiltCommand
    PROVE  /\ IsWorkflow(workflow) /\ Rejection(workflow) = "none"
           /\ Len(workflow.tasks) = 1
<1> DEFINE ids == InputIds(call.command, Len(InputOperands(call.command, call.operands)))
           task == BuilderOf(call.command).task
<1>1. PICK n \in 1..3 :
        /\ ids \in Seq(InputNames) /\ Len(ids) = n /\ DOMAIN ids = 1..n
        /\ \A i, j \in 1..n : ids[i] = ids[j] => i = j
  BY CommandInputs
<1>2. task \notin InputNames /\ task # "output" /\ "output" \notin InputNames
  BY TaskNames DEF IsCommand, InputNames
<1>3. EmptyId \notin InputNames \cup {task} \cup {"output"}
  <2>1. call.command \in CommandNames
    BY DEF IsCommand
  <2> QED
    BY <2>1, MadeUpIdsAssumption DEF MadeUpIds, InputNames
<1> HIDE DEF ids, task
<1>4. /\ workflow.inputs = ids /\ workflow.tasks = <<[id |-> task, inputs |-> ids]>>
      /\ workflow.outputs = <<[id |-> "output", from |-> task]>>
      /\ workflow.zero_limit = FALSE /\ workflow.max_tasks = 256
  BY DEF BuiltCommand, workflow_from_specs, DEFAULT_MAX_WORKFLOW_TASKS, ids, task
<1>5. /\ Numbers(workflow.inputs) = 1..n /\ TaskNumbers = {1} /\ Numbers(workflow.outputs) = {1}
      /\ workflow.tasks[1].id = task /\ workflow.tasks[1].inputs = ids
      /\ workflow.outputs[1].id = "output" /\ workflow.outputs[1].from = task
      /\ Len(workflow.tasks) = 1
  BY <1>1, <1>4 DEF Numbers, TaskNumbers
<1>6. IsWorkflow(workflow)
  <2>1. ids \in Seq(Range(ids))
    BY <1>1 DEF Range
  <2>2. workflow.tasks \in Seq(Range(workflow.tasks))
    BY <1>4 DEF Range
  <2>3. workflow.outputs \in Seq(Range(workflow.outputs))
    BY <1>4 DEF Range
  <2>4. \A t \in Numbers(workflow.tasks) : workflow.tasks[t].inputs = ids
    BY <1>5 DEF TaskNumbers
  <2>5. IsSequence(workflow.inputs) /\ IsSequence(workflow.tasks) /\ IsSequence(workflow.outputs)
    BY <1>4, <2>1, <2>2, <2>3 DEF IsSequence
  <2>6. \A t \in Numbers(workflow.tasks) : IsSequence(workflow.tasks[t].inputs)
    BY <2>1, <2>4 DEF IsSequence
  <2>7. workflow.zero_limit \in BOOLEAN
    <3>1. workflow.zero_limit = FALSE
      BY <1>4
    <3> QED
      BY <3>1, Zenon
  <2>8. workflow.max_tasks \in Nat
    BY <1>4
  <2> QED
    BY <2>5, <2>6, <2>7, <2>8 DEF IsWorkflow, TasksAreLists
<1>7. \A i \in 1..n : ids[i] \in InputNames
  BY <1>1
<1>8. Rejection(workflow) = "none"
  <2> DEFINE I == InputNames
             T == {task}
             O == {"output"}
  <2>1. I \cap T = {} /\ I \cap O = {} /\ T \cap O = {} /\ EmptyId \notin I \cup T \cup O
    BY <1>2, <1>3
  <2>2. /\ \A i \in Numbers(workflow.inputs) : workflow.inputs[i] \in I
        /\ \A i, j \in Numbers(workflow.inputs) :
               workflow.inputs[i] = workflow.inputs[j] => i = j
    BY <1>1, <1>4, <1>5, <1>7
  <2>3. /\ \A t \in TaskNumbers : workflow.tasks[t].id \in T
        /\ \A t, d \in TaskNumbers : workflow.tasks[t].id = workflow.tasks[d].id => t = d
        /\ \A o \in Numbers(workflow.outputs) : workflow.outputs[o].id \in O
        /\ \A o, p \in Numbers(workflow.outputs) :
               workflow.outputs[o].id = workflow.outputs[p].id => o = p
        /\ \A o \in Numbers(workflow.outputs) :
               \E t \in TaskNumbers : workflow.outputs[o].from = workflow.tasks[t].id
    BY <1>5
  <2>4. ASSUME NEW t \in TaskNumbers
        PROVE  /\ Len(workflow.tasks[t].inputs) > 0
               /\ \A i \in Numbers(workflow.tasks[t].inputs) :
                      \E k \in Numbers(workflow.inputs) :
                          workflow.tasks[t].inputs[i] = workflow.inputs[k]
    BY <1>1, <1>4, <1>5 DEF Numbers
  <2>5. ~workflow.zero_limit /\ Len(workflow.tasks) <= workflow.max_tasks
    BY <1>4, <1>5
  <2> HIDE DEF I, T, O
  <2> QED
    BY <1>6, <2>1, <2>2, <2>3, <2>4, <2>5, InOrderIsAccepted
<1> QED
  BY <1>5, <1>6, <1>8

-----------------------------------------------------------------------------
(* The operators that commands build take their inputs.                     *)

\* The commands whose operators ask for more than one document.
DemandingCommands ==
    {"Merge", "Img2pdf", "Svg2pdf", "WatermarkText", "WatermarkImage", "WatermarkSvg", "Stamp",
     "Appearance", "OverlayPdf", "ImageAdd", "ImageReplace", "ImageDelete", "AttachAdd",
     "AttachDelete", "ColorContrast", "ColorInvert", "ColorReplace", "AnnotAdd", "AnnotDelete",
     "OutlineSet", "OutlineDelete", "Encrypt", "PermissionsSet", "Decrypt", "SignAdd",
     "SignDeleteField", "Timestamp", "Report", "VisualDiff", "Compress"}

LEMMA OtherBuilders ==
    ASSUME NEW c \in CommandNames \ DemandingCommands, NEW b, b = BuilderOf(c)
    PROVE  /\ b.family \in {"PdfEdit", "PdfInspect", "PdfSecurity", "PdfSign"}
           /\ b.name \notin {"Merge", "ImageToPdf", "SvgToPdf", "Watermark", "Overlay",
                              "ImageEdit", "Attachment", "Color", "Annotation", "Encrypt",
                              "PermissionsSet", "Decrypt", "DeleteField", "Timestamp",
                              "Compression"}
           /\ b.family = "PdfEdit" => b.name # "Outline"
           /\ b.family = "PdfSign" => b.name # "Add"
<1>1. PICK t \in BuilderTables : c \in DOMAIN t /\ b = t[c]
  BY CommandsHaveTables, BuildersAre
<1>2. CASE t = PageBuilders
  BY <1>1, <1>2 DEF PageBuilders, DemandingCommands, Builds, Edits, Inspects, Signs, Secures
<1>3. CASE t = LayoutBuilders
  BY <1>1, <1>3 DEF LayoutBuilders, DemandingCommands, Builds, Edits, Inspects, Signs, Secures
<1>4. CASE t = ConversionBuilders
  BY <1>1, <1>4 DEF ConversionBuilders, DemandingCommands, Builds, Edits, Inspects, Signs, Secures
<1>5. CASE t = CompressionBuilders
  BY <1>1, <1>5 DEF CompressionBuilders, DemandingCommands, Builds, Edits, Inspects, Signs,
     Secures
<1>6. CASE t = InspectBuilders
  BY <1>1, <1>6 DEF InspectBuilders, DemandingCommands, Builds, Edits, Inspects, Signs, Secures
<1>7. CASE t = CompareBuilders
  BY <1>1, <1>7 DEF CompareBuilders, DemandingCommands, Builds, Edits, Inspects, Signs, Secures
<1>8. CASE t = MetadataBuilders
  BY <1>1, <1>8 DEF MetadataBuilders, DemandingCommands, Builds, Edits, Inspects, Signs, Secures
<1>9. CASE t = OutlineBuilders
  BY <1>1, <1>9 DEF OutlineBuilders, DemandingCommands, Builds, Edits, Inspects, Signs, Secures
<1>10. CASE t = AttachBuilders
  BY <1>1, <1>10 DEF AttachBuilders, DemandingCommands, Builds, Edits, Inspects, Signs, Secures
<1>11. CASE t = AnnotFormBuilders
  BY <1>1, <1>11 DEF AnnotFormBuilders, DemandingCommands, Builds, Edits, Inspects, Signs, Secures
<1>12. CASE t = ImageBuilders
  BY <1>1, <1>12 DEF ImageBuilders, DemandingCommands, Builds, Edits, Inspects, Signs, Secures
<1>13. CASE t = ColorBuilders
  BY <1>1, <1>13 DEF ColorBuilders, DemandingCommands, Builds, Edits, Inspects, Signs, Secures
<1>14. CASE t = SignBuilders
  BY <1>1, <1>14 DEF SignBuilders, DemandingCommands, Builds, Edits, Inspects, Signs, Secures
<1>15. CASE t = MarkBuilders
  BY <1>1, <1>15 DEF MarkBuilders, DemandingCommands, Builds, Edits, Inspects, Signs, Secures
<1>16. CASE t = SecurityBuilders
  BY <1>1, <1>16 DEF SecurityBuilders, DemandingCommands, Builds, Edits, Inspects, Signs, Secures
<1> QED
  BY <1>1, <1>2, <1>3, <1>4, <1>5, <1>6, <1>7, <1>8, <1>9, <1>10, <1>11, <1>12, <1>13, <1>14,
     <1>15, <1>16 DEF BuilderTables

\* What a built operator is made of.
LEMMA BuiltFields ==
    ASSUME NEW c, NEW flags, NEW b, b = BuilderOf(c), NEW op, op = BuiltOperator(c, flags)
    PROVE  /\ op.family = b.family /\ op.name = b.name /\ op.kind = b.kind
           /\ op.given = b.sets \cup {FieldOf(f) : f \in flags \cap b.passes}
BY DEF BuiltOperator, Operator

LEMMA CommandsRun ==
    ASSUME NEW c, IsCommand(c), PasswordsResolve(c.command, c.flags),
           c.command = "WatermarkText" =>
               "text" \in c.flags /\ {"font", "font_path"} \cap c.flags # {},
           c.command = "Timestamp" => "token" \in c.flags /\ "tsa_url" \notin c.flags,
           c.command = "Compress" =>
               (("mode" \in c.flags) <=> (ImageFlags \cap c.flags # {})),
           NEW n \in 1..3, InputsFit(c.command, n), NEW artifacts,
           artifacts = [i \in 1..n |-> "Bytes"]
    PROVE  Runs(BuiltOperator(c.command, c.flags), artifacts)
<1> DEFINE b == BuilderOf(c.command)
           op == BuiltOperator(c.command, c.flags)
<1> SUFFICES Runs(op, artifacts)
  OBVIOUS
<1>1. /\ c.command \in CommandNames /\ ArgsOf(c.command).required \subseteq c.flags
      /\ c.flags \subseteq ArgsOf(c.command).required \cup ArgsOf(c.command).optional
  BY DEF IsCommand
<1>2. /\ op.family = b.family /\ op.name = b.name /\ op.kind = b.kind
      /\ op.given = b.sets \cup {FieldOf(f) : f \in c.flags \cap b.passes}
  BY BuiltFields
<1> HIDE DEF b, op
<1>3. Len(artifacts) = n /\ DOMAIN artifacts = 1..n /\ \A i \in 1..n : artifacts[i] = "Bytes"
  OBVIOUS
<1>4. materialize_object_inputs(artifacts) = artifacts
  BY DEF materialize_object_inputs
<1>5. n = 1 => single_pdf_input_bytes(artifacts) /\ single_pdf_document(artifacts)
  BY <1>3 DEF single_pdf_input_bytes, single_pdf_document, pdf_bytes
<1>6. \A f \in c.flags \cap b.passes : FieldOf(f) \in op.given
  BY <1>2
<1>7. b.sets \subseteq op.given
  BY <1>2
<1>8. CASE c.command = "Merge"
  <2>1. b = PageBuilders.Merge
    BY <1>8, BuildersAre DEF b, BuilderTables, PageBuilders
  <2>2. op.family = "PdfEdit" /\ op.name = "Merge" /\ op.kind = "none"
    BY <1>2, <2>1 DEF PageBuilders, Builds
  <2>3. n >= 2
    BY <1>8 DEF InputsFit
  <2>4. OptionsSuffice(op)
    BY <2>2 DEF OptionsSuffice
  <2>5. run_pdf_edit(op, artifacts)
    BY <1>3, <1>4, <1>5, <2>2, <2>3 DEF run_pdf_edit, merge_artifacts_to_document
  <2> QED
    BY <2>2, <2>4, <2>5 DEF Runs
<1>9. CASE c.command = "Img2pdf"
  <2>1. b = ConversionBuilders.Img2pdf
    BY <1>9, BuildersAre DEF b, BuilderTables, ConversionBuilders
  <2>2. op.family = "PdfEdit" /\ op.name = "ImageToPdf" /\ op.kind = "none"
    BY <1>2, <2>1 DEF ConversionBuilders, Builds, Edits
  <2>3. n >= 1
    BY <1>9 DEF InputsFit
  <2>4. OptionsSuffice(op)
    BY <2>2 DEF OptionsSuffice
  <2>5. run_pdf_edit(op, artifacts)
    BY <1>3, <1>4, <1>5, <2>2, <2>3 DEF run_pdf_edit, image_artifacts_to_pdf, image_bytes
  <2> QED
    BY <2>2, <2>4, <2>5 DEF Runs
<1>10. CASE c.command = "Svg2pdf"
  <2>1. b = ConversionBuilders.Svg2pdf
    BY <1>10, BuildersAre DEF b, BuilderTables, ConversionBuilders
  <2>2. op.family = "PdfEdit" /\ op.name = "SvgToPdf" /\ op.kind = "none"
    BY <1>2, <2>1 DEF ConversionBuilders, Builds, Edits
  <2>3. n = 1
    BY <1>10 DEF InputsFit
  <2>4. OptionsSuffice(op)
    BY <2>2 DEF OptionsSuffice
  <2>5. run_pdf_edit(op, artifacts)
    BY <1>3, <1>4, <1>5, <2>2, <2>3 DEF run_pdf_edit, single_svg_input, svg_bytes
  <2> QED
    BY <2>2, <2>4, <2>5 DEF Runs
<1>11. CASE c.command = "WatermarkText"
  <2>1. b = ConversionBuilders.WatermarkText
    BY <1>11, BuildersAre DEF b, BuilderTables, ConversionBuilders
  <2>2. op.family = "PdfEdit" /\ op.name = "Watermark" /\ op.kind = "Text"
    BY <1>2, <2>1 DEF ConversionBuilders, Builds, Edits
  <2>3. {"text"} \subseteq c.flags
    BY <1>11
  <2>4. {"text"} \subseteq op.given
    <3>1. {"text"} \subseteq b.passes
      BY <2>1 DEF ConversionBuilders, Builds, Edits, WatermarkPasses
    <3>2. FieldOf("text") = "text"
      BY DEF FieldOf, PermissionFlags
    <3> QED
      BY <1>6, <2>3, <3>1, <3>2
  <2>5. {"font", "font_path"} \cap op.given # {}
    <3>1. {"font", "font_path"} \subseteq b.passes
      BY <2>1 DEF ConversionBuilders, Builds, Edits, WatermarkPasses
    <3>2. FieldOf("font") = "font" /\ FieldOf("font_path") = "font_path"
      BY DEF FieldOf, PermissionFlags
    <3> QED
      BY <1>6, <1>11, <3>1, <3>2
  <2>6. n = 1
    BY <1>11 DEF InputsFit
  <2>7. OptionsSuffice(op)
    BY <2>2, <2>4, <2>5 DEF OptionsSuffice
  <2>8. run_pdf_edit(op, artifacts)
    BY <1>3, <1>4, <1>5, <2>2, <2>6, <2>4, <2>5 DEF run_pdf_edit, watermark_pdf_artifacts,
       overlay_pdf_artifacts, overlay_inputs, OverlayBytes, TextKinds, pdf_bytes, image_bytes,
       svg_bytes
  <2> QED
    BY <2>2, <2>7, <2>8 DEF Runs
<1>12. CASE c.command = "WatermarkImage"
  <2>1. b = ConversionBuilders.WatermarkImage
    BY <1>12, BuildersAre DEF b, BuilderTables, ConversionBuilders
  <2>2. op.family = "PdfEdit" /\ op.name = "Watermark" /\ op.kind = "Image"
    BY <1>2, <2>1 DEF ConversionBuilders, Builds, Edits
  <2>3. n = 2
    BY <1>12 DEF InputsFit
  <2>4. OptionsSuffice(op)
    BY <2>2 DEF OptionsSuffice
  <2>5. run_pdf_edit(op, artifacts)
    BY <1>3, <1>4, <1>5, <2>2, <2>3 DEF run_pdf_edit, watermark_pdf_artifacts,
       overlay_pdf_artifacts, overlay_inputs, OverlayBytes, TextKinds, pdf_bytes, image_bytes,
       svg_bytes
  <2> QED
    BY <2>2, <2>4, <2>5 DEF Runs
<1>13. CASE c.command = "WatermarkSvg"
  <2>1. b = ConversionBuilders.WatermarkSvg
    BY <1>13, BuildersAre DEF b, BuilderTables, ConversionBuilders
  <2>2. op.family = "PdfEdit" /\ op.name = "Watermark" /\ op.kind = "Svg"
    BY <1>2, <2>1 DEF ConversionBuilders, Builds, Edits
  <2>3. n = 2
    BY <1>13 DEF InputsFit
  <2>4. OptionsSuffice(op)
    BY <2>2 DEF OptionsSuffice
  <2>5. run_pdf_edit(op, artifacts)
    BY <1>3, <1>4, <1>5, <2>2, <2>3 DEF run_pdf_edit, watermark_pdf_artifacts,
       overlay_pdf_artifacts, overlay_inputs, OverlayBytes, TextKinds, pdf_bytes, image_bytes,
       svg_bytes
  <2> QED
    BY <2>2, <2>4, <2>5 DEF Runs
<1>14. CASE c.command = "Stamp"
  <2>1. b = MarkBuilders.Stamp
    BY <1>14, BuildersAre DEF b, BuilderTables, MarkBuilders
  <2>2. op.family = "PdfEdit" /\ op.name = "Overlay" /\ op.kind = "Stamp"
    BY <1>2, <2>1 DEF MarkBuilders, Builds
  <2>3. {"text"} \subseteq c.flags
    <3>1. ArgsOf(c.command) = InteractiveArgs.Stamp
      BY <1>14, ArgsAre DEF ArgTables, InteractiveArgs
    <3> QED
      BY <1>1, <3>1 DEF InteractiveArgs, Args
  <2>4. {"text"} \subseteq op.given
    <3>1. {"text"} \subseteq b.passes
      BY <2>1 DEF MarkBuilders, Builds
    <3>2. FieldOf("text") = "text"
      BY DEF FieldOf, PermissionFlags
    <3> QED
      BY <1>6, <2>3, <3>1, <3>2
  <2>5. "font" \in op.given
    BY <1>7, <2>1 DEF MarkBuilders, Builds
  <2>6. n = 1
    BY <1>14 DEF InputsFit
  <2>7. OptionsSuffice(op)
    BY <2>2, <2>4, <2>5 DEF OptionsSuffice
  <2>8. run_pdf_edit(op, artifacts)
    BY <1>3, <1>4, <1>5, <2>2, <2>6, <2>4, <2>5 DEF run_pdf_edit, overlay_pdf_artifacts,
       overlay_inputs, OverlayBytes, TextKinds, pdf_bytes, image_bytes, svg_bytes
  <2> QED
    BY <2>2, <2>7, <2>8 DEF Runs
<1>15. CASE c.command = "Appearance"
  <2>1. b = MarkBuilders.Appearance
    BY <1>15, BuildersAre DEF b, BuilderTables, MarkBuilders
  <2>2. op.family = "PdfEdit" /\ op.name = "Overlay" /\ op.kind = "SignatureAppearance"
    BY <1>2, <2>1 DEF MarkBuilders, Builds
  <2>3. {"text"} \subseteq c.flags
    <3>1. ArgsOf(c.command) = MarkArgs.Appearance
      BY <1>15, ArgsAre DEF ArgTables, MarkArgs
    <3> QED
      BY <1>1, <3>1 DEF MarkArgs, Args
  <2>4. {"text"} \subseteq op.given
    <3>1. {"text"} \subseteq b.passes
      BY <2>1 DEF MarkBuilders, Builds
    <3>2. FieldOf("text") = "text"
      BY DEF FieldOf, PermissionFlags
    <3> QED
      BY <1>6, <2>3, <3>1, <3>2
  <2>5. "font" \in op.given
    BY <1>7, <2>1 DEF MarkBuilders, Builds
  <2>6. n = 1
    BY <1>15 DEF InputsFit
  <2>7. OptionsSuffice(op)
    BY <2>2, <2>4, <2>5 DEF OptionsSuffice
  <2>8. run_pdf_edit(op, artifacts)
    BY <1>3, <1>4, <1>5, <2>2, <2>6, <2>4, <2>5 DEF run_pdf_edit, overlay_pdf_artifacts,
       overlay_inputs, OverlayBytes, TextKinds, pdf_bytes, image_bytes, svg_bytes
  <2> QED
    BY <2>2, <2>7, <2>8 DEF Runs
<1>16. CASE c.command = "OverlayPdf"
  <2>1. b = MarkBuilders.OverlayPdf
    BY <1>16, BuildersAre DEF b, BuilderTables, MarkBuilders
  <2>2. op.family = "PdfEdit" /\ op.name = "Overlay" /\ op.kind = "PdfPage"
    BY <1>2, <2>1 DEF MarkBuilders, Builds
  <2>3. n = 2
    BY <1>16 DEF InputsFit
  <2>4. OptionsSuffice(op)
    BY <2>2 DEF OptionsSuffice
  <2>5. run_pdf_edit(op, artifacts)
    BY <1>3, <1>4, <1>5, <2>2, <2>3 DEF run_pdf_edit, overlay_pdf_artifacts, overlay_inputs,
       OverlayBytes, TextKinds, pdf_bytes, image_bytes, svg_bytes
  <2> QED
    BY <2>2, <2>4, <2>5 DEF Runs
<1>17. CASE c.command = "ImageAdd"
  <2>1. b = ImageBuilders.ImageAdd
    BY <1>17, BuildersAre DEF b, BuilderTables, ImageBuilders
  <2>2. op.family = "PdfEdit" /\ op.name = "ImageEdit" /\ op.kind = "Add"
    BY <1>2, <2>1 DEF ImageBuilders, Builds, Edits
  <2>3. {"name", "page"} \subseteq c.flags
    <3>1. ArgsOf(c.command) = MarkArgs.ImageAdd
      BY <1>17, ArgsAre DEF ArgTables, MarkArgs
    <3> QED
      BY <1>1, <3>1 DEF MarkArgs, Args
  <2>4. {"name", "page"} \subseteq op.given
    <3>1. {"name", "page"} \subseteq b.passes
      BY <2>1 DEF ImageBuilders, Builds, Edits
    <3>2. FieldOf("name") = "name" /\ FieldOf("page") = "page"
      BY DEF FieldOf, PermissionFlags
    <3> QED
      BY <1>6, <2>3, <3>1, <3>2
  <2>5. n = 2
    BY <1>17 DEF InputsFit
  <2>6. OptionsSuffice(op)
    BY <2>2, <2>4 DEF OptionsSuffice
  <2>7. run_pdf_edit(op, artifacts)
    BY <1>3, <1>4, <1>5, <2>2, <2>5, <2>4 DEF run_pdf_edit, edit_pdf_images_artifacts,
       pdf_bytes, image_bytes
  <2> QED
    BY <2>2, <2>6, <2>7 DEF Runs
<1>18. CASE c.command = "ImageReplace"
  <2>1. b = ImageBuilders.ImageReplace
    BY <1>18, BuildersAre DEF b, BuilderTables, ImageBuilders
  <2>2. op.family = "PdfEdit" /\ op.name = "ImageEdit" /\ op.kind = "Replace"
    BY <1>2, <2>1 DEF ImageBuilders, Builds, Edits
  <2>3. {"name"} \subseteq c.flags
    <3>1. ArgsOf(c.command) = ImageColorArgs.ImageReplace
      BY <1>18, ArgsAre DEF ArgTables, ImageColorArgs
    <3> QED
      BY <1>1, <3>1 DEF ImageColorArgs, Args
  <2>4. {"name"} \subseteq op.given
    <3>1. {"name"} \subseteq b.passes
      BY <2>1 DEF ImageBuilders, Builds, Edits
    <3>2. FieldOf("name") = "name"
      BY DEF FieldOf, PermissionFlags
    <3> QED
      BY <1>6, <2>3, <3>1, <3>2
  <2>5. n = 2
    BY <1>18 DEF InputsFit
  <2>6. OptionsSuffice(op)
    BY <2>2, <2>4 DEF OptionsSuffice
  <2>7. run_pdf_edit(op, artifacts)
    BY <1>3, <1>4, <1>5, <2>2, <2>5, <2>4 DEF run_pdf_edit, edit_pdf_images_artifacts,
       pdf_bytes, image_bytes
  <2> QED
    BY <2>2, <2>6, <2>7 DEF Runs
<1>19. CASE c.command = "ImageDelete"
  <2>1. b = ImageBuilders.ImageDelete
    BY <1>19, BuildersAre DEF b, BuilderTables, ImageBuilders
  <2>2. op.family = "PdfEdit" /\ op.name = "ImageEdit" /\ op.kind = "Delete"
    BY <1>2, <2>1 DEF ImageBuilders, Builds, Edits
  <2>3. {"name"} \subseteq c.flags
    <3>1. ArgsOf(c.command) = ImageColorArgs.ImageDelete
      BY <1>19, ArgsAre DEF ArgTables, ImageColorArgs
    <3> QED
      BY <1>1, <3>1 DEF ImageColorArgs, Args
  <2>4. {"name"} \subseteq op.given
    <3>1. {"name"} \subseteq b.passes
      BY <2>1 DEF ImageBuilders, Builds, Edits
    <3>2. FieldOf("name") = "name"
      BY DEF FieldOf, PermissionFlags
    <3> QED
      BY <1>6, <2>3, <3>1, <3>2
  <2>5. n = 1
    BY <1>19 DEF InputsFit
  <2>6. OptionsSuffice(op)
    BY <2>2, <2>4 DEF OptionsSuffice
  <2>7. run_pdf_edit(op, artifacts)
    BY <1>3, <1>4, <1>5, <2>2, <2>5, <2>4 DEF run_pdf_edit, edit_pdf_images_artifacts,
       pdf_bytes, image_bytes
  <2> QED
    BY <2>2, <2>6, <2>7 DEF Runs
<1>20. CASE c.command = "AttachAdd"
  <2>1. b = AttachBuilders.AttachAdd
    BY <1>20, BuildersAre DEF b, BuilderTables, AttachBuilders
  <2>2. op.family = "PdfEdit" /\ op.name = "Attachment" /\ op.kind = "Add"
    BY <1>2, <2>1 DEF AttachBuilders, Builds, Edits
  <2>3. "name" \in op.given
    BY <1>7, <2>1 DEF AttachBuilders, Builds, Edits
  <2>4. n = 2
    BY <1>20 DEF InputsFit
  <2>5. OptionsSuffice(op)
    BY <2>2, <2>3 DEF OptionsSuffice
  <2>6. run_pdf_edit(op, artifacts)
    BY <1>3, <1>4, <1>5, <2>2, <2>4, <2>3 DEF run_pdf_edit, edit_pdf_attachment_artifacts,
       pdf_bytes
  <2> QED
    BY <2>2, <2>5, <2>6 DEF Runs
<1>21. CASE c.command = "AttachDelete"
  <2>1. b = AttachBuilders.AttachDelete
    BY <1>21, BuildersAre DEF b, BuilderTables, AttachBuilders
  <2>2. op.family = "PdfEdit" /\ op.name = "Attachment" /\ op.kind = "Delete"
    BY <1>2, <2>1 DEF AttachBuilders, Builds, Edits
  <2>3. {"name"} \subseteq c.flags
    <3>1. ArgsOf(c.command) = DocumentArgs.AttachDelete
      BY <1>21, ArgsAre DEF ArgTables, DocumentArgs
    <3> QED
      BY <1>1, <3>1 DEF DocumentArgs, Args
  <2>4. {"name"} \subseteq op.given
    <3>1. {"name"} \subseteq b.passes
      BY <2>1 DEF AttachBuilders, Builds, Edits
    <3>2. FieldOf("name") = "name"
      BY DEF FieldOf, PermissionFlags
    <3> QED
      BY <1>6, <2>3, <3>1, <3>2
  <2>5. n = 1
    BY <1>21 DEF InputsFit
  <2>6. OptionsSuffice(op)
    BY <2>2, <2>4 DEF OptionsSuffice
  <2>7. run_pdf_edit(op, artifacts)
    BY <1>3, <1>4, <1>5, <2>2, <2>5, <2>4 DEF run_pdf_edit, edit_pdf_attachment_artifacts,
       pdf_bytes
  <2> QED
    BY <2>2, <2>6, <2>7 DEF Runs
<1>22. CASE c.command = "ColorContrast"
  <2>1. b = ColorBuilders.ColorContrast
    BY <1>22, BuildersAre DEF b, BuilderTables, ColorBuilders
  <2>2. op.family = "PdfEdit" /\ op.name = "Color" /\ op.kind = "Contrast"
    BY <1>2, <2>1 DEF ColorBuilders, Builds, Edits
  <2>3. "rasterize_pages" \notin op.given
    <3>1. b.sets = {} /\ b.passes \subseteq {"pages", "factor", "from", "to"}
      BY <2>1 DEF ColorBuilders, Builds, Edits
    <3>2. \A f \in b.passes : FieldOf(f) = f
      BY <3>1 DEF FieldOf, PermissionFlags
    <3> QED
      BY <1>2, <3>1, <3>2
  <2>4. n = 1
    BY <1>22 DEF InputsFit
  <2>5. OptionsSuffice(op)
    BY <2>2, <2>3 DEF OptionsSuffice
  <2>6. run_pdf_edit(op, artifacts)
    BY <1>3, <1>4, <1>5, <2>2, <2>4 DEF run_pdf_edit
  <2> QED
    BY <2>2, <2>5, <2>6 DEF Runs
<1>23. CASE c.command = "ColorInvert"
  <2>1. b = ColorBuilders.ColorInvert
    BY <1>23, BuildersAre DEF b, BuilderTables, ColorBuilders
  <2>2. op.family = "PdfEdit" /\ op.name = "Color" /\ op.kind = "Invert"
    BY <1>2, <2>1 DEF ColorBuilders, Builds, Edits
  <2>3. "rasterize_pages" \notin op.given
    <3>1. b.sets = {} /\ b.passes \subseteq {"pages", "factor", "from", "to"}
      BY <2>1 DEF ColorBuilders, Builds, Edits
    <3>2. \A f \in b.passes : FieldOf(f) = f
      BY <3>1 DEF FieldOf, PermissionFlags
    <3> QED
      BY <1>2, <3>1, <3>2
  <2>4. n = 1
    BY <1>23 DEF InputsFit
  <2>5. OptionsSuffice(op)
    BY <2>2, <2>3 DEF OptionsSuffice
  <2>6. run_pdf_edit(op, artifacts)
    BY <1>3, <1>4, <1>5, <2>2, <2>4 DEF run_pdf_edit
  <2> QED
    BY <2>2, <2>5, <2>6 DEF Runs
<1>24. CASE c.command = "ColorReplace"
  <2>1. b = ColorBuilders.ColorReplace
    BY <1>24, BuildersAre DEF b, BuilderTables, ColorBuilders
  <2>2. op.family = "PdfEdit" /\ op.name = "Color" /\ op.kind = "Replace"
    BY <1>2, <2>1 DEF ColorBuilders, Builds, Edits
  <2>3. {"from", "to"} \subseteq c.flags
    <3>1. ArgsOf(c.command) = ImageColorArgs.ColorReplace
      BY <1>24, ArgsAre DEF ArgTables, ImageColorArgs
    <3> QED
      BY <1>1, <3>1 DEF ImageColorArgs, Args
  <2>4. {"from", "to"} \subseteq op.given
    <3>1. {"from", "to"} \subseteq b.passes
      BY <2>1 DEF ColorBuilders, Builds, Edits
    <3>2. FieldOf("from") = "from" /\ FieldOf("to") = "to"
      BY DEF FieldOf, PermissionFlags
    <3> QED
      BY <1>6, <2>3, <3>1, <3>2
  <2>5. "rasterize_pages" \notin op.given
    <3>1. b.sets = {} /\ b.passes \subseteq {"pages", "factor", "from", "to"}
      BY <2>1 DEF ColorBuilders, Builds, Edits
    <3>2. \A f \in b.passes : FieldOf(f) = f
      BY <3>1 DEF FieldOf, PermissionFlags
    <3> QED
      BY <1>2, <3>1, <3>2
  <2>6. n = 1
    BY <1>24 DEF InputsFit
  <2>7. OptionsSuffice(op)
    BY <2>2, <2>4, <2>5 DEF OptionsSuffice
  <2>8. run_pdf_edit(op, artifacts)
    BY <1>3, <1>4, <1>5, <2>2, <2>6 DEF run_pdf_edit
  <2> QED
    BY <2>2, <2>7, <2>8 DEF Runs
<1>25. CASE c.command = "AnnotAdd"
  <2>1. b = AnnotFormBuilders.AnnotAdd
    BY <1>25, BuildersAre DEF b, BuilderTables, AnnotFormBuilders
  <2>2. op.family = "PdfEdit" /\ op.name = "Annotation" /\ op.kind = "AddText"
    BY <1>2, <2>1 DEF AnnotFormBuilders, Builds, Edits
  <2>3. {"page", "id", "text"} \subseteq c.flags
    <3>1. ArgsOf(c.command) = InteractiveArgs.AnnotAdd
      BY <1>25, ArgsAre DEF ArgTables, InteractiveArgs
    <3> QED
      BY <1>1, <3>1 DEF InteractiveArgs, Args
  <2>4. {"page", "id", "text"} \subseteq op.given
    <3>1. {"page", "id", "text"} \subseteq b.passes
      BY <2>1 DEF AnnotFormBuilders, Builds, Edits
    <3>2. FieldOf("page") = "page" /\ FieldOf("id") = "id" /\ FieldOf("text") = "text"
      BY DEF FieldOf, PermissionFlags
    <3> QED
      BY <1>6, <2>3, <3>1, <3>2
  <2>5. n = 1
    BY <1>25 DEF InputsFit
  <2>6. OptionsSuffice(op)
    BY <2>2, <2>4 DEF OptionsSuffice
  <2>7. run_pdf_edit(op, artifacts)
    BY <1>3, <1>4, <1>5, <2>2, <2>5 DEF run_pdf_edit
  <2> QED
    BY <2>2, <2>6, <2>7 DEF Runs
<1>26. CASE c.command = "AnnotDelete"
  <2>1. b = AnnotFormBuilders.AnnotDelete
    BY <1>26, BuildersAre DEF b, BuilderTables, AnnotFormBuilders
  <2>2. op.family = "PdfEdit" /\ op.name = "Annotation" /\ op.kind = "Delete"
    BY <1>2, <2>1 DEF AnnotFormBuilders, Builds, Edits
  <2>3. {"id"} \subseteq c.flags
    <3>1. ArgsOf(c.command) = InteractiveArgs.AnnotDelete
      BY <1>26, ArgsAre DEF ArgTables, InteractiveArgs
    <3> QED
      BY <1>1, <3>1 DEF InteractiveArgs, Args
  <2>4. {"id"} \subseteq op.given
    <3>1. {"id"} \subseteq b.passes
      BY <2>1 DEF AnnotFormBuilders, Builds, Edits
    <3>2. FieldOf("id") = "id"
      BY DEF FieldOf, PermissionFlags
    <3> QED
      BY <1>6, <2>3, <3>1, <3>2
  <2>5. n = 1
    BY <1>26 DEF InputsFit
  <2>6. OptionsSuffice(op)
    BY <2>2, <2>4 DEF OptionsSuffice
  <2>7. run_pdf_edit(op, artifacts)
    BY <1>3, <1>4, <1>5, <2>2, <2>5 DEF run_pdf_edit
  <2> QED
    BY <2>2, <2>6, <2>7 DEF Runs
<1>27. CASE c.command = "OutlineSet"
  <2>1. b = OutlineBuilders.OutlineSet
    BY <1>27, BuildersAre DEF b, BuilderTables, OutlineBuilders
  <2>2. op.family = "PdfEdit" /\ op.name = "Outline" /\ op.kind = "Set"
    BY <1>2, <2>1 DEF OutlineBuilders, Builds, Edits
  <2>3. "tree" \in op.given
    BY <1>7, <2>1 DEF OutlineBuilders, Builds, Edits
  <2>4. n = 1
    BY <1>27 DEF InputsFit
  <2>5. OptionsSuffice(op)
    BY <2>2, <2>3 DEF OptionsSuffice
  <2>6. run_pdf_edit(op, artifacts)
    BY <1>3, <1>4, <1>5, <2>2, <2>4 DEF run_pdf_edit
  <2> QED
    BY <2>2, <2>5, <2>6 DEF Runs
<1>28. CASE c.command = "OutlineDelete"
  <2>1. b = OutlineBuilders.OutlineDelete
    BY <1>28, BuildersAre DEF b, BuilderTables, OutlineBuilders
  <2>2. op.family = "PdfEdit" /\ op.name = "Outline" /\ op.kind = "Delete"
    BY <1>2, <2>1 DEF OutlineBuilders, Builds, Edits
  <2>3. n = 1
    BY <1>28 DEF InputsFit
  <2>4. OptionsSuffice(op)
    BY <2>2 DEF OptionsSuffice
  <2>5. run_pdf_edit(op, artifacts)
    BY <1>3, <1>4, <1>5, <2>2, <2>3 DEF run_pdf_edit
  <2> QED
    BY <2>2, <2>4, <2>5 DEF Runs
<1>29. CASE c.command = "Encrypt"
  <2>1. b = SecurityBuilders.Encrypt
    BY <1>29, BuildersAre DEF b, BuilderTables, SecurityBuilders
  <2>2. op.family = "PdfSecurity" /\ op.name = "Encrypt" /\ op.kind = "none"
    BY <1>2, <2>1 DEF SecurityBuilders, Builds, Secures
  <2>3. "owner_password" \in op.given
    <3>1. "owner_password" \in c.flags \/ "owner_password_file" \in c.flags
      BY <1>29 DEF PasswordsResolve, resolve_required_password
    <3>2. {"owner_password", "owner_password_file"} \subseteq b.passes
      BY <2>1 DEF SecurityBuilders, Builds, Secures, SecurityArgs, Args
    <3>3. /\ FieldOf("owner_password") = "owner_password"
          /\ FieldOf("owner_password_file") = "owner_password"
      BY DEF FieldOf, PermissionFlags
    <3> QED
      BY <1>6, <3>1, <3>2, <3>3
  <2>4. "user_password" \in op.given
    <3>1. "user_password" \in c.flags \/ "user_password_file" \in c.flags
      BY <1>29 DEF PasswordsResolve, resolve_required_password
    <3>2. {"user_password", "user_password_file"} \subseteq b.passes
      BY <2>1 DEF SecurityBuilders, Builds, Secures, SecurityArgs, Args
    <3>3. /\ FieldOf("user_password") = "user_password"
          /\ FieldOf("user_password_file") = "user_password"
      BY DEF FieldOf, PermissionFlags
    <3> QED
      BY <1>6, <3>1, <3>2, <3>3
  <2>5. n = 1
    BY <1>29 DEF InputsFit
  <2>6. OptionsSuffice(op)
    BY <2>2, <2>3, <2>4 DEF OptionsSuffice
  <2>7. run_pdf_security(op, artifacts)
    BY <1>3, <1>4, <1>5, <2>2, <2>5 DEF run_pdf_security
  <2> QED
    BY <2>2, <2>6, <2>7 DEF Runs
<1>30. CASE c.command = "PermissionsSet"
  <2>1. b = SecurityBuilders.PermissionsSet
    BY <1>30, BuildersAre DEF b, BuilderTables, SecurityBuilders
  <2>2. op.family = "PdfSecurity" /\ op.name = "PermissionsSet" /\ op.kind = "none"
    BY <1>2, <2>1 DEF SecurityBuilders, Builds, Secures
  <2>3. "owner_password" \in op.given
    <3>1. "owner_password" \in c.flags \/ "owner_password_file" \in c.flags
      BY <1>30 DEF PasswordsResolve, resolve_required_password
    <3>2. {"owner_password", "owner_password_file"} \subseteq b.passes
      BY <2>1 DEF SecurityBuilders, Builds, Secures, SecurityArgs, Args
    <3>3. /\ FieldOf("owner_password") = "owner_password"
          /\ FieldOf("owner_password_file") = "owner_password"
      BY DEF FieldOf, PermissionFlags
    <3> QED
      BY <1>6, <3>1, <3>2, <3>3
  <2>4. "user_password" \in op.given
    <3>1. "user_password" \in c.flags \/ "user_password_file" \in c.flags
      BY <1>30 DEF PasswordsResolve, resolve_required_password
    <3>2. {"user_password", "user_password_file"} \subseteq b.passes
      BY <2>1 DEF SecurityBuilders, Builds, Secures, SecurityArgs, Args
    <3>3. /\ FieldOf("user_password") = "user_password"
          /\ FieldOf("user_password_file") = "user_password"
      BY DEF FieldOf, PermissionFlags
    <3> QED
      BY <1>6, <3>1, <3>2, <3>3
  <2>5. n = 1
    BY <1>30 DEF InputsFit
  <2>6. OptionsSuffice(op)
    BY <2>2, <2>3, <2>4 DEF OptionsSuffice
  <2>7. run_pdf_security(op, artifacts)
    BY <1>3, <1>4, <1>5, <2>2, <2>5 DEF run_pdf_security
  <2> QED
    BY <2>2, <2>6, <2>7 DEF Runs
<1>31. CASE c.command = "Decrypt"
  <2>1. b = SecurityBuilders.Decrypt
    BY <1>31, BuildersAre DEF b, BuilderTables, SecurityBuilders
  <2>2. op.family = "PdfSecurity" /\ op.name = "Decrypt" /\ op.kind = "none"
    BY <1>2, <2>1 DEF SecurityBuilders, Builds, Secures
  <2>3. "password" \in op.given
    <3>1. "password" \in c.flags \/ "password_file" \in c.flags
      BY <1>31 DEF PasswordsResolve, resolve_required_password
    <3>2. {"password", "password_file"} \subseteq b.passes
      BY <2>1 DEF SecurityBuilders, Builds, Secures, SecurityArgs, Args
    <3>3. FieldOf("password") = "password" /\ FieldOf("password_file") = "password"
      BY DEF FieldOf, PermissionFlags
    <3> QED
      BY <1>6, <3>1, <3>2, <3>3
  <2>4. n = 1
    BY <1>31 DEF InputsFit
  <2>5. OptionsSuffice(op)
    BY <2>2, <2>3 DEF OptionsSuffice
  <2>6. run_pdf_security(op, artifacts)
    BY <1>3, <1>4, <1>5, <2>2, <2>4 DEF run_pdf_security
  <2> QED
    BY <2>2, <2>5, <2>6 DEF Runs
<1>32. CASE c.command = "SignAdd"
  <2>1. b = SignBuilders.SignAdd
    BY <1>32, BuildersAre DEF b, BuilderTables, SignBuilders
  <2>2. op.family = "PdfSign" /\ op.name = "Add" /\ op.kind = "none"
    BY <1>2, <2>1 DEF SignBuilders, Builds, Signs
  <2>3. {"field_name", "certificate", "private_key"} \subseteq c.flags
    <3>1. ArgsOf(c.command) = SignArgs.SignAdd
      BY <1>32, ArgsAre DEF ArgTables, SignArgs
    <3> QED
      BY <1>1, <3>1 DEF SignArgs, Args
  <2>4. {"field_name", "certificate", "private_key"} \subseteq op.given
    <3>1. {"field_name", "certificate", "private_key"} \subseteq b.passes
      BY <2>1 DEF SignBuilders, Builds, Signs
    <3>2. /\ FieldOf("field_name") = "field_name"
          /\ FieldOf("certificate") = "certificate"
          /\ FieldOf("private_key") = "private_key"
      BY DEF FieldOf, PermissionFlags
    <3> QED
      BY <1>6, <2>3, <3>1, <3>2
  <2>5. n = 1
    BY <1>32 DEF InputsFit
  <2>6. OptionsSuffice(op)
    BY <2>2, <2>4 DEF OptionsSuffice
  <2>7. run_pdf_sign(op, artifacts)
    BY <1>3, <1>4, <1>5, <2>2, <2>5 DEF run_pdf_sign
  <2> QED
    BY <2>2, <2>6, <2>7 DEF Runs
<1>33. CASE c.command = "SignDeleteField"
  <2>1. b = SignBuilders.SignDeleteField
    BY <1>33, BuildersAre DEF b, BuilderTables, SignBuilders
  <2>2. op.family = "PdfSign" /\ op.name = "DeleteField" /\ op.kind = "none"
    BY <1>2, <2>1 DEF SignBuilders, Builds, Signs
  <2>3. {"field_name"} \subseteq c.flags
    <3>1. ArgsOf(c.command) = SignArgs.SignDeleteField
      BY <1>33, ArgsAre DEF ArgTables, SignArgs
    <3> QED
      BY <1>1, <3>1 DEF SignArgs, Args
  <2>4. {"field_name"} \subseteq op.given
    <3>1. {"field_name"} \subseteq b.passes
      BY <2>1 DEF SignBuilders, Builds, Signs
    <3>2. FieldOf("field_name") = "field_name"
      BY DEF FieldOf, PermissionFlags
    <3> QED
      BY <1>6, <2>3, <3>1, <3>2
  <2>5. n = 1
    BY <1>33 DEF InputsFit
  <2>6. OptionsSuffice(op)
    BY <2>2, <2>4 DEF OptionsSuffice
  <2>7. run_pdf_sign(op, artifacts)
    BY <1>3, <1>4, <1>5, <2>2, <2>5 DEF run_pdf_sign
  <2> QED
    BY <2>2, <2>6, <2>7 DEF Runs
<1>34. CASE c.command = "Timestamp"
  <2>1. b = SignBuilders.Timestamp
    BY <1>34, BuildersAre DEF b, BuilderTables, SignBuilders
  <2>2. op.family = "PdfSign" /\ op.name = "Timestamp" /\ op.kind = "none"
    BY <1>2, <2>1 DEF SignBuilders, Builds, Signs
  <2>3. {"token"} \subseteq c.flags
    BY <1>34
  <2>4. {"token"} \subseteq op.given
    <3>1. {"token"} \subseteq b.passes
      BY <2>1 DEF SignBuilders, Builds, Signs
    <3>2. FieldOf("token") = "token"
      BY DEF FieldOf, PermissionFlags
    <3> QED
      BY <1>6, <2>3, <3>1, <3>2
  <2>5. "tsa_url" \notin op.given
    <3>1. b.sets = {} /\ b.passes = {"tsa_url", "token"}
      BY <2>1 DEF SignBuilders, Builds, Signs
    <3>2. \A f \in b.passes : FieldOf(f) = f
      BY <3>1 DEF FieldOf, PermissionFlags
    <3> QED
      BY <1>2, <1>34, <3>1, <3>2
  <2>6. n = 1
    BY <1>34 DEF InputsFit
  <2>7. OptionsSuffice(op)
    BY <2>2, <2>4, <2>5 DEF OptionsSuffice
  <2>8. run_pdf_sign(op, artifacts)
    BY <1>3, <1>4, <1>5, <2>2, <2>6 DEF run_pdf_sign
  <2> QED
    BY <2>2, <2>7, <2>8 DEF Runs
<1>35. CASE c.command = "Report"
  <2>1. b = CompareBuilders.Report
    BY <1>35, BuildersAre DEF b, BuilderTables, CompareBuilders
  <2>2. op.family = "PdfCompare" /\ op.name = "Report" /\ op.kind = "none"
    BY <1>2, <2>1 DEF CompareBuilders, Builds
  <2>3. n = 2
    BY <1>35 DEF InputsFit
  <2>4. OptionsSuffice(op)
    BY <2>2 DEF OptionsSuffice
  <2>5. run_pdf_compare(op, artifacts)
    BY <1>3, <1>4, <1>5, <2>2, <2>3 DEF run_pdf_compare, two_pdf_inputs, pdf_bytes
  <2> QED
    BY <2>2, <2>4, <2>5 DEF Runs
<1>36. CASE c.command = "VisualDiff"
  <2>1. b = CompareBuilders.VisualDiff
    BY <1>36, BuildersAre DEF b, BuilderTables, CompareBuilders
  <2>2. op.family = "PdfCompare" /\ op.name = "VisualDiff" /\ op.kind = "none"
    BY <1>2, <2>1 DEF CompareBuilders, Builds
  <2>3. n = 2
    BY <1>36 DEF InputsFit
  <2>4. OptionsSuffice(op)
    BY <2>2 DEF OptionsSuffice
  <2>5. run_pdf_compare(op, artifacts)
    BY <1>3, <1>4, <1>5, <2>2, <2>3 DEF run_pdf_compare, two_pdf_inputs, pdf_bytes
  <2> QED
    BY <2>2, <2>4, <2>5 DEF Runs
<1>37. CASE c.command = "Compress"
  <2>1. b = CompressionBuilders.Compress
    BY <1>37, BuildersAre DEF b, BuilderTables, CompressionBuilders
  <2>2. op.family = "PdfEdit" /\ op.name = "Compression" /\ op.kind = "none"
    BY <1>2, <2>1 DEF CompressionBuilders, Builds, Edits
  <2>3. op.given = {FieldOf(f) : f \in c.flags \cap ({"mode"} \cup ImageFlags)}
    BY <1>2, <2>1 DEF CompressionBuilders, Builds, Edits, ImageFlags
  <2>4. FieldOf("mode") = "mode" /\ \A f \in ImageFlags : FieldOf(f) = "images"
    BY DEF FieldOf, PermissionFlags, ImageFlags
  <2>5. ("mode" \in op.given) <=> ("mode" \in c.flags)
    BY <2>3, <2>4
  <2>6. ("images" \in op.given) <=> (ImageFlags \cap c.flags # {})
    BY <2>3, <2>4
  <2>7. OptionsSuffice(op)
    BY <1>37, <2>2, <2>5, <2>6 DEF OptionsSuffice
  <2>8. n = 1
    BY <1>37 DEF InputsFit
  <2>9. run_pdf_edit(op, artifacts)
    BY <1>5, <2>2, <2>8 DEF run_pdf_edit
  <2> QED
    BY <2>2, <2>7, <2>9 DEF Runs
<1>38. CASE c.command \notin DemandingCommands
  <2>1. /\ op.family \in {"PdfEdit", "PdfInspect", "PdfSecurity", "PdfSign"}
        /\ op.name \notin {"Merge", "ImageToPdf", "SvgToPdf", "Watermark", "Overlay", "ImageEdit",
                            "Attachment", "Color", "Annotation", "Encrypt", "PermissionsSet",
                            "Decrypt", "DeleteField", "Timestamp", "Compression"}
        /\ op.family = "PdfEdit" => op.name # "Outline"
        /\ op.family = "PdfSign" => op.name # "Add"
    BY <1>1, <1>2, <1>38, OtherBuilders DEF b
  <2>2. OptionsSuffice(op)
    BY <2>1 DEF OptionsSuffice
  <2>3. n = 1
    BY <1>38 DEF InputsFit, DemandingCommands
  <2>4. /\ run_pdf_edit(op, artifacts) /\ run_pdf_inspect(op, artifacts)
        /\ run_pdf_security(op, artifacts) /\ run_pdf_sign(op, artifacts)
    BY <1>5, <2>1, <2>3 DEF run_pdf_edit, run_pdf_inspect, run_pdf_security, run_pdf_sign
  <2> QED
    BY <2>1, <2>2, <2>4 DEF Runs
<1> QED
  BY <1>8, <1>9, <1>10, <1>11, <1>12, <1>13, <1>14, <1>15, <1>16, <1>17, <1>18, <1>19, <1>20,
     <1>21, <1>22, <1>23, <1>24, <1>25, <1>26, <1>27, <1>28, <1>29, <1>30, <1>31, <1>32, <1>33,
     <1>34, <1>35, <1>36, <1>37, <1>38 DEF DemandingCommands

LEMMA CommandsSucceed ==
    ASSUME FrontInv
    PROVE  EveryCommandRuns
<1> SUFFICES ASSUME call.door = "command"
             PROVE  stage # "rejected" /\ (stage = "failed" => ~ParserKnows)
  BY DEF EveryCommandRuns
<1>1. IsCommand(call)
  BY DEF FrontInv, CallKept, IsCall, IsCommandCall, IsRunCall, IsWebCall
<1>2. SUFFICES ASSUME Built
               PROVE  stage # "rejected" /\ (stage = "failed" => ~ParserKnows)
  BY DEF Built
<1>3. BuiltCommand
  BY <1>2 DEF FrontInv, BuiltInv
<1>4. /\ IsWorkflow(workflow) /\ Rejection(workflow) = "none" /\ Len(workflow.tasks) = 1
  BY <1>1, <1>3, CommandAccepted
<1>5. stage # "rejected"
  BY <1>4 DEF FrontInv, Validated
<1>6. ASSUME stage = "failed", ParserKnows PROVE FALSE
  <2> DEFINE ids == InputIds(call.command, Len(InputOperands(call.command, call.operands)))
  <2>1. plan = ExecutionPlan(workflow) /\ done \in Nat /\ done < Len(plan.task_order)
    BY <1>6 DEF FrontInv, Validated, RunInv
  <2>2. Len(plan.task_order) = 1 /\ plan.task_order[1] = 1
    <3>1. /\ Len(plan.task_order) = 1
          /\ \A k \in Numbers(plan.task_order) : plan.task_order[k] \in TaskNumbers
      BY <1>4, <2>1, OrderIsWhole
    <3> QED
      BY <1>4, <3>1 DEF Numbers, TaskNumbers
  <2>3. done = 0 /\ NextTask = 1
    BY <2>1, <2>2 DEF NextTask
  <2>4. kinds = [ref \in ToSet(workflow.inputs) |-> "Bytes"]
    BY <1>6, <2>3 DEF FrontInv, RunInv
  <2>5. PICK n \in 1..3 :
          ids \in Seq(InputNames) /\ DOMAIN ids = 1..n /\ InputsFit(call.command, n)
    BY <1>1, CommandInputs
  <2> HIDE DEF ids
  <2>6. workflow.inputs = ids /\ workflow.tasks[1].inputs = ids
    BY <1>3 DEF BuiltCommand, workflow_from_specs, ids
  <2>7. NextKinds = [i \in 1..n |-> "Bytes"]
    <3>1. \A i \in 1..n : ids[i] \in ToSet(ids)
      BY <2>5 DEF ToSet
    <3> QED
      BY <2>3, <2>4, <2>5, <2>6, <3>1 DEF NextKinds
  <2>8. ops[1] = BuiltOperator(call.command, call.flags)
    BY <1>3 DEF BuiltCommand
  <2>9. Runs(BuiltOperator(call.command, call.flags), NextKinds)
    BY <1>1, <1>3, <1>6, <2>5, <2>7, CommandsRun DEF ParserKnows, BuiltCommand
  <2> QED
    BY <1>6, <2>3, <2>8, <2>9 DEF FrontInv, RunInv
<1> QED
  BY <1>5, <1>6

\* Whatever operands and flags the parser lets through, the workflow that the
\* command builds is accepted and its operator takes its inputs and finds its
\* options, but for the three operators that ask for more than the parser.  The
\* values of options and what documents hold are no part of it.
THEOREM CommandsAlwaysRun == FrontSpec => []EveryCommandRuns
BY FrontHolds, CommandsSucceed, PTL

-----------------------------------------------------------------------------
(* The workflows of requests.                                               *)

\* FlattenSeq joins sequences from the first to the last.
LEMMA FlattenGrows ==
    ASSUME NEW n \in Nat \ {0}, NEW parts, Len(parts) = n
    PROVE  \E f : /\ f[1] = parts[1] /\ f[n] = FlattenSeq(parts)
                  /\ \A k \in 1..(n - 1) : f[k + 1] = f[k] \o parts[k + 1]
<1> DEFINE Solution(f, m) == f = [k \in 1..m |-> IF k = 1 THEN parts[k] ELSE f[k - 1] \o parts[k]]
           P == {m \in 0..n : m = 0 \/ \E f : Solution(f, m)}
<1>1. 0 \in P
  OBVIOUS
<1>2. ASSUME NEW m \in 0..(n - 1), m \in P PROVE m + 1 \in P
  <2>1. CASE m = 0
    <3>1. Solution([k \in 1..1 |-> parts[1]], 1)
      OBVIOUS
    <3>2. 1 \in 0..n /\ m + 1 = 1
      BY <2>1
    <3> HIDE DEF Solution
    <3> QED
      BY <3>1, <3>2
  <2>2. CASE m # 0
    <3>1. PICK f : Solution(f, m)
      BY <1>2, <2>2
    <3> DEFINE g == [k \in 1..(m + 1) |-> IF k = m + 1 THEN f[m] \o parts[m + 1] ELSE f[k]]
    <3>2. m \in Nat \ {0} /\ m + 1 \in 0..n /\ (m + 1) - 1 = m /\ m + 1 # 1
      BY <2>2
    <3>3. ASSUME NEW k \in 1..(m + 1)
          PROVE  g[k] = IF k = 1 THEN parts[k] ELSE g[k - 1] \o parts[k]
      <4>1. CASE k = m + 1
        <5>1. g[k] = f[m] \o parts[k]
          BY <4>1
        <5>2. g[m] = f[m]
          <6>1. m \in 1..(m + 1) /\ m # m + 1
            BY <3>2
          <6> QED
            BY <6>1
        <5>3. k # 1 /\ k - 1 = m
          BY <3>2, <4>1
        <5> HIDE DEF g
        <5> QED
          BY <5>1, <5>2, <5>3
      <4>2. CASE k # m + 1
        <5>1. k \in 1..m /\ (k # 1 => k - 1 \in 1..(m + 1) /\ k - 1 # m + 1)
          BY <4>2
        <5>2. g[k] = f[k] /\ (k # 1 => g[k - 1] = f[k - 1])
          BY <4>2, <5>1
        <5>3. f[k] = IF k = 1 THEN parts[k] ELSE f[k - 1] \o parts[k]
          BY <3>1, <5>1
        <5> HIDE DEF g
        <5> QED
          BY <5>2, <5>3
      <4> QED
        BY <4>1, <4>2
    <3>4. g = [k \in 1..(m + 1) |-> g[k]]
      OBVIOUS
    <3> HIDE DEF g
    <3>5. Solution(g, m + 1)
      BY <3>3, <3>4
    <3> QED
      BY <3>2, <3>5
  <2> QED
    BY <2>1, <2>2
<1>3. \E f : Solution(f, n)
  <2>1. n \in Nat /\ n \in 0..n /\ n # 0
    OBVIOUS
  <2>2. 0..n \subseteq P
    <3> HIDE DEF P
    <3> QED
      BY <1>1, <1>2, <2>1, CountingUp
  <2> QED
    BY <2>1, <2>2
<1> DEFINE whole == CHOOSE f : Solution(f, n)
<1>4. Solution(whole, n)
  BY <1>3
<1>5. FlattenSeq(parts) = whole[n]
  <2>1. FlattenSeq(parts) =
            (CHOOSE f : f = [k \in 1..n |-> IF k = 1 THEN parts[k] ELSE f[k - 1] \o parts[k]])[n]
    BY DEF FlattenSeq
  <2> QED
    BY <2>1
<1> HIDE DEF whole
<1>6. whole[1] = parts[1]
  BY <1>4
<1>7. ASSUME NEW k \in 1..(n - 1) PROVE whole[k + 1] = whole[k] \o parts[k + 1]
  <2>1. k + 1 \in 1..n /\ k + 1 # 1 /\ (k + 1) - 1 = k
    OBVIOUS
  <2> QED
    BY <1>4, <2>1
<1> QED
  BY <1>5, <1>6, <1>7

\* A flattened list of lists holds what its lists hold.
Gathers(flat, parts, n, S) ==
    /\ flat \in Seq(S)
    /\ \A k \in 1..n : \A i \in 1..Len(parts[k]) : \E p \in 1..Len(flat) : flat[p] = parts[k][i]

LEMMA FlattenHolds ==
    ASSUME NEW n \in Nat \ {0}, NEW parts, Len(parts) = n, NEW S,
           \A k \in 1..n : parts[k] \in Seq(S)
    PROVE  Gathers(FlattenSeq(parts), parts, n, S)
<1>1. PICK f : /\ f[1] = parts[1] /\ f[n] = FlattenSeq(parts)
               /\ \A k \in 1..(n - 1) : f[k + 1] = f[k] \o parts[k + 1]
  BY FlattenGrows
<1> DEFINE Holds(m) ==
             /\ f[m] \in Seq(S)
             /\ \A k \in 1..m : \A i \in 1..Len(parts[k]) :
                    \E p \in 1..Len(f[m]) : f[m][p] = parts[k][i]
           P == {m \in 0..n : m = 0 \/ Holds(m)}
<1>2. 0 \in P
  OBVIOUS
<1>3. ASSUME NEW m \in 0..(n - 1), m \in P PROVE m + 1 \in P
  <2>1. m + 1 \in 1..n /\ m + 1 \in 0..n /\ parts[m + 1] \in Seq(S)
    OBVIOUS
  <2>2. CASE m = 0
    <3>1. Holds(1)
      BY <1>1, <2>1, <2>2
    <3> HIDE DEF Holds
    <3> QED
      BY <2>1, <2>2, <3>1
  <2>3. CASE m # 0
    <3>1. f[m + 1] = f[m] \o parts[m + 1]
      <4>1. m \in 1..(n - 1)
        BY <2>3
      <4> QED
        BY <1>1, <4>1
    <3>2. Holds(m)
      BY <1>3, <2>3
    <3>3. PICK s \in Seq(S), u \in Seq(S) : s = f[m] /\ u = parts[m + 1]
      BY <2>1, <3>2
    <3>4. /\ s \o u \in Seq(S) /\ Len(s \o u) = Len(s) + Len(u)
          /\ Len(s) \in Nat /\ Len(u) \in Nat
          /\ \A p \in 1..Len(s) : (s \o u)[p] = s[p]
          /\ \A p \in 1..Len(u) : (s \o u)[Len(s) + p] = u[p]
      OBVIOUS
    <3>5. ASSUME NEW k \in 1..(m + 1), NEW i \in 1..Len(parts[k])
          PROVE  \E p \in 1..Len(s \o u) : (s \o u)[p] = parts[k][i]
      <4>1. CASE k = m + 1
        <5>1. i \in 1..Len(u) /\ parts[k][i] = u[i]
          BY <3>3, <4>1
        <5>2. Len(s) + i \in 1..Len(s \o u) /\ (s \o u)[Len(s) + i] = u[i]
          BY <3>4, <5>1
        <5> QED
          BY <5>1, <5>2
      <4>2. CASE k # m + 1
        <5>1. k \in 1..m
          BY <4>2
        <5>2. PICK p \in 1..Len(s) : s[p] = parts[k][i]
          BY <3>2, <3>3, <5>1
        <5>3. p \in 1..Len(s \o u) /\ (s \o u)[p] = s[p]
          BY <3>4
        <5> QED
          BY <5>2, <5>3
      <4> QED
        BY <4>1, <4>2
    <3>6. f[m + 1] = s \o u
      BY <3>1, <3>3
    <3>7. Holds(m + 1)
      <4>1. f[m + 1] \in Seq(S)
        BY <3>4, <3>6
      <4>2. \A k \in 1..(m + 1) : \A i \in 1..Len(parts[k]) :
                \E p \in 1..Len(f[m + 1]) : f[m + 1][p] = parts[k][i]
        BY <3>5, <3>6
      <4> QED
        BY <4>1, <4>2
    <3> HIDE DEF Holds
    <3> QED
      BY <2>1, <3>7
  <2> QED
    BY <2>2, <2>3
<1>4. n \in P
  <2>1. n \in Nat /\ n \in 0..n
    OBVIOUS
  <2> HIDE DEF P
  <2> QED
    BY <1>2, <1>3, <2>1, CountingUp
<1>5. Holds(n)
  BY <1>4
<1> QED
  BY <1>1, <1>5 DEF Gathers

\* Every file that a step reads, and each one once.
Loaded(ids, tasks) ==
    /\ ids \in Seq({"f"} \X Nat)
    /\ \A i, j \in 1..Len(ids) : ids[i] = ids[j] => i = j
    /\ \A t \in DOMAIN tasks : \A i \in 1..Len(tasks[t].inputs) :
           tasks[t].inputs[i][1] = "file" =>
               \E k \in 1..Len(ids) : ids[k] = <<"f", tasks[t].inputs[i][2]>>

LEMMA FilesLoaded ==
    ASSUME NEW files, NEW tasks, IsSequence(tasks), Len(tasks) > 0, DOMAIN files \subseteq Nat,
           \A t \in DOMAIN tasks : tasks[t].inputs \in Seq(StepSources(files)),
           NEW ids, ids = load_file_bytes(tasks)
    PROVE  Loaded(ids, tasks)
<1> DEFINE S == StepSources(files)
           parts == [t \in DOMAIN tasks |-> tasks[t].inputs]
           inputs == FlattenSeq(parts)
           F == {k \in DOMAIN inputs :
                    inputs[k][1] = "file" /\ \A j \in 1..(k - 1) : inputs[j] # inputs[k]}
           firsts == InIndexOrder(F)
<1>1. PICK n \in Nat \ {0} : n = Len(tasks) /\ DOMAIN tasks = 1..n
  BY ListDomain DEF Numbers
<1>2. Len(parts) = n /\ \A k \in 1..n : parts[k] = tasks[k].inputs
  BY <1>1
<1>16. \A k \in 1..n : parts[k] \in Seq(S)
  BY <1>1, <1>2
<1> HIDE DEF parts, S
<1>3. /\ inputs \in Seq(S)
      /\ \A k \in 1..n : \A i \in 1..Len(parts[k]) :
             \E p \in 1..Len(inputs) : inputs[p] = parts[k][i]
  <2>1. Gathers(FlattenSeq(parts), parts, n, S)
    BY <1>2, <1>16, FlattenHolds
  <2> QED
    BY <2>1 DEF Gathers
<1>4. ids = [i \in DOMAIN firsts |-> <<"f", inputs[firsts[i]][2]>>]
  <2>1. load_file_bytes(tasks) = [i \in DOMAIN firsts |-> <<"f", inputs[firsts[i]][2]>>]
    BY ONLY DEF load_file_bytes, parts
  <2> QED
    BY <2>1
<1> HIDE DEF inputs
<1>5. PICK N \in Nat : Len(inputs) = N /\ DOMAIN inputs = 1..N /\ \A k \in 1..N : inputs[k] \in S
  BY <1>3
<1>6. F \in SUBSET (1..N)
  BY <1>5
<1>7. Lists(firsts, F)
  <2> HIDE DEF F
  <2> QED
    BY <1>6, InIndexOrderLists
<1>8. ASSUME NEW x \in S
      PROVE  /\ x = <<x[1], x[2]>> /\ x[2] \in Nat /\ x[1] \in {"file", "step"}
  BY <1>8 DEF S, StepSources
<1>9. ASSUME NEW k \in F PROVE k \in 1..N /\ inputs[k] = <<"file", inputs[k][2]>>
                               /\ inputs[k][2] \in Nat
  BY <1>5, <1>8, <1>9
<1>10. ASSUME NEW k \in F, NEW l \in F, inputs[k][2] = inputs[l][2] PROVE k = l
  <2>1. inputs[k] = inputs[l] /\ k \in 1..N /\ l \in 1..N
    BY <1>9, <1>10
  <2>2. ~ (k < l) /\ ~ (l < k)
    BY <2>1
  <2> QED
    BY <2>1, <2>2
<1>11. ASSUME NEW p \in 1..N, inputs[p][1] = "file"
       PROVE  \E k \in F : inputs[k] = inputs[p]
  <2> DEFINE Q == {j \in 1..N : inputs[j] = inputs[p]}
  <2>1. PICK k \in Q : \A j \in Q : k <= j
    <3>1. Q \in SUBSET Nat
      OBVIOUS
    <3>2. p \in Q
      OBVIOUS
    <3> HIDE DEF Q
    <3> QED
      BY <3>1, <3>2, LeastNumber
  <2>2. ASSUME NEW j \in 1..(k - 1) PROVE inputs[j] # inputs[k]
    <3>1. j \in 1..N /\ ~ (k <= j)
      OBVIOUS
    <3> QED
      BY <2>1, <3>1
  <2>3. k \in F
    BY <1>5, <1>11, <2>2
  <2> QED
    BY <2>3
<1> HIDE DEF F, firsts
<1>12. PICK C \in Nat : Len(firsts) = C /\ DOMAIN firsts = 1..C /\ \A i \in 1..C : firsts[i] \in F
  BY <1>7 DEF Lists, Elements, Numbers
<1>13. ids \in Seq({"f"} \X Nat) /\ Len(ids) = C
  <2>1. \A i \in 1..C : <<"f", inputs[firsts[i]][2]>> \in {"f"} \X Nat
    BY <1>9, <1>12
  <2>2. ids = [i \in 1..C |-> <<"f", inputs[firsts[i]][2]>>]
    BY <1>4, <1>12
  <2> QED
    BY <2>1, <2>2
<1>14. ASSUME NEW i \in 1..C, NEW j \in 1..C, ids[i] = ids[j] PROVE i = j
  <2>1. inputs[firsts[i]][2] = inputs[firsts[j]][2]
    BY <1>4, <1>12, <1>14
  <2>2. firsts[i] = firsts[j]
    BY <1>10, <1>12, <2>1
  <2> QED
    BY <1>7, <1>12, <2>2 DEF Lists, Numbers
<1>15. ASSUME NEW t \in DOMAIN tasks, NEW i \in 1..Len(tasks[t].inputs),
              tasks[t].inputs[i][1] = "file"
       PROVE  \E k \in 1..C : ids[k] = <<"f", tasks[t].inputs[i][2]>>
  <2>1. PICK p \in 1..N : inputs[p] = tasks[t].inputs[i]
    BY <1>1, <1>2, <1>3, <1>5
  <2>2. PICK k \in F : inputs[k] = inputs[p]
    BY <1>11, <1>15, <2>1
  <2>3. PICK l \in 1..C : firsts[l] = k
    BY <1>7, <1>12, <2>2 DEF Lists, Elements, Numbers
  <2>4. ids[l] = <<"f", tasks[t].inputs[i][2]>>
    BY <1>4, <1>12, <2>1, <2>2, <2>3
  <2> QED
    BY <2>4
<1> QED
  BY <1>13, <1>14, <1>15 DEF Loaded

LEMMA ListIs ==
    ASSUME NEW n \in Nat, NEW s, s = [i \in 1..n |-> s[i]]
    PROVE  IsSequence(s) /\ Len(s) = n /\ Numbers(s) = 1..n
<1>1. \A i \in 1..n : s[i] \in Range(s)
  BY DEF Range
<1>2. s \in [1..n -> Range(s)]
  BY <1>1
<1>3. s \in Seq(Range(s)) /\ Len(s) = n
  BY <1>2
<1> QED
  BY <1>3 DEF IsSequence, Numbers

LEMMA OneList ==
    ASSUME NEW x, NEW s, s = <<x>>
    PROVE  IsSequence(s) /\ Len(s) = 1 /\ Numbers(s) = {1} /\ s[1] = x
<1>1. Len(s) = 1 /\ s[1] = x /\ DOMAIN s = 1..1 /\ s = [i \in 1..1 |-> s[i]]
  OBVIOUS
<1>2. IsSequence(s) /\ Numbers(s) = 1..1
  BY <1>1, ListIs
<1> QED
  BY <1>1, <1>2

LEMMA SingleAccepted ==
    ASSUME call.door = "single", IsWebCall(call), BuiltSingle
    PROVE  IsWorkflow(workflow) /\ Rejection(workflow) = "none"
<1>1. PICK n \in Nat : n = Len(call.files) /\ DOMAIN call.files = 1..n
  BY ListDomain DEF IsWebCall, Numbers
<1>2. n > 0
  BY <1>1, LimitsAssumption DEF BuiltSingle, validate_single_request
<1> DEFINE refs == [i \in 1..n |-> <<"i", i>>]
           t0 == [id |-> <<"t", 0>>, inputs |-> refs]
           o0 == [id |-> <<"out", 0>>, from |-> <<"t", 0>>]
<1>3. /\ workflow.inputs = refs /\ workflow.tasks = <<t0>> /\ workflow.outputs = <<o0>>
      /\ workflow.zero_limit = FALSE /\ workflow.max_tasks = 256
  BY <1>1 DEF BuiltSingle, SingleWorkflow, SingleRefs, WebOutputs, DEFAULT_MAX_WORKFLOW_TASKS
<1>4. IsSequence(refs) /\ Len(refs) = n /\ Numbers(refs) = 1..n
  BY ListIs
<1>5. /\ IsSequence(workflow.tasks) /\ Numbers(workflow.tasks) = {1} /\ Len(workflow.tasks) = 1
      /\ workflow.tasks[1].id = <<"t", 0>> /\ workflow.tasks[1].inputs = refs
  <2>1. t0.id = <<"t", 0>> /\ t0.inputs = refs
    OBVIOUS
  <2> HIDE DEF t0
  <2> QED
    BY <1>3, <2>1, OneList
<1>6. /\ IsSequence(workflow.outputs) /\ Numbers(workflow.outputs) = {1}
      /\ workflow.outputs[1].id = <<"out", 0>> /\ workflow.outputs[1].from = <<"t", 0>>
  <2>1. o0.id = <<"out", 0>> /\ o0.from = <<"t", 0>>
    OBVIOUS
  <2> HIDE DEF o0
  <2> QED
    BY <1>3, <2>1, OneList
<1>7. \A i \in 1..n : refs[i] = <<"i", i>> /\ refs[i] \in {"i"} \X Nat
  OBVIOUS
<1> HIDE DEF refs
<1>8. IsWorkflow(workflow)
  <2>1. workflow.zero_limit \in BOOLEAN
    <3>1. workflow.zero_limit = FALSE
      BY <1>3
    <3> QED
      BY <3>1, Zenon
  <2> QED
    BY <1>3, <1>4, <1>5, <1>6, <2>1 DEF IsWorkflow, TasksAreLists
<1>9. Rejection(workflow) = "none"
  <2> DEFINE I == {"i"} \X Nat
             T == {"t"} \X Nat
             O == {"out"} \X Nat
  <2>1. I \cap T = {} /\ I \cap O = {} /\ T \cap O = {}
    OBVIOUS
  <2>2. EmptyId \notin I \cup T \cup O
    BY MadeUpIdsAssumption DEF MadeUpIds
  <2>3. /\ \A i \in Numbers(workflow.inputs) : workflow.inputs[i] \in I
        /\ \A i, j \in Numbers(workflow.inputs) :
               workflow.inputs[i] = workflow.inputs[j] => i = j
    BY <1>3, <1>4, <1>7
  <2>4. /\ \A t \in TaskNumbers : workflow.tasks[t].id \in T
        /\ \A t, d \in TaskNumbers : workflow.tasks[t].id = workflow.tasks[d].id => t = d
        /\ \A o \in Numbers(workflow.outputs) : workflow.outputs[o].id \in O
        /\ \A o, p \in Numbers(workflow.outputs) :
               workflow.outputs[o].id = workflow.outputs[p].id => o = p
        /\ \A o \in Numbers(workflow.outputs) :
               \E t \in TaskNumbers : workflow.outputs[o].from = workflow.tasks[t].id
    <3>1. /\ \A t \in TaskNumbers : t = 1
          /\ workflow.tasks[1].id \in T /\ workflow.outputs[1].id \in O /\ 1 \in TaskNumbers
      BY <1>5, <1>6 DEF TaskNumbers
    <3> HIDE DEF T, O
    <3> QED
      BY <1>5, <1>6, <3>1
  <2>5. ASSUME NEW t \in TaskNumbers
        PROVE  /\ Len(workflow.tasks[t].inputs) > 0
               /\ \A i \in Numbers(workflow.tasks[t].inputs) :
                      \E k \in Numbers(workflow.inputs) :
                          workflow.tasks[t].inputs[i] = workflow.inputs[k]
    BY <1>2, <1>3, <1>4, <1>5 DEF TaskNumbers
  <2>6. ~workflow.zero_limit /\ Len(workflow.tasks) <= workflow.max_tasks
    BY <1>3, <1>5
  <2> HIDE DEF I, T, O
  <2> QED
    BY <1>8, <2>1, <2>2, <2>3, <2>4, <2>5, <2>6, InOrderIsAccepted
<1> QED
  BY <1>8, <1>9

LEMMA StepsAccepted ==
    ASSUME call.door = "steps", IsWebCall(call), BuiltSteps
    PROVE  IsWorkflow(workflow) /\ Rejection(workflow) = "none"
<1>1. PICK m \in Nat : m = Len(call.tasks) /\ DOMAIN call.tasks = 1..m
  BY ListDomain DEF IsWebCall, Numbers
<1>2. /\ m > 0 /\ m <= 256
      /\ \A t \in 1..m : Len(call.tasks[t].inputs) > 0
  <2>1. m \in 1..MaxTasks /\ \A t \in 1..m : Len(call.tasks[t].inputs) \in 1..MaxInputs
    BY <1>1 DEF BuiltSteps, validate_workflow_request
  <2>2. MaxTasks \in 0..256 /\ MaxInputs \in Nat
    BY LimitsAssumption DEF DEFAULT_MAX_WORKFLOW_TASKS
  <2> QED
    BY <2>1, <2>2
<1>3. \A t \in 1..m : call.tasks[t].inputs \in Seq(StepSources(call.files))
  BY <1>1 DEF IsWebCall
<1>4. DOMAIN call.files \subseteq Nat
  BY ListDomain DEF IsWebCall, Numbers
<1> DEFINE ids == load_file_bytes(call.tasks)
           tasks == [t \in 1..m |-> [id |-> <<"t", t>>, inputs |-> StepInputs(t)]]
           o0 == [id |-> <<"out", 0>>, from |-> <<"t", m>>]
<1>5. /\ workflow.inputs = ids /\ workflow.tasks = tasks /\ workflow.outputs = <<o0>>
      /\ workflow.zero_limit = FALSE /\ workflow.max_tasks = 256
  BY <1>1 DEF BuiltSteps, StepsWorkflow, WebOutputs, DEFAULT_MAX_WORKFLOW_TASKS
<1>6. /\ ids \in Seq({"f"} \X Nat)
      /\ \A i, j \in 1..Len(ids) : ids[i] = ids[j] => i = j
      /\ \A t \in 1..m : \A i \in 1..Len(call.tasks[t].inputs) :
             call.tasks[t].inputs[i][1] = "file" =>
                 \E k \in 1..Len(ids) : ids[k] = <<"f", call.tasks[t].inputs[i][2]>>
  <2>1. IsSequence(call.tasks)
    BY DEF IsWebCall
  <2>2. Len(call.tasks) > 0
    BY <1>1, <1>2
  <2>3. \A t \in DOMAIN call.tasks : call.tasks[t].inputs \in Seq(StepSources(call.files))
    BY <1>1, <1>3
  <2>4. ids = load_file_bytes(call.tasks)
    OBVIOUS
  <2> HIDE DEF ids
  <2>5. Loaded(ids, call.tasks)
    BY <1>4, <2>1, <2>2, <2>3, <2>4, FilesLoaded
  <2> QED
    BY <1>1, <2>5 DEF Loaded
<1> HIDE DEF ids
<1>7. PICK n \in Nat : Len(ids) = n /\ DOMAIN ids = 1..n /\ \A i \in 1..n : ids[i] \in {"f"} \X Nat
  BY <1>6
<1>8. IsSequence(ids) /\ Numbers(ids) = 1..n
  <2>1. ids = [i \in 1..n |-> ids[i]]
    BY <1>6, <1>7
  <2> QED
    BY <2>1, ListIs
<1>9. IsSequence(tasks) /\ Len(tasks) = m /\ Numbers(tasks) = 1..m
  <2>1. tasks = [t \in 1..m |-> tasks[t]]
    OBVIOUS
  <2> HIDE DEF tasks
  <2> QED
    BY <2>1, ListIs
<1>10. ASSUME NEW t \in 1..m
       PROVE  /\ tasks[t].id = <<"t", t>> /\ tasks[t].inputs = StepInputs(t)
              /\ IsSequence(tasks[t].inputs) /\ Len(tasks[t].inputs) > 0
              /\ Numbers(tasks[t].inputs) = 1..Len(call.tasks[t].inputs)
              /\ \A i \in Numbers(tasks[t].inputs) :
                     \/ \E k \in 1..n : tasks[t].inputs[i] = ids[k]
                     \/ \E d \in 1..m : d < t /\ tasks[t].inputs[i] = <<"t", d>>
  <2> DEFINE ins == call.tasks[t].inputs
  <2>1. tasks[t].id = <<"t", t>> /\ tasks[t].inputs = StepInputs(t)
    OBVIOUS
  <2>2. PICK l \in Nat : /\ Len(ins) = l /\ DOMAIN ins = 1..l
                         /\ \A i \in 1..l : ins[i] \in StepSources(call.files)
    BY <1>3
  <2> HIDE DEF ins
  <2>3. StepInputs(t) = [i \in 1..l |-> StepRef(t, ins[i])]
    BY <2>2 DEF StepInputs, ins
  <2>4. IsSequence(StepInputs(t)) /\ Len(StepInputs(t)) = l /\ Numbers(StepInputs(t)) = 1..l
    <3>1. StepInputs(t) = [i \in 1..l |-> StepInputs(t)[i]]
      BY <2>3
    <3> QED
      BY <3>1, ListIs
  <2>5. l > 0
    BY <1>2, <2>2 DEF ins
  <2>6. ASSUME NEW i \in 1..l
        PROVE  \/ \E k \in 1..n : StepInputs(t)[i] = ids[k]
               \/ \E d \in 1..m : d < t /\ StepInputs(t)[i] = <<"t", d>>
    <3>1. StepInputs(t)[i] = StepRef(t, ins[i])
      BY <2>3
    <3>2. CASE ins[i][1] = "file"
      <4>1. StepRef(t, ins[i]) = <<"f", ins[i][2]>>
        BY <3>2 DEF StepRef
      <4>2. PICK k \in 1..n : ids[k] = <<"f", ins[i][2]>>
        BY <1>6, <1>7, <2>2, <3>2 DEF ins
      <4> QED
        BY <3>1, <4>1, <4>2
    <3>3. CASE ins[i][1] = "step"
      <4>1. ins[i][2] \in Nat \ {0}
        BY <2>2, <3>3 DEF StepSources
      <4>2. StepRef(t, ins[i]) # BadStep
        <5>1. BadStep \notin ToSet(StepInputs(t))
          BY <1>1 DEF BuiltSteps, GoodSteps
        <5> QED
          BY <2>3, <3>1, <5>1 DEF ToSet
      <4>3. ins[i][2] < t
        BY <3>3, <4>1, <4>2 DEF StepRef
      <4>4. StepRef(t, ins[i]) = <<"t", ins[i][2]>>
        BY <3>3, <4>1, <4>3 DEF StepRef
      <4>5. ins[i][2] \in 1..m
        BY <4>1, <4>3
      <4> QED
        BY <3>1, <4>3, <4>4, <4>5
    <3>4. ins[i][1] \in {"file", "step"}
      BY <2>2 DEF StepSources
    <3> QED
      BY <3>2, <3>3, <3>4
  <2> HIDE DEF tasks
  <2> QED
    BY <2>1, <2>2, <2>4, <2>5, <2>6 DEF ins
<1> HIDE DEF tasks
<1>11. /\ IsSequence(workflow.outputs) /\ Numbers(workflow.outputs) = {1}
       /\ workflow.outputs[1].id = <<"out", 0>> /\ workflow.outputs[1].from = <<"t", m>>
  <2>1. o0.id = <<"out", 0>> /\ o0.from = <<"t", m>>
    OBVIOUS
  <2> HIDE DEF o0
  <2> QED
    BY <1>5, <2>1, OneList
<1>12. IsWorkflow(workflow)
  <2>1. workflow.zero_limit \in BOOLEAN
    <3>1. workflow.zero_limit = FALSE
      BY <1>5
    <3> QED
      BY <3>1, Zenon
  <2> QED
    BY <1>5, <1>8, <1>9, <1>10, <1>11, <2>1 DEF IsWorkflow, TasksAreLists
<1>13. Rejection(workflow) = "none"
  <2> DEFINE I == {"f"} \X Nat
             T == {"t"} \X Nat
             O == {"out"} \X Nat
  <2>1. I \cap T = {} /\ I \cap O = {} /\ T \cap O = {}
    OBVIOUS
  <2>2. EmptyId \notin I \cup T \cup O
    BY MadeUpIdsAssumption DEF MadeUpIds
  <2>3. /\ \A i \in Numbers(workflow.inputs) : workflow.inputs[i] \in I
        /\ \A i, j \in Numbers(workflow.inputs) :
               workflow.inputs[i] = workflow.inputs[j] => i = j
    BY <1>5, <1>6, <1>7, <1>8
  <2>4. /\ \A t \in TaskNumbers : workflow.tasks[t].id \in T
        /\ \A t, d \in TaskNumbers : workflow.tasks[t].id = workflow.tasks[d].id => t = d
    <3>1. TaskNumbers = 1..m /\ workflow.tasks = tasks
      BY <1>5, <1>9 DEF TaskNumbers
    <3>2. \A t \in 1..m : tasks[t].id = <<"t", t>>
      BY <1>10
    <3>3. ASSUME NEW t \in TaskNumbers
          PROVE  workflow.tasks[t].id = <<"t", t>> /\ t \in 1..m
      <4>1. t \in 1..m
        BY <3>1
      <4> QED
        BY <3>1, <3>2, <4>1
    <3>4. ASSUME NEW t \in TaskNumbers PROVE workflow.tasks[t].id \in T
      <4>1. t \in Nat /\ workflow.tasks[t].id = <<"t", t>>
        BY <3>3
      <4>2. <<"t", t>> \in T
        BY <4>1
      <4> HIDE DEF T
      <4> QED
        BY <4>1, <4>2
    <3>5. ASSUME NEW t \in TaskNumbers, NEW d \in TaskNumbers,
                 workflow.tasks[t].id = workflow.tasks[d].id
          PROVE  t = d
      BY <3>3, <3>5
    <3> QED
      BY <3>4, <3>5
  <2>5. /\ \A o \in Numbers(workflow.outputs) : workflow.outputs[o].id \in O
        /\ \A o, p \in Numbers(workflow.outputs) :
               workflow.outputs[o].id = workflow.outputs[p].id => o = p
    <3>1. workflow.outputs[1].id \in O
      BY <1>11
    <3> HIDE DEF O
    <3> QED
      BY <1>11, <3>1
  <2>6. \A o \in Numbers(workflow.outputs) :
               \E t \in TaskNumbers : workflow.outputs[o].from = workflow.tasks[t].id
    <3>1. m \in TaskNumbers
      BY <1>2, <1>5, <1>9 DEF TaskNumbers
    <3>2. workflow.tasks[m].id = <<"t", m>>
      BY <1>2, <1>5, <1>10
    <3> QED
      BY <1>11, <3>1, <3>2
  <2>7. ASSUME NEW t \in TaskNumbers
        PROVE  /\ Len(workflow.tasks[t].inputs) > 0
               /\ \A i \in Numbers(workflow.tasks[t].inputs) :
                      \/ \E k \in Numbers(workflow.inputs) :
                             workflow.tasks[t].inputs[i] = workflow.inputs[k]
                      \/ \E d \in TaskNumbers :
                             d < t /\ workflow.tasks[t].inputs[i] = workflow.tasks[d].id
    <3>1. t \in 1..m /\ TaskNumbers = 1..m
      BY <1>5, <1>9 DEF TaskNumbers
    <3>2. Numbers(workflow.inputs) = 1..n /\ workflow.inputs = ids
      BY <1>5, <1>8
    <3>3. /\ Len(tasks[t].inputs) > 0
          /\ \A i \in Numbers(tasks[t].inputs) :
                 \/ \E k \in 1..n : tasks[t].inputs[i] = ids[k]
                 \/ \E d \in 1..m : d < t /\ tasks[t].inputs[i] = <<"t", d>>
      BY <1>10, <3>1
    <3>4. \A d \in 1..m : tasks[d].id = <<"t", d>>
      BY <1>10
    <3>5. workflow.tasks = tasks
      BY <1>5
    <3>6. \A i \in Numbers(tasks[t].inputs) :
              \/ \E k \in Numbers(workflow.inputs) : tasks[t].inputs[i] = workflow.inputs[k]
              \/ \E d \in TaskNumbers : d < t /\ tasks[t].inputs[i] = tasks[d].id
      BY <3>1, <3>2, <3>3, <3>4
    <3> QED
      BY <3>3, <3>5, <3>6, Zenon
  <2>8. ~workflow.zero_limit /\ Len(workflow.tasks) <= workflow.max_tasks
    BY <1>2, <1>5, <1>9
  <2> HIDE DEF I, T, O
  <2> QED
    BY <1>12, <2>1, <2>2, <2>3, <2>4, <2>5, <2>6, <2>7, <2>8, InOrderIsAccepted
<1> QED
  BY <1>12, <1>13

-----------------------------------------------------------------------------
(* What is handed from task to task.                                        *)

\* Every operator that runs is one of an offered family.
LEMMA LoadedIsWorkflow ==
    ASSUME FrontInv, Built
    PROVE  IsWorkflow(workflow) /\ (call.door \in {"single", "steps"} =>
                                        Rejection(workflow) = "none")
<1>1. CASE IsCommandCall(call)
  BY <1>1, CommandAccepted DEF IsCommandCall, FrontInv, BuiltInv
<1>2. CASE IsRunCall(call)
  BY <1>2 DEF IsRunCall, IsContent, FrontInv, BuiltInv, BuiltRun
<1>3. CASE IsWebCall(call)
  <2>1. call.door \in {"single", "steps"}
    BY <1>3 DEF IsWebCall
  <2> QED
    BY <1>3, <2>1, SingleAccepted, StepsAccepted DEF FrontInv, BuiltInv
<1> QED
  BY <1>1, <1>2, <1>3 DEF FrontInv, CallKept, IsCall

LEMMA WebFamilies ==
    ASSUME NEW r, IsRequest(r), parse_op(r) # Refused
    PROVE  parse_op(r).family \in OperatorFamilies
BY DEF parse_op, IsRequest, Sanitize, signature_options_without_trust_anchors, Operator

LEMMA OperatorFamiliesKept ==
    ASSUME FrontInv, Built, NEW t \in TaskNumbers
    PROVE  ops[t].family \in OperatorFamilies
<1>1. CASE IsCommandCall(call)
  <2>1. BuiltCommand /\ IsCommand(call) /\ call.door = "command"
    BY <1>1 DEF IsCommandCall, FrontInv, BuiltInv
  <2>2. TaskNumbers = {1}
    <3>1. Len(workflow.tasks) = 1
      BY <2>1, CommandAccepted
    <3> QED
      BY <3>1 DEF TaskNumbers, Numbers
  <2>3. 1 \in DOMAIN ops
    BY <2>1 DEF BuiltCommand
  <2> QED
    BY <2>1, <2>2, <2>3, BuiltOperatorsAreProper DEF ProperOperator, CliDoors
<1>2. CASE IsRunCall(call)
  <2>1. BuiltRun /\ IsContent(call.content) /\ call.door = "run"
    BY <1>2 DEF IsRunCall, FrontInv, BuiltInv
  <2>2. t \in DOMAIN ops
    BY <2>1 DEF BuiltRun, IsContent, TaskNumbers
  <2> QED
    BY <2>1, <2>2, BuiltOperatorsAreProper DEF ProperOperator, CliDoors
<1>3. CASE IsWebCall(call) /\ call.door = "single"
  <2>1. BuiltSingle /\ Len(call.tasks) = 1 /\ IsSequence(call.tasks)
    BY <1>3 DEF IsWebCall, FrontInv, BuiltInv
  <2>2. Len(workflow.tasks) = 1
    BY <2>1 DEF BuiltSingle, SingleWorkflow
  <2>3. t = 1 /\ 1 \in DOMAIN call.tasks
    BY <2>1, <2>2, ListDomain DEF TaskNumbers, Numbers
  <2>4. ops[1] = parse_op(call.tasks[1]) /\ ops[1] # Refused
    BY <2>1, <2>3 DEF BuiltSingle, WebOps
  <2>5. IsRequest(call.tasks[1])
    BY <1>3, <2>3 DEF IsWebCall
  <2> QED
    BY <2>3, <2>4, <2>5, WebFamilies
<1>4. CASE IsWebCall(call) /\ call.door = "steps"
  <2>1. BuiltSteps /\ IsSequence(call.tasks)
    BY <1>4 DEF IsWebCall, FrontInv, BuiltInv
  <2>2. PICK m \in Nat : m = Len(call.tasks) /\ DOMAIN call.tasks = 1..m
    BY <2>1, ListDomain DEF Numbers
  <2>3. Len(workflow.tasks) = m
    BY <2>1, <2>2 DEF BuiltSteps, StepsWorkflow
  <2>4. t \in DOMAIN call.tasks
    BY <2>2, <2>3 DEF TaskNumbers, Numbers
  <2>5. ops[t] = parse_op(call.tasks[t]) /\ ops[t] # Refused
    BY <2>1, <2>4 DEF BuiltSteps, WebOps, GoodSteps
  <2>6. IsRequest(call.tasks[t])
    BY <1>4, <2>4 DEF IsWebCall
  <2> QED
    BY <2>5, <2>6, WebFamilies
<1> QED
  BY <1>1, <1>2, <1>3, <1>4 DEF FrontInv, CallKept, IsCall, IsWebCall

LEMMA ChainsHold ==
    ASSUME FrontInv
    PROVE  ChainsKeepWorking
<1>1. ASSUME stage = "failed" PROVE ~Runs(ops[NextTask], Serialised(NextKinds))
  <2>1. Built /\ rejection = "none"
    BY <1>1 DEF Built, FrontInv, Validated
  <2>2. IsWorkflow(workflow) /\ Rejection(workflow) = "none" /\ plan = ExecutionPlan(workflow)
    BY <2>1, LoadedIsWorkflow DEF FrontInv, Validated
  <2>3. /\ done \in Nat /\ done < Len(plan.task_order) /\ ~Runs(ops[NextTask], NextKinds)
    BY <1>1 DEF FrontInv, RunInv
  <2>4. NextTask \in TaskNumbers
    <3>1. Len(plan.task_order) = Len(workflow.tasks)
          /\ \A k \in Numbers(plan.task_order) : plan.task_order[k] \in TaskNumbers
      BY <2>2, OrderIsWhole
    <3>2. Len(workflow.tasks) \in Nat
      BY <2>2, ListDomain DEF IsWorkflow, TasksAreLists
    <3>3. done + 1 \in Numbers(plan.task_order)
      BY <2>3, <3>1, <3>2 DEF Numbers
    <3> QED
      BY <3>1, <3>3 DEF NextTask
  <2>5. ops[NextTask].family \in OperatorFamilies
    BY <2>1, <2>4, OperatorFamiliesKept
  <2>6. PICK l \in Nat : DOMAIN workflow.tasks[NextTask].inputs = 1..l
    <3>1. IsSequence(workflow.tasks[NextTask].inputs)
      BY <2>2, <2>4 DEF IsWorkflow, TasksAreLists, TaskNumbers
    <3> QED
      BY <3>1, ListDomain DEF Numbers
  <2>7. Len(NextKinds) = l /\ DOMAIN NextKinds = 1..l
    BY <2>6 DEF NextKinds
  <2> QED
    BY <2>3, <2>5, <2>7, RunsParsed
<1>2. call.door \in {"single", "steps"} => stage # "rejected"
  <2>1. stage = "rejected" => Built /\ rejection = Rejection(workflow) /\ rejection # "none"
    BY DEF Built, FrontInv, Validated
  <2> QED
    BY <2>1, LoadedIsWorkflow
<1> QED
  BY <1>1, <1>2 DEF ChainsKeepWorking, Serialised

\* Wherever an operator fails in a chain of any length it would have failed on
\* the serialised documents too, and the workflow of every request that is not
\* refused is accepted.
THEOREM ChainsAlwaysWork == FrontSpec => []ChainsKeepWorking
BY FrontHolds, ChainsHold, PTL

\* The answer to every workflow, from whichever door it comes, is the right one,
\* and so is the plan of an accepted one.
THEOREM AnswersAreRight ==
    FrontSpec => [](AcceptsExactlyWellFormed /\ LayersAreDepths /\ SequentialEvictionIsSafe)
<1>1. FrontInv => AcceptsExactlyWellFormed /\ LayersAreDepths /\ SequentialEvictionIsSafe
  <2> SUFFICES ASSUME FrontInv
               PROVE  AcceptsExactlyWellFormed /\ LayersAreDepths /\ SequentialEvictionIsSafe
    OBVIOUS
  <2>1. CASE rejection = "pending"
    BY <2>1 DEF AcceptsExactlyWellFormed, LayersAreDepths, SequentialEvictionIsSafe, Accepted
  <2>2. CASE rejection # "pending"
    <3>1. Built
      BY <2>2 DEF FrontInv, Validated, Built
    <3>2. Answered
      BY <3>1, LoadedIsWorkflow DEF Answered, FrontInv, Validated
    <3> QED
      BY <3>2, AnsweredIsRight
  <2> QED
    BY <2>1, <2>2
<1> QED
  BY <1>1, FrontHolds, PTL
=============================================================================
