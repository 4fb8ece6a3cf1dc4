--------------------------- MODULE PageTreeProofs ---------------------------
(***************************************************************************)
(* For every document, every range of pages and every chain of operations: *)
(* the page tree stays one tree, and no operation makes an empty document  *)
(* or one over max_pages.                                                  *)
(*                                                                         *)
(* What is inductive is IsDocument.  The order of the pages plays no part  *)
(* in it, so the lemmas speak of the set of leaves; the number of pages    *)
(* is the Count of the root.  The order matters for what the operators     *)
(* promise, PageList: there the list of pages is what the tree yields.     *)
(***************************************************************************)
EXTENDS PageTree, FiniteSetTheorems, SequenceTheorems, WellFoundedInduction, TLAPS

-----------------------------------------------------------------------------
(* Counting up.                                                             *)

LEMMA LeastNumber ==
    ASSUME NEW S \in SUBSET Nat, S # {}
    PROVE  \E n \in S : \A m \in S : n <= m
<1>1. IsWellFoundedOn(OpToRel(<, Nat), Nat)
  BY NatLessThanWellFounded
<1>2. \E n \in S : \A m \in S : ~ (<<m, n>> \in OpToRel(<, Nat))
  BY <1>1, WFMin
<1>3. PICK n \in S : \A m \in S : ~ (m < n)
  BY <1>2 DEF OpToRel
<1> QED
  BY <1>3

\* What holds of 1 and is handed on holds up to N.
LEMMA CountingUp ==
    ASSUME NEW N \in Nat, NEW P, 1 \in P,
           \A k \in 1..(N - 1) : k \in P => k + 1 \in P
    PROVE  1..N \subseteq P
<1>1. SUFFICES ASSUME (1..N) \ P # {} PROVE FALSE
  OBVIOUS
<1>2. PICK n \in (1..N) \ P : \A m \in (1..N) \ P : n <= m
  <2>1. (1..N) \ P \in SUBSET Nat
    OBVIOUS
  <2> QED
    BY <1>1, <2>1, LeastNumber
<1>3. n # 1 /\ n - 1 \in 1..(N - 1)
  BY <1>2
<1>4. n - 1 \in P
  BY <1>2, <1>3
<1> QED
  BY <1>2, <1>3, <1>4

LEMMA UpTo ==
    ASSUME NEW n \in Nat
    PROVE  /\ IsFiniteSet(1..n) /\ Cardinality(1..n) = n
           /\ IsFiniteSet(0..(n - 1)) /\ Cardinality(0..(n - 1)) = n
<1>1. IsFiniteSet(1..n) /\ Cardinality(1..n) = n
  BY FS_Interval
<1>2. IsFiniteSet(0..(n - 1)) /\ Cardinality(0..(n - 1)) = n
  BY FS_Interval
<1> QED
  BY <1>1, <1>2

-----------------------------------------------------------------------------
(* Sequences that list the members of a set.                                *)

LEMMA SeqMembers ==
    ASSUME NEW s \in Seq(Nat)
    PROVE  /\ Len(s) \in Nat /\ DOMAIN s = 1..Len(s) /\ s = [i \in 1..Len(s) |-> s[i]]
           /\ \A i \in 1..Len(s) : s[i] \in Nat
OBVIOUS

Lists(s, S) == s \in Seq(Nat) /\ IsInjective(s) /\ ToSet(s) = S

LEMMA ListLength ==
    ASSUME NEW s, NEW S, Lists(s, S)
    PROVE  IsFiniteSet(S) /\ Cardinality(S) = Len(s)
<1>1. PICK n \in Nat : n = Len(s)
  BY DEF Lists
<1>2. s \in [1..n -> Nat] /\ DOMAIN s = 1..n
  BY <1>1 DEF Lists
<1>3. s \in Bijection(1..n, S)
  <2>1. s \in [1..n -> S]
    BY <1>2 DEF Lists, ToSet
  <2>2. \A y \in S : \E i \in 1..n : s[i] = y
    BY <1>2 DEF Lists, ToSet
  <2> QED
    BY <1>2, <2>1, <2>2 DEF Lists, Bijection, Injection, Surjection, IsInjective
<1>4. IsFiniteSet(1..n) /\ Cardinality(1..n) = n
  BY UpTo
<1> QED
  BY <1>1, <1>3, <1>4, FS_Bijection DEF ExistsBijection

\* A list has as many elements as members exactly when none is repeated.
LEMMA NoneTwice ==
    ASSUME NEW s \in Seq(Nat), Cardinality(ToSet(s)) = Len(s)
    PROVE  Lists(s, ToSet(s))
<1>1. PICK n \in Nat : n = Len(s) /\ DOMAIN s = 1..n
  OBVIOUS
<1>2. PICK S : S = ToSet(s)
  OBVIOUS
<1>3. s \in Surjection(1..n, S)
  <2>1. s \in [1..n -> S]
    <3>1. s \in [1..n -> Nat]
      BY <1>1
    <3>2. \A i \in 1..n : s[i] \in S
      BY <1>1, <1>2 DEF ToSet
    <3> QED
      BY <3>1, <3>2
  <2>2. \A y \in S : \E i \in 1..n : s[i] = y
    BY <1>1, <1>2 DEF ToSet
  <2> QED
    BY <2>1, <2>2 DEF Surjection
<1>4. IsFiniteSet(1..n) /\ Cardinality(1..n) = n
  BY UpTo
<1>5. s \in Injection(1..n, S)
  BY <1>1, <1>2, <1>3, <1>4, FS_Surjection
<1> QED
  BY <1>1, <1>5 DEF Injection, IsInjective, Lists

LEMMA ListConcat ==
    ASSUME NEW s, NEW S, Lists(s, S), NEW r, NEW R, Lists(r, R), S \cap R = {}
    PROVE  Lists(s \o r, S \cup R)
<1> DEFINE c == s \o r
<1>0. PICK n \in Nat, m \in Nat : n = Len(s) /\ m = Len(r)
  BY DEF Lists
<1>1. /\ Len(c) = n + m /\ c \in Seq(Nat)
      /\ \A i \in 1..n : c[i] = s[i]
      /\ \A i \in (n + 1)..(n + m) : c[i] = r[i - n]
  BY <1>0 DEF Lists
<1>2. DOMAIN c = 1..(n + m) /\ DOMAIN s = 1..n /\ DOMAIN r = 1..m
  BY <1>0, <1>1 DEF Lists
<1>3. \A i \in 1..n : s[i] \in S
  BY <1>2 DEF Lists, ToSet
<1>4. \A i \in 1..m : r[i] \in R
  BY <1>2 DEF Lists, ToSet
<1> HIDE DEF c
<1>5. \A i \in 1..(n + m) : i \in 1..n \/ (i \in (n + 1)..(n + m) /\ i - n \in 1..m)
  OBVIOUS
<1>6. ASSUME NEW i \in 1..(n + m), NEW j \in 1..(n + m), c[i] = c[j] PROVE i = j
  <2>1. CASE i \in 1..n /\ j \in 1..n
    BY <1>1, <1>2, <1>6, <2>1 DEF Lists, IsInjective
  <2>2. CASE i \in (n + 1)..(n + m) /\ j \in (n + 1)..(n + m)
    <3>1. r[i - n] = r[j - n] /\ i - n \in 1..m /\ j - n \in 1..m
      BY <1>1, <1>6, <2>2, SMTT(30)
    <3>2. i - n = j - n
      BY <1>2, <3>1 DEF Lists, IsInjective
    <3> QED
      BY <2>2, <3>2
  <2>3. CASE i \in 1..n /\ j \in (n + 1)..(n + m)
    <3>1. s[i] = r[j - n] /\ j - n \in 1..m
      BY <1>1, <1>6, <2>3, SMTT(30)
    <3> QED
      BY <1>3, <1>4, <2>3, <3>1
  <2>4. CASE j \in 1..n /\ i \in (n + 1)..(n + m)
    <3>1. s[j] = r[i - n] /\ i - n \in 1..m
      BY <1>1, <1>6, <2>4
    <3> QED
      BY <1>3, <1>4, <2>4, <3>1
  <2> QED
    BY <1>5, <2>1, <2>2, <2>3, <2>4
<1>7. ToSet(c) = S \cup R
  <2>1. ASSUME NEW x \in ToSet(c) PROVE x \in S \cup R
    <3>1. PICK i \in 1..(n + m) : x = c[i]
      BY <1>2 DEF ToSet
    <3> QED
      BY <1>1, <1>3, <1>4, <1>5, <3>1
  <2>2. ASSUME NEW x \in S PROVE x \in ToSet(c)
    <3>1. PICK i \in 1..n : x = s[i]
      BY <1>2 DEF Lists, ToSet
    <3>2. i \in 1..(n + m) /\ c[i] = x
      BY <1>1, <3>1
    <3> QED
      BY <1>2, <3>2 DEF ToSet
  <2>3. ASSUME NEW x \in R PROVE x \in ToSet(c)
    <3>1. PICK i \in 1..m : x = r[i]
      BY <1>2 DEF Lists, ToSet
    <3>2. i + n \in (n + 1)..(n + m) /\ (i + n) - n = i /\ i + n \in 1..(n + m)
      BY <3>1
    <3>3. c[i + n] = x
      BY <1>1, <3>1, <3>2
    <3> QED
      BY <1>2, <3>2, <3>3 DEF ToSet
  <2> QED
    BY <2>1, <2>2, <2>3
<1>8. Lists(c, S \cup R)
  BY <1>1, <1>2, <1>6, <1>7 DEF Lists, IsInjective
<1> QED
  BY <1>8 DEF c

\* How many members of S are smaller.
Rank(S, x) == Cardinality({m \in S : m < x})

LEMMA Ranks ==
    ASSUME NEW S \in SUBSET Nat, IsFiniteSet(S)
    PROVE  /\ \A x \in S : Rank(S, x) \in 0..(Cardinality(S) - 1)
           /\ \A x, y \in S : x < y => Rank(S, x) < Rank(S, y)
<1> DEFINE Below(x) == {m \in S : m < x}
<1>1. PICK n \in Nat : n = Cardinality(S)
  BY FS_CardinalityType
<1>2. ASSUME NEW x \in S
      PROVE  IsFiniteSet(Below(x)) /\ Cardinality(Below(x)) \in 0..(n - 1)
  <2>1. Below(x) \in SUBSET S /\ Below(x) # S
    OBVIOUS
  <2>2. PICK B \in SUBSET S : B = Below(x)
    BY <2>1
  <2>3. IsFiniteSet(B) /\ Cardinality(B) <= n /\ Cardinality(B) # n /\ Cardinality(B) \in Nat
    BY <1>1, <2>1, <2>2, FS_Subset, FS_CardinalityType
  <2> QED
    BY <2>2, <2>3
<1>3. ASSUME NEW x \in S, NEW y \in S, x < y PROVE Cardinality(Below(x)) < Cardinality(Below(y))
  <2>1. PICK B, C : B = Below(x) /\ C = Below(y)
    OBVIOUS
  <2>2. B \in SUBSET C /\ x \in C /\ x \notin B
    <3>1. ASSUME NEW m \in B PROVE m \in C
      BY <1>3, <2>1
    <3>2. x \in C
      BY <1>3, <2>1
    <3>3. x \notin B
      BY <2>1
    <3> QED
      BY <3>1, <3>2, <3>3
  <2>3. IsFiniteSet(C)
    BY <1>2, <2>1
  <2>4. Cardinality(B) <= Cardinality(C) /\ Cardinality(B) # Cardinality(C)
    BY <2>2, <2>3, FS_Subset
  <2>5. Cardinality(B) \in Nat /\ Cardinality(C) \in Nat
    BY <1>2, <2>1
  <2> QED
    BY <2>1, <2>4, <2>5
<1> QED
  BY <1>1, <1>2, <1>3 DEF Rank

\* Ascending lists its set: the ranks of n members are the numbers 0 to n - 1.
LEMMA AscendingLists ==
    ASSUME NEW S \in SUBSET Nat, IsFiniteSet(S)
    PROVE  /\ Lists(Ascending(S), S)
           /\ \A k \in DOMAIN Ascending(S) : Rank(S, Ascending(S)[k]) = k - 1
<1> DEFINE rank == [x \in S |-> Rank(S, x)]
<1>1. PICK n \in Nat : n = Cardinality(S)
  BY FS_CardinalityType
<1>3. ASSUME NEW x \in S, NEW y \in S, x < y PROVE rank[x] < rank[y]
  BY <1>3, Ranks
<1>4. rank \in [S -> 0..(n - 1)]
  BY <1>1, Ranks
<1> HIDE DEF rank
<1>5. rank \in Injection(S, 0..(n - 1))
  <2>1. ASSUME NEW x \in S, NEW y \in S, rank[x] = rank[y] PROVE x = y
    <3>1. ~ (x < y) /\ ~ (y < x)
      BY <1>3, <1>4, <2>1
    <3> QED
      BY <3>1
  <2> QED
    BY <1>4, <2>1 DEF Injection, IsInjective
<1>6. IsFiniteSet(0..(n - 1)) /\ Cardinality(0..(n - 1)) = n
  BY UpTo
<1>7. \A k \in 0..(n - 1) : \E x \in S : rank[x] = k
  <2>1. PICK T : T = 0..(n - 1)
    OBVIOUS
  <2>2. rank \in Injection(S, T) /\ IsFiniteSet(T) /\ Cardinality(S) = Cardinality(T)
    BY <1>1, <1>5, <1>6, <2>1
  <2>3. rank \in Surjection(S, T)
    BY <2>2, FS_Injection
  <2> QED
    BY <2>1, <2>3 DEF Surjection
<1> DEFINE s == Ascending(S)
<1>8. ASSUME NEW k \in 1..n PROVE s[k] \in S /\ rank[s[k]] = k - 1
  <2>1. k - 1 \in 0..(n - 1)
    OBVIOUS
  <2>2. \E x \in S : Cardinality({m \in S : m < x}) = k - 1
    BY <1>7, <2>1 DEF rank, Rank
  <2>3. s[k] = CHOOSE x \in S : Cardinality({m \in S : m < x}) = k - 1
    BY <1>1 DEF Ascending
  <2> QED
    BY <2>2, <2>3 DEF rank, Rank
<1>9. DOMAIN s = 1..n /\ Len(s) = n /\ s \in Seq(Nat)
  <2>1. s = [k \in 1..n |-> s[k]]
    <3> DEFINE Ranked(k) == CHOOSE x \in S : Cardinality({m \in S : m < x}) = k - 1
    <3>1. s = [k \in 1..n |-> Ranked(k)]
      BY <1>1 DEF Ascending
    <3> HIDE DEF Ranked, s
    <3> QED
      BY <3>1
  <2>2. \A k \in 1..n : s[k] \in Nat
    BY <1>8
  <2> HIDE DEF s
  <2> QED
    BY <2>1, <2>2
<1> HIDE DEF s
<1>10. ASSUME NEW i \in 1..n, NEW j \in 1..n, s[i] = s[j] PROVE i = j
  BY <1>8, <1>10
<1>11. ASSUME NEW x \in S PROVE \E k \in 1..n : s[k] = x
  <2>1. PICK k \in 1..n : k = rank[x] + 1
    BY <1>4
  <2>2. rank[s[k]] = rank[x] /\ s[k] \in S
    BY <1>4, <1>8, <2>1
  <2> QED
    BY <1>5, <2>2 DEF Injection, IsInjective
<1>12. ToSet(s) = S
  <2>1. \A k \in 1..n : s[k] \in S
    BY <1>8
  <2> QED
    BY <1>9, <1>11, <2>1 DEF ToSet
<1>13. Lists(s, S)
  BY <1>9, <1>10, <1>12 DEF Lists, IsInjective
<1>14. \A k \in DOMAIN s : Rank(S, s[k]) = k - 1
  <2> TAKE k \in DOMAIN s
  <2>1. s[k] \in S /\ rank[s[k]] = k - 1
    BY <1>8, <1>9
  <2> QED
    BY <2>1 DEF rank
<1> QED
  BY <1>13, <1>14 DEF s

-----------------------------------------------------------------------------
(* FlattenSeq joins sequences from the first to the last.                   *)

LEMMA FlattenGrows ==
    ASSUME NEW n \in Nat \ {0}, NEW parts, Len(parts) = n
    PROVE  \E f : /\ f[1] = parts[1] /\ f[n] = FlattenSeq(parts)
                  /\ \A k \in 1..(n - 1) : f[k + 1] = f[k] \o parts[k + 1]
<1> DEFINE Solution(f, m) == f = [k \in 1..m |-> IF k = 1 THEN parts[k] ELSE f[k - 1] \o parts[k]]
           P == {m \in 1..n : \E f : Solution(f, m)}
<1>1. 1 \in P
  <2>1. Solution([k \in 1..1 |-> parts[1]], 1)
    OBVIOUS
  <2>2. 1 \in 1..n
    OBVIOUS
  <2> HIDE DEF Solution
  <2> QED
    BY <2>1, <2>2
<1>2. ASSUME NEW m \in 1..(n - 1), m \in P PROVE m + 1 \in P
  <2>1. PICK f : Solution(f, m)
    BY <1>2
  <2> DEFINE g == [k \in 1..(m + 1) |-> IF k = m + 1 THEN f[m] \o parts[m + 1] ELSE f[k]]
  <2>2. m \in Nat \ {0} /\ m + 1 \in 1..n /\ (m + 1) - 1 = m /\ m + 1 # 1
    OBVIOUS
  <2>3. ASSUME NEW k \in 1..(m + 1)
        PROVE  g[k] = IF k = 1 THEN parts[k] ELSE g[k - 1] \o parts[k]
    <3>1. CASE k = m + 1
      <4>1. g[k] = f[m] \o parts[k]
        BY <3>1
      <4>2. g[m] = f[m]
        <5>1. m \in 1..(m + 1) /\ m # m + 1
          OBVIOUS
        <5> QED
          BY <5>1
      <4>3. k # 1 /\ k - 1 = m
        BY <3>1
      <4> HIDE DEF g
      <4> QED
        BY <4>1, <4>2, <4>3
    <3>2. CASE k # m + 1
      <4>1. k \in 1..m /\ (k # 1 => k - 1 \in 1..(m + 1) /\ k - 1 # m + 1)
        BY <3>2
      <4>2. g[k] = f[k] /\ (k # 1 => g[k - 1] = f[k - 1])
        BY <3>2, <4>1
      <4>3. f[k] = IF k = 1 THEN parts[k] ELSE f[k - 1] \o parts[k]
        BY <2>1, <4>1
      <4> HIDE DEF g
      <4> QED
        BY <4>2, <4>3
    <3> QED
      BY <3>1, <3>2
  <2>4. g = [k \in 1..(m + 1) |-> g[k]]
    OBVIOUS
  <2> HIDE DEF g
  <2>5. Solution(g, m + 1)
    BY <2>3, <2>4
  <2> QED
    BY <2>2, <2>5
<1>3. n \in P
  <2>1. n \in Nat /\ n \in 1..n
    OBVIOUS
  <2> HIDE DEF P
  <2> QED
    BY <1>1, <1>2, <2>1, CountingUp
<1> DEFINE whole == CHOOSE f : Solution(f, n)
<1>4. Solution(whole, n)
  BY <1>3
<1>5. FlattenSeq(parts) = whole[n]
  <2>1. FlattenSeq(parts) =
            (CHOOSE f : f = [k \in 1..n |-> IF k = 1 THEN parts[k] ELSE f[k - 1] \o parts[k]])[n]
    BY DEF FlattenSeq
  <2> QED
    BY <2>1
<1> HIDE DEF whole
<1>6. whole[1] = parts[1]
  BY <1>4
<1>7. ASSUME NEW k \in 1..(n - 1) PROVE whole[k + 1] = whole[k] \o parts[k + 1]
  <2>1. k + 1 \in 1..n /\ k + 1 # 1 /\ (k + 1) - 1 = k
    OBVIOUS
  <2> QED
    BY <1>4, <2>1
<1> QED
  BY <1>5, <1>6, <1>7

LEMMA FlattenLists ==
    ASSUME NEW n \in Nat \ {0}, NEW parts, Len(parts) = n, NEW S,
           \A k \in 1..n : Lists(parts[k], S[k]),
           \A j, k \in 1..n : j # k => S[j] \cap S[k] = {}
    PROVE  Lists(FlattenSeq(parts), UNION {S[k] : k \in 1..n})
<1>1. PICK f : /\ f[1] = parts[1] /\ f[n] = FlattenSeq(parts)
               /\ \A k \in 1..(n - 1) : f[k + 1] = f[k] \o parts[k + 1]
  BY FlattenGrows
<1> DEFINE U(k) == UNION {S[j] : j \in 1..k}
           P == {k \in 1..n : Lists(f[k], U(k))}
<1>2. 1 \in P
  <2>1. U(1) = S[1]
    OBVIOUS
  <2>2. Lists(f[1], S[1]) /\ 1 \in 1..n
    BY <1>1
  <2> HIDE DEF U
  <2> QED
    BY <2>1, <2>2
<1>3. ASSUME NEW k \in 1..(n - 1), k \in P PROVE k + 1 \in P
  <2>1. k + 1 \in 1..n /\ 1..(k + 1) = (1..k) \cup {k + 1} /\ \A j \in 1..k : j \in 1..n /\ j # k + 1
    OBVIOUS
  <2>2. U(k + 1) = U(k) \cup S[k + 1]
    BY <2>1
  <2>3. U(k) \cap S[k + 1] = {}
    BY <2>1
  <2>4. PICK s, r, A, R : s = f[k] /\ r = parts[k + 1] /\ A = U(k) /\ R = S[k + 1]
    OBVIOUS
  <2>5. Lists(s, A) /\ Lists(r, R) /\ A \cap R = {}
    BY <1>3, <2>1, <2>3, <2>4
  <2>6. Lists(s \o r, A \cup R)
    BY <2>5, ListConcat
  <2> HIDE DEF U
  <2> QED
    BY <1>1, <2>1, <2>2, <2>4, <2>6
<1>4. n \in P
  <2>1. n \in Nat /\ n \in 1..n
    OBVIOUS
  <2> HIDE DEF P
  <2> QED
    BY <1>2, <1>3, <2>1, CountingUp
<1> QED
  BY <1>1, <1>4

LEMMA ConcatMembers ==
    ASSUME NEW s \in Seq(Nat), NEW r \in Seq(Nat)
    PROVE  s \o r \in Seq(Nat) /\ ToSet(s \o r) = ToSet(s) \cup ToSet(r)
<1> DEFINE c == s \o r
<1>0. PICK n \in Nat, m \in Nat : n = Len(s) /\ m = Len(r)
  OBVIOUS
<1>1. /\ Len(c) = n + m /\ c \in Seq(Nat)
      /\ \A i \in 1..n : c[i] = s[i]
      /\ \A i \in (n + 1)..(n + m) : c[i] = r[i - n]
  BY <1>0
<1>2. DOMAIN c = 1..(n + m) /\ DOMAIN s = 1..n /\ DOMAIN r = 1..m
  BY <1>0, <1>1
<1> HIDE DEF c
<1>3. ASSUME NEW x \in ToSet(c) PROVE x \in ToSet(s) \cup ToSet(r)
  <2>1. PICK i \in 1..(n + m) : x = c[i]
    BY <1>2 DEF ToSet
  <2>2. i \in 1..n \/ (i \in (n + 1)..(n + m) /\ i - n \in 1..m)
    OBVIOUS
  <2> QED
    BY <1>1, <1>2, <2>1, <2>2 DEF ToSet
<1>4. ASSUME NEW x \in ToSet(s) PROVE x \in ToSet(c)
  <2>1. PICK i \in 1..n : x = s[i]
    BY <1>2 DEF ToSet
  <2>2. i \in 1..(n + m) /\ c[i] = x
    BY <1>1, <2>1
  <2> QED
    BY <1>2, <2>2 DEF ToSet
<1>5. ASSUME NEW x \in ToSet(r) PROVE x \in ToSet(c)
  <2>1. PICK i \in 1..m : x = r[i]
    BY <1>2 DEF ToSet
  <2>2. i + n \in (n + 1)..(n + m) /\ (i + n) - n = i /\ i + n \in 1..(n + m)
    OBVIOUS
  <2>3. c[i + n] = x
    BY <1>1, <2>1, <2>2
  <2> QED
    BY <1>2, <2>2, <2>3 DEF ToSet
<1>6. c \in Seq(Nat) /\ ToSet(c) = ToSet(s) \cup ToSet(r)
  BY <1>1, <1>3, <1>4, <1>5
<1> QED
  BY <1>6 DEF c

LEMMA FlattenMembers ==
    ASSUME NEW n \in Nat \ {0}, NEW parts, Len(parts) = n, \A k \in 1..n : parts[k] \in Seq(Nat)
    PROVE  /\ FlattenSeq(parts) \in Seq(Nat)
           /\ ToSet(FlattenSeq(parts)) = UNION {ToSet(parts[k]) : k \in 1..n}
<1>1. PICK f : /\ f[1] = parts[1] /\ f[n] = FlattenSeq(parts)
               /\ \A k \in 1..(n - 1) : f[k + 1] = f[k] \o parts[k + 1]
  BY FlattenGrows
<1> DEFINE U(k) == UNION {ToSet(parts[j]) : j \in 1..k}
           P == {k \in 1..n : f[k] \in Seq(Nat) /\ ToSet(f[k]) = U(k)}
<1>2. 1 \in P
  <2>1. U(1) = ToSet(parts[1])
    OBVIOUS
  <2>2. f[1] \in Seq(Nat) /\ f[1] = parts[1] /\ 1 \in 1..n
    BY <1>1
  <2> HIDE DEF U
  <2> QED
    BY <2>1, <2>2
<1>3. ASSUME NEW k \in 1..(n - 1), k \in P PROVE k + 1 \in P
  <2>1. k + 1 \in 1..n /\ 1..(k + 1) = (1..k) \cup {k + 1}
    OBVIOUS
  <2>2. U(k + 1) = U(k) \cup ToSet(parts[k + 1])
    BY <2>1
  <2>3. PICK s, r : s = f[k] /\ r = parts[k + 1]
    OBVIOUS
  <2>4. s \in Seq(Nat) /\ r \in Seq(Nat) /\ ToSet(s) = U(k)
    BY <1>3, <2>1, <2>3
  <2>5. s \o r \in Seq(Nat) /\ ToSet(s \o r) = ToSet(s) \cup ToSet(r)
    BY <2>4, ConcatMembers
  <2> HIDE DEF U
  <2> QED
    BY <1>1, <2>1, <2>2, <2>3, <2>4, <2>5
<1>4. n \in P
  <2>1. n \in Nat /\ n \in 1..n
    OBVIOUS
  <2> HIDE DEF P
  <2> QED
    BY <1>2, <1>3, <2>1, CountingUp
<1> QED
  BY <1>1, <1>4

-----------------------------------------------------------------------------
(* A document's pages.                                                      *)

LEMMA TreeFacts ==
    ASSUME NEW doc, IsDocument(doc)
    PROVE  /\ doc.root \in Ids(doc) /\ doc.root \notin Nodes(doc)
           /\ \A id \in {doc.root} \cup Nodes(doc) :
                  /\ id \in Ids(doc) /\ Lists(doc.objects[id].kids, Kids(doc, id))
                  /\ \A kid \in Kids(doc, id) : kid \in Ids(doc) /\ doc.objects[kid].parent = id
           /\ \A id \in Nodes(doc) : Leaves(doc, id) = Kids(doc, id)
           /\ AllLeaves(doc) \in SUBSET Ids(doc)
           /\ \A id \in AllLeaves(doc) : IsPage(doc, id)
<1>1. doc.root \notin Nodes(doc)
  BY DEF IsDocument, IsGraph, Nodes
<1>2. ASSUME NEW id \in {doc.root} \cup Nodes(doc)
      PROVE  /\ id \in Ids(doc) /\ Lists(doc.objects[id].kids, Kids(doc, id))
             /\ \A kid \in Kids(doc, id) : kid \in Ids(doc) /\ doc.objects[kid].parent = id
  <2>1. id \in Ids(doc)
    BY DEF IsDocument, IsGraph, Nodes
  <2>2. doc.objects[id].kids \in Seq(Nat)
    BY <2>1 DEF IsDocument, IsGraph, IsObject
  <2> QED
    BY <2>1, <2>2 DEF IsDocument, IsGraph, Lists, Kids
<1>3. \A id \in Nodes(doc) : Leaves(doc, id) = Kids(doc, id)
  BY DEF IsDocument, IsGraph, Leaves
<1>4. \A id \in AllLeaves(doc) : id \in Ids(doc) /\ IsPage(doc, id)
  BY <1>2 DEF AllLeaves, Leaves
<1> QED
  BY <1>1, <1>2, <1>3, <1>4 DEF IsDocument, IsGraph

LEMMA OneElement ==
    ASSUME NEW x \in Nat
    PROVE  Lists(<<x>>, {x})
BY DEF Lists, IsInjective, ToSet

LEMMA PagesListed ==
    ASSUME NEW doc, IsDocument(doc)
    PROVE  /\ Lists(PageIds(doc), AllLeaves(doc))
           /\ PageCount(doc) = Cardinality(AllLeaves(doc))
           /\ PageCount(doc) = doc.objects[doc.root].count
           /\ PageCount(doc) \in Nat \ {0}
<1>1. PICK kids : kids = doc.objects[doc.root].kids
  OBVIOUS
<1>2. Lists(kids, Kids(doc, doc.root))
  BY <1>1, TreeFacts
<1>3. PICK n \in Nat : n = Len(kids) /\ DOMAIN kids = 1..n
  BY <1>2 DEF Lists
<1> DEFINE parts == [k \in DOMAIN kids |-> IF IsPage(doc, kids[k]) THEN <<kids[k]>>
                                           ELSE doc.objects[kids[k]].kids]
           S == [k \in DOMAIN kids |-> IF IsPage(doc, kids[k]) THEN {kids[k]}
                                       ELSE Leaves(doc, kids[k])]
<1>4. PageIds(doc) = FlattenSeq(parts)
  BY <1>1 DEF PageIds
<1>5. ASSUME NEW k \in 1..n
      PROVE  /\ kids[k] \in Kids(doc, doc.root) /\ kids[k] \in Nat
             /\ kids[k] \in Nodes(doc) <=> ~ IsPage(doc, kids[k])
  <2>1. kids[k] \in Kids(doc, doc.root)
    BY <1>2, <1>3 DEF Lists, ToSet
  <2> QED
    BY <1>2, <1>3, <2>1 DEF Nodes, Lists
<1>6. ASSUME NEW k \in 1..n PROVE Lists(parts[k], S[k])
  <2>1. CASE IsPage(doc, kids[k])
    <3>1. parts[k] = <<kids[k]>> /\ S[k] = {kids[k]}
      BY <1>3, <2>1
    <3>2. PICK x \in Nat : x = kids[k]
      BY <1>5
    <3> HIDE DEF parts, S
    <3> QED
      BY <3>1, <3>2, OneElement
  <2>2. CASE ~ IsPage(doc, kids[k])
    <3>1. parts[k] = doc.objects[kids[k]].kids /\ S[k] = Leaves(doc, kids[k])
      BY <1>3, <2>2
    <3>2. kids[k] \in Nodes(doc)
      BY <1>5, <2>2
    <3> HIDE DEF parts, S
    <3> QED
      BY <3>1, <3>2, TreeFacts
  <2> QED
    BY <2>1, <2>2
<1>7. ASSUME NEW k \in 1..n, NEW x \in S[k]
      PROVE  \/ x = kids[k] /\ doc.objects[x].parent = doc.root
             \/ kids[k] \in Nodes(doc) /\ doc.objects[x].parent = kids[k]
  <2>1. CASE IsPage(doc, kids[k])
    <3>1. x = kids[k]
      BY <1>3, <1>7, <2>1
    <3> QED
      BY <1>5, <3>1, TreeFacts
  <2>2. CASE ~ IsPage(doc, kids[k])
    <3>1. x \in Leaves(doc, kids[k])
      BY <1>3, <1>7, <2>2
    <3>2. kids[k] \in Nodes(doc)
      BY <1>5, <2>2
    <3> QED
      BY <3>1, <3>2, TreeFacts DEF Leaves
  <2> QED
    BY <2>1, <2>2
<1>8. ASSUME NEW j \in 1..n, NEW k \in 1..n, j # k PROVE S[j] \cap S[k] = {}
  <2>1. kids[j] # kids[k]
    BY <1>2, <1>3, <1>8 DEF Lists, IsInjective
  <2>2. doc.root \notin Nodes(doc)
    BY TreeFacts
  <2>3. ASSUME NEW x \in S[j], x \in S[k] PROVE FALSE
    BY <1>7, <2>1, <2>2, <2>3
  <2> QED
    BY <2>3
<1>9. UNION {S[k] : k \in 1..n} = AllLeaves(doc)
  <2>1. ASSUME NEW k \in 1..n, NEW x \in S[k] PROVE x \in AllLeaves(doc)
    <3>1. CASE IsPage(doc, kids[k])
      <4>1. x = kids[k]
        BY <1>3, <2>1, <3>1
      <4> QED
        BY <1>5, <3>1, <4>1 DEF AllLeaves, Leaves
    <3>2. CASE ~ IsPage(doc, kids[k])
      <4>1. x \in Leaves(doc, kids[k])
        BY <1>3, <2>1, <3>2
      <4> QED
        BY <1>5, <3>2, <4>1 DEF AllLeaves
    <3> QED
      BY <3>1, <3>2
  <2>2. ASSUME NEW id \in Kids(doc, doc.root)
        PROVE  \E k \in 1..n : kids[k] = id
    BY <1>2, <1>3 DEF Lists, ToSet
  <2>3. ASSUME NEW x \in Leaves(doc, doc.root) PROVE \E k \in 1..n : x \in S[k]
    <3>1. PICK k \in 1..n : kids[k] = x
      BY <2>2 DEF Leaves
    <3>2. S[k] = {x}
      BY <1>3, <3>1 DEF Leaves
    <3> QED
      BY <3>2
  <2>4. ASSUME NEW id \in Nodes(doc), NEW x \in Leaves(doc, id) PROVE \E k \in 1..n : x \in S[k]
    <3>1. PICK k \in 1..n : kids[k] = id
      BY <2>2 DEF Nodes
    <3>2. S[k] = Leaves(doc, id)
      BY <1>3, <3>1 DEF Nodes
    <3> QED
      BY <2>4, <3>2
  <2> HIDE DEF S
  <2>5. AllLeaves(doc) \subseteq UNION {S[k] : k \in 1..n}
    BY <2>3, <2>4 DEF AllLeaves
  <2>6. UNION {S[k] : k \in 1..n} \subseteq AllLeaves(doc)
    BY <2>1
  <2> QED
    BY <2>5, <2>6
<1>10. n # 0
  <2>1. n = 0 => UNION {S[k] : k \in 1..n} = {}
    OBVIOUS
  <2> QED
    BY <1>9, <2>1 DEF IsDocument
<1>11. Len(parts) = n
  BY <1>3
<1> HIDE DEF parts, S
<1>12. Lists(FlattenSeq(parts), UNION {S[k] : k \in 1..n})
  BY <1>6, <1>8, <1>10, <1>11, FlattenLists
<1>13. Lists(PageIds(doc), AllLeaves(doc))
  BY <1>4, <1>9, <1>12
<1>14. PageCount(doc) = Cardinality(AllLeaves(doc)) /\ IsFiniteSet(AllLeaves(doc))
  BY <1>13, ListLength DEF PageCount
<1> QED
  BY <1>13, <1>14, FS_EmptySet, FS_CardinalityType DEF IsDocument

-----------------------------------------------------------------------------
(* A root that lists its pages itself.                                      *)

LEMMA FlatDocument ==
    ASSUME NEW doc, IsGraph(doc), NEW S, S # {}, Lists(doc.objects[doc.root].kids, S),
           \A id \in S : id \in Ids(doc) /\ IsPage(doc, id) /\ doc.objects[id].parent = doc.root,
           doc.objects[doc.root].count = Cardinality(S)
    PROVE  IsDocument(doc) /\ PageCount(doc) = Cardinality(S)
<1>1. Kids(doc, doc.root) = S
  BY DEF Kids, Lists
<1>2. Nodes(doc) = {}
  BY <1>1 DEF Nodes
<1>3. AllLeaves(doc) = S
  BY <1>1, <1>2 DEF AllLeaves, Leaves
<1>4. IsDocument(doc)
  BY <1>1, <1>2, <1>3 DEF IsDocument, Lists
<1> QED
  BY <1>3, <1>4, PagesListed

\* What a page draws and what is set on it stays.
SameLook(object, old) ==
    /\ object.marks = old.marks /\ object.box = old.box
    /\ object.crop = old.crop /\ object.rotate = old.rotate

\* The root lists the pages ids, which look as they do in doc.
ListsPages(new, doc, ids) ==
    /\ new.objects[new.root].kids = ids
    /\ \A id \in ToSet(ids) : IsPage(new, id) /\ SameLook(new.objects[id], doc.objects[id])

LEMMA ObjectWithParent ==
    ASSUME NEW object, IsObject(object), NEW parent \in Nat,
           NEW new, new = [object EXCEPT !.parent = parent]
    PROVE  IsObject(new) /\ new.parent = parent /\ new.type = object.type /\ SameLook(new, object)
BY DEF IsObject, SameLook

\* What rebuild_pages_tree makes of objects and pages is a document, whatever
\* tree the pages were in.
LEMMA RebuildMakesDocument ==
    ASSUME NEW doc, IsGraph(doc), NEW pages, NEW S, S # {}, Lists(pages, S),
           \A id \in S : id \in Ids(doc) /\ IsPage(doc, id)
    PROVE  /\ IsDocument(RebuildPagesTree(doc, pages))
           /\ PageCount(RebuildPagesTree(doc, pages)) = Len(pages)
           /\ ListsPages(RebuildPagesTree(doc, pages), doc, pages)
<1> DEFINE new == RebuildPagesTree(doc, pages)
<1>1. ToSet(pages) = S /\ pages \in Seq(Nat) /\ Cardinality(S) = Len(pages)
  BY ListLength DEF Lists
<1>2. /\ DOMAIN new = {"root", "objects"} /\ new.root = doc.root /\ Ids(new) = Ids(doc)
      /\ \A id \in Ids(doc) :
             new.objects[id] = IF id = doc.root
                               THEN [doc.objects[id] EXCEPT !.kids = pages, !.count = Len(pages)]
                               ELSE IF id \in S THEN [doc.objects[id] EXCEPT !.parent = doc.root]
                               ELSE doc.objects[id]
  BY <1>1 DEF RebuildPagesTree, IsGraph, Ids
<1> HIDE DEF new
<1>3. doc.root \in Nat /\ doc.root \in Ids(doc) /\ doc.objects[doc.root].type # "Page"
  BY DEF IsGraph, IsPage
<1>4. \A id \in Ids(doc) : IsObject(doc.objects[id])
  BY DEF IsGraph
<1>5. PICK r, o : r = doc.root /\ o = doc.objects[r]
  OBVIOUS
<1>6. /\ IsObject(new.objects[r]) /\ new.objects[r].kids = pages
      /\ new.objects[r].count = Len(pages) /\ new.objects[r].type # "Page"
  <2>c. PICK c : c = Len(pages)
    OBVIOUS
  <2>1. new.objects[r] = [o EXCEPT !.kids = pages, !.count = c]
    BY <2>c, <1>2, <1>3, <1>5
  <2>2. IsObject(o) /\ o.type # "Page" /\ pages \in Seq(Nat)
    BY <1>1, <1>3, <1>4, <1>5
  <2>3. PICK w : w = new.objects[r]
    OBVIOUS
  <2>4. IsObject(w) /\ w.kids = pages /\ w.count = c /\ w.type = o.type
    <3>1. w = [o EXCEPT !.kids = pages, !.count = c]
      BY <2>1, <2>3
    <3> QED
      BY <2>2, <3>1 DEF IsObject
  <2> QED
    BY <2>c, <2>2, <2>3, <2>4
<1>7. ASSUME NEW id \in S
      PROVE  /\ id \in Ids(new) /\ IsObject(new.objects[id])
             /\ new.objects[id].type = "Page" /\ new.objects[id].parent = r
             /\ SameLook(new.objects[id], doc.objects[id])
  <2>1. id \in Ids(doc) /\ doc.objects[id].type = "Page" /\ id # r
    BY <1>3, <1>5 DEF IsPage
  <2>2. PICK p : p = doc.objects[id]
    OBVIOUS
  <2>3. new.objects[id] = [p EXCEPT !.parent = r]
    BY <1>2, <1>5, <2>1, <2>2
  <2>4. IsObject(p) /\ p.type = "Page" /\ r \in Nat
    BY <1>3, <1>4, <1>5, <2>1, <2>2
  <2>5. PICK w : w = new.objects[id]
    OBVIOUS
  <2>6. IsObject(w) /\ w.parent = r /\ w.type = p.type /\ SameLook(w, p)
    BY <2>3, <2>4, <2>5, ObjectWithParent
  <2> QED
    BY <1>2, <2>1, <2>2, <2>4, <2>5, <2>6
<1>8. \A id \in Ids(new) : IsObject(new.objects[id])
  <2> TAKE id \in Ids(new)
  <2>1. id = r \/ id \in S \/ (id # r /\ id \notin S)
    OBVIOUS
  <2>2. id # r /\ id \notin S => new.objects[id] = doc.objects[id]
    BY <1>2, <1>5
  <2> QED
    BY <1>2, <1>4, <1>6, <1>7, <2>1, <2>2
<1>9. IsGraph(new)
  BY <1>2, <1>3, <1>5, <1>6, <1>8 DEF IsGraph, IsPage
<1>10. IsDocument(new) /\ PageCount(new) = Cardinality(S)
  <2>1. Lists(new.objects[new.root].kids, S) /\ new.objects[new.root].count = Cardinality(S)
    BY <1>1, <1>2, <1>5, <1>6
  <2>2. \A id \in S : id \in Ids(new) /\ IsPage(new, id) /\ new.objects[id].parent = new.root
    BY <1>2, <1>5, <1>7 DEF IsPage
  <2> QED
    BY <1>9, <2>1, <2>2, FlatDocument
<1>11. ListsPages(new, doc, pages)
  BY <1>1, <1>2, <1>5, <1>6, <1>7 DEF ListsPages, IsPage
<1> QED
  BY <1>1, <1>10, <1>11 DEF new

\* keep_pages: any pages, in any order, none twice.
LEMMA KeepMakesDocument ==
    ASSUME NEW doc, IsDocument(doc), NEW selected, NEW N, N \subseteq 1..PageCount(doc), N # {},
           Lists(selected, N)
    PROVE  /\ IsDocument(KeepPages(doc, selected))
           /\ PageCount(KeepPages(doc, selected)) = Len(selected)
           /\ ListsPages(KeepPages(doc, selected), doc,
                         [k \in DOMAIN selected |-> PageIds(doc)[selected[k]]])
<1>1. PICK ids : ids = PageIds(doc)
  OBVIOUS
<1>2. /\ Lists(ids, AllLeaves(doc)) /\ DOMAIN ids = 1..PageCount(doc)
  <2>1. Lists(ids, AllLeaves(doc)) /\ PageCount(doc) = Len(ids)
    BY <1>1, PagesListed DEF PageCount
  <2> QED
    BY <2>1 DEF Lists
<1>3. PICK n \in Nat : n = Len(selected) /\ DOMAIN selected = 1..n
  BY DEF Lists
<1>4. \A k \in 1..n : selected[k] \in DOMAIN ids
  BY <1>2, <1>3 DEF Lists, ToSet
<1>5. PICK kept : kept = [k \in 1..n |-> ids[selected[k]]]
  OBVIOUS
<1>6. kept \in Seq(Nat) /\ Len(kept) = n
  <2>1. \A i \in DOMAIN ids : ids[i] \in Nat
    <3>1. ids \in Seq(Nat)
      BY <1>2 DEF Lists
    <3> QED
      BY <3>1
  <2>2. \A k \in 1..n : ids[selected[k]] \in Nat
    BY <1>4, <2>1
  <2> QED
    BY <1>5, <2>2
<1>7. IsInjective(kept)
  <2>1. ASSUME NEW i \in 1..n, NEW j \in 1..n, kept[i] = kept[j] PROVE i = j
    <3>1. selected[i] = selected[j]
      BY <1>2, <1>4, <1>5, <2>1 DEF Lists, IsInjective
    <3> QED
      BY <1>3, <3>1 DEF Lists, IsInjective
  <2> QED
    BY <1>5, <2>1 DEF IsInjective
<1>8. ToSet(kept) # {}
  <2>1. PICK x \in N : TRUE
    OBVIOUS
  <2>2. PICK k \in 1..n : selected[k] = x
    BY <1>3 DEF Lists, ToSet
  <2> QED
    BY <1>5, <2>2 DEF ToSet
<1>9. ToSet(kept) \subseteq AllLeaves(doc)
  BY <1>2, <1>4, <1>5 DEF Lists, ToSet
<1> DEFINE gone == ToSet(ids) \ ToSet(kept)
           rest == [doc EXCEPT !.objects = [id \in Ids(doc) \ gone |-> @[id]]]
<1>10. KeepPages(doc, selected) = RebuildPagesTree(rest, kept)
  BY <1>1, <1>3, <1>5 DEF KeepPages
<1>11. IsGraph(doc) /\ doc.root \notin gone
  <2>1. ToSet(ids) = AllLeaves(doc)
    BY <1>2 DEF Lists
  <2>2. IsGraph(doc)
    BY DEF IsDocument
  <2> QED
    BY <2>1, <2>2, TreeFacts DEF IsGraph
<1>12. /\ DOMAIN rest = {"root", "objects"} /\ rest.root = doc.root /\ Ids(rest) = Ids(doc) \ gone
       /\ \A id \in Ids(rest) : rest.objects[id] = doc.objects[id]
  BY <1>11 DEF IsGraph, Ids
<1>13. \A id \in ToSet(kept) : id \in Ids(doc) \ gone /\ IsPage(doc, id)
  BY <1>9, TreeFacts
<1> HIDE DEF gone, rest
<1>14. IsFiniteSet(Ids(rest))
  BY <1>11, <1>12, FS_Subset DEF IsGraph
<1>15. IsGraph(rest) /\ \A id \in ToSet(kept) : id \in Ids(rest) /\ IsPage(rest, id)
  BY <1>11, <1>12, <1>13, <1>14 DEF IsGraph, IsPage
<1>16. Lists(kept, ToSet(kept))
  BY <1>6, <1>7 DEF Lists
<1>17. /\ IsDocument(RebuildPagesTree(rest, kept))
       /\ PageCount(RebuildPagesTree(rest, kept)) = Len(kept)
       /\ ListsPages(RebuildPagesTree(rest, kept), rest, kept)
  BY <1>8, <1>15, <1>16, RebuildMakesDocument
<1>18. kept = [k \in DOMAIN selected |-> PageIds(doc)[selected[k]]]
  BY <1>1, <1>3, <1>5
<1>19. ListsPages(KeepPages(doc, selected), doc, kept)
  <2>1. \A id \in ToSet(kept) : rest.objects[id] = doc.objects[id]
    BY <1>12, <1>15
  <2> QED
    BY <1>10, <1>17, <2>1 DEF ListsPages
<1> QED
  BY <1>3, <1>6, <1>10, <1>17, <1>18, <1>19

-----------------------------------------------------------------------------
(* Operations that leave the tree as it is.                                 *)

InTree(doc) == {doc.root} \cup Nodes(doc) \cup AllLeaves(doc)
SamePlace(object, old) ==
    /\ object.type = old.type /\ object.parent = old.parent
    /\ object.kids = old.kids /\ object.count = old.count

LEMMA KidsInTree ==
    ASSUME NEW doc, IsDocument(doc), NEW id \in {doc.root} \cup Nodes(doc), NEW kid \in Kids(doc, id)
    PROVE  kid \in InTree(doc)
<1>1. CASE IsPage(doc, kid)
  BY <1>1 DEF InTree, AllLeaves, Leaves
<1>2. CASE ~ IsPage(doc, kid)
  <2>1. id = doc.root
    BY <1>2 DEF IsDocument
  <2> QED
    BY <1>2, <2>1 DEF InTree, Nodes
<1> QED
  BY <1>1, <1>2

LEMMA SameTree ==
    ASSUME NEW doc, IsDocument(doc), NEW new, IsGraph(new), new.root = doc.root,
           \A id \in InTree(doc) : id \in Ids(new) /\ SamePlace(new.objects[id], doc.objects[id])
    PROVE  IsDocument(new) /\ PageCount(new) = PageCount(doc)
<1>1. \A id \in {doc.root} \cup Nodes(doc) : Kids(new, id) = Kids(doc, id)
  BY DEF InTree, SamePlace, Kids
<1>2. \A id \in InTree(doc) : IsPage(new, id) <=> IsPage(doc, id)
  BY DEF SamePlace, IsPage
<1>3. Nodes(new) = Nodes(doc)
  <2>1. \A kid \in Kids(doc, doc.root) : IsPage(new, kid) <=> IsPage(doc, kid)
    BY <1>2, KidsInTree
  <2> QED
    BY <1>1, <2>1 DEF Nodes
<1>4. ASSUME NEW id \in {doc.root} \cup Nodes(doc) PROVE Leaves(new, id) = Leaves(doc, id)
  <2>1. \A kid \in Kids(doc, id) : IsPage(new, kid) <=> IsPage(doc, kid)
    BY <1>2, KidsInTree
  <2> QED
    BY <1>1, <2>1 DEF Leaves
<1>5. AllLeaves(new) = AllLeaves(doc)
  <2>1. Leaves(new, new.root) = Leaves(doc, doc.root)
    BY <1>4
  <2>2. UNION {Leaves(new, id) : id \in Nodes(new)} = UNION {Leaves(doc, id) : id \in Nodes(doc)}
    BY <1>3, <1>4
  <2> QED
    BY <2>1, <2>2 DEF AllLeaves
<1>6. ASSUME NEW id \in {new.root} \cup Nodes(new)
      PROVE  /\ IsInjective(new.objects[id].kids)
             /\ \A kid \in Kids(new, id) : kid \in Ids(new) /\ new.objects[kid].parent = id
  <2>1. id \in {doc.root} \cup Nodes(doc) /\ id \in InTree(doc)
    BY <1>3 DEF InTree
  <2>2. IsInjective(new.objects[id].kids)
    BY <2>1 DEF IsDocument, SamePlace
  <2>3. ASSUME NEW kid \in Kids(new, id)
        PROVE  kid \in Ids(new) /\ new.objects[kid].parent = id
    <3>1. kid \in Kids(doc, id) /\ kid \in InTree(doc)
      BY <1>1, <2>1, KidsInTree
    <3>2. doc.objects[kid].parent = id
      BY <2>1, <3>1 DEF IsDocument
    <3> QED
      BY <3>1, <3>2 DEF SamePlace
  <2> QED
    BY <2>2, <2>3
<1>7. ASSUME NEW id \in Nodes(new)
      PROVE  /\ new.objects[id].count = Cardinality(Leaves(new, id))
             /\ \A kid \in Kids(new, id) : IsPage(new, kid)
  <2>1. id \in Nodes(doc) /\ id \in InTree(doc)
    BY <1>3 DEF InTree
  <2>2. \A kid \in Kids(new, id) : kid \in Kids(doc, id) /\ kid \in InTree(doc) /\ IsPage(doc, kid)
    BY <1>1, <2>1, KidsInTree DEF IsDocument
  <2>3. doc.objects[id].count = Cardinality(Leaves(doc, id))
    BY <2>1 DEF IsDocument
  <2>4. Leaves(new, id) = Leaves(doc, id)
    BY <1>4, <2>1
  <2> QED
    BY <1>2, <2>1, <2>2, <2>3, <2>4 DEF SamePlace
<1>8. new.objects[new.root].count = Cardinality(AllLeaves(new)) /\ AllLeaves(new) # {}
  <2>1. doc.root \in InTree(doc)
    BY DEF InTree
  <2> QED
    BY <1>5, <2>1 DEF IsDocument, SamePlace
<1>9. IsDocument(new)
  BY <1>6, <1>7, <1>8 DEF IsDocument
<1> QED
  BY <1>5, <1>9, PagesListed

\* prune_objects takes nothing that the tree reaches.
LEMMA PruneKeeps ==
    ASSUME NEW doc, IsDocument(doc)
    PROVE  /\ IsDocument(Prune(doc)) /\ PageCount(Prune(doc)) = PageCount(doc)
           /\ Prune(doc).root = doc.root
           /\ \A id \in InTree(doc) : Prune(doc).objects[id] = doc.objects[id]
<1> DEFINE new == Prune(doc)
           live == {doc.root} \cup Kids(doc, doc.root) \cup UNION {Kids(doc, id) : id \in Kids(doc, doc.root)}
<1>1. IsGraph(doc)
  BY DEF IsDocument
<1>2. /\ DOMAIN new = {"root", "objects"} /\ new.root = doc.root /\ Ids(new) = live
      /\ \A id \in live : new.objects[id] = doc.objects[id]
  BY <1>1 DEF Prune, IsGraph, Ids, Kids
<1> HIDE DEF new
<1>3. \A kid \in Kids(doc, doc.root) : kid \in Nodes(doc) \/ Kids(doc, kid) = {}
  <2> TAKE kid \in Kids(doc, doc.root)
  <2>1. CASE IsPage(doc, kid)
    <3>1. kid \in Ids(doc)
      BY TreeFacts
    <3>2. doc.objects[kid].kids = <<>>
      BY <1>1, <2>1, <3>1 DEF IsGraph, IsObject, IsPage
    <3> QED
      BY <3>2 DEF Kids, ToSet
  <2>2. CASE ~ IsPage(doc, kid)
    BY <2>2 DEF Nodes
  <2> QED
    BY <2>1, <2>2
<1>4. live \subseteq Ids(doc)
  <2>1. doc.root \in Ids(doc) /\ Kids(doc, doc.root) \subseteq Ids(doc)
    BY TreeFacts
  <2>2. ASSUME NEW id \in Kids(doc, doc.root), NEW x \in Kids(doc, id) PROVE x \in Ids(doc)
    <3>1. id \in Nodes(doc)
      BY <1>3, <2>2
    <3> QED
      BY <2>2, <3>1, TreeFacts
  <2> QED
    BY <2>1, <2>2
<1>5. InTree(doc) \subseteq live
  BY DEF InTree, AllLeaves, Leaves, Nodes
<1> HIDE DEF live
<1>6. IsGraph(new)
  <2>1. IsFiniteSet(live)
    BY <1>1, <1>4, FS_Subset DEF IsGraph
  <2>2. doc.root \in live
    BY <1>5 DEF InTree
  <2> QED
    BY <1>1, <1>2, <1>4, <2>1, <2>2 DEF IsGraph, IsPage
<1>7. \A id \in InTree(doc) : id \in Ids(new) /\ SamePlace(new.objects[id], doc.objects[id])
  BY <1>2, <1>5 DEF SamePlace
<1>8. IsDocument(new) /\ PageCount(new) = PageCount(doc)
  BY <1>2, <1>6, <1>7, SameTree
<1>9. new.root = doc.root /\ \A id \in InTree(doc) : new.objects[id] = doc.objects[id]
  BY <1>2, <1>5
<1> QED
  BY <1>8, <1>9 DEF new

-----------------------------------------------------------------------------
(* Renumbering.                                                             *)

LEMMA ImageCardinality ==
    ASSUME NEW S, IsFiniteSet(S), NEW m, \A x, y \in S : m[x] = m[y] => x = y
    PROVE  IsFiniteSet({m[x] : x \in S}) /\ Cardinality({m[x] : x \in S}) = Cardinality(S)
<1> DEFINE T == {m[x] : x \in S}
           f == [x \in S |-> m[x]]
<1>1. f \in Bijection(S, T)
  <2>1. f \in [S -> T] /\ \A y \in T : \E x \in S : f[x] = y
    OBVIOUS
  <2>2. \A x, y \in S : f[x] = f[y] => x = y
    OBVIOUS
  <2> HIDE DEF f, T
  <2> QED
    BY <2>1, <2>2 DEF Bijection, Injection, Surjection, IsInjective
<1> HIDE DEF T
<1>2. IsFiniteSet(T) /\ Cardinality(T) = Cardinality(S)
  BY <1>1, FS_Bijection DEF ExistsBijection
<1> QED
  BY <1>2 DEF T

\* The objects of doc under the ids that m gives them.
RelabelledBy(doc, m, new) ==
    /\ m \in [Ids(doc) -> Nat \ {0}]
    /\ \A x, y \in Ids(doc) : m[x] = m[y] => x = y
    /\ DOMAIN new = {"root", "objects"} /\ new.root = m[doc.root]
    /\ Ids(new) = {m[id] : id \in Ids(doc)}
    /\ \A id \in Ids(doc) :
           LET object == new.objects[m[id]]
               old == doc.objects[id]
           IN  /\ IsObject(object) /\ object.type = old.type /\ object.count = old.count
               /\ SameLook(object, old)
               /\ old.parent \in Ids(doc) => object.parent = m[old.parent]
               /\ DOMAIN object.kids = DOMAIN old.kids
               /\ \A k \in DOMAIN old.kids :
                      old.kids[k] \in Ids(doc) => object.kids[k] = m[old.kids[k]]

\* The same tree under other ids is a document of as many pages.
LEMMA Relabelled ==
    ASSUME NEW doc, IsDocument(doc), NEW m, NEW new, RelabelledBy(doc, m, new)
    PROVE  IsDocument(new) /\ PageCount(new) = PageCount(doc)
<1> DEFINE Image(S) == {m[x] : x \in S}
<1> USE DEF RelabelledBy
<1>1. IsGraph(doc) /\ doc.root \in Ids(doc)
  BY DEF IsDocument, IsGraph
<1>2. \A id \in Ids(doc) : m[id] \in Ids(new) /\ (IsPage(new, m[id]) <=> IsPage(doc, id))
  BY DEF IsPage
<1>3. IsGraph(new)
  <2>1. IsFiniteSet(Ids(new))
    BY <1>1, ImageCardinality DEF IsGraph
  <2>2. \A n \in Ids(new) : IsObject(new.objects[n]) /\ n \in Nat \ {0}
    OBVIOUS
  <2>3. ~ IsPage(new, new.root)
    BY <1>1, <1>2 DEF IsGraph
  <2> QED
    BY <1>1, <2>1, <2>2, <2>3 DEF IsGraph
<1>4. ASSUME NEW id \in {doc.root} \cup Nodes(doc)
      PROVE  /\ IsInjective(new.objects[m[id]].kids)
             /\ Kids(new, m[id]) = Image(Kids(doc, id))
             /\ Leaves(new, m[id]) = Image(Leaves(doc, id))
             /\ Kids(doc, id) \subseteq Ids(doc)
             /\ \A kid \in Kids(doc, id) : new.objects[m[kid]].parent = m[id]
  <2>1. /\ id \in Ids(doc) /\ Kids(doc, id) \subseteq Ids(doc)
        /\ \A kid \in Kids(doc, id) : doc.objects[kid].parent = id
    BY TreeFacts
  <2>2. PICK old, object : old = doc.objects[id].kids /\ object = new.objects[m[id]].kids
    OBVIOUS
  <2>3. IsInjective(old) /\ Kids(doc, id) = ToSet(old)
    BY <2>2 DEF IsDocument, Kids
  <2>4. DOMAIN object = DOMAIN old
    BY <2>1, <2>2
  <2>5. \A k \in DOMAIN old : old[k] \in Ids(doc) /\ object[k] = m[old[k]]
    <3> TAKE k \in DOMAIN old
    <3>1. old[k] \in Ids(doc)
      BY <2>1, <2>3 DEF ToSet
    <3> QED
      BY <2>1, <2>2, <3>1
  <2>6. IsInjective(object)
    BY <2>3, <2>4, <2>5 DEF IsInjective
  <2>7. ToSet(object) = Image(ToSet(old))
    BY <2>4, <2>5 DEF ToSet
  <2>8. Kids(new, m[id]) = Image(Kids(doc, id))
    BY <2>2, <2>3, <2>7 DEF Kids
  <2>9. Leaves(new, m[id]) = Image(Leaves(doc, id))
    BY <1>2, <2>1, <2>8 DEF Leaves
  <2>10. \A kid \in Kids(doc, id) : new.objects[m[kid]].parent = m[id]
    BY <2>1
  <2> QED
    BY <2>1, <2>2, <2>6, <2>8, <2>9, <2>10
<1>5. Nodes(new) = Image(Nodes(doc))
  <2>1. Kids(new, new.root) = Image(Kids(doc, doc.root)) /\ Kids(doc, doc.root) \subseteq Ids(doc)
    BY <1>4
  <2> QED
    BY <1>2, <2>1 DEF Nodes
<1>6. AllLeaves(new) = Image(AllLeaves(doc))
  <2>1. Leaves(new, new.root) = Image(Leaves(doc, doc.root))
    BY <1>4
  <2>2. \A id \in Nodes(doc) : Leaves(new, m[id]) = Image(Leaves(doc, id))
    BY <1>4
  <2>3. UNION {Leaves(new, n) : n \in Nodes(new)} = UNION {Image(Leaves(doc, id)) : id \in Nodes(doc)}
    <3>1. ASSUME NEW n \in Nodes(new), NEW x \in Leaves(new, n)
          PROVE  \E id \in Nodes(doc) : x \in Image(Leaves(doc, id))
      <4>1. PICK id \in Nodes(doc) : n = m[id]
        BY <1>5
      <4> QED
        BY <2>2, <3>1, <4>1
    <3>2. ASSUME NEW id \in Nodes(doc), NEW x \in Image(Leaves(doc, id))
          PROVE  \E n \in Nodes(new) : x \in Leaves(new, n)
      <4>1. m[id] \in Nodes(new)
        BY <1>5
      <4> QED
        BY <2>2, <3>2, <4>1
    <3> HIDE DEF Image
    <3> QED
      BY <3>1, <3>2
  <2>4. Image(AllLeaves(doc)) = Image(Leaves(doc, doc.root))
                                  \cup UNION {Image(Leaves(doc, id)) : id \in Nodes(doc)}
    BY DEF AllLeaves
  <2> HIDE DEF Image
  <2> QED
    BY <2>1, <2>3, <2>4 DEF AllLeaves
<1>7. ASSUME NEW S \in SUBSET Ids(doc) PROVE Cardinality(Image(S)) = Cardinality(S)
  <2>1. IsFiniteSet(S)
    BY <1>1, FS_Subset DEF IsGraph
  <2> QED
    BY <2>1, ImageCardinality
<1>8. ASSUME NEW n \in {new.root} \cup Nodes(new)
      PROVE  /\ IsInjective(new.objects[n].kids)
             /\ \A kid \in Kids(new, n) : kid \in Ids(new) /\ new.objects[kid].parent = n
  <2>1. PICK id \in {doc.root} \cup Nodes(doc) : n = m[id]
    BY <1>5
  <2>2. IsInjective(new.objects[n].kids)
    BY <1>4, <2>1
  <2>3. ASSUME NEW kid \in Kids(new, n)
        PROVE  kid \in Ids(new) /\ new.objects[kid].parent = n
    <3>1. PICK k \in Kids(doc, id) : kid = m[k]
      <4>1. Kids(new, m[id]) = Image(Kids(doc, id))
        BY <1>4
      <4> QED
        BY <2>1, <2>3, <4>1
    <3> QED
      BY <1>2, <1>4, <2>1, <3>1
  <2> QED
    BY <2>2, <2>3
<1>9. ASSUME NEW n \in Nodes(new)
      PROVE  /\ new.objects[n].count = Cardinality(Leaves(new, n))
             /\ \A kid \in Kids(new, n) : IsPage(new, kid)
  <2>1. PICK id \in Nodes(doc) : n = m[id]
    BY <1>5
  <2>2. id \in Ids(doc) /\ Leaves(doc, id) = Kids(doc, id) /\ Kids(doc, id) \subseteq Ids(doc)
    BY TreeFacts
  <2>3. /\ doc.objects[id].count = Cardinality(Leaves(doc, id))
        /\ \A kid \in Kids(doc, id) : IsPage(doc, kid)
    BY <2>1 DEF IsDocument
  <2>4. Leaves(new, n) = Image(Leaves(doc, id)) /\ Kids(new, n) = Image(Kids(doc, id))
    BY <1>4, <2>1
  <2>5. Cardinality(Leaves(new, n)) = Cardinality(Leaves(doc, id))
    BY <1>7, <2>2, <2>4
  <2>6. new.objects[n].count = doc.objects[id].count
    BY <2>1, <2>2
  <2> QED
    BY <1>2, <2>2, <2>3, <2>4, <2>5, <2>6
<1>10. AllLeaves(doc) \in SUBSET Ids(doc) /\ AllLeaves(doc) # {}
  BY TreeFacts DEF IsDocument
<1>11. Cardinality(AllLeaves(new)) = Cardinality(AllLeaves(doc)) /\ AllLeaves(new) # {}
  BY <1>6, <1>7, <1>10
<1>12. new.objects[new.root].count = Cardinality(AllLeaves(new))
  BY <1>1, <1>11 DEF IsDocument
<1>13. IsDocument(new)
  BY <1>3, <1>8, <1>9, <1>11, <1>12 DEF IsDocument
<1> QED
  BY <1>11, <1>13, PagesListed

LEMMA NatFunctionIsSeq ==
    ASSUME NEW n \in Nat, NEW s, s = [k \in 1..n |-> s[k]], \A k \in 1..n : s[k] \in Nat
    PROVE  s \in Seq(Nat) /\ Len(s) = n /\ (n = 0 => s = <<>>)
OBVIOUS

\* The definitions inside Renumber.
Dealt(doc, id) ==
    IF id \in ToSet(PageIds(doc))
    THEN Ascending(ToSet(PageIds(doc)))[CHOOSE k \in DOMAIN PageIds(doc) : PageIds(doc)[k] = id]
    ELSE id
NewId(doc, start, id) == start + Rank(Ids(doc), Dealt(doc, id))
Moved(doc, start, id) == IF id \in Ids(doc) THEN NewId(doc, start, id) ELSE id
MovedObject(doc, start, object) ==
    [object EXCEPT !.parent = Moved(doc, start, @),
                   !.kids = [k \in DOMAIN @ |-> Moved(doc, start, @[k])]]

LEMMA RenumberIs ==
    ASSUME NEW doc, NEW start
    PROVE  Renumber(doc, start) =
               [root |-> NewId(doc, start, doc.root),
                objects |-> [n \in {NewId(doc, start, id) : id \in Ids(doc)} |->
                    MovedObject(doc, start,
                        doc.objects[CHOOSE id \in Ids(doc) : NewId(doc, start, id) = n])]]
BY Zenon DEF Renumber, Dealt, NewId, Moved, MovedObject, Rank

LEMMA MovedObjectFacts ==
    ASSUME NEW doc, NEW start, \A k \in Nat : Moved(doc, start, k) \in Nat,
           NEW old, IsObject(old), NEW object, object = MovedObject(doc, start, old)
    PROVE  /\ IsObject(object) /\ object.type = old.type /\ object.count = old.count
           /\ object.parent = Moved(doc, start, old.parent)
           /\ DOMAIN object.kids = DOMAIN old.kids
           /\ \A k \in DOMAIN old.kids : object.kids[k] = Moved(doc, start, old.kids[k])
           /\ SameLook(object, old)
<1> DEFINE kids == [k \in DOMAIN old.kids |-> Moved(doc, start, old.kids[k])]
<1>1. /\ DOMAIN old = {"type", "parent", "kids", "count", "rotate", "box", "crop",
                       "resources", "marks"}
      /\ old.kids \in Seq(Nat) /\ old.parent \in Nat
  BY DEF IsObject
<1>2. /\ DOMAIN object = DOMAIN old /\ object.kids = kids
      /\ object.parent = Moved(doc, start, old.parent)
      /\ object.type = old.type /\ object.count = old.count /\ object.rotate = old.rotate
  BY <1>1 DEF MovedObject
<1>9. SameLook(object, old)
  BY <1>1 DEF MovedObject, SameLook
<1>3. PICK n \in Nat : n = Len(old.kids) /\ DOMAIN old.kids = 1..n
  BY <1>1
<1>4. \A k \in 1..n : kids[k] = Moved(doc, start, old.kids[k]) /\ kids[k] \in Nat
  <2>1. \A k \in 1..n : old.kids[k] \in Nat
    BY <1>1, <1>3, SeqMembers
  <2> QED
    BY <1>3, <2>1
<1>5. kids = [k \in 1..n |-> kids[k]]
  BY <1>3
<1> HIDE DEF kids
<1>6. kids \in Seq(Nat) /\ Len(kids) = n /\ (n = 0 => kids = <<>>)
  BY <1>4, <1>5, NatFunctionIsSeq
<1>7. old.type = "Page" => n = 0
  BY <1>3 DEF IsObject
<1>8. IsObject(object)
  BY <1>1, <1>2, <1>6, <1>7 DEF IsObject
<1> QED
  BY <1>2, <1>3, <1>4, <1>5, <1>8, <1>9

\* The pages get their ids in their order.
Rising(doc, m) ==
    \A j, k \in DOMAIN PageIds(doc) : j < k => m[PageIds(doc)[j]] < m[PageIds(doc)[k]]

\* renumber_objects_with: dealing the ids of the pages out again is a
\* permutation, and counting from start keeps them apart.
LEMMA RenumberRelabels ==
    ASSUME NEW doc, IsDocument(doc), NEW start \in Nat \ {0}
    PROVE  \E m : /\ RelabelledBy(doc, m, Renumber(doc, start))
                  /\ Ids(Renumber(doc, start)) \subseteq start..(start + Cardinality(Ids(doc)) - 1)
                  /\ Rising(doc, m)
<1>1. PICK ids : ids = Ids(doc)
  OBVIOUS
<1>2. /\ ids \in SUBSET Nat /\ IsFiniteSet(ids) /\ doc.root \in ids
      /\ \A id \in ids : IsObject(doc.objects[id])
  BY <1>1 DEF IsDocument, IsGraph
<1>3. PICK pages, leaves : pages = PageIds(doc) /\ leaves = AllLeaves(doc)
  OBVIOUS
<1>4. Lists(pages, leaves) /\ leaves \subseteq ids
  BY <1>1, <1>3, PagesListed, TreeFacts
<1>5. PICK sorted : sorted = Ascending(leaves)
  OBVIOUS
<1>6. Lists(sorted, leaves) /\ \A k \in DOMAIN sorted : Rank(leaves, sorted[k]) = k - 1
  <2>1. leaves \in SUBSET Nat /\ IsFiniteSet(leaves)
    BY <1>2, <1>4, ListLength
  <2> QED
    BY <1>5, <2>1, AscendingLists
<1>7. PICK n \in Nat : DOMAIN pages = 1..n /\ DOMAIN sorted = 1..n
  <2>1. Len(pages) = Len(sorted)
    BY <1>4, <1>6, ListLength
  <2> QED
    BY <1>4, <1>6, <2>1 DEF Lists
<1>8. ToSet(pages) = leaves /\ ToSet(sorted) = leaves /\ sorted = Ascending(ToSet(pages))
  BY <1>4, <1>5, <1>6 DEF Lists
<1> DEFINE place(id) == CHOOSE k \in DOMAIN pages : pages[k] = id
<1>9. ASSUME NEW id \in leaves
      PROVE  place(id) \in 1..n /\ pages[place(id)] = id /\ Dealt(doc, id) = sorted[place(id)]
  <2>1. \E k \in DOMAIN pages : pages[k] = id
    BY <1>8 DEF ToSet
  <2>2. place(id) \in 1..n /\ pages[place(id)] = id
    BY <1>7, <2>1
  <2> QED
    BY <1>3, <1>8, <2>2 DEF Dealt
<1> HIDE DEF place
<1>10. ASSUME NEW id \in ids
       PROVE  /\ Dealt(doc, id) \in ids /\ (id \in leaves <=> Dealt(doc, id) \in leaves)
              /\ id \notin leaves => Dealt(doc, id) = id
  <2>1. ASSUME id \in leaves PROVE Dealt(doc, id) \in leaves
    <3>1. Dealt(doc, id) = sorted[place(id)] /\ place(id) \in DOMAIN sorted
      BY <1>7, <1>9, <2>1
    <3> QED
      BY <1>8, <3>1 DEF ToSet
  <2>2. id \notin leaves => Dealt(doc, id) = id
    BY <1>3, <1>8 DEF Dealt
  <2> QED
    BY <1>4, <2>1, <2>2
<1>11. ASSUME NEW x \in ids, NEW y \in ids, Dealt(doc, x) = Dealt(doc, y) PROVE x = y
  <2>1. CASE x \in leaves /\ y \in leaves
    <3>1. sorted[place(x)] = sorted[place(y)]
      BY <1>9, <1>11, <2>1
    <3>2. place(x) = place(y)
      BY <1>6, <1>7, <1>9, <2>1, <3>1 DEF Lists, IsInjective
    <3> QED
      BY <1>9, <2>1, <3>2
  <2>2. CASE x \notin leaves /\ y \notin leaves
    BY <1>10, <1>11, <2>2
  <2> QED
    BY <1>10, <1>11, <2>1, <2>2
<1>12. PICK c \in Nat : c = Cardinality(ids)
  BY <1>2, FS_CardinalityType
<1> DEFINE m == [id \in ids |-> NewId(doc, start, id)]
           new == Renumber(doc, start)
<1>13. ASSUME NEW x \in ids
       PROVE  /\ m[x] = start + Rank(ids, Dealt(doc, x)) /\ Rank(ids, Dealt(doc, x)) \in 0..(c - 1)
              /\ m[x] \in start..(start + c - 1) /\ m[x] \in Nat \ {0}
  <2>1. Rank(ids, Dealt(doc, x)) \in 0..(c - 1)
    BY <1>2, <1>10, <1>12, Ranks
  <2>2. m[x] = start + Rank(ids, Dealt(doc, x))
    BY <1>1 DEF NewId
  <2> HIDE DEF m
  <2> QED
    BY <2>1, <2>2
<1>14. m \in [ids -> Nat \ {0}]
  BY <1>13
<1>15. DOMAIN m = ids /\ \A x \in ids : m[x] = Moved(doc, start, x)
  BY <1>1 DEF Moved
<1>16. /\ DOMAIN new = {"root", "objects"} /\ new.root = m[doc.root]
       /\ Ids(new) = {m[id] : id \in ids}
       /\ \A k \in Ids(new) : new.objects[k] =
              MovedObject(doc, start, doc.objects[CHOOSE id \in ids : m[id] = k])
  BY <1>1, <1>2, RenumberIs DEF Ids
<1> HIDE DEF m, new
<1>17. ASSUME NEW x \in ids, NEW y \in ids, m[x] = m[y] PROVE x = y
  <2>1. PICK a \in ids, b \in ids : a = Dealt(doc, x) /\ b = Dealt(doc, y)
    BY <1>10
  <2>2. a \in Nat /\ b \in Nat
    BY <1>2
  <2>3. Rank(ids, a) \in 0..(c - 1) /\ Rank(ids, b) \in 0..(c - 1)
    BY <1>2, <1>12, Ranks
  <2>4. Rank(ids, a) = Rank(ids, b)
    BY <1>13, <1>17, <2>1, <2>3
  <2>5. ~ (a < b) /\ ~ (b < a)
    BY <1>2, <2>3, <2>4, Ranks
  <2> QED
    BY <1>11, <2>1, <2>2, <2>5
<1>18. \A k \in Nat : Moved(doc, start, k) \in Nat
  <2> TAKE k \in Nat
  <2>1. k \notin ids => Moved(doc, start, k) = k
    BY <1>1 DEF Moved
  <2> QED
    BY <1>13, <1>15, <2>1
<1>19. ASSUME NEW id \in ids
       PROVE  LET object == new.objects[m[id]]
                  old == doc.objects[id]
              IN  /\ IsObject(object) /\ object.type = old.type /\ object.count = old.count
                  /\ SameLook(object, old)
                  /\ old.parent \in ids => object.parent = m[old.parent]
                  /\ DOMAIN object.kids = DOMAIN old.kids
                  /\ \A k \in DOMAIN old.kids :
                         old.kids[k] \in ids => object.kids[k] = m[old.kids[k]]
  <2>1. (CHOOSE x \in ids : m[x] = m[id]) = id
    BY <1>17
  <2>2. PICK old, object : old = doc.objects[id] /\ object = new.objects[m[id]]
    OBVIOUS
  <2>3. object = MovedObject(doc, start, old) /\ IsObject(old)
    BY <1>2, <1>16, <2>1, <2>2
  <2>4. /\ IsObject(object) /\ object.type = old.type /\ object.count = old.count
        /\ object.parent = Moved(doc, start, old.parent)
        /\ DOMAIN object.kids = DOMAIN old.kids
        /\ \A k \in DOMAIN old.kids : object.kids[k] = Moved(doc, start, old.kids[k])
        /\ SameLook(object, old)
    BY <1>18, <2>3, MovedObjectFacts
  <2> QED
    BY <1>15, <2>2, <2>4
<1>20. RelabelledBy(doc, m, new)
  BY <1>1, <1>14, <1>16, <1>17, <1>19 DEF RelabelledBy
<1>21. Ids(new) \subseteq start..(start + c - 1)
  BY <1>13, <1>16
<1>22. ASSUME NEW j \in 1..n, NEW k \in 1..n, j < k
       PROVE  m[pages[j]] < m[pages[k]]
  <2>1. ASSUME NEW i \in 1..n
        PROVE  pages[i] \in leaves /\ Dealt(doc, pages[i]) = sorted[i] /\ sorted[i] \in leaves
    <3>1. pages[i] \in leaves /\ sorted[i] \in leaves
      BY <1>7, <1>8 DEF ToSet
    <3>2. place(pages[i]) = i
      BY <1>4, <1>7, <1>9, <3>1 DEF Lists, IsInjective
    <3> QED
      BY <1>9, <3>1, <3>2
  <2>2. PICK a \in leaves, b \in leaves : a = sorted[j] /\ b = sorted[k]
    BY <2>1
  <2>3. leaves \in SUBSET Nat /\ IsFiniteSet(leaves) /\ a \in ids /\ b \in ids
    BY <1>2, <1>4, ListLength
  <2>4. Rank(leaves, a) = j - 1 /\ Rank(leaves, b) = k - 1
    BY <1>6, <1>7, <2>2
  <2>5. a < b
    <3>1. a # b /\ ~ (b < a)
      BY <1>22, <2>3, <2>4, Ranks
    <3> QED
      BY <2>3, <3>1
  <2>6. Rank(ids, a) < Rank(ids, b)
    BY <1>2, <2>3, <2>5, Ranks
  <2>7. /\ m[pages[j]] = start + Rank(ids, a) /\ m[pages[k]] = start + Rank(ids, b)
        /\ Rank(ids, a) \in 0..(c - 1) /\ Rank(ids, b) \in 0..(c - 1)
    <3>1. Dealt(doc, pages[j]) = a /\ pages[j] \in ids
      BY <1>4, <2>1, <2>2
    <3>2. Dealt(doc, pages[k]) = b /\ pages[k] \in ids
      BY <1>4, <2>1, <2>2
    <3> QED
      BY <1>13, <3>1, <3>2
  <2> QED
    BY <2>6, <2>7
<1>23. Rising(doc, m)
  BY <1>3, <1>7, <1>22 DEF Rising
<1> QED
  BY <1>1, <1>12, <1>20, <1>21, <1>23 DEF new

LEMMA RenumberKeeps ==
    ASSUME NEW doc, IsDocument(doc), NEW start \in Nat \ {0}
    PROVE  /\ IsDocument(Renumber(doc, start))
           /\ PageCount(Renumber(doc, start)) = PageCount(doc)
           /\ Ids(Renumber(doc, start)) \subseteq start..(start + Cardinality(Ids(doc)) - 1)
<1>1. PICK m : /\ RelabelledBy(doc, m, Renumber(doc, start))
               /\ Ids(Renumber(doc, start)) \subseteq start..(start + Cardinality(Ids(doc)) - 1)
  BY RenumberRelabels
<1>2. PICK new : new = Renumber(doc, start)
  OBVIOUS
<1>3. IsDocument(new) /\ PageCount(new) = PageCount(doc)
  BY <1>1, <1>2, Relabelled
<1> QED
  BY <1>1, <1>2, <1>3

-----------------------------------------------------------------------------
(* Merging.                                                                 *)

\* The root lists the pages of both by ascending id, which is those of the first
\* and then those of the second.
ListsBoth(new, first, second) ==
    /\ new.objects[new.root].kids = Ascending(ToSet(PageIds(first)) \cup ToSet(PageIds(second)))
    /\ \A id \in ToSet(PageIds(first)) : IsPage(new, id) /\ SameLook(new.objects[id], first.objects[id])
    /\ \A id \in ToSet(PageIds(second)) : IsPage(new, id) /\ SameLook(new.objects[id], second.objects[id])
    /\ \A i \in ToSet(PageIds(first)), j \in ToSet(PageIds(second)) : i < j

LEMMA MergeMakesDocument ==
    ASSUME NEW left, IsDocument(left), NEW right, IsDocument(right)
    PROVE  /\ ListsBoth(MergeDocuments(left, right),
                        Renumber(left, 1), Renumber(right, Cardinality(Ids(left)) + 1))
           /\ IsDocument(MergeDocuments(left, right))
           /\ PageCount(MergeDocuments(left, right)) = PageCount(left) + PageCount(right)
<1> DEFINE first == Renumber(left, 1)
           second == Renumber(right, Cardinality(Ids(left)) + 1)
           objects == [id \in Ids(first) \cup Ids(second) |->
                           IF id \in Ids(first) THEN first.objects[id] ELSE second.objects[id]]
           pages == ToSet(PageIds(first)) \cup ToSet(PageIds(second))
           root == Min({id \in DOMAIN objects : objects[id].type = "Pages"})
           new == MergeDocuments(left, right)
<1>1. /\ DOMAIN new = {"root", "objects"} /\ new.root = root /\ Ids(new) = pages \cup {root}
      /\ \A id \in pages \cup {root} :
             new.objects[id] =
                 IF id = root
                 THEN [objects[id] EXCEPT !.kids = Ascending(pages), !.count = Cardinality(pages)]
                 ELSE [objects[id] EXCEPT !.parent = root]
  BY DEF MergeDocuments, Ids
<1>2. PICK c \in Nat : c = Cardinality(Ids(left))
  BY FS_CardinalityType DEF IsDocument, IsGraph
<1>3. IsDocument(first) /\ PageCount(first) = PageCount(left) /\ Ids(first) \subseteq 1..c
  <2>1. 1 \in Nat \ {0} /\ 1 + c - 1 = c
    OBVIOUS
  <2> QED
    BY <1>2, <2>1, RenumberKeeps
<1>4. PICK top \in Nat : /\ IsDocument(second) /\ PageCount(second) = PageCount(right)
                         /\ Ids(second) \subseteq (c + 1)..top
  <2>1. PICK d \in Nat : d = Cardinality(Ids(right))
    BY FS_CardinalityType DEF IsDocument, IsGraph
  <2>2. PICK from \in Nat \ {0} : from = c + 1
    OBVIOUS
  <2>3. /\ IsDocument(second) /\ PageCount(second) = PageCount(right)
        /\ Ids(second) \subseteq from..(from + d - 1)
    BY <1>2, <2>1, <2>2, RenumberKeeps
  <2> QED
    BY <2>2, <2>3
<1>5. Ids(first) \cap Ids(second) = {}
  BY <1>3, <1>4
<1> HIDE DEF first, second
<1>6. /\ DOMAIN objects = Ids(first) \cup Ids(second)
      /\ \A id \in Ids(first) : objects[id] = first.objects[id]
      /\ \A id \in Ids(second) : objects[id] = second.objects[id]
  BY <1>5
<1>7. IsGraph(first) /\ IsGraph(second)
  BY <1>3, <1>4 DEF IsDocument
<1>8. \A id \in DOMAIN objects : IsObject(objects[id]) /\ id \in Nat \ {0}
  BY <1>6, <1>7 DEF IsGraph
<1>9. /\ Lists(PageIds(first), AllLeaves(first)) /\ Lists(PageIds(second), AllLeaves(second))
      /\ PageCount(first) = Cardinality(AllLeaves(first)) /\ PageCount(first) \in Nat \ {0}
      /\ PageCount(second) = Cardinality(AllLeaves(second)) /\ PageCount(second) \in Nat \ {0}
  BY <1>3, <1>4, PagesListed
<1>10. pages = AllLeaves(first) \cup AllLeaves(second)
  BY <1>9 DEF Lists
<1>11. /\ AllLeaves(first) \subseteq Ids(first) /\ AllLeaves(second) \subseteq Ids(second)
       /\ \A id \in pages : id \in DOMAIN objects /\ objects[id].type = "Page"
  BY <1>3, <1>4, <1>6, <1>10, TreeFacts DEF IsPage
<1>12. IsFiniteSet(AllLeaves(first)) /\ IsFiniteSet(AllLeaves(second))
  BY <1>9, ListLength
<1>13. IsFiniteSet(pages) /\ Cardinality(pages) = PageCount(left) + PageCount(right)
  <2>1. AllLeaves(first) \cap AllLeaves(second) = {}
    BY <1>5, <1>11
  <2>2. PICK A, B : A = AllLeaves(first) /\ B = AllLeaves(second)
    OBVIOUS
  <2>3. IsFiniteSet(A \cup B) /\ Cardinality(A \cup B) = Cardinality(A) + Cardinality(B) - Cardinality({})
    BY <1>12, <2>1, <2>2, FS_Union
  <2>4. Cardinality({}) = 0
    BY FS_EmptySet
  <2>5. PICK S : S = pages
    OBVIOUS
  <2> HIDE DEF pages
  <2>6. PICK a \in Nat, b \in Nat : /\ a = PageCount(first) /\ a = PageCount(left) /\ a = Cardinality(A)
                                  /\ b = PageCount(second) /\ b = PageCount(right) /\ b = Cardinality(B)
    BY <1>3, <1>4, <1>9, <2>2
  <2>7. S = A \cup B
    BY <1>10, <2>2, <2>5
  <2>8. IsFiniteSet(S) /\ Cardinality(S) = a + b
    BY <2>3, <2>4, <2>6, <2>7
  <2> QED
    BY <2>5, <2>6, <2>8
<1>14. root \in DOMAIN objects /\ objects[root].type = "Pages"
  <2> DEFINE R == {id \in DOMAIN objects : objects[id].type = "Pages"}
  <2>1. first.root \in R
    BY <1>6, <1>7 DEF IsGraph, IsObject, IsPage
  <2>2. R \in SUBSET Nat
    BY <1>8
  <2> HIDE DEF R
  <2>3. \E x \in R : \A y \in R : x <= y
    BY <2>1, <2>2, LeastNumber
  <2>4. Min(R) \in R
    BY <2>3 DEF Min
  <2> QED
    BY <2>4 DEF R
<1> HIDE DEF root, pages, objects, new
<1>15. root \in Nat /\ root \notin pages /\ pages # {}
  <2>1. pages # {}
    BY <1>3, <1>9, <1>10, FS_EmptySet
  <2> QED
    BY <1>8, <1>11, <1>14, <2>1
<1>16. pages \in SUBSET Nat
  BY <1>8, <1>11
<1>17. Lists(Ascending(pages), pages)
  BY <1>13, <1>16, AscendingLists
<1>18. PICK old, object, kids, count :
           /\ old = objects[root] /\ object = new.objects[root]
           /\ kids = Ascending(pages) /\ count = Cardinality(pages)
  OBVIOUS
<1>19. IsObject(object) /\ object.kids = kids /\ object.count = count /\ object.type = "Pages"
  <2>1. object = [old EXCEPT !.kids = kids, !.count = count]
    BY <1>1, <1>18
  <2>2. IsObject(old) /\ old.type = "Pages" /\ kids \in Seq(Nat)
    BY <1>8, <1>14, <1>17, <1>18 DEF Lists
  <2> QED
    BY <2>1, <2>2 DEF IsObject
<1>20. ASSUME NEW id \in pages
       PROVE  /\ IsObject(new.objects[id]) /\ new.objects[id].parent = root
              /\ new.objects[id].type = "Page"
              /\ SameLook(new.objects[id], objects[id])
  <2>1. PICK p, page : p = objects[id] /\ page = new.objects[id]
    OBVIOUS
  <2>2. page = [p EXCEPT !.parent = root]
    BY <1>1, <1>15, <2>1
  <2>3. IsObject(p) /\ p.type = "Page"
    BY <1>8, <1>11, <2>1
  <2>4. IsObject(page) /\ page.parent = root /\ page.type = p.type /\ SameLook(page, p)
    BY <1>15, <2>2, <2>3, ObjectWithParent
  <2> QED
    BY <2>1, <2>3, <2>4
<1>21. IsFiniteSet(Ids(new))
  <2>1. PICK S, r : S = pages /\ r = root
    OBVIOUS
  <2>2. IsFiniteSet(S \cup {r})
    BY <1>13, <2>1, FS_AddElement
  <2> QED
    BY <1>1, <2>1, <2>2
<1>22. IsGraph(new)
  BY <1>1, <1>8, <1>11, <1>14, <1>18, <1>19, <1>20, <1>21 DEF IsGraph, IsPage
<1>23. IsDocument(new) /\ PageCount(new) = Cardinality(pages)
  <2>0. new.root = root
    BY <1>1
  <2>1. Lists(new.objects[new.root].kids, pages) /\ new.objects[new.root].count = Cardinality(pages)
    BY <2>0, <1>17, <1>18, <1>19
  <2>2. \A id \in pages : id \in Ids(new) /\ IsPage(new, id) /\ new.objects[id].parent = new.root
    BY <1>1, <1>20 DEF IsPage
  <2> QED
    BY <1>15, <1>22, <2>1, <2>2, FlatDocument
<1>24. ListsBoth(new, first, second)
  <2>1. ToSet(PageIds(first)) = AllLeaves(first) /\ ToSet(PageIds(second)) = AllLeaves(second)
    BY <1>9 DEF Lists
  <2>2. new.objects[new.root].kids = Ascending(pages)
    BY <1>1, <1>18, <1>19
  <2>3. \A id \in AllLeaves(first) : IsPage(new, id) /\ SameLook(new.objects[id], first.objects[id])
    BY <1>6, <1>10, <1>11, <1>20 DEF IsPage
  <2>4. \A id \in AllLeaves(second) : IsPage(new, id) /\ SameLook(new.objects[id], second.objects[id])
    BY <1>6, <1>10, <1>11, <1>20 DEF IsPage
  <2>5. \A i \in AllLeaves(first), j \in AllLeaves(second) : i < j
    BY <1>3, <1>4, <1>11
  <2> QED
    BY <1>10, <2>1, <2>2, <2>3, <2>4, <2>5 DEF ListsBoth
<1> QED
  BY <1>13, <1>23, <1>24 DEF new, first, second

-----------------------------------------------------------------------------
(* Lists of pages joined, mapped and sorted.                                *)

\* What m makes of every member.
Mapped(s, m) == [i \in DOMAIN s |-> m[s[i]]]

\* c is s, of length a, and then r, of length b.
Joined(c, s, r, a, b) ==
    /\ DOMAIN c = 1..(a + b) /\ c = [i \in 1..(a + b) |-> c[i]]
    /\ \A i \in 1..a : c[i] = s[i]
    /\ \A i \in (a + 1)..(a + b) : c[i] = r[i - a] /\ i - a \in 1..b

LEMMA ConcatIs ==
    ASSUME NEW s \in Seq(Nat), NEW r \in Seq(Nat)
    PROVE  /\ s \o r \in Seq(Nat) /\ Len(s \o r) = Len(s) + Len(r)
           /\ Joined(s \o r, s, r, Len(s), Len(r))
<1>0. PICK a \in Nat, b \in Nat : a = Len(s) /\ b = Len(r)
  OBVIOUS
<1>1. PICK c : a = Len(s) /\ b = Len(r) /\ c = s \o r
  BY <1>0
<1>2. c \in Seq(Nat) /\ Len(c) = a + b
  BY <1>1
<1>3. DOMAIN c = 1..(a + b) /\ c = [i \in 1..(a + b) |-> c[i]]
  BY <1>2, SeqMembers
<1>4. \A i \in 1..a : c[i] = s[i]
  BY <1>1
<1>5. \A i \in (a + 1)..(a + b) : c[i] = r[i - a] /\ i - a \in 1..b
  BY <1>1
<1> QED
  BY <1>1, <1>2, <1>3, <1>4, <1>5 DEF Joined

IsMapped(ms, s, m, a) ==
    /\ DOMAIN ms = 1..a /\ ms = [i \in 1..a |-> ms[i]]
    /\ \A i \in 1..a : ms[i] = m[s[i]]

LEMMA MappedIs ==
    ASSUME NEW m \in [Nat -> Nat], NEW s \in Seq(Nat)
    PROVE  /\ Mapped(s, m) \in Seq(Nat) /\ Len(Mapped(s, m)) = Len(s)
           /\ IsMapped(Mapped(s, m), s, m, Len(s))
<1>0. PICK a \in Nat : a = Len(s)
  OBVIOUS
<1>1. PICK ms : ms = Mapped(s, m)
  OBVIOUS
<1>2. DOMAIN s = 1..a /\ \A i \in 1..a : s[i] \in Nat
  BY <1>0, SeqMembers
<1>3. ms = [i \in 1..a |-> m[s[i]]]
  BY <1>1, <1>2 DEF Mapped
<1>4. \A i \in 1..a : m[s[i]] \in Nat
  BY <1>2
<1>5. ms \in Seq(Nat) /\ Len(ms) = a
  BY <1>3, <1>4
<1> QED
  BY <1>0, <1>1, <1>3, <1>5 DEF IsMapped

LEMMA MappedConcat ==
    ASSUME NEW m \in [Nat -> Nat], NEW s \in Seq(Nat), NEW r \in Seq(Nat)
    PROVE  Mapped(s \o r, m) = Mapped(s, m) \o Mapped(r, m)
<1>1. PICK a \in Nat, b \in Nat : a = Len(s) /\ b = Len(r)
  OBVIOUS
<1>2. PICK c, ms, mr : c = s \o r /\ ms = Mapped(s, m) /\ mr = Mapped(r, m)
  OBVIOUS
<1>3. PICK mc, d : mc = Mapped(c, m) /\ d = ms \o mr
  OBVIOUS
<1>4. c \in Seq(Nat) /\ Len(c) = a + b /\ Joined(c, s, r, a, b)
  BY <1>1, <1>2, ConcatIs
<1>5. /\ ms \in Seq(Nat) /\ Len(ms) = a /\ IsMapped(ms, s, m, a)
      /\ mr \in Seq(Nat) /\ Len(mr) = b /\ IsMapped(mr, r, m, b)
  BY <1>1, <1>2, MappedIs
<1>6. IsMapped(mc, c, m, a + b)
  BY <1>3, <1>4, MappedIs
<1>7. Joined(d, ms, mr, a, b)
  BY <1>3, <1>5, ConcatIs
<1>8. ASSUME NEW i \in 1..(a + b) PROVE mc[i] = d[i]
  <2>0. mc[i] = m[c[i]]
    BY <1>6 DEF IsMapped
  <2>1. CASE i \in 1..a
    <3>1. d[i] = ms[i] /\ c[i] = s[i]
      BY <1>4, <1>7, <2>1 DEF Joined
    <3>2. ms[i] = m[s[i]]
      BY <1>5, <2>1 DEF IsMapped
    <3> QED
      BY <2>0, <3>1, <3>2
  <2>2. CASE i \in (a + 1)..(a + b)
    <3>1. i - a \in 1..b /\ d[i] = mr[i - a] /\ c[i] = r[i - a]
      BY <1>4, <1>7, <2>2 DEF Joined
    <3>2. mr[i - a] = m[r[i - a]]
      BY <1>5, <3>1 DEF IsMapped
    <3> QED
      BY <2>0, <3>1, <3>2
  <2> QED
    BY <2>1, <2>2
<1>9. mc = [i \in 1..(a + b) |-> mc[i]] /\ d = [i \in 1..(a + b) |-> d[i]]
  BY <1>6, <1>7 DEF Joined, IsMapped
<1> QED
  BY <1>2, <1>3, <1>8, <1>9

LEMMA FlattenMapped ==
    ASSUME NEW n \in Nat \ {0}, NEW m \in [Nat -> Nat],
           NEW parts, Len(parts) = n, \A k \in 1..n : parts[k] \in Seq(Nat),
           NEW others, Len(others) = n, \A k \in 1..n : others[k] = Mapped(parts[k], m)
    PROVE  FlattenSeq(others) = Mapped(FlattenSeq(parts), m)
<1>1. PICK f : /\ f[1] = parts[1] /\ f[n] = FlattenSeq(parts)
               /\ \A k \in 1..(n - 1) : f[k + 1] = f[k] \o parts[k + 1]
  BY FlattenGrows
<1>2. PICK g : /\ g[1] = others[1] /\ g[n] = FlattenSeq(others)
               /\ \A k \in 1..(n - 1) : g[k + 1] = g[k] \o others[k + 1]
  BY FlattenGrows
<1> DEFINE P == {k \in 1..n : f[k] \in Seq(Nat) /\ g[k] = Mapped(f[k], m)}
<1>3. 1 \in P
  <2>1. 1 \in 1..n
    OBVIOUS
  <2> QED
    BY <1>1, <1>2, <2>1
<1>4. ASSUME NEW k \in 1..(n - 1), k \in P PROVE k + 1 \in P
  <2>1. k + 1 \in 1..n
    OBVIOUS
  <2>2. PICK s, r : s = f[k] /\ r = parts[k + 1]
    OBVIOUS
  <2>3. s \in Seq(Nat) /\ r \in Seq(Nat)
    BY <1>4, <2>1, <2>2
  <2>4. g[k + 1] = Mapped(s, m) \o Mapped(r, m)
    BY <1>2, <1>4, <2>1, <2>2
  <2>5. g[k + 1] = Mapped(s \o r, m)
    BY <2>3, <2>4, MappedConcat
  <2>6. s \o r \in Seq(Nat)
    BY <2>3
  <2>7. f[k + 1] = s \o r
    BY <1>1, <2>2
  <2> QED
    BY <2>1, <2>5, <2>6, <2>7
<1>5. n \in P
  <2>1. n \in Nat /\ n \in 1..n
    OBVIOUS
  <2> HIDE DEF P
  <2> QED
    BY <1>3, <1>4, <2>1, CountingUp
<1> QED
  BY <1>1, <1>2, <1>5

LEMMA FlattenSingles ==
    ASSUME NEW n \in Nat \ {0}, NEW s \in Seq(Nat), Len(s) = n,
           NEW parts, Len(parts) = n, \A k \in 1..n : parts[k] = <<s[k]>>
    PROVE  FlattenSeq(parts) = s
<1>1. PICK f : /\ f[1] = parts[1] /\ f[n] = FlattenSeq(parts)
               /\ \A k \in 1..(n - 1) : f[k + 1] = f[k] \o parts[k + 1]
  BY FlattenGrows
<1> DEFINE first(k) == [i \in 1..k |-> s[i]]
           P == {k \in 1..n : f[k] = first(k)}
<1>2. 1 \in P
  <2>1. 1 \in 1..n /\ f[1] = <<s[1]>>
    BY <1>1
  <2> QED
    BY <2>1
<1>3. ASSUME NEW k \in 1..(n - 1), k \in P PROVE k + 1 \in P
  <2>1. k + 1 \in 1..n /\ \A i \in 1..(k + 1) : i \in 1..n
    OBVIOUS
  <2>0. \A i \in 1..n : s[i] \in Nat
    <3>1. \A i \in DOMAIN s : s[i] \in Nat
      OBVIOUS
    <3>2. DOMAIN s = 1..n
      OBVIOUS
    <3> QED
      BY <3>1, <3>2
  <2>2. PICK x \in Nat : x = s[k + 1]
    BY <2>0, <2>1
  <2>9. PICK t : t = first(k)
    OBVIOUS
  <2>3. t \in Seq(Nat) /\ Len(t) = k /\ \A i \in 1..k : t[i] = s[i]
    BY <2>0, <2>1, <2>9
  <2>4. f[k + 1] = t \o <<x>>
    BY <1>1, <1>3, <2>1, <2>2, <2>9
  <2>5. PICK c : c = t \o <<x>>
    OBVIOUS
  <2>6. c \in Seq(Nat) /\ Len(c) = k + 1 /\ (\A i \in 1..k : c[i] = t[i]) /\ c[k + 1] = x
    BY <2>3, <2>5
  <2>7. \A i \in 1..(k + 1) : c[i] = s[i]
    BY <2>2, <2>3, <2>6
  <2>8. c = first(k + 1)
    BY <2>6, <2>7
  <2> QED
    BY <2>1, <2>4, <2>5, <2>8
<1>4. n \in P
  <2>1. n \in Nat /\ n \in 1..n
    OBVIOUS
  <2> HIDE DEF P
  <2> QED
    BY <1>2, <1>3, <2>1, CountingUp
<1>5. first(n) = s
  OBVIOUS
<1> QED
  BY <1>1, <1>4, <1>5

\* A list in ascending order is Ascending of its set.
LEMMA AscendingUnique ==
    ASSUME NEW S \in SUBSET Nat, NEW s, Lists(s, S),
           \A j, k \in DOMAIN s : j < k => s[j] < s[k]
    PROVE  s = Ascending(S)
<1>1. PICK n \in Nat : n = Len(s) /\ DOMAIN s = 1..n /\ s \in Seq(Nat)
  BY DEF Lists
<1>2. IsFiniteSet(S) /\ Cardinality(S) = n
  BY <1>1, ListLength
<1>3. ASSUME NEW k \in 1..n PROVE s[k] \in S /\ Rank(S, s[k]) = k - 1
  <2>1. s[k] \in S
    BY <1>1 DEF Lists, ToSet
  <2>2. {m \in S : m < s[k]} = {s[j] : j \in 1..(k - 1)}
    <3>1. ASSUME NEW j \in 1..(k - 1) PROVE s[j] \in S /\ s[j] < s[k]
      <4>1. j \in DOMAIN s /\ k \in DOMAIN s /\ j < k
        BY <1>1
      <4> QED
        BY <4>1 DEF Lists, ToSet
    <3>2. ASSUME NEW m \in S, m < s[k] PROVE \E j \in 1..(k - 1) : m = s[j]
      <4>1. PICK j \in 1..n : m = s[j]
        BY <1>1 DEF Lists, ToSet
      <4>2. ~ (k < j) /\ j # k
        <5>1. s[j] \in Nat /\ s[k] \in Nat
          BY <1>1
        <5>2. k < j => s[k] < s[j]
          BY <1>1
        <5> QED
          BY <3>2, <4>1, <5>1, <5>2
      <4> QED
        BY <4>1, <4>2
    <3> QED
      BY <3>1, <3>2
  <2>3. k - 1 \in Nat /\ 1..(k - 1) \subseteq 1..n
    OBVIOUS
  <2>4. \A i, j \in 1..(k - 1) : s[i] = s[j] => i = j
    BY <1>1, <2>3 DEF Lists, IsInjective
  <2>5. PICK c \in Nat : c = k - 1
    BY <2>3
  <2>8. PICK T : T = 1..c
    OBVIOUS
  <2>6. IsFiniteSet(T) /\ Cardinality(T) = c
    BY <2>8, UpTo
  <2>7. Cardinality({s[j] : j \in T}) = c
    BY <2>4, <2>5, <2>6, <2>8, ImageCardinality
  <2> QED
    BY <2>1, <2>2, <2>5, <2>7, <2>8 DEF Rank
<1>4. ASSUME NEW k \in 1..n, NEW x \in S, Rank(S, x) = k - 1 PROVE x = s[k]
  <2>1. x \in Nat /\ s[k] \in Nat /\ s[k] \in S /\ Rank(S, s[k]) = k - 1
    BY <1>1, <1>3
  <2>2. ~ (x < s[k]) /\ ~ (s[k] < x)
    BY <1>2, <1>4, <2>1, Ranks
  <2> QED
    BY <2>1, <2>2
<1>5. ASSUME NEW k \in 1..n
      PROVE  (CHOOSE x \in S : Cardinality({m \in S : m < x}) = k - 1) = s[k]
  <2>1. s[k] \in S /\ Cardinality({m \in S : m < s[k]}) = k - 1
    BY <1>3 DEF Rank
  <2>2. \A x \in S : Cardinality({m \in S : m < x}) = k - 1 => x = s[k]
    BY <1>4 DEF Rank
  <2> QED
    BY <2>1, <2>2
<1>6. Ascending(S) = [k \in 1..n |-> s[k]]
  BY <1>2, <1>5 DEF Ascending
<1> QED
  BY <1>1, <1>6

-----------------------------------------------------------------------------
(* The order of the pages.                                                  *)

PageParts(doc) ==
    LET kids == doc.objects[doc.root].kids IN
    [k \in DOMAIN kids |-> IF IsPage(doc, kids[k]) THEN <<kids[k]>> ELSE doc.objects[kids[k]].kids]

\* The k-th kid of the root, and the pages it stands for.
PartAt(doc, kids, k) ==
    /\ kids[k] \in Kids(doc, doc.root) /\ kids[k] \in Ids(doc) /\ kids[k] \in Nat
    /\ PageParts(doc)[k] = IF IsPage(doc, kids[k]) THEN <<kids[k]>> ELSE doc.objects[kids[k]].kids
    /\ ~ IsPage(doc, kids[k]) => kids[k] \in Nodes(doc)
    /\ PageParts(doc)[k] \in Seq(Nat)

HasParts(doc, kids, n) ==
    /\ n \in Nat \ {0} /\ n = Len(kids) /\ DOMAIN kids = 1..n /\ kids \in Seq(Nat)
    /\ PageIds(doc) = FlattenSeq(PageParts(doc)) /\ Len(PageParts(doc)) = n
    /\ \A k \in 1..n : PartAt(doc, kids, k)

LEMMA PartsFacts ==
    ASSUME NEW doc, IsDocument(doc)
    PROVE  HasParts(doc, doc.objects[doc.root].kids, Len(doc.objects[doc.root].kids))
<1>0. PICK kids : kids = doc.objects[doc.root].kids
  OBVIOUS
<1>1. PageIds(doc) = FlattenSeq(PageParts(doc))
  BY DEF PageIds, PageParts
<1>2. Lists(kids, Kids(doc, doc.root))
  BY <1>0, TreeFacts
<1>3. PICK n \in Nat : n = Len(kids) /\ DOMAIN kids = 1..n /\ kids \in Seq(Nat)
  BY <1>2 DEF Lists
<1>4. Len(PageParts(doc)) = n
  BY <1>0, <1>3 DEF PageParts
<1>5. ASSUME NEW k \in 1..n PROVE PartAt(doc, kids, k)
  <2>1. kids[k] \in Kids(doc, doc.root)
    BY <1>2, <1>3 DEF Lists, ToSet
  <2>2. kids[k] \in Ids(doc)
    BY <2>1, TreeFacts
  <2>3. kids[k] \in Nat
    BY <1>3, SeqMembers
  <2>4. PageParts(doc)[k] = IF IsPage(doc, kids[k]) THEN <<kids[k]>> ELSE doc.objects[kids[k]].kids
    BY <1>0, <1>3 DEF PageParts
  <2>5. ~ IsPage(doc, kids[k]) => kids[k] \in Nodes(doc)
    BY <2>1 DEF Nodes
  <2>6. PageParts(doc)[k] \in Seq(Nat)
    <3>1. CASE IsPage(doc, kids[k])
      <4>1. PICK x \in Nat : x = kids[k]
        BY <2>3
      <4>2. PageParts(doc)[k] = <<x>>
        BY <2>4, <3>1, <4>1
      <4> QED
        BY <4>2
    <3>2. CASE ~ IsPage(doc, kids[k])
      <4>1. Lists(doc.objects[kids[k]].kids, Kids(doc, kids[k]))
        BY <2>5, <3>2, TreeFacts
      <4> QED
        BY <2>4, <3>2, <4>1 DEF Lists
    <3> QED
      BY <3>1, <3>2
  <2> QED
    BY <2>1, <2>2, <2>3, <2>4, <2>5, <2>6 DEF PartAt
<1>6. n # 0
  <2>1. SUFFICES ASSUME n = 0 PROVE FALSE
    OBVIOUS
  <2>2. ToSet(kids) = {}
    BY <1>3, <2>1 DEF ToSet
  <2>3. Kids(doc, doc.root) = {}
    BY <1>0, <2>2 DEF Kids
  <2>4. AllLeaves(doc) = {}
    BY <2>3 DEF AllLeaves, Leaves, Nodes
  <2> QED
    BY <2>4 DEF IsDocument
<1> QED
  BY <1>0, <1>1, <1>3, <1>4, <1>5, <1>6 DEF HasParts

LEMMA FlatPages ==
    ASSUME NEW doc, IsDocument(doc), NEW kids, kids = doc.objects[doc.root].kids,
           \A id \in ToSet(kids) : IsPage(doc, id)
    PROVE  PageIds(doc) = kids
<1>1. PICK n : HasParts(doc, kids, n)
  BY PartsFacts
<1>2. PICK parts : parts = PageParts(doc)
  OBVIOUS
<1>3. ASSUME NEW k \in 1..n PROVE parts[k] = <<kids[k]>>
  <2>1. kids[k] \in ToSet(kids)
    BY <1>1 DEF HasParts, ToSet
  <2> QED
    BY <1>1, <1>2, <2>1 DEF HasParts, PartAt
<1>4. /\ n \in Nat \ {0} /\ Len(kids) = n /\ kids \in Seq(Nat) /\ Len(parts) = n
      /\ PageIds(doc) = FlattenSeq(parts)
  BY <1>1, <1>2 DEF HasParts
<1> QED
  BY <1>3, <1>4, FlattenSingles

LEMMA SamePages ==
    ASSUME NEW doc, IsDocument(doc), NEW new, new.root = doc.root,
           \A id \in InTree(doc) : SamePlace(new.objects[id], doc.objects[id])
    PROVE  PageIds(new) = PageIds(doc)
<1>1. PICK kids : kids = doc.objects[doc.root].kids
  OBVIOUS
<1>2. \A k \in DOMAIN kids : kids[k] \in InTree(doc)
  <2>1. \A k \in DOMAIN kids : kids[k] \in Kids(doc, doc.root)
    BY <1>1 DEF Kids, ToSet
  <2> QED
    BY <2>1, KidsInTree
<1>3. new.objects[new.root].kids = kids
  BY <1>1 DEF InTree, SamePlace
<1>4. \A k \in DOMAIN kids : /\ IsPage(new, kids[k]) <=> IsPage(doc, kids[k])
                             /\ new.objects[kids[k]].kids = doc.objects[kids[k]].kids
  BY <1>2 DEF SamePlace, IsPage
<1>5. PageParts(new) = PageParts(doc)
  BY <1>1, <1>3, <1>4 DEF PageParts
<1> QED
  BY <1>5 DEF PageIds, PageParts

LEMMA RelabelledPages ==
    ASSUME NEW doc, IsDocument(doc), NEW m, NEW new, RelabelledBy(doc, m, new)
    PROVE  PageIds(new) = [p \in DOMAIN PageIds(doc) |-> m[PageIds(doc)[p]]]
<1> DEFINE all == [k \in Nat |-> IF k \in Ids(doc) THEN m[k] ELSE k]
<1>1. /\ all \in [Nat -> Nat] /\ \A id \in Ids(doc) : id \in Nat /\ all[id] = m[id]
  <2>1. m \in [Ids(doc) -> Nat \ {0}] /\ Ids(doc) \subseteq Nat
    BY DEF RelabelledBy, IsDocument, IsGraph
  <2> QED
    BY <2>1
<1> HIDE DEF all
<1>2. PICK kids, others : kids = doc.objects[doc.root].kids /\ others = new.objects[new.root].kids
  OBVIOUS
<1>3. PICK n \in Nat \ {0} : HasParts(doc, kids, n) /\ Len(kids) = n /\ DOMAIN kids = 1..n
  BY <1>2, PartsFacts DEF HasParts
<1>4. IsDocument(new)
  BY Relabelled
<1>5. /\ Len(others) = n /\ DOMAIN others = 1..n
      /\ Len(PageParts(new)) = n /\ PageIds(new) = FlattenSeq(PageParts(new))
  <2>1. doc.root \in Ids(doc) /\ new.root = m[doc.root]
    BY DEF RelabelledBy, IsDocument, IsGraph
  <2>2. DOMAIN others = DOMAIN kids
    BY <1>2, <2>1 DEF RelabelledBy
  <2>3. others \in Seq(Nat) /\ Len(PageParts(new)) = Len(others) /\ PageIds(new) = FlattenSeq(PageParts(new))
    BY <1>2, <1>4, PartsFacts DEF HasParts
  <2>4. Len(others) = n
    <3>1. DOMAIN others = 1..Len(others) /\ Len(others) \in Nat
      BY <2>3, SeqMembers
    <3> QED
      BY <1>3, <2>2, <3>1
  <2> QED
    BY <1>3, <2>2, <2>3, <2>4
<1>6. ASSUME NEW k \in 1..n PROVE PageParts(new)[k] = Mapped(PageParts(doc)[k], all)
  <2>1. /\ kids[k] \in Kids(doc, doc.root) /\ kids[k] \in Ids(doc) /\ kids[k] \in Nat
        /\ PageParts(doc)[k] = IF IsPage(doc, kids[k]) THEN <<kids[k]>> ELSE doc.objects[kids[k]].kids
        /\ ~ IsPage(doc, kids[k]) => kids[k] \in Nodes(doc)
    BY <1>3 DEF HasParts, PartAt
  <2>2. PageParts(new)[k] = IF IsPage(new, others[k]) THEN <<others[k]>>
                            ELSE new.objects[others[k]].kids
    BY <1>2, <1>5 DEF PageParts
  <2>3. others[k] = m[kids[k]]
    <3>1. doc.root \in Ids(doc) /\ new.root = m[doc.root]
      BY DEF RelabelledBy, IsDocument, IsGraph
    <3>2. k \in DOMAIN doc.objects[doc.root].kids /\ doc.objects[doc.root].kids[k] \in Ids(doc)
      BY <1>2, <1>3, <2>1
    <3>3. new.objects[m[doc.root]].kids[k] = m[doc.objects[doc.root].kids[k]]
      BY <3>1, <3>2 DEF RelabelledBy
    <3> QED
      BY <1>2, <3>1, <3>3
  <2>4. IsPage(new, others[k]) <=> IsPage(doc, kids[k])
    BY <2>1, <2>3 DEF RelabelledBy, IsPage
  <2>5. CASE IsPage(doc, kids[k])
    <3>1. PICK x \in Nat : x = kids[k]
      BY <2>1
    <3>2. PageParts(doc)[k] = <<x>> /\ PageParts(new)[k] = <<all[x]>>
      BY <1>1, <2>1, <2>2, <2>3, <2>4, <2>5, <3>1
    <3>3. Mapped(<<x>>, all) = <<all[x]>>
      BY DEF Mapped
    <3> QED
      BY <3>2, <3>3
  <2>6. CASE ~ IsPage(doc, kids[k])
    <3>1. PICK old, object : old = doc.objects[kids[k]].kids /\ object = new.objects[others[k]].kids
      OBVIOUS
    <3>2. PageParts(doc)[k] = old /\ PageParts(new)[k] = object
      BY <2>1, <2>2, <2>4, <2>6, <3>1
    <3>3. DOMAIN object = DOMAIN old /\ \A i \in DOMAIN old : old[i] \in Ids(doc) => object[i] = m[old[i]]
      BY <2>1, <2>3, <3>1 DEF RelabelledBy
    <3>4. \A i \in DOMAIN old : old[i] \in Ids(doc)
      <4>1. \A i \in DOMAIN old : old[i] \in Kids(doc, kids[k])
        BY <3>1 DEF Kids, ToSet
      <4> QED
        BY <2>1, <2>6, <4>1, TreeFacts
    <3>5. object = [i \in DOMAIN object |-> object[i]]
      <4>1. object \in Seq(Nat)
        <5>1. m[kids[k]] \in Ids(new)
          BY <2>1 DEF RelabelledBy
        <5> QED
          BY <1>4, <2>3, <3>1, <5>1 DEF IsDocument, IsGraph, IsObject
      <4> QED
        BY <4>1
    <3>6. \A i \in DOMAIN old : object[i] = all[old[i]]
      BY <1>1, <3>3, <3>4
    <3>7. object = Mapped(old, all)
      BY <3>3, <3>5, <3>6 DEF Mapped
    <3> QED
      BY <3>2, <3>7
  <2> QED
    BY <2>5, <2>6
<1>7. PageIds(new) = Mapped(PageIds(doc), all)
  <2>1. PICK parts, moved : parts = PageParts(doc) /\ moved = PageParts(new)
    OBVIOUS
  <2>2. /\ Len(parts) = n /\ Len(moved) = n
        /\ PageIds(doc) = FlattenSeq(parts) /\ PageIds(new) = FlattenSeq(moved)
    BY <1>3, <1>5, <2>1 DEF HasParts
  <2>3. \A k \in 1..n : parts[k] \in Seq(Nat)
    BY <1>3, <2>1 DEF HasParts, PartAt
  <2>4. \A k \in 1..n : moved[k] = Mapped(parts[k], all)
    BY <1>6, <2>1
  <2>5. FlattenSeq(moved) = Mapped(FlattenSeq(parts), all)
    BY <1>1, <2>2, <2>3, <2>4, FlattenMapped
  <2> QED
    BY <2>2, <2>5
<1>8. \A p \in DOMAIN PageIds(doc) : PageIds(doc)[p] \in Ids(doc)
  BY PagesListed, TreeFacts DEF Lists, ToSet
<1> QED
  BY <1>1, <1>7, <1>8 DEF Mapped

-----------------------------------------------------------------------------
(* The pages, each with its own keys.                                       *)

PageView(page) ==
    [marks |-> page.marks, box |-> page.box, crop |-> page.crop,
     turn |-> IF page.rotate = None THEN 0 ELSE page.rotate]

LEMMA ViewIs ==
    ASSUME NEW doc
    PROVE  View(doc) = [p \in 1..PageCount(doc) |-> PageView(PageObject(doc, p))]
BY DEF View, PageView

LEMMA LookIsView ==
    ASSUME NEW object, NEW old, SameLook(object, old)
    PROVE  PageView(object) = PageView(old)
BY DEF SameLook, PageView

LEMMA PageAt ==
    ASSUME NEW doc, IsDocument(doc), NEW p \in 1..PageCount(doc)
    PROVE  /\ PageIds(doc)[p] \in AllLeaves(doc) /\ PageIds(doc)[p] \in Ids(doc)
           /\ PageIds(doc)[p] \in InTree(doc) /\ PageIds(doc)[p] # doc.root
           /\ PageObject(doc, p) = doc.objects[PageIds(doc)[p]]
<1>1. Lists(PageIds(doc), AllLeaves(doc)) /\ DOMAIN PageIds(doc) = 1..PageCount(doc)
  BY PagesListed, SeqMembers DEF PageCount, Lists
<1>2. PageIds(doc)[p] \in AllLeaves(doc)
  BY <1>1 DEF Lists, ToSet
<1>3. PageIds(doc)[p] \in Ids(doc) /\ IsPage(doc, PageIds(doc)[p])
  BY <1>2, TreeFacts
<1>4. PageIds(doc)[p] # doc.root
  BY <1>3 DEF IsDocument, IsGraph
<1> QED
  BY <1>2, <1>3, <1>4 DEF InTree, PageObject

LEMMA SameViews ==
    ASSUME NEW doc, NEW new, PageCount(new) = PageCount(doc),
           \A p \in 1..PageCount(doc) : SameLook(PageObject(new, p), PageObject(doc, p))
    PROVE  View(new) = View(doc)
<1>1. \A p \in 1..PageCount(doc) : PageView(PageObject(new, p)) = PageView(PageObject(doc, p))
  BY LookIsView
<1> QED
  BY <1>1, ViewIs

LEMMA PruneView ==
    ASSUME NEW doc, IsDocument(doc)
    PROVE  View(Prune(doc)) = View(doc)
<1>1. PICK new : new = Prune(doc)
  OBVIOUS
<1>2. /\ PageCount(new) = PageCount(doc) /\ new.root = doc.root
      /\ \A id \in InTree(doc) : new.objects[id] = doc.objects[id]
  BY <1>1, PruneKeeps
<1>3. PageIds(new) = PageIds(doc)
  BY <1>2, SamePages DEF SamePlace
<1>4. ASSUME NEW p \in 1..PageCount(doc) PROVE SameLook(PageObject(new, p), PageObject(doc, p))
  <2>1. PageIds(doc)[p] \in InTree(doc)
    BY PageAt
  <2> QED
    BY <1>2, <1>3, <2>1 DEF PageObject, SameLook
<1> QED
  BY <1>1, <1>2, <1>4, SameViews

\* Under new ids, the pages are in the order they were in.
LEMMA RenumberOrder ==
    ASSUME NEW doc, IsDocument(doc), NEW start \in Nat \ {0}
    PROVE  /\ View(Renumber(doc, start)) = View(doc)
           /\ \A j, k \in 1..PageCount(doc) :
                  j < k => PageIds(Renumber(doc, start))[j] < PageIds(Renumber(doc, start))[k]
<1>1. PICK new : new = Renumber(doc, start)
  OBVIOUS
<1>2. PICK m : RelabelledBy(doc, m, new) /\ Rising(doc, m)
  BY <1>1, RenumberRelabels
<1>3. PageIds(new) = [p \in DOMAIN PageIds(doc) |-> m[PageIds(doc)[p]]]
  BY <1>2, RelabelledPages
<1>4. DOMAIN PageIds(doc) = 1..PageCount(doc) /\ PageCount(new) = PageCount(doc)
  BY <1>2, PagesListed, SeqMembers, Relabelled DEF PageCount, Lists
<1>5. ASSUME NEW p \in 1..PageCount(doc) PROVE SameLook(PageObject(new, p), PageObject(doc, p))
  <2>1. PageIds(doc)[p] \in Ids(doc)
    BY PageAt
  <2>2. SameLook(new.objects[m[PageIds(doc)[p]]], doc.objects[PageIds(doc)[p]])
    BY <1>2, <2>1 DEF RelabelledBy
  <2> QED
    BY <1>3, <1>4, <2>2 DEF PageObject
<1>6. View(new) = View(doc)
  BY <1>4, <1>5, SameViews
<1>7. \A j, k \in 1..PageCount(doc) : j < k => PageIds(new)[j] < PageIds(new)[k]
  BY <1>2, <1>3, <1>4 DEF Rising
<1> QED
  BY <1>1, <1>6, <1>7

\* Saving and loading between two operators shows nothing.
LEMMA LoadedView ==
    ASSUME NEW s, IsDocument(pdf[s])
    PROVE  View(Loaded(s)) = View(pdf[s])
<1>1. PICK pruned : pruned = Prune(pdf[s])
  OBVIOUS
<1>2. IsDocument(pruned) /\ View(pruned) = View(pdf[s])
  BY <1>1, PruneKeeps, PruneView
<1>3. View(Renumber(pruned, 1)) = View(pruned)
  BY <1>2, RenumberOrder
<1> QED
  BY <1>1, <1>2, <1>3 DEF Loaded

\* Objects of doc in the order of ids.
Shown(doc, ids) == [p \in 1..Len(ids) |-> PageView(doc.objects[ids[p]])]

\* A root that lists pages of doc shows them in its order.
LEMMA ListedView ==
    ASSUME NEW doc, NEW new, IsDocument(new), NEW ids, ListsPages(new, doc, ids)
    PROVE  PageIds(new) = ids /\ View(new) = Shown(doc, ids)
<1>1. PageIds(new) = ids
  BY FlatPages DEF ListsPages
<1>2. PageCount(new) = Len(ids) /\ DOMAIN ids = 1..Len(ids)
  BY <1>1, PagesListed, SeqMembers DEF PageCount, Lists
<1>3. ASSUME NEW p \in 1..Len(ids)
      PROVE  PageView(PageObject(new, p)) = PageView(doc.objects[ids[p]])
  <2>1. ids[p] \in ToSet(ids)
    BY <1>2 DEF ToSet
  <2>2. SameLook(new.objects[ids[p]], doc.objects[ids[p]])
    BY <2>1 DEF ListsPages
  <2> QED
    BY <1>1, <2>2, LookIsView DEF PageObject
<1> QED
  BY <1>1, <1>2, <1>3, ViewIs DEF Shown

LEMMA KeptView ==
    ASSUME NEW doc, IsDocument(doc), NEW selected, NEW N, N \subseteq 1..PageCount(doc), N # {},
           Lists(selected, N)
    PROVE  View(KeepPages(doc, selected)) = [k \in DOMAIN selected |-> View(doc)[selected[k]]]
<1>1. PICK new, ids : /\ new = KeepPages(doc, selected)
                      /\ ids = [k \in DOMAIN selected |-> PageIds(doc)[selected[k]]]
  OBVIOUS
<1>2. IsDocument(new) /\ ListsPages(new, doc, ids)
  BY <1>1, KeepMakesDocument
<1>3. View(new) = Shown(doc, ids)
  BY <1>2, ListedView
<1>4. DOMAIN selected = 1..Len(selected) /\ Len(selected) \in Nat
  BY SeqMembers DEF Lists
<1>5. Len(ids) = Len(selected)
  BY <1>1, <1>4
<1>6. ASSUME NEW k \in DOMAIN selected
      PROVE  PageView(doc.objects[ids[k]]) = View(doc)[selected[k]]
  <2>1. selected[k] \in 1..PageCount(doc)
    BY DEF Lists, ToSet
  <2>2. View(doc)[selected[k]] = PageView(doc.objects[PageIds(doc)[selected[k]]])
    BY <2>1, ViewIs, PageAt
  <2> QED
    BY <1>1, <2>2
<1> QED
  BY <1>1, <1>3, <1>4, <1>5, <1>6 DEF Shown

LEMMA FunctionIsSeq ==
    ASSUME NEW n \in Nat, NEW s, s = [k \in 1..n |-> s[k]], NEW S, \A k \in 1..n : s[k] \in S
    PROVE  s \in Seq(S) /\ Len(s) = n
OBVIOUS

LEMMA ConcatOver ==
    ASSUME NEW S, NEW s \in Seq(S), NEW r \in Seq(S)
    PROVE  Joined(s \o r, s, r, Len(s), Len(r))
<1>0. PICK a \in Nat, b \in Nat : a = Len(s) /\ b = Len(r)
  OBVIOUS
<1>1. PICK c : c = s \o r
  OBVIOUS
<1>2. c \in Seq(S) /\ Len(c) = a + b
  BY <1>0, <1>1
<1>3. DOMAIN c = 1..(a + b) /\ c = [i \in 1..(a + b) |-> c[i]]
  BY <1>2
<1>4. \A i \in 1..a : c[i] = s[i]
  BY <1>0, <1>1
<1>5. \A i \in (a + 1)..(a + b) : c[i] = r[i - a] /\ i - a \in 1..b
  BY <1>0, <1>1
<1> QED
  BY <1>0, <1>1, <1>3, <1>4, <1>5 DEF Joined

IsTuple(s, n) == s = [i \in 1..n |-> s[i]]

LEMMA JoinedViews ==
    ASSUME NEW a \in Nat, NEW b \in Nat, NEW s, IsTuple(s, a), NEW r, IsTuple(r, b),
           NEW c, Joined(c, s, r, a, b)
    PROVE  c = s \o r
<1>1. PICK S : S = {s[i] : i \in 1..a} \cup {r[i] : i \in 1..b}
  OBVIOUS
<1>2. (\A i \in 1..a : s[i] \in S) /\ (\A i \in 1..b : r[i] \in S)
  BY <1>1, Zenon
<1>3. s \in Seq(S) /\ Len(s) = a
  BY <1>2, FunctionIsSeq DEF IsTuple
<1>4. r \in Seq(S) /\ Len(r) = b
  BY <1>2, FunctionIsSeq DEF IsTuple
<1>5. PICK d : d = s \o r
  OBVIOUS
<1>6. Joined(d, s, r, a, b)
  BY <1>3, <1>4, <1>5, ConcatOver
<1>7. ASSUME NEW i \in 1..(a + b) PROVE d[i] = c[i]
  <2>1. i \in 1..a \/ i \in (a + 1)..(a + b)
    OBVIOUS
  <2> QED
    BY <1>6, <2>1 DEF Joined
<1>8. c = [i \in 1..(a + b) |-> c[i]] /\ d = [i \in 1..(a + b) |-> d[i]]
  BY <1>6 DEF Joined
<1> QED
  BY <1>5, <1>7, <1>8

Precedes(A, B) == \A x \in A, y \in B : x < y
Rises(s) == \A j, k \in 1..Len(s) : j < k => s[j] < s[k]

LEMMA RisingConcat ==
    ASSUME NEW s, NEW A \in SUBSET Nat, Lists(s, A), NEW r, NEW B \in SUBSET Nat, Lists(r, B),
           Rises(s), Rises(r), Precedes(A, B)
    PROVE  s \o r = Ascending(A \cup B)
<1>1. PICK a \in Nat, b \in Nat : a = Len(s) /\ b = Len(r)
  BY DEF Lists
<1>2. PICK c : c = s \o r
  OBVIOUS
<1>3. Joined(c, s, r, a, b)
  BY <1>1, <1>2, ConcatIs DEF Lists
<1>4. A \cap B = {}
  BY DEF Precedes
<1>5. Lists(c, A \cup B)
  BY <1>2, <1>4, ListConcat
<1>6. (\A i \in 1..a : s[i] \in A) /\ (\A i \in 1..b : r[i] \in B)
  BY <1>1, SeqMembers DEF Lists, ToSet
<1>7. ASSUME NEW j \in 1..(a + b), NEW k \in 1..(a + b), j < k PROVE c[j] < c[k]
  <2>1. CASE k \in 1..a
    <3>2. j \in 1..a
      BY <1>7, <2>1
    <3>1. j \in 1..a /\ c[j] = s[j] /\ c[k] = s[k]
      BY <1>3, <2>1, <3>2 DEF Joined
    <3> QED
      BY <1>1, <1>7, <2>1, <3>1 DEF Rises
  <2>2. CASE j \in 1..a /\ k \in (a + 1)..(a + b)
    <3>1. c[j] = s[j] /\ c[k] = r[k - a] /\ k - a \in 1..b
      BY <1>3, <2>2 DEF Joined
    <3>2. s[j] \in A /\ r[k - a] \in B
      BY <1>6, <2>2, <3>1
    <3> QED
      BY <3>1, <3>2 DEF Precedes
  <2>3. CASE j \in (a + 1)..(a + b)
    <3>1. k \in (a + 1)..(a + b)
      BY <1>7, <2>3
    <3>2. c[j] = r[j - a] /\ c[k] = r[k - a] /\ k - a \in 1..b /\ j - a \in 1..b
      BY <1>3, <2>3, <3>1 DEF Joined
    <3>3. j - a < k - a
      BY <1>7
    <3>4. r[j - a] < r[k - a]
      BY <1>1, <3>2, <3>3 DEF Rises
    <3> QED
      BY <3>2, <3>4
  <2> QED
    BY <1>7, <2>1, <2>2, <2>3
<1>8. \A j, k \in DOMAIN c : j < k => c[j] < c[k]
  BY <1>3, <1>7 DEF Joined
<1>9. A \cup B \in SUBSET Nat
  OBVIOUS
<1>10. c = Ascending(A \cup B)
  BY <1>5, <1>8, <1>9, AscendingUnique
<1> QED
  BY <1>2, <1>10

\* merge_documents: the pages of the first, then those of the second.
LEMMA MergedView ==
    ASSUME NEW left, IsDocument(left), NEW right, IsDocument(right)
    PROVE  View(MergeDocuments(left, right)) = View(left) \o View(right)
<1>1. PICK new, start : new = MergeDocuments(left, right) /\ start = Cardinality(Ids(left)) + 1
  OBVIOUS
<1>2. PICK first, second : first = Renumber(left, 1) /\ second = Renumber(right, start)
  OBVIOUS
<1>3. start \in Nat \ {0}
  <2>1. Cardinality(Ids(left)) \in Nat
    BY FS_CardinalityType DEF IsDocument, IsGraph
  <2> QED
    BY <1>1, <2>1
<1>4. IsDocument(first) /\ IsDocument(second) /\ IsDocument(new) /\ ListsBoth(new, first, second)
  BY <1>1, <1>2, <1>3, RenumberKeeps, MergeMakesDocument
<1>5. PICK a \in Nat, b \in Nat : a = PageCount(left) /\ b = PageCount(right)
  BY PagesListed
<1>6. /\ PageCount(first) = a /\ View(first) = View(left)
      /\ \A j, k \in 1..a : j < k => PageIds(first)[j] < PageIds(first)[k]
  BY <1>2, <1>5, RenumberKeeps, RenumberOrder
<1>7. /\ PageCount(second) = b /\ View(second) = View(right)
      /\ \A j, k \in 1..b : j < k => PageIds(second)[j] < PageIds(second)[k]
  BY <1>2, <1>3, <1>5, RenumberKeeps, RenumberOrder
<1>8. PICK s, r, A, B : /\ s = PageIds(first) /\ r = PageIds(second)
                        /\ A = ToSet(s) /\ B = ToSet(r)
  OBVIOUS
<1>9. Lists(s, A) /\ Lists(r, B) /\ Len(s) = a /\ Len(r) = b
  BY <1>4, <1>6, <1>7, <1>8, PagesListed DEF Lists, PageCount
<1>10. A \in SUBSET Nat /\ B \in SUBSET Nat
  BY <1>9, SeqMembers DEF Lists, ToSet
<1>11. Precedes(A, B)
  BY <1>4, <1>8 DEF ListsBoth, Precedes
<1>12. s \o r = Ascending(A \cup B)
  <2>1. Rises(s) /\ Rises(r)
    BY <1>6, <1>7, <1>8, <1>9 DEF Rises
  <2> QED
    BY <1>9, <1>10, <1>11, <2>1, RisingConcat
<1>13. PICK ids : ids = s \o r
  OBVIOUS
<1>14. Joined(ids, s, r, a, b) /\ Len(ids) = a + b
  BY <1>9, <1>13, ConcatIs DEF Lists
<1>15. new.objects[new.root].kids = ids
  BY <1>4, <1>8, <1>12, <1>13 DEF ListsBoth
<1>16. PageIds(new) = ids /\ PageCount(new) = a + b
  <2>1. ToSet(ids) = A \cup B
    <3>1. A \cap B = {}
      BY <1>10, <1>11 DEF Precedes
    <3>2. Lists(ids, A \cup B)
      BY <1>9, <1>13, <3>1, ListConcat
    <3> QED
      BY <3>2 DEF Lists
  <2>2. \A id \in ToSet(ids) : IsPage(new, id)
    BY <1>4, <1>8, <2>1 DEF ListsBoth
  <2> QED
    BY <1>4, <1>14, <1>15, <2>2, FlatPages DEF PageCount
<1>17. View(new) = [p \in 1..(a + b) |-> PageView(new.objects[ids[p]])]
  BY <1>16, ViewIs DEF PageObject
<1>18. ASSUME NEW p \in 1..a PROVE View(new)[p] = View(left)[p]
  <2>0. p \in 1..(a + b)
    OBVIOUS
  <2>1. ids[p] = s[p] /\ p \in 1..(a + b)
    BY <1>14, <2>0 DEF Joined
  <2>2. s[p] \in A
    BY <1>8, <1>9, SeqMembers DEF Lists, ToSet
  <2>3. PageView(new.objects[s[p]]) = PageView(first.objects[s[p]])
    BY <1>4, <1>8, <2>2, LookIsView DEF ListsBoth
  <2>4. View(first)[p] = PageView(first.objects[s[p]])
    BY <1>6, <1>8, ViewIs DEF PageObject
  <2> QED
    BY <1>6, <1>17, <2>1, <2>3, <2>4
<1>19. ASSUME NEW p \in (a + 1)..(a + b) PROVE View(new)[p] = View(right)[p - a]
  <2>1. ids[p] = r[p - a] /\ p \in 1..(a + b) /\ p - a \in 1..b
    BY <1>14 DEF Joined
  <2>2. r[p - a] \in B
    BY <1>8, <1>9, <2>1, SeqMembers DEF Lists, ToSet
  <2>3. PageView(new.objects[r[p - a]]) = PageView(second.objects[r[p - a]])
    BY <1>4, <1>8, <2>2, LookIsView DEF ListsBoth
  <2>4. View(second)[p - a] = PageView(second.objects[r[p - a]])
    BY <1>7, <1>8, <2>1, ViewIs DEF PageObject
  <2> QED
    BY <1>7, <1>17, <2>1, <2>3, <2>4
<1>20. PICK c, vs, vr : c = View(new) /\ vs = View(left) /\ vr = View(right)
  OBVIOUS
<1>21. IsTuple(vs, a) /\ IsTuple(vr, b) /\ c = [i \in 1..(a + b) |-> c[i]]
  BY <1>5, <1>17, <1>20, ViewIs DEF IsTuple
<1>22. Joined(c, vs, vr, a, b)
  <2>1. DOMAIN c = 1..(a + b)
    BY <1>21
  <2>2. \A i \in 1..a : c[i] = vs[i]
    BY <1>18, <1>20
  <2>3. \A i \in (a + 1)..(a + b) : c[i] = vr[i - a] /\ i - a \in 1..b
    BY <1>19, <1>20
  <2> QED
    BY <1>21, <2>1, <2>2, <2>3 DEF Joined
<1>23. c = vs \o vr
  BY <1>21, <1>22, JoinedViews
<1> QED
  BY <1>1, <1>20, <1>23

-----------------------------------------------------------------------------
(* The pages asked for.                                                     *)

LEMMA ListWithin ==
    ASSUME NEW count \in Nat, NEW N, N \subseteq 1..count, NEW s, Lists(s, N)
    PROVE  /\ IsFiniteSet(N) /\ Cardinality(N) = Len(s) /\ Len(s) \in 0..count
           /\ (Len(s) = count => N = 1..count)
           /\ (N # {} <=> Len(s) # 0)
<1>1. PICK n \in Nat : n = Len(s)
  BY DEF Lists
<1>2. IsFiniteSet(N) /\ Cardinality(N) = n
  BY <1>1, ListLength
<1>3. PICK U : U = 1..count /\ IsFiniteSet(U) /\ Cardinality(U) = count
  BY UpTo
<1>4. N \in SUBSET U
  BY <1>3
<1>5. n <= count /\ (count = n => U = N)
  BY <1>2, <1>3, <1>4, FS_Subset
<1>6. n = 0 <=> N = {}
  BY <1>2, FS_EmptySet
<1>7. n \in 0..count /\ (n = count => N = 1..count)
  BY <1>3, <1>5
<1> QED
  BY <1>1, <1>2, <1>6, <1>7

LEMMA AllPagesListed ==
    ASSUME NEW count \in Nat
    PROVE  Lists(AllPages(count), 1..count)
<1>1. AllPages(count) \in Seq(Nat) /\ DOMAIN AllPages(count) = 1..count
  BY DEF AllPages
<1>2. \A p \in 1..count : AllPages(count)[p] = p
  BY DEF AllPages
<1> QED
  BY <1>1, <1>2 DEF Lists, IsInjective, ToSet

\* parse_page_range: what it accepts is pages of the document, none twice.
LEMMA AcceptedRange ==
    ASSUME NEW spec \in Seq(Nat \X Nat), NEW count \in Nat, RangeAccepted(spec, count)
    PROVE  \E N : N \subseteq 1..count /\ N # {} /\ Lists(Expanded(spec), N)
<1>1. PICK n \in Nat \ {0} : n = Len(spec) /\ DOMAIN spec = 1..n
  <2>1. Len(spec) # 0
    BY DEF RangeAccepted
  <2> QED
    BY <2>1
<1> DEFINE part(i) == [k \in 1..(spec[i][2] - spec[i][1] + 1) |-> spec[i][1] + k - 1]
           parts == [i \in DOMAIN spec |-> part(i)]
           s == Expanded(spec)
<1>2. s = FlattenSeq(parts) /\ Len(parts) = n
  BY <1>1 DEF Expanded
<1>3. ASSUME NEW i \in 1..n
      PROVE  parts[i] \in Seq(Nat) /\ ToSet(parts[i]) \subseteq 1..count /\ ToSet(parts[i]) # {}
  <2>1. PICK a \in Nat, b \in Nat : a = spec[i][1] /\ b = spec[i][2]
    BY <1>1
  <2>2. 1 <= a /\ a <= b /\ b <= count
    BY <1>1, <2>1 DEF RangeAccepted
  <2>3. parts[i] = [k \in 1..(b - a + 1) |-> a + k - 1]
    BY <1>1, <2>1
  <2>4. b - a + 1 \in Nat /\ 1 \in 1..(b - a + 1) /\ \A k \in 1..(b - a + 1) : a + k - 1 \in 1..count
    BY <2>2
  <2> HIDE DEF parts
  <2>5. DOMAIN parts[i] = 1..(b - a + 1) /\ parts[i] \in Seq(Nat)
    <3>1. PICK l \in Nat : l = b - a + 1
      BY <2>4
    <3>2. \A k \in 1..l : a + k - 1 \in Nat
      BY <2>4, <3>1
    <3> QED
      BY <2>3, <3>1, <3>2
  <2>6. \A k \in 1..(b - a + 1) : parts[i][k] = a + k - 1
    BY <2>3
  <2>7. ASSUME NEW k \in DOMAIN parts[i] PROVE parts[i][k] \in 1..count
    <3>1. k \in 1..(b - a + 1)
      BY <2>5
    <3>2. parts[i][k] = a + k - 1 /\ a + k - 1 \in 1..count
      BY <2>4, <2>6, <3>1
    <3> QED
      BY <3>2
  <2>8. parts[i][1] \in ToSet(parts[i])
    BY <2>4, <2>5 DEF ToSet
  <2>9. ToSet(parts[i]) \subseteq 1..count
    BY <2>7 DEF ToSet
  <2> QED
    BY <2>5, <2>8, <2>9
<1> HIDE DEF parts, s
<1>4. s \in Seq(Nat) /\ ToSet(s) = UNION {ToSet(parts[i]) : i \in 1..n}
  BY <1>2, <1>3, FlattenMembers
<1>5. ToSet(s) \subseteq 1..count /\ ToSet(s) # {}
  <2>1. \A x \in ToSet(s) : x \in 1..count
    BY <1>3, <1>4
  <2>2. 1 \in 1..n
    OBVIOUS
  <2>3. PICK x : x \in ToSet(parts[1])
    BY <1>3, <2>2
  <2>4. x \in ToSet(s)
    BY <1>4, <2>2, <2>3
  <2> QED
    BY <2>1, <2>4
<1>6. Cardinality(ToSet(s)) = Len(s)
  BY DEF RangeAccepted, s
<1>7. Lists(s, ToSet(s))
  BY <1>4, <1>6, NoneTwice
<1> QED
  BY <1>5, <1>7 DEF s

LEMMA SelectionListed ==
    ASSUME PageAssumption, NEW count \in Nat \ {0}, NEW selected \in SelectionsOrAll(count)
    PROVE  \E N : N \subseteq 1..count /\ N # {} /\ Lists(selected, N)
<1>1. CASE selected \in Selections(count)
  <2>1. PICK spec \in PageSpecs : RangeAccepted(spec, count) /\ selected = Expanded(spec)
    BY <1>1 DEF Selections
  <2>2. spec \in Seq(Nat \X Nat)
    BY DEF PageAssumption
  <2> QED
    BY <2>1, <2>2, AcceptedRange
<1>2. CASE selected = AllPages(count)
  <2>1. 1 \in 1..count
    OBVIOUS
  <2> QED
    BY <1>2, <2>1, AllPagesListed
<1> QED
  BY <1>1, <1>2 DEF SelectionsOrAll

\* The rest of the pages, as long as one is left.
LEMMA RestListed ==
    ASSUME NEW count \in Nat, NEW gone
    PROVE  Lists(Ascending((1..count) \ gone), (1..count) \ gone)
<1>1. PICK S : S = (1..count) \ gone
  OBVIOUS
<1>2. S \in SUBSET Nat /\ S \in SUBSET (1..count)
  BY <1>1
<1>3. IsFiniteSet(S)
  BY <1>2, UpTo, FS_Subset
<1>4. Lists(Ascending(S), S)
  BY <1>2, <1>3, AscendingLists
<1> QED
  BY <1>1, <1>4

-----------------------------------------------------------------------------
(* Imposition.                                                              *)

LEMMA ImposeMakesDocument ==
    ASSUME NEW doc, NEW order, NEW cells, NEW sheets \in Nat \ {0},
           sheets = (Len(order) + cells - 1) \div cells
    PROVE  /\ IsDocument(ImposePages(doc, order, cells))
           /\ PageCount(ImposePages(doc, order, cells)) = sheets
<1> DEFINE source(n, k) == IF (n - 1) * cells + k > Len(order) THEN PageCount(doc)
                           ELSE order[(n - 1) * cells + k]
           drawn(n) == FlattenSeq([k \in 1..cells |->
               IF source(n, k) < PageCount(doc)
               THEN <<<<"cell", k>>>> \o PageObject(doc, source(n, k) + 1).marks ELSE <<>>])
           page(n) == [type |-> "Page", parent |-> 2, kids |-> <<>>, count |-> 0, rotate |-> None,
                       box |-> PageObject(doc, 1).box, crop |-> TRUE, resources |-> {"OxPg"},
                       marks |-> drawn(n)]
           kids == [n \in 1..sheets |-> n + 2]
           root == [page(1) EXCEPT !.type = "Pages", !.parent = NoParent, !.box = None,
                       !.crop = FALSE, !.resources = None, !.marks = <<>>, !.count = sheets,
                       !.kids = kids]
           new == ImposePages(doc, order, cells)
<1>1. new = [root |-> 2,
             objects |-> [id \in 2..(sheets + 2) |-> IF id = 2 THEN root ELSE page(id - 2)]]
  BY DEF ImposePages
<1> HIDE DEF drawn, source, kids
<1>2. \A n : IsObject(page(n)) /\ page(n).type = "Page" /\ page(n).parent = 2
  BY DEF IsObject
<1>3. kids \in Seq(Nat) /\ DOMAIN kids = 1..sheets /\ \A n \in 1..sheets : kids[n] = n + 2
  BY DEF kids
<1>4. IsObject(root) /\ root.type = "Pages" /\ root.kids = kids /\ root.count = sheets
  BY <1>3 DEF IsObject, NoParent
<1> HIDE DEF page, root
<1>5. /\ DOMAIN new = {"root", "objects"} /\ new.root = 2 /\ Ids(new) = 2..(sheets + 2)
      /\ new.objects[2] = root
      /\ \A id \in 3..(sheets + 2) : new.objects[id] = page(id - 2)
  BY <1>1 DEF Ids
<1> HIDE DEF new
<1>6. IsFiniteSet(Ids(new))
  <2>1. PICK top \in Nat : top = sheets + 2
    OBVIOUS
  <2>2. IsFiniteSet(2..top)
    BY FS_Interval
  <2> QED
    BY <1>5, <2>1, <2>2
<1>7. \A id \in Ids(new) : id \in Nat \ {0} /\ (id = 2 \/ id \in 3..(sheets + 2))
  BY <1>5
<1>8. IsGraph(new)
  <2>1. \A id \in Ids(new) : IsObject(new.objects[id])
    BY <1>2, <1>4, <1>5, <1>7
  <2>2. 2 \in Ids(new)
    BY <1>5
  <2> QED
    BY <1>4, <1>5, <1>6, <1>7, <2>1, <2>2 DEF IsGraph, IsPage
<1> DEFINE S == 3..(sheets + 2)
<1>9. Lists(kids, S)
  <2>1. ASSUME NEW x \in S PROVE \E n \in 1..sheets : kids[n] = x
    <3>1. x - 2 \in 1..sheets /\ (x - 2) + 2 = x
      OBVIOUS
    <3> QED
      BY <1>3, <3>1
  <2>2. \A n \in 1..sheets : kids[n] \in S
    BY <1>3
  <2> HIDE DEF S
  <2>3. ToSet(kids) = S
    BY <1>3, <2>1, <2>2 DEF ToSet
  <2>4. \A i, j \in 1..sheets : kids[i] = kids[j] => i = j
    BY <1>3
  <2> QED
    BY <1>3, <2>3, <2>4 DEF Lists, IsInjective
<1>10. S # {} /\ S \subseteq Ids(new)
  <2>1. 3 \in S
    OBVIOUS
  <2>2. \A id \in S : id \in 2..(sheets + 2)
    OBVIOUS
  <2> HIDE DEF S
  <2> QED
    BY <1>5, <2>1, <2>2
<1>11. \A id \in S : IsPage(new, id) /\ new.objects[id].parent = 2
  BY <1>2, <1>5 DEF IsPage
<1> HIDE DEF S
<1>12. Cardinality(S) = sheets
  <2>1. Len(kids) = sheets
    BY <1>3
  <2> QED
    BY <1>9, <2>1, ListLength
<1>13. IsDocument(new) /\ PageCount(new) = Cardinality(S)
  <2>1. Lists(new.objects[new.root].kids, S) /\ new.objects[new.root].count = Cardinality(S)
    BY <1>4, <1>5, <1>9, <1>12
  <2>2. \A id \in S : id \in Ids(new) /\ IsPage(new, id) /\ new.objects[id].parent = new.root
    BY <1>5, <1>10, <1>11
  <2> QED
    BY <1>8, <1>10, <2>1, <2>2, FlatDocument
<1> QED
  BY <1>12, <1>13 DEF new

\* Four at a time: where a sheet of a booklet is in its page order.
LaidOut(s, parts, n) == \A k \in 1..n, i \in 1..4 : s[4 * (k - 1) + i] = parts[k][i]

IsRun(s, m) == s \in Seq(Int) /\ Len(s) = 4 * m

LEMMA FourMore ==
    ASSUME NEW k \in Nat, NEW s, IsRun(s, k), NEW parts, LaidOut(s, parts, k),
           NEW r, IsRun(r, 1), r = parts[k + 1], NEW c, c = s \o r
    PROVE  LaidOut(c, parts, k + 1) /\ IsRun(c, k + 1)
<1>0. s \in Seq(Int) /\ Len(s) = 4 * k /\ r \in Seq(Int) /\ Len(r) = 4
  BY DEF IsRun
<1>1. PICK l : l = 4 * k
  OBVIOUS
<1>2. l \in Nat
  BY <1>1
<1>3. Joined(c, s, r, l, 4)
  BY <1>0, <1>1, ConcatOver
<1>4. IsRun(c, k + 1)
  <2>1. c \in Seq(Int)
    BY <1>0
  <2>2. Len(c) = Len(s) + Len(r)
    BY <1>0, ConcatProperties, ZenonT(30)
  <2> QED
    BY <1>0, <2>1, <2>2 DEF IsRun
<1>5. ASSUME NEW j \in 1..(k + 1), NEW i \in 1..4 PROVE c[4 * (j - 1) + i] = parts[j][i]
  <2>1. CASE j = k + 1
    <3>1. PICK p : p = 4 * (j - 1) + i
      OBVIOUS
    <3>2. p \in (l + 1)..(l + 4) /\ p - l = i
      BY <1>1, <2>1, <3>1
    <3>3. c[p] = r[p - l]
      BY <1>3, <3>2 DEF Joined
    <3> QED
      BY <2>1, <3>1, <3>2, <3>3
  <2>2. CASE j \in 1..k
    <3>1. PICK p : p = 4 * (j - 1) + i
      OBVIOUS
    <3>2. p \in 1..l
      BY <1>1, <2>2, <3>1
    <3>3. c[p] = s[p]
      BY <1>3, <3>2 DEF Joined
    <3> QED
      BY <2>2, <3>1, <3>3 DEF LaidOut
  <2>3. j = k + 1 \/ j \in 1..k
    OBVIOUS
  <2> QED
    BY <2>1, <2>2, <2>3
<1>6. LaidOut(c, parts, k + 1)
  BY <1>5 DEF LaidOut
<1> QED
  BY <1>4, <1>6

LEMMA FlattenFoursAt ==
    ASSUME NEW n \in Nat \ {0}, NEW parts, Len(parts) = n, \A k \in 1..n : IsRun(parts[k], 1)
    PROVE  LaidOut(FlattenSeq(parts), parts, n) /\ IsRun(FlattenSeq(parts), n)
<1>1. PICK f : /\ f[1] = parts[1] /\ f[n] = FlattenSeq(parts)
               /\ \A k \in 1..(n - 1) : f[k + 1] = f[k] \o parts[k + 1]
  BY FlattenGrows
<1> DEFINE P == {k \in 1..n : IsRun(f[k], k) /\ LaidOut(f[k], parts, k)}
<1>2. 1 \in P
  <2>1. LaidOut(parts[1], parts, 1)
    BY DEF LaidOut
  <2> QED
    BY <1>1, <2>1
<1>3. ASSUME NEW k \in 1..(n - 1), k \in P PROVE k + 1 \in P
  <2>1. k \in Nat /\ k + 1 \in 1..n
    OBVIOUS
  <2>2. PICK s, r, c : s = f[k] /\ r = parts[k + 1] /\ c = s \o r
    OBVIOUS
  <2>3. f[k + 1] = c
    BY <1>1, <2>2
  <2>4. IsRun(s, k) /\ LaidOut(s, parts, k) /\ IsRun(r, 1)
    BY <1>3, <2>1, <2>2
  <2>5. LaidOut(c, parts, k + 1) /\ IsRun(c, k + 1)
    BY <2>1, <2>2, <2>4, FourMore
  <2> QED
    BY <2>1, <2>3, <2>5
<1>4. n \in P
  <2>1. n \in Nat /\ n \in 1..n
    OBVIOUS
  <2> HIDE DEF P
  <2> QED
    BY <1>2, <1>3, <2>1, CountingUp
<1> QED
  BY <1>1, <1>4

\* The places of a booklet: sheet j has those from 4j - 3 to 4j.
BookletOrder(order, sheets) ==
    /\ Len(order) = 4 * sheets
    /\ \A j \in 1..sheets, i \in 1..4 :
           order[4 * (j - 1) + i] = BookletSheet(4 * sheets, j - 1)[i]

LEMMA BookletOrderIs ==
    ASSUME NEW count \in Nat \ {0}, NEW sheets \in Nat \ {0}, sheets = (count + 3) \div 4
    PROVE  BookletOrder(BookletPageOrder(count), sheets)
<1>1. PICK parts : parts = [k \in 1..sheets |-> BookletSheet(4 * sheets, k - 1)]
  OBVIOUS
<1>2. BookletPageOrder(count) = FlattenSeq(parts) /\ Len(parts) = sheets
  BY <1>1 DEF BookletPageOrder
<1>3. ASSUME NEW k \in 1..sheets PROVE IsRun(parts[k], 1)
  <2>1. PICK padded \in Int, sheet \in Int : padded = 4 * sheets /\ sheet = k - 1
    OBVIOUS
  <2>2. BookletSheet(padded, sheet) \in Seq(Int) /\ Len(BookletSheet(padded, sheet)) = 4
    BY DEF BookletSheet
  <2> QED
    BY <1>1, <2>1, <2>2 DEF IsRun
<1>4. PICK order : order = FlattenSeq(parts)
  OBVIOUS
<1>5. LaidOut(order, parts, sheets) /\ IsRun(order, sheets)
  BY <1>2, <1>3, <1>4, FlattenFoursAt
<1>6. ASSUME NEW j \in 1..sheets, NEW i \in 1..4
      PROVE  order[4 * (j - 1) + i] = BookletSheet(4 * sheets, j - 1)[i]
  BY <1>1, <1>5 DEF LaidOut
<1>7. Len(order) = 4 * sheets
  BY <1>5 DEF IsRun
<1> QED
  BY <1>2, <1>4, <1>6, <1>7 DEF BookletOrder

\* The order of a booklet names every place on its sheets.
LEMMA BookletPlaces ==
    ASSUME NEW count \in Nat \ {0}
    PROVE  /\ (count + 3) \div 4 \in Nat \ {0}
           /\ Len(BookletPageOrder(count)) = 4 * ((count + 3) \div 4)
<1>1. PICK n \in Nat \ {0} : n = (count + 3) \div 4
  OBVIOUS
<1> QED
  BY <1>1, BookletOrderIs DEF BookletOrder

-----------------------------------------------------------------------------
(* What every operator starts from, and what it may leave.                  *)

LEMMA LoadedDocument ==
    ASSUME NEW s, IsDocument(pdf[s])
    PROVE  IsDocument(Loaded(s))
<1>1. PICK pruned : pruned = Prune(pdf[s])
  OBVIOUS
<1>2. IsDocument(pruned)
  BY <1>1, PruneKeeps
<1>3. IsDocument(Renumber(pruned, 1))
  BY <1>2, RenumberKeeps
<1> QED
  BY <1>1, <1>3 DEF Loaded

\* Drawing on pages, or setting their keys, leaves the tree.
LEMMA RedrawnDocument ==
    ASSUME NEW doc, IsDocument(doc), NEW new, DOMAIN new = {"root", "objects"},
           new.root = doc.root, Ids(new) = Ids(doc),
           \A id \in Ids(doc) : IsObject(new.objects[id]) /\ SamePlace(new.objects[id], doc.objects[id])
    PROVE  IsDocument(new) /\ PageCount(new) = PageCount(doc) /\ PageIds(new) = PageIds(doc)
<1>1. IsGraph(doc)
  BY DEF IsDocument
<1>2. IsGraph(new)
  BY <1>1 DEF IsGraph, IsPage, SamePlace
<1>3. \A id \in InTree(doc) : id \in Ids(doc)
  BY TreeFacts DEF InTree
<1> QED
  BY <1>2, <1>3, SameTree, SamePages

\* The same for a change of the pages that are chosen.
LEMMA RedrawnPages ==
    ASSUME NEW doc, IsDocument(doc), NEW new, DOMAIN new = {"root", "objects"},
           new.root = doc.root, Ids(new) = Ids(doc),
           \A id \in Ids(doc) : \/ new.objects[id] = doc.objects[id]
                                \/ /\ IsObject(new.objects[id])
                                   /\ SamePlace(new.objects[id], doc.objects[id])
    PROVE  IsDocument(new) /\ PageCount(new) = PageCount(doc) /\ PageIds(new) = PageIds(doc)
<1>1. \A id \in Ids(doc) : IsObject(doc.objects[id])
  BY DEF IsDocument, IsGraph
<1>2. \A id \in Ids(doc) : IsObject(new.objects[id]) /\ SamePlace(new.objects[id], doc.objects[id])
  BY <1>1 DEF SamePlace
<1> QED
  BY <1>2, RedrawnDocument

\* What the four of them set on a page.
LEMMA CroppedObject ==
    ASSUME NEW object, IsObject(object), NEW new, new = [object EXCEPT !.crop = TRUE]
    PROVE  IsObject(new) /\ SamePlace(new, object)
BY DEF IsObject, SamePlace

LEMMA ScaledObject ==
    ASSUME NEW object, IsObject(object), NEW new,
           new = [object EXCEPT !.box = IF @ = None THEN None ELSE 2 * @,
                                !.marks = <<<<"scaled", 2>>>> \o @]
    PROVE  IsObject(new) /\ SamePlace(new, object)
<1>1. PICK box, marks : new = [object EXCEPT !.box = box, !.marks = marks]
  OBVIOUS
<1> QED
  BY <1>1 DEF IsObject, SamePlace

LEMMA NumberedObject ==
    ASSUME NEW object, IsObject(object), NEW number, NEW new,
           new = [object EXCEPT !.resources = (IF @ = None THEN {} ELSE @) \cup {"OxPnF1"},
                                !.marks = Append(@, <<"number", number>>)]
    PROVE  IsObject(new) /\ SamePlace(new, object)
<1>1. PICK resources, marks : new = [object EXCEPT !.resources = resources, !.marks = marks]
  OBVIOUS
<1> QED
  BY <1>1 DEF IsObject, SamePlace

LEMMA RotatedObject ==
    ASSUME NEW object, IsObject(object), NEW degrees \in Int, degrees % 360 \in {90, 180, 270},
           NEW new,
           new = [object EXCEPT !.rotate = ((IF @ = None THEN 0 ELSE @) + degrees) % 360]
    PROVE  IsObject(new) /\ SamePlace(new, object)
<1>1. PICK turn \in {0, 90, 180, 270} : turn = IF object.rotate = None THEN 0 ELSE object.rotate
  BY DEF IsObject
<1>2. PICK turned : turned = (turn + degrees) % 360
  OBVIOUS
<1>3. turned \in {0, 90, 180, 270}
  <2>1. PICK turns \in Int, rest \in {90, 180, 270} : degrees = 360 * turns + rest
    <3>1. degrees = 360 * (degrees \div 360) + (degrees % 360) /\ degrees \div 360 \in Int
      OBVIOUS
    <3> QED
      BY <3>1
  <2>2. turn + degrees = 360 * turns + (turn + rest)
    BY <2>1
  <2>3. \/ turn + rest \in {90, 180, 270} /\ turned = turn + rest
        \/ turn + rest \in {360, 450, 540} /\ turned = turn + rest - 360
    BY <1>2, <2>1, <2>2
  <2> QED
    BY <2>3
<1>4. new = [object EXCEPT !.rotate = turned]
  BY <1>1, <1>2
<1> QED
  BY <1>3, <1>4 DEF IsObject, SamePlace

-----------------------------------------------------------------------------
(* The operators.                                                           *)

\* What an operator on slot s does: it leaves a document within max_pages.
MakesDocument(s) ==
    /\ edits < MaxEdits
    /\ \E op, pages, after :
           /\ \E kind \in {"bytes", "object"} : Edit(s, op, pages, after, kind)
           /\ IsDocument(after) /\ PageCount(after) \in 1..MaxPages

\* A page count within the limit.
LEMMA CountWithin ==
    ASSUME PageAssumption, NEW doc, IsDocument(doc), PageCount(doc) <= MaxPages
    PROVE  PageCount(doc) \in 1..MaxPages
<1>1. PICK n \in Nat \ {0} : n = PageCount(doc)
  BY PagesListed
<1> QED
  BY <1>1 DEF PageAssumption

\* Keeping some of the pages within the limit stays within it.
LEMMA KeptWithin ==
    ASSUME PageAssumption, NEW doc, IsDocument(doc), PageCount(doc) <= MaxPages,
           NEW selected, NEW N, N \subseteq 1..PageCount(doc), N # {}, Lists(selected, N)
    PROVE  /\ IsDocument(KeepPages(doc, selected))
           /\ PageCount(KeepPages(doc, selected)) \in 1..MaxPages
<1>1. PICK n \in Nat \ {0} : n = PageCount(doc)
  BY PagesListed
<1>2. Len(selected) \in 0..n /\ Len(selected) # 0
  <2>1. n \in Nat /\ N \subseteq 1..n
    BY <1>1
  <2> QED
    BY <2>1, ListWithin
<1>3. PICK length \in Nat : length = Len(selected) /\ length \in 1..n
  BY <1>2
<1>4. n <= MaxPages /\ MaxPages \in Nat
  BY <1>1 DEF PageAssumption
<1>5. length \in 1..MaxPages
  BY <1>3, <1>4
<1>6. IsDocument(KeepPages(doc, selected)) /\ PageCount(KeepPages(doc, selected)) = Len(selected)
  BY KeepMakesDocument
<1> QED
  BY <1>3, <1>5, <1>6

LEMMA KeepMakes ==
    ASSUME PageAssumption, NEW s, IsDocument(pdf[s]), Keep(s)
    PROVE  MakesDocument(s)
<1>1. PICK doc : doc = Loaded(s)
  OBVIOUS
<1>2. IsDocument(doc)
  BY <1>1, LoadedDocument
<1>3. PICK selected \in Selections(PageCount(doc)) :
          /\ edits < MaxEdits /\ PageCount(doc) <= MaxPages
          /\ Edit(s, "keep", selected, KeepPages(doc, selected), "object")
  BY <1>1 DEF Keep, WithinLimit
<1>4. PICK N : N \subseteq 1..PageCount(doc) /\ N # {} /\ Lists(selected, N)
  BY <1>2, PagesListed, SelectionListed DEF SelectionsOrAll
<1> QED
  BY <1>2, <1>3, <1>4, KeptWithin DEF MakesDocument

LEMMA DeleteMakes ==
    ASSUME PageAssumption, NEW s, IsDocument(pdf[s]), Delete(s)
    PROVE  MakesDocument(s)
<1>1. PICK doc : doc = Loaded(s)
  OBVIOUS
<1>2. IsDocument(doc)
  BY <1>1, LoadedDocument
<1>3. PICK deleted, kept :
          /\ deleted \in Selections(PageCount(doc))
          /\ edits < MaxEdits /\ PageCount(doc) <= MaxPages
          /\ kept = Ascending(1..PageCount(doc) \ ToSet(deleted))
          /\ Len(deleted) # PageCount(doc)
          /\ Edit(s, "delete", kept, KeepPages(doc, kept), "object")
  BY <1>1 DEF Delete, WithinLimit
<1>4. PICK count \in Nat \ {0} : count = PageCount(doc)
  BY <1>2, PagesListed
<1>5. PICK N : N \subseteq 1..count /\ N # {} /\ Lists(deleted, N)
  BY <1>3, <1>4, SelectionListed DEF SelectionsOrAll
<1>6. N # 1..count
  <2>1. SUFFICES ASSUME N = 1..count PROVE FALSE
    OBVIOUS
  <2>2. Cardinality(1..count) = count
    BY UpTo
  <2> QED
    BY <1>3, <1>4, <1>5, <2>1, <2>2, ListLength
<1>7. ToSet(deleted) = N
  BY <1>5 DEF Lists
<1>8. PICK S : S = (1..count) \ N
  OBVIOUS
<1>9. Lists(kept, S) /\ S # {} /\ S \subseteq 1..count
  <2>1. Lists(Ascending((1..count) \ N), (1..count) \ N)
    BY <1>4, RestListed
  <2>2. \E n \in 1..count : n \notin N
    BY <1>5, <1>6
  <2> QED
    BY <1>3, <1>4, <1>7, <1>8, <2>1, <2>2
<1> QED
  BY <1>2, <1>3, <1>4, <1>9, KeptWithin DEF MakesDocument

LEMMA DeleteBlankMakes ==
    ASSUME PageAssumption, NEW s, IsDocument(pdf[s]), DeleteBlank(s)
    PROVE  MakesDocument(s)
<1>1. PICK doc : doc = Loaded(s)
  OBVIOUS
<1>2. IsDocument(doc)
  BY <1>1, LoadedDocument
<1>3. PICK kept :
          /\ edits < MaxEdits /\ PageCount(doc) <= MaxPages
          /\ kept = Ascending(1..PageCount(doc) \ BlankPages(doc)) /\ kept # <<>>
          /\ Edit(s, "delete blank", kept, KeepPages(doc, kept), "object")
  BY <1>1 DEF DeleteBlank, WithinLimit
<1>4. PICK count \in Nat \ {0} : count = PageCount(doc)
  BY <1>2, PagesListed
<1>5. PICK S : S = (1..count) \ BlankPages(doc)
  OBVIOUS
<1>6. Lists(kept, S) /\ S \subseteq 1..count
  <2>1. Lists(Ascending((1..count) \ BlankPages(doc)), (1..count) \ BlankPages(doc))
    BY <1>4, RestListed
  <2> QED
    BY <1>3, <1>4, <1>5, <2>1
<1>7. S # {}
  <2>1. kept \in Seq(Nat)
    BY <1>6 DEF Lists
  <2>2. Len(kept) # 0
    BY <1>3, <2>1, EmptySeq
  <2> QED
    BY <1>6, <2>2, ListWithin
<1> QED
  BY <1>2, <1>3, <1>4, <1>6, <1>7, KeptWithin DEF MakesDocument

LEMMA RotateKeeps ==
    ASSUME NEW doc, IsDocument(doc), NEW selected,
           NEW degrees \in Int, degrees % 360 \in {90, 180, 270}
    PROVE  /\ IsDocument(RotatePages(doc, selected, degrees))
           /\ PageCount(RotatePages(doc, selected, degrees)) = PageCount(doc)
           /\ PageIds(RotatePages(doc, selected, degrees)) = PageIds(doc)
<1>1. PICK after : after = RotatePages(doc, selected, degrees)
  OBVIOUS
<1>2. IsGraph(doc) /\ \A id \in Ids(doc) : IsObject(doc.objects[id])
  BY DEF IsDocument, IsGraph
<1>3. /\ DOMAIN after = {"root", "objects"} /\ after.root = doc.root /\ Ids(after) = Ids(doc)
      /\ \A id \in Ids(doc) : \/ after.objects[id] = doc.objects[id]
                              \/ after.objects[id] =
                                     [doc.objects[id] EXCEPT
                                         !.rotate = ((IF @ = None THEN 0 ELSE @) + degrees) % 360]
  BY <1>1, <1>2 DEF RotatePages, OnPages, IsGraph, Ids
<1>4. \A id \in Ids(doc) : \/ after.objects[id] = doc.objects[id]
                           \/ IsObject(after.objects[id]) /\ SamePlace(after.objects[id], doc.objects[id])
  <2> TAKE id \in Ids(doc)
  <2>1. PICK object, new : object = doc.objects[id] /\ new = after.objects[id]
    OBVIOUS
  <2>2. \/ new = object
        \/ new = [object EXCEPT !.rotate = ((IF @ = None THEN 0 ELSE @) + degrees) % 360]
    BY <1>3, <2>1
  <2>3. IsObject(object)
    BY <1>2, <2>1
  <2> QED
    BY <2>1, <2>2, <2>3, RotatedObject
<1> QED
  BY <1>1, <1>3, <1>4, RedrawnPages

LEMMA RotateMakes ==
    ASSUME PageAssumption, NEW s, IsDocument(pdf[s]), Rotate(s)
    PROVE  MakesDocument(s)
<1>1. PICK doc : doc = Loaded(s)
  OBVIOUS
<1>2. IsDocument(doc)
  BY <1>1, LoadedDocument
<1>3. PICK selected, degrees :
          /\ edits < MaxEdits /\ PageCount(doc) <= MaxPages
          /\ degrees \in Int /\ degrees % 360 \in {90, 180, 270}
          /\ Edit(s, "rotate", selected, RotatePages(doc, selected, degrees), "object")
  BY <1>1 DEF Rotate, WithinLimit, PageAssumption
<1>4. IsDocument(RotatePages(doc, selected, degrees)) /\ PageCount(RotatePages(doc, selected, degrees)) = PageCount(doc)
  BY <1>2, <1>3, RotateKeeps
<1> QED
  BY <1>2, <1>3, <1>4, CountWithin DEF MakesDocument

LEMMA CropKeeps ==
    ASSUME NEW doc, IsDocument(doc), NEW selected
    PROVE  /\ IsDocument(CropPages(doc, selected))
           /\ PageCount(CropPages(doc, selected)) = PageCount(doc)
           /\ PageIds(CropPages(doc, selected)) = PageIds(doc)
<1>1. PICK after : after = CropPages(doc, selected)
  OBVIOUS
<1>2. IsGraph(doc) /\ \A id \in Ids(doc) : IsObject(doc.objects[id])
  BY DEF IsDocument, IsGraph
<1>3. /\ DOMAIN after = {"root", "objects"} /\ after.root = doc.root /\ Ids(after) = Ids(doc)
      /\ \A id \in Ids(doc) : \/ after.objects[id] = doc.objects[id]
                              \/ after.objects[id] = [doc.objects[id] EXCEPT !.crop = TRUE]
  BY <1>1, <1>2 DEF CropPages, OnPages, IsGraph, Ids
<1>4. \A id \in Ids(doc) : \/ after.objects[id] = doc.objects[id]
                           \/ IsObject(after.objects[id]) /\ SamePlace(after.objects[id], doc.objects[id])
  BY <1>2, <1>3, CroppedObject
<1> QED
  BY <1>1, <1>3, <1>4, RedrawnPages

LEMMA CropMakes ==
    ASSUME PageAssumption, NEW s, IsDocument(pdf[s]), Crop(s)
    PROVE  MakesDocument(s)
<1>1. PICK doc : doc = Loaded(s)
  OBVIOUS
<1>2. IsDocument(doc)
  BY <1>1, LoadedDocument
<1>3. PICK selected :
          /\ edits < MaxEdits /\ PageCount(doc) <= MaxPages
          /\ Edit(s, "crop", selected, CropPages(doc, selected), "object")
  BY <1>1 DEF Crop, WithinLimit
<1>4. IsDocument(CropPages(doc, selected)) /\ PageCount(CropPages(doc, selected)) = PageCount(doc)
  BY <1>2, CropKeeps
<1> QED
  BY <1>2, <1>3, <1>4, CountWithin DEF MakesDocument

LEMMA ScaleKeeps ==
    ASSUME NEW doc, IsDocument(doc), NEW selected
    PROVE  /\ IsDocument(ScalePages(doc, selected))
           /\ PageCount(ScalePages(doc, selected)) = PageCount(doc)
           /\ PageIds(ScalePages(doc, selected)) = PageIds(doc)
<1>1. PICK after : after = ScalePages(doc, selected)
  OBVIOUS
<1>2. IsGraph(doc) /\ \A id \in Ids(doc) : IsObject(doc.objects[id])
  BY DEF IsDocument, IsGraph
<1>3. /\ DOMAIN after = {"root", "objects"} /\ after.root = doc.root /\ Ids(after) = Ids(doc)
      /\ \A id \in Ids(doc) : \/ after.objects[id] = doc.objects[id]
                              \/ after.objects[id] =
                                     [doc.objects[id] EXCEPT
                                         !.box = IF @ = None THEN None ELSE 2 * @,
                                         !.marks = <<<<"scaled", 2>>>> \o @]
  BY <1>1, <1>2 DEF ScalePages, OnPages, IsGraph, Ids
<1>4. \A id \in Ids(doc) : \/ after.objects[id] = doc.objects[id]
                           \/ IsObject(after.objects[id]) /\ SamePlace(after.objects[id], doc.objects[id])
  BY <1>2, <1>3, ScaledObject
<1> QED
  BY <1>1, <1>3, <1>4, RedrawnPages

LEMMA ScaleMakes ==
    ASSUME PageAssumption, NEW s, IsDocument(pdf[s]), Scale(s)
    PROVE  MakesDocument(s)
<1>1. PICK doc : doc = Loaded(s)
  OBVIOUS
<1>2. IsDocument(doc)
  BY <1>1, LoadedDocument
<1>3. PICK selected :
          /\ edits < MaxEdits /\ PageCount(doc) <= MaxPages
          /\ Edit(s, "scale", selected, ScalePages(doc, selected), "object")
  BY <1>1 DEF Scale, WithinLimit
<1>4. IsDocument(ScalePages(doc, selected)) /\ PageCount(ScalePages(doc, selected)) = PageCount(doc)
  BY <1>2, ScaleKeeps
<1> QED
  BY <1>2, <1>3, <1>4, CountWithin DEF MakesDocument

LEMMA NumbersKeep ==
    ASSUME NEW doc, IsDocument(doc), NEW selected, NEW start
    PROVE  /\ IsDocument(NumberPages(doc, selected, start))
           /\ PageCount(NumberPages(doc, selected, start)) = PageCount(doc)
           /\ PageIds(NumberPages(doc, selected, start)) = PageIds(doc)
<1>1. PICK after : after = NumberPages(doc, selected, start)
  OBVIOUS
<1>2. IsGraph(doc) /\ \A id \in Ids(doc) : IsObject(doc.objects[id])
  BY DEF IsDocument, IsGraph
<1>3. /\ DOMAIN after = {"root", "objects"} /\ after.root = doc.root /\ Ids(after) = Ids(doc)
      /\ \A id \in Ids(doc) : \/ after.objects[id] = doc.objects[id]
                              \/ \E number : after.objects[id] =
                                     [doc.objects[id] EXCEPT
                                         !.resources = (IF @ = None THEN {} ELSE @) \cup {"OxPnF1"},
                                         !.marks = Append(@, <<"number", number>>)]
  BY <1>1, <1>2 DEF NumberPages, OnPages, IsGraph, Ids
<1>4. \A id \in Ids(doc) : \/ after.objects[id] = doc.objects[id]
                           \/ IsObject(after.objects[id]) /\ SamePlace(after.objects[id], doc.objects[id])
  BY <1>2, <1>3, NumberedObject
<1> QED
  BY <1>1, <1>3, <1>4, RedrawnPages

LEMMA PageNumbersMakes ==
    ASSUME PageAssumption, NEW s, IsDocument(pdf[s]), PageNumbers(s)
    PROVE  MakesDocument(s)
<1>1. PICK doc : doc = Loaded(s)
  OBVIOUS
<1>2. IsDocument(doc)
  BY <1>1, LoadedDocument
<1>3. PICK selected, start :
          /\ edits < MaxEdits /\ PageCount(doc) <= MaxPages
          /\ Edit(s, "number", selected, NumberPages(doc, selected, start), "object")
  BY <1>1 DEF PageNumbers, WithinLimit
<1>4. IsDocument(NumberPages(doc, selected, start)) /\ PageCount(NumberPages(doc, selected, start)) = PageCount(doc)
  BY <1>2, NumbersKeep
<1> QED
  BY <1>2, <1>3, <1>4, CountWithin DEF MakesDocument

\* Fusing all pages into the first leaves the tree, which then lists only that one.
LEMMA FuseKeeps ==
    ASSUME NEW doc, IsDocument(doc)
    PROVE  /\ IsDocument(FusePages(doc)) /\ Ids(FusePages(doc)) = Ids(doc)
           /\ \A id \in Ids(doc) : IsPage(doc, id) => IsPage(FusePages(doc), id)
<1>1. PICK after : after = FusePages(doc)
  OBVIOUS
<1>2. IsGraph(doc) /\ \A id \in Ids(doc) : IsObject(doc.objects[id])
  BY DEF IsDocument, IsGraph
<1>3. /\ DOMAIN after = {"root", "objects"} /\ after.root = doc.root /\ Ids(after) = Ids(doc)
      /\ \A id \in Ids(doc) :
             \/ after.objects[id] = doc.objects[id]
             \/ \E marks, resources, box : after.objects[id] =
                    [doc.objects[id] EXCEPT
                        !.marks = marks, !.crop = TRUE, !.resources = resources, !.box = box]
  BY <1>1, <1>2 DEF FusePages, OnPages, IsGraph, Ids
<1>4. ASSUME NEW id \in Ids(doc), NEW new, NEW marks, NEW resources, NEW box,
             new = [doc.objects[id] EXCEPT
                        !.marks = marks, !.crop = TRUE, !.resources = resources, !.box = box]
      PROVE  IsObject(new) /\ SamePlace(new, doc.objects[id])
  <2>1. PICK object : object = doc.objects[id]
    OBVIOUS
  <2>2. IsObject(object)
    BY <1>2, <2>1
  <2> QED
    BY <1>4, <2>1, <2>2 DEF IsObject, SamePlace
<1>5. \A id \in Ids(doc) : \/ after.objects[id] = doc.objects[id]
                           \/ IsObject(after.objects[id]) /\ SamePlace(after.objects[id], doc.objects[id])
  BY <1>3, <1>4
<1>6. IsDocument(after)
  BY <1>3, <1>5, RedrawnPages
<1>7. \A id \in Ids(doc) : IsPage(doc, id) => IsPage(after, id)
  BY <1>5 DEF SamePlace, IsPage
<1> QED
  BY <1>1, <1>3, <1>6, <1>7

LEMMA SinglePageMakes ==
    ASSUME PageAssumption, NEW s, IsDocument(pdf[s]), SinglePage(s)
    PROVE  MakesDocument(s)
<1>1. PICK doc : doc = Loaded(s)
  OBVIOUS
<1>2. IsDocument(doc)
  BY <1>1, LoadedDocument
<1>3. PICK fused, first : fused = FusePages(doc) /\ first = PageIds(doc)[1]
  OBVIOUS
<1>4. /\ edits < MaxEdits /\ PageCount(doc) <= MaxPages
      /\ Edit(s, "single page", <<1>>, RebuildPagesTree(fused, <<first>>), "object")
  BY <1>1, <1>3 DEF SinglePage, WithinLimit
<1>5. first \in AllLeaves(doc)
  <2>1. Lists(PageIds(doc), AllLeaves(doc)) /\ Len(PageIds(doc)) \in Nat \ {0}
    BY <1>2, PagesListed DEF PageCount
  <2>2. 1 \in DOMAIN PageIds(doc)
    BY <2>1 DEF Lists
  <2> QED
    BY <1>3, <2>1, <2>2 DEF Lists, ToSet
<1>6. first \in Ids(doc) /\ IsPage(doc, first)
  BY <1>2, <1>5, TreeFacts
<1>7. IsGraph(fused) /\ first \in Ids(fused) /\ IsPage(fused, first)
  BY <1>2, <1>3, <1>6, FuseKeeps DEF IsDocument
<1>8. PICK pages, S : pages = <<first>> /\ S = {first}
  OBVIOUS
<1>9. Lists(pages, S) /\ Len(pages) = 1
  <2>1. first \in Nat
    BY <1>7 DEF IsGraph
  <2> QED
    BY <1>8, <2>1 DEF Lists, IsInjective, ToSet
<1>10. S # {} /\ \A id \in S : id \in Ids(fused) /\ IsPage(fused, id)
  BY <1>7, <1>8
<1>11. IsDocument(RebuildPagesTree(fused, pages)) /\ PageCount(RebuildPagesTree(fused, pages)) = 1
  BY <1>7, <1>9, <1>10, RebuildMakesDocument
<1>12. 1 \in 1..MaxPages
  BY DEF PageAssumption
<1> QED
  BY <1>4, <1>8, <1>11, <1>12 DEF MakesDocument

LEMMA NUpMakes ==
    ASSUME PageAssumption, NEW s, IsDocument(pdf[s]), NUp(s)
    PROVE  MakesDocument(s)
<1>1. PICK doc : doc = Loaded(s)
  OBVIOUS
<1>2. IsDocument(doc)
  BY <1>1, LoadedDocument
<1>3. PICK count \in Nat \ {0} : count = PageCount(doc)
  BY <1>2, PagesListed
<1>4. PICK order : order = [k \in 1..count |-> k - 1]
  OBVIOUS
<1>5. Len(order) = count
  BY <1>4
<1>6. PICK cells \in 1..2 :
          /\ edits < MaxEdits
          /\ (count + cells - 1) \div cells <= MaxPages
          /\ Edit(s, "nup", order, ImposePages(doc, order, cells), "bytes")
  BY <1>1, <1>3, <1>4 DEF NUp, Imposable, WithinLimit
<1>7. PICK sheets \in Nat \ {0} : sheets = (count + cells - 1) \div cells
  <2>1. CASE cells = 1
    BY <2>1
  <2>2. CASE cells = 2
    BY <2>2
  <2> QED
    BY <2>1, <2>2
<1>8. IsDocument(ImposePages(doc, order, cells)) /\ PageCount(ImposePages(doc, order, cells)) = sheets
  BY <1>5, <1>7, ImposeMakesDocument
<1>9. sheets \in 1..MaxPages
  BY <1>6, <1>7 DEF PageAssumption
<1> QED
  BY <1>6, <1>8, <1>9 DEF MakesDocument

LEMMA BookletMakes ==
    ASSUME PageAssumption, NEW s, IsDocument(pdf[s]), Booklet(s)
    PROVE  MakesDocument(s)
<1>1. PICK doc : doc = Loaded(s)
  OBVIOUS
<1>2. IsDocument(doc)
  BY <1>1, LoadedDocument
<1>3. PICK count \in Nat \ {0} : count = PageCount(doc)
  BY <1>2, PagesListed
<1>4. PICK order, n : order = BookletPageOrder(count) /\ n = (count + 3) \div 4
  OBVIOUS
<1>5. n \in Nat \ {0} /\ Len(order) = 4 * n
  BY <1>4, BookletPlaces
<1>6. /\ edits < MaxEdits /\ 2 * n <= MaxPages
      /\ Edit(s, "booklet", order, ImposePages(doc, order, 2), "bytes")
  BY <1>1, <1>3, <1>4 DEF Booklet, Imposable, WithinLimit
<1>7. PICK sheets \in Nat \ {0} : sheets = 2 * n
  BY <1>5
<1>8. sheets = (Len(order) + 2 - 1) \div 2
  BY <1>5, <1>7
<1>9. IsDocument(ImposePages(doc, order, 2)) /\ PageCount(ImposePages(doc, order, 2)) = sheets
  BY <1>8, ImposeMakesDocument
<1>10. sheets \in 1..MaxPages
  BY <1>6, <1>7 DEF PageAssumption
<1> QED
  BY <1>6, <1>9, <1>10 DEF MakesDocument

LEMMA MergeMakes ==
    ASSUME PageAssumption, NEW s, NEW left, IsDocument(left), NEW right, IsDocument(right),
           Merge(s, left, right)
    PROVE  MakesDocument(s)
<1>1. PICK l \in Nat \ {0}, r \in Nat \ {0} : l = PageCount(left) /\ r = PageCount(right)
  BY PagesListed
<1>2. /\ edits < MaxEdits /\ l + r <= MaxPages
      /\ Edit(s, "merge", <<>>, MergeDocuments(left, right), "object")
  BY <1>1 DEF Merge
<1>3. IsDocument(MergeDocuments(left, right)) /\ PageCount(MergeDocuments(left, right)) = l + r
  BY <1>1, MergeMakesDocument
<1>4. l + r \in 1..MaxPages
  BY <1>2 DEF PageAssumption
<1> QED
  BY <1>2, <1>3, <1>4 DEF MakesDocument

-----------------------------------------------------------------------------
(* The invariant.                                                           *)

DocumentInv ==
    /\ DOMAIN pdf = Slots
    /\ form \in [Slots -> {"bytes", "object"}]
    /\ edits \in 0..MaxEdits
    /\ \A s \in Slots : IsDocument(pdf[s])
    /\ PagesBounded

LEMMA InvInitially ==
    ASSUME PageAssumption, OriginalsAssumption, Init
    PROVE  DocumentInv
BY DEF PageAssumption, OriginalsAssumption, Init, DocumentInv, PagesBounded

\* Whatever leaves a document within the limit in one slot keeps the invariant.
LEMMA MadeDocumentKeeps ==
    ASSUME PageAssumption, DocumentInv, NEW s \in Slots, MakesDocument(s)
    PROVE  DocumentInv'
<1>1. PICK op, pages, after, kind :
          /\ kind \in {"bytes", "object"} /\ Edit(s, op, pages, after, kind)
          /\ IsDocument(after) /\ PageCount(after) \in 1..MaxPages
  BY DEF MakesDocument
<1>2. edits' = edits + 1 /\ edits < MaxEdits
  BY <1>1 DEF Edit, MakesDocument
<1>3. edits' \in 0..MaxEdits
  BY <1>2 DEF DocumentInv, PageAssumption
<1>4. DOMAIN pdf' = Slots /\ pdf'[s] = after /\ \A t \in Slots \ {s} : pdf'[t] = pdf[t]
  BY <1>1 DEF DocumentInv, Edit
<1>5. form' \in [Slots -> {"bytes", "object"}]
  BY <1>1 DEF DocumentInv, Edit
<1>6. \A t \in Slots : IsDocument(pdf[t])'
  <2>1. ASSUME NEW t \in Slots PROVE IsDocument(pdf'[t])
    BY <1>1, <1>4 DEF DocumentInv
  <2>2. \A doc : IsDocument(doc)' <=> IsDocument(doc)'
    OBVIOUS
  <2> QED
    BY <2>1
<1>7. PagesBounded'
  <2>1. last'.slot = s
    BY <1>1 DEF Edit
  <2>2. PageCount(pdf'[s]) \in 1..MaxPages
    BY <1>1, <1>4
  <2> QED
    BY <2>1, <2>2 DEF PagesBounded
<1> QED
  BY <1>3, <1>4, <1>5, <1>6, <1>7 DEF DocumentInv

LEMMA StepKeeps ==
    ASSUME PageAssumption, OriginalsAssumption, DocumentInv, [Next]_vars
    PROVE  DocumentInv'
<1>1. CASE UNCHANGED vars
  BY <1>1 DEF vars, DocumentInv, PagesBounded
<1>2. ASSUME NEW s \in Slots,
             \/ Keep(s) \/ Delete(s) \/ DeleteBlank(s) \/ Rotate(s) \/ Crop(s) \/ Scale(s)
             \/ PageNumbers(s) \/ SinglePage(s) \/ NUp(s) \/ Booklet(s)
      PROVE  MakesDocument(s)
  <2>1. IsDocument(pdf[s])
    BY DEF DocumentInv
  <2> QED
    BY <1>2, <2>1, KeepMakes, DeleteMakes, DeleteBlankMakes, RotateMakes, CropMakes, ScaleMakes,
       PageNumbersMakes, SinglePageMakes, NUpMakes, BookletMakes
<1>3. ASSUME NEW s \in Slots, NEW other \in Others,
             Merge(s, pdf[s], other) \/ Merge(s, other, pdf[s])
      PROVE  MakesDocument(s)
  <2>1. IsDocument(pdf[s]) /\ IsDocument(other)
    BY DEF DocumentInv, Others, OriginalsAssumption
  <2> QED
    BY <1>3, <2>1, MergeMakes
<1>4. CASE Next
  <2>1. \E s \in Slots : MakesDocument(s)
    BY <1>2, <1>3, <1>4 DEF Next
  <2> QED
    BY <2>1, MadeDocumentKeeps
<1> QED
  BY <1>1, <1>4

\* In any chain of page operations every artifact stays a document, and none that
\* an operation leaves is empty or over max_pages.
THEOREM DocumentsStay == Spec => []DocumentInv
<1>1. Init => DocumentInv
  BY PageAssumption, OriginalsAssumption, InvInitially
<1>2. DocumentInv /\ [Next]_vars => DocumentInv'
  BY PageAssumption, OriginalsAssumption, StepKeeps
<1> QED
  BY <1>1, <1>2, PTL DEF Spec

-----------------------------------------------------------------------------
(* What the runs check.                                                     *)

\* Every artifact is a graph of typed objects, and what get_pages finds are
\* objects of it.
THEOREM TypeCorrect == Spec => []TypeOK
<1>1. DocumentInv => TypeOK
  <2>1. ASSUME NEW doc, IsDocument(doc)
        PROVE  IsGraph(doc) /\ ToSet(PageIds(doc)) \subseteq Ids(doc)
    BY <2>1, TreeFacts, PagesListed DEF IsDocument, Lists
  <2> QED
    BY <2>1 DEF DocumentInv, TypeOK
<1> QED
  BY <1>1, DocumentsStay, PTL

LEMMA DocumentConsistent ==
    ASSUME NEW doc, IsDocument(doc)
    PROVE  HangsTogether(doc)
<1> DEFINE pages == ToSet(PageIds(doc))
<1>1. pages = AllLeaves(doc)
  BY PagesListed DEF Lists
<1>2. Cardinality(pages) = PageCount(doc) /\ doc.objects[doc.root].count = Cardinality(pages)
  BY <1>1, PagesListed
<1>3. ASSUME NEW id \in Nodes(doc)
      PROVE  doc.objects[id].count = Cardinality({p \in pages : id = doc.root \/ p \in Kids(doc, id)})
  <2>1. id # doc.root /\ doc.objects[id].count = Cardinality(Leaves(doc, id))
    BY TreeFacts DEF IsDocument
  <2>2. {p \in pages : id = doc.root \/ p \in Kids(doc, id)} = Leaves(doc, id)
    <3>1. \A p \in pages : IsPage(doc, p)
      BY <1>1, TreeFacts
    <3>2. \A p \in Leaves(doc, id) : p \in pages /\ p \in Kids(doc, id)
      BY <1>1 DEF AllLeaves, Leaves
    <3>3. \A p \in pages : p \in Kids(doc, id) => p \in Leaves(doc, id)
      BY <3>1 DEF Leaves
    <3> QED
      BY <2>1, <3>2, <3>3
  <2> QED
    BY <2>1, <2>2
<1>4. {p \in pages : doc.root = doc.root \/ p \in Kids(doc, doc.root)} = pages
  OBVIOUS
<1>5. \A id \in {doc.root} \cup Nodes(doc) :
          doc.objects[id].count = Cardinality({p \in pages : id = doc.root \/ p \in Kids(doc, id)})
  BY <1>2, <1>3, <1>4
<1> QED
  BY <1>2, <1>5, TreeFacts DEF HangsTogether

\* The tree of every document hangs together after any chain of operations: no
\* page twice, every Parent the node that lists the object, every Count exact,
\* whatever rebuild_pages_tree and merge_documents patch and leave behind.
THEOREM TreeStaysConsistent == Spec => []TreeConsistent
<1>1. DocumentInv => TreeConsistent
  BY DocumentConsistent DEF DocumentInv, TreeConsistent
<1> QED
  BY <1>1, DocumentsStay, PTL

\* No chain of operations makes an empty document or one over max_pages.
THEOREM PagesStayBounded == Spec => []PagesBounded
<1>1. DocumentInv => PagesBounded
  BY DEF DocumentInv
<1> QED
  BY <1>1, DocumentsStay, PTL

-----------------------------------------------------------------------------
(* The list of pages behind a tree.                                         *)

ListDone == IF last.op = "none" THEN <<"none">> ELSE <<last.op, last.slot>>

\* After an operator on slot s, the pages there and their own keys are view.
Shows(s, op, view) ==
    /\ Views' = [Views EXCEPT ![s] = view]
    /\ ListDone' = <<op, s>>

LEMMA EditShows ==
    ASSUME NEW s \in Slots, NEW op, op # "none", NEW pages, NEW after, NEW kind,
           DOMAIN pdf = Slots, Edit(s, op, pages, after, kind)
    PROVE  Shows(s, op, View(after))
<1>1. DOMAIN pdf = Slots /\ pdf' = [pdf EXCEPT ![s] = after]
  BY DEF Edit
<1>2. \A t \in Slots : View(pdf'[t]) = IF t = s THEN View(after) ELSE View(pdf[t])
  BY <1>1
<1>3. Views' = [t \in Slots |-> View(pdf'[t])]
  BY DEF Views
<1>4. Views' = [Views EXCEPT ![s] = View(after)]
  BY <1>2, <1>3 DEF Views
<1>5. ListDone' = <<op, s>>
  BY DEF Edit, ListDone
<1> QED
  BY <1>4, <1>5 DEF Shows

LEMMA ViewLength ==
    ASSUME NEW doc, IsDocument(doc)
    PROVE  Len(View(doc)) = PageCount(doc) /\ DOMAIN View(doc) = 1..PageCount(doc)
<1>1. PICK n \in Nat : n = PageCount(doc)
  BY PagesListed
<1> QED
  BY <1>1 DEF View

\* What slot s shows, and how much of it, when an operator starts.
LEMMA StartView ==
    ASSUME NEW s \in Slots, IsDocument(pdf[s])
    PROVE  /\ Views[s] = View(Loaded(s)) /\ List!Pages(s) = 1..PageCount(Loaded(s))
           /\ Len(Views[s]) = PageCount(Loaded(s))
<1>1. Views[s] = View(Loaded(s))
  BY LoadedView DEF Views
<1>2. Len(Views[s]) = PageCount(Loaded(s))
  BY <1>1, ViewLength, LoadedDocument
<1> QED
  BY <1>1, <1>2 DEF List!Pages

\* A range that is accepted is a request to the list.
LEMMA RequestAccepted ==
    ASSUME PageAssumption, NEW s \in Slots, IsDocument(pdf[s]), NEW selected,
           selected \in Selections(PageCount(Loaded(s)))
    PROVE  /\ selected \in List!Requests(s)
           /\ List!Range(selected) = ToSet(selected)
           /\ \E N : N \subseteq 1..PageCount(Loaded(s)) /\ N # {} /\ Lists(selected, N)
<1>1. PICK count \in Nat \ {0} : count = PageCount(Loaded(s))
  BY LoadedDocument, PagesListed
<1>2. PICK N : N \subseteq 1..count /\ N # {} /\ Lists(selected, N)
  BY <1>1, SelectionListed DEF SelectionsOrAll
<1>3. PICK spec \in PageSpecs : selected = Expanded(spec)
  BY DEF Selections
<1>4. selected # <<>> /\ ToSet(selected) = N /\ IsInjective(selected)
  BY <1>2 DEF Lists, ToSet
<1>5. List!Range(selected) = ToSet(selected)
  BY DEF List!Range, ToSet
<1>6. List!IsInjective(selected)
  BY <1>4 DEF IsInjective, List!IsInjective
<1>7. selected \in {Expanded(r) : r \in PageSpecs}
  BY <1>3
<1>8. selected \in List!Requests(s)
  BY <1>1, <1>2, <1>4, <1>5, <1>6, <1>7, StartView DEF List!Requests
<1> QED
  BY <1>1, <1>2, <1>5, <1>8

LEMMA SelectStep ==
    ASSUME PageAssumption, DOMAIN pdf = Slots, NEW s \in Slots, IsDocument(pdf[s]), Keep(s)
    PROVE  List!Step(s, "keep", List!Select)
<1>1. PICK doc : doc = Loaded(s)
  OBVIOUS
<1>2. IsDocument(doc)
  BY <1>1, LoadedDocument
<1>3. PICK selected \in Selections(PageCount(doc)) :
          Edit(s, "keep", selected, KeepPages(doc, selected), "object")
  BY <1>1 DEF Keep
<1>4. PICK N : N \subseteq 1..PageCount(doc) /\ N # {} /\ Lists(selected, N)
  BY <1>1, <1>3, RequestAccepted
<1>5. Shows(s, "keep", [k \in DOMAIN selected |-> View(doc)[selected[k]]])
  BY <1>2, <1>3, <1>4, EditShows, KeptView
<1>6. List!Choose(s, selected)
  BY <1>1, <1>5, StartView DEF Shows, List!Choose, Views
<1>7. List!Select(s)
  BY <1>1, <1>3, <1>6, RequestAccepted DEF List!Select
<1> QED
  BY <1>5, <1>7 DEF Shows, List!Step, ListDone

\* Both specifications use the same library.
LEMMA SameLibrary ==
    ASSUME NEW S, NEW f
    PROVE  /\ List!Cardinality(S) = Cardinality(S)
           /\ List!FlattenSeq(S) = FlattenSeq(S)
           /\ List!SumFunctionOnSet(f, S) = SumFunctionOnSet(f, S)
<1>1. List!Cardinality(S) = Cardinality(S)
  BY DEF Cardinality, List!Cardinality
<1>2. List!FlattenSeq(S) = FlattenSeq(S)
  BY DEF FlattenSeq, List!FlattenSeq
<1>3. List!SumFunctionOnSet(f, S) = SumFunctionOnSet(f, S)
  BY DEF SumFunctionOnSet, List!SumFunctionOnSet, FoldFunctionOnSet, List!FoldFunctionOnSet,
         MapThenFoldSet, List!MapThenFoldSet
<1> QED
  BY <1>1, <1>2, <1>3

\* The list's order of its members is the tree's.
LEMMA OrderIsAscending ==
    ASSUME NEW S \in SUBSET Nat, IsFiniteSet(S)
    PROVE  List!InOrder(S) = Ascending(S)
<1>1. PICK n \in Nat : n = Cardinality(S)
  BY FS_CardinalityType
<1>2. PICK up : up = Ascending(S) /\ Lists(up, S) /\ Len(up) = n
  BY <1>1, AscendingLists, ListLength
<1>3. up \in [1..n -> S] /\ \A j, k \in DOMAIN up : j < k => up[j] < up[k]
  <2>1. DOMAIN up = 1..n /\ up = [k \in 1..n |-> up[k]]
    BY <1>2, SeqMembers DEF Lists
  <2>2. \A k \in 1..n : up[k] \in S /\ Rank(S, up[k]) = k - 1
    BY <1>2, <2>1, AscendingLists DEF Lists, ToSet
  <2>3. ASSUME NEW j \in 1..n, NEW k \in 1..n, j < k PROVE up[j] < up[k]
    <3>1. PICK x \in S, y \in S : x = up[j] /\ y = up[k]
      BY <2>2
    <3>2. Rank(S, x) = j - 1 /\ Rank(S, y) = k - 1
      BY <2>2, <3>1
    <3>3. ~ (y < x)
      <4>1. y < x => Rank(S, y) < Rank(S, x)
        BY Ranks
      <4> QED
        BY <2>3, <3>2, <4>1
    <3>4. x # y
      BY <2>3, <3>2
    <3> QED
      BY <3>1, <3>3, <3>4
  <2> QED
    BY <2>1, <2>2, <2>3
<1>4. PICK order : order = List!InOrder(S)
  OBVIOUS
<1>5. order \in [1..n -> S] /\ \A j, k \in DOMAIN order : j < k => order[j] < order[k]
  <2>1. order = CHOOSE o \in [1..List!Cardinality(S) -> S] : \A j, k \in DOMAIN o : j < k => o[j] < o[k]
    BY <1>4 DEF List!InOrder
  <2>2. \E o \in [1..List!Cardinality(S) -> S] : \A j, k \in DOMAIN o : j < k => o[j] < o[k]
    BY <1>1, <1>3, SameLibrary
  <2> QED
    BY <1>1, <2>1, <2>2, SameLibrary
<1>6. order \in Seq(Nat) /\ Len(order) = n /\ DOMAIN order = 1..n /\ IsInjective(order)
  <2>1. order \in Seq(Nat) /\ Len(order) = n /\ DOMAIN order = 1..n
    <3>1. DOMAIN order = 1..n /\ order = [k \in 1..n |-> order[k]] /\ \A k \in 1..n : order[k] \in Nat
      BY <1>5
    <3> QED
      BY <3>1, NatFunctionIsSeq
  <2>2. ASSUME NEW j \in 1..n, NEW k \in 1..n, order[j] = order[k] PROVE j = k
    <3>1. ~ (j < k) /\ ~ (k < j)
      BY <1>5, <2>1, <2>2
    <3> QED
      BY <3>1
  <2> QED
    BY <2>1, <2>2 DEF IsInjective
<1>7. Lists(order, S)
  <2>1. PICK T : T = ToSet(order) /\ Lists(order, T)
    BY <1>6 DEF Lists
  <2>2. T \in SUBSET S /\ Cardinality(T) = n
    BY <1>5, <1>6, <2>1, ListLength DEF ToSet
  <2>3. T = S
    BY <1>1, <2>2, FS_Subset
  <2> QED
    BY <2>1, <2>3
<1> QED
  BY <1>4, <1>5, <1>7, AscendingUnique

\* Pages that a deletion leaves, as the list chooses them.
LEMMA RestChosen ==
    ASSUME NEW s \in Slots, IsDocument(pdf[s]), NEW op,
           NEW kept \in SUBSET (1..PageCount(Loaded(s))), kept # {},
           Shows(s, op, View(KeepPages(Loaded(s), Ascending(kept))))
    PROVE  List!Choose(s, List!InOrder(kept))
<1>1. PICK doc : doc = Loaded(s)
  OBVIOUS
<1>2. PICK count \in Nat \ {0} : count = PageCount(doc) /\ IsDocument(doc)
  BY <1>1, LoadedDocument, PagesListed
<1>3. kept \in SUBSET Nat /\ kept \in SUBSET (1..count) /\ IsFiniteSet(kept)
  <2>1. kept \in SUBSET (1..count)
    BY <1>1, <1>2
  <2>2. IsFiniteSet(1..count)
    BY UpTo
  <2>3. IsFiniteSet(kept)
    BY <2>1, <2>2, FS_Subset
  <2>4. kept \in SUBSET Nat
    BY <2>1
  <2> QED
    BY <2>1, <2>3, <2>4
<1>4. PICK order : order = Ascending(kept) /\ Lists(order, kept) /\ List!InOrder(kept) = order
  BY <1>3, AscendingLists, OrderIsAscending
<1>5. View(KeepPages(doc, order)) = [k \in DOMAIN order |-> View(doc)[order[k]]]
  BY <1>2, <1>3, <1>4, KeptView
<1> QED
  BY <1>1, <1>4, <1>5, StartView DEF Shows, List!Choose, Views

LEMMA DropStep ==
    ASSUME PageAssumption, DOMAIN pdf = Slots, NEW s \in Slots, IsDocument(pdf[s]), Delete(s)
    PROVE  List!Step(s, "delete", List!Drop)
<1>1. PICK doc : doc = Loaded(s)
  OBVIOUS
<1>2. PICK count \in Nat \ {0} : count = PageCount(doc) /\ IsDocument(doc)
  BY <1>1, LoadedDocument, PagesListed
<1>3. PICK deleted, kept :
          /\ deleted \in Selections(count)
          /\ kept = Ascending((1..count) \ ToSet(deleted)) /\ Len(deleted) # count
          /\ Edit(s, "delete", kept, KeepPages(doc, kept), "object")
  BY <1>1, <1>2 DEF Delete
<1>4. /\ deleted \in List!Requests(s) /\ List!Range(deleted) = ToSet(deleted)
      /\ \E N : N \subseteq 1..count /\ N # {} /\ Lists(deleted, N)
  BY <1>1, <1>2, <1>3, RequestAccepted
<1>5. PICK rest : rest = (1..count) \ ToSet(deleted)
  OBVIOUS
<1>6. ToSet(deleted) # 1..count
  <2>1. SUFFICES ASSUME ToSet(deleted) = 1..count PROVE FALSE
    OBVIOUS
  <2>2. Lists(deleted, 1..count)
    BY <1>4, <2>1 DEF Lists
  <2>3. Cardinality(1..count) = count
    BY UpTo
  <2> QED
    BY <1>3, <2>2, <2>3, ListLength
<1>7. rest # {} /\ rest \in SUBSET (1..count)
  BY <1>4, <1>5, <1>6 DEF Lists
<1>8. Shows(s, "delete", View(KeepPages(doc, kept)))
  BY <1>3, EditShows
<1>9. List!Choose(s, List!InOrder(rest))
  BY <1>1, <1>2, <1>3, <1>5, <1>7, <1>8, RestChosen
<1>10. List!Pages(s) = 1..count
  BY <1>1, <1>2, StartView
<1>11. List!Drop(s)
  BY <1>4, <1>5, <1>6, <1>9, <1>10 DEF List!Drop
<1> QED
  BY <1>8, <1>11 DEF Shows, List!Step, ListDone

LEMMA DropBlankStep ==
    ASSUME PageAssumption, DOMAIN pdf = Slots, NEW s \in Slots, IsDocument(pdf[s]), DeleteBlank(s)
    PROVE  List!Step(s, "delete blank", List!DropBlank)
<1>1. PICK doc : doc = Loaded(s)
  OBVIOUS
<1>2. PICK count \in Nat \ {0} : count = PageCount(doc) /\ IsDocument(doc)
  BY <1>1, LoadedDocument, PagesListed
<1>3. PICK rest, kept :
          /\ rest = (1..count) \ BlankPages(doc) /\ kept = Ascending(rest)
          /\ BlankPages(doc) # {} /\ kept # <<>>
          /\ Edit(s, "delete blank", kept, KeepPages(doc, kept), "object")
  BY <1>1, <1>2 DEF DeleteBlank
<1>4. BlankPages(doc) \subseteq 1..count
  BY <1>2 DEF BlankPages
<1>5. rest # {}
  <2>1. Lists(kept, rest)
    BY <1>3, RestListed
  <2>2. kept \in Seq(Nat) /\ ToSet(kept) = rest
    BY <2>1 DEF Lists
  <2>3. Len(kept) # 0
    BY <1>3, <2>2, EmptySeq
  <2>4. 1 \in DOMAIN kept
    BY <2>2, <2>3
  <2> QED
    BY <2>2, <2>4 DEF ToSet
<1>6. rest \in SUBSET (1..count) /\ rest # 1..count
  BY <1>3, <1>4
<1>7. Shows(s, "delete blank", View(KeepPages(doc, kept)))
  BY <1>3, EditShows
<1>8. List!Choose(s, List!InOrder(rest))
  BY <1>1, <1>2, <1>3, <1>5, <1>6, <1>7, RestChosen
<1>9. List!Pages(s) = 1..count /\ Views[s] = View(doc)
  BY <1>1, <1>2, StartView
<1>10. ASSUME NEW p \in (1..count) \ rest PROVE Views[s][p].marks = <<>>
  <2>1. IsBlank(PageObject(doc, p))
    BY <1>2, <1>3, <1>10 DEF BlankPages
  <2>2. View(doc)[p].marks = PageObject(doc, p).marks
    BY <1>2, <1>10 DEF View
  <2> QED
    BY <1>9, <2>1, <2>2 DEF IsBlank
<1>11. List!DropBlank(s)
  <2>1. rest \in (SUBSET List!Pages(s)) \ {{}, List!Pages(s)}
    BY <1>5, <1>6, <1>9
  <2>2. \A p \in List!Pages(s) \ rest : Views[s][p].marks = <<>>
    BY <1>9, <1>10
  <2> QED
    BY <1>8, <2>1, <2>2 DEF List!DropBlank
<1> QED
  BY <1>7, <1>11 DEF Shows, List!Step, ListDone

LEMMA JoinStep ==
    ASSUME DOMAIN pdf = Slots, NEW s \in Slots, IsDocument(pdf[s]),
           NEW other \in Others, IsDocument(other),
           Merge(s, pdf[s], other) \/ Merge(s, other, pdf[s])
    PROVE  List!Step(s, "merge", List!Join)
<1>1. View(other) \in {Views[t] : t \in Slots} \cup {View(doc) : doc \in Originals}
  <2>1. CASE other \in {pdf[t] : t \in Slots}
    <3>1. PICK t \in Slots : other = pdf[t]
      BY <2>1
    <3>2. Views[t] = View(other)
      BY <3>1 DEF Views
    <3> QED
      BY <3>2
  <2>2. CASE other \in Originals
    BY <2>2
  <2> QED
    BY <2>1, <2>2 DEF Others
<1>2. Views[s] = View(pdf[s])
  BY DEF Views
<1>3. \/ Shows(s, "merge", Views[s] \o View(other))
      \/ Shows(s, "merge", View(other) \o Views[s])
  <2>1. ASSUME Merge(s, pdf[s], other) PROVE Shows(s, "merge", Views[s] \o View(other))
    <3>1. PICK after : after = MergeDocuments(pdf[s], other)
      OBVIOUS
    <3>2. View(after) = View(pdf[s]) \o View(other)
      BY <3>1, MergedView
    <3>3. Shows(s, "merge", View(after))
      BY <2>1, <3>1, EditShows DEF Merge
    <3> QED
      BY <1>2, <3>2, <3>3
  <2>2. ASSUME Merge(s, other, pdf[s]) PROVE Shows(s, "merge", View(other) \o Views[s])
    <3>1. PICK after : after = MergeDocuments(other, pdf[s])
      OBVIOUS
    <3>2. View(after) = View(other) \o View(pdf[s])
      BY <3>1, MergedView
    <3>3. Shows(s, "merge", View(after))
      BY <2>2, <3>1, EditShows DEF Merge
    <3> QED
      BY <1>2, <3>2, <3>3
  <2> QED
    BY <2>1, <2>2
<1>4. \/ Views' = [Views EXCEPT ![s] = Views[s] \o View(other)]
      \/ Views' = [Views EXCEPT ![s] = View(other) \o Views[s]]
  BY <1>3 DEF Shows
<1>5. PICK more : more = View(other)
  OBVIOUS
<1>6. \/ Views' = [Views EXCEPT ![s] = @ \o more]
      \/ Views' = [Views EXCEPT ![s] = more \o @]
  BY <1>4, <1>5
<1>7. List!Join(s)
  BY <1>1, <1>5, <1>6 DEF List!Join
<1> QED
  BY <1>3, <1>7 DEF Shows, List!Step, ListDone

-----------------------------------------------------------------------------
(* Operators that draw on some of the pages.                                *)

\* Where a page is among the pages asked for.
Places(doc, selected, id) == {k \in DOMAIN selected : PageIds(doc)[selected[k]] = id}
IsPlace(doc, selected, p, k) ==
    /\ k \in DOMAIN selected /\ selected[k] = p
    /\ Places(doc, selected, PageIds(doc)[p]) = {k}
    /\ (CHOOSE i \in DOMAIN selected : selected[i] = p) = k

LEMMA PlaceOfPage ==
    ASSUME NEW doc, IsDocument(doc), NEW selected, NEW N, Lists(selected, N),
           N \subseteq 1..PageCount(doc), NEW p \in 1..PageCount(doc)
    PROVE  /\ p \notin N => Places(doc, selected, PageIds(doc)[p]) = {}
           /\ p \in N => \E k : IsPlace(doc, selected, p, k)
<1>1. DOMAIN PageIds(doc) = 1..PageCount(doc) /\ IsInjective(PageIds(doc))
  BY PagesListed, SeqMembers DEF PageCount, Lists
<1>2. \A k \in DOMAIN selected : selected[k] \in N /\ selected[k] \in 1..PageCount(doc)
  BY DEF Lists, ToSet
<1>3. ASSUME NEW k \in DOMAIN selected, PageIds(doc)[selected[k]] = PageIds(doc)[p]
      PROVE  selected[k] = p
  BY <1>1, <1>2, <1>3 DEF IsInjective
<1>4. p \notin N => Places(doc, selected, PageIds(doc)[p]) = {}
  BY <1>2, <1>3 DEF Places
<1>5. ASSUME p \in N PROVE \E k : IsPlace(doc, selected, p, k)
  <2>1. PICK k \in DOMAIN selected : selected[k] = p
    BY <1>5 DEF Lists, ToSet
  <2>2. \A i \in DOMAIN selected : selected[i] = p => i = k
    BY <2>1 DEF Lists, IsInjective
  <2>3. Places(doc, selected, PageIds(doc)[p]) = {k}
    BY <1>3, <2>1, <2>2 DEF Places
  <2>4. (CHOOSE i \in DOMAIN selected : selected[i] = p) = k
    BY <2>1, <2>2
  <2> QED
    BY <2>1, <2>3, <2>4 DEF IsPlace
<1> QED
  BY <1>4, <1>5

\* All pages, or those of a range, as the list is asked for them.
LEMMA PagesAccepted ==
    ASSUME PageAssumption, NEW s \in Slots, IsDocument(pdf[s]), NEW selected,
           selected \in SelectionsOrAll(PageCount(Loaded(s)))
    PROVE  /\ selected \in List!RequestsOrAll(s)
           /\ \E N : /\ N \subseteq 1..PageCount(Loaded(s)) /\ Lists(selected, N)
                     /\ List!Range(selected) = N
<1>1. PICK count \in Nat \ {0} : count = PageCount(Loaded(s))
  BY LoadedDocument, PagesListed
<1>2. PICK N : N \subseteq 1..count /\ Lists(selected, N)
  BY <1>1, SelectionListed
<1>3. List!Range(selected) = N
  BY <1>2 DEF List!Range, Lists, ToSet
<1>4. selected \in List!RequestsOrAll(s)
  <2>1. CASE selected \in Selections(count)
    BY <1>1, <2>1, RequestAccepted DEF List!RequestsOrAll
  <2>2. CASE selected = AllPages(count)
    BY <1>1, <2>2, StartView DEF AllPages, List!RequestsOrAll
  <2> QED
    BY <1>1, <2>1, <2>2 DEF SelectionsOrAll
<1> QED
  BY <1>1, <1>2, <1>3, <1>4

Cropped(view, N) ==
    [p \in DOMAIN view |-> IF p \in N THEN [view[p] EXCEPT !.crop = TRUE] ELSE view[p]]

LEMMA CropView ==
    ASSUME NEW doc, IsDocument(doc), NEW selected, NEW N, Lists(selected, N),
           N \subseteq 1..PageCount(doc)
    PROVE  View(CropPages(doc, selected)) = Cropped(View(doc), N)
<1>1. PICK new : new = CropPages(doc, selected)
  OBVIOUS
<1>2. PageIds(new) = PageIds(doc) /\ PageCount(new) = PageCount(doc)
  BY <1>1, CropKeeps
<1>3. \A id \in Ids(doc) : new.objects[id] =
          IF Places(doc, selected, id) = {} THEN doc.objects[id]
          ELSE [doc.objects[id] EXCEPT !.crop = TRUE]
  BY <1>1 DEF IsDocument, IsGraph, Ids, CropPages, OnPages, Places
<1>4. ASSUME NEW p \in 1..PageCount(doc)
      PROVE  View(new)[p] = IF p \in N THEN [View(doc)[p] EXCEPT !.crop = TRUE] ELSE View(doc)[p]
  <2>1. PICK id, old, page : /\ id = PageIds(doc)[p] /\ old = doc.objects[id]
                             /\ page = new.objects[id]
    OBVIOUS
  <2>2. id \in Ids(doc) /\ View(doc)[p] = PageView(old) /\ View(new)[p] = PageView(page)
    BY <1>2, <2>1, PageAt, ViewIs DEF PageObject
  <2>3. IsObject(old)
    BY <2>1, <2>2 DEF IsDocument, IsGraph
  <2>4. CASE p \in N
    <3>1. page = [old EXCEPT !.crop = TRUE]
      BY <1>3, <2>1, <2>2, <2>4, PlaceOfPage DEF IsPlace
    <3>2. PageView(page) = [PageView(old) EXCEPT !.crop = TRUE]
      <4>1. /\ page.marks = old.marks /\ page.box = old.box /\ page.rotate = old.rotate
            /\ page.crop = TRUE
        BY <2>3, <3>1 DEF IsObject
      <4>2. PICK marks, box, turn : /\ marks = old.marks /\ box = old.box
                                    /\ turn = IF old.rotate = None THEN 0 ELSE old.rotate
        OBVIOUS
      <4>3. PageView(page) = [marks |-> marks, box |-> box, crop |-> TRUE, turn |-> turn]
        BY <4>1, <4>2 DEF PageView
      <4>4. PageView(old) = [marks |-> marks, box |-> box, crop |-> old.crop, turn |-> turn]
        BY <4>2 DEF PageView
      <4>5. \A crop : [PageView(old) EXCEPT !.crop = crop] =
                         [marks |-> marks, box |-> box, crop |-> crop, turn |-> turn]
        BY <4>4
      <4> QED
        BY <4>3, <4>5, Zenon
    <3> QED
      BY <2>2, <2>4, <3>2
  <2>5. CASE p \notin N
    BY <1>3, <2>1, <2>2, <2>5, PlaceOfPage
  <2> QED
    BY <2>4, <2>5
<1> QED
  BY <1>1, <1>2, <1>4, ViewIs DEF Cropped

LEMMA CropStep ==
    ASSUME PageAssumption, DOMAIN pdf = Slots, NEW s \in Slots, IsDocument(pdf[s]), Crop(s)
    PROVE  List!Step(s, "crop", List!Crop)
<1>1. PICK doc : doc = Loaded(s)
  OBVIOUS
<1>2. IsDocument(doc)
  BY <1>1, LoadedDocument
<1>3. PICK selected \in SelectionsOrAll(PageCount(doc)) :
          Edit(s, "crop", selected, CropPages(doc, selected), "object")
  BY <1>1 DEF Crop
<1>4. selected \in List!RequestsOrAll(s)
  BY <1>1, <1>3, PagesAccepted
<1>5. PICK N : N \subseteq 1..PageCount(doc) /\ Lists(selected, N) /\ List!Range(selected) = N
  BY <1>1, <1>3, PagesAccepted
<1>6. Shows(s, "crop", Cropped(View(doc), N))
  <2>1. PICK after : after = CropPages(doc, selected)
    OBVIOUS
  <2>2. Shows(s, "crop", View(after))
    BY <1>3, <2>1, EditShows
  <2> QED
    BY <1>2, <1>5, <2>1, <2>2, CropView
<1>7. Views[s] = View(doc) /\ List!Pages(s) = 1..PageCount(doc) /\ s \in DOMAIN Views
  BY <1>1, StartView DEF Views
<1>8. List!Crop(s)
  BY <1>2, <1>4, <1>5, <1>6, <1>7, ViewLength DEF Shows, Cropped, List!Crop, List!Change
<1> QED
  BY <1>6, <1>8 DEF Shows, List!Step, ListDone

ScaledTo(view, box, marks) == [view EXCEPT !.box = box, !.marks = marks]

LEMMA ScaledPage ==
    ASSUME NEW page, NEW old, page.rotate = old.rotate, page.crop = old.crop
    PROVE  PageView(page) = ScaledTo(PageView(old), page.box, page.marks)
<1>0. PICK box, marks : box = page.box /\ marks = page.marks
  OBVIOUS
<1>1. PICK turn, crop, m, b : /\ turn = IF old.rotate = None THEN 0 ELSE old.rotate
                              /\ crop = old.crop /\ m = old.marks /\ b = old.box
  OBVIOUS
<1>2. PICK view : view = PageView(old)
  OBVIOUS
<1>3. view = [marks |-> m, box |-> b, crop |-> crop, turn |-> turn]
  BY <1>1, <1>2 DEF PageView
<1>4. PICK new : new = [view EXCEPT !.box = box, !.marks = marks]
  OBVIOUS
<1>5. new.marks = marks /\ new.box = box /\ new.crop = crop /\ new.turn = turn
  BY <1>3, <1>4
<1>6. DOMAIN new = {"marks", "box", "crop", "turn"} /\ new = [key \in DOMAIN new |-> new[key]]
  BY <1>3, <1>4
<1>7. new = [marks |-> new.marks, box |-> new.box, crop |-> new.crop, turn |-> new.turn]
  BY <1>6
<1>8. PageView(page) = [marks |-> marks, box |-> box, crop |-> crop, turn |-> turn]
  BY <1>0, <1>1 DEF PageView
<1> QED
  BY <1>0, <1>2, <1>4, <1>5, <1>7, <1>8 DEF ScaledTo

Scaled(view, N) ==
    [p \in DOMAIN view |->
        IF p \in N THEN [view[p] EXCEPT !.box = IF @ = None THEN None ELSE 2 * @,
                                        !.marks = <<<<"scaled", 2>>>> \o @]
        ELSE view[p]]

LEMMA ScaleView ==
    ASSUME NEW doc, IsDocument(doc), NEW selected, NEW N, Lists(selected, N),
           N \subseteq 1..PageCount(doc)
    PROVE  View(ScalePages(doc, selected)) = Scaled(View(doc), N)
<1>1. PICK new : new = ScalePages(doc, selected)
  OBVIOUS
<1>2. PageIds(new) = PageIds(doc) /\ PageCount(new) = PageCount(doc)
  BY <1>1, ScaleKeeps
<1>3. \A id \in Ids(doc) : new.objects[id] =
          IF Places(doc, selected, id) = {} THEN doc.objects[id]
          ELSE [doc.objects[id] EXCEPT !.box = IF @ = None THEN None ELSE 2 * @,
                                       !.marks = <<<<"scaled", 2>>>> \o @]
  BY <1>1 DEF IsDocument, IsGraph, Ids, ScalePages, OnPages, Places
<1>4. ASSUME NEW p \in 1..PageCount(doc)
      PROVE  View(new)[p] = Scaled(View(doc), N)[p]
  <2>1. PICK id, old, page : /\ id = PageIds(doc)[p] /\ old = doc.objects[id]
                             /\ page = new.objects[id]
    OBVIOUS
  <2>2. id \in Ids(doc) /\ View(doc)[p] = PageView(old) /\ View(new)[p] = PageView(page)
    BY <1>2, <2>1, PageAt, ViewIs DEF PageObject
  <2>3. IsObject(old)
    BY <2>1, <2>2 DEF IsDocument, IsGraph
  <2>4. CASE p \in N
    <3>0. Places(doc, selected, id) # {}
      <4>1. PICK k : IsPlace(doc, selected, p, k)
        BY <2>4, PlaceOfPage
      <4> QED
        BY <2>1, <4>1 DEF IsPlace
    <3>1. page = [old EXCEPT !.box = IF @ = None THEN None ELSE 2 * @,
                             !.marks = <<<<"scaled", 2>>>> \o @]
      BY <1>3, <2>1, <2>2, <3>0
    <3>2. PICK box, marks : /\ box = IF old.box = None THEN None ELSE 2 * old.box
                            /\ marks = <<<<"scaled", 2>>>> \o old.marks
      OBVIOUS
    <3>3. /\ page.marks = marks /\ page.box = box /\ page.rotate = old.rotate
          /\ page.crop = old.crop
      BY <2>3, <3>1, <3>2 DEF IsObject
    <3>4. PageView(page) = ScaledTo(PageView(old), box, marks)
      BY <3>3, ScaledPage
    <3>5. PageView(old).box = old.box /\ PageView(old).marks = old.marks
      BY DEF PageView
    <3>6. PageView(page) = [PageView(old) EXCEPT !.box = IF @ = None THEN None ELSE 2 * @,
                                                 !.marks = <<<<"scaled", 2>>>> \o @]
      BY <3>2, <3>4, <3>5 DEF ScaledTo
    <3> QED
      BY <1>2, <2>2, <2>4, <3>6, ViewLength DEF Scaled
  <2>5. CASE p \notin N
    <3>1. Places(doc, selected, id) = {}
      BY <2>1, <2>5, PlaceOfPage
    <3>2. page = old
      BY <1>3, <2>1, <2>2, <3>1
    <3> QED
      BY <2>2, <2>5, <3>2, ViewLength DEF Scaled
  <2> QED
    BY <2>4, <2>5
<1>5. DOMAIN View(doc) = 1..PageCount(doc)
  BY ViewLength
<1>6. View(new) = [p \in 1..PageCount(doc) |-> View(new)[p]]
  BY <1>2, ViewIs
<1> QED
  BY <1>1, <1>4, <1>5, <1>6 DEF Scaled

LEMMA ScaleStep ==
    ASSUME PageAssumption, DOMAIN pdf = Slots, NEW s \in Slots, IsDocument(pdf[s]), Scale(s)
    PROVE  List!Step(s, "scale", List!Scale)
<1>1. PICK doc : doc = Loaded(s)
  OBVIOUS
<1>2. IsDocument(doc)
  BY <1>1, LoadedDocument
<1>3. PICK selected \in SelectionsOrAll(PageCount(doc)) :
          Edit(s, "scale", selected, ScalePages(doc, selected), "object")
  BY <1>1 DEF Scale
<1>4. selected \in List!RequestsOrAll(s)
  BY <1>1, <1>3, PagesAccepted
<1>5. PICK N : N \subseteq 1..PageCount(doc) /\ Lists(selected, N) /\ List!Range(selected) = N
  BY <1>1, <1>3, PagesAccepted
<1>6. Shows(s, "scale", Scaled(View(doc), N))
  <2>1. PICK after : after = ScalePages(doc, selected)
    OBVIOUS
  <2>2. Shows(s, "scale", View(after))
    BY <1>3, <2>1, EditShows
  <2> QED
    BY <1>2, <1>5, <2>1, <2>2, ScaleView
<1>7. Views[s] = View(doc) /\ List!Pages(s) = 1..PageCount(doc) /\ s \in DOMAIN Views
  BY <1>1, StartView DEF Views
<1>8. List!Scale(s)
  BY <1>2, <1>4, <1>5, <1>6, <1>7, ViewLength DEF Shows, Scaled, List!Scale, List!Change
<1> QED
  BY <1>6, <1>8 DEF Shows, List!Step, ListDone

Numbered(view, pages, order, N, first) ==
    [p \in pages |->
        IF p \in N
        THEN [view[p] EXCEPT !.marks =
                  Append(@, <<"number", first + (CHOOSE i \in DOMAIN order : order[i] = p) - 1>>)]
        ELSE view[p]]

LEMMA NumberView ==
    ASSUME NEW doc, IsDocument(doc), NEW selected, NEW N, Lists(selected, N),
           N \subseteq 1..PageCount(doc), NEW start
    PROVE  View(NumberPages(doc, selected, start)) = Numbered(View(doc), 1..PageCount(doc), selected, N, start)
<1>1. PICK new : new = NumberPages(doc, selected, start)
  OBVIOUS
<1>2. PageIds(new) = PageIds(doc) /\ PageCount(new) = PageCount(doc)
  BY <1>1, NumbersKeep
<1>3. \A id \in Ids(doc) : new.objects[id] =
          IF Places(doc, selected, id) = {} THEN doc.objects[id]
          ELSE [doc.objects[id] EXCEPT
                   !.resources = (IF @ = None THEN {} ELSE @) \cup {"OxPnF1"},
                   !.marks = Append(@, <<"number",
                       start + (CHOOSE k \in Places(doc, selected, id) : TRUE) - 1>>)]
  BY <1>1 DEF IsDocument, IsGraph, Ids, NumberPages, OnPages, Places
<1>4. ASSUME NEW p \in 1..PageCount(doc)
      PROVE  View(new)[p] = Numbered(View(doc), 1..PageCount(doc), selected, N, start)[p]
  <2>1. PICK id, old, page : /\ id = PageIds(doc)[p] /\ old = doc.objects[id]
                             /\ page = new.objects[id]
    OBVIOUS
  <2>2. id \in Ids(doc) /\ View(doc)[p] = PageView(old) /\ View(new)[p] = PageView(page)
    BY <1>2, <2>1, PageAt, ViewIs DEF PageObject
  <2>3. IsObject(old)
    BY <2>1, <2>2 DEF IsDocument, IsGraph
  <2>4. CASE p \in N
    <3>1. PICK k : IsPlace(doc, selected, p, k)
      BY <2>4, PlaceOfPage
    <3>2. (CHOOSE j \in Places(doc, selected, id) : TRUE) = k /\ Places(doc, selected, id) # {}
      BY <2>1, <3>1 DEF IsPlace
    <3>3. PICK marks : marks = Append(old.marks, <<"number", start + k - 1>>)
      OBVIOUS
    <3>4. page = [old EXCEPT !.resources = (IF @ = None THEN {} ELSE @) \cup {"OxPnF1"},
                             !.marks = marks]
      BY <1>3, <2>1, <2>2, <3>2, <3>3
    <3>5. PICK resources : page = [old EXCEPT !.resources = resources, !.marks = marks]
      BY <3>4
    <3>6. /\ page.marks = marks /\ page.box = old.box /\ page.rotate = old.rotate
          /\ page.crop = old.crop
      BY <2>3, <3>5 DEF IsObject
    <3>7. PageView(page) = [PageView(old) EXCEPT !.marks = marks]
      BY <3>6 DEF PageView
    <3>8. PageView(old).marks = old.marks
      BY DEF PageView
    <3>9. (CHOOSE i \in DOMAIN selected : selected[i] = p) = k
      BY <3>1 DEF IsPlace
    <3>10. Numbered(View(doc), 1..PageCount(doc), selected, N, start)[p] =
               [View(doc)[p] EXCEPT !.marks = Append(@, <<"number", start + k - 1>>)]
      BY <2>4, <3>9, ViewLength DEF Numbered
    <3> QED
      BY <2>2, <3>3, <3>7, <3>8, <3>10
  <2>5. CASE p \notin N
    <3>1. Places(doc, selected, id) = {}
      BY <2>1, <2>5, PlaceOfPage
    <3>2. page = old
      BY <1>3, <2>1, <2>2, <3>1
    <3> QED
      BY <2>2, <2>5, <3>2, ViewLength DEF Numbered
  <2> QED
    BY <2>4, <2>5
<1>5. DOMAIN View(doc) = 1..PageCount(doc)
  BY ViewLength
<1>6. View(new) = [p \in 1..PageCount(doc) |-> View(new)[p]]
  BY <1>2, ViewIs
<1> QED
  BY <1>1, <1>4, <1>5, <1>6 DEF Numbered

LEMMA NumberStep ==
    ASSUME PageAssumption, DOMAIN pdf = Slots, NEW s \in Slots, IsDocument(pdf[s]), PageNumbers(s)
    PROVE  List!Step(s, "number", List!Number)
<1>1. PICK doc : doc = Loaded(s)
  OBVIOUS
<1>2. IsDocument(doc)
  BY <1>1, LoadedDocument
<1>3. PICK selected \in SelectionsOrAll(PageCount(doc)), start \in 1..2 :
          Edit(s, "number", selected, NumberPages(doc, selected, start), "object")
  BY <1>1 DEF PageNumbers
<1>4. selected \in List!RequestsOrAll(s)
  BY <1>1, <1>3, PagesAccepted
<1>5. PICK N : N \subseteq 1..PageCount(doc) /\ Lists(selected, N) /\ List!Range(selected) = N
  BY <1>1, <1>3, PagesAccepted
<1>6. Shows(s, "number", Numbered(View(doc), 1..PageCount(doc), selected, N, start))
  <2>1. PICK after : after = NumberPages(doc, selected, start)
    OBVIOUS
  <2>2. Shows(s, "number", View(after))
    BY <1>3, <2>1, EditShows
  <2> QED
    BY <1>2, <1>5, <2>1, <2>2, NumberView
<1>7. Views[s] = View(doc) /\ List!Pages(s) = 1..PageCount(doc) /\ s \in DOMAIN Views
  BY <1>1, StartView DEF Views
<1>8. List!Number(s)
  <2>1. Numbered(View(doc), 1..PageCount(doc), selected, N, start) =
            Numbered(Views[s], List!Pages(s), selected, List!Range(selected), start)
    BY <1>5, <1>7
  <2>2. Views' = [Views EXCEPT ![s] = Numbered(Views[s], List!Pages(s), selected, List!Range(selected), start)]
    BY <1>6, <2>1 DEF Shows
  <2> QED
    BY <1>4, <2>2 DEF Numbered, List!Number, List!Change
<1> QED
  BY <1>6, <1>8 DEF Shows, List!Step, ListDone

Turned(view, pages, N, degrees) ==
    [p \in pages |->
        IF p \in N THEN [view[p] EXCEPT !.turn = (@ + degrees) % 360] ELSE view[p]]

\* What a full turn leaves of degrees.
IsRest(rest, degrees) == degrees \in Int /\ rest \in {90, 180, 270} /\ rest = degrees % 360

\* Turning by degrees is turning by what a full turn leaves of them.
LEMMA TurnsAgree ==
    ASSUME NEW turn \in {0, 90, 180, 270}, NEW degrees, NEW rest, IsRest(rest, degrees)
    PROVE  /\ (turn + degrees) % 360 = (turn + rest) % 360
           /\ (turn + degrees) % 360 \in {0, 90, 180, 270}
<1>1. rest \in {90, 180, 270} /\ \E turns \in Int : degrees = 360 * turns + rest
  <2>1. degrees = 360 * (degrees \div 360) + (degrees % 360) /\ degrees \div 360 \in Int
    BY DEF IsRest
  <2> QED
    BY <2>1 DEF IsRest
<1>0. PICK turns \in Int : degrees = 360 * turns + rest
  BY <1>1
<1>2. turn + degrees = 360 * turns + (turn + rest)
  BY <1>0, <1>1
<1>3. \/ turn + rest \in {90, 180, 270} /\ (turn + degrees) % 360 = turn + rest
      \/ turn + rest \in {360, 450, 540} /\ (turn + degrees) % 360 = turn + rest - 360
  BY <1>0, <1>1, <1>2
<1>4. \/ turn + rest \in {90, 180, 270} /\ (turn + rest) % 360 = turn + rest
      \/ turn + rest \in {360, 450, 540} /\ (turn + rest) % 360 = turn + rest - 360
  BY <1>1
<1> QED
  BY <1>1, <1>3, <1>4

LEMMA RotateView ==
    ASSUME NEW doc, IsDocument(doc), NEW selected, NEW N, Lists(selected, N),
           N \subseteq 1..PageCount(doc), NEW degrees, NEW rest, IsRest(rest, degrees)
    PROVE  View(RotatePages(doc, selected, degrees)) = Turned(View(doc), 1..PageCount(doc), N, rest)
<1>1. PICK new : new = RotatePages(doc, selected, degrees)
  OBVIOUS
<1>2. PageIds(new) = PageIds(doc) /\ PageCount(new) = PageCount(doc)
  <2>1. degrees \in Int /\ degrees % 360 \in {90, 180, 270}
    BY DEF IsRest
  <2> QED
    BY <1>1, <2>1, RotateKeeps
<1>3. \A id \in Ids(doc) : new.objects[id] =
          IF Places(doc, selected, id) = {} THEN doc.objects[id]
          ELSE [doc.objects[id] EXCEPT !.rotate = ((IF @ = None THEN 0 ELSE @) + degrees) % 360]
  BY <1>1 DEF IsDocument, IsGraph, Ids, RotatePages, OnPages, Places
<1>4. ASSUME NEW p \in 1..PageCount(doc)
      PROVE  View(new)[p] = Turned(View(doc), 1..PageCount(doc), N, rest)[p]
  <2>1. PICK id, old, page : /\ id = PageIds(doc)[p] /\ old = doc.objects[id]
                             /\ page = new.objects[id]
    OBVIOUS
  <2>2. id \in Ids(doc) /\ View(doc)[p] = PageView(old) /\ View(new)[p] = PageView(page)
    <3>1. id \in Ids(doc) /\ View(doc)[p] = PageView(old)
      BY <2>1, PageAt, ViewIs DEF PageObject
    <3>2. View(new)[p] = PageView(page)
      BY <1>2, <2>1, ViewIs DEF PageObject
    <3> QED
      BY <3>1, <3>2
  <2>3. IsObject(old)
    BY <2>1, <2>2 DEF IsDocument, IsGraph
  <2>4. CASE p \in N
    <3>1. PICK turn \in {0, 90, 180, 270} : turn = IF old.rotate = None THEN 0 ELSE old.rotate
      BY <2>3 DEF IsObject
    <3>2. PICK turned : turned = (turn + degrees) % 360
      OBVIOUS
    <3>3. turned = (turn + rest) % 360 /\ turned \in {0, 90, 180, 270}
      BY <3>2, TurnsAgree
    <3>0. Places(doc, selected, id) # {}
      <4>1. PICK k : IsPlace(doc, selected, p, k)
        BY <2>4, PlaceOfPage
      <4> QED
        BY <2>1, <4>1 DEF IsPlace
    <3>4. page = [old EXCEPT !.rotate = turned]
      BY <1>3, <2>1, <2>2, <3>0, <3>1, <3>2
    <3>5. /\ page.marks = old.marks /\ page.box = old.box /\ page.rotate = turned
          /\ page.crop = old.crop
      BY <2>3, <3>4 DEF IsObject
    <3>6. (IF page.rotate = None THEN 0 ELSE page.rotate) = turned
      BY <3>3, <3>5, NoneAssumption
    <3>7. PageView(page) = [PageView(old) EXCEPT !.turn = turned]
      BY <3>5, <3>6 DEF PageView
    <3>8. PageView(old).turn = turn
      BY <3>1 DEF PageView
    <3>9. Turned(View(doc), 1..PageCount(doc), N, rest)[p] =
              [View(doc)[p] EXCEPT !.turn = (@ + rest) % 360]
      BY <2>4, ViewLength DEF Turned
    <3> QED
      BY <2>2, <3>3, <3>7, <3>8, <3>9
  <2>5. CASE p \notin N
    <3>1. Places(doc, selected, id) = {}
      BY <2>1, <2>5, PlaceOfPage
    <3>2. page = old
      BY <1>3, <2>1, <2>2, <3>1
    <3> QED
      BY <2>2, <2>5, <3>2, ViewLength DEF Turned
  <2> QED
    BY <2>4, <2>5
<1>5. DOMAIN View(doc) = 1..PageCount(doc)
  BY ViewLength
<1>6. View(new) = [p \in 1..PageCount(doc) |-> View(new)[p]]
  BY <1>2, ViewIs
<1> QED
  BY <1>1, <1>4, <1>5, <1>6 DEF Turned

LEMMA TurnStep ==
    ASSUME PageAssumption, DOMAIN pdf = Slots, NEW s \in Slots, IsDocument(pdf[s]),
           Rotate(s)
    PROVE  List!Step(s, "rotate", List!Turn)
<1>1. PICK doc : doc = Loaded(s)
  OBVIOUS
<1>2. IsDocument(doc)
  BY <1>1, LoadedDocument
<1>3. PICK selected \in Selections(PageCount(doc)), degrees \in Degrees :
          /\ degrees % 360 \in {90, 180, 270}
          /\ Edit(s, "rotate", selected, RotatePages(doc, selected, degrees), "object")
  BY <1>1 DEF Rotate
<1>4. selected \in List!Requests(s) /\ List!Range(selected) = ToSet(selected) /\ degrees \in Int
  BY <1>1, <1>3, RequestAccepted DEF PageAssumption
<1>5. PICK N : N \subseteq 1..PageCount(doc) /\ Lists(selected, N) /\ List!Range(selected) = N
  BY <1>1, <1>3, <1>4, RequestAccepted DEF Lists
<1>6. PICK rest : IsRest(rest, degrees)
  BY <1>3, <1>4 DEF IsRest
<1>7. Shows(s, "rotate", Turned(View(doc), 1..PageCount(doc), N, rest))
  <2>1. PICK after : after = RotatePages(doc, selected, degrees)
    OBVIOUS
  <2>2. Shows(s, "rotate", View(after))
    BY <1>3, <2>1, EditShows
  <2>3. View(after) = Turned(View(doc), 1..PageCount(doc), N, rest)
    BY <1>2, <1>5, <1>6, <2>1, RotateView
  <2> QED
    BY <2>2, <2>3
<1>8. Views[s] = View(doc) /\ List!Pages(s) = 1..PageCount(doc) /\ s \in DOMAIN Views
  BY <1>1, StartView DEF Views
<1>9. List!Turn(s)
  <2>1. Turned(View(doc), 1..PageCount(doc), N, rest) =
            Turned(Views[s], List!Pages(s), List!Range(selected), rest)
    BY <1>5, <1>8
  <2>2. Views' = [Views EXCEPT ![s] = Turned(Views[s], List!Pages(s), List!Range(selected), rest)]
    BY <1>7, <2>1 DEF Shows
  <2>3. Views' = [Views EXCEPT ![s] = [p \in List!Pages(s) |->
            IF p \in List!Range(selected)
            THEN [Views[s][p] EXCEPT !.turn = (Views[s][p].turn + rest) % 360] ELSE Views[s][p]]]
    BY <2>2 DEF Turned
  <2>4. List!Change(s, List!Range(selected), LAMBDA page, p : [page EXCEPT !.turn = (@ + rest) % 360])
    BY <2>3 DEF List!Change
  <2>5. rest \in {90, 180, 270}
    BY <1>6 DEF IsRest
  <2> QED
    BY <1>4, <2>4, <2>5 DEF List!Turn
<1> QED
  BY <1>7, <1>9 DEF Shows, List!Step, ListDone

-----------------------------------------------------------------------------
(* All pages on one.                                                        *)

\* The marks of all pages, each below the pages before it.
Piled(doc) ==
    [p \in 1..PageCount(doc) |-> <<<<"at", Offset(doc, p)>>>> \o PageObject(doc, p).marks]
Height(doc) == SumFunctionOnSet(Heights(doc), 1..PageCount(doc))
FusedTo(view, marks, crop, box) == [view EXCEPT !.marks = marks, !.crop = crop, !.box = box]

LEMMA FusedPage ==
    ASSUME NEW page, NEW old, page.rotate = old.rotate
    PROVE  PageView(page) = FusedTo(PageView(old), page.marks, page.crop, page.box)
<1>1. PICK turn, c, m, b : /\ turn = IF old.rotate = None THEN 0 ELSE old.rotate
                           /\ c = old.crop /\ m = old.marks /\ b = old.box
  OBVIOUS
<1>2. PICK view, crop, marks, box : /\ view = PageView(old) /\ crop = page.crop
                                    /\ box = page.box /\ marks = page.marks
  OBVIOUS
<1>3. view = [marks |-> m, box |-> b, crop |-> c, turn |-> turn]
  BY <1>1, <1>2 DEF PageView
<1>4. PICK new : new = [view EXCEPT !.marks = marks, !.crop = crop, !.box = box]
  OBVIOUS
<1>5. new.marks = marks /\ new.box = box /\ new.crop = crop /\ new.turn = turn
  BY <1>3, <1>4
<1>6. DOMAIN new = {"marks", "box", "crop", "turn"} /\ new = [key \in DOMAIN new |-> new[key]]
  BY <1>3, <1>4
<1>7. new = [marks |-> new.marks, box |-> new.box, crop |-> new.crop, turn |-> new.turn]
  BY <1>6
<1>8. PageView(page) = [marks |-> marks, box |-> box, crop |-> crop, turn |-> turn]
  BY <1>1, <1>2 DEF PageView
<1> QED
  BY <1>2, <1>4, <1>5, <1>7, <1>8 DEF FusedTo

LEMMA FuseView ==
    ASSUME NEW doc, IsDocument(doc), NEW first, first = PageIds(doc)[1]
    PROVE  View(RebuildPagesTree(FusePages(doc), <<first>>)) =
               <<FusedTo(View(doc)[1], FlattenSeq(Piled(doc)), TRUE, Height(doc))>>
<1>1. PICK fused, new, ids : /\ fused = FusePages(doc) /\ ids = <<first>>
                             /\ new = RebuildPagesTree(fused, ids)
  OBVIOUS
<1>2. PICK count \in Nat \ {0} : count = PageCount(doc)
  BY PagesListed
<1>3. 1 \in 1..count
  OBVIOUS
<1>4. /\ first \in Ids(doc) /\ first \in AllLeaves(doc) /\ IsPage(doc, first)
      /\ View(doc)[1] = PageView(doc.objects[first])
  BY <1>2, <1>3, PageAt, TreeFacts, ViewIs DEF PageObject
<1>5. IsDocument(new) /\ ListsPages(new, fused, ids)
  <2>1. IsGraph(fused) /\ first \in Ids(fused) /\ IsPage(fused, first)
    BY <1>1, <1>4, FuseKeeps DEF IsDocument
  <2>2. PICK S : S = {first}
    OBVIOUS
  <2>3. Lists(ids, S)
    <3>1. first \in Nat
      BY <2>1 DEF IsGraph
    <3> QED
      BY <1>1, <2>2, <3>1 DEF Lists, IsInjective, ToSet
  <2>4. S # {} /\ \A id \in S : id \in Ids(fused) /\ IsPage(fused, id)
    BY <2>1, <2>2
  <2> QED
    BY <1>1, <2>1, <2>3, <2>4, RebuildMakesDocument
<1>6. View(new) = Shown(fused, ids)
  BY <1>5, ListedView
<1>7. Shown(fused, ids) = <<PageView(fused.objects[first])>>
  BY <1>1 DEF Shown
<1>8. PICK old, page : old = doc.objects[first] /\ page = fused.objects[first]
  OBVIOUS
<1>9. PICK marks, resources, box : /\ marks = FlattenSeq(Piled(doc)) /\ box = Height(doc)
                                   /\ page = [old EXCEPT !.marks = marks, !.crop = TRUE,
                                                         !.resources = resources, !.box = box]
  <2>1. {k \in DOMAIN <<1>> : PageIds(doc)[<<1>>[k]] = first} # {}
    BY <1>2
  <2> QED
    BY <1>1, <1>4, <1>8, <2>1 DEF IsDocument, IsGraph, Ids, FusePages, OnPages, Piled, Height
<1>10. /\ page.marks = marks /\ page.crop = TRUE /\ page.box = box /\ page.rotate = old.rotate
  <2>1. IsObject(old)
    BY <1>4, <1>8 DEF IsDocument, IsGraph
  <2> QED
    BY <1>9, <2>1 DEF IsObject
<1>11. PageView(page) = FusedTo(PageView(old), marks, TRUE, box)
  BY <1>10, FusedPage
<1> QED
  BY <1>1, <1>4, <1>6, <1>7, <1>8, <1>9, <1>11

\* The list's heights and piles.
ListHeights(s) == [p \in List!Pages(s) |-> Views[s][p].box]
ListPiled(s) ==
    [p \in List!Pages(s) |->
        <<<<"at", List!SumFunctionOnSet(ListHeights(s), (p + 1)..Len(Views[s]))>>>> \o Views[s][p].marks]

LEMMA FuseStep ==
    ASSUME PageAssumption, DOMAIN pdf = Slots, NEW s \in Slots, IsDocument(pdf[s]), SinglePage(s)
    PROVE  List!Step(s, "single page", List!Fuse)
<1>1. PICK doc, first : doc = Loaded(s) /\ first = PageIds(doc)[1]
  OBVIOUS
<1>2. PICK count \in Nat \ {0} : count = PageCount(doc) /\ IsDocument(doc)
  BY <1>1, LoadedDocument, PagesListed
<1>3. /\ count > 1
      /\ Edit(s, "single page", <<1>>, RebuildPagesTree(FusePages(doc), <<first>>), "object")
  <2>1. PageCount(doc) >= 2
    BY <1>1 DEF SinglePage
  <2>2. Edit(s, "single page", <<1>>, RebuildPagesTree(FusePages(doc), <<first>>), "object")
    BY <1>1 DEF SinglePage
  <2>3. count > 1
    BY <1>2, <2>1
  <2> QED
    BY <2>2, <2>3
<1>4. Shows(s, "single page",
            <<FusedTo(View(doc)[1], FlattenSeq(Piled(doc)), TRUE, Height(doc))>>)
  <2>1. PICK after : after = RebuildPagesTree(FusePages(doc), <<first>>)
    OBVIOUS
  <2>2. Shows(s, "single page", View(after))
    BY <1>3, <2>1, EditShows
  <2>3. View(after) = <<FusedTo(View(doc)[1], FlattenSeq(Piled(doc)), TRUE, Height(doc))>>
    BY <1>1, <1>2, <2>1, FuseView
  <2> QED
    BY <2>2, <2>3
<1>5. Views[s] = View(doc) /\ List!Pages(s) = 1..count /\ Len(Views[s]) = count
  BY <1>1, <1>2, StartView
<1>6. \A p \in 1..count : /\ Views[s][p].box = PageObject(doc, p).box
                          /\ Views[s][p].marks = PageObject(doc, p).marks
  BY <1>2, <1>5 DEF View
<1>7. ListHeights(s) = Heights(doc)
  BY <1>2, <1>5, <1>6 DEF ListHeights, Heights
<1>8. ListPiled(s) = Piled(doc)
  <2>1. \A p \in 1..count :
            List!SumFunctionOnSet(ListHeights(s), (p + 1)..Len(Views[s])) = Offset(doc, p)
    BY <1>2, <1>5, <1>7, SameLibrary DEF Offset
  <2> QED
    BY <1>2, <1>5, <1>6, <2>1 DEF ListPiled, Piled
<1>9. List!SumFunctionOnSet(ListHeights(s), List!Pages(s)) = Height(doc)
  BY <1>2, <1>5, <1>7, SameLibrary DEF Height
<1>10. Views' = [Views EXCEPT ![s] = <<FusedTo(Views[s][1], List!FlattenSeq(ListPiled(s)), TRUE,
                    List!SumFunctionOnSet(ListHeights(s), List!Pages(s)))>>]
  <2>1. List!FlattenSeq(ListPiled(s)) = FlattenSeq(Piled(doc))
    BY <1>8, SameLibrary
  <2> QED
    BY <1>4, <1>5, <1>9, <2>1 DEF Shows
<1>11. List!Fuse(s)
  BY <1>3, <1>5, <1>10 DEF FusedTo, ListHeights, ListPiled, List!Fuse
<1> QED
  BY <1>4, <1>11 DEF Shows, List!Step, ListDone

-----------------------------------------------------------------------------
(* Sheets.                                                                  *)

\* What ImposePages draws: the source of a cell, the marks of a sheet, the sheet.
Source(doc, order, cells, n, k) ==
    IF (n - 1) * cells + k > Len(order) THEN PageCount(doc) ELSE order[(n - 1) * cells + k]
CellMarks(doc, source, k) ==
    IF source < PageCount(doc) THEN <<<<"cell", k>>>> \o PageObject(doc, source + 1).marks ELSE <<>>
SheetMarks(doc, order, cells, n) ==
    FlattenSeq([k \in 1..cells |-> CellMarks(doc, Source(doc, order, cells, n, k), k)])
SheetObject(doc, order, cells, n) ==
    [type |-> "Page", parent |-> 2, kids |-> <<>>, count |-> 0, rotate |-> None,
     box |-> PageObject(doc, 1).box, crop |-> TRUE, resources |-> {"OxPg"},
     marks |-> SheetMarks(doc, order, cells, n)]
SheetView(box, marks) == [marks |-> marks, box |-> box, crop |-> TRUE, turn |-> 0]

LEMMA ImposeView ==
    ASSUME NEW doc, NEW order, NEW cells, NEW sheets \in Nat \ {0},
           sheets = (Len(order) + cells - 1) \div cells
    PROVE  View(ImposePages(doc, order, cells)) =
               [n \in 1..sheets |->
                   SheetView(PageObject(doc, 1).box, SheetMarks(doc, order, cells, n))]
<1>1. PICK new, kids : new = ImposePages(doc, order, cells) /\ kids = [n \in 1..sheets |-> n + 2]
  OBVIOUS
<1>2. IsDocument(new) /\ PageCount(new) = sheets
  BY <1>1, ImposeMakesDocument
<1>3. /\ new.root = 2 /\ new.objects[2].kids = kids
      /\ \A id \in 3..(sheets + 2) : new.objects[id] = SheetObject(doc, order, cells, id - 2)
  <2>1. PICK root : /\ root.kids = kids
                    /\ new = [root |-> 2, objects |-> [id \in 2..(sheets + 2) |->
                           IF id = 2 THEN root ELSE SheetObject(doc, order, cells, id - 2)]]
    BY <1>1 DEF ImposePages, SheetObject, SheetMarks, CellMarks, Source
  <2> QED
    BY <2>1
<1>4. PageIds(new) = kids
  <2>1. ASSUME NEW id \in ToSet(kids) PROVE IsPage(new, id)
    <3>1. PICK n \in 1..sheets : id = n + 2
      BY <1>1 DEF ToSet
    <3>2. new.objects[id] = SheetObject(doc, order, cells, id - 2)
      BY <1>3, <3>1
    <3> QED
      BY <3>2 DEF IsPage, SheetObject
  <2> QED
    BY <1>2, <1>3, <2>1, FlatPages
<1>5. ASSUME NEW n \in 1..sheets
      PROVE  PageView(PageObject(new, n)) =
                 SheetView(PageObject(doc, 1).box, SheetMarks(doc, order, cells, n))
  <2>1. kids[n] = n + 2 /\ n + 2 \in 3..(sheets + 2) /\ (n + 2) - 2 = n
    BY <1>1
  <2>2. PageObject(new, n) = SheetObject(doc, order, cells, n)
    BY <1>3, <1>4, <2>1 DEF PageObject
  <2> QED
    BY <2>2 DEF PageView, SheetObject, SheetView
<1> QED
  BY <1>1, <1>2, <1>5, ViewIs

\* The pages a list's sheet shows are the tree's, counted from 1 and not from 0.
SameCells(doc, order, cells, n, pages) ==
    \A k \in 1..cells : LET source == Source(doc, order, cells, n, k) IN
        /\ source < PageCount(doc) <=> pages[k] \in 1..PageCount(doc)
        /\ source < PageCount(doc) => pages[k] = source + 1

LEMMA SheetsAgree ==
    ASSUME NEW s \in Slots, IsDocument(pdf[s]), NEW order, NEW cells \in Nat, NEW n, NEW pages,
           IsTuple(pages, cells), SameCells(Loaded(s), order, cells, n, pages)
    PROVE  List!Sheet(s, pages) =
               SheetView(PageObject(Loaded(s), 1).box, SheetMarks(Loaded(s), order, cells, n))
<1>1. PICK doc : doc = Loaded(s)
  OBVIOUS
<1>2. PICK count \in Nat \ {0} : count = PageCount(doc) /\ IsDocument(doc)
  BY <1>1, LoadedDocument, PagesListed
<1>3. Views[s] = View(doc) /\ List!Pages(s) = 1..count
  BY <1>1, <1>2, StartView
<1>4. \A p \in 1..count : /\ Views[s][p].box = PageObject(doc, p).box
                          /\ Views[s][p].marks = PageObject(doc, p).marks
  BY <1>2, <1>3 DEF View
<1> DEFINE cell(k) == IF pages[k] \in List!Pages(s)
                      THEN <<<<"cell", k>>>> \o Views[s][pages[k]].marks ELSE <<>>
<1>5. \A k \in 1..cells : cell(k) = CellMarks(doc, Source(doc, order, cells, n, k), k)
  <2> TAKE k \in 1..cells
  <2>1. PICK source : source = Source(doc, order, cells, n, k)
    OBVIOUS
  <2>2. /\ source < count <=> pages[k] \in 1..count
        /\ source < count => pages[k] = source + 1
    BY <1>1, <1>2, <2>1 DEF SameCells
  <2> QED
    BY <1>2, <1>3, <1>4, <2>1, <2>2 DEF CellMarks
<1>6. DOMAIN pages = 1..cells
  BY DEF IsTuple
<1>7. [k \in DOMAIN pages |-> cell(k)] =
          [k \in 1..cells |-> CellMarks(doc, Source(doc, order, cells, n, k), k)]
  BY <1>5, <1>6
<1>8. PICK marks, box : /\ marks = List!FlattenSeq([k \in DOMAIN pages |-> cell(k)])
                        /\ box = Views[s][1].box
  OBVIOUS
<1>9. marks = SheetMarks(doc, order, cells, n)
  BY <1>7, <1>8, SameLibrary DEF SheetMarks
<1>10. box = PageObject(doc, 1).box
  <2>1. 1 \in 1..count
    OBVIOUS
  <2> QED
    BY <1>4, <1>8, <2>1
<1>11. List!Sheet(s, pages) = [List!Blank(box) EXCEPT !.crop = TRUE, !.marks = marks]
  BY <1>8 DEF List!Sheet
<1> HIDE DEF cell
<1>12. [List!Blank(box) EXCEPT !.crop = TRUE, !.marks = marks] = SheetView(box, marks)
  <2>1. PICK new, blank, yes, no : /\ blank = List!Blank(box) /\ yes = TRUE /\ no = FALSE
                                   /\ new = [blank EXCEPT !.crop = yes, !.marks = marks]
    OBVIOUS
  <2>2. blank = [marks |-> <<>>, turn |-> 0, box |-> box, crop |-> no]
    BY <2>1 DEF List!Blank
  <2>3. new.marks = marks /\ new.box = box /\ new.crop = yes /\ new.turn = 0
    BY <2>1, <2>2
  <2>4. DOMAIN new = {"marks", "box", "crop", "turn"} /\ new = [key \in DOMAIN new |-> new[key]]
    BY <2>1, <2>2
  <2>5. new = [marks |-> new.marks, box |-> new.box, crop |-> new.crop, turn |-> new.turn]
    BY <2>4
  <2> QED
    BY <2>1, <2>3, <2>5 DEF SheetView
<1> QED
  BY <1>1, <1>9, <1>10, <1>11, <1>12

\* Pages side by side, in order.
LEMMA NUpCells ==
    ASSUME NEW doc, NEW count \in Nat \ {0}, count = PageCount(doc),
           NEW order, order = [k \in 1..count |-> k - 1],
           NEW cells \in {1, 2}, NEW n \in Nat \ {0}, NEW pages,
           pages = [k \in 1..cells |->
                       IF (n - 1) * cells + k <= count THEN (n - 1) * cells + k ELSE 0]
    PROVE  SameCells(doc, order, cells, n, pages)
<1>1. ASSUME NEW k \in 1..cells
      PROVE  LET source == Source(doc, order, cells, n, k) IN
             /\ source < count <=> pages[k] \in 1..count
             /\ source < count => pages[k] = source + 1
  <2>1. PICK place \in Nat \ {0} : place = (n - 1) * cells + k
    <3>1. (n - 1) * cells \in Nat
      OBVIOUS
    <3> QED
      BY <3>1
  <2>2. pages[k] = IF place <= count THEN place ELSE 0
    BY <2>1
  <2>3. Len(order) = count
    OBVIOUS
  <2>4. Source(doc, order, cells, n, k) = IF place > count THEN count ELSE order[place]
    BY <2>1, <2>3 DEF Source
  <2>5. place <= count => order[place] = place - 1
    OBVIOUS
  <2> QED
    BY <2>2, <2>4, <2>5
<1> QED
  BY <1>1 DEF SameCells

LEMMA NUpStep ==
    ASSUME PageAssumption, DOMAIN pdf = Slots, NEW s \in Slots, IsDocument(pdf[s]), NUp(s)
    PROVE  List!Step(s, "nup", List!NUp)
<1>1. PICK doc : doc = Loaded(s)
  OBVIOUS
<1>2. PICK count \in Nat \ {0} : count = PageCount(doc) /\ IsDocument(doc)
  BY <1>1, LoadedDocument, PagesListed
<1>3. PICK order : order = [k \in 1..count |-> k - 1]
  OBVIOUS
<1>4. PICK cells \in {1, 2} : Edit(s, "nup", order, ImposePages(doc, order, cells), "bytes")
  <2>1. \A cells \in 1..2 : cells \in {1, 2}
    OBVIOUS
  <2> QED
    BY <1>1, <1>2, <1>3, <2>1 DEF NUp
<1>5. PICK sheets \in 1..count : /\ sheets = (count + cells - 1) \div cells
                                 /\ (sheets - 1) * cells < count /\ count <= sheets * cells
  <2>1. CASE cells = 1
    BY <2>1
  <2>2. CASE cells = 2
    BY <2>2
  <2> QED
    BY <2>1, <2>2
<1>6. PICK view : view = [n \in 1..sheets |-> SheetView(PageObject(doc, 1).box, SheetMarks(doc, order, cells, n))]
  OBVIOUS
<1>7. Shows(s, "nup", view)
  <2>1. PICK after : after = ImposePages(doc, order, cells)
    OBVIOUS
  <2>2. Shows(s, "nup", View(after))
    BY <1>4, <2>1, EditShows
  <2>3. Len(order) = count /\ sheets \in Nat \ {0}
    BY <1>3
  <2>4. View(after) = view
    BY <1>5, <1>6, <2>1, <2>3, ImposeView
  <2> QED
    BY <2>2, <2>4
<1>8. Views[s] = View(doc) /\ List!Pages(s) = 1..count /\ Len(Views[s]) = count
  BY <1>1, <1>2, StartView
<1> DEFINE pages(n) == [k \in 1..cells |-> IF (n - 1) * cells + k <= Len(Views[s])
                                           THEN (n - 1) * cells + k ELSE 0]
<1>9. ASSUME NEW n \in 1..sheets PROVE List!Sheet(s, pages(n)) = view[n]
  <2>1. PICK shown : shown = pages(n)
    OBVIOUS
  <2>2. shown = [k \in 1..cells |-> IF (n - 1) * cells + k <= count THEN (n - 1) * cells + k ELSE 0]
    BY <1>8, <2>1
  <2>3. n \in Nat \ {0}
    OBVIOUS
  <2>4. SameCells(doc, order, cells, n, shown)
    BY <1>2, <1>3, <2>2, <2>3, NUpCells
  <2>5. IsTuple(shown, cells) /\ cells \in Nat
    BY <2>2 DEF IsTuple
  <2>6. List!Sheet(s, shown) = SheetView(PageObject(doc, 1).box, SheetMarks(doc, order, cells, n))
    BY <1>1, <2>4, <2>5, SheetsAgree
  <2> QED
    BY <1>6, <2>1, <2>6
<1>10. view = [n \in 1..sheets |-> List!Sheet(s, pages(n))]
  <2>1. view = [n \in 1..sheets |-> view[n]]
    BY <1>6
  <2> HIDE DEF pages
  <2> QED
    BY <1>9, <2>1
<1>11. Views' = [Views EXCEPT ![s] = [n \in 1..sheets |-> List!Sheet(s, pages(n))]]
  BY <1>7, <1>10 DEF Shows
<1>12. List!NUp(s)
  <2>1. sheets \in List!Pages(s) /\ (sheets - 1) * cells < Len(Views[s]) /\ Len(Views[s]) <= sheets * cells
    BY <1>5, <1>8
  <2>2. cells \in 1..2
    OBVIOUS
  <2> QED
    BY <1>11, <2>1, <2>2 DEF List!NUp
<1> QED
  BY <1>7, <1>12 DEF Shows, List!Step, ListDone

\* What a reader finds on side n of a folded booklet.
Side(sheets, n) ==
    LET leaf == (n + 1) \div 2
        mirror == 2 * sheets + 1 - leaf
    IN  IF n % 2 = 1 THEN <<2 * mirror, 2 * leaf - 1>> ELSE <<2 * leaf, 2 * mirror - 1>>

IsSide(count, sheets, n) == sheets \in Nat \ {0} /\ count <= 4 * sheets /\ n \in 1..(2 * sheets)

LEMMA BookletCells ==
    ASSUME NEW doc, NEW count \in Nat \ {0}, count = PageCount(doc),
           NEW order, NEW sheets, BookletOrder(order, sheets),
           NEW n, IsSide(count, sheets, n), NEW pages, pages = Side(sheets, n)
    PROVE  SameCells(doc, order, 2, n, pages)
<1>0. sheets \in Nat \ {0} /\ count <= 4 * sheets /\ n \in 1..(2 * sheets)
  BY DEF IsSide
<1>1. PICK j \in 1..sheets : n = 2 * j - 1 \/ n = 2 * j
  <2>1. PICK j \in Int : j = (n + 1) \div 2
    BY <1>0
  <2>2. n = 2 * j - 1 \/ n = 2 * j
    BY <1>0, <2>1
  <2>3. j \in 1..sheets
    BY <1>0, <2>2
  <2> QED
    BY <2>2, <2>3
<1>2. Len(order) = 4 * sheets
  BY DEF BookletOrder
<1>3. PICK padded \in Int, sheet \in Int : padded = 4 * sheets /\ sheet = j - 1
  BY <1>0
<1>4. \A i \in 1..4 : order[4 * sheet + i] = BookletSheet(padded, sheet)[i]
  BY <1>3 DEF BookletOrder
<1>5. /\ order[4 * sheet + 1] = padded - sheet * 2 - 1 /\ order[4 * sheet + 2] = sheet * 2
      /\ order[4 * sheet + 3] = sheet * 2 + 1 /\ order[4 * sheet + 4] = padded - sheet * 2 - 2
  BY <1>4 DEF BookletSheet
<1>6. CASE n = 2 * j - 1
  <2>1. pages = <<2 * (2 * sheets + 1 - j), 2 * j - 1>>
    <3>1. (n + 1) \div 2 = j /\ n % 2 = 1
      BY <1>6
    <3> QED
      BY <3>1 DEF Side
  <2>2. Source(doc, order, 2, n, 1) = padded - sheet * 2 - 1
    <3>1. (n - 1) * 2 + 1 = 4 * sheet + 1 /\ ~ ((n - 1) * 2 + 1 > 4 * sheets)
      BY <1>0, <1>3, <1>6
    <3> QED
      BY <1>0, <1>2, <1>5, <3>1 DEF Source
  <2>3. Source(doc, order, 2, n, 2) = sheet * 2
    <3>1. (n - 1) * 2 + 2 = 4 * sheet + 2 /\ ~ ((n - 1) * 2 + 2 > 4 * sheets)
      BY <1>0, <1>3, <1>6
    <3> QED
      BY <1>0, <1>2, <1>5, <3>1 DEF Source
  <2>4. pages[1] = padded - sheet * 2 /\ pages[2] = sheet * 2 + 1
    BY <1>0, <1>3, <2>1
  <2>5. pages[1] >= 1 /\ pages[2] >= 1
    BY <1>0, <1>3, <2>4
  <2> QED
    BY <1>0, <1>3, <2>2, <2>3, <2>4, <2>5 DEF SameCells
<1>7. CASE n = 2 * j
  <2>1. pages = <<2 * j, 2 * (2 * sheets + 1 - j) - 1>>
    <3>1. (n + 1) \div 2 = j /\ n % 2 = 0
      BY <1>7
    <3> QED
      BY <3>1 DEF Side
  <2>2. Source(doc, order, 2, n, 1) = sheet * 2 + 1
    <3>1. (n - 1) * 2 + 1 = 4 * sheet + 3 /\ ~ ((n - 1) * 2 + 1 > 4 * sheets)
      BY <1>0, <1>3, <1>7
    <3> QED
      BY <1>0, <1>2, <1>5, <3>1 DEF Source
  <2>3. Source(doc, order, 2, n, 2) = padded - sheet * 2 - 2
    <3>1. (n - 1) * 2 + 2 = 4 * sheet + 4 /\ ~ ((n - 1) * 2 + 2 > 4 * sheets)
      BY <1>0, <1>3, <1>7
    <3> QED
      BY <1>0, <1>2, <1>5, <3>1 DEF Source
  <2>4. pages[1] = sheet * 2 + 2 /\ pages[2] = padded - sheet * 2 - 1
    BY <1>0, <1>3, <2>1
  <2>5. pages[1] >= 1 /\ pages[2] >= 1
    BY <1>0, <1>3, <2>4
  <2> QED
    BY <1>0, <1>3, <2>2, <2>3, <2>4, <2>5 DEF SameCells
<1> QED
  BY <1>1, <1>6, <1>7

LEMMA BookletStep ==
    ASSUME PageAssumption, DOMAIN pdf = Slots, NEW s \in Slots, IsDocument(pdf[s]), Booklet(s)
    PROVE  List!Step(s, "booklet", List!Booklet)
<1>1. PICK doc : doc = Loaded(s)
  OBVIOUS
<1>2. PICK count \in Nat \ {0} : count = PageCount(doc) /\ IsDocument(doc)
  BY <1>1, LoadedDocument, PagesListed
<1>3. PICK order : order = BookletPageOrder(count)
  OBVIOUS
<1>4. PageCount(doc) >= 2 /\ Edit(s, "booklet", order, ImposePages(doc, order, 2), "bytes")
  BY <1>1, <1>2, <1>3 DEF Booklet
<1>5. PICK sheets \in 1..count : /\ sheets = (count + 3) \div 4
                                 /\ 4 * (sheets - 1) < count /\ count <= 4 * sheets
  OBVIOUS
<1>6. BookletOrder(order, sheets)
  <2>1. sheets \in Nat \ {0}
    OBVIOUS
  <2> QED
    BY <1>3, <1>5, <2>1, BookletOrderIs
<1>7. PICK view : view = [n \in 1..(2 * sheets) |->
                             SheetView(PageObject(doc, 1).box, SheetMarks(doc, order, 2, n))]
  OBVIOUS
<1>8. Shows(s, "booklet", view)
  <2>1. PICK after : after = ImposePages(doc, order, 2)
    OBVIOUS
  <2>2. Shows(s, "booklet", View(after))
    BY <1>4, <2>1, EditShows
  <2>3. PICK sides \in Nat \ {0} : sides = 2 * sheets
    OBVIOUS
  <2>4. sides = (Len(order) + 2 - 1) \div 2
    BY <1>6, <2>3 DEF BookletOrder
  <2>5. View(after) = view
    BY <1>7, <2>1, <2>3, <2>4, ImposeView
  <2> QED
    BY <2>2, <2>5
<1>9. Views[s] = View(doc) /\ List!Pages(s) = 1..count /\ Len(Views[s]) = count
  BY <1>1, <1>2, StartView
<1>10. ASSUME NEW n \in 1..(2 * sheets) PROVE List!Sheet(s, Side(sheets, n)) = view[n]
  <2>1. PICK shown : shown = Side(sheets, n)
    OBVIOUS
  <2>2. SameCells(doc, order, 2, n, shown)
    <3>1. IsSide(count, sheets, n)
      BY <1>5 DEF IsSide
    <3> QED
      BY <1>2, <1>6, <2>1, <3>1, BookletCells
  <2>3. IsTuple(shown, 2)
    BY <2>1 DEF IsTuple, Side
  <2>4. List!Sheet(s, shown) = SheetView(PageObject(doc, 1).box, SheetMarks(doc, order, 2, n))
    BY <1>1, <2>2, <2>3, SheetsAgree
  <2> QED
    BY <1>7, <2>1, <2>4
<1>11. view = [n \in 1..(2 * sheets) |-> List!Sheet(s, Side(sheets, n))]
  <2>1. view = [n \in 1..(2 * sheets) |-> view[n]]
    BY <1>7
  <2> QED
    BY <1>10, <2>1
<1>12. Views' = [Views EXCEPT ![s] = [n \in 1..(2 * sheets) |-> List!Sheet(s, Side(sheets, n))]]
  BY <1>8, <1>11 DEF Shows
<1>13. List!Booklet(s)
  <2>1. /\ sheets \in List!Pages(s) /\ 4 * (sheets - 1) < Len(Views[s]) /\ Len(Views[s]) <= 4 * sheets
        /\ Len(Views[s]) > 1
    BY <1>2, <1>4, <1>5, <1>9
  <2> QED
    BY <1>12, <2>1 DEF Side, List!Booklet
<1> QED
  BY <1>8, <1>13 DEF Shows, List!Step, ListDone

LEMMA StepInitially ==
    ASSUME Init
    PROVE  List!Init
<1>1. \A s \in Slots : View(pdf[s]) \in {View(doc) : doc \in Originals}
  BY DEF Init
<1>2. Views \in [Slots -> {View(doc) : doc \in Originals}]
  BY <1>1 DEF Views
<1> QED
  BY <1>2 DEF List!Init, Init

LEMMA Stuttering ==
    ASSUME UNCHANGED vars
    PROVE  UNCHANGED List!listVars
BY DEF vars, List!listVars, Views

LEMMA StepOfList ==
    ASSUME PageAssumption, OriginalsAssumption, DocumentInv, [Next]_vars
    PROVE  List!Next \/ UNCHANGED List!listVars
<1>1. DOMAIN pdf = Slots /\ \A s \in Slots : IsDocument(pdf[s])
  BY DEF DocumentInv
<1>2. ASSUME NEW s \in Slots, Keep(s) PROVE List!Next
  BY <1>1, <1>2, SelectStep DEF List!Next
<1>3. ASSUME NEW s \in Slots, Delete(s) PROVE List!Next
  BY <1>1, <1>3, DropStep DEF List!Next
<1>4. ASSUME NEW s \in Slots, DeleteBlank(s) PROVE List!Next
  BY <1>1, <1>4, DropBlankStep DEF List!Next
<1>5. ASSUME NEW s \in Slots, Rotate(s) PROVE List!Next
  BY <1>1, <1>5, TurnStep DEF List!Next
<1>6. ASSUME NEW s \in Slots, Crop(s) PROVE List!Next
  BY <1>1, <1>6, CropStep DEF List!Next
<1>7. ASSUME NEW s \in Slots, Scale(s) PROVE List!Next
  BY <1>1, <1>7, ScaleStep DEF List!Next
<1>8. ASSUME NEW s \in Slots, PageNumbers(s) PROVE List!Next
  BY <1>1, <1>8, NumberStep DEF List!Next
<1>9. ASSUME NEW s \in Slots, SinglePage(s) PROVE List!Next
  BY <1>1, <1>9, FuseStep DEF List!Next
<1>10. ASSUME NEW s \in Slots, NUp(s) PROVE List!Next
  BY <1>1, <1>10, NUpStep DEF List!Next
<1>11. ASSUME NEW s \in Slots, Booklet(s) PROVE List!Next
  BY <1>1, <1>11, BookletStep DEF List!Next
<1>12. ASSUME NEW s \in Slots, NEW other \in Others,
              Merge(s, pdf[s], other) \/ Merge(s, other, pdf[s])
       PROVE  List!Next
  <2>1. IsDocument(pdf[s]) /\ IsDocument(other)
    BY <1>1 DEF Others, OriginalsAssumption
  <2> QED
    BY <1>1, <1>12, <2>1, JoinStep DEF List!Next
<1>13. CASE Next
  BY <1>2, <1>3, <1>4, <1>5, <1>6, <1>7, <1>8, <1>9, <1>10, <1>11, <1>12, <1>13 DEF Next
<1>14. CASE UNCHANGED vars
  BY <1>14, Stuttering
<1> QED
  BY <1>13, <1>14

\* Whatever the ids and the shape of the trees, and however often a document is
\* saved and loaded in between, the page operations act on the pages and their own
\* keys as they do on a sequence: they select, order, join and decorate.
THEOREM TreeImplementsList == Spec => ImplementsPageList
<1>1. Init => List!Init
  BY StepInitially
<1>2. DocumentInv /\ [Next]_vars => [List!Next]_(List!listVars)
  BY PageAssumption, OriginalsAssumption, StepOfList
<1> QED
  BY <1>1, <1>2, DocumentsStay, PTL DEF Spec, ImplementsPageList, List!Spec

=============================================================================
