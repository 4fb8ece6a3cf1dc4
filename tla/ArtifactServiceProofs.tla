----------------------- MODULE ArtifactServiceProofs -----------------------
(***************************************************************************)
(* For every number of clients, every size and every limit: the store of   *)
(* oxidepdf-web is within its caps and keeps records and files together,   *)
(* an execution stays within its limit while artifacts come and go under   *)
(* it, and storing evicts the oldest.                                      *)
(*                                                                         *)
(* Sums of sizes need induction.  The library's induction theorems take    *)
(* the property as an operator, which the provers cannot instantiate; here *)
(* it is the set of the subsets that have it, and the step is WFMin on the *)
(* subsets that do not.                                                    *)
(***************************************************************************)
EXTENDS ArtifactService, FiniteSetTheorems, WellFoundedInduction, TLAPS

-----------------------------------------------------------------------------
(* Induction over finite sets, with the property as a set of sets.          *)

\* A property of finite sets that holds of T when it holds of T's proper subsets
\* holds of all of them.
LEMMA SubsetInduction ==
    ASSUME NEW S, IsFiniteSet(S), NEW F,
           \A T \in SUBSET S : (\A U \in SUBSET T : U # T => U \in F) => T \in F
    PROVE  SUBSET S \subseteq F
<1> DEFINE B == (SUBSET S) \ F
<1>1. SUFFICES ASSUME B # {} PROVE FALSE
  OBVIOUS
<1>2. IsWellFoundedOn(StrictSubsetOrdering(S), FiniteSubsetsOf(S))
  BY FS_StrictSubsetOrderingWellFounded
<1>3. B \subseteq FiniteSubsetsOf(S)
  BY FS_FiniteSubsetsOfFinite
<1>4. PICK T \in B : \A U \in B : ~ (<<U, T>> \in StrictSubsetOrdering(S))
  <2> HIDE DEF B
  <2> QED
    BY <1>1, <1>2, <1>3, WFMin
<1>5. ASSUME NEW U \in SUBSET T, U # T PROVE U \in F
  <2>1. <<U, T>> \in StrictSubsetOrdering(S)
    BY <1>5 DEF StrictSubsetOrdering
  <2> QED
    BY <1>4, <2>1
<1> QED
  BY <1>5

-----------------------------------------------------------------------------
(* Total: the recursive function behind it has exactly one solution, and    *)
(* which element it takes first does not matter.                            *)

Pick(s) == CHOOSE x \in s : TRUE
Solves(size, sums, S) ==
    sums = [s \in SUBSET S |-> IF s = {} THEN 0 ELSE size[Pick(s)] + sums[s \ {Pick(s)}]]

LEMMA SolutionsAgree ==
    ASSUME NEW S, IsFiniteSet(S), NEW T, T \subseteq S, NEW size, NEW g, NEW h,
           Solves(size, g, S), Solves(size, h, T)
    PROVE  \A U \in SUBSET T : g[U] = h[U]
<1> DEFINE F == {U \in SUBSET T : g[U] = h[U]}
<1>1. IsFiniteSet(T)
  BY FS_Subset
<1>2. ASSUME NEW U \in SUBSET T, \A V \in SUBSET U : V # U => V \in F PROVE U \in F
  <2>1. CASE U = {}
    BY <2>1 DEF Solves
  <2>2. CASE U # {}
    <3>1. Pick(U) \in U
      BY <2>2 DEF Pick
    <3>2. U \ {Pick(U)} \in F
      BY <1>2, <3>1
    <3>3. g[U] = size[Pick(U)] + g[U \ {Pick(U)}]
      BY <2>2 DEF Solves
    <3>4. h[U] = size[Pick(U)] + h[U \ {Pick(U)}]
      BY <2>2 DEF Solves
    <3> QED
      BY <3>2, <3>3, <3>4
  <2> QED
    BY <2>1, <2>2
<1>3. SUBSET T \subseteq F
  <2> HIDE DEF F
  <2> QED
    BY <1>1, <1>2, SubsetInduction
<1> QED
  BY <1>3

LEMMA SolutionExists ==
    ASSUME NEW S, IsFiniteSet(S), NEW size
    PROVE  \E sums : Solves(size, sums, S)
<1> DEFINE F == {T \in SUBSET S : \E sums : Solves(size, sums, T)}
<1>1. ASSUME NEW T \in SUBSET S, \A U \in SUBSET T : U # T => U \in F PROVE T \in F
  <2> DEFINE G == [U \in SUBSET T |-> CHOOSE g : Solves(size, g, U)]
             below(s) == size[Pick(s)] + G[s \ {Pick(s)}][s \ {Pick(s)}]
             sums == [s \in SUBSET T |-> IF s = {} THEN 0 ELSE below(s)]
  <2>1. \A U \in SUBSET T : U # T => Solves(size, G[U], U)
    BY <1>1
  <2>2. ASSUME NEW s \in SUBSET T, s # T PROVE sums[s] = G[s][s]
    <3> HIDE DEF G
    <3>1. CASE s = {}
      BY <2>1, <2>2, <3>1 DEF Solves
    <3>2. CASE s # {}
      <4>1. Pick(s) \in s /\ s \ {Pick(s)} # T /\ s \ {Pick(s)} \in SUBSET T
        BY <2>2, <3>2 DEF Pick
      <4>2. G[s][s] = size[Pick(s)] + G[s][s \ {Pick(s)}]
        BY <2>1, <2>2, <3>2 DEF Solves
      <4>3. IsFiniteSet(s)
        BY FS_Subset
      <4>4. G[s][s \ {Pick(s)}] = G[s \ {Pick(s)}][s \ {Pick(s)}]
        <5> DEFINE u == s \ {Pick(s)}
        <5>1. Solves(size, G[s], s) /\ Solves(size, G[u], u) /\ u \subseteq s /\ u \in SUBSET u
          BY <2>1, <2>2, <4>1
        <5> HIDE DEF G, u
        <5>2. G[s][u] = G[u][u]
          BY <5>1, <4>3, SolutionsAgree
        <5> QED
          BY <5>2 DEF u
      <4> QED
        BY <3>2, <4>2, <4>4
    <3> QED
      BY <3>1, <3>2
  <2>3. ASSUME NEW s \in SUBSET T, s # {} PROVE sums[s] = size[Pick(s)] + sums[s \ {Pick(s)}]
    <3>1. Pick(s) \in s /\ s \ {Pick(s)} # T /\ s \ {Pick(s)} \in SUBSET T
      BY <2>3 DEF Pick
    <3>2. sums[s \ {Pick(s)}] = G[s \ {Pick(s)}][s \ {Pick(s)}]
      BY <2>2, <3>1
    <3>3. sums[s] = below(s)
      BY <2>3
    <3> QED
      BY <3>2, <3>3
  <2>4. sums[{}] = 0
    OBVIOUS
  <2>5. sums = [s \in SUBSET T |-> sums[s]]
    OBVIOUS
  <2>6. Solves(size, sums, T)
    <3> HIDE DEF sums
    <3> QED
      BY <2>3, <2>4, <2>5 DEF Solves
  <2> QED
    BY <2>6
<1>2. SUBSET S \subseteq F
  <2> HIDE DEF F
  <2> QED
    BY <1>1, SubsetInduction
<1> QED
  BY <1>2

\* Total is a solution of its own equation.
LEMMA TotalSolves ==
    ASSUME NEW S, IsFiniteSet(S), NEW size
    PROVE  \E sums : Solves(size, sums, S) /\ \A T \in SUBSET S : Total(size, T) = sums[T]
<1>1. ASSUME NEW T, IsFiniteSet(T)
      PROVE  \E sums : Solves(size, sums, T) /\ Total(size, T) = sums[T]
  <2> DEFINE sums == CHOOSE sums : Solves(size, sums, T)
  <2>1. Solves(size, sums, T)
    BY <1>1, SolutionExists
  <2>2. Total(size, T) = sums[T]
    BY DEF Total, MapThenSumSet, MapThenFoldSet, Solves, Pick
  <2> QED
    BY <2>1, <2>2
<1>2. PICK sums : Solves(size, sums, S)
  BY SolutionExists
<1>3. ASSUME NEW T \in SUBSET S PROVE Total(size, T) = sums[T]
  <2>1. IsFiniteSet(T)
    BY FS_Subset
  <2>2. PICK h : Solves(size, h, T) /\ Total(size, T) = h[T]
    BY <1>1, <2>1
  <2>3. sums[T] = h[T]
    BY <1>2, <2>2, SolutionsAgree
  <2> QED
    BY <2>2, <2>3
<1> QED
  BY <1>2, <1>3

\* Any element can be taken out first.
LEMMA TotalStep ==
    ASSUME NEW S, IsFiniteSet(S), NEW size, \A x \in S : size[x] \in Nat
    PROVE  /\ Total(size, {}) = 0
           /\ \A T \in SUBSET S : Total(size, T) \in Nat
           /\ \A T \in SUBSET S : \A x \in T : Total(size, T) = size[x] + Total(size, T \ {x})
<1>0. PICK sums : Solves(size, sums, S) /\ \A T \in SUBSET S : Total(size, T) = sums[T]
  BY TotalSolves
<1> DEFINE F == {T \in SUBSET S : /\ sums[T] \in Nat
                                   /\ \A x \in T : sums[T] = size[x] + sums[T \ {x}]}
<1>1. sums[{}] = 0
  BY <1>0 DEF Solves
<1>2. \A T \in SUBSET S : T # {} => Pick(T) \in T /\ sums[T] = size[Pick(T)] + sums[T \ {Pick(T)}]
  BY <1>0 DEF Solves, Pick
<1>3. ASSUME NEW T \in SUBSET S, \A U \in SUBSET T : U # T => U \in F PROVE T \in F
  <2>1. CASE T = {}
    BY <1>1, <2>1
  <2>2. ASSUME T # {}, NEW x \in T PROVE sums[T] \in Nat /\ sums[T] = size[x] + sums[T \ {x}]
    <3> DEFINE p == Pick(T)
    <3>1. p \in T /\ sums[T] = size[p] + sums[T \ {p}] /\ T \ {p} \in F /\ T \ {x} \in F
      BY <1>2, <1>3, <2>2
    <3>2. CASE x = p
      <4>1. size[p] \in Nat /\ sums[T \ {p}] \in Nat
        BY <3>1
      <4> QED
        BY <3>1, <3>2, <4>1
    <3>3. CASE x # p
      <4>1. sums[T \ {p}] = size[x] + sums[(T \ {p}) \ {x}]
        BY <3>1, <3>3
      <4>2. sums[T \ {x}] = size[p] + sums[(T \ {x}) \ {p}]
        BY <3>1, <3>3
      <4>3. (T \ {p}) \ {x} = (T \ {x}) \ {p} /\ (T \ {p}) \ {x} \in F
        BY <1>3, <3>1
      <4>4. PICK rest \in Nat : rest = sums[(T \ {p}) \ {x}]
        BY <4>3
      <4>5. size[x] \in Nat /\ size[p] \in Nat
        BY <3>1
      <4>6. sums[T] = size[p] + (size[x] + rest)
        BY <3>1, <4>1, <4>4
      <4>7. sums[T \ {x}] = size[p] + rest
        BY <4>2, <4>3, <4>4
      <4> HIDE DEF p
      <4> QED
        BY <4>5, <4>6, <4>7
    <3> QED
      BY <3>2, <3>3
  <2> QED
    BY <2>1, <2>2
<1>4. SUBSET S \subseteq F
  <2> HIDE DEF F
  <2> QED
    BY <1>3, SubsetInduction
<1> QED
  BY <1>0, <1>1, <1>4

LEMMA TotalTakes ==
    ASSUME NEW S, IsFiniteSet(S), NEW size, \A x \in S : size[x] \in Nat, NEW k \in S
    PROVE  Total(size, S) = size[k] + Total(size, S \ {k})
<1>1. S \in SUBSET S
  OBVIOUS
<1> QED
  BY <1>1, TotalStep

LEMMA TotalMonotone ==
    ASSUME NEW S, IsFiniteSet(S), NEW f, NEW g,
           \A x \in S : f[x] \in Nat /\ g[x] \in Nat /\ f[x] <= g[x]
    PROVE  Total(f, S) <= Total(g, S)
<1> DEFINE F == {T \in SUBSET S : Total(f, T) <= Total(g, T)}
<1>1. ASSUME NEW T \in SUBSET S, \A U \in SUBSET T : U # T => U \in F PROVE T \in F
  <2>1. CASE T = {}
    BY <2>1, TotalStep
  <2>2. ASSUME NEW x \in T PROVE T \in F
    <3>1. /\ Total(f, T) = f[x] + Total(f, T \ {x}) /\ Total(f, T \ {x}) \in Nat
          /\ Total(g, T) = g[x] + Total(g, T \ {x}) /\ Total(g, T \ {x}) \in Nat
      BY TotalStep
    <3>2. Total(f, T \ {x}) <= Total(g, T \ {x})
      BY <1>1
    <3>3. f[x] \in Nat /\ g[x] \in Nat /\ f[x] <= g[x]
      OBVIOUS
    <3> QED
      BY <3>1, <3>2, <3>3
  <2> QED
    BY <2>1, <2>2
<1>2. SUBSET S \subseteq F
  <2> HIDE DEF F
  <2> QED
    BY <1>1, SubsetInduction
<1> QED
  BY <1>2

\* Total depends on the values on the set only.
LEMMA TotalSame ==
    ASSUME NEW S, IsFiniteSet(S), NEW f, NEW g, \A x \in S : f[x] \in Nat /\ f[x] = g[x]
    PROVE  Total(f, S) = Total(g, S)
<1>1. Total(f, S) <= Total(g, S) /\ Total(g, S) <= Total(f, S)
  BY TotalMonotone
<1>2. Total(f, S) \in Nat /\ Total(g, S) \in Nat
  BY TotalStep
<1> QED
  BY <1>1, <1>2

\* The sum over a set is the sum over two parts of it.
LEMMA TotalSplit ==
    ASSUME NEW S, IsFiniteSet(S), NEW f, \A x \in S : f[x] \in Nat, NEW T \in SUBSET S
    PROVE  Total(f, S) = Total(f, T) + Total(f, S \ T)
<1> DEFINE F == {U \in SUBSET T : Total(f, S) = Total(f, U) + Total(f, S \ U)}
<1>0. IsFiniteSet(T)
  BY FS_Subset
<1>1. ASSUME NEW U \in SUBSET T, \A V \in SUBSET U : V # U => V \in F PROVE U \in F
  <2>1. CASE U = {}
    <3>1. S \ {} = S
      OBVIOUS
    <3> QED
      BY <2>1, <3>1, TotalStep
  <2>2. ASSUME NEW x \in U PROVE U \in F
    <3>1. (S \ (U \ {x})) \ {x} = S \ U /\ x \in S \ (U \ {x})
      OBVIOUS
    <3>2. Total(f, U) = f[x] + Total(f, U \ {x}) /\ Total(f, U \ {x}) \in Nat
      BY TotalStep
    <3>3. Total(f, S \ (U \ {x})) = f[x] + Total(f, S \ U) /\ Total(f, S \ U) \in Nat
      BY <3>1, TotalStep
    <3>4. Total(f, S) = Total(f, U \ {x}) + Total(f, S \ (U \ {x}))
      BY <1>1
    <3>5. f[x] \in Nat
      OBVIOUS
    <3> QED
      BY <3>2, <3>3, <3>4, <3>5
  <2> QED
    BY <2>1, <2>2
<1>2. SUBSET T \subseteq F
  <2> HIDE DEF F
  <2> QED
    BY <1>0, <1>1, SubsetInduction
<1> QED
  BY <1>2

-----------------------------------------------------------------------------
(* The inductive invariant.                                                 *)

\* What the inputs from the k-th on still weigh: one that has been removed will
\* not be read, and its id is never given out again.
Remaining(ids, k, all) ==
    Total([i \in 1..Len(ids) |-> IF ids[i] \in DOMAIN all THEN all[ids[i]].size ELSE 0],
          k..Len(ids))

\* An execution has room for all it may still read.
ExecutionOK(req, all) ==
    /\ req.phase = "find" =>
           /\ req.loaded < Len(req.ids)
           /\ req.bytes + Remaining(req.ids, req.loaded + 1, all) <= MaxUploadBytes
    /\ req.phase = "read" =>
           /\ req.loaded < Len(req.ids)
           /\ req.bytes + Remaining(req.ids, req.loaded + 2, all) <= MaxUploadBytes
    /\ req.phase = "run" => req.bytes <= MaxUploadBytes
    /\ req.phase = "check" => req.loaded = 0 /\ req.bytes = 0

\* The requests that can be in progress with `all` on record and n ids issued.
RequestOK(req, all, n) ==
    \/ req = Idle
    \/ /\ req \in [op : {"upload"}, files : Seq(Nat), done : Nat, phase : {"receive", "store"}]
       /\ req.done <= Len(req.files)
       /\ req.phase = "store" => req.done < Len(req.files)
    \/ req \in [op : {"get"}, id : Nat, phase : {"find", "open"}]
    \/ req \in [op : {"head", "delete"}, id : Nat]
    \/ req \in [op : {"execute"}, phase : {"store"}, size : Nat]
    \/ /\ req \in [op : {"execute"}, ids : Seq(Nat), loaded : Nat, bytes : Nat,
                    phase : {"check", "find", "read", "run"}]
       /\ \A i \in 1..Len(req.ids) : req.ids[i] <= n
       /\ ExecutionOK(req, all)

RequestInv ==
    /\ DOMAIN request = Clients
    /\ \A c \in Clients : RequestOK(request[c], artifacts, issued)

StoreInv ==
    /\ Stored \subseteq 1..issued
    /\ \A id \in Stored :
           artifacts[id] \in [size : Nat, seq : 0..(seq - 1), age : 0..(ArtifactTtl + 1)]
    /\ \A x, y \in Stored : artifacts[x].seq = artifacts[y].seq => x = y
    /\ {total_bytes, seq, issued} \subseteq Nat
    /\ AccountedWithinCaps
    /\ FilesMatchRecords

RestInv ==
    /\ {accepted, crashes} \subseteq Nat
    /\ left \subseteq 1..issued
    /\ reply \in [Clients -> Replies]

Inv == StoreInv /\ RequestInv /\ RestInv

-----------------------------------------------------------------------------
(* What a step of the store means for the requests in progress.             *)

\* Nothing a request knows of comes back or changes its size.
NothingReturns ==
    /\ issued \in Nat /\ issued' \in Nat /\ issued <= issued'
    /\ \A id \in DOMAIN artifacts' :
           id <= issued => id \in Stored /\ artifacts'[id].size = artifacts[id].size

\* What remains is a number, summed over a finite set of positions.
LEMMA RemainingType ==
    ASSUME NEW ids \in Seq(Nat), NEW all, \A id \in DOMAIN all : all[id].size \in Nat,
           NEW k \in Nat \ {0}
    PROVE  /\ Remaining(ids, k, all) \in Nat
           /\ IsFiniteSet(k..Len(ids))
           /\ \A i \in k..Len(ids) :
                  i \in 1..Len(ids) /\ (IF ids[i] \in DOMAIN all THEN all[ids[i]].size ELSE 0) \in Nat
<1>1. IsFiniteSet(k..Len(ids))
  <2>1. k \in Int /\ Len(ids) \in Int
    OBVIOUS
  <2> QED
    BY <2>1, FS_Interval
<1>2. \A i \in k..Len(ids) :
         i \in 1..Len(ids) /\ (IF ids[i] \in DOMAIN all THEN all[ids[i]].size ELSE 0) \in Nat
  OBVIOUS
<1> DEFINE f == [i \in 1..Len(ids) |-> IF ids[i] \in DOMAIN all THEN all[ids[i]].size ELSE 0]
<1>3. \A i \in k..Len(ids) : f[i] \in Nat
  BY <1>2
<1>4. Total(f, k..Len(ids)) \in Nat
  <2> HIDE DEF f
  <2> QED
    BY <1>1, <1>3, TotalStep
<1> QED
  BY <1>1, <1>2, <1>4 DEF Remaining

\* It never grows while artifacts come and go.
LEMMA RemainingShrinks ==
    ASSUME NEW ids \in Seq(Nat), NEW all, NEW after, NEW k \in Nat \ {0},
           \A id \in DOMAIN all : all[id].size \in Nat,
           \A i \in 1..Len(ids) :
               ids[i] \in DOMAIN after => ids[i] \in DOMAIN all /\ after[ids[i]].size = all[ids[i]].size
    PROVE  /\ Remaining(ids, k, after) \in Nat
           /\ Remaining(ids, k, after) <= Remaining(ids, k, all)
<1> DEFINE f == [i \in 1..Len(ids) |-> IF ids[i] \in DOMAIN all THEN all[ids[i]].size ELSE 0]
           g == [i \in 1..Len(ids) |-> IF ids[i] \in DOMAIN after THEN after[ids[i]].size ELSE 0]
<1>1. IsFiniteSet(k..Len(ids))
  <2>1. k \in Int /\ Len(ids) \in Int
    OBVIOUS
  <2> QED
    BY <2>1, FS_Interval
<1>2. \A i \in k..Len(ids) : f[i] \in Nat /\ g[i] \in Nat /\ g[i] <= f[i]
  OBVIOUS
<1>3. Total(g, k..Len(ids)) <= Total(f, k..Len(ids)) /\ Total(g, k..Len(ids)) \in Nat
  <2> HIDE DEF f, g
  <2> QED
    BY <1>1, <1>2, TotalMonotone, TotalStep
<1> QED
  BY <1>3 DEF Remaining

\* Reading the k-th input moves its size from what remains to what is held.
LEMMA RemainingStep ==
    ASSUME NEW ids \in Seq(Nat), NEW all, NEW k \in 1..Len(ids),
           \A id \in DOMAIN all : all[id].size \in Nat, ids[k] \in DOMAIN all
    PROVE  Remaining(ids, k, all) = all[ids[k]].size + Remaining(ids, k + 1, all)
<1> DEFINE f == [i \in 1..Len(ids) |-> IF ids[i] \in DOMAIN all THEN all[ids[i]].size ELSE 0]
<1> DEFINE S == k..Len(ids)
<1>0. k \in Int /\ Len(ids) \in Int /\ k <= Len(ids)
  OBVIOUS
<1>1. IsFiniteSet(S) /\ k \in S
  BY <1>0, FS_Interval
<1>4. S \ {k} = (k + 1)..Len(ids)
  BY <1>0
<1>2. \A i \in k..Len(ids) : f[i] \in Nat
  OBVIOUS
<1>3. Total(f, k..Len(ids)) = f[k] + Total(f, (k + 1)..Len(ids))
  <2>1. \A i \in S : f[i] \in Nat
    BY <1>2
  <2>2. Total(f, S) = f[k] + Total(f, S \ {k})
    <3> HIDE DEF f, S
    <3> QED
      BY <1>1, <2>1, TotalTakes
  <2> QED
    BY <1>4, <2>2
<1> QED
  BY <1>3 DEF Remaining

\* A request in progress stays valid whatever others do to the store.
LEMMA RequestKept ==
    ASSUME ServiceAssumption, StoreInv, NothingReturns, NEW req, RequestOK(req, artifacts, issued)
    PROVE  RequestOK(req, artifacts', issued')
<1>1. CASE ~ (req.op = "execute" /\ req.phase \in {"check", "find", "read", "run"})
  BY <1>1 DEF RequestOK, Idle
<1>2. CASE req.op = "execute" /\ req.phase \in {"check", "find", "read", "run"}
  <2>1. /\ req \in [op : {"execute"}, ids : Seq(Nat), loaded : Nat, bytes : Nat,
                     phase : {"check", "find", "read", "run"}]
        /\ \A i \in 1..Len(req.ids) : req.ids[i] <= issued
        /\ ExecutionOK(req, artifacts)
    BY <1>2 DEF RequestOK, Idle
  <2>2. \A i \in 1..Len(req.ids) : req.ids[i] <= issued'
    BY <2>1, SMTT(30) DEF NothingReturns
  <2>3. \A id \in Stored : artifacts[id].size \in Nat
    BY DEF StoreInv
  <2>4. \A i \in 1..Len(req.ids) : req.ids[i] \in DOMAIN artifacts' =>
            req.ids[i] \in Stored /\ artifacts'[req.ids[i]].size = artifacts[req.ids[i]].size
    BY <2>1 DEF NothingReturns
  <2>5. ASSUME NEW k \in Nat \ {0}
        PROVE  /\ Remaining(req.ids, k, artifacts) \in Nat
               /\ Remaining(req.ids, k, artifacts') \in Nat
               /\ Remaining(req.ids, k, artifacts') <= Remaining(req.ids, k, artifacts)
    BY <2>1, <2>3, <2>4, RemainingShrinks, RemainingType, Zenon DEF Stored
  <2>6. ExecutionOK(req, artifacts')
    <3>1. req.loaded + 1 \in Nat \ {0} /\ req.loaded + 2 \in Nat \ {0} /\ req.bytes \in Nat
      BY <2>1, SMTT(30)
    <3>2. MaxUploadBytes \in Nat
      BY DEF ServiceAssumption
    <3>3. ASSUME NEW k \in Nat \ {0},
                 req.bytes + Remaining(req.ids, k, artifacts) <= MaxUploadBytes
          PROVE  req.bytes + Remaining(req.ids, k, artifacts') <= MaxUploadBytes
      BY <2>5, <3>1, <3>2, <3>3, SMTT(30)
    <3> QED
      BY <2>1, <3>1, <3>3 DEF ExecutionOK
  <2> QED
    BY <2>1, <2>2, <2>6 DEF RequestOK
<1> QED
  BY <1>1, <1>2

\* A step in which client c's request alone changes.
LEMMA RequestsKept ==
    ASSUME ServiceAssumption, StoreInv, RequestInv, NothingReturns, NEW c \in Clients, NEW req,
           request' = [request EXCEPT ![c] = req], RequestOK(req, artifacts', issued')
    PROVE  RequestInv'
<1>1. ASSUME NEW d \in Clients PROVE RequestOK(request'[d], artifacts', issued')
  <2>1. CASE d = c
    BY <2>1 DEF RequestInv
  <2>2. CASE d # c
    <3>1. request'[d] = request[d] /\ RequestOK(request[d], artifacts, issued)
      BY <2>2 DEF RequestInv
    <3> QED
      BY <3>1, RequestKept
  <2> QED
    BY <2>1, <2>2
<1> QED
  BY <1>1 DEF RequestInv

-----------------------------------------------------------------------------
(* The operations of the store.                                             *)

\* What is left weighs what was there less what has gone.
LEMMA LeftOver ==
    ASSUME NEW all, IsFiniteSet(DOMAIN all), \A id \in DOMAIN all : all[id].size \in Nat,
           NEW kept, kept \subseteq DOMAIN all, NEW after,
           DOMAIN after = kept, \A id \in kept : after[id].size = all[id].size
    PROVE  /\ Total(Sizes(after), kept) \in Nat
           /\ Total(Sizes(all), DOMAIN all \ kept) \in Nat
           /\ Total(Sizes(all), DOMAIN all)
                  = Total(Sizes(after), kept) + Total(Sizes(all), DOMAIN all \ kept)
<1> DEFINE f == Sizes(all)
           g == Sizes(after)
           gone == DOMAIN all \ kept
<1>1. IsFiniteSet(kept) /\ IsFiniteSet(gone)
  BY FS_Subset
<1>2. \A id \in DOMAIN all : f[id] \in Nat
  BY DEF Sizes
<1>3. \A id \in kept : g[id] \in Nat /\ g[id] = f[id]
  BY DEF Sizes
<1> HIDE DEF f, g
<1>4. Total(g, kept) = Total(f, kept)
  BY <1>1, <1>3, TotalSame
<1>5. Total(f, DOMAIN all) = Total(f, kept) + Total(f, gone)
  BY <1>2, TotalSplit
<1>6. Total(g, kept) \in Nat
  BY <1>1, <1>3, TotalStep
<1>7. \A id \in gone : f[id] \in Nat
  BY <1>2
<1>8. Total(f, gone) \in Nat
  <2> HIDE DEF gone
  <2> QED
    BY <1>1, <1>7, TotalStep
<1> QED
  BY <1>4, <1>5, <1>6, <1>8 DEF f, g

LEMMA StoredFacts ==
    ASSUME StoreInv
    PROVE  /\ IsFiniteSet(Stored) /\ Stored \subseteq Nat
           /\ \A id \in Stored : artifacts[id].size \in Nat
           /\ total_bytes \in Nat /\ issued \in Nat /\ seq \in Nat
<1>1. issued \in Nat /\ IsFiniteSet(1..issued)
  <2>1. issued \in Int /\ 1 \in Int
    BY DEF StoreInv
  <2> QED
    BY <2>1, FS_Interval DEF StoreInv
<1>2. Stored \in SUBSET (1..issued)
  BY DEF StoreInv
<1>3. IsFiniteSet(Stored)
  BY <1>1, <1>2, FS_Subset
<1> QED
  BY <1>1, <1>2, <1>3 DEF StoreInv

LEMMA StoreUnchanged ==
    ASSUME StoreInv, UNCHANGED store
    PROVE  StoreInv' /\ NothingReturns
BY DEF store, StoreInv, Stored, AccountedWithinCaps, SizeSum, FilesMatchRecords, NothingReturns

\* Ages and last accesses do not matter to the accounting.
LEMMA StoreAged ==
    ASSUME StoreInv, UNCHANGED <<total_bytes, seq, issued, disk>>, DOMAIN artifacts' = Stored,
           \A id \in Stored :
               /\ artifacts'[id] \in [size : Nat, seq : 0..(seq - 1), age : 0..(ArtifactTtl + 1)]
               /\ artifacts'[id].size = artifacts[id].size
               /\ artifacts'[id].seq = artifacts[id].seq
    PROVE  StoreInv' /\ NothingReturns
<1>1. Stored' = Stored
  BY DEF Stored
<1>2. SizeSum(Stored)' = SizeSum(Stored)
  <2> DEFINE f == Sizes(artifacts)
             g == Sizes(artifacts')
  <2>1. \A id \in Stored : g[id] \in Nat /\ g[id] = f[id]
    BY <1>1, StoredFacts DEF Sizes, Stored
  <2>2. Total(g, Stored) = Total(f, Stored)
    <3> HIDE DEF f, g
    <3> QED
      BY <2>1, StoredFacts, TotalSame
  <2> QED
    BY <1>1, <2>2 DEF SizeSum
<1>3. AccountedWithinCaps' /\ FilesMatchRecords'
  BY <1>1, <1>2 DEF StoreInv, AccountedWithinCaps, FilesMatchRecords
<1>4. NothingReturns
  BY StoredFacts DEF NothingReturns
<1> QED
  BY <1>1, <1>3, <1>4 DEF StoreInv

LEMMA TouchKeeps ==
    ASSUME ServiceAssumption, StoreInv, NEW id \in Stored, Touch(id)
    PROVE  StoreInv' /\ NothingReturns
<1>1. DOMAIN artifacts' = Stored
  BY DEF Touch, Stored
<1>2. ASSUME NEW i \in Stored
      PROVE  /\ artifacts'[i] \in [size : Nat, seq : 0..(seq - 1), age : 0..(ArtifactTtl + 1)]
             /\ artifacts'[i].size = artifacts[i].size
             /\ artifacts'[i].seq = artifacts[i].seq
  <2>1. artifacts[i] \in [size : Nat, seq : 0..(seq - 1), age : 0..(ArtifactTtl + 1)]
    BY DEF StoreInv
  <2>2. artifacts'[i] = IF i = id THEN [artifacts[i] EXCEPT !.age = 0] ELSE artifacts[i]
    BY DEF Touch, Stored
  <2>3. 0 \in 0..(ArtifactTtl + 1)
    BY DEF ServiceAssumption
  <2> QED
    BY <2>1, <2>2, <2>3
<1> QED
  BY <1>1, <1>2, StoreAged DEF Touch

\* DELETE, and the sweeper's batch.
LEMMA RemoveKeeps ==
    ASSUME ServiceAssumption, StoreInv, NEW S, S \subseteq Stored, Remove(S)
    PROVE  StoreInv' /\ NothingReturns
<1> DEFINE kept == Stored \ S
<1>1. artifacts' = [id \in kept |-> artifacts[id]] /\ Stored' = kept
  BY DEF Remove, Keep, Stored
<1>2. \A id \in kept : artifacts'[id] = artifacts[id]
  BY <1>1
<1>3. /\ SizeSum(Stored)' \in Nat /\ SizeSum(S) \in Nat
      /\ SizeSum(Stored) = SizeSum(Stored)' + SizeSum(S)
  <2>1. S = DOMAIN artifacts \ kept /\ kept \subseteq DOMAIN artifacts
        /\ DOMAIN artifacts' = kept /\ \A id \in kept : artifacts'[id].size = artifacts[id].size
    BY <1>1, <1>2 DEF Stored
  <2>2. IsFiniteSet(DOMAIN artifacts) /\ \A id \in DOMAIN artifacts : artifacts[id].size \in Nat
    BY StoredFacts DEF Stored
  <2> HIDE DEF kept
  <2>3. /\ Total(Sizes(artifacts'), kept) \in Nat
        /\ Total(Sizes(artifacts), DOMAIN artifacts \ kept) \in Nat
        /\ Total(Sizes(artifacts), DOMAIN artifacts)
               = Total(Sizes(artifacts'), kept) + Total(Sizes(artifacts), DOMAIN artifacts \ kept)
    BY <2>1, <2>2, LeftOver
  <2> QED
    BY <1>1, <2>1, <2>3 DEF SizeSum, Stored
<1>4. total_bytes' = SizeSum(Stored)' /\ total_bytes' <= MaxTotalBytes
  <2>1. total_bytes = SizeSum(Stored) /\ total_bytes <= MaxTotalBytes /\ total_bytes \in Nat
        /\ MaxTotalBytes \in Nat
    BY DEF StoreInv, AccountedWithinCaps, ServiceAssumption
  <2> QED
    BY <1>3, <2>1 DEF Remove, Saturated
<1>5. Cardinality(Stored') <= MaxArtifacts
  <2>1. /\ IsFiniteSet(Stored) /\ kept \in SUBSET Stored
        /\ Cardinality(Stored) <= MaxArtifacts /\ MaxArtifacts \in Nat
    BY StoredFacts DEF StoreInv, AccountedWithinCaps, ServiceAssumption
  <2>2. Cardinality(kept) <= Cardinality(Stored) /\ Cardinality(Stored) \in Nat
        /\ Cardinality(kept) \in Nat
    BY <2>1, FS_Subset, FS_CardinalityType
  <2> QED
    BY <1>1, <2>1, <2>2
<1>6. AccountedWithinCaps' /\ FilesMatchRecords'
  BY <1>1, <1>4, <1>5 DEF StoreInv, AccountedWithinCaps, FilesMatchRecords, Remove
<1>7. NothingReturns
  BY <1>1, <1>2, StoredFacts DEF NothingReturns, Remove, Stored
<1>8. total_bytes' \in Nat
  BY <1>3, <1>4
<1> QED
  BY <1>1, <1>2, <1>6, <1>7, <1>8 DEF StoreInv, Remove, Stored

LEMMA TickKeeps ==
    ASSUME ServiceAssumption, StoreInv, Tick
    PROVE  StoreInv' /\ NothingReturns
<1>1. DOMAIN artifacts' = Stored
  BY DEF Tick, Stored
<1>2. ASSUME NEW i \in Stored
      PROVE  /\ artifacts'[i] \in [size : Nat, seq : 0..(seq - 1), age : 0..(ArtifactTtl + 1)]
             /\ artifacts'[i].size = artifacts[i].size
             /\ artifacts'[i].seq = artifacts[i].seq
  <2>1. artifacts[i] \in [size : Nat, seq : 0..(seq - 1), age : 0..(ArtifactTtl + 1)]
    BY DEF StoreInv
  <2>2. artifacts'[i] = IF artifacts[i].age > ArtifactTtl THEN artifacts[i]
                        ELSE [artifacts[i] EXCEPT !.age = @ + 1]
    BY DEF Tick, Stored
  <2>3. ArtifactTtl \in Nat
    BY DEF ServiceAssumption
  <2>4. CASE artifacts[i].age > ArtifactTtl
    BY <2>1, <2>2, <2>4
  <2>5. CASE ~ (artifacts[i].age > ArtifactTtl)
    <3>1. artifacts'[i] = [artifacts[i] EXCEPT !.age = artifacts[i].age + 1]
      BY <2>2, <2>5
    <3>2. artifacts[i].age + 1 \in 0..(ArtifactTtl + 1)
      BY <2>1, <2>3, <2>5, SMTT(30)
    <3> QED
      BY <2>1, <3>1, <3>2
  <2> QED
    BY <2>4, <2>5
<1> QED
  BY <1>1, <1>2, StoreAged DEF Tick

LEMMA CrashKeeps ==
    ASSUME ServiceAssumption, StoreInv, Crash
    PROVE  StoreInv'
<1>1. Stored' = {} /\ IsFiniteSet({})
  BY FS_EmptySet DEF Crash, Stored
<1>2. SizeSum(Stored)' = 0
  BY <1>1, TotalStep DEF SizeSum
<1>3. Cardinality({}) = 0
  BY FS_EmptySet
<1> QED
  BY <1>1, <1>2, <1>3
     DEF StoreInv, AccountedWithinCaps, FilesMatchRecords, Crash, ServiceAssumption

-----------------------------------------------------------------------------
(* Store::insert.                                                           *)

LEMMA LeastNumber ==
    ASSUME NEW T \in SUBSET Nat, T # {}
    PROVE  \E n \in T : \A m \in T : n <= m
<1>1. IsWellFoundedOn(OpToRel(<, Nat), Nat)
  BY NatLessThanWellFounded
<1>2. \E n \in T : \A m \in T : ~ (<<m, n>> \in OpToRel(<, Nat))
  BY <1>1, WFMin
<1>3. PICK n \in T : \A m \in T : ~ (m < n)
  BY <1>2 DEF OpToRel
<1> QED
  BY <1>3

\* What is left when everything before sequence number n has gone.
Since(all, n) == {id \in DOMAIN all : all[id].seq >= n}

\* The loop stops, and at the first set that fits.
LEMMA SurvivorsFit ==
    ASSUME ServiceAssumption, seq \in Nat, NEW all, IsFiniteSet(DOMAIN all),
           \A id \in DOMAIN all : all[id].size \in Nat /\ all[id].seq \in 0..seq,
           NEW bytes, bytes = Total(Sizes(all), DOMAIN all)
    PROVE  \E n \in 0..(seq + 1) :
               /\ Survivors(all, bytes) = Since(all, n)
               /\ Fits(all, bytes, Since(all, n))
               /\ \A m \in 0..(seq + 1) : m < n => ~ Fits(all, bytes, Since(all, m))
<1> DEFINE Stops == EvictionStops(all)
           Ok(S) == Fits(all, bytes, S)
           N == {n \in 0..(seq + 1) : Ok(Since(all, n))}
<1>1. Stops = {Since(all, n) : n \in 0..(seq + 1)}
  BY DEF EvictionStops, Since
<1>2. Since(all, seq + 1) = {}
  BY DEF Since
<1>3. Ok({})
  <2>1. \A id \in DOMAIN all : Sizes(all)[id] \in Nat
    BY DEF Sizes
  <2>2. bytes \in Nat
    BY <2>1, TotalStep
  <2>3. DOMAIN all \ {} = DOMAIN all
    OBVIOUS
  <2>4. BytesLeft(all, bytes, {}) = 0
    BY <2>2, <2>3 DEF BytesLeft, Saturated
  <2> QED
    BY <2>4, FS_EmptySet DEF Fits, ServiceAssumption
<1>4. seq + 1 \in N
  <2>1. seq + 1 \in 0..(seq + 1)
    OBVIOUS
  <2> HIDE DEF Ok
  <2> QED
    BY <1>2, <1>3, <2>1
<1>5. PICK n \in N : \A m \in N : n <= m
  <2>1. N \in SUBSET Nat /\ N # {}
    BY <1>4
  <2> HIDE DEF N
  <2> QED
    BY <2>1, LeastNumber
<1>6. \A m \in 0..(seq + 1) : Ok(Since(all, m)) => Since(all, m) \subseteq Since(all, n)
  <2> SUFFICES ASSUME NEW m \in 0..(seq + 1), Ok(Since(all, m))
               PROVE  Since(all, m) \subseteq Since(all, n)
    OBVIOUS
  <2>1. n \in Nat /\ m \in Nat /\ n <= m
    BY <1>5
  <2> QED
    BY <2>1 DEF Since
<1>7. Since(all, n) \in Stops /\ Ok(Since(all, n))
      /\ \A T \in Stops : Ok(T) => T \subseteq Since(all, n)
  <2> HIDE DEF Ok, Stops
  <2> QED
    BY <1>1, <1>5, <1>6
<1> DEFINE kept == Survivors(all, bytes)
<1>8. /\ kept \in Stops
      /\ \/ kept = {} /\ \A T \in Stops : ~ Ok(T)
         \/ Ok(kept) /\ \A T \in Stops : Ok(T) => T \subseteq kept
  BY <1>7 DEF Survivors
<1>9. kept = Since(all, n)
  <2> HIDE DEF Ok, Stops, kept
  <2> QED
    BY <1>7, <1>8
<1>10. ASSUME NEW m \in 0..(seq + 1), m < n PROVE ~ Ok(Since(all, m))
  <2>1. n \in Nat /\ m \in Nat
    BY <1>5
  <2> HIDE DEF Ok
  <2> QED
    BY <1>5, <1>10, <2>1
<1> QED
  BY <1>5, <1>9, <1>10

\* The store with a new artifact in it, before the eviction.
Added(size) ==
    [i \in Stored \cup {issued + 1} |-> IF i = issued + 1 THEN Fresh(size) ELSE artifacts[i]]

\* Before the eviction: the newest sequence number is the new artifact's alone,
\* and the bytes are those before plus its own.
LEMMA AddedFacts ==
    ASSUME ServiceAssumption, StoreInv, NEW size \in Nat, NEW all, all = Added(size)
    PROVE  /\ DOMAIN all = Stored \cup {issued + 1} /\ IsFiniteSet(DOMAIN all)
           /\ issued + 1 \notin Stored
           /\ \A id \in DOMAIN all :
                  all[id] \in [size : Nat, seq : 0..seq, age : 0..(ArtifactTtl + 1)]
           /\ \A id \in Stored : all[id] = artifacts[id] /\ all[id].seq < seq
           /\ all[issued + 1] = Fresh(size) /\ all[issued + 1].seq = seq
           /\ \A x, y \in DOMAIN all : all[x].seq = all[y].seq => x = y
           /\ Total(Sizes(all), DOMAIN all) = total_bytes + size
<1> DEFINE new == issued + 1
<1>1. DOMAIN all = Stored \cup {new} /\ IsFiniteSet(DOMAIN all)
  BY StoredFacts, FS_AddElement DEF Added
<1>2. new \notin Stored
  BY StoredFacts DEF StoreInv
<1>3. all[new] = Fresh(size) /\ all[new].seq = seq /\ \A id \in Stored : all[id] = artifacts[id]
  BY <1>2 DEF Added, Fresh
<1>4. \A id \in Stored :
          artifacts[id] \in [size : Nat, seq : 0..(seq - 1), age : 0..(ArtifactTtl + 1)]
  BY DEF StoreInv
<1>5. seq \in Nat /\ ArtifactTtl \in Nat
  BY DEF StoreInv, ServiceAssumption
<1>6. \A id \in Stored : all[id].seq < seq
  BY <1>3, <1>4, <1>5, SMTT(30)
<1>7. ASSUME NEW id \in DOMAIN all
      PROVE  all[id] \in [size : Nat, seq : 0..seq, age : 0..(ArtifactTtl + 1)]
  <2>1. CASE id = new
    BY <1>3, <1>5, <2>1 DEF Fresh
  <2>2. CASE id \in Stored
    BY <1>3, <1>4, <1>5, <2>2
  <2> QED
    BY <1>1, <2>1, <2>2
<1>8. ASSUME NEW x \in DOMAIN all, NEW y \in DOMAIN all, all[x].seq = all[y].seq PROVE x = y
  <2>1. CASE x = new \/ y = new
    <3>1. \A id \in Stored : all[id].seq # seq
      BY <1>4, <1>5, <1>6
    <3> QED
      BY <1>1, <1>3, <1>8, <2>1, <3>1
  <2>2. CASE x \in Stored /\ y \in Stored
    BY <1>3, <1>8, <2>2 DEF StoreInv
  <2> QED
    BY <1>1, <2>1, <2>2
<1>9. Total(Sizes(all), DOMAIN all) = total_bytes + size
  <2> DEFINE S == DOMAIN all
             f == Sizes(all)
             g == Sizes(artifacts)
  <2>1. new \in S /\ S \ {new} = Stored
    BY <1>1, <1>2
  <2>2. \A id \in S : f[id] \in Nat
    BY <1>7 DEF Sizes
  <2>3. f[new] = size
    BY <1>3, <2>1 DEF Sizes, Fresh
  <2>4. \A id \in Stored : f[id] \in Nat /\ f[id] = g[id]
    BY <1>1, <1>3, <1>4 DEF Sizes, Stored
  <2>5. Total(g, Stored) = total_bytes /\ total_bytes \in Nat
    BY DEF StoreInv, AccountedWithinCaps, SizeSum
  <2> HIDE DEF S, f, g
  <2>6. IsFiniteSet(S) /\ IsFiniteSet(Stored)
    BY <1>1, StoredFacts DEF S
  <2>7. Total(f, S) = f[new] + Total(f, S \ {new})
    BY <2>1, <2>2, <2>6, TotalTakes
  <2>8. Total(f, Stored) = Total(g, Stored)
    BY <2>4, <2>6, TotalSame
  <2>9. Total(f, S) = total_bytes + size
    <3>1. Total(f, S) = size + total_bytes
      BY <2>1, <2>3, <2>5, <2>7, <2>8
    <3> QED
      BY <2>5, <3>1
  <2> QED
    BY <2>9 DEF S, f
<1> QED
  BY <1>1, <1>2, <1>3, <1>6, <1>7, <1>8, <1>9

\* What StoreFile leaves: everything since some sequence number, which is the
\* first that fits.
LEMMA StoreFileLeaves ==
    ASSUME ServiceAssumption, StoreInv, NEW size \in Nat, StoreFile(size),
           NEW all, all = Added(size)
    PROVE  \E n \in 0..(seq + 1) :
               /\ artifacts' = [id \in Since(all, n) |-> all[id]]
               /\ total_bytes' = BytesLeft(all, total_bytes + size, Since(all, n))
               /\ disk' = (disk \cup {issued + 1}) \ (DOMAIN all \ Since(all, n))
               /\ Fits(all, total_bytes + size, Since(all, n))
               /\ \A m \in 0..(seq + 1) :
                      m < n => ~ Fits(all, total_bytes + size, Since(all, m))
<1> DEFINE bytes == total_bytes + size
<1>1. /\ seq \in Nat /\ IsFiniteSet(DOMAIN all) /\ bytes = Total(Sizes(all), DOMAIN all)
      /\ \A id \in DOMAIN all : all[id].size \in Nat /\ all[id].seq \in 0..seq
  <2>1. \A id \in DOMAIN all :
            all[id] \in [size : Nat, seq : 0..seq, age : 0..(ArtifactTtl + 1)]
    BY AddedFacts
  <2> QED
    BY <2>1, AddedFacts, StoredFacts
<1>2. PICK n \in 0..(seq + 1) :
          /\ Survivors(all, bytes) = Since(all, n)
          /\ Fits(all, bytes, Since(all, n))
          /\ \A m \in 0..(seq + 1) : m < n => ~ Fits(all, bytes, Since(all, m))
  <2> HIDE DEF bytes
  <2> QED
    BY <1>1, SurvivorsFit
<1>3. /\ artifacts' = [id \in Survivors(all, bytes) |-> all[id]]
      /\ total_bytes' = BytesLeft(all, bytes, Survivors(all, bytes))
      /\ disk' = (disk \cup {issued + 1}) \ (DOMAIN all \ Survivors(all, bytes))
  BY DEF StoreFile, Insert, Added
<1> QED
  BY <1>2, <1>3

\* Store::insert leaves the store within its caps, its files those on record.
LEMMA StoreFileKeeps ==
    ASSUME ServiceAssumption, StoreInv, NEW size \in Nat, StoreFile(size)
    PROVE  StoreInv' /\ NothingReturns
<1> DEFINE new == issued + 1
<1>all. PICK all : all = Added(size)
  OBVIOUS
<1>n. PICK n \in 0..(seq + 1) :
          /\ artifacts' = [id \in Since(all, n) |-> all[id]]
          /\ total_bytes' = BytesLeft(all, total_bytes + size, Since(all, n))
          /\ disk' = (disk \cup {new}) \ (DOMAIN all \ Since(all, n))
          /\ Fits(all, total_bytes + size, Since(all, n))
  BY <1>all, StoreFileLeaves
<1>kept. PICK kept : kept = Since(all, n)
  OBVIOUS
<1>1. /\ kept \subseteq DOMAIN all /\ DOMAIN artifacts' = kept /\ Stored' = kept
      /\ \A id \in kept : artifacts'[id] = all[id]
  BY <1>n, <1>kept DEF Since, Stored
<1>2. /\ DOMAIN all = Stored \cup {new} /\ IsFiniteSet(DOMAIN all) /\ new \notin Stored
      /\ Total(Sizes(all), DOMAIN all) = total_bytes + size
  BY <1>all, AddedFacts
<1>3. \A id \in DOMAIN all : all[id] \in [size : Nat, seq : 0..seq, age : 0..(ArtifactTtl + 1)]
  BY <1>all, AddedFacts
<1>4. /\ Total(Sizes(artifacts'), kept) \in Nat
      /\ Total(Sizes(all), DOMAIN all \ kept) \in Nat
      /\ Total(Sizes(all), DOMAIN all)
             = Total(Sizes(artifacts'), kept) + Total(Sizes(all), DOMAIN all \ kept)
  <2>1. /\ \A id \in DOMAIN all : all[id].size \in Nat
        /\ \A id \in kept : artifacts'[id].size = all[id].size
    BY <1>1, <1>3
  <2> QED
    BY <1>1, <1>2, <2>1, LeftOver
<1>5. total_bytes' = Total(Sizes(artifacts'), kept) /\ total_bytes' \in Nat
  BY <1>2, <1>4, <1>n, <1>kept DEF BytesLeft, Saturated
<1>6. AccountedWithinCaps'
  BY <1>1, <1>5, <1>n, <1>kept DEF AccountedWithinCaps, SizeSum, Fits
<1>7. FilesMatchRecords'
  BY <1>1, <1>2, <1>n, <1>kept DEF FilesMatchRecords, StoreInv
<1>8. issued' = new /\ seq' = seq + 1 /\ issued \in Nat /\ seq \in Nat
  BY StoredFacts DEF StoreFile
<1>9. Stored' \subseteq 1..issued'
  <2>1. Stored \subseteq 1..issued
    BY DEF StoreInv
  <2>2. 1..issued \subseteq 1..issued' /\ new \in 1..issued'
    BY <1>8
  <2> QED
    BY <1>1, <1>2, <2>1, <2>2
<1>10. \A id \in Stored' :
           artifacts'[id] \in [size : Nat, seq : 0..(seq' - 1), age : 0..(ArtifactTtl + 1)]
  <2>1. seq' - 1 = seq
    BY <1>8
  <2> QED
    BY <1>1, <1>3, <2>1
<1>11. \A x, y \in Stored' : artifacts'[x].seq = artifacts'[y].seq => x = y
  BY <1>1, <1>all, AddedFacts
<1>12. NothingReturns
  <2>1. \A id \in Stored : all[id] = artifacts[id]
    BY <1>all, AddedFacts
  <2> QED
    BY <1>1, <1>2, <1>8, <2>1 DEF NothingReturns
<1> QED
  BY <1>5, <1>6, <1>7, <1>8, <1>9, <1>10, <1>11, <1>12 DEF StoreInv

\* The new file goes last: only with everything else.
LEMMA NewestGoesLast ==
    ASSUME ServiceAssumption, StoreInv, NEW size \in Nat, StoreFile(size),
           issued' \notin DOMAIN artifacts'
    PROVE  DOMAIN artifacts' = {}
<1>all. PICK all : all = Added(size)
  OBVIOUS
<1>1. PICK n \in 0..(seq + 1) : artifacts' = [id \in Since(all, n) |-> all[id]]
  BY <1>all, StoreFileLeaves
<1>2. /\ issued' \in DOMAIN all /\ all[issued'].seq = seq /\ seq \in Nat
      /\ \A id \in DOMAIN all : all[id].seq \in 0..seq
  <2>1. DOMAIN all = Stored \cup {issued + 1} /\ all[issued + 1].seq = seq
    BY <1>all, AddedFacts
  <2>2. \A id \in DOMAIN all :
            all[id] \in [size : Nat, seq : 0..seq, age : 0..(ArtifactTtl + 1)]
    BY <1>all, AddedFacts
  <2> QED
    BY <2>1, <2>2, StoredFacts DEF StoreFile
<1>3. n = seq + 1
  <2>1. ~ (seq >= n)
    BY <1>1, <1>2 DEF Since
  <2> QED
    BY <1>2, <2>1
<1> QED
  BY <1>1, <1>2, <1>3 DEF Since

\* The part of EvictsOldestFirst that is about one victim of one insertion.
LEMMA StoreFileEvicts ==
    ASSUME ServiceAssumption, StoreInv, NEW size \in Nat, StoreFile(size),
           NEW x \in Stored, x \notin DOMAIN artifacts'
    PROVE  /\ \A y \in DOMAIN artifacts' : artifacts[x].seq < artifacts'[y].seq
           /\ (\A z \in Stored \ DOMAIN artifacts' : artifacts[z].seq <= artifacts[x].seq) =>
                  \/ issued' \notin DOMAIN artifacts'
                  \/ Cardinality(DOMAIN artifacts') + 1 > MaxArtifacts
                  \/ total_bytes' + artifacts[x].size > MaxTotalBytes
<1> DEFINE new == issued + 1
           bytes == total_bytes + size
<1>all. PICK all : all = Added(size)
  OBVIOUS
<1>n. PICK n \in 0..(seq + 1) :
          /\ artifacts' = [id \in Since(all, n) |-> all[id]]
          /\ total_bytes' = BytesLeft(all, bytes, Since(all, n))
          /\ \A m \in 0..(seq + 1) : m < n => ~ Fits(all, bytes, Since(all, m))
  BY <1>all, StoreFileLeaves
<1>kept. PICK kept : kept = Since(all, n)
  OBVIOUS
<1>1. /\ kept \subseteq DOMAIN all /\ DOMAIN artifacts' = kept
      /\ \A id \in kept : artifacts'[id] = all[id]
  BY <1>n, <1>kept DEF Since
<1>2. /\ DOMAIN all = Stored \cup {new} /\ IsFiniteSet(DOMAIN all) /\ new \notin Stored
      /\ Total(Sizes(all), DOMAIN all) = bytes /\ all[new].seq = seq
      /\ \A id \in Stored : all[id] = artifacts[id]
      /\ \A y, z \in DOMAIN all : all[y].seq = all[z].seq => y = z
  <2> HIDE DEF new, bytes
  <2>1. new = issued + 1 /\ bytes = total_bytes + size
    BY DEF new, bytes
  <2>2. Total(Sizes(all), DOMAIN all) = total_bytes + size
    BY <1>all, AddedFacts
  <2>3. DOMAIN all = Stored \cup {issued + 1} /\ IsFiniteSet(DOMAIN all)
        /\ issued + 1 \notin Stored /\ all[issued + 1].seq = seq
    BY <1>all, AddedFacts
  <2>4. \A id \in Stored : all[id] = artifacts[id]
    BY <1>all, AddedFacts
  <2>5. \A y, z \in DOMAIN all : all[y].seq = all[z].seq => y = z
    BY <1>all, AddedFacts
  <2> QED
    BY <2>1, <2>2, <2>3, <2>4, <2>5
<1>3. \A id \in DOMAIN all : all[id].size \in Nat /\ all[id].seq \in 0..seq
  <2>1. \A id \in DOMAIN all :
            all[id] \in [size : Nat, seq : 0..seq, age : 0..(ArtifactTtl + 1)]
    BY <1>all, AddedFacts
  <2> QED
    BY <2>1
<1>4. issued' = new /\ seq \in Nat /\ bytes \in Nat
  BY StoredFacts, SMTT(30) DEF StoreFile
<1>m. PICK m \in 0..seq : m = artifacts[x].seq /\ m = all[x].seq
  BY <1>2, <1>3
<1>5. m < n /\ m \in 0..(seq + 1) /\ m \in Nat /\ n \in Nat
  BY <1>1, <1>2, <1>m, <1>kept, <1>4, SMTT(30) DEF Since
<1>6. \A y \in kept : m < artifacts'[y].seq
  <2> SUFFICES ASSUME NEW y \in kept PROVE m < artifacts'[y].seq
    OBVIOUS
  <2>1. artifacts'[y] = all[y] /\ all[y].seq >= n /\ all[y].seq \in Nat
    BY <1>1, <1>3, <1>kept DEF Since
  <2> QED
    BY <1>5, <2>1
<1>8. ASSUME \A z \in Stored \ kept : artifacts[z].seq <= artifacts[x].seq, new \in kept,
             ~ (Cardinality(kept) + 1 > MaxArtifacts)
      PROVE  total_bytes' + artifacts[x].size > MaxTotalBytes
  <2>1. Since(all, m) = kept \cup {x}
    <3>1. ASSUME NEW z \in Since(all, m), z \notin kept PROVE z = x
      <4>1. z \in DOMAIN all /\ all[z].seq >= m /\ z \in Stored /\ all[z].seq <= m
        BY <1>2, <1>8, <1>m, <3>1 DEF Since
      <4>2. all[z].seq = all[x].seq
        BY <1>3, <1>5, <1>m, <4>1
      <4> QED
        BY <1>2, <4>1, <4>2
    <3>2. x \in Since(all, m)
      BY <1>2, <1>5, <1>m DEF Since
    <3>3. ASSUME NEW z \in kept PROVE z \in Since(all, m)
      <4>1. z \in DOMAIN all /\ all[z].seq >= n /\ all[z].seq \in Nat
        BY <1>1, <1>3, <1>kept DEF Since
      <4> QED
        BY <1>5, <4>1 DEF Since
    <3> QED
      BY <3>1, <3>2, <3>3
  <2>2. ~ Fits(all, bytes, kept \cup {x})
    BY <1>n, <1>5, <2>1
  <2>3. Cardinality(kept \cup {x}) = Cardinality(kept) + 1 /\ Cardinality(kept) \in Nat
    <3>1. IsFiniteSet(kept) /\ x \notin kept
      BY <1>1, <1>2, FS_Subset
    <3> QED
      BY <3>1, FS_AddElement, FS_CardinalityType
  <2>4. BytesLeft(all, bytes, kept \cup {x}) > MaxTotalBytes
    <3>1. BytesLeft(all, bytes, kept \cup {x}) \in Int /\ MaxTotalBytes \in Int /\ MaxArtifacts \in Int
      <4>1. IsFiniteSet(DOMAIN all) /\ \A id \in DOMAIN all : Sizes(all)[id] \in Nat
        BY <1>2, <1>3 DEF Sizes
      <4>2. DOMAIN all \ (kept \cup {x}) \in SUBSET DOMAIN all
        OBVIOUS
      <4>3. Total(Sizes(all), DOMAIN all \ (kept \cup {x})) \in Nat
        BY <4>1, <4>2, TotalStep
      <4> QED
        BY <1>4, <4>3 DEF BytesLeft, Saturated, ServiceAssumption
    <3> QED
      BY <1>8, <2>2, <2>3, <3>1 DEF Fits
  <2>5. BytesLeft(all, bytes, kept \cup {x}) = total_bytes' + artifacts[x].size
    <3> DEFINE gone == DOMAIN all \ kept
               f == Sizes(all)
    <3>1. /\ IsFiniteSet(gone) /\ gone \in SUBSET DOMAIN all /\ x \in gone
          /\ DOMAIN all \ (kept \cup {x}) = gone \ {x} /\ kept \in SUBSET DOMAIN all
          /\ gone \ {x} \in SUBSET DOMAIN all
      BY <1>1, <1>2, FS_Subset
    <3>2. (\A id \in DOMAIN all : f[id] \in Nat) /\ f[x] = artifacts[x].size
      BY <1>2, <1>3 DEF Sizes
    <3>3. total_bytes' = Saturated(bytes - Total(f, gone))
      BY <1>n, <1>kept DEF BytesLeft
    <3>4. BytesLeft(all, bytes, kept \cup {x}) = Saturated(bytes - Total(f, gone \ {x}))
      BY <3>1 DEF BytesLeft
    <3>5. bytes = Total(f, kept) + Total(f, gone) /\ Total(f, kept) \in Nat
          /\ Total(f, gone) = f[x] + Total(f, gone \ {x}) /\ Total(f, gone \ {x}) \in Nat
      <4> HIDE DEF f, gone
      <4>1. gone = DOMAIN all \ kept
        BY DEF gone
      <4>2. Total(f, DOMAIN all) = bytes
        BY <1>2 DEF f
      <4>3. Total(f, DOMAIN all) = Total(f, kept) + Total(f, DOMAIN all \ kept)
        BY <1>2, <3>1, <3>2, TotalSplit
      <4>4. Total(f, kept) \in Nat /\ Total(f, gone \ {x}) \in Nat
        BY <1>2, <3>1, <3>2, TotalStep
      <4>5. \A id \in gone : f[id] \in Nat
        BY <3>1, <3>2
      <4>6. Total(f, gone) = f[x] + Total(f, gone \ {x})
        BY <3>1, <4>5, TotalTakes
      <4> QED
        BY <4>1, <4>2, <4>3, <4>4, <4>6
    <3>6. f[x] \in Nat
      BY <3>1, <3>2
    <3> HIDE DEF f, gone, bytes
    <3>7. Saturated(bytes - Total(f, gone)) = Total(f, kept)
          /\ Saturated(bytes - Total(f, gone \ {x})) = Total(f, kept) + f[x]
      BY <3>5, <3>6, SMTT(30) DEF Saturated
    <3> QED
      BY <3>2, <3>3, <3>4, <3>7
  <2> QED
    BY <2>4, <2>5
<1> QED
  BY <1>1, <1>4, <1>6, <1>8, <1>m

-----------------------------------------------------------------------------
(* The handlers.                                                            *)

LEMMA RestKept ==
    ASSUME RestInv, NothingReturns, UNCHANGED <<left, crashes>>,
           accepted' \in Nat, reply' \in [Clients -> Replies]
    PROVE  RestInv'
BY DEF RestInv, NothingReturns

LEMMA AnswerKeeps ==
    ASSUME ServiceAssumption, Inv, StoreInv', NothingReturns,
           NEW c \in Clients, NEW status \in Replies, Answer(c, status)
    PROVE  Inv'
<1>1. RequestInv'
  <2>1. RequestOK(Idle, artifacts', issued')
    BY DEF RequestOK
  <2> QED
    BY <2>1, RequestsKept DEF Answer, Inv
<1>2. RestInv'
  <2>1. reply' \in [Clients -> Replies] /\ accepted' \in Nat
    BY DEF Answer, Inv, RestInv
  <2> QED
    BY <2>1, RestKept DEF Answer, Inv
<1> QED
  BY <1>1, <1>2 DEF Inv

LEMMA ContinueKeeps ==
    ASSUME ServiceAssumption, Inv, StoreInv', NothingReturns,
           NEW c \in Clients, NEW req, RequestOK(req, artifacts', issued'), Continue(c, req)
    PROVE  Inv'
<1>1. RequestInv'
  BY RequestsKept DEF Continue, Inv
<1>2. RestInv'
  <2>1. reply' \in [Clients -> Replies] /\ accepted' \in Nat
    BY DEF Continue, Inv, RestInv
  <2> QED
    BY <2>1, RestKept DEF Continue, Inv
<1> QED
  BY <1>1, <1>2 DEF Inv

\* A request the client has in progress is one of those RequestOK lists.
LEMMA InProgress ==
    ASSUME Inv, NEW c \in Clients, NEW req, req = request[c]
    PROVE  RequestOK(req, artifacts, issued)
BY DEF Inv, RequestInv

LEMMA UploadInProgress ==
    ASSUME Inv, NEW c \in Clients, NEW req, req = request[c], req.op = "upload"
    PROVE  /\ req \in [op : {"upload"}, files : Seq(Nat), done : Nat, phase : {"receive", "store"}]
           /\ req.done <= Len(req.files)
           /\ req.phase = "store" => req.done < Len(req.files)
<1>1. RequestOK(req, artifacts, issued)
  BY InProgress
<1> QED
  BY <1>1 DEF RequestOK, Idle

LEMMA ExecutionInProgress ==
    ASSUME Inv, NEW c \in Clients, NEW req, req = request[c],
           req.op = "execute", req.phase \in {"check", "find", "read", "run"}
    PROVE  /\ req \in [op : {"execute"}, ids : Seq(Nat), loaded : Nat, bytes : Nat,
                        phase : {"check", "find", "read", "run"}]
           /\ \A i \in 1..Len(req.ids) : req.ids[i] <= issued
           /\ ExecutionOK(req, artifacts)
<1>1. RequestOK(req, artifacts, issued)
  BY InProgress
<1> QED
  BY <1>1 DEF RequestOK, Idle

LEMMA AcceptKeeps ==
    ASSUME ServiceAssumption, Inv, NEW c \in Clients, AcceptRequest(c)
    PROVE  Inv'
<1>1. PICK req \in Requests : Accept(c, req)
  BY DEF AcceptRequest
<1>2. StoreInv' /\ NothingReturns /\ UNCHANGED <<artifacts, issued>>
  BY <1>1, StoreUnchanged DEF Accept, Inv, store
<1>0. issued \in Nat /\ MaxInputs \in Nat /\ Uploads \subseteq Seq(Nat)
  BY StoredFacts DEF Inv, ServiceAssumption
<1>3. RequestOK(req, artifacts', issued')
  <2>1. CASE req \in [op : {"upload"}, files : Uploads, done : {0}, phase : {"receive"}]
    <3>1. Len(req.files) \in Nat
      BY <1>0, <2>1
    <3> QED
      BY <1>0, <2>1, <3>1 DEF RequestOK
  <2>2. CASE req \in [op : {"get"}, id : 1..issued, phase : {"find"}]
    BY <1>0, <2>2 DEF RequestOK
  <2>3. CASE req \in [op : {"head", "delete"}, id : 1..issued]
    BY <1>0, <2>3 DEF RequestOK
  <2>4. CASE req \in [op : {"execute"}, ids : IdLists, loaded : {0}, bytes : {0}, phase : {"check"}]
    <3>1. req.ids \in Seq(Nat) /\ \A i \in 1..Len(req.ids) : req.ids[i] <= issued
      <4>1. ASSUME NEW n \in 0..MaxInputs, req.ids \in [1..n -> 1..issued]
            PROVE  req.ids \in Seq(Nat) /\ \A i \in 1..Len(req.ids) : req.ids[i] <= issued
        <5>1. n \in Nat /\ \A i \in 1..n : req.ids[i] \in Nat /\ req.ids[i] <= issued
          BY <1>0, <4>1
        <5>2. req.ids \in [1..n -> Nat]
          BY <4>1, <5>1
        <5> QED
          BY <5>1, <5>2, SMTT(30)
      <4>2. CASE req.ids = [i \in 1..(MaxInputs + 1) |-> issued]
        BY <1>0, <4>2
      <4>3. req.ids \in IdLists
        BY <2>4
      <4>4. CASE req.ids \in UNION {[1..n -> 1..issued] : n \in 0..MaxInputs}
        <5>1. PICK n \in 0..MaxInputs : req.ids \in [1..n -> 1..issued]
          BY <4>4
        <5> QED
          BY <4>1, <5>1
      <4> QED
        BY <4>2, <4>3, <4>4 DEF IdLists
    <3>2. ExecutionOK(req, artifacts')
      BY <2>4 DEF ExecutionOK
    <3> QED
      BY <1>2, <2>4, <3>1, <3>2 DEF RequestOK
  <2> QED
    BY <2>1, <2>2, <2>3, <2>4 DEF Requests
<1>4. RequestInv'
  BY <1>1, <1>2, <1>3, RequestsKept DEF Accept, Inv
<1>5. RestInv'
  <2>1. reply' \in [Clients -> Replies] /\ accepted' \in Nat
    BY <1>1 DEF Accept, Inv, RestInv, Replies
  <2> QED
    BY <1>1, <1>2, <2>1, RestKept DEF Accept, Inv
<1> QED
  BY <1>2, <1>4, <1>5 DEF Inv

LEMMA UploadedSize ==
    ASSUME Inv, NEW c \in Clients, StoreUpload(c), NEW req, req = request[c]
    PROVE  req.done + 1 \in 1..Len(req.files) /\ req.files[req.done + 1] \in Nat
<1>0. /\ req \in [op : {"upload"}, files : Seq(Nat), done : Nat, phase : {"receive", "store"}]
      /\ req.done < Len(req.files)
  BY UploadInProgress DEF StoreUpload
<1>1. req.files \in Seq(Nat) /\ Len(req.files) \in Nat /\ req.done \in Nat
  BY <1>0
<1>2. req.done + 1 \in 1..Len(req.files)
  BY <1>0, <1>1
<1>3. \A k \in 1..Len(req.files) : req.files[k] \in Nat
  BY <1>1
<1> QED
  BY <1>2, <1>3

LEMMA ResultSize ==
    ASSUME Inv, NEW c \in Clients, StoreResult(c), NEW req, req = request[c]
    PROVE  req.size \in Nat
<1>1. RequestOK(req, artifacts, issued) /\ req.op = "execute" /\ req.phase = "store"
  BY InProgress DEF StoreResult
<1> QED
  BY <1>1 DEF RequestOK, Idle

LEMMA UploadKeeps ==
    ASSUME ServiceAssumption, Inv, NEW c \in Clients, ReceiveFile(c) \/ StoreUpload(c)
    PROVE  Inv'
<1> DEFINE req == request[c]
<1>0. /\ req \in [op : {"upload"}, files : Seq(Nat), done : Nat, phase : {"receive", "store"}]
      /\ req.done <= Len(req.files)
      /\ req.phase = "store" => req.done < Len(req.files)
  BY UploadInProgress DEF ReceiveFile, StoreUpload
<1>files. req.files \in Seq(Nat) /\ Len(req.files) \in Nat /\ req.done \in Nat
  BY <1>0
<1>1. CASE ReceiveFile(c)
  <2>1. UNCHANGED store /\ StoreInv' /\ NothingReturns
    BY <1>1, StoreUnchanged DEF ReceiveFile, Inv
  <2>2. CASE \E status \in Replies : Answer(c, status)
    BY <2>1, <2>2, AnswerKeeps
  <2>3. CASE Continue(c, [req EXCEPT !.phase = "store"]) /\ req.done # Len(req.files)
    <3> DEFINE new == [req EXCEPT !.phase = "store"]
    <3>1. /\ new \in [op : {"upload"}, files : Seq(Nat), done : Nat, phase : {"receive", "store"}]
          /\ new.done = req.done /\ new.files = req.files
      BY <1>0
    <3>2. req.done < Len(req.files)
      BY <1>0, <1>files, <2>3
    <3>3. RequestOK(new, artifacts', issued')
      <4> HIDE DEF new, req
      <4> QED
        BY <1>0, <3>1, <3>2 DEF RequestOK
    <3> HIDE DEF req
    <3> QED
      BY <2>1, <2>3, <3>3, ContinueKeeps
  <2> QED
    BY <1>1, <2>2, <2>3 DEF ReceiveFile, Replies
<1>2. CASE StoreUpload(c)
  <2>1. req.done + 1 \in 1..Len(req.files) /\ req.files[req.done + 1] \in Nat
    BY <1>2, UploadedSize
  <2>2. StoreInv' /\ NothingReturns
    BY <1>2, <2>1, StoreFileKeeps DEF StoreUpload, Inv
  <2>3. RequestOK([req EXCEPT !.done = @ + 1, !.phase = "receive"], artifacts', issued')
    <3> DEFINE new == [req EXCEPT !.done = @ + 1, !.phase = "receive"]
    <3>1. /\ new \in [op : {"upload"}, files : Seq(Nat), done : Nat, phase : {"receive", "store"}]
          /\ new.done = req.done + 1 /\ new.files = req.files /\ new.phase = "receive"
      <4>1. /\ req \in [op : {"upload"}, files : Seq(Nat), done : Nat, phase : {"receive", "store"}]
            /\ req.done + 1 \in Nat
        BY <1>0, <1>files
      <4> HIDE DEF req
      <4> QED
        BY <4>1
    <3> HIDE DEF new, req
    <3>2. new.done <= Len(new.files)
      BY <1>files, <2>1, <3>1
    <3>3. RequestOK(new, artifacts', issued')
      BY <3>1, <3>2 DEF RequestOK
    <3> QED
      BY <3>3 DEF new
  <2>4. Continue(c, [req EXCEPT !.done = @ + 1, !.phase = "receive"])
    BY <1>2 DEF StoreUpload
  <2> HIDE DEF req
  <2> QED
    BY <2>2, <2>3, <2>4, ContinueKeeps
<1> QED
  BY <1>1, <1>2

LEMMA DownloadKeeps ==
    ASSUME ServiceAssumption, Inv, NEW c \in Clients,
           FindFile(c) \/ OpenFile(c) \/ HeadFile(c) \/ DeleteFile(c)
    PROVE  Inv'
<1> DEFINE req == request[c]
<1>0. RequestOK(req, artifacts, issued)
  BY InProgress
<1>1. CASE FindFile(c) /\ req.id \in Stored
  <2>1. Touch(req.id) /\ Continue(c, [req EXCEPT !.phase = "open"])
        /\ req \in [op : {"get"}, id : Nat, phase : {"find", "open"}]
    BY <1>0, <1>1 DEF FindFile, RequestOK, Idle
  <2>2. RequestOK([req EXCEPT !.phase = "open"], artifacts', issued')
    BY <2>1 DEF RequestOK
  <2>3. StoreInv' /\ NothingReturns
    BY <1>1, <2>1, TouchKeeps DEF Inv
  <2> HIDE DEF req
  <2> QED
    BY <2>1, <2>2, <2>3, ContinueKeeps
<1>2. CASE HeadFile(c) /\ req.id \in Stored
  <2>1. Touch(req.id) /\ Answer(c, "ok") /\ "ok" \in Replies
    BY <1>2 DEF HeadFile, Replies
  <2>2. StoreInv' /\ NothingReturns
    BY <1>2, <2>1, TouchKeeps DEF Inv
  <2> QED
    BY <2>1, <2>2, AnswerKeeps
<1>3. CASE DeleteFile(c) /\ req.id \in Stored
  <2>1. Remove({req.id}) /\ Answer(c, "ok") /\ "ok" \in Replies
    BY <1>3 DEF DeleteFile, Replies
  <2>2. StoreInv' /\ NothingReturns
    BY <1>3, <2>1, RemoveKeeps DEF Inv
  <2> QED
    BY <2>1, <2>2, AnswerKeeps
<1>4. CASE UNCHANGED store /\ \E status \in Replies : Answer(c, status)
  BY <1>4, StoreUnchanged, AnswerKeeps DEF Inv
<1>5. "ok" \in Replies /\ "internal" \in Replies /\ "not_found" \in Replies
  BY DEF Replies
<1>6. CASE OpenFile(c)
  <2>1. UNCHANGED store /\ Answer(c, IF req.id \in disk THEN "ok" ELSE "internal")
    BY <1>6 DEF OpenFile
  <2> HIDE DEF req
  <2> QED
    BY <1>4, <1>5, <2>1
<1>7. CASE ~ (req.id \in Stored) /\ (FindFile(c) \/ HeadFile(c) \/ DeleteFile(c))
  <2>1. UNCHANGED store /\ Answer(c, "not_found")
    BY <1>7 DEF FindFile, HeadFile, DeleteFile
  <2> QED
    BY <1>4, <1>5, <2>1
<1> QED
  BY <1>1, <1>2, <1>3, <1>6, <1>7

\* The check admits what weighs at most the limit at that moment.
LEMMA CheckInputsKeeps ==
    ASSUME ServiceAssumption, Inv, NEW c \in Clients, CheckInputs(c)
    PROVE  Inv'
<1> DEFINE req == request[c]
           n == Len(req.ids)
<1>0. /\ req \in [op : {"execute"}, ids : Seq(Nat), loaded : Nat, bytes : Nat,
                   phase : {"check", "find", "read", "run"}]
      /\ \A i \in 1..Len(req.ids) : req.ids[i] <= issued
      /\ req.loaded = 0 /\ req.bytes = 0
  <2>1. req.op = "execute" /\ req.phase = "check"
    BY DEF CheckInputs
  <2> QED
    BY <2>1, ExecutionInProgress DEF ExecutionOK
<1>1. UNCHANGED store /\ StoreInv' /\ NothingReturns
  BY StoreUnchanged DEF CheckInputs, Inv
<1>2. CASE \E status \in Replies : Answer(c, status)
  BY <1>1, <1>2, AnswerKeeps
<1>3. CASE /\ Continue(c, [req EXCEPT !.phase = "find"])
           /\ n # 0 /\ \A i \in 1..n : req.ids[i] \in Stored
           /\ ~ (RequestedBytes(req.ids, n) > MaxUploadBytes)
  <2> DEFINE f == [i \in 1..n |-> artifacts[req.ids[i]].size]
             g == [i \in 1..n |-> IF req.ids[i] \in DOMAIN artifacts THEN artifacts[req.ids[i]].size ELSE 0]
  <2>1. n \in Nat /\ IsFiniteSet(1..n)
    <3>1. n \in Nat
      BY <1>0
    <3>2. 1 \in Int /\ n \in Int
      BY <3>1
    <3> QED
      BY <3>1, <3>2, FS_Interval
  <2>2. \A i \in 1..n : f[i] \in Nat /\ f[i] = g[i]
    BY <1>3, StoredFacts DEF Inv, Stored
  <2>3. Total(f, 1..n) = Total(g, 1..n) /\ Total(f, 1..n) \in Nat
    <3> HIDE DEF f, g, n
    <3> QED
      BY <2>1, <2>2, TotalSame, TotalStep
  <2>4. Remaining(req.ids, 1, artifacts) = RequestedBytes(req.ids, n)
    BY <2>3 DEF Remaining, RequestedBytes
  <2>5. Remaining(req.ids, 1, artifacts) <= MaxUploadBytes /\ Remaining(req.ids, 1, artifacts) \in Nat
    BY <1>3, <2>3, <2>4 DEF RequestedBytes, ServiceAssumption
  <2>6. artifacts' = artifacts /\ issued' = issued
    BY <1>1 DEF store
  <2>7. ExecutionOK([req EXCEPT !.phase = "find"], artifacts')
    BY <1>0, <1>3, <2>1, <2>5, <2>6 DEF ExecutionOK
  <2>8. RequestOK([req EXCEPT !.phase = "find"], artifacts', issued')
    BY <1>0, <2>6, <2>7 DEF RequestOK
  <2> HIDE DEF req
  <2> QED
    BY <1>1, <1>3, <2>8, ContinueKeeps
<1> QED
  <2> DEFINE missing == {i \in 1..n : req.ids[i] \notin Stored}
  <2>1. CASE missing = {}
    <3>1. \A i \in 1..n : req.ids[i] \in Stored
      BY <2>1
    <3> QED
      BY <1>2, <1>3, <2>1, <3>1 DEF CheckInputs, Replies
  <2>2. CASE missing # {}
    BY <1>2, <2>2 DEF CheckInputs, Replies
  <2> QED
    BY <2>1, <2>2

\* Found under the lock: what it weighs is held from here on, not remaining.
LEMMA FindInputKeeps ==
    ASSUME ServiceAssumption, Inv, NEW c \in Clients, FindInput(c)
    PROVE  Inv'
<1> DEFINE req == request[c]
           k == req.loaded + 1
           id == req.ids[k]
<1>0. /\ req \in [op : {"execute"}, ids : Seq(Nat), loaded : Nat, bytes : Nat,
                   phase : {"check", "find", "read", "run"}]
      /\ \A i \in 1..Len(req.ids) : req.ids[i] <= issued
      /\ req.loaded < Len(req.ids)
      /\ req.bytes + Remaining(req.ids, k, artifacts) <= MaxUploadBytes
  <2>1. req.op = "execute" /\ req.phase = "find"
    BY DEF FindInput
  <2> QED
    BY <2>1, ExecutionInProgress DEF ExecutionOK
<1>1. CASE id \notin Stored
  <2>1. UNCHANGED store /\ Answer(c, "not_found") /\ "not_found" \in Replies
    BY <1>1 DEF FindInput, Replies
  <2> QED
    BY <2>1, StoreUnchanged, AnswerKeeps DEF Inv
<1>2. CASE id \in Stored
  <2> DEFINE new == [req EXCEPT !.phase = "read", !.bytes = @ + artifacts[id].size]
  <2>1. Touch(id) /\ Continue(c, new)
    BY <1>2 DEF FindInput
  <2>2. StoreInv' /\ NothingReturns
    BY <1>2, <2>1, TouchKeeps DEF Inv
  <2>3. artifacts[id].size \in Nat /\ \A i \in DOMAIN artifacts : artifacts[i].size \in Nat
    BY <1>2, StoredFacts DEF Inv, Stored
  <2>4. k \in 1..Len(req.ids) /\ req.ids \in Seq(Nat) /\ req.bytes \in Nat /\ k + 1 \in Nat \ {0}
    <3>1. req.ids \in Seq(Nat) /\ Len(req.ids) \in Nat /\ req.loaded \in Nat /\ req.bytes \in Nat
      BY <1>0
    <3> HIDE DEF req
    <3> QED
      BY <1>0, <3>1, SMTT(30)
  <2>5. Remaining(req.ids, k, artifacts) = artifacts[id].size + Remaining(req.ids, k + 1, artifacts)
    BY <1>2, <2>3, <2>4, RemainingStep DEF Stored
  <2>6. Remaining(req.ids, k + 1, artifacts) \in Nat
    BY <2>3, <2>4, RemainingType
  <2>7. /\ new \in [op : {"execute"}, ids : Seq(Nat), loaded : Nat, bytes : Nat,
                     phase : {"check", "find", "read", "run"}]
        /\ new.op = "execute" /\ new.phase = "read" /\ new.ids = req.ids /\ new.loaded = req.loaded
        /\ new.bytes = req.bytes + artifacts[id].size
    <3> HIDE DEF req, id
    <3>1. req.bytes + artifacts[id].size \in Nat
      <4>1. req.bytes \in Nat /\ artifacts[id].size \in Nat
        BY <2>3, <2>4
      <4> QED
        BY <4>1, SMTT(30)
    <3> QED
      BY <1>0, <3>1
  <2>8. ExecutionOK(new, artifacts)
    <3>1. new.bytes + Remaining(req.ids, k + 1, artifacts) <= MaxUploadBytes
      <4>1. MaxUploadBytes \in Nat
        BY DEF ServiceAssumption
      <4>2. /\ req.bytes + Remaining(req.ids, k, artifacts) <= MaxUploadBytes
            /\ new.bytes = req.bytes + artifacts[id].size
        BY <1>0, <2>7
      <4>3. /\ req.bytes \in Nat /\ artifacts[id].size \in Nat
            /\ Remaining(req.ids, k + 1, artifacts) \in Nat
        BY <2>3, <2>4, <2>6
      <4> HIDE DEF req, k, id, new
      <4> QED
        BY <2>5, <4>1, <4>2, <4>3
    <3>2. k + 1 = req.loaded + 2
      BY <1>0
    <3> HIDE DEF new, req, k
    <3> QED
      BY <1>0, <2>7, <3>1, <3>2 DEF ExecutionOK
  <2>9. RequestOK(new, artifacts, issued)
    <3> HIDE DEF new, req
    <3> QED
      BY <1>0, <2>7, <2>8 DEF RequestOK
  <2>10. RequestOK(new, artifacts', issued')
    <3> HIDE DEF new
    <3> QED
      BY <2>2, <2>9, RequestKept DEF Inv
  <2> HIDE DEF new
  <2> QED
    BY <2>1, <2>2, <2>10, ContinueKeeps
<1> QED
  BY <1>1, <1>2

\* The read itself changes nothing but the position.
LEMMA ReadInputKeeps ==
    ASSUME ServiceAssumption, Inv, NEW c \in Clients, ReadInput(c)
    PROVE  Inv'
<1> DEFINE req == request[c]
           more == req.loaded + 1 < Len(req.ids)
<1>0. /\ req \in [op : {"execute"}, ids : Seq(Nat), loaded : Nat, bytes : Nat,
                   phase : {"check", "find", "read", "run"}]
      /\ \A i \in 1..Len(req.ids) : req.ids[i] <= issued
      /\ req.loaded < Len(req.ids)
      /\ req.bytes + Remaining(req.ids, req.loaded + 2, artifacts) <= MaxUploadBytes
  <2>1. req.op = "execute" /\ req.phase = "read"
    BY DEF ReadInput
  <2> QED
    BY <2>1, ExecutionInProgress DEF ExecutionOK
<1>1. UNCHANGED store /\ StoreInv' /\ NothingReturns /\ artifacts' = artifacts /\ issued' = issued
  BY StoreUnchanged DEF ReadInput, Inv, store
<1>2. CASE Answer(c, "internal")
  BY <1>1, <1>2, AnswerKeeps DEF Replies
<1>3. CASE Continue(c, [req EXCEPT !.loaded = @ + 1, !.phase = IF more THEN "find" ELSE "run"])
  <2> DEFINE new == [req EXCEPT !.loaded = @ + 1, !.phase = IF more THEN "find" ELSE "run"]
  <2>1. req.ids \in Seq(Nat) /\ req.loaded \in Nat /\ req.bytes \in Nat /\ req.loaded + 2 \in Nat \ {0}
    BY <1>0, SMTT(30)
  <2>2. /\ new \in [op : {"execute"}, ids : Seq(Nat), loaded : Nat, bytes : Nat,
                     phase : {"check", "find", "read", "run"}]
        /\ new.ids = req.ids /\ new.loaded = req.loaded + 1 /\ new.bytes = req.bytes
        /\ new.phase = IF more THEN "find" ELSE "run"
    <3> HIDE DEF req, more
    <3>1. req.loaded + 1 \in Nat
      BY <2>1
    <3> QED
      BY <1>0, <3>1
  <2>3. Remaining(req.ids, req.loaded + 2, artifacts) \in Nat
    <3>1. \A id \in DOMAIN artifacts : artifacts[id].size \in Nat
      BY StoredFacts DEF Inv, Stored
    <3> QED
      BY <2>1, <3>1, RemainingType
  <2>4. ExecutionOK(new, artifacts)
    <3>1. req.bytes <= MaxUploadBytes /\ req.loaded + 1 + 1 = req.loaded + 2
      <4>1. MaxUploadBytes \in Nat
        BY DEF ServiceAssumption
      <4> HIDE DEF req
      <4> QED
        BY <1>0, <2>1, <2>3, <4>1, SMTT(30)
    <3> HIDE DEF new, req
    <3> QED
      BY <1>0, <2>1, <2>2, <3>1 DEF ExecutionOK
  <2>5. RequestOK(new, artifacts', issued')
    <3> HIDE DEF new, req
    <3> QED
      BY <1>0, <1>1, <2>2, <2>4 DEF RequestOK
  <2> HIDE DEF new
  <2> QED
    <3>1. Continue(c, new)
      BY <1>3 DEF new
    <3> QED
      BY <1>1, <2>5, <3>1, ContinueKeeps
<1> QED
  BY <1>2, <1>3 DEF ReadInput

LEMMA RunKeeps ==
    ASSUME ServiceAssumption, Inv, NEW c \in Clients, RunRequest(c) \/ StoreResult(c)
    PROVE  Inv'
<1> DEFINE req == request[c]
<1>1. CASE RunRequest(c)
  <2>1. UNCHANGED store /\ StoreInv' /\ NothingReturns
    BY <1>1, StoreUnchanged DEF RunRequest, Inv
  <2>2. ASSUME NEW size \in ResultSizes,
               Continue(c, [op |-> "execute", phase |-> "store", size |-> size])
        PROVE  Inv'
    <3>1. RequestOK([op |-> "execute", phase |-> "store", size |-> size], artifacts', issued')
      BY DEF RequestOK, ServiceAssumption
    <3> QED
      BY <2>1, <2>2, <3>1, ContinueKeeps
  <2>3. ASSUME NEW status \in Replies, Answer(c, status) PROVE Inv'
    BY <2>1, <2>3, AnswerKeeps
  <2> QED
    BY <1>1, <2>2, <2>3 DEF RunRequest, Replies
<1>2. CASE StoreResult(c)
  <2>1. req.size \in Nat
    BY <1>2, ResultSize
  <2>2. StoreFile(req.size) /\ Answer(c, "ok")
    BY <1>2 DEF StoreResult
  <2>3. StoreInv' /\ NothingReturns
    BY <2>1, <2>2, StoreFileKeeps DEF Inv
  <2>4. "ok" \in Replies
    BY DEF Replies
  <2> QED
    BY <2>2, <2>3, <2>4, AnswerKeeps
<1> QED
  BY <1>1, <1>2

-----------------------------------------------------------------------------
(* The process.                                                             *)

LEMMA RequestsUntouched ==
    ASSUME ServiceAssumption, Inv, StoreInv', NothingReturns,
           UNCHANGED <<left, request, reply, accepted, crashes>>
    PROVE  Inv'
<1>1. RequestInv'
  <2>1. ASSUME NEW c \in Clients PROVE RequestOK(request[c], artifacts', issued')
    BY RequestKept, InProgress DEF Inv
  <2> QED
    BY <2>1 DEF RequestInv, Inv
<1>2. RestInv'
  BY DEF RestInv, NothingReturns, Inv
<1> QED
  BY <1>1, <1>2 DEF Inv

LEMMA ProcessKeeps ==
    ASSUME ServiceAssumption, Inv, Tick \/ Sweep \/ Crash
    PROVE  Inv'
<1>1. CASE Tick
  <2>1. StoreInv' /\ NothingReturns
    BY <1>1, TickKeeps DEF Inv
  <2> QED
    BY <1>1, <2>1, RequestsUntouched DEF Tick
<1>2. CASE Sweep
  <2>1. Remove(Stale) /\ Stale \subseteq Stored
    BY <1>2 DEF Sweep, Stale
  <2>2. StoreInv' /\ NothingReturns
    BY <2>1, RemoveKeeps DEF Inv
  <2> QED
    BY <1>2, <2>2, RequestsUntouched DEF Sweep
<1>3. CASE Crash
  <2>1. StoreInv'
    BY <1>3, CrashKeeps DEF Inv
  <2>2. RequestInv'
    BY <1>3 DEF Crash, RequestInv, RequestOK
  <2>3. RestInv'
    <3>1. disk \subseteq 1..issued
      BY DEF Inv, StoreInv, FilesMatchRecords
    <3> QED
      BY <1>3, <3>1 DEF Crash, RestInv, Inv, Replies
  <2> QED
    BY <2>1, <2>2, <2>3 DEF Inv
<1> QED
  BY <1>1, <1>2, <1>3

-----------------------------------------------------------------------------
(* Theorems.                                                                *)

LEMMA InitEstablishes == ServiceAssumption /\ Init => Inv
<1> SUFFICES ASSUME ServiceAssumption, Init PROVE Inv
  OBVIOUS
<1>1. Stored = {}
  BY DEF Init, Stored
<1>2. SizeSum(Stored) = 0 /\ Cardinality(Stored) = 0
  <2>1. IsFiniteSet({}) /\ Cardinality({}) = 0
    BY FS_EmptySet
  <2> QED
    BY <1>1, <2>1, TotalStep DEF SizeSum
<1>3. StoreInv
  BY <1>1, <1>2 DEF Init, StoreInv, AccountedWithinCaps, FilesMatchRecords, ServiceAssumption
<1> QED
  BY <1>3 DEF Init, Inv, RequestInv, RequestOK, RestInv, Replies

LEMMA StepKeeps == ServiceAssumption /\ Inv /\ [Next]_vars => Inv'
<1> SUFFICES ASSUME ServiceAssumption, Inv, [Next]_vars PROVE Inv'
  OBVIOUS
<1>1. ASSUME NEW c \in Clients, AcceptRequest(c) PROVE Inv'
  BY <1>1, AcceptKeeps
<1>2. ASSUME NEW c \in Clients, Handle(c) PROVE Inv'
  BY <1>2, UploadKeeps, DownloadKeeps, CheckInputsKeeps, FindInputKeeps, ReadInputKeeps, RunKeeps
     DEF Handle
<1>3. CASE Tick \/ Sweep \/ Crash
  BY <1>3, ProcessKeeps
<1>4. CASE UNCHANGED vars
  <2>1. StoreInv' /\ NothingReturns
    BY <1>4, StoreUnchanged DEF vars, Inv
  <2> QED
    BY <1>4, <2>1, RequestsUntouched DEF vars
<1> QED
  BY <1>1, <1>2, <1>3, <1>4 DEF Next

\* The store's and the requests' invariants hold together: neither is inductive
\* without the other.
THEOREM Invariance == Spec => []Inv
BY ServiceAssumption, InitEstablishes, StepKeeps, PTL DEF Spec

\* Records, counters, files, requests and replies have their types.
THEOREM TypeCorrect == Spec => []TypeOK
<1>1. Inv => TypeOK
  <2> SUFFICES ASSUME Inv PROVE TypeOK
    OBVIOUS
  <2>1. \A c \in Clients : request[c].op \in {"idle", "upload", "get", "head", "delete", "execute"}
    BY DEF Inv, RequestInv, RequestOK, Idle
  <2> QED
    BY <2>1 DEF Inv, StoreInv, RestInv, FilesMatchRecords, TypeOK
<1> QED
  BY <1>1, Invariance, PTL

\* total_bytes is what is stored, and both caps of Store::insert hold whenever
\* the lock is free.
THEOREM StoreWithinCaps == Spec => []AccountedWithinCaps
<1>1. Inv => AccountedWithinCaps
  BY DEF Inv, StoreInv
<1> QED
  BY <1>1, Invariance, PTL

\* Every stored artifact has its file and no file outlives its record.
THEOREM FilesFollowRecords == Spec => []FilesMatchRecords
<1>1. Inv => FilesMatchRecords
  BY DEF Inv, StoreInv
<1> QED
  BY <1>1, Invariance, PTL

\* api_execute_single's one check under the lock bounds what its later, separate
\* reads load, whatever is stored, removed or swept between them.
THEOREM InputsWithinLimit == Spec => []LoadedWithinLimit
<1>1. ServiceAssumption /\ Inv => LoadedWithinLimit
  <2> SUFFICES ASSUME ServiceAssumption, Inv, NEW c \in Clients, NEW req, req = request[c],
                      req.op = "execute", req.phase \in {"find", "read", "run"}
               PROVE  req.bytes <= MaxUploadBytes
    BY DEF LoadedWithinLimit
  <2>1. /\ req \in [op : {"execute"}, ids : Seq(Nat), loaded : Nat, bytes : Nat,
                     phase : {"check", "find", "read", "run"}]
        /\ ExecutionOK(req, artifacts)
    BY ExecutionInProgress
  <2>2. \A k \in Nat \ {0} : Remaining(req.ids, k, artifacts) \in Nat
    <3>1. \A id \in DOMAIN artifacts : artifacts[id].size \in Nat
      BY StoredFacts DEF Inv, Stored
    <3>2. req.ids \in Seq(Nat)
      BY <2>1
    <3> QED
      BY <3>1, <3>2, RemainingType
  <2>3. req.loaded + 1 \in Nat \ {0} /\ req.loaded + 2 \in Nat \ {0} /\ req.bytes \in Nat
        /\ MaxUploadBytes \in Nat
    <3>1. req.loaded \in Nat /\ req.bytes \in Nat
      BY <2>1
    <3>2. MaxUploadBytes \in Nat
      BY DEF ServiceAssumption
    <3>3. \A l \in Nat : l + 1 \in Nat \ {0} /\ l + 2 \in Nat \ {0}
      OBVIOUS
    <3> QED
      BY <3>1, <3>2, <3>3
  <2>4. /\ Remaining(req.ids, req.loaded + 1, artifacts) \in Nat
        /\ Remaining(req.ids, req.loaded + 2, artifacts) \in Nat
    BY <2>2, <2>3
  <2>5. \/ req.bytes + Remaining(req.ids, req.loaded + 1, artifacts) <= MaxUploadBytes
        \/ req.bytes + Remaining(req.ids, req.loaded + 2, artifacts) <= MaxUploadBytes
        \/ req.bytes <= MaxUploadBytes
    BY <2>1 DEF ExecutionOK
  <2> QED
    BY <2>3, <2>4, <2>5, SMTT(30)
<1> QED
  BY <1>1, ServiceAssumption, Invariance, PTL

\* Every insertion evicts the oldest first and no more than the caps ask for.
THEOREM EvictionOrder == Spec => EvictsOldestFirst
<1> DEFINE A ==
        issued' = issued + 1 =>
            LET gone == Stored \ DOMAIN artifacts'
                kept == DOMAIN artifacts' IN
            /\ \A x \in gone : \A y \in kept : artifacts[x].seq < artifacts'[y].seq
            /\ issued' \notin kept => kept = {}
            /\ \A x \in gone : (\A z \in gone : artifacts[z].seq <= artifacts[x].seq) =>
                   \/ issued' \notin kept
                   \/ Cardinality(kept) + 1 > MaxArtifacts
                   \/ total_bytes' + artifacts[x].size > MaxTotalBytes
<1>1. ServiceAssumption /\ Inv /\ [Next]_vars => A
  <2> SUFFICES ASSUME ServiceAssumption, Inv, [Next]_vars, issued' = issued + 1 PROVE A
    OBVIOUS
  <2>1. PICK size \in Nat : StoreFile(size)
    <3>0. issued' # issued
      BY StoredFacts DEF Inv
    <3>1. ASSUME NEW c \in Clients, AcceptRequest(c) PROVE FALSE
      BY <3>0, <3>1 DEF AcceptRequest, Accept, store
    <3>2. ASSUME NEW c \in Clients, Handle(c) PROVE StoreUpload(c) \/ StoreResult(c)
      BY <3>0, <3>2 DEF Handle, ReceiveFile, FindFile, OpenFile, HeadFile, DeleteFile, CheckInputs,
                        FindInput, ReadInput, RunRequest, store, Touch, Remove
    <3>3. ASSUME NEW c \in Clients, StoreUpload(c) PROVE \E size \in Nat : StoreFile(size)
      BY <3>3, UploadedSize DEF StoreUpload
    <3>4. ASSUME NEW c \in Clients, StoreResult(c) PROVE \E size \in Nat : StoreFile(size)
      BY <3>4, ResultSize DEF StoreResult
    <3>5. ~ Tick /\ ~ Sweep /\ ~ Crash /\ ~ UNCHANGED vars
      BY <3>0 DEF Tick, Sweep, Remove, Crash, vars, store
    <3> QED
      BY <3>1, <3>2, <3>3, <3>4, <3>5 DEF Next
  <2> QED
    BY <2>1, StoreFileEvicts, NewestGoesLast DEF Inv
<1> QED
  BY <1>1, ServiceAssumption, Invariance, PTL DEF Spec, EvictsOldestFirst
=============================================================================
