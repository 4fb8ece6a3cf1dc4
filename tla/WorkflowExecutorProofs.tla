----------------------- MODULE WorkflowExecutorProofs -----------------------
(***************************************************************************)
(* The executor's invariants hold for every workflow, every number of      *)
(* retries, every degree of parallelism and every combination of faults.   *)
(***************************************************************************)
EXTENDS PlannedExecution, FrontDoorsProofs, FiniteSetTheorems, SequenceTheorems, TLAPS

(* The inductive invariant.                                                 *)

\* An attempt is idle until it is spawned, and only the tasks the worker let
\* in have attempts.
AttemptsInOrder ==
    \A t \in Tasks :
        /\ job[t] \in {"waiting", "fetched"} <=> attempt[t] = 0
        /\ \A a \in Attempts : pc[t][a] = "idle" <=> a > attempt[t]

\* Before the deadline an attempt is only replaced once its thread is dead.
OrphansExpired ==
    \A t \in Tasks : \A a \in Attempts :
        a < attempt[t] /\ pc[t][a] \notin Dead => expired

ThreadInv == AttemptsInOrder /\ OrphansExpired /\ CommitOnce /\ InputsPresent

\* Only tasks with nothing left to wait for are queued or dispatched, and no
\* task is in the queue twice or both queued and dispatched.
DispatchInv ==
    /\ \A t \in Tasks : job[t] # "waiting" => remaining_deps[t] = 0
    /\ \A i \in 1..Len(ready) : /\ remaining_deps[ready[i]] = 0
                                /\ job[ready[i]] = "waiting"
    /\ \A i, j \in 1..Len(ready) : ready[i] = ready[j] => i = j

\* The call comes to a successful end only when no task remains.
EndInv ==
    /\ stopped \/ poll = "ended" \/ driver = "finishing" \/ result = "ok" => remaining = 0
    /\ \A t \in Tasks, a \in Attempts : pc[t][a] = "stop" => remaining = 0
    /\ result = "none" <=> driver # "returned"
    /\ driver = "finishing" \/ result = "ok" => OutputRefs \subseteq taken

IInv ==
    /\ TypeOK
    /\ ThreadInv
    /\ CountersExact
    /\ DispatchInv
    /\ StoreExact
    /\ EndInv

-----------------------------------------------------------------------------
(* Counting input occurrences.                                              *)

\* Taking a part away from a finite set takes its size away.
LEMMA SplitCardinality ==
    ASSUME NEW S, IsFiniteSet(S), NEW T, T \subseteq S
    PROVE  /\ IsFiniteSet(T)
           /\ Cardinality(S) \in Nat
           /\ Cardinality(T) \in Nat
           /\ Cardinality(S \ T) = Cardinality(S) - Cardinality(T)
           /\ Cardinality(S) = 0 <=> S = {}
           /\ Cardinality(T) = 0 <=> T = {}
<1>1. IsFiniteSet(T)
  BY FS_Subset
<1>2. S \cap T = T
  OBVIOUS
<1>3. Cardinality(S \ T) = Cardinality(S) - Cardinality(T)
  BY <1>2, FS_Difference
<1> QED
  BY <1>1, <1>3, FS_CardinalityType, FS_EmptySet

\* A workflow has finitely many input occurrences.
LEMMA SlotsFinite == IsFiniteSet(Slots)
<1> DEFINE SlotsOf(t) == {t} \X DOMAIN TaskInputs[t]
           All == {SlotsOf(t) : t \in Tasks}
           f == [t \in Tasks |-> SlotsOf(t)]
<1>1. IsFiniteSet(Tasks)
  BY CountsAssumption, FS_Interval DEF Tasks
<1>2. f \in Surjection(Tasks, All)
  BY DEF Surjection
<1>3. IsFiniteSet(All)
  <2> HIDE DEF f, All
  <2> QED BY <1>1, <1>2, FS_Surjection
<1>4. ASSUME NEW t \in Tasks PROVE IsFiniteSet(SlotsOf(t))
  <2>1. DOMAIN TaskInputs[t] = 1..Len(TaskInputs[t]) /\ Len(TaskInputs[t]) \in Nat
    BY WorkflowAssumption, LenProperties
  <2>2. IsFiniteSet(DOMAIN TaskInputs[t])
    BY <2>1, FS_Interval
  <2> QED
    BY <2>2, FS_Singleton, FS_Product
<1>5. \A T \in All : IsFiniteSet(T)
  BY <1>4
<1>6. IsFiniteSet(UNION All)
  BY <1>3, <1>5, FS_UNION
<1> QED
  BY <1>6 DEF Slots

\* An input occurrence is a task and a position; its ref is an input of the task.
LEMMA SlotsShape ==
    /\ \A s \in Slots : /\ s[1] \in Tasks
                        /\ RefOf(s) \in Refs
                        /\ RefOf(s) \in InputRefs(s[1])
    /\ \A t \in Tasks : \A r \in InputRefs(t) :
           r \in Refs /\ \E s \in Slots : s[1] = t /\ RefOf(s) = r
<1>1. ASSUME NEW t \in Tasks, NEW i \in DOMAIN TaskInputs[t]
      PROVE  /\ TaskInputs[t][i] \in Refs
             /\ <<t, i>> \in Slots
  <2>1. TaskInputs[t] \in Seq(Refs)
    BY WorkflowAssumption
  <2>2. TaskInputs[t][i] \in Refs
    BY <2>1, LenProperties, ElementOfSeq
  <2> QED
    BY <2>2 DEF Slots
<1>2. ASSUME NEW s \in Slots
      PROVE  s[1] \in Tasks /\ RefOf(s) \in Refs /\ RefOf(s) \in InputRefs(s[1])
  <2>1. PICK t \in Tasks : s \in {t} \X DOMAIN TaskInputs[t]
    BY DEF Slots
  <2>2. PICK i \in DOMAIN TaskInputs[t] : s = <<t, i>>
    BY <2>1
  <2> QED
    BY <1>1, <2>2 DEF RefOf, InputRefs
<1>3. ASSUME NEW t \in Tasks, NEW r \in InputRefs(t)
      PROVE  r \in Refs /\ \E s \in Slots : s[1] = t /\ RefOf(s) = r
  <2>1. PICK i \in DOMAIN TaskInputs[t] : r = TaskInputs[t][i]
    BY DEF InputRefs
  <2>2. /\ <<t, i>> \in Slots
        /\ <<t, i>>[1] = t
        /\ RefOf(<<t, i>>) = r
    BY <1>1, <2>1 DEF RefOf
  <2> QED
    BY <1>1, <2>1, <2>2
<1> QED
  BY <1>2, <1>3

\* No task consumes a negative number of times, and none that does not list r.
LEMMA OccurrencesCount ==
    ASSUME NEW t \in Tasks, NEW r \in Refs
    PROVE  /\ Occurrences(t, r) \in Nat
           /\ Occurrences(t, r) = 0 <=> r \notin InputRefs(t)
<1>1. Occurrences(t, r) \in Nat
      /\ (Occurrences(t, r) = 0 <=> {s \in Slots : s[1] = t /\ RefOf(s) = r} = {})
  BY SlotsFinite, SplitCardinality DEF Occurrences
<1>2. {s \in Slots : s[1] = t /\ RefOf(s) = r} = {} <=> r \notin InputRefs(t)
  BY SlotsShape
<1> QED
  BY <1>1, <1>2

-----------------------------------------------------------------------------
(* What the invariant says of a task one of whose threads is at work.       *)

\* A counter is zero exactly when nothing is left to count.
LEMMA CountersZero ==
    ASSUME CountersExact
    PROVE  /\ remaining = 0 <=> Tasks \subseteq Committed
           /\ \A t \in Tasks :
                  /\ remaining_deps[t] \in Nat
                  /\ remaining_deps[t] = 0 <=>
                        InputRefs(t) \cap Tasks \subseteq Committed
           /\ \A r \in Refs :
                  /\ consumer_counts[r] \in Nat
                  /\ consumer_counts[r] = 0 <=>
                        \A t \in Tasks : r \in InputRefs(t) => t \in Committed
<1>1. IsFiniteSet(Tasks) /\ IsFiniteSet(Slots)
  BY CountsAssumption, FS_Interval, SlotsFinite DEF Tasks
<1>2. remaining = 0 <=> Tasks \subseteq Committed
  <2>1. Tasks \ Committed = {} <=> remaining = 0
    BY <1>1, SplitCardinality DEF CountersExact
  <2> QED BY <2>1
<1>3. ASSUME NEW t \in Tasks
      PROVE  /\ remaining_deps[t] \in Nat
             /\ remaining_deps[t] = 0 <=> InputRefs(t) \cap Tasks \subseteq Committed
  <2> DEFINE Waiting == {s \in Slots : s[1] = t /\ RefOf(s) \in Tasks \ Committed}
  <2>1. remaining_deps[t] = Cardinality(Waiting) /\ Waiting \subseteq Slots
    BY DEF CountersExact
  <2>2. Waiting = {} <=> InputRefs(t) \cap Tasks \subseteq Committed
    BY SlotsShape
  <2> HIDE DEF Waiting
  <2> QED BY <1>1, <2>1, <2>2, SplitCardinality
<1>4. ASSUME NEW r \in Refs
      PROVE  /\ consumer_counts[r] \in Nat
             /\ consumer_counts[r] = 0 <=>
                   \A t \in Tasks : r \in InputRefs(t) => t \in Committed
  <2> DEFINE Unread == {s \in Slots : s[1] \notin Committed /\ RefOf(s) = r}
  <2>1. consumer_counts[r] = Cardinality(Unread) /\ Unread \subseteq Slots
    BY DEF CountersExact
  <2>2. Unread = {} <=> \A t \in Tasks : r \in InputRefs(t) => t \in Committed
    BY SlotsShape
  <2> HIDE DEF Unread
  <2> QED BY <1>1, <2>1, <2>2, SplitCardinality
<1> QED
  BY <1>2, <1>3, <1>4

\* A task with a thread between the two timeout checks and the commit has not
\* committed, its inputs are complete, and no consumer of its has started.
LEMMA WorkingTask ==
    ASSUME IInv, NEW t \in Tasks, NEW a \in Attempts,
           pc[t][a] \in {"resolve", "run", "recheck", "commit"}
    PROVE  /\ t \notin Committed
           /\ remaining # 0
           /\ remaining_deps[t] = 0
           /\ InputRefs(t) \cap Tasks \subseteq Committed
           /\ \A u \in Tasks : t \in InputRefs(u) =>
                  u # t /\ u \notin Committed /\ job[u] = "waiting"
<1>1. t \notin Committed
  <2> SUFFICES ASSUME NEW b \in Attempts, pc[t][b] \in {"stop", "ok"}
               PROVE  FALSE
    BY DEF Committed
  <2>1. a = b
    BY DEF IInv, ThreadInv, CommitOnce, Admitted
  <2> QED BY <2>1
<1>2. remaining_deps[t] = 0
  <2>1. a <= attempt[t] /\ a >= 1
    BY CountsAssumption DEF IInv, ThreadInv, AttemptsInOrder, TypeOK, Attempts
  <2>2. attempt[t] # 0
    BY <2>1, CountsAssumption DEF Attempts
  <2>3. job[t] # "waiting"
    BY <2>2 DEF IInv, ThreadInv, AttemptsInOrder
  <2> QED BY <2>3 DEF IInv, DispatchInv
<1>3. remaining # 0 /\ InputRefs(t) \cap Tasks \subseteq Committed
  BY <1>1, <1>2, CountersZero DEF IInv
<1>4. ASSUME NEW u \in Tasks, t \in InputRefs(u)
      PROVE  u # t /\ u \notin Committed /\ job[u] = "waiting"
  <2>1. remaining_deps[u] # 0
    BY <1>1, <1>4, CountersZero DEF IInv
  <2>2. job[u] = "waiting"
    BY <2>1 DEF IInv, DispatchInv
  <2>3. attempt[u] = 0
    BY <2>2 DEF IInv, ThreadInv, AttemptsInOrder
  <2>4. \A b \in Attempts : pc[u][b] = "idle"
    BY <2>3, CountsAssumption DEF IInv, ThreadInv, AttemptsInOrder, Attempts
  <2> QED BY <1>2, <2>1, <2>2, <2>4 DEF Committed
<1> QED
  BY <1>1, <1>2, <1>3, <1>4

-----------------------------------------------------------------------------
(* The steps that commit nothing.                                           *)

\* The facts of the invariant that do not depend on threads survive a step
\* that changes neither the shared state nor the set of committed tasks.
LEMMA SharedKept ==
    ASSUME IInv, Committed' = Committed,
           UNCHANGED <<store, remaining_deps, consumer_counts, remaining, driver>>
    PROVE  CountersExact' /\ StoreExact'
<1>1. CountersExact'
  BY DEF IInv, CountersExact
<1>2. StoreExact'
  BY DEF IInv, StoreExact, Wanted
<1> QED
  BY <1>1, <1>2

\* A thread that moves on without committing.  Only a live thread of an
\* unexpired call may pass the first enforce_timeout.
LEMMA ThreadMoves ==
    ASSUME IInv, NEW t \in Tasks, NEW a \in Attempts, NEW next \in Stages,
           MoveTo(t, a, next),
           pc[t][a] \in {"begin", "resolve", "run", "recheck", "commit", "stop"},
           next \notin {"idle", "begin", "stop", "missing"},
           next = "ok" <=> pc[t][a] = "stop",
           next \in Admitted /\ pc[t][a] = "begin" => ~expired,
           stopped' \in BOOLEAN, stopped' => stopped \/ pc[t][a] = "stop",
           UNCHANGED <<shared, poll, job, attempt, events, expired, driving>>
    PROVE  IInv' /\ Committed' = Committed
<1>1. /\ pc' \in [Tasks -> [Attempts -> Stages]]
      /\ pc'[t][a] = next
      /\ \A u \in Tasks, b \in Attempts : u # t \/ b # a => pc'[u][b] = pc[u][b]
  BY DEF MoveTo, IInv, TypeOK
<1>2. Committed' = Committed
  <2>1. pc[t][a] \in {"stop", "ok"} <=> next \in {"stop", "ok"}
    OBVIOUS
  <2>2. \A u \in Tasks, b \in Attempts :
            pc'[u][b] \in {"stop", "ok"} <=> pc[u][b] \in {"stop", "ok"}
    BY <1>1, <2>1
  <2> QED BY <2>2 DEF Committed
<1>3. TypeOK'
  BY <1>1 DEF IInv, TypeOK, shared, driving
<1>4. AttemptsInOrder'
  BY <1>1 DEF IInv, ThreadInv, AttemptsInOrder
<1>5. OrphansExpired'
  <2>1. pc[t][a] \notin Dead
    BY DEF Dead, ErrorKinds
  <2> QED BY <1>1, <2>1 DEF IInv, ThreadInv, OrphansExpired
<1>6. CommitOnce'
  <2>1. CASE pc[t][a] = "begin" /\ next \in Admitted
    <3>1. attempt[t] \in Nat /\ Attempts \subseteq Nat
      BY CountsAssumption DEF IInv, TypeOK, Attempts
    <3>2. a = attempt[t]
      BY <2>1, <3>1 DEF IInv, ThreadInv, AttemptsInOrder, OrphansExpired, Dead, ErrorKinds
    <3>3. ASSUME NEW b \in Attempts, b # a PROVE pc[t][b] \notin Admitted
      BY <2>1, <3>1, <3>2, <3>3
      DEF IInv, ThreadInv, AttemptsInOrder, OrphansExpired, Dead, ErrorKinds, Admitted
    <3> QED BY <1>1, <3>3 DEF IInv, ThreadInv, CommitOnce
  <2>2. CASE pc[t][a] # "begin" \/ next \notin Admitted
    <3>1. next \in Admitted => pc[t][a] \in Admitted
      BY <2>2 DEF Admitted
    <3>2. \A u \in Tasks, b \in Attempts :
              pc'[u][b] \in Admitted => pc[u][b] \in Admitted
      BY <1>1, <3>1
    <3> QED BY <3>2 DEF IInv, ThreadInv, CommitOnce
  <2> QED BY <2>1, <2>2
<1>7. InputsPresent'
  BY <1>1 DEF IInv, ThreadInv, InputsPresent
<1>8. DispatchInv'
  BY DEF IInv, DispatchInv, shared
<1>9. EndInv'
  BY <1>1 DEF IInv, EndInv, shared, driving
<1> QED
  BY <1>2, <1>3, <1>4, <1>5, <1>6, <1>7, <1>8, <1>9, SharedKept
  DEF IInv, ThreadInv, shared, driving

\* The worker spawns attempt n of task t: the first one of a fetched task, or
\* the next one after an attempt that is dead or has outlived the deadline.
LEMMA AttemptSpawned ==
    ASSUME IInv, NEW t \in Tasks, NEW n \in Attempts,
           n = attempt[t] + 1,
           n = 1 \/ pc[t][n - 1] \in Dead \/ expired,
           job[t] # "waiting",
           job' \in [Tasks -> {"waiting", "fetched", "running", "succeeded", "failed"}],
           job'[t] \notin {"waiting", "fetched"},
           \A u \in Tasks \ {t} : job'[u] = job[u],
           attempt' = [attempt EXCEPT ![t] = n],
           pc' = [pc EXCEPT ![t][n] = "begin"],
           UNCHANGED <<shared, poll, stopped, events, expired, driving>>
    PROVE  IInv' /\ Committed' = Committed
<1>1. /\ pc' \in [Tasks -> [Attempts -> Stages]]
      /\ pc'[t][n] = "begin"
      /\ \A u \in Tasks, b \in Attempts : u # t \/ b # n => pc'[u][b] = pc[u][b]
  BY DEF IInv, TypeOK, Stages
<1>2. /\ attempt' \in [Tasks -> 0..(Retries + 1)]
      /\ attempt'[t] = n
      /\ \A u \in Tasks \ {t} : attempt'[u] = attempt[u]
      /\ attempt[t] \in Nat /\ Attempts \subseteq Nat /\ n # 0
  BY CountsAssumption DEF IInv, TypeOK, Attempts
<1>3. pc[t][n] = "idle"
  BY <1>2 DEF IInv, ThreadInv, AttemptsInOrder
<1>4. Committed' = Committed
  <2>1. \A u \in Tasks, b \in Attempts :
            pc'[u][b] \in {"stop", "ok"} <=> pc[u][b] \in {"stop", "ok"}
    BY <1>1, <1>3
  <2> QED BY <2>1 DEF Committed
<1>5. TypeOK'
  BY <1>1, <1>2 DEF IInv, TypeOK, shared, driving
<1>6. AttemptsInOrder'
  <2>1. ASSUME NEW u \in Tasks, u # t
        PROVE  /\ job'[u] \in {"waiting", "fetched"} <=> attempt'[u] = 0
               /\ \A a \in Attempts : pc'[u][a] = "idle" <=> a > attempt'[u]
    BY <2>1, <1>1, <1>2 DEF IInv, ThreadInv, AttemptsInOrder
  <2>2. \A a \in Attempts : pc'[t][a] = "idle" <=> a > attempt'[t]
    BY <1>1, <1>2 DEF IInv, ThreadInv, AttemptsInOrder
  <2> QED BY <1>2, <2>1, <2>2 DEF AttemptsInOrder
<1>7. OrphansExpired'
  <2>1. ASSUME NEW u \in Tasks, NEW a \in Attempts,
               a < attempt'[u], pc'[u][a] \notin Dead
        PROVE  expired
    <3>1. CASE u # t
      BY <3>1, <2>1, <1>1, <1>2 DEF IInv, ThreadInv, OrphansExpired
    <3>2. CASE u = t /\ a = n - 1
      <4>1. a # n /\ n # 1
        BY <3>2, <1>2, CountsAssumption DEF Attempts
      <4> QED BY <3>2, <4>1, <2>1, <1>1
    <3>3. CASE u = t /\ a # n - 1
      <4>1. a < attempt[t] /\ pc[t][a] \notin Dead
        BY <3>3, <2>1, <1>1, <1>2
      <4> QED BY <4>1 DEF IInv, ThreadInv, OrphansExpired
    <3> QED BY <3>1, <3>2, <3>3
  <2> QED BY <2>1 DEF OrphansExpired
<1>8. CommitOnce' /\ InputsPresent'
  <2>1. \A u \in Tasks, b \in Attempts :
            /\ pc'[u][b] \in Admitted => pc[u][b] \in Admitted
            /\ pc'[u][b] = "missing" => pc[u][b] = "missing"
    BY <1>1 DEF Admitted
  <2> QED BY <2>1 DEF IInv, ThreadInv, CommitOnce, InputsPresent
<1>9. DispatchInv'
  <2>1. \A i \in 1..Len(ready) : ready[i] \in Tasks
    BY ElementOfSeq DEF IInv, TypeOK
  <2>2. \A i \in 1..Len(ready) : ready[i] # t
    BY DEF IInv, DispatchInv
  <2> QED BY <2>1, <2>2 DEF IInv, DispatchInv, shared
<1>10. EndInv'
  BY <1>1 DEF IInv, EndInv, shared, driving
<1> QED
  BY <1>4, <1>5, <1>6, <1>7, <1>8, <1>9, <1>10, SharedKept
  DEF IInv, ThreadInv, shared, driving

\* A running job ends, with or without an error event.
LEMMA JobEnds ==
    ASSUME IInv, NEW t \in Tasks, job[t] = "running",
           NEW end \in {"succeeded", "failed"}, job' = [job EXCEPT ![t] = end],
           events' \subseteq ErrorKinds,
           UNCHANGED <<shared, poll, attempt, stopped, pc, expired, driving>>
    PROVE  IInv' /\ Committed' = Committed
<1>1. /\ job' \in [Tasks -> {"waiting", "fetched", "running", "succeeded", "failed"}]
      /\ \A u \in Tasks : \A j \in {"waiting", "fetched"} : job'[u] = j <=> job[u] = j
  BY DEF IInv, TypeOK
<1>2. TypeOK'
  BY <1>1 DEF IInv, TypeOK, shared, driving
<1>3. ThreadInv'
  BY <1>1
  DEF IInv, ThreadInv, AttemptsInOrder, OrphansExpired, CommitOnce, InputsPresent
<1>4. DispatchInv'
  BY <1>1 DEF IInv, DispatchInv, shared
<1>5. EndInv'
  BY DEF IInv, EndInv, shared, driving
<1>6. Committed' = Committed
  BY DEF Committed
<1> QED
  BY <1>2, <1>3, <1>4, <1>5, <1>6, SharedKept DEF IInv, shared, driving

LEMMA WorkerSteps ==
    ASSUME IInv, NEW t \in Tasks, WorkerStep(t)
    PROVE  IInv' /\ Committed' = Committed
<1>1. /\ attempt[t] \in 0..(Retries + 1) /\ Retries \in Nat
      /\ job \in [Tasks -> {"waiting", "fetched", "running", "succeeded", "failed"}]
      /\ job[t] \in {"waiting", "fetched"} <=> attempt[t] = 0
  BY CountsAssumption DEF IInv, TypeOK, ThreadInv, AttemptsInOrder
<1>2. ASSUME NEW e \in ErrorKinds, RetryOrFail(t, e), job[t] = "running",
             pc[t][attempt[t]] \in Dead \/ expired,
             UNCHANGED <<shared, poll, stopped, expired, driving>>
      PROVE  IInv' /\ Committed' = Committed
  <2>1. CASE attempt[t] <= Retries /\ UNCHANGED <<job, events>>
             /\ attempt' = [attempt EXCEPT ![t] = @ + 1]
             /\ pc' = [pc EXCEPT ![t][attempt[t] + 1] = "begin"]
    <3> DEFINE n == attempt[t] + 1
    <3>1. n \in Attempts /\ n - 1 = attempt[t]
      BY <1>1, <2>1 DEF Attempts
    <3>2. attempt' = [attempt EXCEPT ![t] = n]
      BY <2>1
    <3> HIDE DEF n
    <3> QED BY <1>1, <1>2, <2>1, <3>1, <3>2, AttemptSpawned DEF n
  <2>2. CASE /\ attempt[t] > Retries /\ UNCHANGED <<attempt, pc>>
             /\ job' = [job EXCEPT ![t] = "failed"]
             /\ events' = events \cup {e}
    <3>1. events' \subseteq ErrorKinds
      BY <2>2 DEF IInv, TypeOK
    <3> QED BY <1>2, <2>2, <3>1, JobEnds
  <2> QED BY <1>2, <2>1, <2>2 DEF RetryOrFail
<1>3. CASE StartJob(t)
  <2>1. 1 \in Attempts /\ attempt[t] = 0
    BY <1>1, <1>3 DEF StartJob, Attempts
  <2>2. /\ job' \in [Tasks -> {"waiting", "fetched", "running", "succeeded", "failed"}]
        /\ job'[t] = "running"
        /\ \A u \in Tasks \ {t} : job'[u] = job[u]
    BY <1>1, <1>3 DEF StartJob
  <2> DEFINE n == 1
  <2>3. /\ n \in Attempts /\ n = attempt[t] + 1 /\ n = 1
        /\ job[t] # "waiting" /\ job'[t] \notin {"waiting", "fetched"}
        /\ attempt' = [attempt EXCEPT ![t] = n]
        /\ pc' = [pc EXCEPT ![t][n] = "begin"]
        /\ UNCHANGED <<shared, poll, stopped, events, expired, driving>>
    BY <1>3, <2>1, <2>2 DEF StartJob
  <2> HIDE DEF n
  <2> QED BY <2>2, <2>3, AttemptSpawned
<1>4. CASE JobSucceeds(t)
  BY <1>4, JobEnds DEF JobSucceeds, IInv, TypeOK
<1>5. CASE AttemptFails(t)
  BY <1>2, <1>5 DEF AttemptFails, Dead
<1>6. CASE AttemptTimeout(t)
  BY <1>2, <1>6 DEF AttemptTimeout, ErrorKinds
<1> QED
  BY <1>3, <1>4, <1>5, <1>6 DEF WorkerStep

LEMMA QuietThreadSteps ==
    ASSUME IInv, NEW t \in Tasks, NEW a \in Attempts,
           \/ BeginAttempt(t, a) \/ ResolveInputs(t, a) \/ RunOperator(t, a)
           \/ OperatorPanics(t, a) \/ RecheckTimeout(t, a)
           \/ SpillFails(t, a) \/ StopWorker(t, a)
    PROVE  IInv' /\ Committed' = Committed
<1>1. stopped \in BOOLEAN
  BY DEF IInv, TypeOK
<1> USE DEF Stages, Admitted, Dead, ErrorKinds
<1>2. CASE BeginAttempt(t, a)
  BY <1>1, <1>2, ThreadMoves DEF BeginAttempt, worker
\* The inputs of a task at work are all in the store.
<1>3. CASE ResolveInputs(t, a)
  <2>1. pc[t][a] = "resolve"
    BY <1>3 DEF ResolveInputs
  <2>2. /\ t \notin Committed /\ remaining # 0
        /\ InputRefs(t) \cap Tasks \subseteq Committed
    BY <2>1, WorkingTask
  <2>3. ASSUME NEW r \in InputRefs(t) PROVE r \in store
    <3>1. /\ r \in Refs
          /\ \E s \in Slots : s[1] = t /\ RefOf(s) = r
      BY SlotsShape
    <3>2. Wanted(r)
      BY <2>2, <3>1 DEF Wanted
    <3> QED BY <2>2, <3>1, <3>2 DEF IInv, StoreExact, Refs
  <2>4. MoveTo(t, a, "run")
    BY <1>3, <2>3 DEF ResolveInputs
  <2> QED BY <1>1, <1>3, <2>1, <2>4, ThreadMoves DEF ResolveInputs, worker
<1>4. CASE RunOperator(t, a)
  BY <1>1, <1>4, ThreadMoves DEF RunOperator, worker
<1>5. CASE OperatorPanics(t, a)
  BY <1>1, <1>5, ThreadMoves DEF OperatorPanics, worker
<1>6. CASE RecheckTimeout(t, a)
  BY <1>1, <1>6, ThreadMoves DEF RecheckTimeout, worker
<1>7. CASE SpillFails(t, a)
  BY <1>1, <1>7, ThreadMoves DEF SpillFails, worker
<1>8. CASE StopWorker(t, a)
  BY <1>1, <1>8, ThreadMoves DEF StopWorker
<1> QED
  BY <1>2, <1>3, <1>4, <1>5, <1>6, <1>7, <1>8

\* The worker polls the backend stream.
LEMMA PollSteps ==
    ASSUME IInv, Poll \/ SpuriousPoll
    PROVE  IInv'
<1>1. ready \in Seq(Tasks)
  BY DEF IInv, TypeOK
<1>2. Committed' = Committed
  BY DEF Poll, PollReady, PollEnd, PollPending, SpuriousPoll, Committed
<1>3. CASE PollReady
  <2>1. /\ Head(ready) \in Tasks /\ Head(ready) = ready[1] /\ 1 \in 1..Len(ready)
        /\ Tail(ready) \in Seq(Tasks)
        /\ Len(Tail(ready)) = Len(ready) - 1 /\ Len(ready) \in Nat
        /\ \A i \in 1..Len(Tail(ready)) : Tail(ready)[i] = ready[i + 1]
    BY <1>1, <1>3, HeadTailProperties DEF PollReady
  <2>2. /\ job[Head(ready)] = "waiting"
        /\ \A i \in 1..Len(ready') : /\ i + 1 \in 1..Len(ready)
                                     /\ ready'[i] = ready[i + 1]
                                     /\ ready'[i] # Head(ready)
                                     /\ ready'[i] \in Tasks
    BY <1>1, <1>3, <2>1 DEF PollReady, IInv, DispatchInv
  <2>3. /\ job' \in [Tasks -> {"waiting", "fetched", "running", "succeeded", "failed"}]
        /\ job'[Head(ready)] = "fetched"
        /\ \A u \in Tasks \ {Head(ready)} : job'[u] = job[u]
    BY <1>3, <2>1 DEF PollReady, IInv, TypeOK
  <2>4. TypeOK'
    BY <1>3, <2>1, <2>3 DEF PollReady, IInv, TypeOK, driving
  <2>5. ThreadInv'
    BY <1>3, <2>1, <2>2, <2>3 DEF PollReady, IInv, ThreadInv, AttemptsInOrder,
       OrphansExpired, CommitOnce, InputsPresent
  <2>6. CountersExact' /\ StoreExact'
    BY <1>2, <1>3, SharedKept DEF PollReady, driving
  <2>7. DispatchInv'
    <3>1. \A t \in Tasks : job'[t] # "waiting" => remaining_deps'[t] = 0
      BY <1>3, <2>1, <2>2, <2>3 DEF PollReady, IInv, DispatchInv
    <3>2. \A i \in 1..Len(ready') : /\ remaining_deps'[ready'[i]] = 0
                                    /\ job'[ready'[i]] = "waiting"
      BY <1>3, <2>2, <2>3 DEF PollReady, IInv, DispatchInv
    <3>3. \A i, j \in 1..Len(ready') : ready'[i] = ready'[j] => i = j
      <4> SUFFICES ASSUME NEW i \in 1..Len(ready'), NEW j \in 1..Len(ready'),
                          ready'[i] = ready'[j]
                   PROVE  i = j
        OBVIOUS
      <4>1. i + 1 = j + 1
        BY <2>2 DEF IInv, DispatchInv
      <4> QED BY <4>1
    <3> QED BY <3>1, <3>2, <3>3 DEF DispatchInv
  <2>8. EndInv'
    BY <1>3 DEF PollReady, IInv, EndInv, driving
  <2> QED BY <2>4, <2>5, <2>6, <2>7, <2>8 DEF IInv
<1>4. CASE PollEnd \/ PollPending \/ SpuriousPoll
  <2> USE <1>4 DEF PollEnd, PollPending, SpuriousPoll, shared, driving
  <2>1. TypeOK'
    BY DEF IInv, TypeOK
  <2>2. ThreadInv'
    BY DEF IInv, ThreadInv, AttemptsInOrder, OrphansExpired, CommitOnce, InputsPresent
  <2>3. CountersExact' /\ StoreExact'
    BY <1>2, SharedKept
  <2>4. DispatchInv' /\ EndInv'
    BY DEF IInv, DispatchInv, EndInv
  <2> QED BY <2>1, <2>2, <2>3, <2>4 DEF IInv
<1> QED
  BY <1>3, <1>4 DEF Poll

\* The clock and the driver.
LEMMA DriverSteps ==
    ASSUME IInv, Expire \/ DriverStep
    PROVE  IInv'
<1>1. Committed' = Committed
  BY DEF Expire, DriverStep, DriverError, DriverDeadline, DriverTakesStore,
     DriverReturns, Committed
<1>2. DispatchInv'
  BY DEF Expire, DriverStep, DriverError, DriverDeadline, DriverTakesStore,
     DriverReturns, IInv, DispatchInv, shared, worker
<1>3. ThreadInv'
  <2> USE DEF worker, IInv, ThreadInv, AttemptsInOrder, OrphansExpired, CommitOnce, InputsPresent
  <2>1. CASE Expire
    BY <2>1 DEF Expire
  <2>2. CASE DriverError
    BY <2>2 DEF DriverError
  <2>3. CASE DriverDeadline
    BY <2>3 DEF DriverDeadline
  <2>4. CASE DriverTakesStore
    BY <2>4 DEF DriverTakesStore
  <2>5. CASE DriverReturns
    BY <2>5 DEF DriverReturns
  <2> QED
    BY <2>1, <2>2, <2>3, <2>4, <2>5 DEF DriverStep
<1>4. CASE Expire \/ DriverError \/ DriverDeadline \/ DriverReturns
  <2> USE <1>4 DEF Expire, DriverError, DriverDeadline, DriverReturns, Return,
                   shared, worker, driving
  <2>1. TypeOK'
    <3>1. CASE Expire
      BY <3>1 DEF IInv, TypeOK, ErrorKinds
    <3>2. CASE DriverError
      BY <3>2 DEF IInv, TypeOK, ErrorKinds
    <3>3. CASE DriverDeadline
      BY <3>3 DEF IInv, TypeOK, ErrorKinds
    <3>4. CASE DriverReturns
      BY <3>4 DEF IInv, TypeOK, ErrorKinds
    <3> QED
      BY <1>4, <3>1, <3>2, <3>3, <3>4
  <2>2. CountersExact'
    BY <1>1 DEF IInv, CountersExact
  <2>3. StoreExact'
    BY <1>1 DEF IInv, StoreExact, Wanted, EndInv
  <2>4. EndInv'
    BY DEF IInv, EndInv, TypeOK, ErrorKinds
  <2> QED BY <1>2, <1>3, <2>1, <2>2, <2>3, <2>4 DEF IInv
\* Every task has committed, so every output is in the store that is taken.
<1>5. CASE DriverTakesStore
  <2> USE <1>5 DEF DriverTakesStore, worker
  <2>1. remaining = 0 /\ driver = "polling"
    BY DEF IInv, EndInv
  <2>2. OutputRefs \subseteq store
    <3>1. Tasks \subseteq Committed
      BY <2>1, CountersZero DEF IInv
    <3> QED BY <2>1, <3>1, WorkflowAssumption DEF IInv, StoreExact, Wanted, Refs
  <2>3. TypeOK'
    BY DEF IInv, TypeOK
  <2>4. CountersExact'
    BY <1>1 DEF IInv, CountersExact
  <2>5. StoreExact'
    BY <2>1 DEF StoreExact
  <2>6. EndInv'
    BY <2>1, <2>2 DEF IInv, EndInv
  <2> QED BY <1>2, <1>3, <2>3, <2>4, <2>5, <2>6 DEF IInv
<1> QED
  BY <1>4, <1>5 DEF DriverStep

-----------------------------------------------------------------------------
(* The commit.                                                              *)

\* The sorted newly-ready tasks form a sequence without repetitions.
LEMMA AscendingSeq ==
    ASSUME NEW S \in SUBSET Tasks, NEW q \in Ascending(S)
    PROVE  /\ q \in Seq(Tasks)
           /\ \A i \in 1..Len(q) : q[i] \in S
           /\ \A i, j \in 1..Len(q) : q[i] = q[j] => i = j
<1>1. IsFiniteSet(S)
  <2>1. IsFiniteSet(Tasks)
    BY CountsAssumption, FS_Interval DEF Tasks
  <2> QED BY <2>1, FS_Subset
<1>2. Cardinality(S) \in Nat
  BY <1>1, FS_CardinalityType
<1>3. /\ q \in [1..Cardinality(S) -> S]
      /\ \A i, j \in 1..Cardinality(S) : i < j => q[i] < q[j]
  BY DEF Ascending
<1> DEFINE n == Cardinality(S)
<1> HIDE DEF n
<1>4. q \in Seq(Tasks) /\ Len(q) = n /\ \A i \in 1..n : q[i] \in S
  BY <1>2, <1>3 DEF n
<1>5. ASSUME NEW i \in 1..n, NEW j \in 1..n, q[i] = q[j]
      PROVE  i = j
  <2>1. ~(i < j) /\ ~(j < i)
    <3>1. q[i] \in Int /\ q[j] \in Int
      <4>1. Tasks \subseteq Int
        BY CountsAssumption DEF Tasks
      <4> QED BY <1>4, <4>1
    <3>2. (i < j => q[i] < q[j]) /\ (j < i => q[j] < q[i])
      BY <1>3 DEF n
    <3> QED BY <1>5, <3>1, <3>2
  <2> QED BY <1>2, <2>1 DEF n
<1> QED
  BY <1>4, <1>5

\* A commit takes from every counter exactly what the task contributed to it.
LEMMA CommitCounts ==
    ASSUME IInv, NEW t \in Tasks, NEW a \in Attempts, Commit(t, a),
           Committed' = Committed \cup {t}
    PROVE  /\ CountersExact'
           /\ remaining' \in Nat
           /\ remaining_deps' \in [Tasks -> Nat]
           /\ consumer_counts' \in [Refs -> Nat]
           /\ \A r \in Refs : consumer_counts'[r] = 0 <=>
                  \A u \in Tasks : r \in InputRefs(u) => u \in Committed \cup {t}
<1>1. /\ pc[t][a] = "commit"
      /\ consumer_counts' = [r \in Refs |-> consumer_counts[r] - Occurrences(t, r)]
      /\ remaining' = remaining - 1
      /\ remaining_deps' = [u \in Tasks |-> remaining_deps[u] - Occurrences(u, t)]
  BY DEF Commit
<1>2. t \notin Committed /\ remaining # 0 /\ remaining \in Nat
  BY <1>1, WorkingTask DEF IInv, TypeOK
<1>3. IsFiniteSet(Slots) /\ IsFiniteSet(Tasks)
  BY CountsAssumption, FS_Interval, SlotsFinite DEF Tasks
<1>4. remaining' = Cardinality(Tasks \ Committed')
  <2>1. IsFiniteSet(Tasks \ Committed)
    BY <1>3, FS_Subset
  <2>2. Cardinality((Tasks \ Committed) \ {t}) = Cardinality(Tasks \ Committed) - 1
    BY <1>2, <2>1, FS_RemoveElement
  <2>3. (Tasks \ Committed) \ {t} = Tasks \ Committed'
    OBVIOUS
  <2> QED BY <1>1, <2>2, <2>3 DEF IInv, CountersExact
<1>5. ASSUME NEW u \in Tasks
      PROVE  /\ remaining_deps'[u] =
                    Cardinality({s \in Slots : s[1] = u /\ RefOf(s) \in Tasks \ Committed'})
             /\ remaining_deps'[u] \in Nat
  <2> DEFINE W == {s \in Slots : s[1] = u /\ RefOf(s) \in Tasks \ Committed}
             O == {s \in Slots : s[1] = u /\ RefOf(s) = t}
             V == {s \in Slots : s[1] = u /\ RefOf(s) \in Tasks \ Committed'}
  <2>1. remaining_deps'[u] = Cardinality(W) - Cardinality(O)
    BY <1>1 DEF IInv, CountersExact, Occurrences
  <2>2. O \subseteq W /\ V = W \ O /\ W \subseteq Slots /\ V \subseteq Slots
    BY <1>2
  <2>3. remaining_deps'[u] = Cardinality(V) /\ Cardinality(V) \in Nat
    <3> HIDE DEF W, O, V
    <3>1. IsFiniteSet(W)
      BY <1>3, <2>2, FS_Subset
    <3> QED BY <1>3, <2>1, <2>2, <3>1, SplitCardinality
  <2> QED BY <2>3
<1>6. ASSUME NEW r \in Refs
      PROVE  /\ consumer_counts'[r] =
                    Cardinality({s \in Slots : s[1] \notin Committed' /\ RefOf(s) = r})
             /\ consumer_counts'[r] \in Nat
             /\ consumer_counts'[r] = 0 <=>
                    \A u \in Tasks : r \in InputRefs(u) => u \in Committed \cup {t}
  <2> DEFINE U == {s \in Slots : s[1] \notin Committed /\ RefOf(s) = r}
             O == {s \in Slots : s[1] = t /\ RefOf(s) = r}
             V == {s \in Slots : s[1] \notin Committed' /\ RefOf(s) = r}
  <2>1. consumer_counts'[r] = Cardinality(U) - Cardinality(O)
    BY <1>1 DEF IInv, CountersExact, Occurrences
  <2>2. O \subseteq U /\ V = U \ O /\ U \subseteq Slots /\ V \subseteq Slots
    BY <1>2
  <2>3. V = {} <=> \A u \in Tasks : r \in InputRefs(u) => u \in Committed \cup {t}
    BY SlotsShape
  <2>4. /\ consumer_counts'[r] = Cardinality(V) /\ Cardinality(V) \in Nat
        /\ Cardinality(V) = 0 <=> V = {}
    <3> HIDE DEF U, O, V
    <3>1. IsFiniteSet(U)
      BY <1>3, <2>2, FS_Subset
    <3> QED BY <1>3, <2>1, <2>2, <3>1, SplitCardinality
  <2> QED BY <2>3, <2>4
<1>7. CountersExact'
  BY <1>4, <1>5, <1>6 DEF CountersExact
<1>8. /\ remaining_deps' \in [Tasks -> Nat]
      /\ consumer_counts' \in [Refs -> Nat]
  BY <1>1, <1>5, <1>6
<1>9. remaining' \in Nat
  BY <1>1, <1>2
<1> QED
  BY <1>6, <1>7, <1>8, <1>9

LEMMA CommitStep ==
    ASSUME IInv, NEW t \in Tasks, NEW a \in Attempts, Commit(t, a)
    PROVE  IInv' /\ Committed' = Committed \cup {t}
<1>1. /\ pc[t][a] = "commit"
      /\ store' = (store \cup {t}) \ Evicted(t)
      /\ remaining_deps' = [u \in Tasks |-> remaining_deps[u] - Occurrences(u, t)]
      /\ consumer_counts' = [r \in Refs |-> consumer_counts[r] - Occurrences(t, r)]
      /\ waker' = FALSE /\ poll' \in {poll, "awake"}
      /\ UNCHANGED <<job, attempt, stopped, events, expired, driving>>
  BY DEF Commit, WakeBackend
<1>2. /\ t \notin Committed /\ remaining # 0
      /\ remaining_deps[t] = 0
      /\ InputRefs(t) \cap Tasks \subseteq Committed
      /\ \A u \in Tasks : t \in InputRefs(u) => u # t /\ u \notin Committed
  BY <1>1, WorkingTask
<1>3. PICK next \in {"stop", "ok"} : /\ MoveTo(t, a, next)
                                     /\ next = "stop" => remaining' = 0
  BY DEF Commit
<1>4. /\ pc' \in [Tasks -> [Attempts -> Stages]]
      /\ pc'[t][a] = next
      /\ \A u \in Tasks, b \in Attempts : u # t \/ b # a => pc'[u][b] = pc[u][b]
  <2>1. next \in Stages
    BY DEF Stages, Admitted
  <2>2. pc' = [pc EXCEPT ![t][a] = next]
    BY <1>3 DEF MoveTo
  <2>3. pc \in [Tasks -> [Attempts -> Stages]]
    BY DEF IInv, TypeOK
  <2> QED BY <2>1, <2>2, <2>3
<1>5. Committed' = Committed \cup {t}
  BY <1>1, <1>4 DEF Committed
<1>6. /\ CountersExact'
      /\ remaining' \in Nat
      /\ remaining_deps' \in [Tasks -> Nat]
      /\ consumer_counts' \in [Refs -> Nat]
      /\ \A r \in Refs : consumer_counts'[r] = 0 <=>
             \A u \in Tasks : r \in InputRefs(u) => u \in Committed \cup {t}
  BY <1>5, CommitCounts
\* The newly ready tasks were waiting for t alone, so none of them is queued.
<1>7. PICK released \in Ascending(Released(t)) : ready' = ready \o released
  BY DEF Commit
<1>8. /\ released \in Seq(Tasks)
      /\ \A i \in 1..Len(released) : released[i] \in Released(t)
      /\ \A i, j \in 1..Len(released) : released[i] = released[j] => i = j
  <2>1. Released(t) \in SUBSET Tasks
    BY DEF Released, Dependents
  <2> HIDE DEF Released
  <2> QED BY <2>1, AscendingSeq
<1>9. \A u \in Released(t) : /\ u \in Tasks
                             /\ remaining_deps'[u] = 0
                             /\ remaining_deps[u] # 0
                             /\ job[u] = "waiting"
  <2> SUFFICES ASSUME NEW u \in Released(t)
               PROVE  /\ u \in Tasks /\ remaining_deps'[u] = 0
                      /\ remaining_deps[u] # 0 /\ job[u] = "waiting"
    OBVIOUS
  <2>1. u \in Tasks /\ Occurrences(u, t) > 0 /\ remaining_deps[u] - Occurrences(u, t) = 0
    BY DEF Released, Dependents
  <2>2. remaining_deps[u] # 0
    <3>1. remaining_deps[u] \in Nat /\ Occurrences(u, t) \in Nat
      BY <2>1, OccurrencesCount DEF IInv, TypeOK, Refs
    <3> QED BY <2>1, <3>1
  <2> QED BY <1>1, <2>1, <2>2 DEF IInv, DispatchInv
<1>10. TypeOK'
  <2>1. ready \in Seq(Tasks) /\ ready' \in Seq(Tasks)
    BY <1>7, <1>8, ConcatProperties DEF IInv, TypeOK
  <2>2. store' \subseteq Refs
    BY <1>1 DEF IInv, TypeOK, Refs
  <2> QED BY <1>1, <1>4, <1>6, <2>1, <2>2 DEF IInv, TypeOK, driving
<1>11. ThreadInv'
  <2>1. AttemptsInOrder'
    BY <1>1, <1>3, <1>4 DEF IInv, ThreadInv, AttemptsInOrder
  <2>2. OrphansExpired'
    BY <1>1, <1>3, <1>4 DEF IInv, ThreadInv, OrphansExpired, Dead, ErrorKinds
  <2>3. CommitOnce'
    <3>1. \A u \in Tasks, b \in Attempts :
              pc'[u][b] \in Admitted => pc[u][b] \in Admitted
      BY <1>1, <1>4 DEF Admitted
    <3> QED BY <3>1 DEF IInv, ThreadInv, CommitOnce
  <2>4. InputsPresent'
    BY <1>3, <1>4 DEF IInv, ThreadInv, InputsPresent
  <2> QED BY <2>1, <2>2, <2>3, <2>4 DEF ThreadInv
<1>12. DispatchInv'
  <2>1. ready \in Seq(Tasks) /\ Len(ready) \in Nat /\ Len(released) \in Nat
    BY <1>8, LenProperties DEF IInv, TypeOK
  <2>2. /\ Len(ready') = Len(ready) + Len(released)
        /\ \A i \in 1..Len(ready') :
               ready'[i] = IF i <= Len(ready) THEN ready[i] ELSE released[i - Len(ready)]
    BY <1>7, <1>8, <2>1, ConcatProperties
  <2>3. \A u \in Tasks : remaining_deps[u] = 0 => remaining_deps'[u] = 0
    <3>1. \A u \in Tasks : Occurrences(u, t) \in Nat
      BY OccurrencesCount DEF Refs
    <3>2. \A u \in Tasks : remaining_deps'[u] = remaining_deps[u] - Occurrences(u, t)
                          /\ remaining_deps'[u] \in Nat
      BY <1>1, <1>6
    <3> HIDE DEF Occurrences
    <3> QED BY <3>1, <3>2
  <2>4. \A i \in 1..Len(ready) : /\ ready[i] \in Tasks
                                 /\ remaining_deps[ready[i]] = 0
                                 /\ job[ready[i]] = "waiting"
    BY <2>1, ElementOfSeq DEF IInv, DispatchInv
  <2>5. ASSUME NEW i \in 1..Len(ready')
        PROVE  \/ i \in 1..Len(ready) /\ ready'[i] = ready[i]
               \/ /\ i - Len(ready) \in 1..Len(released)
                  /\ ready'[i] = released[i - Len(ready)]
    BY <2>1, <2>2
  <2>6. \A u \in Tasks : job'[u] # "waiting" => remaining_deps'[u] = 0
    BY <1>1, <2>3 DEF IInv, DispatchInv
  <2>7. \A i \in 1..Len(ready') : remaining_deps'[ready'[i]] = 0 /\ job'[ready'[i]] = "waiting"
    BY <1>1, <1>8, <1>9, <2>3, <2>4, <2>5
  <2>8. ASSUME NEW i \in 1..Len(ready'), NEW j \in 1..Len(ready'), ready'[i] = ready'[j]
        PROVE  i = j
    <3>1. CASE i \in 1..Len(ready) /\ j \in 1..Len(ready)
      BY <2>1, <2>2, <2>8, <3>1 DEF IInv, DispatchInv
    <3>2. CASE i \notin 1..Len(ready) /\ j \notin 1..Len(ready)
      <4>1. i - Len(ready) = j - Len(ready)
        BY <1>8, <2>5, <2>8, <3>2
      <4> QED BY <2>1, <4>1
    <3>3. ASSUME NEW k \in 1..Len(ready')
          PROVE  k \in 1..Len(ready) <=> remaining_deps[ready'[k]] = 0
      <4>1. CASE k \in 1..Len(ready)
        BY <2>1, <2>2, <2>4, <4>1
      <4>2. CASE k \notin 1..Len(ready)
        BY <1>8, <1>9, <2>5, <4>2
      <4> QED BY <4>1, <4>2
    <3>4. i \in 1..Len(ready) <=> j \in 1..Len(ready)
      BY <2>8, <3>3
    <3> QED BY <3>1, <3>2, <3>4
  <2> QED BY <2>6, <2>7, <2>8 DEF DispatchInv
\* An artifact stops being wanted exactly when it is evicted.
<1>13. StoreExact'
  <2>1. store = {r \in Sources \cup Committed : Wanted(r)}
    BY <1>2 DEF IInv, StoreExact
  <2>2. \A r \in Refs : Evicted(t) = {q \in InputRefs(t) : consumer_counts'[q] = 0 /\ q \notin OutputRefs}
    BY <1>1, SlotsShape DEF Evicted
  <2>3. ASSUME NEW r \in Refs
        PROVE  Wanted(r)' <=> \/ r \in OutputRefs
                              \/ ConsumerCount(r) = 0
                              \/ consumer_counts'[r] # 0
    BY <1>5, <1>6, SlotsShape DEF Wanted
  <2>4. ASSUME NEW r \in Refs
        PROVE  ConsumerCount(r) = 0 <=> \A u \in Tasks : r \notin InputRefs(u)
    <3>1. ConsumerCount(r) = 0 <=> {s \in Slots : RefOf(s) = r} = {}
      BY SlotsFinite, SplitCardinality DEF ConsumerCount
    <3> QED BY <3>1, SlotsShape
  <2>5. ASSUME NEW r \in Refs
        PROVE  Wanted(r) <=> \/ r \in OutputRefs
                             \/ ConsumerCount(r) = 0
                             \/ \E u \in Tasks : r \in InputRefs(u) /\ u \notin Committed
    BY SlotsShape DEF Wanted
  <2>6. ASSUME NEW r \in Sources \cup Committed
        PROVE  Wanted(r)' <=> Wanted(r) /\ r \notin Evicted(t)
    BY <1>2, <1>6, <2>2, <2>3, <2>4, <2>5 DEF Refs, Committed
  <2>7. t \in Refs /\ t \notin Evicted(t) /\ Wanted(t)'
    BY <1>2, <1>6, <2>2, <2>3, <2>4 DEF Refs, Evicted
  <2> QED BY <1>1, <1>5, <2>1, <2>6, <2>7 DEF StoreExact
<1>14. EndInv'
  <2>1. ~stopped /\ poll # "ended" /\ driver # "finishing" /\ result # "ok"
    BY <1>2 DEF IInv, EndInv
  <2>2. ~stopped' /\ poll' # "ended" /\ driver' # "finishing" /\ result' # "ok"
    BY <1>1, <2>1 DEF driving
  <2>3. ASSUME NEW u \in Tasks, NEW b \in Attempts, pc'[u][b] = "stop"
        PROVE  remaining' = 0
    <3>1. CASE u = t /\ b = a
      <4>1. next = "stop"
        BY <1>4, <2>3, <3>1
      <4> QED BY <1>3, <4>1
    <3>2. CASE u # t \/ b # a
      <4>1. pc[u][b] = "stop"
        BY <1>4, <2>3, <3>2
      <4> QED BY <1>2, <4>1 DEF IInv, EndInv
    <3> QED BY <3>1, <3>2
  <2>4. result' = "none" <=> driver' # "returned"
    BY <1>1 DEF IInv, EndInv, driving
  <2> QED BY <2>2, <2>3, <2>4 DEF EndInv
<1> QED
  BY <1>5, <1>6, <1>10, <1>11, <1>12, <1>13, <1>14 DEF IInv

-----------------------------------------------------------------------------
(* The theorems.                                                            *)

LEMMA InitInv == Init => IInv
<1> SUFFICES ASSUME Init PROVE IInv
  OBVIOUS
<1> USE DEF Init
<1>1. Committed = {}
  BY DEF Committed
<1>2. ASSUME NEW t \in Tasks PROVE DepCount(t) \in Nat
  BY SlotsFinite, SplitCardinality DEF DepCount
<1>3. ASSUME NEW r \in Refs PROVE ConsumerCount(r) \in Nat
  BY SlotsFinite, SplitCardinality DEF ConsumerCount
<1>4. PICK q \in Ascending({t \in Tasks : DepCount(t) = 0}) : ready = q
  OBVIOUS
<1>5. /\ ready \in Seq(Tasks)
      /\ \A i \in 1..Len(ready) : ready[i] \in Tasks /\ DepCount(ready[i]) = 0
      /\ \A i, j \in 1..Len(ready) : ready[i] = ready[j] => i = j
  <2> DEFINE S == {t \in Tasks : DepCount(t) = 0}
  <2>1. S \in SUBSET Tasks
    OBVIOUS
  <2>2. \A u \in S : u \in Tasks /\ DepCount(u) = 0
    OBVIOUS
  <2>3. ready \in Ascending(S)
    OBVIOUS
  <2> HIDE DEF S, Init
  <2> QED BY <2>1, <2>2, <2>3, AscendingSeq
<1>6. TypeOK
  <2>1. /\ remaining_deps \in [Tasks -> Nat] /\ consumer_counts \in [Refs -> Nat]
        /\ remaining \in Nat
        /\ attempt \in [Tasks -> 0..(Retries + 1)]
    BY <1>2, <1>3, CountsAssumption
  <2>2. store \subseteq Refs /\ pc \in [Tasks -> [Attempts -> Stages]]
    BY DEF Refs, Stages
  <2> HIDE DEF Stages, Refs
  <2> QED BY <1>5, <2>1, <2>2 DEF TypeOK
<1>7. ThreadInv
  <2>1. \A a \in Attempts : a > 0
    BY CountsAssumption DEF Attempts
  <2>2. \A t \in Tasks, a \in Attempts : pc[t][a] = "idle" /\ attempt[t] = 0
    OBVIOUS
  <2>3. \A t \in Tasks, a \in Attempts : ~(a < attempt[t]) /\ a > attempt[t]
    BY <2>1, <2>2, CountsAssumption DEF Attempts
  <2> QED BY <2>2, <2>3 DEF ThreadInv, AttemptsInOrder, OrphansExpired, CommitOnce,
             InputsPresent, Admitted
<1>8. CountersExact
  <2>1. remaining = Cardinality(Tasks \ Committed)
    <3>1. Tasks \ Committed = 1..NTasks
      BY <1>1 DEF Tasks
    <3>2. Cardinality(1..NTasks) = NTasks
      BY CountsAssumption, FS_Interval
    <3> QED BY <3>1, <3>2
  <2>2. \A t \in Tasks : remaining_deps[t] =
            Cardinality({s \in Slots : s[1] = t /\ RefOf(s) \in Tasks \ Committed})
    <3>1. Tasks \ Committed = Tasks
      BY <1>1
    <3> QED BY <3>1 DEF DepCount
  <2>3. \A r \in Refs : consumer_counts[r] =
            Cardinality({s \in Slots : s[1] \notin Committed /\ RefOf(s) = r})
    <3> SUFFICES ASSUME NEW r \in Refs
                 PROVE  consumer_counts[r] =
                            Cardinality({s \in Slots : s[1] \notin Committed /\ RefOf(s) = r})
      OBVIOUS
    <3>1. {s \in Slots : s[1] \notin Committed /\ RefOf(s) = r} = {s \in Slots : RefOf(s) = r}
      BY <1>1
    <3> QED BY <3>1 DEF ConsumerCount
  <2> QED BY <2>1, <2>2, <2>3 DEF CountersExact
<1>9. DispatchInv
  BY <1>5 DEF DispatchInv
\* A workflow input nobody consumes is wanted; so is every one with a consumer.
<1>10. StoreExact
  <2>1. ASSUME NEW r \in Sources PROVE Wanted(r)
    <3>1. ConsumerCount(r) = 0 \/ \E s \in Slots : RefOf(s) = r
      BY SlotsFinite, SplitCardinality DEF ConsumerCount
    <3> QED BY <1>1, <3>1 DEF Wanted
  <2> QED BY <1>1, <2>1 DEF StoreExact
<1>11. EndInv
  BY DEF EndInv
<1> QED
  BY <1>6, <1>7, <1>8, <1>9, <1>10, <1>11 DEF IInv

LEMMA NextInv == IInv /\ [Next]_vars => IInv'
<1> SUFFICES ASSUME IInv, [Next]_vars PROVE IInv'
  OBVIOUS
<1>1. CASE Poll \/ SpuriousPoll
  BY <1>1, PollSteps
<1>2. CASE \E t \in Tasks : WorkerStep(t)
  BY <1>2, WorkerSteps
<1>3. CASE \E t \in Tasks, a \in Attempts : ThreadStep(t, a)
  BY <1>3, QuietThreadSteps, CommitStep DEF ThreadStep
<1>4. CASE Expire \/ DriverStep
  BY <1>4, DriverSteps
<1>5. CASE UNCHANGED vars
  <2> USE <1>5 DEF vars, shared, worker, driving
  <2>1. Committed' = Committed
    BY DEF Committed
  <2>2. CountersExact' /\ StoreExact'
    BY <2>1, SharedKept
  <2>3. TypeOK'
    BY DEF IInv, TypeOK
  <2>4. ThreadInv'
    BY DEF IInv, ThreadInv, AttemptsInOrder, OrphansExpired, CommitOnce, InputsPresent
  <2>5. DispatchInv' /\ EndInv'
    BY DEF IInv, DispatchInv, EndInv
  <2> QED BY <2>2, <2>3, <2>4, <2>5 DEF IInv
<1> QED
  BY <1>1, <1>2, <1>3, <1>4, <1>5 DEF Next, Terminated

\* The inductive invariant holds throughout every run.
THEOREM Invariance == Spec => []IInv
<1>1. Init => IInv
  BY InitInv
<1>2. IInv /\ [Next]_vars => IInv'
  BY NextInv
<1> QED
  BY <1>1, <1>2, PTL DEF Spec

\* Every variable keeps its type; in particular no counter of WorkflowState
\* ever drops below zero, so the checked_sub errors of commit_workflow_task
\* cannot be reported.
THEOREM TypeCorrect == Spec => []TypeOK
<1>1. IInv => TypeOK
  BY DEF IInv
<1> QED
  BY <1>1, Invariance, PTL

\* Whatever the number of retries and of threads that outlive their attempt,
\* at most one attempt of a task gets past the first enforce_timeout alive, so
\* no task is committed twice.
THEOREM CommitsOnce == Spec => []CommitOnce
<1>1. IInv => CommitOnce
  BY DEF IInv, ThreadInv
<1> QED
  BY <1>1, Invariance, PTL

\* run_workflow_job always finds its inputs in the artifact store.
THEOREM InputsAlwaysPresent == Spec => []InputsPresent
<1>1. IInv => InputsPresent
  BY DEF IInv, ThreadInv
<1> QED
  BY <1>1, Invariance, PTL

\* remaining, remaining_deps and consumer_counts always count exactly the work
\* that is left, repeated inputs included.
THEOREM CountersAlwaysExact == Spec => []CountersExact
<1>1. IInv => CountersExact
  BY DEF IInv
<1> QED
  BY <1>1, Invariance, PTL

\* evict_consumed_artifacts removes an artifact with its last consumer's
\* commit, never before it and never later.
THEOREM EvictionExact == Spec => []StoreExact
<1>1. IInv => StoreExact
  BY DEF IInv
<1> QED
  BY <1>1, Invariance, PTL

\* A backend that has gone to sleep has left its waker behind and has nothing
\* to hand out: the commit that changes that wakes it up.
THEOREM WakeupsKept == Spec => []NoLostWakeup
<1>1. Init => NoLostWakeup
  BY DEF Init, NoLostWakeup
<1>2. NoLostWakeup /\ [Next]_vars => NoLostWakeup'
  <2> SUFFICES ASSUME NoLostWakeup, [Next]_vars PROVE NoLostWakeup'
    OBVIOUS
  <2> USE DEF NoLostWakeup, shared, worker, driving
  <2>1. CASE Poll \/ SpuriousPoll
    BY <2>1 DEF Poll, PollReady, PollEnd, PollPending, SpuriousPoll
  <2>2. ASSUME NEW t \in Tasks, WorkerStep(t) PROVE NoLostWakeup'
    BY <2>2 DEF WorkerStep, StartJob, JobSucceeds, AttemptFails, AttemptTimeout
  <2>3. ASSUME NEW t \in Tasks, NEW a \in Attempts, ThreadStep(t, a)
        PROVE  NoLostWakeup'
    <3>1. CASE Commit(t, a)
      BY <3>1 DEF Commit, WakeBackend
    <3>2. CASE ~Commit(t, a)
      BY <2>3, <3>2 DEF ThreadStep, BeginAttempt, ResolveInputs, RunOperator,
         OperatorPanics, RecheckTimeout, SpillFails, StopWorker
    <3> QED BY <3>1, <3>2
  <2>4. CASE Expire \/ DriverStep
    BY <2>4 DEF Expire, DriverStep, DriverError, DriverDeadline, DriverTakesStore,
       DriverReturns
  <2>5. CASE UNCHANGED vars
    BY <2>5 DEF vars
  <2> QED BY <2>1, <2>2, <2>3, <2>4, <2>5 DEF Next, Terminated
<1> QED
  BY <1>1, <1>2, PTL DEF Spec

-----------------------------------------------------------------------------
(* No error is lost.                                                        *)

\* Before the deadline, a failed job has no live thread left; every error
\* event comes from a failed job.
FailInv ==
    /\ \A t \in Tasks : job[t] = "failed" /\ ~expired =>
           \A a \in Attempts : pc[t][a] \in Dead
    /\ events # {} => \E t \in Tasks : job[t] = "failed"
    /\ NoErrorSwallowed

\* A step that fails no job, revives no thread and reports no success.
LEMMA FailKept ==
    ASSUME FailInv,
           \A t \in Tasks : job'[t] = "failed" <=> job[t] = "failed",
           \A t \in Tasks, a \in Attempts : pc[t][a] \in Dead => pc'[t][a] \in Dead,
           events' = events,
           expired => expired',
           result' = "ok" => result = "ok"
    PROVE  FailInv'
BY DEF FailInv, NoErrorSwallowed

LEMMA FailWorker ==
    ASSUME IInv, FailInv, NEW t \in Tasks, WorkerStep(t)
    PROVE  FailInv'
<1>1. /\ job \in [Tasks -> {"waiting", "fetched", "running", "succeeded", "failed"}]
      /\ pc \in [Tasks -> [Attempts -> Stages]]
      /\ attempt[t] \in 0..(Retries + 1) /\ Retries \in Nat
      /\ driver = "polling" => result # "ok"
  BY CountsAssumption DEF IInv, TypeOK, EndInv
\* A new attempt takes the place of an idle one, never of a dead one.
<1>2. ASSUME NEW n \in Attempts, n = attempt[t] + 1, pc' = [pc EXCEPT ![t][n] = "begin"]
      PROVE  \A u \in Tasks, a \in Attempts : pc[u][a] \in Dead => pc'[u][a] \in Dead
  <2>1. pc[t][n] = "idle"
    BY <1>1, <1>2 DEF IInv, ThreadInv, AttemptsInOrder
  <2>2. "idle" \notin Dead
    BY DEF Dead, ErrorKinds
  <2> QED BY <1>1, <1>2, <2>1, <2>2
<1>3. ASSUME NEW e \in ErrorKinds, RetryOrFail(t, e), job[t] = "running",
             pc[t][attempt[t]] \in Dead \/ expired,
             UNCHANGED <<expired, driver, result>>, driver = "polling"
      PROVE  FailInv'
  <2>1. CASE attempt[t] <= Retries /\ UNCHANGED <<job, events>>
             /\ pc' = [pc EXCEPT ![t][attempt[t] + 1] = "begin"]
    <3>1. attempt[t] + 1 \in Attempts
      BY <1>1, <2>1 DEF Attempts
    <3> QED BY <1>2, <1>3, <2>1, <3>1, FailKept
  <2>2. CASE /\ attempt[t] > Retries /\ UNCHANGED pc
             /\ job' = [job EXCEPT ![t] = "failed"]
    <3>1. ~expired => \A a \in Attempts : pc[t][a] \in Dead
      <4>1. \A a \in Attempts : a = attempt[t] \/ a < attempt[t]
        BY <1>1, <2>2 DEF Attempts
      <4> QED BY <1>3, <4>1 DEF IInv, ThreadInv, OrphansExpired
    <3>2. job'[t] = "failed" /\ \A u \in Tasks \ {t} : job'[u] = job[u]
      BY <1>1, <2>2
    <3> QED BY <1>1, <1>3, <2>2, <3>1, <3>2 DEF FailInv, NoErrorSwallowed
  <2> QED BY <1>3, <2>1, <2>2 DEF RetryOrFail
<1>4. CASE StartJob(t)
  <2>1. 1 \in Attempts /\ attempt[t] = 0
    BY <1>1, <1>4 DEF StartJob, Attempts, IInv, ThreadInv, AttemptsInOrder
  <2>2. \A u \in Tasks, a \in Attempts : pc[u][a] \in Dead => pc'[u][a] \in Dead
    <3> DEFINE n == 1
    <3>1. n \in Attempts /\ n = attempt[t] + 1 /\ pc' = [pc EXCEPT ![t][n] = "begin"]
      BY <1>4, <2>1 DEF StartJob
    <3> HIDE DEF n
    <3> QED BY <1>2, <3>1
  <2> QED BY <1>1, <1>4, <2>2, FailKept DEF StartJob, driving
<1>5. CASE JobSucceeds(t)
  BY <1>1, <1>5, FailKept DEF JobSucceeds, driving
<1>6. CASE AttemptFails(t)
  BY <1>3, <1>6 DEF AttemptFails, Dead, driving
<1>7. CASE AttemptTimeout(t)
  BY <1>3, <1>7 DEF AttemptTimeout, ErrorKinds, driving
<1> QED
  BY <1>4, <1>5, <1>6, <1>7 DEF WorkerStep

LEMMA FailStep == IInv /\ FailInv /\ [Next]_vars => FailInv'
<1> SUFFICES ASSUME IInv, FailInv, [Next]_vars PROVE FailInv'
  OBVIOUS
<1>1. /\ job \in [Tasks -> {"waiting", "fetched", "running", "succeeded", "failed"}]
      /\ pc \in [Tasks -> [Attempts -> Stages]]
  BY DEF IInv, TypeOK
<1>2. CASE PollReady
  <2>1. Head(ready) = ready[1] /\ 1 \in 1..Len(ready)
    BY <1>2, HeadTailProperties DEF PollReady, IInv, TypeOK
  <2>2. job[Head(ready)] = "waiting"
    BY <2>1 DEF IInv, DispatchInv
  <2> QED BY <1>1, <1>2, <2>2, FailKept DEF PollReady, driving
<1>3. CASE PollEnd \/ PollPending \/ SpuriousPoll
  BY <1>3, FailKept DEF PollEnd, PollPending, SpuriousPoll, driving
<1>4. ASSUME NEW t \in Tasks, NEW a \in Attempts, ThreadStep(t, a)
      PROVE  FailInv'
  <2>1. /\ \E next : MoveTo(t, a, next)
        /\ pc[t][a] \in {"begin", "resolve", "run", "recheck", "commit", "stop"}
        /\ UNCHANGED <<job, events, expired, result>>
    BY <1>4 DEF ThreadStep, BeginAttempt, ResolveInputs, RunOperator, OperatorPanics,
       RecheckTimeout, Commit, SpillFails, StopWorker, worker, driving
  <2>2. \A u \in Tasks, b \in Attempts : pc[u][b] \in Dead => pc'[u][b] \in Dead
    BY <1>1, <2>1 DEF MoveTo, Dead, ErrorKinds
  <2> QED BY <2>1, <2>2, FailKept
<1>5. CASE Expire \/ DriverError \/ DriverDeadline \/ DriverTakesStore
  BY <1>5, FailKept DEF Expire, DriverError, DriverDeadline, DriverTakesStore,
     Return, ErrorKinds, shared, worker, driving, IInv, TypeOK
\* A success is reported before the deadline with every task committed, so no
\* job has failed.
<1>6. CASE DriverReturns
  <2>1. Tasks \subseteq Committed
    BY <1>6, CountersZero DEF DriverReturns, IInv, EndInv
  <2>2. \A t \in Tasks : \E a \in Attempts : pc[t][a] \notin Dead
    BY <2>1 DEF Committed, Dead, ErrorKinds
  <2>3. ~expired => events = {} /\ \A t \in Tasks : job[t] # "failed"
    BY <2>2 DEF FailInv
  <2> QED BY <1>6, <2>3 DEF DriverReturns, Return, FailInv, NoErrorSwallowed, shared, worker
<1>7. CASE UNCHANGED vars
  BY <1>7, FailKept DEF vars, worker, driving
<1> QED
  BY <1>2, <1>3, <1>4, <1>5, <1>6, <1>7, FailWorker
  DEF Next, Poll, DriverStep, Terminated

\* execute_workflow returns Ok only if no job has failed and no error event is
\* waiting to be seen.
THEOREM ErrorsReported == Spec => []NoErrorSwallowed
<1>1. Init => FailInv
  BY DEF Init, FailInv, NoErrorSwallowed
<1>2. IInv /\ FailInv /\ [Next]_vars => FailInv'
  BY FailStep
<1>3. FailInv => NoErrorSwallowed
  BY DEF FailInv
<1> QED
  BY <1>1, <1>2, <1>3, Invariance, PTL DEF Spec

-----------------------------------------------------------------------------
(* The executor follows the plan.                                           *)

Members(q) == {q[i] : i \in DOMAIN q}
Queued == Members(ready)
HandedOut == {t \in Tasks : job[t] # "waiting"}

\* A task with nothing left to wait for has been queued.
NoneForgotten == \A t \in Tasks : remaining_deps[t] = 0 => t \in Queued \cup HandedOut

\* The queue of the backend loses its head and grows at its end.
LEMMA WithoutHead ==
    ASSUME NEW q \in Seq(Tasks), q # <<>>, NEW u, u = Tail(q)
    PROVE  Members(q) = {Head(q)} \cup Members(u)
<1>1. /\ Len(q) \in Nat /\ Len(q) > 0 /\ DOMAIN q = 1..Len(q) /\ Head(q) = q[1]
      /\ DOMAIN u = 1..(Len(q) - 1)
      /\ \A i \in 1..(Len(q) - 1) : u[i] = q[i + 1]
  OBVIOUS
<1>2. ASSUME NEW i \in 1..Len(q)
      PROVE  i = 1 \/ (i - 1 \in 1..(Len(q) - 1) /\ u[i - 1] = q[i])
  BY <1>1
<1>3. ASSUME NEW i \in 1..(Len(q) - 1) PROVE i + 1 \in 1..Len(q) /\ u[i] = q[i + 1]
  BY <1>1
<1>4. Members(q) \subseteq {q[1]} \cup Members(u)
  <2> SUFFICES ASSUME NEW i \in 1..Len(q), i # 1 PROVE q[i] \in Members(u)
    BY <1>1 DEF Members
  <2>1. i - 1 \in DOMAIN u /\ u[i - 1] = q[i]
    BY <1>1, <1>2
  <2> QED
    BY <2>1 DEF Members
<1>5. q[1] \in Members(q)
  BY <1>1 DEF Members
<1>6. Members(u) \subseteq Members(q)
  BY <1>1, <1>3 DEF Members
<1> QED
  BY <1>1, <1>4, <1>5, <1>6

LEMMA WithMore ==
    ASSUME NEW q \in Seq(Tasks), NEW r \in Seq(Tasks)
    PROVE  Members(q \o r) = Members(q) \cup Members(r)
<1> DEFINE m == Len(q)
           n == Len(r)
           s == q \o r
<1>1. /\ m \in Nat /\ n \in Nat /\ DOMAIN q = 1..m /\ DOMAIN r = 1..n /\ DOMAIN s = 1..(m + n)
      /\ \A i \in 1..(m + n) : s[i] = IF i <= m THEN q[i] ELSE r[i - m]
  BY LenProperties, ConcatProperties
<1> HIDE DEF m, n, s
<1>2. ASSUME NEW i \in 1..(m + n)
      PROVE  (i \in 1..m /\ s[i] = q[i]) \/ (i - m \in 1..n /\ s[i] = r[i - m])
  <2>1. CASE i <= m
    BY <1>1, <2>1
  <2>2. CASE ~(i <= m)
    <3>1. s[i] = r[i - m]
      BY <1>1, <2>2
    <3>2. i - m \in 1..n
      BY <1>1, <2>2
    <3> QED
      BY <3>1, <3>2
  <2> QED
    BY <2>1, <2>2
<1>3. ASSUME NEW i \in 1..m PROVE i \in 1..(m + n) /\ s[i] = q[i]
  BY <1>1
<1>4. ASSUME NEW i \in 1..n PROVE i + m \in 1..(m + n) /\ s[i + m] = r[i]
  BY <1>1
<1>5. Members(s) \subseteq Members(q) \cup Members(r)
  BY <1>1, <1>2 DEF Members
<1>6. Members(q) \subseteq Members(s)
  BY <1>1, <1>3 DEF Members
<1>7. Members(r) \subseteq Members(s)
  <2> SUFFICES ASSUME NEW x \in Members(r) PROVE x \in Members(s)
    OBVIOUS
  <2>1. PICK i \in 1..n : x = r[i]
    BY <1>1 DEF Members
  <2>2. i + m \in DOMAIN s /\ s[i + m] = x
    BY <1>1, <1>4, <2>1
  <2> QED
    BY <2>2 DEF Members
<1>8. Members(s) = Members(q) \cup Members(r)
  BY <1>5, <1>6, <1>7
<1> QED
  BY <1>8 DEF s

\* The sorted newly ready tasks are all of them.
LEMMA AscendingLists ==
    ASSUME NEW S \in SUBSET Tasks, NEW q \in Ascending(S)
    PROVE  q \in Seq(Tasks) /\ Members(q) = S
<1>1. q \in Seq(Tasks)
  BY AscendingSeq
<1>2. DOMAIN q = 1..Cardinality(S) /\ S = {q[i] : i \in 1..Cardinality(S)}
  BY DEF Ascending
<1> QED
  BY <1>1, <1>2 DEF Members

LEMMA CommitForgetsNone ==
    ASSUME IInv, NoneForgotten, NEW t \in Tasks, NEW a \in Attempts, Commit(t, a)
    PROVE  NoneForgotten'
<1>1. PICK released \in Ascending(Released(t)) : ready' = ready \o released
  BY DEF Commit
<1>2. Released(t) \in SUBSET Tasks
  BY DEF Released, Dependents
<1>3. released \in Seq(Tasks) /\ Members(released) = Released(t)
  BY <1>2, AscendingLists
<1>4. Queued' = Queued \cup Released(t)
  <2>1. ready \in Seq(Tasks)
    BY DEF IInv, TypeOK
  <2>2. PICK q \in Seq(Tasks), r \in Seq(Tasks) : q = ready /\ r = released
    BY <1>3, <2>1
  <2>3. Members(q \o r) = Members(q) \cup Members(r)
    BY WithMore
  <2>4. ready' = q \o r
    BY <1>1, <2>2
  <2>5. PICK both : both = ready'
    OBVIOUS
  <2>6. Queued' = Members(both)
    BY <2>5 DEF Queued, Members
  <2> QED
    BY <1>3, <2>2, <2>3, <2>4, <2>5, <2>6 DEF Queued
<1>5. HandedOut' = HandedOut
  BY DEF Commit, HandedOut
<1>6. ASSUME NEW u \in Tasks, remaining_deps'[u] = 0 PROVE u \in Queued' \cup HandedOut'
  <2>1. remaining_deps[u] - Occurrences(u, t) = 0
    BY <1>6 DEF Commit
  <2>2. remaining_deps[u] \in Nat /\ Occurrences(u, t) \in Nat
    BY OccurrencesCount DEF IInv, TypeOK, Refs
  <2>3. CASE Occurrences(u, t) = 0
    BY <1>4, <1>5, <2>1, <2>2, <2>3 DEF NoneForgotten
  <2>4. CASE Occurrences(u, t) > 0
    BY <1>4, <2>1, <2>4 DEF Released, Dependents
  <2> QED
    BY <2>2, <2>3, <2>4
<1> QED
  BY <1>6 DEF NoneForgotten

LEMMA ForgetsNone == IInv /\ NoneForgotten /\ [Next]_vars => NoneForgotten'
<1> SUFFICES ASSUME IInv, NoneForgotten, [Next]_vars PROVE NoneForgotten'
  OBVIOUS
\* Most steps leave the queue alone and hand no task back.
<1>1. ASSUME UNCHANGED <<ready, remaining_deps>>, HandedOut \subseteq HandedOut'
      PROVE  NoneForgotten'
  BY <1>1 DEF NoneForgotten, Queued
<1>2. CASE Poll \/ SpuriousPoll
  <2>1. CASE PollReady
    <3>1. ready \in Seq(Tasks) /\ ready # <<>> /\ \E J : job \in [Tasks -> J]
      BY <2>1 DEF PollReady, IInv, TypeOK
    <3>2. Queued = {Head(ready)} \cup Queued'
      BY <2>1, <3>1, WithoutHead DEF PollReady, Queued
    <3>3. HandedOut' = HandedOut \cup {Head(ready)}
      <4>1. Head(ready) \in Tasks
        BY <3>1
      <4> QED
        BY <2>1, <3>1, <4>1 DEF PollReady, HandedOut
    <3> QED
      BY <2>1, <3>2, <3>3 DEF PollReady, NoneForgotten
  <2>2. CASE PollEnd \/ PollPending \/ SpuriousPoll
    BY <1>1, <2>2 DEF PollEnd, PollPending, SpuriousPoll, shared, HandedOut
  <2> QED
    BY <1>2, <2>1, <2>2 DEF Poll
<1>3. ASSUME NEW t \in Tasks, WorkerStep(t) PROVE NoneForgotten'
  <2>1. UNCHANGED <<ready, remaining_deps>>
    BY <1>3 DEF WorkerStep, StartJob, JobSucceeds, AttemptFails, AttemptTimeout, shared
  <2>2. \E J : job \in [Tasks -> J]
    BY DEF IInv, TypeOK
  <2>3. HandedOut \subseteq HandedOut'
    BY <1>3, <2>2 DEF HandedOut, WorkerStep, StartJob, JobSucceeds, AttemptFails,
       AttemptTimeout, RetryOrFail
  <2> QED
    BY <1>1, <2>1, <2>3
<1>4. ASSUME NEW t \in Tasks, NEW a \in Attempts, ThreadStep(t, a) PROVE NoneForgotten'
  <2>1. CASE Commit(t, a)
    BY <2>1, CommitForgetsNone
  <2>2. CASE ~Commit(t, a)
    <3>1. UNCHANGED <<ready, remaining_deps, job>>
      BY <1>4, <2>2 DEF ThreadStep, BeginAttempt, ResolveInputs, RunOperator, OperatorPanics,
         RecheckTimeout, SpillFails, StopWorker, shared, worker
    <3> QED
      BY <1>1, <3>1 DEF HandedOut
  <2> QED
    BY <2>1, <2>2
<1>5. CASE Expire \/ DriverStep \/ UNCHANGED vars
  BY <1>1, <1>5 DEF Expire, DriverStep, DriverError, DriverDeadline, DriverTakesStore,
     DriverReturns, vars, shared, worker, HandedOut
<1> QED
  BY <1>2, <1>3, <1>4, <1>5 DEF Next, Terminated

\* The executor's workflow in the planner's form: same tasks, same graph.
LEMMA WorkflowsAgree ==
    /\ TasksAreLists(ExecutedWorkflow)
    /\ Len(ExecutedWorkflow.tasks) = NTasks
    /\ Numbers(ExecutedWorkflow.tasks) = Tasks
    /\ DistinctTaskIds(ExecutedWorkflow)
    /\ \A t \in Tasks : Deps(ExecutedWorkflow, t) = InputRefs(t) \cap Tasks
<1> DEFINE tasks == ExecutedWorkflow.tasks
<1>1. tasks = [t \in 1..NTasks |-> [id |-> t, inputs |-> TaskInputs[t]]] /\ NTasks \in Nat
  BY CountsAssumption DEF ExecutedWorkflow, Tasks
<1>2. \A t \in Tasks : tasks[t].id = t /\ tasks[t].inputs = TaskInputs[t]
  BY <1>1 DEF Tasks
<1>3. \A t \in Tasks : tasks[t] \in Range(tasks)
  BY <1>1 DEF Range, Tasks
<1> HIDE DEF tasks
<1>4. tasks \in Seq(Range(tasks)) /\ Len(tasks) = NTasks
  <2>1. tasks \in [1..NTasks -> Range(tasks)]
    BY <1>1, <1>3 DEF Tasks
  <2> QED
    BY <1>1, <2>1
<1>5. Numbers(tasks) = Tasks
  BY <1>4 DEF Numbers, Tasks
<1>6. ASSUME NEW t \in Tasks
      PROVE  /\ IsSequence(TaskInputs[t])
             /\ Numbers(TaskInputs[t]) = DOMAIN TaskInputs[t]
  <2>1. PICK n \in Nat : TaskInputs[t] \in [1..n -> Refs]
    <3>1. TaskInputs[t] \in Seq(Refs)
      BY WorkflowAssumption
    <3> QED
      BY <3>1
  <2>2. TaskInputs[t] \in [1..n -> Range(TaskInputs[t])]
    BY <2>1 DEF Range
  <2>3. TaskInputs[t] \in Seq(Range(TaskInputs[t]))
    BY <2>2
  <2>4. Len(TaskInputs[t]) = n
    BY <2>1
  <2> QED
    BY <2>1, <2>3, <2>4 DEF IsSequence, Numbers
<1>7. TasksAreLists(ExecutedWorkflow)
  <2>1. \A t \in Tasks : IsSequence(tasks[t].inputs)
    BY <1>2, <1>6
  <2> QED
    BY <1>4, <1>5, <2>1 DEF TasksAreLists, IsSequence, tasks
<1>8. DistinctTaskIds(ExecutedWorkflow)
  BY <1>2, <1>5 DEF DistinctTaskIds, tasks
<1>9. ASSUME NEW t \in Tasks PROVE Deps(ExecutedWorkflow, t) = InputRefs(t) \cap Tasks
  <2>1. Deps(ExecutedWorkflow, t) =
            {d \in Tasks : \E i \in DOMAIN TaskInputs[t] : TaskInputs[t][i] = d}
    BY <1>2, <1>5, <1>6 DEF Deps, tasks
  <2> QED
    BY <2>1 DEF InputRefs
<1> QED
  BY <1>4, <1>5, <1>7, <1>8, <1>9 DEF tasks

\* validate_workflow's plan has every task of the executor, each behind what it reads.
LEMMA PlanOrders ==
    ASSUME NEW t \in Tasks, NEW d \in InputRefs(t) \cap Tasks
    PROVE  LayerOf(d) < LayerOf(t)
<1> DEFINE w == ExecutedWorkflow
           layers == Plan.layers
<1>1. /\ TasksAreLists(w) /\ DistinctTaskIds(w)
      /\ Len(w.tasks) = NTasks /\ Numbers(w.tasks) = Tasks
      /\ \A u \in Tasks : Deps(w, u) = InputRefs(u) \cap Tasks
  BY WorkflowsAgree
<1>2. layers = KahnPass(w).layers
  BY DEF Plan, ExecutionPlan
<1> HIDE DEF w, layers
<1>3. Acyclic(w)
  <2>1. PICK rank \in [Tasks -> Tasks] :
            \A u \in Tasks : \A i \in DOMAIN TaskInputs[u] :
                TaskInputs[u][i] \in Tasks => rank[TaskInputs[u][i]] < rank[u]
    BY AcyclicAssumption
  <2>2. ASSUME NEW u \in Tasks, NEW v \in Deps(w, u) PROVE rank[v] < rank[u]
    BY <1>1, <2>1 DEF InputRefs
  <2>3. ASSUME NEW S \in SUBSET Tasks, S # {} PROVE \E u \in S : S \cap Deps(w, u) = {}
    <3> DEFINE ranks == {rank[u] : u \in S}
    <3>1. ranks \in SUBSET Nat /\ ranks # {}
      <4>1. Tasks \subseteq Nat
        BY CountsAssumption DEF Tasks
      <4> QED
        BY <2>1, <2>3, <4>1
    <3> HIDE DEF ranks
    <3>2. PICK n \in ranks : \A m \in ranks : n <= m
      BY <3>1, LeastNumber
    <3>3. PICK u \in S : n = rank[u]
      BY <3>2 DEF ranks
    <3>4. \A v \in S : rank[u] <= rank[v]
      BY <3>2, <3>3 DEF ranks
    <3>5. \A v \in S : v \notin Deps(w, u)
      <4>1. \A v \in S : rank[v] \in Int /\ rank[u] \in Int
        BY CountsAssumption DEF Tasks
      <4> QED
        BY <2>2, <3>4, <4>1
    <3> QED
      BY <3>5
  <2> QED
    BY <1>1, <2>3 DEF Acyclic
<1>4. RoundInv(w, KahnPass(w), Tasks)
  BY <1>1, <1>3, AllEmittedIffAcyclic, FullPass
<1>5. /\ layers \in Seq(Seq(Nat)) /\ LayeredByReadiness(w, layers)
      /\ InLayers(layers) = Tasks /\ DOMAIN layers = Numbers(layers)
      /\ Len(layers) \in Nat
  BY <1>2, <1>4 DEF RoundInv, Passes, Numbers
<1>6. ASSUME NEW u \in Tasks
      PROVE  LayerOf(u) \in Numbers(layers) /\ u \in Elements(layers[LayerOf(u)])
  <2>1. \A k \in Numbers(layers) :
            u \in Elements(layers[k]) <=> \E i \in DOMAIN layers[k] : layers[k][i] = u
    <3>1. \A k \in Numbers(layers) : layers[k] \in Seq(Nat)
      BY <1>5
    <3>2. \A k \in Numbers(layers) : DOMAIN layers[k] = Numbers(layers[k])
      BY <3>1 DEF Numbers
    <3> QED
      BY <3>2 DEF Elements
  <2>2. \E k \in Numbers(layers) : u \in Elements(layers[k])
    BY <1>5 DEF InLayers
  <2>3. LayerOf(u) = CHOOSE n \in DOMAIN layers : \E i \in DOMAIN layers[n] : layers[n][i] = u
    BY DEF LayerOf, layers
  <2> QED
    BY <1>5, <2>1, <2>2, <2>3
<1>7. t \in Ready(w, Before(layers, LayerOf(t)))
  BY <1>5, <1>6 DEF LayeredByReadiness
<1>8. d \in Before(layers, LayerOf(t))
  BY <1>1, <1>7 DEF Ready
<1>9. PICK m \in 1..(LayerOf(t) - 1) : d \in Elements(layers[m])
  BY <1>8 DEF Before
<1>10. m \in Numbers(layers) /\ m < LayerOf(t)
  <2>1. PICK n \in Nat : n = Len(layers)
    BY <1>5
  <2>2. PICK k \in 1..n : k = LayerOf(t)
    BY <1>6, <2>1 DEF Numbers
  <2>3. m \in 1..(k - 1)
    BY <2>2
  <2>4. m \in 1..n /\ m < k
    BY <2>1, <2>2, <2>3
  <2> QED
    BY <2>1, <2>2, <2>4 DEF Numbers
<1>11. m = LayerOf(d)
  BY <1>5, <1>6, <1>9, <1>10, OneLayerEach
<1> QED
  BY <1>10, <1>11

\* Whatever the interleaving, the retries and the threads that outlive their
\* attempts, the tasks queued or handed to the worker are at every moment
\* exactly those whose inputs from earlier layers of the plan are committed:
\* no task starts early, none is forgotten.
THEOREM PlanFollowed == Spec => []DispatchFollowsPlan
<1>1. Init => NoneForgotten
  <2> SUFFICES ASSUME Init PROVE NoneForgotten
    OBVIOUS
  <2>1. PICK S \in SUBSET Tasks : S = {t \in Tasks : DepCount(t) = 0}
    OBVIOUS
  <2>2. Queued = S
    BY <2>1, AscendingLists DEF Init, Queued
  <2>3. \A t \in Tasks : remaining_deps[t] = DepCount(t)
    BY DEF Init
  <2> QED
    BY <2>1, <2>2, <2>3 DEF NoneForgotten
<1>2. IInv /\ NoneForgotten /\ [Next]_vars => NoneForgotten'
  BY ForgetsNone
<1>3. IInv /\ NoneForgotten => DispatchFollowsPlan
  <2> SUFFICES ASSUME IInv, NoneForgotten PROVE DispatchFollowsPlan
    OBVIOUS
  <2>1. ASSUME NEW t \in Tasks
        PROVE  {d \in InputRefs(t) \cap Tasks : LayerOf(d) < LayerOf(t)} = InputRefs(t) \cap Tasks
    BY PlanOrders
  <2>2. \A t \in Tasks : remaining_deps[t] = 0 <=> InputRefs(t) \cap Tasks \subseteq Committed
    BY CountersZero DEF IInv
  <2>3. ready \in Seq(Tasks)
    BY DEF IInv, TypeOK
  <2>4. \A t \in Queued : t \in Tasks /\ remaining_deps[t] = 0
    <3>1. DOMAIN ready = 1..Len(ready) /\ \A i \in 1..Len(ready) : ready[i] \in Tasks
      BY <2>3
    <3> QED
      BY <3>1 DEF Queued, Members, IInv, DispatchInv
  <2>5. \A t \in HandedOut : t \in Tasks /\ remaining_deps[t] = 0
    BY DEF HandedOut, IInv, DispatchInv
  <2>6. Queued \cup HandedOut = {t \in Tasks : InputRefs(t) \cap Tasks \subseteq Committed}
    BY <2>2, <2>4, <2>5 DEF NoneForgotten
  <2>7. \A t \in Tasks : InputRefs(t) \cap Tasks \subseteq Committed <=>
            {d \in InputRefs(t) \cap Tasks : LayerOf(d) < LayerOf(t)} \subseteq Committed
    BY <2>1
  <2> HIDE DEF LayerOf, InputRefs
  <2> QED
    BY <2>6, <2>7 DEF DispatchFollowsPlan, Queued, Members, HandedOut
<1> QED
  BY <1>1, <1>2, <1>3, Invariance, PTL DEF Spec

-----------------------------------------------------------------------------
(* The executor implements WorkflowContract.                                *)

LEMMA ContractStep ==
    IInv /\ [Next]_vars => [Contract!Next]_(Contract!contractVars)
<1> SUFFICES ASSUME IInv, [Next]_vars
             PROVE  [Contract!Next]_(Contract!contractVars)
  OBVIOUS
<1> USE DEF Contract!contractVars
\* Nothing but a commit and a return is visible.
<1>1. ASSUME Committed' = Committed, UNCHANGED <<result, taken>>
      PROVE  UNCHANGED Contract!contractVars
  BY <1>1
<1>2. CASE Poll \/ SpuriousPoll \/ Expire \/ UNCHANGED vars
  BY <1>1, <1>2 DEF Poll, PollReady, PollEnd, PollPending, SpuriousPoll, Expire,
     vars, driving, Committed
<1>3. ASSUME NEW t \in Tasks, NEW a \in Attempts, Commit(t, a)
      PROVE  Contract!Next
  <2>1. /\ t \notin Committed
        /\ InputRefs(t) \cap Tasks \subseteq Committed
        /\ Committed' = Committed \cup {t}
        /\ UNCHANGED <<result, taken>>
    BY <1>3, WorkingTask, CommitStep DEF Commit, driving
  <2>2. Contract!Complete(t)
    BY <2>1 DEF Contract!Complete
  <2> QED BY <2>2 DEF Contract!Next
<1>4. ASSUME NEW t \in Tasks, WorkerStep(t)
      PROVE  UNCHANGED Contract!contractVars
  <2>1. UNCHANGED <<result, taken>>
    BY <1>4 DEF WorkerStep, StartJob, JobSucceeds, AttemptFails, AttemptTimeout, driving
  <2> QED BY <1>1, <1>4, <2>1, WorkerSteps
<1>5. ASSUME NEW t \in Tasks, NEW a \in Attempts, ThreadStep(t, a), ~Commit(t, a)
      PROVE  UNCHANGED Contract!contractVars
  <2>1. UNCHANGED <<result, taken>>
    BY <1>5 DEF ThreadStep, BeginAttempt, ResolveInputs, RunOperator, OperatorPanics,
       RecheckTimeout, SpillFails, StopWorker, driving
  <2> QED BY <1>1, <1>5, <2>1, QuietThreadSteps DEF ThreadStep
<1>6. CASE DriverStep
  <2>1. Committed' = Committed
    BY <1>6 DEF DriverStep, DriverError, DriverDeadline, DriverTakesStore,
       DriverReturns, Committed
  <2>2. driver \in {"polling", "finishing"} => result = "none"
    BY DEF IInv, EndInv
  <2>3. CASE DriverError \/ DriverDeadline
    <3>1. Contract!ReturnErr
      BY <2>1, <2>2, <2>3 DEF DriverError, DriverDeadline, Return, Contract!ReturnErr,
         ErrorKinds, IInv, TypeOK
    <3> QED BY <3>1 DEF Contract!Next
  <2>4. CASE DriverTakesStore
    BY <2>1, <2>2, <2>4 DEF DriverTakesStore
  <2>5. CASE DriverReturns /\ expired
    <3>1. Contract!ReturnErr
      BY <2>1, <2>2, <2>5 DEF DriverReturns, Return, Contract!ReturnErr, ErrorKinds
    <3> QED BY <3>1 DEF Contract!Next
  <2>6. CASE DriverReturns /\ ~expired
    <3>1. Committed = Tasks
      BY <2>6, CountersZero DEF DriverReturns, IInv, EndInv, Committed
    <3>2. OutputRefs \subseteq taken /\ taken \in SUBSET (Sources \cup Tasks)
      BY <2>6 DEF DriverReturns, IInv, EndInv, TypeOK, Refs
    <3>3. Contract!ReturnOk
      BY <2>1, <2>2, <2>6, <3>1, <3>2 DEF DriverReturns, Return, Contract!ReturnOk
    <3> QED BY <3>3 DEF Contract!Next
  <2> QED BY <1>6, <2>3, <2>4, <2>5, <2>6 DEF DriverStep
<1> QED
  BY <1>2, <1>3, <1>4, <1>5, <1>6 DEF Next, Terminated

\* Every run of the executor, seen through the set of committed tasks and the
\* value execute_workflow returns, is a run of its contract: no task completes
\* twice or before its dependencies, the call returns once, and it returns Ok
\* only with every task committed and every output in the store.
THEOREM ExecutorImplementsContract == Spec => ImplementsContract
<1>1. Init => Contract!Init
  BY DEF Init, Contract!Init, Committed
<1>2. IInv /\ [Next]_vars => [Contract!Next]_(Contract!contractVars)
  BY ContractStep
<1> QED
  BY <1>1, <1>2, Invariance, PTL DEF Spec, ImplementsContract, Contract!Spec
=============================================================================
