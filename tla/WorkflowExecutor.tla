-------------------------- MODULE WorkflowExecutor --------------------------
(***************************************************************************)
(* The globally concurrent DAG executor of oxidepdf-core: execute_workflow *)
(* after validation.  A single apalis worker polls WorkflowBackend for     *)
(* ready tasks; every task attempt runs run_workflow_job on its own        *)
(* blocking thread, which nothing can cancel; all of them share one        *)
(* WorkflowState behind a mutex.  Each action below is one critical        *)
(* section or one step between two of them.                                *)
(*                                                                         *)
(* Wall-clock time is one boolean: `expired` says that the time since      *)
(* started_at has reached timeout_ms.  The retry, timeout and concurrency  *)
(* layers of apalis are external; they are modelled from the way           *)
(* run_apalis_workflow stacks them (see README.md).                        *)
(***************************************************************************)
EXTENDS Integers, Sequences, FiniteSets

CONSTANTS
    NTasks,      \* workflow.tasks.len(); a task is its index, from 1
    Sources,     \* ids of workflow.inputs
    TaskInputs,  \* TaskInputs[t]: the artifact refs task t consumes, in order
    OutputRefs,  \* the refs named by workflow.outputs
    MaxParallel, \* limits.max_parallel_tasks, or the number of tasks
    Retries,     \* limits.retry_attempts, or 0
    HasTimeout,  \* limits.timeout_ms is set
    Faults       \* which of "operator", "panic", "storage" may go wrong

Tasks == 1..NTasks
Attempts == 1..(Retries + 1)
\* A task's artifact is stored under the task's id.
Refs == Sources \cup Tasks

ASSUME CountsAssumption ==
    /\ NTasks \in Nat \ {0}
    /\ MaxParallel \in Nat \ {0}
    /\ Retries \in Nat
    /\ HasTimeout \in BOOLEAN
    /\ Faults \subseteq {"operator", "panic", "storage"}
    /\ Sources \cap Tasks = {}

\* validate_workflow has accepted the workflow: references exist, every task
\* reads something, and the task graph has no cycle.
ASSUME WorkflowAssumption ==
    /\ TaskInputs \in [Tasks -> Seq(Refs)]
    /\ \A t \in Tasks : TaskInputs[t] # <<>>
    /\ OutputRefs \subseteq Refs
ASSUME AcyclicAssumption ==
    \E rank \in [Tasks -> Tasks] : \A t \in Tasks : \A i \in DOMAIN TaskInputs[t] :
        TaskInputs[t][i] \in Tasks => rank[TaskInputs[t][i]] < rank[t]

VARIABLES
    \* WorkflowState, under the mutex
    store,            \* refs present in the ArtifactStore
    remaining_deps,   \* per task: input occurrences still to be produced
    ready,            \* FIFO of task indices
    consumer_counts,  \* per ref: input occurrences not yet consumed
    remaining,        \* tasks not yet committed
    waker,            \* is the backend's waker registered?
    \* the apalis worker and its layers (external)
    poll,             \* the backend stream: "awake", "parked" or "ended"
    job,              \* per task: where the worker has got with it
    attempt,          \* per task: number of its latest attempt
    stopped,          \* worker.stop() was called
    events,           \* errors of failed jobs, not yet seen by the driver
    \* the blocking threads, one per attempt
    pc,
    \* the clock
    expired,
    \* run_apalis_workflow's event loop, the value it returns, the store it takes
    driver, result, taken

shared == <<store, remaining_deps, ready, consumer_counts, remaining, waker>>
worker == <<poll, job, attempt, stopped, events>>
driving == <<driver, result, taken>>
vars == <<shared, worker, pc, expired, driving>>

-----------------------------------------------------------------------------
(* The input occurrences of the workflow, as <<task, position>> pairs: a    *)
(* task that lists an artifact twice counts it twice, as the code does.     *)

Slots == UNION {{t} \X DOMAIN TaskInputs[t] : t \in Tasks}
RefOf(s) == TaskInputs[s[1]][s[2]]
InputRefs(t) == {TaskInputs[t][i] : i \in DOMAIN TaskInputs[t]}
\* How often task t consumes r.
Occurrences(t, r) == Cardinality({s \in Slots : s[1] = t /\ RefOf(s) = r})

\* task_dependencies: remaining_deps and, as a relation, dependents.
\* Mutant: counts distinct dependencies.
DepCountDistinct(t) == Cardinality(InputRefs(t) \cap Tasks)
DepCount(t) == Cardinality({s \in Slots : s[1] = t /\ RefOf(s) \in Tasks})
Dependents(t) == {u \in Tasks : Occurrences(u, t) > 0}

\* artifact_consumer_counts.
\* Mutant: counts consuming tasks, not input occurrences.
ConsumerTasks(r) == Cardinality({t \in Tasks : r \in InputRefs(t)})
ConsumerCount(r) == Cardinality({s \in Slots : RefOf(s) = r})

\* The tasks of S in index order: a set of exactly one sequence.
Ascending(S) ==
    {q \in [1..Cardinality(S) -> S] :
        /\ \A i, j \in 1..Cardinality(S) : i < j => q[i] < q[j]
        /\ S = {q[i] : i \in 1..Cardinality(S)}}

ErrorKinds == {"operator", "storage", "timeout", "internal", "missing"}
\* A thread that has passed the first enforce_timeout and not failed.
Admitted == {"resolve", "run", "recheck", "commit", "stop", "ok"}
\* A thread that is gone without having committed.
Dead == ErrorKinds \cup {"lost"}

Committed == {t \in Tasks : \E a \in Attempts : pc[t][a] \in {"stop", "ok"}}

-----------------------------------------------------------------------------
Init ==
    /\ store = Sources
    /\ remaining_deps = [t \in Tasks |-> DepCount(t)]
    /\ ready \in Ascending({t \in Tasks : DepCount(t) = 0})
    /\ consumer_counts = [r \in Refs |-> ConsumerCount(r)]
    /\ remaining = NTasks
    /\ waker = FALSE
    /\ poll = "awake"
    /\ job = [t \in Tasks |-> "waiting"]
    /\ attempt = [t \in Tasks |-> 0]
    /\ stopped = FALSE
    /\ events = {}
    /\ pc = [t \in Tasks |-> [a \in Attempts |-> "idle"]]
    /\ expired = FALSE
    /\ driver = "polling"
    /\ result = "none"
    /\ taken = {}

-----------------------------------------------------------------------------
(* The backend stream, WorkflowBackend::poll_next, polled by the worker     *)
(* while the driver awaits its next event.                                  *)

PollReady ==
    /\ driver = "polling" /\ poll = "awake"
    /\ ready # <<>>
    /\ job' = [job EXCEPT ![Head(ready)] = "fetched"]
    /\ ready' = Tail(ready)
    /\ UNCHANGED <<store, remaining_deps, consumer_counts, remaining, waker,
                   poll, attempt, stopped, events, pc, expired, driving>>

PollEnd ==
    /\ driver = "polling" /\ poll = "awake"
    /\ ready = <<>> /\ remaining = 0
    /\ poll' = "ended"
    /\ UNCHANGED <<shared, job, attempt, stopped, events, pc, expired, driving>>

\* Mutant: parks without leaving a waker behind.
PollPendingNoWaker ==
    /\ driver = "polling" /\ poll = "awake"
    /\ ready = <<>> /\ remaining # 0
    /\ poll' = "parked"
    /\ UNCHANGED <<shared, job, attempt, stopped, events, pc, expired, driving>>
PollPending ==
    /\ driver = "polling" /\ poll = "awake"
    /\ ready = <<>> /\ remaining # 0
    /\ waker' = TRUE
    /\ poll' = "parked"
    /\ UNCHANGED <<store, remaining_deps, ready, consumer_counts, remaining,
                   job, attempt, stopped, events, pc, expired, driving>>

\* The executor may poll a parked stream again without a wake-up.
SpuriousPoll ==
    /\ driver = "polling" /\ poll = "parked"
    /\ poll' = "awake"
    /\ UNCHANGED <<shared, job, attempt, stopped, events, pc, expired, driving>>

-----------------------------------------------------------------------------
(* The layers around the handler: concurrency, then retry, then timeout,    *)
(* then one blocking thread per attempt (parallelize).                      *)

\* The concurrency layer lets a fetched task in: its first attempt spawns.
StartJob(t) ==
    /\ driver = "polling"
    /\ job[t] = "fetched"
    /\ Cardinality({u \in Tasks : job[u] = "running"}) < MaxParallel
    /\ job' = [job EXCEPT ![t] = "running"]
    /\ attempt' = [attempt EXCEPT ![t] = 1]
    /\ pc' = [pc EXCEPT ![t][1] = "begin"]
    /\ UNCHANGED <<shared, poll, stopped, events, expired, driving>>

\* The current attempt of t failed with e: spawn the next one, or give up.
RetryOrFail(t, e) ==
    \/ /\ attempt[t] <= Retries
       /\ attempt' = [attempt EXCEPT ![t] = @ + 1]
       /\ pc' = [pc EXCEPT ![t][attempt[t] + 1] = "begin"]
       /\ UNCHANGED <<job, events>>
    \/ /\ attempt[t] > Retries
       /\ job' = [job EXCEPT ![t] = "failed"]
       /\ events' = events \cup {e}
       /\ UNCHANGED <<attempt, pc>>

JobSucceeds(t) ==
    /\ driver = "polling"
    /\ job[t] = "running"
    /\ pc[t][attempt[t]] = "ok"
    /\ job' = [job EXCEPT ![t] = "succeeded"]
    /\ UNCHANGED <<shared, poll, attempt, stopped, events, pc, expired, driving>>

AttemptFails(t) ==
    /\ driver = "polling"
    /\ job[t] = "running"
    /\ pc[t][attempt[t]] \in ErrorKinds
    /\ RetryOrFail(t, pc[t][attempt[t]])
    /\ UNCHANGED <<shared, poll, stopped, expired, driving>>

\* TimeoutLayer gives up on an attempt whose thread has not answered; the
\* thread itself goes on.  Every attempt gets the whole timeout_ms and starts
\* after started_at, so this cannot happen before the workflow deadline.
AttemptTimeout(t) ==
    /\ driver = "polling"
    /\ expired
    /\ job[t] = "running"
    /\ pc[t][attempt[t]] \notin ErrorKinds \cup {"ok"}
    /\ RetryOrFail(t, "internal")
    /\ UNCHANGED <<shared, poll, stopped, expired, driving>>

-----------------------------------------------------------------------------
(* run_workflow_job on its blocking thread.                                 *)

MoveTo(t, a, next) == pc' = [pc EXCEPT ![t][a] = next]

\* Mutant: run_workflow_job without its first enforce_timeout.
BeginUnchecked(t, a) ==
    /\ pc[t][a] = "begin"
    /\ MoveTo(t, a, "resolve")
    /\ UNCHANGED <<shared, worker, expired, driving>>
BeginAttempt(t, a) ==
    /\ pc[t][a] = "begin"
    /\ MoveTo(t, a, IF expired THEN "timeout" ELSE "resolve")
    /\ UNCHANGED <<shared, worker, expired, driving>>

\* First critical section: clone the inputs out of the store.
ResolveInputs(t, a) ==
    /\ pc[t][a] = "resolve"
    /\ MoveTo(t, a, IF InputRefs(t) \subseteq store THEN "run" ELSE "missing")
    /\ UNCHANGED <<shared, worker, expired, driving>>

\* runner.run(task, inputs).await outside the lock.
RunOperator(t, a) ==
    /\ pc[t][a] = "run"
    /\ \/ MoveTo(t, a, "recheck")
       \/ "operator" \in Faults /\ MoveTo(t, a, "operator")
    /\ UNCHANGED <<shared, worker, expired, driving>>

\* The operator panics.  The JoinHandle resolves to a JoinError; whether the
\* job then fails or never answers is up to apalis.
OperatorPanics(t, a) ==
    /\ "panic" \in Faults
    /\ pc[t][a] = "run"
    /\ \E next \in {"internal", "lost"} : MoveTo(t, a, next)
    /\ UNCHANGED <<shared, worker, expired, driving>>

RecheckTimeout(t, a) ==
    /\ pc[t][a] = "recheck"
    /\ MoveTo(t, a, IF expired THEN "timeout" ELSE "commit")
    /\ UNCHANGED <<shared, worker, expired, driving>>

\* evict_consumed_artifacts: the inputs of t nobody will read again.
\* Mutant: evicts behind the first consumer.
EvictedAtOnce(t) == {r \in InputRefs(t) : r \notin OutputRefs}
\* Mutant: forgets that outputs are never evicted.
EvictedOutputs(t) ==
    {r \in InputRefs(t) : consumer_counts[r] - Occurrences(t, r) = 0}
Evicted(t) ==
    {r \in InputRefs(t) :
        consumer_counts[r] - Occurrences(t, r) = 0 /\ r \notin OutputRefs}

\* The dependents of t whose last missing input t produces.
Released(t) ==
    {u \in Dependents(t) : remaining_deps[u] - Occurrences(u, t) = 0}

\* state.waker.take() and wake().
\* Mutant: only a commit that released a task wakes the backend.
WakeIfReleased ==
    IF ready' = ready THEN UNCHANGED <<waker, poll>>
    ELSE waker' = FALSE /\ poll' = IF waker /\ poll = "parked" THEN "awake" ELSE poll
\* Mutant: only the last commit wakes the backend.
WakeWhenDone ==
    IF remaining' # 0 THEN UNCHANGED <<waker, poll>>
    ELSE waker' = FALSE /\ poll' = IF waker /\ poll = "parked" THEN "awake" ELSE poll
WakeBackend ==
    /\ waker' = FALSE
    /\ poll' = IF waker /\ poll = "parked" THEN "awake" ELSE poll

\* Second critical section: commit_workflow_task, extend ready, wake the
\* backend.  The checked_sub errors of the code would show here as negative
\* counts; CountersExact says they cannot happen.
Commit(t, a) ==
    /\ pc[t][a] = "commit"
    /\ store' = (store \cup {t}) \ Evicted(t)
    /\ consumer_counts' = [r \in Refs |-> consumer_counts[r] - Occurrences(t, r)]
    /\ remaining' = remaining - 1
    /\ remaining_deps' = [u \in Tasks |-> remaining_deps[u] - Occurrences(u, t)]
    /\ \E released \in Ascending(Released(t)) : ready' = ready \o released
    /\ WakeBackend
    /\ MoveTo(t, a, IF remaining' = 0 THEN "stop" ELSE "ok")
    /\ UNCHANGED <<job, attempt, stopped, events, expired, driving>>

\* spilled_to_threshold fails before commit_workflow_task changes anything.
SpillFails(t, a) ==
    /\ "storage" \in Faults
    /\ pc[t][a] = "commit"
    /\ MoveTo(t, a, "storage")
    /\ UNCHANGED <<shared, worker, expired, driving>>

StopWorker(t, a) ==
    /\ pc[t][a] = "stop"
    /\ stopped' = TRUE
    /\ MoveTo(t, a, "ok")
    /\ UNCHANGED <<shared, poll, job, attempt, events, expired, driving>>

ThreadStep(t, a) ==
    \/ BeginAttempt(t, a)
    \/ ResolveInputs(t, a)
    \/ RunOperator(t, a)
    \/ OperatorPanics(t, a)
    \/ RecheckTimeout(t, a)
    \/ Commit(t, a)
    \/ SpillFails(t, a)
    \/ StopWorker(t, a)

-----------------------------------------------------------------------------
(* The clock, and the event loop of run_apalis_workflow.                    *)

Expire ==
    /\ HasTimeout /\ ~expired
    /\ expired' = TRUE
    /\ UNCHANGED <<shared, worker, pc, driving>>

Return(outcome) ==
    /\ driver' = "returned"
    /\ result' = outcome

\* Event::Error: an untyped error at or past the deadline counts as a timeout.
DriverError ==
    /\ driver = "polling"
    /\ \E e \in events : Return(IF e = "internal" /\ expired THEN "timeout" ELSE e)
    /\ UNCHANGED <<shared, worker, pc, expired, taken>>

\* next_event_within_deadline gives up at the deadline.
\* Mutant: the deadline is looked at only when the worker reports something.
DeadlineOnEvent ==
    /\ driver = "polling"
    /\ expired
    /\ events # {} \/ stopped \/ poll = "ended"
    /\ Return("timeout")
    /\ UNCHANGED <<shared, worker, pc, expired, taken>>
DriverDeadline ==
    /\ driver = "polling"
    /\ expired
    /\ Return("timeout")
    /\ UNCHANGED <<shared, worker, pc, expired, taken>>

\* The worker's event stream is over: take the store out of the shared state.
DriverTakesStore ==
    /\ driver = "polling"
    /\ stopped \/ poll = "ended"
    /\ driver' = "finishing"
    /\ taken' = store
    /\ store' = {}
    /\ UNCHANGED <<remaining_deps, ready, consumer_counts, remaining, waker,
                   worker, pc, expired, result>>

\* execute_workflow's last enforce_timeout.
\* Mutant: execute_workflow without its last enforce_timeout.
ReturnsUnchecked ==
    /\ driver = "finishing"
    /\ Return("ok")
    /\ UNCHANGED <<shared, worker, pc, expired, taken>>
DriverReturns ==
    /\ driver = "finishing"
    /\ Return(IF expired THEN "timeout" ELSE "ok")
    /\ taken' = IF expired THEN {} ELSE taken
    /\ UNCHANGED <<shared, worker, pc, expired>>

\* The call has returned and every thread has run out.
Terminated ==
    /\ driver = "returned"
    /\ \A t \in Tasks, a \in Attempts : pc[t][a] \in {"idle", "ok"} \cup Dead
    /\ UNCHANGED vars

WorkerStep(t) == StartJob(t) \/ JobSucceeds(t) \/ AttemptFails(t) \/ AttemptTimeout(t)
Poll == PollReady \/ PollEnd \/ PollPending
DriverStep == DriverError \/ DriverDeadline \/ DriverTakesStore \/ DriverReturns

Next ==
    \/ Poll
    \/ SpuriousPoll
    \/ \E t \in Tasks : WorkerStep(t)
    \/ \E t \in Tasks, a \in Attempts : ThreadStep(t, a)
    \/ Expire
    \/ DriverStep
    \/ Terminated

Spec == Init /\ [][Next]_vars

-----------------------------------------------------------------------------
(* Properties.                                                              *)

Stages == {"idle", "begin"} \cup Admitted \cup Dead

\* Every variable keeps its type; the counters in particular stay natural
\* numbers, so no checked_sub of commit_workflow_task ever fails.
TypeOK ==
    /\ store \subseteq Refs
    /\ remaining_deps \in [Tasks -> Nat]
    /\ ready \in Seq(Tasks)
    /\ consumer_counts \in [Refs -> Nat]
    /\ remaining \in Nat
    /\ waker \in BOOLEAN
    /\ poll \in {"awake", "parked", "ended"}
    /\ job \in [Tasks -> {"waiting", "fetched", "running", "succeeded", "failed"}]
    /\ attempt \in [Tasks -> 0..(Retries + 1)]
    /\ stopped \in BOOLEAN
    /\ events \subseteq ErrorKinds
    /\ pc \in [Tasks -> [Attempts -> Stages]]
    /\ expired \in BOOLEAN
    /\ driver \in {"polling", "finishing", "returned"}
    /\ result \in {"none", "ok"} \cup ErrorKinds
    /\ taken \subseteq Refs

\* No task commits twice, whatever its retries, its timed-out attempts and
\* the threads they leave running do: at most one attempt of a task ever
\* gets past the first enforce_timeout without dying.
CommitOnce ==
    \A t \in Tasks : \A a, b \in Attempts :
        pc[t][a] \in Admitted /\ pc[t][b] \in Admitted => a = b

\* No attempt finds an input missing at execution time: eviction never takes
\* an artifact from a task that has yet to read it, and no task is scheduled
\* before its inputs exist.
InputsPresent == \A t \in Tasks, a \in Attempts : pc[t][a] # "missing"

\* The counters of WorkflowState always equal what is left to do.
CountersExact ==
    /\ remaining = Cardinality(Tasks \ Committed)
    /\ \A t \in Tasks :
           remaining_deps[t] =
               Cardinality({s \in Slots : s[1] = t /\ RefOf(s) \in Tasks \ Committed})
    /\ \A r \in Refs :
           consumer_counts[r] =
               Cardinality({s \in Slots : s[1] \notin Committed /\ RefOf(s) = r})

\* Until the driver takes it, and after a failed call for as long as a thread
\* it left behind may still read it, the store holds exactly the artifacts that
\* exist and may still be wanted: named by an output, never consumed by any
\* task, or with a consumer that has not committed.  Nothing leaks and nothing is
\* evicted early (the remove doc in artifact/store.rs).
Wanted(r) ==
    \/ r \in OutputRefs
    \/ ConsumerCount(r) = 0
    \/ \E s \in Slots : RefOf(s) = r /\ s[1] \notin Committed
StoreExact ==
    driver = "polling" \/ remaining # 0 =>
        store = {r \in Sources \cup Committed : Wanted(r)}

\* A parked backend has its waker registered and nothing to hand out, so the
\* commit that makes a task ready always finds someone to wake.
NoLostWakeup == poll = "parked" => waker /\ ready = <<>> /\ remaining # 0

\* Success is never reported over a failed task or past an error event that
\* the driver has not looked at.
NoErrorSwallowed ==
    result = "ok" => events = {} /\ \A t \in Tasks : job[t] # "failed"

\* The executor keeps the promise of execute_workflow.
Contract == INSTANCE WorkflowContract WITH
    DependsOn <- [t \in Tasks |-> InputRefs(t) \cap Tasks],
    Failures <- ErrorKinds,
    completed <- Committed,
    delivered <- IF result = "ok" THEN taken ELSE {}
ImplementsContract == Contract!Spec

-----------------------------------------------------------------------------
(* Liveness.                                                                *)

\* Only the clock and the driver's own code are assumed to run, no thread and
\* no poll.
DeadlineRuns == WF_vars(Expire) /\ WF_vars(DriverDeadline) /\ WF_vars(DriverReturns)

\* The deadline ends the call even when operators hang or panic and wake-ups are
\* lost.
DeadlineEndsTheCall == DeadlineRuns => <>(result # "none")

\* The async runtime polls what was woken, the pool runs the threads, and
\* operators return; nothing is assumed of the deadline.
RuntimeRuns ==
    /\ WF_vars(Poll)
    /\ \A t \in Tasks : WF_vars(WorkerStep(t))
    /\ \A t \in Tasks, a \in Attempts : WF_vars(ThreadStep(t, a))
    /\ WF_vars(DriverError) /\ WF_vars(DriverTakesStore) /\ WF_vars(DriverReturns)

\* If the deadline never passes and no operator panics, the call comes back: with
\* success exactly when no attempt used up its retries.
Undisturbed == ~expired /\ \A t \in Tasks, a \in Attempts : pc[t][a] # "lost"
AnswersInTheEnd ==
    RuntimeRuns /\ []Undisturbed =>
        <>(driver = "returned" /\ (result = "ok" <=> events = {}))
=============================================================================
