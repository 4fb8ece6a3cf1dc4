------------------------- MODULE WorkflowValidation -------------------------
(***************************************************************************)
(* validate_workflow called on every workflow of a family, compared with   *)
(* definitions that do not mention Kahn's algorithm.                       *)
(***************************************************************************)
EXTENDS WorkflowPlan

CONSTANT Workflows
ASSUME WorkflowsAssumption == \A w \in Workflows : IsWorkflow(w)

VARIABLES workflow, rejection, plan
validationVars == <<workflow, rejection, plan>>

NoPlan == [task_order |-> <<>>]

ValidationInit == workflow \in Workflows /\ rejection = "pending" /\ plan = NoPlan

Accept ==
    /\ rejection = "pending"
    /\ Rejection(workflow) = "none"
    /\ rejection' = "none"
    /\ plan' = ExecutionPlan(workflow)
    /\ UNCHANGED workflow

Reject ==
    /\ rejection = "pending"
    /\ Rejection(workflow) # "none"
    /\ rejection' = Rejection(workflow)
    /\ UNCHANGED <<workflow, plan>>

ValidationNext == Accept \/ Reject
ValidationSpec == ValidationInit /\ [][ValidationNext]_validationVars

-----------------------------------------------------------------------------
TaskNumbers == Numbers(workflow.tasks)
ReadsFrom(t, d) ==
    \E i \in Numbers(workflow.tasks[t].inputs) :
        workflow.tasks[t].inputs[i] = workflow.tasks[d].id
Accepted == rejection = "none"

\* A workflow is accepted exactly when its limits are sane, its ids are
\* distinct and not empty, every reference resolves to an input or a task, and
\* no set of tasks waits on itself: the guarantees the executor's own
\* indexing, eviction and termination rest on.
WellFormed ==
    LET ids == DeclaredIds(workflow)
        producers == {workflow.inputs[i] : i \in Numbers(workflow.inputs)}
                     \cup {workflow.tasks[t].id : t \in TaskNumbers}
    IN  /\ ~workflow.zero_limit
        /\ Len(workflow.tasks) <= workflow.max_tasks
        /\ \A i, j \in Numbers(ids) : ids[i] = ids[j] => i = j
        /\ \A i \in Numbers(ids) : ids[i] # EmptyId
        /\ \A t \in TaskNumbers :
               /\ Len(workflow.tasks[t].inputs) > 0
               /\ \A i \in Numbers(workflow.tasks[t].inputs) :
                      workflow.tasks[t].inputs[i] \in producers
        /\ \A o \in Numbers(workflow.outputs) : workflow.outputs[o].from \in producers
        /\ \A S \in SUBSET TaskNumbers :
               S # {} => \E t \in S : \A d \in S : ~ReadsFrom(t, d)
AcceptsExactlyWellFormed == rejection # "pending" => (Accepted <=> WellFormed)

\* The layers partition the tasks, and a task sits one layer behind its
\* deepest dependency: nothing waits longer than the graph makes it wait.
LayersAreDepths ==
    Accepted =>
        LET layerOf(t) == {k \in Numbers(plan.layers) :
                              \E i \in Numbers(plan.layers[k]) : plan.layers[k][i] = t}
        IN  /\ \A t \in TaskNumbers : Cardinality(layerOf(t)) = 1
            /\ \A t \in TaskNumbers : \A k \in layerOf(t) :
                   /\ \A d \in TaskNumbers : ReadsFrom(t, d) => \A m \in layerOf(d) : m < k
                   /\ k > 1 => \E d \in TaskNumbers : ReadsFrom(t, d) /\ k - 1 \in layerOf(d)

\* Run one task at a time in task_order, evicting behind last_consumer, and no
\* task ever misses an input: what last_consumer was computed for.
SequentialEvictionIsSafe ==
    Accepted =>
        \A k \in Numbers(plan.task_order) :
            \A i \in Numbers(workflow.tasks[plan.task_order[k]].inputs) :
                LET ref == workflow.tasks[plan.task_order[k]].inputs[i] IN
                /\ \A j \in 1..(k - 1) : plan.task_order[j] # plan.last_consumer[ref]
                /\ \A d \in TaskNumbers :
                       ref = workflow.tasks[d].id => \E j \in 1..(k - 1) : plan.task_order[j] = d
=============================================================================
