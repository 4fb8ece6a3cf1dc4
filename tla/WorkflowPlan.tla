---------------------------- MODULE WorkflowPlan ----------------------------
(***************************************************************************)
(* validate_workflow: what is rejected, and the ExecutionPlan of what is   *)
(* accepted.  A workflow is a record                                       *)
(*   [inputs : Seq(id), tasks : Seq([id, inputs]), outputs : Seq([id, from]),*)
(*    zero_limit : BOOLEAN, max_tasks : Nat]                               *)
(* in which an id is an abstract value and EmptyId is the empty string;    *)
(* zero_limit says that some resource limit is set to 0.  Pure operators,  *)
(* no RECURSIVE one.                                                       *)
(***************************************************************************)
EXTENDS Integers, SequencesExt

CONSTANT EmptyId

Numbers(seq) == 1..Len(seq)

\* What the types of a Workflow say: lists are lists.
IsSequence(s) == s \in Seq(Range(s))
TasksAreLists(w) ==
    IsSequence(w.tasks) /\ \A t \in Numbers(w.tasks) : IsSequence(w.tasks[t].inputs)
IsWorkflow(w) ==
    /\ TasksAreLists(w) /\ IsSequence(w.inputs) /\ IsSequence(w.outputs)
    /\ w.zero_limit \in BOOLEAN /\ w.max_tasks \in Nat

\* The ids in the order collect_ids inserts them.
DeclaredIds(w) ==
    w.inputs \o [t \in Numbers(w.tasks) |-> w.tasks[t].id]
             \o [o \in Numbers(w.outputs) |-> w.outputs[o].id]

\* insert_unique_id rejects an id that is empty or already there; collect_ids
\* stops at the first.
BadIds(w) ==
    LET ids == DeclaredIds(w) IN
    {i \in Numbers(ids) : ids[i] = EmptyId \/ \E j \in 1..(i - 1) : ids[j] = ids[i]}

\* Mutant: outputs may be referred to as well.
AnyDeclaredId(w) == {DeclaredIds(w)[i] : i \in Numbers(DeclaredIds(w))}
\* What tasks and outputs may refer to: the ids that are not output ids.
ArtifactIds(w) ==
    {DeclaredIds(w)[i] : i \in Numbers(DeclaredIds(w))}
        \ {w.outputs[o].id : o \in Numbers(w.outputs)}

\* validate_task_references stops at the first task with a fault.
FaultyTasks(w) ==
    {t \in Numbers(w.tasks) :
        \/ w.tasks[t].inputs = <<>>
        \/ \E i \in Numbers(w.tasks[t].inputs) : w.tasks[t].inputs[i] \notin ArtifactIds(w)}

DanglingOutputs(w) ==
    {o \in Numbers(w.outputs) : w.outputs[o].from \notin ArtifactIds(w)}

-----------------------------------------------------------------------------
(* build_execution_graph: one Kahn pass, layer by layer.                    *)

\* How many of task t's inputs the task with index d produces.
InputsFrom(w, t, d) ==
    Cardinality({i \in Numbers(w.tasks[t].inputs) : w.tasks[t].inputs[i] = w.tasks[d].id})

DependencyCount(w, t) ==
    Cardinality({i \in Numbers(w.tasks[t].inputs) :
        \E d \in Numbers(w.tasks) : w.tasks[t].inputs[i] = w.tasks[d].id})

InIndexOrder(S) ==
    CHOOSE order \in [1..Cardinality(S) -> S] :
        \A i, j \in DOMAIN order : i < j => order[i] < order[j]

\* Mutant: a child joins the next layer behind its first dependency.
VisitUncounted(w, pass, index) ==
    [pass EXCEPT
        !.task_order = Append(@, index),
        !.next = @ \o InIndexOrder({c \in Numbers(w.tasks) : InputsFrom(w, c, index) > 0})]
\* Visiting one task of the current layer: it is next in task_order, and the
\* children whose last dependency it was join the next layer.
Visit(w, pass, index) ==
    LET left == [c \in Numbers(w.tasks) |-> pass.remaining_deps[c] - InputsFrom(w, c, index)]
        children == {c \in Numbers(w.tasks) : InputsFrom(w, c, index) > 0}
    IN  [pass EXCEPT
            !.remaining_deps = left,
            !.task_order = Append(@, index),
            !.next = @ \o InIndexOrder({c \in children : left[c] = 0})]

FirstLayer(w) == InIndexOrder({t \in Numbers(w.tasks) : DependencyCount(w, t) = 0})

VisitAll(w, pass, layer) == FoldLeft(LAMBDA p, index : Visit(w, p, index), pass, layer)

\* One round of the while loop: visit every task of `next`, the layer built by
\* the round before.
Round(w, pass) ==
    IF pass.next = <<>> THEN pass
    ELSE VisitAll(w, [pass EXCEPT !.next = <<>>, !.layers = Append(@, pass.next)], pass.next)

\* Every round but the last emits a task, so Len(tasks) rounds exhaust the loop.
KahnPass(w) ==
    LET start == [remaining_deps |-> [t \in Numbers(w.tasks) |-> DependencyCount(w, t)],
                  task_order |-> <<>>, layers |-> <<>>, next |-> FirstLayer(w)]
        rounds[n \in 0..Len(w.tasks)] ==
            IF n = 0 THEN start ELSE Round(w, rounds[n - 1])
    IN  rounds[Len(w.tasks)]

\* Mutant: the first write wins.
FirstConsumer(w, order, ref) ==
    order[Min({k \in Numbers(order) :
        \E i \in Numbers(w.tasks[order[k]].inputs) : w.tasks[order[k]].inputs[i] = ref})]
\* The last write wins along task_order.
LastConsumer(w, order, ref) ==
    order[Max({k \in Numbers(order) :
        \E i \in Numbers(w.tasks[order[k]].inputs) : w.tasks[order[k]].inputs[i] = ref})]

ConsumedRefs(w) ==
    UNION {{w.tasks[t].inputs[i] : i \in Numbers(w.tasks[t].inputs)} : t \in Numbers(w.tasks)}

ExecutionPlan(w) ==
    LET pass == KahnPass(w) IN
    [task_order |-> pass.task_order,
     layers |-> pass.layers,
     last_consumer |-> [ref \in ConsumedRefs(w) |-> LastConsumer(w, pass.task_order, ref)],
     output_refs |-> {w.outputs[o].from : o \in Numbers(w.outputs)}]

-----------------------------------------------------------------------------
\* The checks in the order validate_workflow makes them: the error of the
\* first that fails, or "none".
Rejection(w) ==
    CASE w.zero_limit                              -> "zero limit"
      [] ~w.zero_limit /\ Len(w.tasks) > w.max_tasks -> "max_tasks"
      [] OTHER ->
         IF BadIds(w) # {} THEN
             IF DeclaredIds(w)[Min(BadIds(w))] = EmptyId THEN "empty id" ELSE "duplicate id"
         ELSE IF FaultyTasks(w) # {} THEN
             IF w.tasks[Min(FaultyTasks(w))].inputs = <<>> THEN "no inputs" ELSE "task reference"
         ELSE IF DanglingOutputs(w) # {} THEN "output reference"
         ELSE IF Len(KahnPass(w).task_order) # Len(w.tasks) THEN "cycle"
         ELSE "none"
=============================================================================
