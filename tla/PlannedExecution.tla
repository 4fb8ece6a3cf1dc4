-------------------------- MODULE PlannedExecution --------------------------
(***************************************************************************)
(* The executor together with the ExecutionPlan validate_workflow built    *)
(* for the same workflow: execute_workflow returns both to its caller.     *)
(* Plan and executor derive their graphs from the tasks by separate code.  *)
(***************************************************************************)
EXTENDS WorkflowExecutor, WorkflowPlan

\* The workflow of the executor's constants, in the planner's form.
ExecutedWorkflow ==
    [tasks |-> [t \in Tasks |-> [id |-> t, inputs |-> TaskInputs[t]]],
     outputs |-> <<>>]
Plan == ExecutionPlan(ExecutedWorkflow)

LayerOf(t) == CHOOSE n \in DOMAIN Plan.layers : \E i \in DOMAIN Plan.layers[n] : Plan.layers[n][i] = t

\* Whatever the interleaving, retries and orphaned threads, the tasks queued or
\* handed to the worker are exactly those whose inputs from earlier layers of the
\* plan are committed: none starts early, none is forgotten.
DispatchFollowsPlan ==
    LET handedOut == {ready[i] : i \in DOMAIN ready} \cup {t \in Tasks : job[t] # "waiting"}
        earlier(t) == {d \in InputRefs(t) \cap Tasks : LayerOf(d) < LayerOf(t)}
    IN  handedOut = {t \in Tasks : earlier(t) \subseteq Committed}
=============================================================================
