-------------------------- MODULE WorkflowContract --------------------------
(***************************************************************************)
(* What execute_workflow promises its callers (the CLI, the web service),  *)
(* with no queue, no threads, no retries and no eviction: tasks complete   *)
(* one by one, each at most once and never before the tasks it reads from, *)
(* and the call returns exactly once.  It may fail at any moment; it       *)
(* returns "ok" only when every task is complete, and what it then hands   *)
(* over holds every artifact an output names.                              *)
(***************************************************************************)
CONSTANTS
    Tasks,       \* the tasks of the validated workflow
    DependsOn,   \* DependsOn[t]: the tasks whose artifacts task t reads
    Sources,     \* the artifacts given as workflow inputs
    OutputRefs,  \* the artifacts the output specs name
    Failures     \* the kinds of error execute_workflow can return

VARIABLES
    completed,   \* the tasks whose artifact has been committed
    result,      \* "none" until the call returns
    delivered    \* the artifacts of the store returned with "ok"

contractVars == <<completed, result, delivered>>

Init ==
    /\ completed = {}
    /\ result = "none"
    /\ delivered = {}

\* A failed call leaves threads behind that may still commit, so completion
\* is only excluded once everything is complete.
Complete(t) ==
    /\ t \notin completed
    /\ DependsOn[t] \subseteq completed
    /\ completed' = completed \cup {t}
    /\ UNCHANGED <<result, delivered>>

ReturnOk ==
    /\ result = "none"
    /\ completed = Tasks
    /\ result' = "ok"
    /\ \E kept \in SUBSET (Sources \cup Tasks) :
           /\ OutputRefs \subseteq kept
           /\ delivered' = kept
    /\ UNCHANGED completed

ReturnErr ==
    /\ result = "none"
    /\ result' \in Failures
    /\ UNCHANGED <<completed, delivered>>

Next ==
    \/ \E t \in Tasks : Complete(t)
    \/ ReturnOk
    \/ ReturnErr

Spec == Init /\ [][Next]_contractVars
=============================================================================
