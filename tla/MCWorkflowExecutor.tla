------------------------- MODULE MCWorkflowExecutor -------------------------
(* A small workflow for the executor and its plan.                          *)
EXTENDS PlannedExecution

CONSTANT in1

\* Two tasks share the workflow input; a third reads both results, the first
\* one twice.  The second result is also an output of the workflow.
JoinInputs == <<<<in1>>, <<in1>>, <<1, 2, 1>>>>
JoinOutputs == {2, 3}
=============================================================================
