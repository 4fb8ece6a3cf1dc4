------------------------------ MODULE MCCliRun ------------------------------
(* Two invocations that meet on one output path, only one with --force.     *)
EXTENDS CliRun, TLC
CONSTANTS p1, p2, f1, f2, f3, dash, none
\* p1 reads f1 and standard input, and writes standard output, f2, standard
\* output again and metrics;
\* p2 rewrites f1 into f2 and, in place, into f1.
TwoInputs == (p1 :> <<f1, dash>>) @@ (p2 :> <<f1>>)
TwoOutputs == (p1 :> <<dash, f2, dash>>) @@ (p2 :> <<f2, f1>>)
MetricsPaths == (p1 :> f3) @@ (p2 :> none)
OnlyP2 == (p1 :> FALSE) @@ (p2 :> TRUE)
=============================================================================
