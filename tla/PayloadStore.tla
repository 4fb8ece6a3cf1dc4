---------------------------- MODULE PayloadStore ----------------------------
(***************************************************************************)
(* The payloads of one execution: inputs checked against the limits, moved  *)
(* between heap and mapped temporary files as the workflow's threshold asks,*)
(* joined by the tasks' results, and one of them written to an output       *)
(* through LimitWriter.  An artifact is a record                            *)
(*   [kind, bytes, extra, where]                                            *)
(* kind "Bytes" stands for the four kinds with a payload; bytes is how many *)
(* bytes it is written as, extra the size of a text's diagnostics, where is *)
(* "inline", "mapped" or "none" (text and parsed documents have no payload).*)
(* NoLimit stands for a missing limit.                                      *)
(***************************************************************************)
EXTENDS Integers, FiniteSets

CONSTANTS Ids, MaxBytes, NoLimit, DefaultThreshold, MaxInputBytes, MaxTotalInputBytes,
          OutputLimits, Thresholds
ASSUME SizesAssumption ==
    /\ MaxBytes \in Nat /\ DefaultThreshold \in Nat /\ NoLimit \notin Int /\ "none" \notin Ids
    /\ MaxInputBytes \in Nat /\ MaxTotalInputBytes \in Nat
    /\ OutputLimits \subseteq Nat \cup {NoLimit} /\ Thresholds \subseteq Nat \cup {NoLimit}

VARIABLES store, todo, phase, result, limits, produced, writer, sink
vars == <<store, todo, phase, result, limits, produced, writer, sink>>

Sizes == 0..MaxBytes
Above(n, limit) == limit # NoLimit /\ n > limit

\* from_vec puts what is above the default threshold into a file; from_arc
\* leaves a buffer that is already shared where it is.
Fresh ==
    [kind : {"Bytes"}, bytes : Sizes, extra : {0}, where : {"inline"}]
        \cup [kind : {"Bytes"}, bytes : {n \in Sizes : n > DefaultThreshold}, extra : {0},
              where : {"mapped"}]
        \cup [kind : {"PdfObject"}, bytes : Sizes, extra : {0}, where : {"none"}]
        \cup [kind : {"Text"}, bytes : Sizes, extra : Sizes, where : {"none"}]

NoWriter == [ref |-> "none", left |-> 0, buf |-> 0, written |-> 0, limit_exceeded |-> FALSE]

Init ==
    /\ store \in UNION {[held -> Fresh] : held \in SUBSET Ids}
    /\ limits \in [output : OutputLimits, threshold : Thresholds]
    /\ todo = {} /\ phase = "given" /\ result = "none" /\ produced = {}
    /\ writer = NoWriter /\ sink = 0

Return(outcome) == phase' = "returned" /\ result' = outcome

-----------------------------------------------------------------------------
(* Before the first task.                                                   *)

\* A parsed document has no size before it is written.
artifact_size(artifact) ==
    IF artifact.kind = "PdfObject" THEN 0 ELSE artifact.bytes + artifact.extra

\* The bytes of the ids of S; Ids is small and sizes are bounded, so the sum is
\* the number of pairs of an id and a byte of it.
TotalSize(S) ==
    Cardinality(UNION {{<<id, n>> : n \in 1..artifact_size(store[id])} : id \in S})

InputsFit ==
    /\ \A id \in DOMAIN store : artifact_size(store[id]) <= MaxInputBytes
    /\ TotalSize(DOMAIN store) <= MaxTotalInputBytes

enforce_workflow_input_limits ==
    /\ phase = "given"
    /\ \/ InputsFit /\ phase' = "rethresholding" /\ todo' = DOMAIN store /\ UNCHANGED result
       \/ ~InputsFit /\ Return("input limit") /\ UNCHANGED todo
    /\ UNCHANGED <<store, limits, produced, writer, sink>>

\* Mutant: a payload of the threshold's size goes to a file.
OverOrAt(artifact) == limits.threshold # NoLimit /\ artifact.bytes >= limits.threshold
over_threshold(artifact) == Above(artifact.bytes, limits.threshold)

NeedsSpill(artifact) == artifact.where = "inline" /\ over_threshold(artifact)
spilled_to_threshold(artifact) ==
    IF NeedsSpill(artifact) THEN [artifact EXCEPT !.where = "mapped"]
    ELSE IF artifact.where = "mapped" /\ ~over_threshold(artifact)
    THEN [artifact EXCEPT !.where = "inline"] ELSE artifact

\* Creating, sizing or mapping the file may fail; an empty file cannot be
\* mapped at all.
SpillMayFail(artifact) == NeedsSpill(artifact)
SpillMaySucceed(artifact) == NeedsSpill(artifact) => artifact.bytes > 0

\* rethreshold goes through the ids in no particular order.
Rethreshold(id) ==
    /\ phase = "rethresholding" /\ id \in todo /\ SpillMaySucceed(store[id])
    /\ store' = [store EXCEPT ![id] = spilled_to_threshold(@)]
    /\ todo' = todo \ {id}
    /\ UNCHANGED <<phase, result, limits, produced, writer, sink>>

\* Mutant: the artifact that could not be spilled is gone.
RethresholdLosesIt(id) ==
    /\ phase = "rethresholding" /\ id \in todo /\ SpillMayFail(store[id])
    /\ store' = [i \in DOMAIN store \ {id} |-> store[i]] /\ todo' = todo \ {id}
    /\ Return("ArtifactStorage")
    /\ UNCHANGED <<limits, produced, writer, sink>>
\* The backup goes back into the store.
RethresholdFails(id) ==
    /\ phase = "rethresholding" /\ id \in todo /\ SpillMayFail(store[id])
    /\ Return("ArtifactStorage")
    /\ UNCHANGED <<store, todo, limits, produced, writer, sink>>

StartTasks ==
    /\ phase = "rethresholding" /\ todo = {}
    /\ phase' = "running"
    /\ UNCHANGED <<store, todo, result, limits, produced, writer, sink>>

-----------------------------------------------------------------------------
(* Tasks.                                                                   *)

\* A parsed document is serialised to be measured if there is a limit at all.
OutputSize(artifact) ==
    IF artifact.kind = "PdfObject" THEN artifact.bytes ELSE artifact_size(artifact)
\* Mutant: a parsed document counts as nothing.
OutputUnmeasured(artifact) == Above(artifact_size(artifact), limits.output)
TooLarge(artifact) == Above(OutputSize(artifact), limits.output)

\* enforce_artifact_output_bytes, spilled_to_threshold, insert.
CommitResult(id, artifact) ==
    /\ phase = "running" /\ id \notin DOMAIN store
    /\ ~TooLarge(artifact) /\ SpillMaySucceed(artifact)
    /\ store' = [i \in DOMAIN store \cup {id} |->
                    IF i = id THEN spilled_to_threshold(artifact) ELSE store[i]]
    /\ produced' = produced \cup {id}
    /\ UNCHANGED <<todo, phase, result, limits, writer, sink>>

ResultRefused(artifact) ==
    /\ phase = "running"
    /\ \/ TooLarge(artifact) /\ Return("max_output_bytes")
       \/ ~TooLarge(artifact) /\ SpillMayFail(artifact) /\ Return("ArtifactStorage")
    /\ UNCHANGED <<store, todo, limits, produced, writer, sink>>

\* evict_consumed_artifacts
Evict(id) ==
    /\ phase = "running" /\ id \in DOMAIN store
    /\ store' = [i \in DOMAIN store \ {id} |-> store[i]]
    /\ produced' = produced \ {id}
    /\ UNCHANGED <<todo, phase, result, limits, writer, sink>>

-----------------------------------------------------------------------------
(* write_output_to.  save_to hands a document over in pieces, a payload or a *)
(* text is one piece; buf is what is left of the piece at hand.             *)

OpenOutput(id) ==
    /\ phase = "running" /\ id \in DOMAIN store
    /\ phase' = "writing"
    /\ writer' = [ref |-> id, left |-> store[id].bytes,
                  buf |-> IF store[id].kind = "PdfObject" THEN 0 ELSE store[id].bytes,
                  written |-> 0, limit_exceeded |-> FALSE]
    /\ UNCHANGED <<store, todo, result, limits, produced, sink>>

NextPiece ==
    /\ phase = "writing" /\ writer.buf = 0 /\ ~writer.limit_exceeded
    /\ \E n \in 1..writer.left : writer' = [writer EXCEPT !.buf = n]
    /\ UNCHANGED <<store, todo, phase, result, limits, produced, sink>>

\* Mutant: only what has been written counts.
WriteLooksBack ==
    /\ phase = "writing" /\ writer.buf > 0 /\ ~writer.limit_exceeded
    /\ ~Above(writer.written, limits.output)
    /\ \E n \in 1..writer.buf :
        /\ writer' = [writer EXCEPT !.written = @ + n, !.left = @ - n, !.buf = @ - n]
        /\ sink' = sink + n
    /\ UNCHANGED <<store, todo, phase, result, limits, produced>>
\* The whole piece has to fit; the inner writer may take a part of it.
WriteAccepted ==
    /\ phase = "writing" /\ writer.buf > 0 /\ ~writer.limit_exceeded
    /\ ~Above(writer.written + writer.buf, limits.output)
    /\ \E n \in 1..writer.buf :
        /\ writer' = [writer EXCEPT !.written = @ + n, !.left = @ - n, !.buf = @ - n]
        /\ sink' = sink + n
    /\ UNCHANGED <<store, todo, phase, result, limits, produced>>

WriteOverLimit ==
    /\ phase = "writing" /\ writer.buf > 0 /\ ~writer.limit_exceeded
    /\ Above(writer.written + writer.buf, limits.output)
    /\ writer' = [writer EXCEPT !.limit_exceeded = TRUE]
    /\ UNCHANGED <<store, todo, phase, result, limits, produced, sink>>

\* The error of a payload carries the limit's name; that of save_to does not and
\* the writer's flag tells.
ReportLimit ==
    /\ phase = "writing" /\ writer.limit_exceeded
    /\ Return("max_output_bytes")
    /\ UNCHANGED <<store, todo, limits, produced, writer, sink>>

\* The inner writer fails or takes nothing.
DeviceFails ==
    /\ phase = "writing" /\ writer.buf > 0 /\ ~writer.limit_exceeded
    /\ ~Above(writer.written + writer.buf, limits.output)
    /\ Return("WritePdf")
    /\ UNCHANGED <<store, todo, limits, produced, writer, sink>>

Written ==
    /\ phase = "writing" /\ writer.left = 0 /\ ~writer.limit_exceeded
    /\ Return("ok")
    /\ UNCHANGED <<store, todo, limits, produced, writer, sink>>

Next ==
    \/ enforce_workflow_input_limits \/ StartTasks
    \/ \E id \in Ids : Rethreshold(id) \/ RethresholdFails(id) \/ Evict(id) \/ OpenOutput(id)
    \/ \E artifact \in Fresh :
           ResultRefused(artifact) \/ \E id \in Ids : CommitResult(id, artifact)
    \/ NextPiece \/ WriteAccepted \/ WriteOverLimit \/ ReportLimit \/ DeviceFails \/ Written
Spec == Init /\ [][Next]_vars

-----------------------------------------------------------------------------
Held == Fresh \cup [kind : {"Bytes"}, bytes : Sizes, extra : {0}, where : {"mapped"}]
Results == {"none", "ok", "input limit", "max_output_bytes", "ArtifactStorage", "WritePdf"}
TypeOK ==
    /\ DOMAIN store \subseteq Ids /\ \A id \in DOMAIN store : store[id] \in Held
    /\ todo \subseteq DOMAIN store /\ produced \subseteq Ids
    /\ phase \in {"given", "rethresholding", "running", "writing", "returned"}
    /\ result \in Results
    /\ limits \in [output : OutputLimits, threshold : Thresholds]
    /\ writer \in [ref : Ids \cup {"none"}, left : Sizes, buf : Sizes, written : Sizes,
                  limit_exceeded : BOOLEAN]
    /\ sink \in Sizes

\* The output never grows past max_output_bytes, by not one byte; it is refused
\* only if it would have been larger; and a task's result that the engine has
\* let through is never refused at the output: both measure the same bytes.
LimitIsExact ==
    /\ ~Above(sink, limits.output)
    /\ phase = "returned" /\ writer # NoWriter =>
        /\ result = "max_output_bytes" => Above(store[writer.ref].bytes, limits.output)
        /\ result = "max_output_bytes" => writer.ref \notin produced
        /\ result = "ok" => sink = store[writer.ref].bytes

\* Once tasks run, a payload is in a file exactly when it is above the
\* workflow's threshold, whichever threshold it was built under; an empty one
\* never is.
ThresholdApplied ==
    phase \in {"running", "writing"} =>
        \A id \in DOMAIN store : store[id].kind = "Bytes" =>
            (store[id].where = "mapped" <=> Above(store[id].bytes, limits.threshold))

\* Nobody can tell where a payload is: contents and outputs behave as if there
\* were no files, and a step that fails leaves the store whole.
Plain(artifact) == [kind |-> artifact.kind, bytes |-> artifact.bytes, extra |-> artifact.extra]
PlainArtifacts == {Plain(artifact) : artifact \in Fresh}
PlainContents == [id \in DOMAIN store |-> Plain(store[id])]
OutputSoFar ==
    IF writer = NoWriter THEN [ref |-> "none", length |-> 0]
    ELSE [ref |-> writer.ref, length |-> sink]
Contract == INSTANCE PlainStore WITH
    Artifacts <- PlainArtifacts, contents <- PlainContents, output <- OutputSoFar
ImplementsPlainStore == Contract!Spec
=============================================================================
