------------------------- MODULE PayloadStoreProofs -------------------------
(***************************************************************************)
(* For every set of ids, every size and every limit: the output limit is   *)
(* exact, the threshold is applied, and the store implements PlainStore.   *)
(***************************************************************************)
EXTENDS PayloadStore, TLAPS

\* What the engine let through fits the output limit.
ProducedFits ==
    \A id \in produced : id \in DOMAIN store /\ ~Above(store[id].bytes, limits.output)

\* The writer has written what it has not left, never more than the limit, and
\* has raised its flag only over a piece that does not fit.
WriterExact ==
    writer # NoWriter =>
        /\ writer.ref \in DOMAIN store
        /\ writer.written + writer.left = store[writer.ref].bytes
        /\ writer.buf <= writer.left /\ sink = writer.written
        /\ ~Above(writer.written, limits.output)
        /\ writer.limit_exceeded => Above(writer.written + writer.buf, limits.output)

WriterOpen == phase = "writing" => writer # NoWriter
WriterIdle ==
    /\ phase \in {"given", "rethresholding", "running"} => writer = NoWriter
    /\ writer = NoWriter => sink = 0

Outcome ==
    /\ phase # "returned" <=> result = "none"
    /\ phase = "returned" /\ writer # NoWriter =>
        /\ result = "max_output_bytes" => writer.limit_exceeded
        /\ result = "ok" => writer.left = 0

\* A payload is where the threshold wants it.
Placed(id) ==
    store[id].kind = "Bytes" =>
        (store[id].where = "mapped" <=> Above(store[id].bytes, limits.threshold))
PlacedSoFar ==
    /\ phase = "rethresholding" => \A id \in DOMAIN store \ todo : Placed(id)
    /\ phase \in {"running", "writing"} =>
           todo = {} /\ \A id \in DOMAIN store : Placed(id)

Inv == TypeOK /\ ProducedFits /\ WriterExact /\ WriterOpen /\ WriterIdle /\ Outcome /\ PlacedSoFar

\* What spilled_to_threshold does to one artifact: only its place changes, and a
\* payload ends where the threshold wants it.
LEMMA Spilled ==
    ASSUME NEW artifact \in Held
    PROVE  /\ spilled_to_threshold(artifact) \in Held
           /\ Plain(spilled_to_threshold(artifact)) = Plain(artifact)
           /\ artifact.kind = "Bytes" =>
                (spilled_to_threshold(artifact).where = "mapped"
                    <=> Above(artifact.bytes, limits.threshold))
<1> DEFINE spilled == spilled_to_threshold(artifact)
           over == over_threshold(artifact)
<1>1. over <=> Above(artifact.bytes, limits.threshold)
    BY DEF over_threshold
<1>2. spilled = IF artifact.where = "inline" /\ over
                THEN [artifact EXCEPT !.where = "mapped"]
                ELSE IF artifact.where = "mapped" /\ ~over
                THEN [artifact EXCEPT !.where = "inline"] ELSE artifact
    BY DEF spilled_to_threshold, NeedsSpill
<1> HIDE DEF over, spilled
<1>3. CASE artifact.kind = "Bytes"
    <2>1. artifact \in [kind : {"Bytes"}, bytes : Sizes, extra : {0},
                        where : {"inline", "mapped"}]
        BY <1>3 DEF Held, Fresh
    <2>2. spilled = [artifact EXCEPT !.where = IF over THEN "mapped" ELSE "inline"]
        BY <1>2, <2>1
    <2>3. spilled \in Held
        BY <2>1, <2>2 DEF Held, Fresh
    <2>4. Plain(spilled) = Plain(artifact) /\ (spilled.where = "mapped" <=> over)
        BY <2>1, <2>2 DEF Plain
    <2> QED BY <1>1, <2>3, <2>4 DEF spilled
<1>4. CASE artifact.kind # "Bytes"
    <2>1. artifact.where = "none"
        BY <1>4 DEF Held, Fresh
    <2> QED BY <1>2, <1>4, <2>1 DEF spilled
<1> QED BY <1>3, <1>4

THEOREM InvInit == Init => Inv
<1> SUFFICES ASSUME Init PROVE Inv
    OBVIOUS
<1>1. PICK held \in SUBSET Ids : store \in [held -> Fresh]
    BY DEF Init
<1>2. TypeOK
    BY <1>1, SizesAssumption DEF Init, TypeOK, NoWriter, Results, Held, Sizes
<1> QED BY <1>2 DEF Init, Inv, ProducedFits, WriterExact, WriterOpen, WriterIdle, Outcome, PlacedSoFar,
    NoWriter

-----------------------------------------------------------------------------
(* One step of the execution.                                               *)

LEMMA FreshIsHeld == Fresh \subseteq Held
BY DEF Held

LEMMA BytesAreNumbers ==
    ASSUME NEW artifact \in Held PROVE artifact.bytes \in Sizes /\ artifact.bytes \in Nat
BY SizesAssumption DEF Held, Fresh, Sizes

\* The steps before the first task leave writer and produced alone.
LEMMA InvBefore ==
    Inv /\ (enforce_workflow_input_limits \/ StartTasks) => Inv'
<1> SUFFICES ASSUME Inv, enforce_workflow_input_limits \/ StartTasks PROVE Inv'
    OBVIOUS
<1> USE DEF Inv
<1>1. UNCHANGED <<store, limits, produced, writer, sink>> /\ writer = NoWriter /\ phase # "returned"
    BY DEF enforce_workflow_input_limits, StartTasks, WriterIdle
<1>2. TypeOK'
    BY <1>1 DEF enforce_workflow_input_limits, StartTasks, TypeOK, Return, Results
<1>3. ProducedFits' /\ WriterExact' /\ WriterOpen' /\ WriterIdle'
    BY <1>1 DEF ProducedFits, WriterExact, WriterOpen, WriterIdle, Above,
        enforce_workflow_input_limits, StartTasks, Return
<1>4. Outcome'
    BY <1>1 DEF enforce_workflow_input_limits, StartTasks, Outcome, Return
<1>5. PlacedSoFar'
    BY <1>1 DEF enforce_workflow_input_limits, StartTasks, PlacedSoFar, Placed, Above, Return
<1> QED BY <1>2, <1>3, <1>4, <1>5

\* A payload that is moved keeps its bytes.
LEMMA InvRethreshold == ASSUME NEW id \in Ids, Inv, Rethreshold(id) PROVE Inv'
<1> USE DEF Inv
<1> DEFINE moved == spilled_to_threshold(store[id])
<1>1. /\ id \in DOMAIN store /\ store[id] \in Held /\ writer = NoWriter
      /\ store' = [store EXCEPT ![id] = moved] /\ todo' = todo \ {id}
      /\ UNCHANGED <<phase, result, limits, produced, writer, sink>> /\ phase = "rethresholding"
    BY DEF Rethreshold, TypeOK, WriterIdle
<1>2. /\ moved \in Held /\ Plain(moved) = Plain(store[id])
      /\ store[id].kind = "Bytes" =>
            (moved.where = "mapped" <=> Above(store[id].bytes, limits.threshold))
    BY <1>1, Spilled
<1>3. moved.bytes = store[id].bytes /\ moved.kind = store[id].kind
    BY <1>2 DEF Plain
<1> HIDE DEF moved
<1>4. DOMAIN store' = DOMAIN store /\ store'[id] = moved
      /\ \A other \in DOMAIN store : other # id => store'[other] = store[other]
    BY <1>1
<1>5. TypeOK'
    BY <1>1, <1>2, <1>4 DEF TypeOK
<1>6. ProducedFits' /\ WriterExact' /\ WriterOpen' /\ WriterIdle' /\ Outcome'
    BY <1>1, <1>3, <1>4 DEF ProducedFits, WriterExact, WriterOpen, WriterIdle, Outcome, Above
<1>7. PlacedSoFar'
    BY <1>1, <1>2, <1>3, <1>4 DEF PlacedSoFar, Placed, Above
<1> QED BY <1>5, <1>6, <1>7

\* An execution that stops leaves its store and writer as they are.
LEMMA InvRefused ==
    ASSUME Inv, UNCHANGED <<store, todo, limits, produced, writer, sink>>,
           phase # "returned", phase' = "returned", result' \in Results \ {"none"},
           result' = "max_output_bytes" => writer = NoWriter \/ writer.limit_exceeded,
           result' = "ok" => writer = NoWriter \/ writer.left = 0
    PROVE  Inv'
BY DEF Inv, TypeOK, ProducedFits, WriterExact, WriterOpen, WriterIdle, Outcome, PlacedSoFar, Placed, Above

LEMMA InvStops ==
    ASSUME Inv,
           \/ \E id \in Ids : RethresholdFails(id)
           \/ \E artifact \in Fresh : ResultRefused(artifact)
           \/ ReportLimit \/ DeviceFails \/ Written
    PROVE  Inv'
<1>1. ASSUME NEW id \in Ids, RethresholdFails(id) PROVE Inv'
    BY <1>1, InvRefused DEF RethresholdFails, Return, Results
<1>2. ASSUME NEW artifact \in Fresh, ResultRefused(artifact) PROVE Inv'
    <2>1. writer = NoWriter
        BY <1>2 DEF Inv, WriterIdle, ResultRefused
    <2> QED BY <1>2, <2>1, InvRefused DEF ResultRefused, Return, Results
<1>3. CASE ReportLimit
    BY <1>3, InvRefused DEF ReportLimit, Return, Results
<1>4. CASE DeviceFails
    BY <1>4, InvRefused DEF DeviceFails, Return, Results
<1>5. CASE Written
    BY <1>5, InvRefused DEF Written, Return, Results
<1> QED BY <1>1, <1>2, <1>3, <1>4, <1>5

\* A task's result is measured before it joins the store.
LEMMA InvCommitResult ==
    ASSUME NEW id \in Ids, NEW artifact \in Fresh, Inv, CommitResult(id, artifact)
    PROVE  Inv'
<1> USE DEF Inv
<1> DEFINE moved == spilled_to_threshold(artifact)
<1>1. /\ id \notin DOMAIN store /\ artifact \in Held /\ writer = NoWriter
      /\ phase = "running" /\ produced' = produced \cup {id}
      /\ UNCHANGED <<todo, phase, result, limits, writer, sink>>
    BY FreshIsHeld DEF CommitResult, WriterIdle
<1>2. /\ moved \in Held /\ Plain(moved) = Plain(artifact)
      /\ artifact.kind = "Bytes" =>
            (moved.where = "mapped" <=> Above(artifact.bytes, limits.threshold))
    BY <1>1, Spilled
<1>3. moved.bytes = artifact.bytes /\ moved.kind = artifact.kind
    BY <1>2 DEF Plain
<1>4. DOMAIN store' = DOMAIN store \cup {id} /\ store'[id] = moved
      /\ \A other \in DOMAIN store : store'[other] = store[other]
    BY <1>1 DEF CommitResult
<1> HIDE DEF moved
<1>5. ~Above(artifact.bytes, limits.output)
    <2>1. ~TooLarge(artifact)
        BY DEF CommitResult
    <2>2. OutputSize(artifact) \in Nat /\ artifact.bytes \in Nat
          /\ artifact.bytes <= OutputSize(artifact)
        BY SizesAssumption DEF OutputSize, artifact_size, Fresh, Sizes
    <2>3. limits.output \in Nat \cup {NoLimit}
        BY SizesAssumption DEF TypeOK
    <2> QED BY <2>1, <2>2, <2>3 DEF TooLarge, Above
<1>6. TypeOK'
    BY <1>1, <1>2, <1>4 DEF TypeOK
<1>7. ProducedFits' /\ WriterExact' /\ WriterOpen' /\ WriterIdle' /\ Outcome'
    BY <1>1, <1>3, <1>4, <1>5 DEF ProducedFits, WriterExact, WriterOpen, WriterIdle, Outcome, Above
<1>8. PlacedSoFar'
    BY <1>1, <1>2, <1>3, <1>4 DEF PlacedSoFar, Placed, Above
<1> QED BY <1>6, <1>7, <1>8

LEMMA InvEvict == ASSUME NEW id \in Ids, Inv, Evict(id) PROVE Inv'
<1> USE DEF Inv
<1>1. /\ DOMAIN store' = DOMAIN store \ {id} /\ writer = NoWriter
      /\ \A other \in DOMAIN store' : store'[other] = store[other]
      /\ phase = "running" /\ produced' = produced \ {id}
      /\ UNCHANGED <<todo, phase, result, limits, writer, sink>>
    BY DEF Evict, WriterIdle
<1>2. todo \subseteq DOMAIN store'
    BY <1>1 DEF PlacedSoFar
<1>3. TypeOK'
    BY <1>1, <1>2 DEF TypeOK
<1>4. ProducedFits' /\ WriterExact' /\ WriterOpen' /\ WriterIdle' /\ Outcome'
    BY <1>1 DEF ProducedFits, WriterExact, WriterOpen, WriterIdle, Outcome, Above
<1>5. PlacedSoFar'
    BY <1>1 DEF PlacedSoFar, Placed, Above
<1> QED BY <1>3, <1>4, <1>5

-----------------------------------------------------------------------------
(* The output.                                                              *)

LEMMA InvOpenOutput == ASSUME NEW id \in Ids, Inv, OpenOutput(id) PROVE Inv'
<1> USE DEF Inv
<1>1. /\ id \in DOMAIN store /\ store[id] \in Held /\ sink = 0
      /\ UNCHANGED <<store, todo, result, limits, produced, sink>>
      /\ phase = "running" /\ phase' = "writing"
    BY DEF OpenOutput, TypeOK, WriterIdle
<1>2. store[id].bytes \in Sizes /\ store[id].bytes \in Nat /\ 0 \in Sizes
    BY <1>1, BytesAreNumbers, SizesAssumption DEF Sizes
<1>3. /\ writer'.ref = id /\ writer'.left = store[id].bytes /\ writer'.written = 0
      /\ writer'.buf \in {0, store[id].bytes} /\ writer'.limit_exceeded = FALSE
      /\ writer' \in [ref : Ids \cup {"none"}, left : Sizes, buf : Sizes, written : Sizes,
                      limit_exceeded : BOOLEAN]
    BY <1>2 DEF OpenOutput
<1>4. TypeOK'
    BY <1>1, <1>3 DEF TypeOK
<1>5. WriterExact'
    <2>0. limits.output \in Nat \cup {NoLimit}
        BY SizesAssumption DEF TypeOK
    <2>1. ~Above(0, limits.output)
        BY <2>0 DEF Above
    <2> QED BY <1>1, <1>2, <1>3, <2>1 DEF WriterExact, Above
<1>6. writer' # NoWriter
    BY <1>3, SizesAssumption DEF NoWriter
<1>7. ProducedFits' /\ WriterOpen' /\ WriterIdle' /\ Outcome' /\ PlacedSoFar'
    BY <1>1, <1>6 DEF ProducedFits, WriterOpen, WriterIdle, Outcome, PlacedSoFar, Placed, Above
<1> QED BY <1>4, <1>5, <1>7

\* The writer was opened before it takes anything; a piece it takes counts.
LEMMA InvWriting ==
    ASSUME Inv, NextPiece \/ WriteAccepted \/ WriteOverLimit PROVE Inv'
<1> USE DEF Inv
<1> DEFINE Writers == [ref : Ids \cup {"none"}, left : Sizes, buf : Sizes, written : Sizes,
                       limit_exceeded : BOOLEAN]
<1>1. /\ UNCHANGED <<store, todo, phase, result, limits, produced>> /\ phase = "writing"
      /\ writer \in Writers /\ sink \in Sizes /\ limits.output \in Nat \cup {NoLimit}
    BY SizesAssumption DEF NextPiece, WriteAccepted, WriteOverLimit, TypeOK
<1>0. /\ writer.left \in Nat /\ writer.buf \in Nat /\ writer.written \in Nat /\ sink \in Nat
    BY <1>1, SizesAssumption DEF Sizes
<1>2. writer # NoWriter
    BY <1>1 DEF WriterOpen
<1>3. /\ writer.ref \in DOMAIN store
      /\ writer.written + writer.left = store[writer.ref].bytes
      /\ writer.buf <= writer.left /\ sink = writer.written
      /\ store[writer.ref].bytes \in 0..MaxBytes
    BY <1>2, BytesAreNumbers DEF WriterExact, TypeOK, Sizes
<1>4. CASE NextPiece
    <2>1. PICK n \in 1..writer.left : writer' = [writer EXCEPT !.buf = n]
        BY <1>4 DEF NextPiece
    <2>2. n \in Sizes /\ n <= writer.left /\ sink' = sink /\ writer' \in Writers
        BY <1>1, <1>4, <2>1, SizesAssumption DEF Sizes, NextPiece
    <2>3. TypeOK'
        BY <1>1, <2>2 DEF TypeOK
    <2>4. writer'.buf = n /\ n > 0 /\ NoWriter.buf = 0
        BY <1>0, <1>1, <2>1 DEF NoWriter
    <2>6. WriterExact' /\ WriterOpen' /\ WriterIdle'
        BY <1>1, <1>2, <1>3, <1>4, <2>1, <2>2, <2>4
        DEF WriterExact, WriterOpen, WriterIdle, NextPiece, Above
    <2>5. ProducedFits' /\ Outcome' /\ PlacedSoFar'
        BY <1>1, <1>4, <2>1 DEF ProducedFits, Outcome, PlacedSoFar, Placed, Above
    <2> QED BY <2>3, <2>5, <2>6
<1>5. CASE WriteAccepted
    <2>1. PICK n \in 1..writer.buf :
            /\ writer' = [writer EXCEPT !.written = @ + n, !.left = @ - n, !.buf = @ - n]
            /\ sink' = sink + n
        BY <1>5 DEF WriteAccepted
    <2>2. /\ writer'.written = writer.written + n /\ writer'.left = writer.left - n
          /\ writer'.buf = writer.buf - n /\ writer'.ref = writer.ref
          /\ writer'.limit_exceeded = FALSE /\ writer' \in Writers /\ sink' \in Sizes
        <3>1. n \in Nat /\ 1 <= n /\ n <= writer.buf
            BY <1>0, <2>1
        <3>2. /\ writer.written + n \in Sizes /\ writer.left - n \in Sizes
              /\ writer.buf - n \in Sizes /\ sink + n \in Sizes
            BY <1>0, <1>3, <3>1, SizesAssumption DEF Sizes
        <3> QED BY <1>1, <1>5, <2>1, <3>2 DEF WriteAccepted
    <2>3. TypeOK'
        BY <1>1, <2>2 DEF TypeOK
    <2>4. ~Above(writer.written + n, limits.output)
        <3>1. n \in Nat /\ n <= writer.buf
            BY <1>0, <2>1
        <3>2. ~Above(writer.written + writer.buf, limits.output)
            BY <1>5 DEF WriteAccepted
        <3>3. CASE limits.output = NoLimit
            BY <3>3 DEF Above
        <3>4. CASE limits.output \in Nat /\ limits.output # NoLimit
            <4>1. writer.written + writer.buf <= limits.output
                BY <1>0, <3>2, <3>4 DEF Above
            <4> QED BY <1>0, <3>1, <3>4, <4>1 DEF Above
        <3> QED BY <1>1, <3>3, <3>4
    <2>5. WriterExact'
        BY <1>1, <1>3, <2>1, <2>2, <2>4, SizesAssumption DEF WriterExact, Sizes, Above
    <2>6. WriterOpen' /\ WriterIdle'
        <3>1. writer'.written > 0 /\ NoWriter.written = 0
            BY <1>0, <2>1, <2>2 DEF NoWriter
        <3>2. writer' # NoWriter
            BY <3>1
        <3> QED BY <1>1, <3>2 DEF WriterOpen, WriterIdle
    <2>7. ProducedFits' /\ Outcome' /\ PlacedSoFar'
        BY <1>1 DEF ProducedFits, Outcome, PlacedSoFar, Placed, Above
    <2> QED BY <2>3, <2>5, <2>6, <2>7
<1>6. CASE WriteOverLimit
    <2>1. writer' = [writer EXCEPT !.limit_exceeded = TRUE] /\ sink' = sink
          /\ Above(writer.written + writer.buf, limits.output)
        BY <1>6 DEF WriteOverLimit
    <2>2. TypeOK'
        BY <1>1, <2>1 DEF TypeOK
    <2>3. WriterExact' /\ WriterOpen' /\ WriterIdle'
        BY <1>1, <1>2, <1>3, <2>1 DEF WriterExact, WriterOpen, WriterIdle, Above, NoWriter
    <2>4. ProducedFits' /\ Outcome' /\ PlacedSoFar'
        BY <1>1 DEF ProducedFits, Outcome, PlacedSoFar, Placed, Above
    <2> QED BY <2>2, <2>3, <2>4
<1> QED BY <1>4, <1>5, <1>6

THEOREM InvNext == Inv /\ [Next]_vars => Inv'
<1> SUFFICES ASSUME Inv, [Next]_vars PROVE Inv'
    OBVIOUS
<1>1. CASE UNCHANGED vars
    BY <1>1 DEF vars, Inv, TypeOK, ProducedFits, WriterExact, WriterOpen, WriterIdle, Outcome,
        PlacedSoFar, Placed, Above
<1>2. CASE enforce_workflow_input_limits \/ StartTasks
    BY <1>2, InvBefore
<1>3. ASSUME NEW id \in Ids, Rethreshold(id) PROVE Inv'
    BY <1>3, InvRethreshold
<1>4. ASSUME NEW id \in Ids, Evict(id) PROVE Inv'
    BY <1>4, InvEvict
<1>5. ASSUME NEW id \in Ids, OpenOutput(id) PROVE Inv'
    BY <1>5, InvOpenOutput
<1>6. ASSUME NEW id \in Ids, NEW artifact \in Fresh, CommitResult(id, artifact) PROVE Inv'
    BY <1>6, InvCommitResult
<1>7. CASE NextPiece \/ WriteAccepted \/ WriteOverLimit
    BY <1>7, InvWriting
<1>8. CASE \/ \E id \in Ids : RethresholdFails(id)
           \/ \E artifact \in Fresh : ResultRefused(artifact)
           \/ ReportLimit \/ DeviceFails \/ Written
    BY <1>8, InvStops
<1> QED BY <1>1, <1>2, <1>3, <1>4, <1>5, <1>6, <1>7, <1>8 DEF Next

THEOREM InvInvariant == Spec => []Inv
BY InvInit, InvNext, PTL DEF Spec

\* The output never exceeds its limit, is refused for its size only if it is
\* larger, and a result the engine let through is not refused at the output.
THEOREM LimitIsExactInvariant == Spec => []LimitIsExact
<1>1. Inv => LimitIsExact
    <2> SUFFICES ASSUME Inv PROVE LimitIsExact
        OBVIOUS
    <2> USE DEF Inv
    <2>1. limits.output \in Nat \cup {NoLimit}
        BY SizesAssumption DEF TypeOK
    <2>2. ~Above(sink, limits.output)
        BY <2>1 DEF WriterIdle, WriterExact, Above
    <2>3. ASSUME phase = "returned", writer # NoWriter, result = "max_output_bytes"
          PROVE  Above(store[writer.ref].bytes, limits.output)
        <3>1. Above(writer.written + writer.buf, limits.output)
            BY <2>3 DEF Outcome, WriterExact
        <3>2. writer.written + writer.buf <= store[writer.ref].bytes
              /\ writer.written + writer.buf \in Int /\ store[writer.ref].bytes \in Int
            BY <2>3, BytesAreNumbers, SizesAssumption DEF WriterExact, TypeOK, Sizes
        <3> QED BY <2>1, <3>1, <3>2 DEF Above
    <2>4. ASSUME phase = "returned", writer # NoWriter, result = "ok"
          PROVE  sink = store[writer.ref].bytes
        BY <2>4, SizesAssumption DEF Outcome, WriterExact, TypeOK, Sizes
    <2> QED BY <2>2, <2>3, <2>4 DEF LimitIsExact, ProducedFits
<1> QED BY <1>1, InvInvariant, PTL

\* Once tasks run, a payload is in a file exactly when it is above the
\* workflow's threshold.
THEOREM ThresholdAppliedInvariant == Spec => []ThresholdApplied
<1>1. Inv => ThresholdApplied
    BY DEF Inv, PlacedSoFar, Placed, ThresholdApplied
<1> QED BY <1>1, InvInvariant, PTL

-----------------------------------------------------------------------------
(* The store implements PlainStore.                                         *)

LEMMA ContractInit == Init => Contract!Init
<1> SUFFICES ASSUME Init PROVE Contract!Init
    OBVIOUS
<1>1. PICK held \in SUBSET Ids : store \in [held -> Fresh]
    BY DEF Init
<1>2. PlainContents \in [held -> PlainArtifacts]
    BY <1>1 DEF PlainContents, PlainArtifacts
<1>3. OutputSoFar = Contract!NoOutput /\ result = "none"
    BY DEF Init, OutputSoFar, Contract!NoOutput
<1> QED BY <1>2, <1>3 DEF Contract!Init

\* The steps nobody sees: moving a payload, counting, raising the flag.
LEMMA ContractStutters ==
    ASSUME Inv,
           \/ UNCHANGED vars \/ StartTasks
           \/ \E id \in Ids : Rethreshold(id)
           \/ NextPiece \/ WriteOverLimit
    PROVE  UNCHANGED Contract!vars
<1>1. CASE UNCHANGED vars \/ StartTasks
    BY <1>1 DEF vars, StartTasks, Contract!vars, PlainContents, OutputSoFar
<1>2. ASSUME NEW id \in Ids, Rethreshold(id) PROVE UNCHANGED Contract!vars
    <2> DEFINE moved == spilled_to_threshold(store[id])
    <2>1. /\ id \in DOMAIN store /\ store[id] \in Held /\ UNCHANGED <<result, writer, sink>>
          /\ store' = [store EXCEPT ![id] = moved]
        BY <1>2 DEF Rethreshold, Inv, TypeOK
    <2>2. Plain(moved) = Plain(store[id])
        BY <2>1, Spilled
    <2> HIDE DEF moved
    <2>3. PlainContents' = PlainContents
        BY <2>1, <2>2 DEF PlainContents
    <2> QED BY <2>1, <2>3 DEF Contract!vars, OutputSoFar
<1>3. CASE NextPiece \/ WriteOverLimit
    <2>1. /\ UNCHANGED <<store, result, sink>>
          /\ writer'.ref = writer.ref
          /\ writer # NoWriter /\ writer' # NoWriter
        <3>1. CASE NextPiece
            <4>1. PICK n \in 1..writer.left : writer' = [writer EXCEPT !.buf = n]
                BY <3>1 DEF NextPiece
            <4>2. writer.left \in Nat /\ NoWriter.left = 0 /\ NoWriter.buf = 0
                BY SizesAssumption DEF Inv, TypeOK, Sizes, NoWriter
            <4>3. writer'.buf = n /\ writer'.ref = writer.ref /\ n > 0 /\ writer.left > 0
                BY <4>1, <4>2 DEF Inv, TypeOK
            <4>4. writer' # NoWriter
                <5>1. writer'.buf # NoWriter.buf
                    BY <4>2, <4>3
                <5> QED BY <5>1
            <4>5. writer # NoWriter
                BY <3>1 DEF Inv, WriterOpen, NextPiece
            <4> QED BY <3>1, <4>3, <4>4, <4>5 DEF NextPiece
        <3>2. CASE WriteOverLimit
            <4>1. NoWriter.limit_exceeded = FALSE /\ NoWriter.buf = 0 /\ writer.buf > 0
                BY <3>2 DEF NoWriter, WriteOverLimit
            <4>2. writer'.limit_exceeded = TRUE /\ writer'.ref = writer.ref
                BY <3>2 DEF WriteOverLimit, Inv, TypeOK
            <4>3. writer # NoWriter /\ writer' # NoWriter
                BY <3>2, <4>1, <4>2 DEF WriteOverLimit, Inv, WriterOpen
            <4> QED BY <3>2, <4>2, <4>3 DEF WriteOverLimit
        <3> QED BY <1>3, <3>1, <3>2
    <2> QED BY <2>1 DEF Contract!vars, PlainContents, OutputSoFar
<1> QED BY <1>1, <1>2, <1>3

\* Tasks add and remove artifacts.
LEMMA ContractTasks ==
    ASSUME NEW id \in Ids, Inv,
           Evict(id) \/ \E artifact \in Fresh : CommitResult(id, artifact)
    PROVE  Contract!Next
<1>1. /\ phase = "running" /\ writer = NoWriter /\ result = "none"
      /\ UNCHANGED <<result, writer, sink>>
    BY DEF Evict, CommitResult, Inv, WriterOpen, WriterIdle, Outcome
<1>2. OutputSoFar = Contract!NoOutput /\ UNCHANGED <<OutputSoFar, result>>
    BY <1>1 DEF OutputSoFar, Contract!NoOutput
<1>3. CASE Evict(id)
    <2>1. id \in DOMAIN store /\ store' = [i \in DOMAIN store \ {id} |-> store[i]]
        BY <1>3 DEF Evict
    <2>2. id \in DOMAIN PlainContents
          /\ PlainContents' = [i \in DOMAIN PlainContents \ {id} |-> PlainContents[i]]
        BY <2>1 DEF PlainContents
    <2> QED BY <1>1, <1>2, <2>2 DEF Contract!Next, Contract!Drop
<1>4. ASSUME NEW artifact \in Fresh, CommitResult(id, artifact) PROVE Contract!Next
    <2> DEFINE moved == spilled_to_threshold(artifact)
    <2>1. store' = [i \in DOMAIN store \cup {id} |-> IF i = id THEN moved ELSE store[i]]
        BY <1>4 DEF CommitResult
    <2>2. Plain(moved) = Plain(artifact) /\ Plain(artifact) \in PlainArtifacts
        BY FreshIsHeld, Spilled DEF PlainArtifacts
    <2> HIDE DEF moved
    <2>3. DOMAIN PlainContents = DOMAIN store
        BY DEF PlainContents
    <2>4. PlainContents' = [i \in DOMAIN PlainContents \cup {id} |->
                                IF i = id THEN Plain(artifact) ELSE PlainContents[i]]
        BY <2>1, <2>2, <2>3 DEF PlainContents
    <2> QED BY <1>1, <1>2, <2>2, <2>4 DEF Contract!Next, Contract!Put
<1> QED BY <1>3, <1>4

\* An error leaves contents and output as they are.
LEMMA ContractFails ==
    ASSUME Inv, UNCHANGED <<store, writer, sink>>, phase # "returned",
           result' \notin {"none", "ok"}
    PROVE  Contract!Next
BY DEF Inv, Outcome, Contract!Next, Contract!Fail, PlainContents, OutputSoFar

LEMMA ContractErrors ==
    ASSUME Inv,
           \/ \E id \in Ids : RethresholdFails(id)
           \/ \E artifact \in Fresh : ResultRefused(artifact)
           \/ ReportLimit \/ DeviceFails
    PROVE  Contract!Next
<1>1. ASSUME NEW id \in Ids, RethresholdFails(id) PROVE Contract!Next
    BY <1>1, ContractFails DEF RethresholdFails, Return
<1>2. ASSUME NEW artifact \in Fresh, ResultRefused(artifact) PROVE Contract!Next
    BY <1>2, ContractFails DEF ResultRefused, Return
<1>3. CASE ReportLimit
    BY <1>3, ContractFails DEF ReportLimit, Return
<1>4. CASE DeviceFails
    BY <1>4, ContractFails DEF DeviceFails, Return
<1> QED BY <1>1, <1>2, <1>3, <1>4

LEMMA ContractLimits ==
    ASSUME Inv, enforce_workflow_input_limits
    PROVE  Contract!Next \/ UNCHANGED Contract!vars
<1>1. CASE InputsFit
    BY <1>1 DEF enforce_workflow_input_limits, Contract!vars, PlainContents, OutputSoFar
<1>2. CASE ~InputsFit
    BY <1>2, ContractFails DEF enforce_workflow_input_limits, Return
<1> QED BY <1>1, <1>2

\* A writer is open: nothing is called "none".
LEMMA WriterNames == ASSUME Inv, writer # NoWriter PROVE OutputSoFar # Contract!NoOutput
<1>1. OutputSoFar.ref = writer.ref /\ writer.ref \in Ids
    BY DEF OutputSoFar, Inv, WriterExact, TypeOK
<1>2. Contract!NoOutput.ref = "none"
    BY DEF Contract!NoOutput
<1> QED BY <1>1, <1>2, SizesAssumption

LEMMA ContractOpens == ASSUME NEW id \in Ids, Inv, OpenOutput(id) PROVE Contract!Next
<1>1. /\ writer = NoWriter /\ result = "none" /\ id \in DOMAIN store /\ sink = 0
      /\ UNCHANGED <<store, result, sink>> /\ writer'.ref = id
    BY DEF OpenOutput, Inv, WriterOpen, WriterIdle, Outcome
<1>2. writer' # NoWriter
    BY <1>1, SizesAssumption DEF NoWriter
<1>3. OutputSoFar = Contract!NoOutput /\ OutputSoFar' = [ref |-> id, length |-> 0]
    BY <1>1, <1>2 DEF OutputSoFar, Contract!NoOutput
<1>4. PlainContents' = PlainContents /\ id \in DOMAIN PlainContents
    BY <1>1 DEF PlainContents
<1> QED BY <1>1, <1>3, <1>4 DEF Contract!Next, Contract!Open

\* What is on the device is a prefix of the artifact.
LEMMA ContractExtends == ASSUME Inv, WriteAccepted PROVE Contract!Next
<1>1. /\ writer \in [ref : Ids \cup {"none"}, left : Sizes, buf : Sizes, written : Sizes,
                     limit_exceeded : BOOLEAN]
      /\ phase = "writing" /\ writer.buf > 0 /\ result = "none" /\ UNCHANGED <<store, result>>
    BY DEF Inv, TypeOK, Outcome, WriteAccepted
<1>2. writer # NoWriter
    BY <1>1 DEF NoWriter
<1>3. /\ writer.ref \in DOMAIN store /\ sink = writer.written
      /\ writer.written + writer.left = store[writer.ref].bytes /\ writer.buf <= writer.left
    BY <1>2 DEF Inv, WriterExact
<1>4. PICK n \in 1..writer.buf :
        /\ writer' = [writer EXCEPT !.written = @ + n, !.left = @ - n, !.buf = @ - n]
        /\ sink' = sink + n
    BY DEF WriteAccepted
<1>5. /\ writer.left \in Nat /\ writer.buf \in Nat /\ writer.written \in Nat
      /\ n \in Nat /\ 1 <= n /\ n <= writer.buf
    BY <1>1, <1>4, SizesAssumption DEF Sizes
<1>6. writer'.written = writer.written + n /\ writer'.ref = writer.ref
    BY <1>1, <1>4
<1>7. writer' # NoWriter
    <2>1. writer'.written # 0 /\ NoWriter.written = 0
        BY <1>5, <1>6 DEF NoWriter
    <2> QED BY <2>1
<1>8. sink + n \in (sink + 1)..store[writer.ref].bytes
    BY <1>3, <1>5
<1>9. /\ OutputSoFar = [ref |-> writer.ref, length |-> sink]
      /\ OutputSoFar' = [ref |-> writer.ref, length |-> sink + n]
    BY <1>2, <1>4, <1>6, <1>7 DEF OutputSoFar
<1>10. PlainContents' = PlainContents /\ PlainContents[writer.ref].bytes = store[writer.ref].bytes
    BY <1>1, <1>3 DEF PlainContents, Plain
<1>11. OutputSoFar # Contract!NoOutput
    BY <1>2, WriterNames
<1>12. /\ OutputSoFar.length = sink /\ OutputSoFar.ref = writer.ref
       /\ OutputSoFar' = [OutputSoFar EXCEPT !.length = sink + n]
    BY <1>9
<1> QED BY <1>1, <1>8, <1>10, <1>11, <1>12 DEF Contract!Next, Contract!Extend

LEMMA ContractSucceeds == ASSUME Inv, Written PROVE Contract!Next \/ UNCHANGED Contract!vars
<1>1. /\ phase = "writing" /\ writer.left = 0 /\ result = "none" /\ result' = "ok"
      /\ UNCHANGED <<store, writer, sink>>
    BY DEF Inv, Outcome, Written, Return
<1>2. writer # NoWriter
    BY <1>1 DEF Inv, WriterOpen
<1>3. sink = store[writer.ref].bytes /\ writer.ref \in DOMAIN store
    BY <1>1, <1>2, SizesAssumption DEF Inv, WriterExact, TypeOK, Sizes
<1>4. OutputSoFar.length = sink /\ OutputSoFar.ref = writer.ref
    BY <1>2 DEF OutputSoFar
<1>5. PlainContents[writer.ref].bytes = store[writer.ref].bytes
    BY <1>3 DEF PlainContents, Plain
<1>6. UNCHANGED <<PlainContents, OutputSoFar>>
    BY <1>1 DEF PlainContents, OutputSoFar
<1>7. OutputSoFar # Contract!NoOutput
    BY <1>2, WriterNames
<1> QED BY <1>1, <1>3, <1>4, <1>5, <1>6, <1>7 DEF Contract!Next, Contract!Succeed

LEMMA ContractNext == Inv /\ [Next]_vars => [Contract!Next]_Contract!vars
<1> SUFFICES ASSUME Inv, [Next]_vars PROVE Contract!Next \/ UNCHANGED Contract!vars
    OBVIOUS
<1>1. CASE enforce_workflow_input_limits
    BY <1>1, ContractLimits
<1>2. CASE \/ UNCHANGED vars \/ StartTasks
           \/ \E id \in Ids : Rethreshold(id)
           \/ NextPiece \/ WriteOverLimit
    BY <1>2, ContractStutters
<1>3. ASSUME NEW id \in Ids, Evict(id) \/ \E artifact \in Fresh : CommitResult(id, artifact)
      PROVE  Contract!Next
    BY <1>3, ContractTasks
<1>4. CASE \/ \E id \in Ids : RethresholdFails(id)
           \/ \E artifact \in Fresh : ResultRefused(artifact)
           \/ ReportLimit \/ DeviceFails
    BY <1>4, ContractErrors
<1>5. ASSUME NEW id \in Ids, OpenOutput(id) PROVE Contract!Next
    BY <1>5, ContractOpens
<1>6. CASE WriteAccepted
    BY <1>6, ContractExtends
<1>7. CASE Written
    BY <1>7, ContractSucceeds
<1> QED BY <1>1, <1>2, <1>3, <1>4, <1>5, <1>6, <1>7 DEF Next

\* Whatever storage the payloads have and wherever a step fails, contents and
\* output are those of a store without files.
THEOREM StoreImplementsPlainStore == Spec => ImplementsPlainStore
BY ContractInit, ContractNext, InvInvariant, PTL DEF Spec, ImplementsPlainStore, Contract!Spec
=============================================================================
