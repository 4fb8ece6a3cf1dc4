------------------------------- MODULE CliRun -------------------------------
(***************************************************************************)
(* `oxidepdf run` seen from the file system: loading the inputs under the  *)
(* input limits, executing, writing the outputs one by one through         *)
(* temporary files, writing the metrics.  Several invocations and a user   *)
(* share the file system, every system call is a step of its own, and a    *)
(* process may be killed between any two.  Standard output is a line       *)
(* buffer before a descriptor, and may stop taking bytes at any time.      *)
(*                                                                         *)
(* A file's content is abstracted to who wrote it, as what, and its size.  *)
(***************************************************************************)
EXTENDS Integers, Sequences, FiniteSets

CONSTANTS
    Runs,        \* the invocations
    Files,       \* the paths of regular files
    Stdio,       \* the path "-"
    NoPath,      \* no --metrics-output given
    Inputs,      \* Inputs[p]: the paths of workflow.inputs
    Outputs,     \* Outputs[p]: the paths of workflow.outputs
    Metrics,     \* Metrics[p]: --metrics-output
    Forced,      \* Forced[p]: --force
    Sizes,       \* the sizes a user's file can have
    StdinSize,   \* bytes on standard input
    MaxInput,    \* limits.max_input_bytes
    MaxTotal,    \* limits.max_total_input_bytes
    MaxUser      \* bound: times the user touches the file system

ASSUME RunAssumption ==
    /\ Stdio \notin Files /\ NoPath \notin Files
    /\ Inputs \in [Runs -> Seq(Files \cup {Stdio})]
    /\ Outputs \in [Runs -> Seq(Files \cup {Stdio})]
    /\ Metrics \in [Runs -> Files \cup {Stdio, NoPath}]
    /\ Forced \in [Runs -> BOOLEAN]
    /\ Sizes \subseteq Nat
    /\ {StdinSize, MaxInput, MaxTotal, MaxUser} \subseteq Nat

VARIABLES
    fs,      \* Files -> content
    temps,   \* contents of the NamedTempFiles on disk
    stdout,  \* per run: the outputs written to io::stdout()
    out,     \* per run: how many of them have left its buffer
    refuses, \* per run: standard output takes no more bytes
    step,    \* per run: the system call it is about to make
    at,      \* per run: index of the input or output it is at
    seen,    \* per run: the size fs::metadata reported last
    loaded,  \* per run: bytes of input in memory, its total_input_bytes
             \* until an input is refused
    exit,    \* per run: its exit code, or "none"
    user     \* times the user has touched the file system

pipe == <<stdout, out, refuses>>
here == <<step, at, seen, loaded, exit>>
vars == <<fs, temps, stdout, out, refuses, step, at, seen, loaded, exit, user>>

\* CliError::exit_code: 0, 2, 3, 4, 5, 70, and death by a signal.
ExitCodes == {"ok", "usage", "input", "password", "limit", "failed", "killed"}

NoFile == [by |-> "nobody", part |-> 0, whole |-> TRUE, size |-> 0]
UserFile(size) == [by |-> "user", part |-> 0, whole |-> TRUE, size |-> size]
\* The k-th output of run p; the metrics are part 0.
Written(p, k) == [by |-> p, part |-> k, whole |-> TRUE, size |-> 1]
Partial(p, k) == [Written(p, k) EXCEPT !.whole = FALSE]
Exists(f) == fs[f] # NoFile

Init ==
    /\ fs \in [Files -> {NoFile} \cup {UserFile(n) : n \in Sizes}]
    /\ temps = {}
    /\ stdout = [p \in Runs |-> <<>>]
    /\ out = [p \in Runs |-> 0]
    /\ refuses = [p \in Runs |-> FALSE]
    /\ step = [p \in Runs |-> "start"]
    /\ at = [p \in Runs |-> 1]
    /\ seen = [p \in Runs |-> 0]
    /\ loaded = [p \in Runs |-> 0]
    /\ exit = [p \in Runs |-> "none"]
    /\ user = 0

GoTo(p, next) ==
    /\ step' = [step EXCEPT ![p] = next]
    /\ UNCHANGED <<at, seen, loaded, exit>>

\* run_with_io returns; the process is about to exit.
Return(p, code) ==
    /\ step' = [step EXCEPT ![p] = "exit"]
    /\ exit' = [exit EXCEPT ![p] = code]
Exit(p, code) == Return(p, code) /\ UNCHANGED <<at, seen, loaded>>

-----------------------------------------------------------------------------
(* run_workflow up to the execution.                                        *)

\* check_metrics_output_path, then reading and parsing the workflow, which may
\* read at most one input from "-".
Start(p) ==
    /\ step[p] = "start"
    /\ \/ /\ \/ Metrics[p] = Stdio
             \/ Metrics[p] \in Files /\ Exists(Metrics[p]) /\ ~Forced[p]
          /\ Exit(p, "usage")
       \/ /\ Metrics[p] # Stdio
          /\ Metrics[p] \in Files => ~Exists(Metrics[p]) \/ Forced[p]
          /\ \/ Cardinality({i \in DOMAIN Inputs[p] : Inputs[p][i] = Stdio}) <= 1
                /\ GoTo(p, IF Inputs[p] = <<>> THEN "execute" ELSE "stat")
             \/ \E code \in {"usage", "input", "limit"} : Exit(p, code)
    /\ UNCHANGED <<fs, temps, pipe, user>>

\* read_path_or_stdin: metadata first, so that a huge file is not read.
StatInput(p) ==
    LET path == Inputs[p][at[p]] IN
    /\ step[p] = "stat"
    /\ \/ path = Stdio /\ GoTo(p, "read")
       \/ path \in Files /\ ~Exists(path) /\ Exit(p, "input")
       \/ path \in Files /\ Exists(path) /\ fs[path].size > MaxInput /\ Exit(p, "limit")
       \/ /\ path \in Files /\ Exists(path) /\ fs[path].size <= MaxInput
          /\ seen' = [seen EXCEPT ![p] = fs[path].size]
          /\ step' = [step EXCEPT ![p] = "read"]
          /\ UNCHANGED <<at, loaded, exit>>
    /\ UNCHANGED <<fs, temps, pipe, user>>

\* enforce_cli_input_limits, for n bytes that are in memory by then.
Account(p, n) ==
    /\ loaded' = [loaded EXCEPT ![p] = @ + n]
    /\ UNCHANGED seen
    /\ \/ (n > MaxInput \/ loaded[p] + n > MaxTotal) /\ Return(p, "limit") /\ UNCHANGED at
       \/ /\ n <= MaxInput /\ loaded[p] + n <= MaxTotal
          /\ at' = [at EXCEPT ![p] = IF @ < Len(Inputs[p]) THEN @ + 1 ELSE 1]
          /\ step' = [step EXCEPT ![p] =
                        IF at[p] < Len(Inputs[p]) THEN "stat" ELSE "execute"]
          /\ UNCHANGED exit

\* Mutant: relies on the size that fs::metadata reported.
ReadUnchecked(p) ==
    LET path == Inputs[p][at[p]]
        n == IF path = Stdio THEN StdinSize ELSE fs[path].size IN
    /\ step[p] = "read"
    /\ \/ path \in Files /\ ~Exists(path) /\ Exit(p, "input")
       \/ /\ path = Stdio \/ Exists(path)
          /\ loaded[p] + seen[p] <= MaxTotal
          /\ loaded' = [loaded EXCEPT ![p] = @ + n]
          /\ at' = [at EXCEPT ![p] = IF @ < Len(Inputs[p]) THEN @ + 1 ELSE 1]
          /\ step' = [step EXCEPT ![p] =
                        IF at[p] < Len(Inputs[p]) THEN "stat" ELSE "execute"]
          /\ UNCHANGED <<seen, exit>>
    /\ UNCHANGED <<fs, temps, pipe, user>>
\* fs::read, by which time the file may have grown: it is read to its end.
ReadInput(p) ==
    LET path == Inputs[p][at[p]] IN
    /\ step[p] = "read"
    /\ \/ path = Stdio /\ Account(p, StdinSize)
       \/ path \in Files /\ ~Exists(path) /\ Exit(p, "input")
       \/ path \in Files /\ Exists(path) /\ Account(p, fs[path].size)
    /\ UNCHANGED <<fs, temps, pipe, user>>

\* Where a run goes when it has no k-th output: the metrics, or a clean exit.
NextOutput(p, k) ==
    /\ at' = [at EXCEPT ![p] = k]
    /\ UNCHANGED <<seen, loaded>>
    /\ \/ k <= Len(Outputs[p]) /\ step' = [step EXCEPT ![p] = "output"] /\ UNCHANGED exit
       \/ /\ k > Len(Outputs[p]) /\ Metrics[p] # NoPath
          /\ step' = [step EXCEPT ![p] = "metrics"] /\ UNCHANGED exit
       \/ /\ k > Len(Outputs[p]) /\ Metrics[p] = NoPath
          /\ Return(p, "ok")

Execute(p) ==
    /\ step[p] = "execute"
    /\ NextOutput(p, 1) \/ \E code \in ExitCodes \ {"ok", "killed"} : Exit(p, code)
    /\ UNCHANGED <<fs, temps, pipe, user>>

-----------------------------------------------------------------------------
(* write_outputs_with_stats.                                                *)

\* Bytes written to io::stdout() stay in its line buffer, or push what is there
\* before them on to the descriptor, while that takes any.
Passes(p, counts) ==
    \E n \in counts \cup {out[p]} :
        /\ refuses[p] => n = out[p]
        /\ out' = [out EXCEPT ![p] = n]

\* An output for "-".  A document is streamed: when it exceeds the output
\* limit, or the pipe breaks, part of it may be out already.  Nothing flushes
\* the buffer, so that what fits in it is written although nobody reads.
WriteStdout(p) ==
    LET before == Len(stdout[p])
        Prints(file) == stdout' = [stdout EXCEPT ![p] = Append(@, file)] IN
    /\ step[p] = "output"
    /\ Outputs[p][at[p]] = Stdio
    /\ \/ /\ Prints(Written(p, at[p])) /\ Passes(p, {before, before + 1})
          /\ NextOutput(p, at[p] + 1)
       \/ /\ UNCHANGED stdout \/ Prints(Partial(p, at[p]))
          /\ Passes(p, {before})
          /\ \E code \in {"limit", "failed"} : Exit(p, code)
    /\ UNCHANGED <<fs, temps, refuses, user>>

\* The file to be written now and its number: an output, or the metrics.
TargetOf(p) == IF step[p] \in {"metrics", "fill metrics", "persist metrics"}
               THEN <<Metrics[p], 0>> ELSE <<Outputs[p][at[p]], at[p]>>

\* path.exists() and --force, then NamedTempFile::new_in the target directory.
CreateTemp(p) ==
    LET path == TargetOf(p)[1]  k == TargetOf(p)[2] IN
    /\ step[p] \in {"output", "metrics"}
    /\ path \in Files
    /\ \/ Exists(path) /\ ~Forced[p] /\ Exit(p, "usage") /\ UNCHANGED temps
       \/ /\ ~Exists(path) \/ Forced[p]
          /\ \/ /\ temps' = temps \cup {Partial(p, k)}
                /\ GoTo(p, IF k = 0 THEN "fill metrics" ELSE "fill")
             \/ Exit(p, "failed") /\ UNCHANGED temps
    /\ UNCHANGED <<fs, pipe, user>>

Drop(p) == temps' = {file \in temps : file.by # p}

\* Mutant: a failed write does not stop the output from being put in place.
FillIgnoringErrors(p) ==
    LET k == TargetOf(p)[2] IN
    /\ step[p] \in {"fill", "fill metrics"}
    /\ GoTo(p, IF k = 0 THEN "persist metrics" ELSE "persist")
    /\ \/ temps' = (temps \ {Partial(p, k)}) \cup {Written(p, k)}
       \/ UNCHANGED temps
    /\ UNCHANGED <<fs, pipe, user>>
\* write_output_to the temporary file, under max_output_bytes; an error drops
\* the file.
FillTemp(p) ==
    LET k == TargetOf(p)[2] IN
    /\ step[p] \in {"fill", "fill metrics"}
    /\ \/ /\ temps' = (temps \ {Partial(p, k)}) \cup {Written(p, k)}
          /\ GoTo(p, IF k = 0 THEN "persist metrics" ELSE "persist")
       \/ Drop(p) /\ \E code \in {"limit", "failed"} : Exit(p, code)
    /\ UNCHANGED <<fs, pipe, user>>

\* Mutant: the name is looked up before the write only, so the rename replaces
\* whatever has appeared since.
RenameOnto(p, path) == TRUE
\* persist renames onto the target, persist_noclobber only to a free name.
MayRename(p, path) == Forced[p] \/ ~Exists(path)

\* Mutant: a file that could not be put in place is left behind.
PersistKeepingTemp(p) ==
    LET path == TargetOf(p)[1]  k == TargetOf(p)[2] IN
    /\ step[p] \in {"persist", "persist metrics"}
    /\ \/ /\ MayRename(p, path)
          /\ \E file \in temps : file.by = p /\ fs' = [fs EXCEPT ![path] = file]
          /\ Drop(p)
          /\ IF k = 0 THEN Exit(p, "ok") ELSE NextOutput(p, k + 1)
       \/ Exit(p, "failed") /\ UNCHANGED <<fs, temps>>
    /\ UNCHANGED <<pipe, user>>
\* persist_output_file: the temporary file takes its name or is dropped.
Persist(p) ==
    LET path == TargetOf(p)[1]  k == TargetOf(p)[2] IN
    /\ step[p] \in {"persist", "persist metrics"}
    /\ Drop(p)
    /\ \/ /\ MayRename(p, path)
          /\ \E file \in temps : file.by = p /\ fs' = [fs EXCEPT ![path] = file]
          /\ IF k = 0 THEN Exit(p, "ok") ELSE NextOutput(p, k + 1)
       \/ Exit(p, "failed") /\ UNCHANGED fs
    /\ UNCHANGED <<pipe, user>>

-----------------------------------------------------------------------------
(* The rest of the machine.                                                 *)

\* Mutant: leaves without the standard library's clean-up.
ExitUnflushed(p) ==
    /\ step[p] = "exit"
    /\ step' = [step EXCEPT ![p] = "end"]
    /\ UNCHANGED <<fs, temps, pipe, at, seen, loaded, exit, user>>
\* main: process::exit empties the buffer of io::stdout() and ignores the error
\* when the descriptor takes nothing; the exit code stands.
ProcessExit(p) ==
    /\ step[p] = "exit"
    /\ step' = [step EXCEPT ![p] = "end"]
    /\ out' = [out EXCEPT ![p] = IF refuses[p] THEN @ ELSE Len(stdout[p])]
    /\ UNCHANGED <<fs, temps, stdout, refuses, at, seen, loaded, exit, user>>

\* A killed process drops nothing and flushes nothing.
Kill(p) ==
    /\ step[p] # "end"
    /\ step' = [step EXCEPT ![p] = "end"]
    /\ exit' = [exit EXCEPT ![p] = "killed"]
    /\ UNCHANGED <<fs, temps, pipe, at, seen, loaded, user>>

\* The user creates, replaces or removes a file.
UserTouches ==
    /\ user < MaxUser
    /\ user' = user + 1
    /\ \E f \in Files, content \in {NoFile} \cup {UserFile(n) : n \in Sizes} :
           fs' = [fs EXCEPT ![f] = content]
    /\ UNCHANGED <<temps, pipe, here>>

\* The reader of a run's standard output goes away, or its disk is full.
StdoutCloses(p) ==
    /\ step[p] # "end"
    /\ refuses' = [refuses EXCEPT ![p] = TRUE]
    /\ UNCHANGED <<fs, temps, stdout, out, here, user>>

RunStep(p) ==
    \/ Start(p) \/ StatInput(p) \/ ReadInput(p) \/ Execute(p)
    \/ WriteStdout(p) \/ CreateTemp(p) \/ FillTemp(p) \/ Persist(p)
    \/ ProcessExit(p) \/ Kill(p)

Next == (\E p \in Runs : RunStep(p) \/ StdoutCloses(p)) \/ UserTouches

Spec == Init /\ [][Next]_vars

-----------------------------------------------------------------------------
(* Properties.                                                              *)

Steps == {"start", "stat", "read", "execute", "output", "fill", "persist",
          "metrics", "fill metrics", "persist metrics", "exit", "end"}
Contents ==
    [by : Runs \cup {"nobody", "user"}, part : Nat, whole : BOOLEAN, size : Nat]

PipeOK ==
    /\ stdout \in [Runs -> Seq(Contents)]
    /\ out \in [Runs -> Nat]
    /\ refuses \in [Runs -> BOOLEAN]

\* Types, and at most one temporary file per run.
TypeOK ==
    /\ fs \in [Files -> Contents]
    /\ temps \subseteq Contents
    /\ \A f, g \in temps : f.by = g.by => f = g
    /\ PipeOK
    /\ step \in [Runs -> Steps]
    /\ at \in [Runs -> Nat \ {0}]
    /\ seen \in [Runs -> Nat]
    /\ loaded \in [Runs -> Nat]
    /\ exit \in [Runs -> ExitCodes \cup {"none"}]

\* Without --force no existing file is replaced or removed, even one that
\* appeared after the check, and no run touches anything but its own targets.
NoClobber ==
    [][\A p \in Runs : step'[p] # step[p] => \A f \in Files :
           fs'[f] # fs[f] =>
               /\ Forced[p] \/ ~Exists(f)
               /\ f = Metrics[p] \/ \E k \in DOMAIN Outputs[p] : Outputs[p][k] = f]_vars

\* What stands at a path is always complete, whatever limit or crash struck
\* while it was being written.
WholeFilesOnly == \A f \in Files : fs[f].whole

\* Only a killed process leaves a temporary file behind.
TempsCleaned ==
    \A p \in Runs : exit[p] \notin {"none", "killed"} => \A file \in temps : file.by # p

\* A run goes on with the inputs it has loaded only while they are within both
\* limits, although files grow between fs::metadata and fs::read: one that has
\* loaded more is refused with the limit's exit code, unless it is killed first.
InputsBounded ==
    \A p \in Runs : exit[p] \notin {"limit", "killed"} =>
        /\ loaded[p] <= MaxTotal
        /\ loaded[p] <= MaxInput * Len(Inputs[p])

\* Exit code 0 means that every output was delivered: as long as the user keeps
\* out and only one run writes there, its file is in place; everything meant
\* for standard output was written to it, whole and in order, and has left the
\* process unless the descriptor takes no more bytes.
Targets(p) == Append(Outputs[p], Metrics[p])
Contended(f) ==
    \/ user > 0
    \/ \E p, q \in Runs : \E i \in DOMAIN Targets(p), j \in DOMAIN Targets(q) :
           <<p, i>> # <<q, j>> /\ Targets(p)[i] = f /\ Targets(q)[j] = f
SuccessDelivers ==
    \A p \in Runs : step[p] = "end" /\ exit[p] = "ok" =>
        /\ \A k \in DOMAIN Outputs[p] :
               Outputs[p][k] \in Files /\ ~Contended(Outputs[p][k]) =>
                   fs[Outputs[p][k]] = Written(p, k)
        /\ \A file \in {stdout[p][i] : i \in DOMAIN stdout[p]} : file.whole
        /\ {k \in DOMAIN Outputs[p] : Outputs[p][k] = Stdio} =
               {stdout[p][i].part : i \in DOMAIN stdout[p]}
        /\ \A i, j \in DOMAIN stdout[p] : i < j => stdout[p][i].part < stdout[p][j].part
        /\ refuses[p] \/ out[p] = Len(stdout[p])
        /\ Metrics[p] # NoPath /\ ~Contended(Metrics[p]) => fs[Metrics[p]] = Written(p, 0)
=============================================================================
