# A TLA+ model of OxidePDF

OxidePDF is a PDF toolbox in Rust: a library that runs workflows of PDF
operators (`crates/oxidepdf-core`), a command line on top of it
(`crates/oxidepdf-cli`) and a small web server with a browser form
(`crates/oxidepdf-web`). This directory models its control logic in TLA+,
checks the models with TLC and proves the most important results with TLAPS.
`PROJECT.json` says which lines each definition stands for, which mutation of the
code each property catches and which hazards the properties are for.

- [Inventory](#inventory)
- [Plan](#plan)
- [Modules](#modules)
- [Runs](#runs)
- [Fairness](#fairness)
- [Proofs](#proofs)
- [Disagreements between documentation and code](#disagreements-between-documentation-and-code)
- [Other observations](#other-observations)
- [What is assumed of external code](#what-is-assumed-of-external-code)
- [Not modelled](#not-modelled)

## Inventory

### Core library

| Component | State and operations | Hard behaviour | What makes it correct |
|---|---|---|---|
| Workflow validation (`workflow/validation.rs`, `workflow/execution/commit_workflow_task.rs`) | pure: checks limits, ids, references; one Kahn pass builds `ExecutionPlan` | first error wins; the task graph is built twice by separate code | accepts exactly the well-formed workflows; layers are depths; `last_consumer` |
| Workflow executor (`workflow/execution/*`) | `WorkflowState` under one mutex: artifact store, `ready`, `remaining_deps`, `consumer_counts`, `remaining`, `waker` | threads that cannot be cancelled, retries, a deadline, wake-ups, eviction while others run | commit once, inputs present, counters exact, nothing leaks or goes early, the call returns, no error is swallowed |
| Artifact payloads (`workflow/artifact/*`) | inline bytes or an unlinked mapped temporary file; `ArtifactStore::rethreshold`; `LimitWriter` | spilling fails half way; short writes; an output of exactly the limit | nothing lost on a failed spill; never a byte over the limit; storage is invisible |
| Operator runner (`operators/runner/*`) | none; dispatches a task to an operator | number and kind of inputs; bytes and parsed documents | a chain works whichever operator came before |
| Operator options (`operators/options/*`) | serde types, two hand-written directions | 49 operators, five families, exactly one per task | an operator survives a workflow file with every option |
| PDF reading and writing (`pdf_io.rs`) | none: load, edit, prune, renumber, save | ids change between two operators | references still mean the same objects |
| Page operations (`page_ops/*`) | the page tree of one document, or of a merged one | 1-based ranges, object renumbering, orphaned nodes, inherited attributes, limits over several inputs | the right pages in the right order; a consistent tree; never an empty document or one over the limit |
| Outlines (`outlines/*`) | the outline tree, read back as pages | items whose page is gone | an edit shows in the report |
| Attachments (`attachments/*`) | a name tree with names and specifications in turn | three ways to store each dictionary; a name that is taken | adding and deleting one file leaves the others |
| Annotations, forms, interactive elements (`annotations.rs`, `forms/*`, `interactive.rs`) | the form's fields, the pages' annotation arrays | shared objects; inline and indirect arrays | what is removed is referred to from nowhere |
| Metadata (`metadata.rs`) | the Info dictionary | entries that are not strings | set and delete touch only their keys |
| Compression (`compression/*`) | the streams of one document | equal streams merged under every reference to them | the pages look the same |
| Security (`security/*`) | encryption state of a document | owner and user password | only the owner changes permissions; the document comes out as it went in |
| Signatures (`signatures/*`) | signature fields, their widgets and values | a field is referred to from form and page | deletion leaves nothing behind |
| Overlay, watermark, images, colour (`overlay/*`) | Resources dictionaries, streams and page contents | own, shared and inherited resources; fixed names; streams overwritten in place | the pages asked for change, the others do not |
| Comparison (`compare/*`) | none | | pure |

### Command line

| Component | State and operations | Hard behaviour | What makes it correct |
|---|---|---|---|
| CLI run (`workflow.rs`, `runtime/io.rs`, `runtime/error.rs`) | the file system: inputs, outputs, temporary files, metrics | files that change between two system calls, kills, several outputs of which a later one fails, standard output behind a buffer | nothing clobbered without `--force`, no half file at an output path, no leftover temporary file, exit code 0 means delivered, nothing goes on over the limits |
| Standard input (`stdin.rs`) | the stream, read once | the list of its readers is kept apart from the readers; the workflow file is read twice | read when used, used once |
| Commands and arguments (`lib.rs`, `args/*`, `edit/*`, `adv/*`) | none: one-operator workflows | the parser lets through what the engine refuses | no flag is lost; what is accepted runs |

### Web server

| Component | State and operations | Hard behaviour | What makes it correct |
|---|---|---|---|
| Artifact service (`lib/parse_size.rs`, `lib/blocking_io.rs`, `lib/run_workflow.rs`, `lib/api_execute_workflow.rs`, `main.rs`) | `Store` under a mutex: artifacts, `total_bytes`; files in `./upload`; the sequence counter | two-step reads (path under the lock, file without), eviction during requests, sweeper, uploads failing half way, restarts | accounting equals contents, caps hold, oldest first, files match records, idle artifacts drain |
| Schema (`schema/*`) | none: the forms' operators and options; `parse_op`, the allow-list | three lists kept by hand | what the form sends is taken; nothing else gets in |
| Request filters (`lib/web_security.rs`), front end (`static/*`) | none | | one decision per request; DOM code |

### How the components interact

The three doors of the program (a command, a workflow file, a web request) build
a workflow. The CLI and the web server load its inputs into an `ArtifactStore`
and call `execute_workflow`. That validates the workflow, moves payloads to where
its threshold wants them, builds the `WorkflowState` and hands it to an apalis
worker, whose backend is the workflow's own ready queue. The worker runs each
task attempt on a blocking thread of its own; the thread clones its inputs out of
the store, calls the operator runner and commits the result. An operator loads
its document (or takes a parsed one from its predecessor), edits it and hands it
on or saves it. The driver awaits worker events under the deadline and takes the
store out of the shared state at the end. The CLI then writes the outputs through
temporary files and `LimitWriter`; the server writes them to `./upload` and
stores a record.

Concurrency is in three places: threads and the worker around `WorkflowState`,
requests and the sweeper around `Store`, processes and users around the file
system. Failure is in all three: operators that fail, panic or hang, a spill
without disk space, uploads cut off, processes killed. Below the runner the
program is sequential; what is hard there are long sequences of legal operators
on documents stored in unusual ways. `PROJECT.json` lists each hazard at its line.

## Plan

In the order of importance. A tick is done.

1. [x] `WorkflowContract`, `WorkflowExecutor`: the concurrent executor; the proofs
   of its inductive invariant and of the refinement.
2. [x] `WorkflowPlan`, `WorkflowValidation`, composed with the executor in
   `PlannedExecution`; proofs of the pass and of the composition.
3. [x] `ArtifactService`: the store of the web server under concurrent requests; the
   proofs of its invariant and of the eviction order.
4. [x] `CliRun`: the file system and standard output as the CLI uses them; the proofs of
   its invariant, of the input budget and of what exit code 0 means.
5. [x] `PageList`, `PageTree`: the page operations on the object graph, which
   implement the same operations on a sequence of pages; the tree's consistency and the
   refinement proved.
6. [x] `PlainStore`, `PayloadStore`: inline and spilled payloads, `rethreshold` and
   its rollback, `LimitWriter`; refinement and limits proved.
7. [x] `Operators`, `OperatorRunner`, `Commands`, `WebSchema`, composed with
   validation in `FrontDoors`: from a call to its last operator, standard input
   included; all its properties proved.
8. [x] `DocumentReport`, `Document`: attachments, forms, annotations, metadata,
   outlines, signatures and encryption; references proved sound, and the refinement
   proved.
9. [x] `PageLooks`, `Drawing`: overlays, images, colours and compression on own,
   shared and inherited resources; names proved sound, and the refinement proved.
10. [ ] The First/Next/Prev/Parent links of the outline tree and its depth guard.
11. [ ] Signature byte ranges and the verification verdict.

Runs stay on two or three actors and the smallest limits at which the limit is
reached, passed and missed.

## Modules

### WorkflowExecutor

One action per critical section of `WorkflowState`, or per step between two.

| State | Code |
|---|---|
| `store`, `remaining_deps`, `ready`, `consumer_counts`, `remaining`, `waker` | fields of `WorkflowState` |
| `poll` | where the stream `WorkflowBackend` stands: polled, parked, ended |
| `job`, `attempt`, `events`, `stopped` | the apalis worker: fetched and running jobs, retries, events, `worker.stop()` |
| `pc[t][a]` | the blocking thread of attempt `a` of task `t` in `run_workflow_job` |
| `expired` | whether `started_at` is `timeout_ms` ago |
| `driver`, `result`, `taken` | `run_apalis_workflow`'s loop, what the call returns, the store it took |

`ResolveInputs` and `Commit` are the two critical sections; `RunOperator` is
between them; `BeginAttempt` and `RecheckTimeout` are the two calls of
`enforce_timeout`. A thread whose attempt has timed out keeps its place in
`pc`, because nothing in the code stops it. After a failed call the threads go
on as well.

Task ids are indices, artifacts are named by the task that makes them, contents
are left out: no property depends on them. A counter that would underflow is
not guarded in the model as it is in the code (`checked_sub` and an error);
`TypeCorrect` proves that it never does.

`WorkflowContract` knows nothing of queues, threads and eviction: tasks
complete once, after what they read, and the call returns once.

### WorkflowPlan, WorkflowValidation, PlannedExecution

`WorkflowPlan` has `validate_workflow`'s checks in their order (`Rejection`) and
the Kahn pass with the `ExecutionPlan` it builds. `WorkflowValidation` validates
one workflow (`ValidationSpec`); `FrontDoors` calls it for every workflow of a
family. A workflow is tasks, inputs and outputs of any number with any names
(`IsWorkflow`), sound or not.
`PlannedExecution` extends executor and planner and puts the executor next to the
plan that validation made for the same workflow: the two are derived from the
tasks by separate code, and what is dispatched has to agree with the plan.

### PlainStore and PayloadStore

| State | Code |
|---|---|
| `store` | `ArtifactStore`: each artifact's kind, length and whether its payload is inline or mapped |
| `todo` | what `rethreshold` has yet to visit |
| `writer`, `sink` | the `LimitWriter` with its count and flag, and what the device has taken |
| `limits`, `phase`, `result` | the limits of the call, how far it is, how it ended |

Input limits, `rethreshold` with its rollback, results that are refused or
committed, evictions, and one output written in pieces that the device may take
in part or not at all. `PlainStore` has artifacts and outputs and no storage.

### Operators, OperatorRunner, Commands, WebSchema, FrontDoors

The first four are operators without state: every option struct by its required
and optional fields and its selector, with both serde directions; the inputs each
operator accepts and the kind it returns; every command with its operands, flags,
guards and the operator it builds; the schema's forms and `parse_op`. `FrontDoors`
has the state: a call comes through one of three doors, standard input is read or
not, the workflow is built, loaded, validated and run operator by operator.
A value of an option is not modelled, only whether it is given; a flag's value
may be malformed. `mode` of compression counts as given when it asks for lossy
compression, for lossless is what its absence means. What may call is stated as
assumptions (`CallsAssumption`): commands with the operands and flags that clap lets through, workflow files with the fields that
serde asks for, and requests for operators that exist, of any size and with any names.
`load_file_bytes` lists each uploaded file once, where it is first mentioned.

### ArtifactService

Requests are clients in a phase. A request that takes the lock twice is in
between two actions, and everything else may happen there. Time is an age per
artifact, and `EvictsOldestFirst` compares each insertion with what it throws out.
`disk` holds the ids whose file is in `./upload`; files an earlier
process left are `left`. A UUID is a number never issued before. The temporary
files of an upload in progress are not counted: they belong to no artifact.
A workflow request (`/api/workflow`) takes the lock as an execution over distinct
ids does, and its own errors are answers that `RunRequest` allows.

### CliRun

Each system call of `oxidepdf run` that another process can observe is an action.
A file's content is who wrote it, as which output, whether it is whole, and its
size. `Kill` can strike between any two actions, `UserTouches` creates,
replaces and removes files, and `StdoutCloses` is a pipe whose reader has gone or a disk
that is full.

`loaded` is what a run has of its inputs in memory, an input that is about to be refused
included: `fs::read` knows no limit. Standard output is a line buffer before a descriptor.
`stdout` is what was written to the buffer and `out` how much of it has left the process;
a write may push on what is there before it (`Passes`) or fail, and what it leaves behind
goes out at `process::exit`, whose errors nobody sees (`ProcessExit`). A process that is
killed flushes nothing.

### PageList and PageTree

`PageTree` has the objects the page tree consists of, by id, and one action per
operator of `page_ops`. A behaviour is a chain of operators on one artifact, as
in a workflow; `merge` may take in another document on either side.

| State | Code |
|---|---|
| `pdf[s].objects` | the `Page` and `Pages` dictionaries of a `lopdf::Document`: `Kids`, `Count`, `Parent`, `Rotate`, `MediaBox` (its height), `CropBox` (whether one was set), `Resources`, and the drawing as a sequence of marks |
| `form[s]` | whether the artifact is bytes or a parsed document |
| `edits`, `last` | how many operations so far, and which was the last |

Every operator but `merge` starts from `single_pdf_document`, which saves and
loads a parsed document (`Loaded`): objects that nothing refers to go and ids
change. `merge` takes the parsed document as it is, with the nodes earlier
operations left behind. `PageList` knows neither ids nor trees: it selects,
drops, joins and decorates pages of a sequence, and it defines the booklet by
its leaves where the code computes indices. Both speak of the keys on the pages
themselves (`View`): where a page inherits its height the list has `None`, scaling leaves
it so, and what the operators do to inherited keys is the question of `rotate_turns` and
`kept_pages_look_the_same`.

`IsDocument` says what a document is: typed objects, a root that is no page, kids
that name their node as `Parent` and are listed once, exact counts, and at least one
page. Originals are assumed to be documents (`OriginalsAssumption`), and the value that
stands for an absent key is assumed to be no number (`NoneAssumption`); objects outside
the tree may be anything. Failing operators change nothing, so what `parse_page_range`
and the limits refuse is a missing step.

### DocumentReport and Document

`Document` has what a PDF keeps beside the contents of its pages, as objects and
references: the name tree (its entries are names and specifications in turn, as
in the file), the form and its fields, each page's annotations, the Info
dictionary, the outline by the pages it names, and the passwords. Each of the
containers may be absent, inline or an object of its own, because much of the
code treats these differently. One action is one operator, from loading to
saving; an operator that fails is not a step. Saving drops what nothing refers
to and renumbers the rest, so that a dangling reference may come to mean
anything (`Dangling`). Loading refuses an encrypted document and one without pages. `Kept` is
`Vec::retain` by positions. An encrypted document has two passwords, neither of them empty
(a bound: a file that only an owner password protects is not modelled).

`DocumentReport` says what the inspection operators report before and after each
operator. Where the program does less than one would ask, the contract says when:
attachments and the form are extended where the file keeps them as objects of their own
(`extensible`, which every operator has to keep track of) and started anew elsewhere; a
name that is taken makes the attachments unreadable; the form takes every annotation
along; a signature that only a page refers to goes with the page's annotations; and nothing
is promised of a form that can no longer be read.

### PageLooks and Drawing

`Drawing` has the `Resources` dictionaries (a page's own, one that pages share, one
of the parent), the image and form streams they name, and page contents as a
sequence of items. A page's `Resources` is its own or an object that others may share
(`Homes`); an item names a stream, the watermark's font or nothing (`Items`). A form may
use one image. Text, positions and pixels are
model values; a colour is a level in quarters. `InForce` and `LooksOf` are the
viewer: the page's own dictionary hides its parent's. The code looks names up in
another way (`MergedResources`), and `NamesResolve` compares the two. A page that is laid
over others comes from a document of its own, and has its resources inline, in an object,
or inline in its parent (`Places`); `imported_page_resources` does not find the last, and what
is seen of the form is then `Nothing`.

`PageLooks` promises what pages look like after an operator: what was asked for is painted,
and no other mark changes, but for four weaknesses. It knows where each page has its
resources (`home`), and so says at which pages each of them strikes:

- a page that draws with inherited resources loses them with the first edit that gives it
  some of its own (`Left`);
- the program's names and opacity belong to a dictionary, so its new mark changes its own
  earlier ones on every page with the same dictionary (`Reached`);
- a replaced image may also change other marks that showed the same picture (`gone`);
- a page that is laid over others may show `Nothing` (`Seen`).

### MC modules

`MCWorkflowExecutor`, `MCPayloadStore`, `MCFrontDoors`, `MCArtifactService`,
`MCCliRun`, `MCPageTree`, `MCDocument` and `MCDrawing` only give the constants their
small values. Type invariants that no run lists are proved (`ArtifactService`,
`PageTree`) or are conjuncts of the proved invariants (`WorkflowExecutor`, `CliRun`,
`PayloadStore`).

## Runs

| Run | Question | Instance and why it is enough |
|---|---|---|
| `executor` | Is the executor safe when operators fail, panic or hang, spilling fails, attempts time out and are retried; does it keep to the plan and implement its contract; does the deadline end every call, and an undisturbed workflow come back with the right answer? | three tasks, of which two share an input and the third joins both and reads one twice; two at a time; one retry; a deadline. Has sharing, joining, repetition, an evictable and an output artifact, an orphaned thread next to its retry |
| `front_doors` | Do the parser, the list of readers of standard input, the builders, the serde directions, the schema, `parse_op`, validation and the runner agree with one another? | every command with each number of operands, each operand a file or `-`, and no flags, any two, or all; all workflows of up to two tasks with any wrong ids and references and all graphs of three tasks with up to two inputs each; every chain of two operators; small web requests of both kinds |
| `payloads` | Are thresholds, failing spills and short writes invisible, and is the output limit exact? | two artifacts of up to three bytes; limits of none, zero and two, so that sizes lie below, at and above each |
| `service` | Accounting, caps, eviction order, input limits, file ownership; do idle artifacts and files disappear, also after a restart? | two clients, three requests, one restart; files and results of one to three units, caps of two artifacts and three units: every upload fits, needs an eviction, is too large or too many |
| `service_restart` | Do the files under `./upload` stay within the cap? (violated) | one restart |
| `cli_outputs` | Are the files and standard output right when invocations, kills, closed pipes and a user interleave, and do inputs over the limits stop a run? | two invocations that meet on one path, one with `--force` and one rewriting its own input; standard input, and standard output written twice with a file between; metrics; limits one and two units; two interferences |
| `page_tree` | Do chains of page operations act on the sequence of pages as they should, and keep the page tree consistent and within `max_pages`? | three documents, a flat one with pages out of id order, a nested one with an inner node of a lower id than the root, and one whose root and inner node carry the keys of their pages; chains of three operations; at most five pages, so that a merge fits or not, and a booklet needs one sheet or two |
| `rotate_turns` | Does a rotated page turn? (violated) | a document whose root carries `Rotate` |
| `kept_pages_look_the_same` | Do kept pages keep their attributes? (violated) | a document whose inner node carries `Resources` |
| `documents` | Do references stay sound, and does each operator change its report, and another only where the contract says so? | two pages; the name tree in six ways, two of which no reader accepts, times the form and the annotations in twelve; open and encrypted; chains of two operators: one edit, and one that meets what it left |
| `added_files` | Is an attachment that was added listed? (violated) | one document without attachments, two additions |
| `drawing` | Do names lead to streams, and does each operator change the marks it was asked to change and no others but those `PageLooks` names? | two pages with own, shared, inherited, mixed and indirect resources; equal, different and masked images, images in one and in two equal forms; a page with an earlier watermark; overlaid pages with their resources in all three places; chains of two operators |

Bounds that are not part of the code: `MaxEdits` in `PageTree`, `Document` and
`Drawing`, `Ids` in the latter two (a document may run out of objects),
`MaxRequests` and `MaxCrashes` in `ArtifactService`, `MaxUser` in `CliRun`. Ages are
counted to one past the TTL. `CHECK_DEADLOCK FALSE` is set where the system may
stop: when the clients of `ArtifactService` have used up their requests, when all
invocations of `CliRun` have ended, when a call of `FrontDoors` or an output of
`PayloadStore` is done, when a chain of operators is.

A panic without a deadline: `spawn_workflow_future` returns the `JoinHandle`'s
error to apalis, and whether apalis then reports the job is outside the
repository. `OperatorPanics` allows both, and only the deadline is then known
to end the call.

## Fairness

The two liveness properties of the executor carry their assumptions with them:

- `DeadlineEndsTheCall` assumes `DeadlineRuns`: only that the clock advances and
  that the driver's own code runs. `next_event_within_deadline` races the event
  stream with a timer, so nothing else is needed. No thread, no operator and no
  poll is assumed to run.
- `AnswersInTheEnd` assumes `RuntimeRuns`: that the async runtime polls what was
  woken (`Poll`, and not `SpuriousPoll`), that the worker's layers make progress,
  that the blocking pool runs its threads and that operators return; and that
  neither deadline nor panic disturbs the run (`Undisturbed`). Nothing is assumed
  of the deadline.

`FairSpec` of `ArtifactService` assumes the clock and the sweeper's interval.
Clients promise nothing.

## Proofs

`WorkflowExecutorProofs` proves, for every workflow that passed validation and every
limit, under `CountsAssumption` and `WorkflowAssumption` (acyclicity is only needed
for progress, hence by TLC's runs):

    IInv == TypeOK /\ ThreadInv /\ CountersExact /\ DispatchInv /\ StoreExact /\ EndInv

None of the safety properties is inductive alone. `CommitOnce` needs
`ThreadInv`: attempts are spawned in order, and a new one is spawned only if the
former thread died without committing or the workflow has expired, in which
case the new thread dies at its first `enforce_timeout`. `InputsPresent`
needs that a task on its way has not committed yet, so that each of its inputs
is still wanted and `StoreExact` keeps it; that the inputs were there
before is `DispatchInv`: whatever is queued or running has no open dependency.
`CountersExact` is about cardinalities of sets of input occurrences; one commit
removes one task's occurrences from each (`SplitCardinality`, `CommitCounts`).
`EndInv` ties the end of the event stream and the taken store to `remaining = 0`.
From `IInv` follow the safety theorems and, with `FailInv` (a failed job leaves its
error in `events`), `ErrorsReported`. `ExecutorImplementsContract` maps
`Committed` to `completed`; a commit maps to `Complete`, the driver's return to
`ReturnOk` or `ReturnErr`, everything else to a stutter.

`PlanFollowed` composes the executor with the planner, for every workflow of its
constants. One half is `DispatchInv` of `IInv`: what is handed out has its inputs. The
other half, that no task is forgotten, is an invariant of its own (`NoneForgotten`): a
task whose open dependencies are down to none has been queued. What remains is about
the plan alone and comes from `FrontDoorsProofs`: in an acyclic workflow every
task is in a layer, and every task it reads is in an earlier one.

`FrontDoorsProofs` first proves what the planner computes for every workflow of any size.
The Kahn pass is three nested loops, written as recursive functions and a fold.
`VisitInv` follows the walk over the dependents of one task (pending counters, the order
so far, the next queue), `RoundInv` the rounds: whatever is emitted has its inputs
emitted before it, `remaining_deps` counts exactly the inputs that are not, and each
layer is what the one before made ready. A pass therefore ends with the least set that contains
whatever has all its inputs in it, and the tasks outside are exactly those that wait on
one another. `AcceptanceIsExact`, `LayeringIsExact` and `EvictionIsSafe` follow for
`ValidationSpec`, and `AnswersAreRight` for `FrontDoors`, which makes the same `Accept` and
`Reject` steps.

Then it proves every property of `FrontDoors`, for calls of any size under
`CallsAssumption`, `LimitsAssumption` and `MadeUpIdsAssumption`:

    FrontInv == CallKept /\ BuiltInv /\ Validated /\ RunInv

Each property compares what separate parts of the code know of the same call, so two
kinds of argument meet. One is about tables: a command is in one table of arguments and one
of builders (`ArgsAre`, `BuildersAre`), only twenty pairs of tables share a command
(`CommandTables`), and in each pair every flag that the parser takes is passed on to an option
that the operator has, and every option that it requires is set or comes from a required flag
(`CommandsFit`, `CommandsRun`). Reading back is an inverse of writing for every operator
whose fields are those of its struct (`RoundTrip`, `RunsParsed`). The other is about
behaviours: `BuiltInv` says what the workflow of each door is once it stands, `Validated` that
validation answered for that workflow, `RunInv` which artifacts exist after `done` tasks and
of which kind they are; and for standard input, `StdinInv` says who has consumed it at each
stage. That the workflows the program builds itself are accepted is one lemma
(`InOrderIsAccepted`: distinct ids, and each task reads inputs and earlier tasks),
which a web request of any number of steps meets because `load_file_bytes` lists every file
it mentions, and each once (`FilesLoaded`).

`ArtifactServiceProofs` proves the store of the web server for any number of clients,
requests and sizes, under `ServiceAssumption`:

    Inv == StoreInv /\ RequestInv /\ RestInv

`StoreInv` has the caps and the accounting, and that sequence numbers are distinct, for
the eviction loop needs an oldest. `RequestInv` says what a request knows between two
critical sections: the bytes it has read plus the sizes of those it has still to read,
as far as they are still stored, stay within the limit. It needs `NothingReturns`: an id
that has gone does not come back with another size, so the check made under an earlier
lock stays good. Sums of sizes over sets that grow and shrink are handled by induction over
subsets. `EvictionOrder` is the action property: what goes is older than what stays, and
nothing goes needlessly.

`CliRunProofs` proves the file-system properties for any number of
invocations, inputs, outputs and files under `RunAssumption`:

    Inv == TypeOK /\ PositionInv /\ TempInv /\ WholeFilesOnly

`PositionInv` says where in its inputs or outputs a run is at each step, `TempInv`
that a run's temporary file is the one of its present target, whole from
"persist" on, and that a run which is neither filling, renaming nor killed has none.
Two more invariants rest on it. `BudgetInv` bounds what a run that goes on has loaded by the
total limit and by the limit per input times the inputs already read: a file that grew
between its metadata and its read is loaded whole, and then the run is on its way out with
the limit's code (`InputBudget`). `DeliveryInv` says at each step which outputs are
in place and which were written to standard output; a file in place may only be lost to the
user or to another output of the same path, and the end of standard output to a descriptor
that takes no more, which the property names (`SuccessMeansDelivered`).

`PageTreeProofs` proves, for documents, ranges and limits of any size and chains of any
length, under `PageAssumption` and `OriginalsAssumption`:

    DocumentInv == /\ DOMAIN pdf = Slots /\ form \in ... /\ edits \in 0..MaxEdits
                   /\ \A s \in Slots : IsDocument(pdf[s])
                   /\ PagesBounded

`PagesBounded` alone is not inductive, and neither is `TreeConsistent`: an operator reads
`PageIds`, which says nothing of a tree in which a page is listed twice or a kid is no
object. The proof goes through the set of leaves. `PagesListed` shows that the list
`get_pages` returns is a list of that set without repetition and as long as the root's
`Count`; then each step is about sets and counts. Saving (`PruneKeeps`), renumbering
(`RenumberKeeps`, an injection on ids that permutes the ids of the pages), ranges
(`AcceptedRange`), `rebuild_pages_tree` (`RebuildMakesDocument`), imposition
(`ImposeMakesDocument`) and merging (`MergeMakesDocument`) are lemmas. The one that needs most is
`MergeMakesDocument`: the Pages node that survives may be the root of either document or
an orphan an earlier operation left, and the argument must not care which.

`TreeImplementsList` proves the refinement of `PageList`, under the same assumptions and
`NoneAssumption`, from the same invariant; for this the set of leaves is not enough and the
sequence matters. First, what an operator starts from: a tree whose objects are relabelled
by a map has its pages relabelled by that map in the same order (`RelabelledPages`, along
the nested `Kids`), so that pruning and renumbering change no page's place or keys
(`PruneView`, `RenumberOrder`, `LoadedView`), although `renumber_objects_with` deals the ids
of the pages out again. Then what it leaves: `rebuild_pages_tree` lists the chosen pages in
the order they were asked for (`KeptView`), and `merge_documents`, which collects pages by id,
lists those of the left document and then those of the right, because all ids of
the left were made smaller and each document's ids rise in page order (`MergedView`,
`RisingConcat`). Last, one lemma per operator (`SelectStep` to `BookletStep`). Where both
specifications describe an order or a sum in their own words, a lemma shows that they agree: the
ascending order of the pages that stay (`OrderIsAscending`), the offsets on a fused page
(`FuseStep`), and the place of each page on a booklet's sheets, which the code finds by index
in one list of four times as many places as sheets (`FlattenFoursAt`, `BookletOrderIs`,
`BookletCells`). `StepOfList` joins them.

`PayloadStoreProofs` proves, for any ids, sizes, thresholds and limits under
`SizesAssumption`:

    Inv == TypeOK /\ ProducedFits /\ WriterExact /\ WriterOpen /\ WriterIdle /\ Outcome /\ PlacedSoFar

`LimitIsExact` needs `WriterExact` (what is written and what is left add up to the
artifact, and the flag is raised only over a piece that does not fit) and
`ProducedFits` (what the engine let through is measured in the same bytes as the
output). `ThresholdApplied` needs `PlacedSoFar`: what `rethreshold` has visited is
where it belongs. `StoreImplementsPlainStore` maps each step of the storage to a
stutter and each write to an extension of the output by what the device took.

`DocumentProofs` and `DrawingProofs` prove `ReferencesResolve` and `NamesResolve` for
any original documents, any number of objects and any sequence of operators.
Both use `Sound(doc) == Shape(doc) /\ Resolves(doc)`. Resolving alone is not
inductive: an update of a component says nothing of a value that is no record
with that component, and `Shape` is what of the documents' type the argument
needs. Each operator is a lemma; pruning, adding an object, entering it in a
dictionary and merging equal streams are lemmas they share. The interesting one
is `MergedSound`: a stream that goes is replaced everywhere by one with the same
key, so what a form uses is still an image, and the one that stays stands for
itself (`CanonicalStays`). `SoundResolves` shows the second half of `NamesResolve`:
a name that both the viewer and the code resolve, they resolve to one stream.

Both also prove the refinement of the abstract specification, one lemma per operator.

`DocumentImplementsReport` needs more of the documents than soundness: `Whole` adds what
`Typed` says of pages, name trees and passwords. The reports are functions of the document
that may fail, so the lemmas separate what there is to report (`Fields`, `Signatures`,
`Notes`) from whether it can be read (`Reported`). `Alike` relates two documents that no
inspection tells apart, and saving yields such a document if nothing dangles
(`SavedAlike`); an operator's lemma then compares two unsaved documents in the parts it
writes. Where a form keeps a reference to an object that is gone, saving may let it mean any
other object, and the contract of `DeleteSignature` is proved for each of them. The exceptions of
the contract are conditions on the report before the step, so each lemma shows from the
document which of them applies. Attachments are the
one place where order matters: `Kept`, the program's `retain`, is followed place by place
(`CountingUp`), and a list of names and specifications in turn stays one when both
halves of an entry go, and only then.

`DrawingImplementsLooks` compares what the viewer sees before and after. `MarkFields` and
`LooksFields` take the looks of a page apart into single marks, so that painting
(`PaintLooks`) says of each old mark what it shows now: the same as before, nothing if the page
lost what it inherited, or the new picture if its name is the one that was redefined in a
dictionary the page draws with. That these are the pages of `Reached` is `ReachedEdited`; that an
imported page shows its picture or `Nothing`, as its place asks, is `PageOverlayPaints`.
Recolouring changes items and no resources, compression streams and no
items; merging equal streams shows the same picture under every name (`MergedLooks`).

Induction over data. The library's induction theorems take the property as an operator,
which the provers cannot instantiate. The proofs therefore state the property as a set,
and derive from the library's well-foundedness of `<` and of the subset order that the set
of counterexamples has a least element and so none (`CountingUp`, `LeastNumber`,
`SubsetInduction`). A recursive function is defined by a choice among the functions
that satisfy its equation; the same induction shows that there is one (`FlattenGrows`, and
the loops of the planner). Tables are finite but large: a lemma reads off which names they
have (`BuilderDomains`), and what follows is one case per table.

Only model-checked:

- all liveness properties, which the prover does not reach: `DeadlineEndsTheCall` and
  `AnswersInTheEnd` of the executor, `Drains` of the service.

Every safety invariant, action property and refinement that a passing run checks is a theorem.

## Disagreements between documentation and code

Found by runs that expect a violation:

- `service_restart`: README.md:339-341 says that files under `./upload` are evicted
  past the cap. A killed server leaves its files, and the next process does not
  know them.
- `rotate_turns`: selection_edit.rs:64 says that pages are rotated by 90, 180 or
  270 degrees. `rotate_on_document` adds to the page's own `Rotate` or to 0, so a
  page that inherits 90 and is rotated by 90 stays as it was.
- `kept_pages_look_the_same`: selection_edit.rs:1 says that the specified pages are
  kept. `rebuild_pages_tree` hangs them below the root, so what they inherit from
  an inner node is lost. `page_tree` therefore starts from documents whose pages
  have their keys themselves.
- `added_files`: commands.rs:175 says that attachments are added and listed.
  `add_attachment` drops the older name string from the array of names and
  specifications and keeps its specification; from then on the array has odd
  length and no attachment can be listed, extracted or deleted.

Visible in a property that names its exception:

- `StdinSharedOnlyByCompare`: runtime/io.rs:124-126 says that a command that would
  feed standard input to more than one input is rejected. `pdf-compare report - -`
  and `pdf-compare visual-diff - -` are not (cli compare.rs:29): the document is
  compared with itself.
- `SuccessDelivers`: README.md:287 says that exit code 0 means success. Outputs for `-` go
  through the line buffer of `io::stdout()` (cli lib.rs:103), which is never flushed but by
  `process::exit`, and that ignores errors: the end of an output, or a small one altogether,
  may be lost with exit code 0.
- `InputsBounded`: runtime/io.rs:218-219 says that a huge file is never allocated just to be
  rejected. One that grows after `fs::metadata` is read whole and then rejected.
- `EveryCommandRuns`: three commands are taken by the parser and refused by their operator,
  whatever the documents: a text watermark without a text or a font, a timestamp without a
  token or with a URL, and `compress` in lossy mode without image options or in lossless mode,
  the default, with some (compression/pipeline.rs:46-84).
- `DocumentReport.FormGone`: operators' try_from.rs:65 says "Remove AcroForm and form
  widgets." `remove_acroform` (interactive.rs:69) drops every annotation of every page.
- `PageLooks.Left`: overlay.rs:31 says that overlays are added. A page that draws with
  inherited resources gets an empty dictionary of its own (pdf_io.rs:261), which hides them, so
  its earlier marks go blank.
- `PageLooks.Seen`: commands.rs:110 says that one page is overlaid onto another PDF.
  `imported_page_resources` (xobjects.rs:101-127) finds the resources in the page or in
  objects that it or its ancestors refer to; a page whose resources are inline in its
  parent gives a form that shows nothing of what it draws with them.

Not a disagreement but easy to misread: `types/from.rs:42-44` says that an artifact
can be evicted after its `last_consumer` has run. That is so when tasks run one at a
time in `task_order` (`SequentialEvictionIsSafe`). The concurrent executor may still
have other consumers to run at that point; it does not use the field but counts.

## Other observations

Met while modelling, and part of the models where they concern control:

- Attachments and forms: an inline name tree is replaced when a file is added, and
  then holds that file only. Scripts and embedded files are removed from an inline
  name tree only: with an indirect one, which `add_attachment` itself creates, the
  removal fails. Signing replaces a form that is stored inline and an
  annotation array that is an object of its own; deleting a signature field leaves
  its reference in an inline form.
- Two signed fields are each reported twice: `discover_pdf_signature_dictionaries`
  removes adjacent duplicates of a list that is not sorted.
- An outline item whose page was removed makes the outline unreadable, and with it
  the comparison report.
- Writing metadata drops Info entries that are neither strings nor names, and the
  dictionary when nothing is left. `remove_actions` removes the key `A` of every
  dictionary.
- Overlays use fixed names (`OxWmGS`, `OxWmF1`, `OxWmIm`, `OxWmSvg`, `OxPdfOverlay`), so a
  second one on a page redefines the opacity, font or image of the first. An added
  image is painted with `OxWmGS`, which only an earlier overlay defines. A replaced
  image is overwritten in place, for every name that shares its stream, and
  a form under the name becomes an image; a deleted one leaves its `Do`. Overlays need a
  `MediaBox` on the page itself. Lossy compression and colour edits fail whole on
  the first image or operator they do not support. Forms that differ in the
  duplicates they use merge only in a second compression.
- `--max-upload` is not compared with `--max-storage` (web main.rs:84). If it is larger, a
  file larger than the whole store is taken: it evicts every artifact and then itself, and
  the upload is answered with an id that is gone. `EvictsOldestFirst` names the case.
- A request's `list` of signatures keeps the default mode of verification
  (sign.rs:11). The schema lets `SvgToPdf` take several inputs, the runner exactly one;
  it says that `ImageExtract` returns an image, the runner returns bytes.
- `single_pdf_document` says that parsed documents are reused without parsing
  again; it saves and loads them.
- A spilled payload is a sparse mapping (bytes.rs:157-175): a disk that fills up
  while it is written is a signal and not the error that its comment promises.

## What is assumed of external code

- apalis: the layers are stacked concurrency, rate limit, retry, timeout,
  parallelize, as `run_apalis_workflow` orders them. A retry creates a new attempt
  on a new blocking thread. `worker.stop()` succeeds while the worker runs. The
  worker's event stream ends once it was stopped or the backend returned `None`.
  The rate limiter only delays.
- tower and tokio timers never fire early, so an attempt's timeout implies the
  workflow's.
- `tempfile`: dropping a `NamedTempFile` deletes it; `persist_noclobber` fails when
  the name is taken; both rename atomically. A killed process runs no destructor.
- Reading an unlinked but open file succeeds.
- clap enforces the operands and flags that the argument structs declare; serde
  fills in defaults and refuses what is missing, unless a field is optional.
- lopdf: `get_pages` lists the leaves in tree order; `renumber_objects_with` gives
  the pages ascending ids in page order; `prune_objects` removes what the trailer
  does not reach; `delete_pages` removes the page objects;
  `get_or_create_resources` gives a page without `Resources` an empty dictionary;
  `get_page_resources` returns a page's inline dictionary and the objects that it
  and its ancestors refer to.
- PDF viewers: a page's own `Resources` hides its parent's (ISO 32000, 7.7.3.4).

## Not modelled

- Comparison: a pure function of two reports, or of the pixels of an external
  renderer; a model would restate the comparison. Which inputs it reads is in
  `Commands` and `FrontDoors`.
- Request filters: guards on the headers of one request, without state.
- The browser's DOM code; its requests are the clients of `ArtifactService` and the
  web calls of `FrontDoors`.
- Of components modelled in part: the links of the outline tree; titles; byte ranges,
  CMS and X.509 of signatures; permission bits and cryptography; image and font
  decoding, placement, text extraction and rendering; conversions between images,
  SVG and PDF; nested fields of forms; load shedding, content types and `parse_size`
  of the server; the values of options and flags. They are data transformations,
  mostly in libraries, or reading without a state that outlives the call.
