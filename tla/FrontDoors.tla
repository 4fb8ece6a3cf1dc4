----------------------------- MODULE FrontDoors -----------------------------
(***************************************************************************)
(* From a call to its last task: the three doors of the program (a command, *)
(* a workflow file given to `run`, a request to the web server) build a     *)
(* workflow, load its inputs, have it validated and run its operators in   *)
(* task order.  A call is a record with a field door:                      *)
(*   "command"  command, operands, flags, malformed (a value that is no     *)
(*              key=value, colour or tree)                                 *)
(*   "run"      path, content, metrics: where the workflow file and the    *)
(*              metrics are, and what the file holds                       *)
(*   "single"   tasks with one task, and files: uploaded kinds by position *)
(*   "steps"    tasks whose inputs are <<"file", id>> or <<"step", index>> *)
(* A content has the fields workflow, paths (one per input) and defs (one  *)
(* serialised operator per task).                                          *)
(***************************************************************************)
EXTENDS WorkflowValidation, Commands, OperatorRunner, WebSchema

CONSTANTS Calls, Contents, MaxFiles, MaxInputs, MaxTasks
VARIABLES call, stage, stdin, consumed, changed, ops, kinds, done
frontVars == <<validationVars, call, stage, stdin, consumed, changed, ops, kinds, done>>

\* What the argument parser lets through, a workflow file that has the fields
\* of one, and requests for operators that there are.
IsCommand(c) ==
    /\ c.command \in CommandNames
    /\ \E n \in ArgsOf(c.command).operands : c.operands \in [1..n -> {"file", "-"}]
    /\ ArgsOf(c.command).required \subseteq c.flags
    /\ c.flags \subseteq ArgsOf(c.command).required \cup ArgsOf(c.command).optional
    /\ c.malformed \in BOOLEAN
IsDef(def) ==
    /\ DOMAIN def \subseteq OperatorFamilies
    /\ \A f \in DOMAIN def :
        /\ IsFiniteSet(def[f])
        /\ \A e \in def[f] :
            /\ e = [name |-> e.name, kind |-> e.kind, given |-> e.given]
            /\ e.name \in DOMAIN Variants[f] => e.kind \in KindsOf(f, e.name)
IsContent(c) ==
    /\ IsWorkflow(c.workflow)
    /\ c.paths \in [Numbers(c.workflow.inputs) -> {"file", "-"}]
    /\ DOMAIN c.defs = Numbers(c.workflow.tasks) /\ \A t \in DOMAIN c.defs : IsDef(c.defs[t])
IsRequest(r) ==
    /\ r.family \in OperatorFamilies /\ r.name \in DOMAIN Variants[r.family]
    /\ r.given \subseteq FieldsOf(r) /\ r.local \in BOOLEAN
StepSources(files) == ({"file"} \X DOMAIN files) \cup ({"step"} \X (Nat \ {0}))

IsCommandCall(c) == c.door = "command" /\ IsCommand(c)
IsRunCall(c) ==
    /\ c.door = "run" /\ DOMAIN c = {"door", "path", "metrics", "content"}
    /\ c.path \in {"file", "-"} /\ c.metrics \in {"none", "-"} /\ IsContent(c.content)
IsWebCall(c) ==
    /\ IsSequence(c.files) /\ IsSequence(c.tasks) /\ \A t \in DOMAIN c.tasks : IsRequest(c.tasks[t])
    /\ \/ c.door = "single" /\ Len(c.tasks) = 1
       \/ /\ c.door = "steps"
          /\ \A t \in DOMAIN c.tasks : c.tasks[t].inputs \in Seq(StepSources(c.files))
IsCall(c) == IsCommandCall(c) \/ IsRunCall(c) \/ IsWebCall(c)
ASSUME CallsAssumption ==
    (\A c \in Calls : IsCall(c)) /\ (\A content \in Contents : IsContent(content))

\* A request may not have more tasks than a workflow.
ASSUME LimitsAssumption ==
    MaxFiles \in Nat /\ MaxInputs \in Nat /\ MaxTasks \in 0..DEFAULT_MAX_WORKFLOW_TASKS

\* No id that the program makes up itself is empty.
MadeUpIds ==
    {"output"} \cup {BuilderOf(c).task : c \in CommandNames}
        \cup {"input", "attachment", "input_0", "input_1", "input_2", "left", "right",
              "watermark_input"}
        \cup ({"i", "f", "t", "out"} \X Nat)
ASSUME MadeUpIdsAssumption == EmptyId \notin MadeUpIds

NoWorkflow == [inputs |-> <<>>, tasks |-> <<>>, outputs |-> <<>>]

\* A workflow file whose tasks all delete blank pages of files.
PlainRun(w) ==
    [door |-> "run", path |-> "file", metrics |-> "none",
     content |-> [workflow |-> w, paths |-> [i \in DOMAIN w.inputs |-> "file"],
                  defs |-> [t \in DOMAIN w.tasks |->
                    ToDef(Operator("PdfEdit", "DeleteBlankPages", "none", {}))]]]

FrontInit ==
    /\ \/ call \in Calls
       \/ \E w \in Workflows : call = PlainRun(w)
    /\ stage = "started" /\ stdin = "unread" /\ consumed = {} /\ changed = FALSE
    /\ workflow = NoWorkflow /\ rejection = "pending" /\ plan = NoPlan
    /\ ops = <<>> /\ kinds = <<>> /\ done = 0

At(door, here) == call.door = door /\ stage = here
CliDoors == {"command", "run"}

-----------------------------------------------------------------------------
(* run() of the command line: standard input first.                         *)

Parses(content) == \A t \in DOMAIN content.defs : FromDef(content.defs[t]) # Refused
DashInputs(content) == {i \in DOMAIN content.paths : content.paths[i] = "-"}

run_reads_stdin(path, content) ==
    path = "-" \/ (Parses(content) /\ DashInputs(content) # {})

stdin_for_args ==
    /\ call.door \in CliDoors /\ stage = "started"
    /\ stage' = "parsed"
    /\ stdin' = IF \/ call.door = "command" /\ cli_reads_stdin(call.command, call.operands)
                   \/ call.door = "run" /\ run_reads_stdin(call.path, call.content)
                THEN "read" ELSE "unread"
    /\ UNCHANGED <<validationVars, call, consumed, changed, ops, kinds, done>>

\* Somebody else saves the workflow file between the two reads of it.
FileChanges ==
    /\ At("run", "parsed") /\ call.path = "file" /\ ~changed
    /\ \E c \in Contents : call' = [call EXCEPT !.content = c]
    /\ changed' = TRUE
    /\ UNCHANGED <<validationVars, stage, stdin, consumed, ops, kinds, done>>

Refuse ==
    /\ stage' = "refused"
    /\ UNCHANGED <<validationVars, call, stdin, changed, ops, kinds, done>>
Build(w, operators) ==
    /\ stage' = "built" /\ workflow' = w /\ ops' = operators
    /\ UNCHANGED <<rejection, plan, call, stdin, changed, kinds, done>>

\* The files of the builders stand in for dispatch and its handlers.
BuildCommand ==
    /\ At("command", "parsed")
    /\ ~RefusesOperands(call.command, call.operands) /\ ~call.malformed
    /\ PasswordsResolve(call.command, call.flags)
    /\ Build(workflow_from_specs(call.command, call.operands),
             <<BuiltOperator(call.command, call.flags)>>)
    /\ consumed' = BuilderReads(call.command, call.operands)

RefuseCommand ==
    /\ At("command", "parsed")
    /\ \/ RefusesOperands(call.command, call.operands) /\ consumed' = {}
       \/ /\ ~RefusesOperands(call.command, call.operands)
          /\ call.malformed \/ ~PasswordsResolve(call.command, call.flags)
          /\ consumed' = BuilderReads(call.command, call.operands)
    /\ Refuse

\* Mutant: several inputs may be standard input.
TakesDashesTwice ==
    Parses(call.content) /\ (call.path = "-" => DashInputs(call.content) = {})
TakesDashes ==
    /\ Parses(call.content)
    /\ call.path = "-" => DashInputs(call.content) = {}
    /\ Cardinality(DashInputs(call.content)) <= 1

BuildRun ==
    /\ At("run", "parsed") /\ call.metrics # "-" /\ TakesDashes
    /\ Build(call.content.workflow,
             [t \in DOMAIN call.content.defs |-> FromDef(call.content.defs[t])])
    /\ consumed' = IF call.path = "-" THEN {<<"workflow", 0>>} ELSE {}

RefuseRun ==
    /\ At("run", "parsed")
    /\ \/ call.metrics = "-" /\ consumed' = {}
       \/ /\ call.metrics # "-" /\ ~TakesDashes
          /\ consumed' = IF call.path = "-" THEN {<<"workflow", 0>>} ELSE {}
    /\ Refuse

\* The paths of the workflow's inputs, in their order.
InputPaths ==
    IF call.door = "command" THEN InputOperands(call.command, call.operands)
    ELSE call.content.paths

load_inputs ==
    /\ call.door \in CliDoors /\ stage = "built"
    /\ stage' = "loaded"
    /\ consumed' = consumed \cup {<<"input", i>> : i \in Dashes(InputPaths)}
    /\ kinds' = [ref \in ToSet(workflow.inputs) |-> "Bytes"]
    /\ UNCHANGED <<validationVars, call, stdin, changed, ops, done>>

-----------------------------------------------------------------------------
(* The web server.                                                          *)

\* Kind::artifact: a stored text or byte result comes back as a PDF.
Rebuilt(kind) == IF kind \in {"Image", "Svg"} THEN kind ELSE "Pdf"

WebOps == [t \in DOMAIN call.tasks |-> parse_op(call.tasks[t])]
WebOutputs(last) == <<[id |-> <<"out", 0>>, from |-> last]>>

validate_single_request == Len(call.files) \in 1..MaxFiles

api_execute_single ==
    LET refs == [i \in DOMAIN call.files |-> <<"i", i>>] IN
    /\ At("single", "started") /\ validate_single_request /\ WebOps[1] # Refused
    /\ workflow' = [inputs |-> refs, tasks |-> <<[id |-> <<"t", 0>>, inputs |-> refs]>>,
                    outputs |-> WebOutputs(<<"t", 0>>), zero_limit |-> FALSE,
                    max_tasks |-> DEFAULT_MAX_WORKFLOW_TASKS]
    /\ kinds' = [ref \in ToSet(refs) |-> Rebuilt(call.files[ref[2]])]
    /\ ops' = WebOps /\ stage' = "loaded"
    /\ UNCHANGED <<rejection, plan, call, stdin, consumed, changed, done>>

validate_workflow_request ==
    /\ Len(call.tasks) \in 1..MaxTasks
    /\ \A t \in DOMAIN call.tasks : Len(call.tasks[t].inputs) \in 1..MaxInputs

\* Mutant: a step may name itself or a later one.
StepRefAnywhere(t, input) ==
    IF input[1] = "file" THEN <<"f", input[2]>> ELSE <<"t", input[2]>>
\* A step may name an earlier one only.
BadStep == <<"bad", 0>>
StepRef(t, input) ==
    CASE input[1] = "file" -> <<"f", input[2]>>
      [] input[1] = "step" /\ input[2] < t  -> <<"t", input[2]>>
      [] input[1] = "step" /\ input[2] >= t -> BadStep
StepInputs(t) ==
    [i \in DOMAIN call.tasks[t].inputs |-> StepRef(t, call.tasks[t].inputs[i])]
GoodSteps ==
    \A t \in DOMAIN call.tasks : WebOps[t] # Refused /\ BadStep \notin ToSet(StepInputs(t))

\* Every distinct file once, in the order of first mention.
load_file_bytes(tasks) ==
    LET inputs == FlattenSeq([t \in DOMAIN tasks |-> tasks[t].inputs])
        firsts == InIndexOrder({k \in DOMAIN inputs :
                    inputs[k][1] = "file" /\ \A j \in 1..(k - 1) : inputs[j] # inputs[k]})
    IN  [i \in DOMAIN firsts |-> <<"f", inputs[firsts[i]][2]>>]

api_execute_workflow ==
    /\ At("steps", "started") /\ validate_workflow_request /\ GoodSteps
    /\ workflow' =
        [inputs |-> load_file_bytes(call.tasks),
         tasks |-> [t \in DOMAIN call.tasks |-> [id |-> <<"t", t>>, inputs |-> StepInputs(t)]],
         outputs |-> WebOutputs(<<"t", Len(call.tasks)>>), zero_limit |-> FALSE,
         max_tasks |-> DEFAULT_MAX_WORKFLOW_TASKS]
    /\ kinds' = [ref \in ToSet(load_file_bytes(call.tasks)) |-> Rebuilt(call.files[ref[2]])]
    /\ ops' = WebOps /\ stage' = "loaded"
    /\ UNCHANGED <<rejection, plan, call, stdin, consumed, changed, done>>

RefuseRequest ==
    /\ \/ At("single", "started") /\ ~(validate_single_request /\ WebOps[1] # Refused)
       \/ At("steps", "started") /\ ~(validate_workflow_request /\ GoodSteps)
    /\ Refuse /\ UNCHANGED consumed

-----------------------------------------------------------------------------
(* execute_workflow, one task after the other.                              *)

AcceptLoaded ==
    /\ stage = "loaded" /\ Accept /\ stage' = "accepted"
    /\ UNCHANGED <<call, stdin, consumed, changed, ops, kinds, done>>
RejectLoaded ==
    /\ stage = "loaded" /\ Reject /\ stage' = "rejected"
    /\ UNCHANGED <<call, stdin, consumed, changed, ops, kinds, done>>

Unfinished == stage = "accepted" /\ done < Len(plan.task_order)
NextTask == plan.task_order[done + 1]
NextKinds ==
    [i \in DOMAIN workflow.tasks[NextTask].inputs |-> kinds[workflow.tasks[NextTask].inputs[i]]]

RunTask ==
    /\ Unfinished /\ Runs(ops[NextTask], NextKinds)
    /\ kinds' = (workflow.tasks[NextTask].id :> ResultKind(ops[NextTask])) @@ kinds
    /\ done' = done + 1
    /\ UNCHANGED <<validationVars, call, stage, stdin, consumed, changed, ops>>

TaskFails ==
    /\ Unfinished /\ ~Runs(ops[NextTask], NextKinds)
    /\ stage' = "failed"
    /\ UNCHANGED <<validationVars, call, stdin, consumed, changed, ops, kinds, done>>

FrontNext ==
    \/ stdin_for_args \/ FileChanges
    \/ BuildCommand \/ RefuseCommand \/ BuildRun \/ RefuseRun \/ load_inputs
    \/ api_execute_single \/ api_execute_workflow \/ RefuseRequest
    \/ AcceptLoaded \/ RejectLoaded \/ RunTask \/ TaskFails
FrontSpec == FrontInit /\ [][FrontNext]_frontVars

-----------------------------------------------------------------------------
Built == stage \in {"built", "loaded", "accepted", "rejected", "failed"}

\* Whoever consumes standard input finds it read: the list of the commands that
\* read it is kept apart from the builders that use it, and has to agree with
\* them, unless the workflow file has changed since it was looked at.
StdinReadWhenUsed == consumed # {} /\ ~changed => stdin = "read"

\* Standard input feeds one consumer.  The comparisons are the exception: they
\* do not ask reject_shared_stdin_inputs, and compare a document with itself.
Compares == call.door = "command" /\ call.command \in {"Report", "VisualDiff"}
StdinSharedOnlyByCompare == Cardinality(consumed) > 1 => Compares

\* What the argument parser lets through the engine takes, the values of options
\* and the contents of documents aside: the workflow that a command builds is
\* valid, and its operator finds the options and inputs it asks for.  Three
\* operators ask for more than the parser: a text watermark wants a text and a
\* font, a timestamp a token and no URL, and compression image options in its
\* lossy mode and none in its lossless one.
ImageFlags == {"image_quality", "image_max_width", "image_max_height", "image_format"}
ParserKnows ==
    CASE call.command = "WatermarkText" ->
            "text" \in call.flags /\ {"font", "font_path"} \cap call.flags # {}
      [] call.command \in {"WatermarkImage", "WatermarkSvg"} -> TRUE
      [] call.command = "Timestamp" -> "token" \in call.flags /\ "tsa_url" \notin call.flags
      [] call.command = "Compress" ->
            ("mode" \in call.flags) <=> (ImageFlags \cap call.flags # {})
      [] OTHER -> TRUE
EveryCommandRuns ==
    call.door = "command" =>
        /\ stage # "rejected"
        /\ stage = "failed" => ~ParserKnows

\* No flag is lost between the parser and the operator, and nothing is handed on
\* that the operator has no field for.
OptionsReachOperator ==
    call.door = "command" /\ Built =>
        /\ {FieldOf(f) : f \in call.flags} \subseteq ops[1].given
        /\ ops[1].given \subseteq FieldsOf(ops[1])
        /\ RequiredOf(ops[1]) \subseteq ops[1].given

\* The operator of a command or a workflow file is the one its serialised form
\* stands for, and a file's operator carries every option that the file gives;
\* a file cannot make `list` verify.
SurvivesWorkflowFile ==
    call.door \in CliDoors /\ Built =>
        /\ \A t \in DOMAIN ops :
            /\ FromDef(ToDef(ops[t])) = ops[t]
            /\ ops[t].family = "PdfSign" => ops[t].kind \in {"none", ops[t].name}
        /\ call.door = "run" =>
            \A t \in DOMAIN ops :
                \A f \in DOMAIN call.content.defs[t] : \A e \in call.content.defs[t][f] :
                    ops[t].name = e.name /\ ops[t].given = e.given

\* What a request makes the server run names no file of the server and no font
\* but the standard ones, and is an operator that the schema offers, with
\* options its form has; what the form can send the server takes.
Offered(r) == r.name \in DOMAIN schema[r.family]
FormSends(r) ==
    /\ Offered(r) /\ r.given \subseteq op_schema(r.family, r.name)
    /\ RequiredOf(r) \subseteq r.given /\ ~r.local
WebStaysInside ==
    call.door \in {"single", "steps"} =>
        \A t \in DOMAIN call.tasks :
            LET r == call.tasks[t]  op == parse_op(r) IN
            /\ FormSends(r) => op # Refused
            /\ op # Refused =>
                /\ Offered(r) /\ op.given \subseteq op_schema(r.family, r.name)
                /\ op.given \cap PathFields = {} /\ ("font" \in r.given => ~r.local)

\* A parsed document serves wherever its bytes would: no operator fails in a
\* chain that would have taken them.  And a request that gets as far as the
\* engine is a valid workflow.
ChainsKeepWorking ==
    /\ stage = "failed" =>
        ~Runs(ops[NextTask],
              [i \in DOMAIN NextKinds |->
                  IF NextKinds[i] = "PdfObject" THEN "Pdf" ELSE NextKinds[i]])
    /\ call.door \in {"single", "steps"} => stage # "rejected"
=============================================================================
