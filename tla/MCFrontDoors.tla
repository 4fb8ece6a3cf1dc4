---------------------------- MODULE MCFrontDoors ----------------------------
(* Every command with few or all of its flags, small workflow files, every  *)
(* two-step chain of operators, and small web requests.                     *)
EXTENDS FrontDoors

CONSTANTS a, b, o, t1, t2, t3

SeqsUpTo(S, n) == UNION {[1..m -> S] : m \in 0..n}
AtMostTwo(S) == {{}} \cup {{x, y} : x, y \in S}

-----------------------------------------------------------------------------
\* The flags that a command's sensible use starts from, where the parser asks
\* for less than the command does.
Starts(command) ==
    {{}} \cup (CASE command \in {"Encrypt", "PermissionsSet"} ->
                    {{"owner_password", "user_password_file"}}
                 [] OTHER -> {})
CommandCalls ==
    UNION {{[door |-> "command", command |-> c, operands |-> operands,
             flags |-> ArgsOf(c).required \cup start \cup more, malformed |-> malformed] :
            operands \in UNION {[1..n -> {"file", "-"}] : n \in ArgsOf(c).operands},
            start \in Starts(c),
            more \in AtMostTwo(ArgsOf(c).optional) \cup {ArgsOf(c).optional},
            malformed \in BOOLEAN} : c \in CommandNames}

-----------------------------------------------------------------------------
\* Up to two tasks whose ids, references, inputs and outputs may all be wrong.
Sloppy ==
    [inputs : {<<>>, <<a>>, <<a, a>>},
     tasks : SeqsUpTo([id : {a, b, EmptyId}, inputs : SeqsUpTo({a, b, o}, 2)], 2),
     outputs : {<<>>, <<[id |-> o, from |-> b]>>, <<[id |-> b, from |-> o]>>},
     zero_limit : {FALSE}, max_tasks : {2}]

\* Three tasks with the right ids and any task graph, including cycles and
\* repeated inputs.
Graphs3 ==
    {[inputs |-> <<a>>,
      tasks |-> <<[id |-> t1, inputs |-> f[1]], [id |-> t2, inputs |-> f[2]],
                  [id |-> t3, inputs |-> f[3]]>>,
      outputs |-> <<[id |-> o, from |-> t3]>>, zero_limit |-> FALSE, max_tasks |-> 3] :
        f \in [1..3 -> SeqsUpTo({a, t1, t2, t3}, 2) \ {<<>>}]}

Limits ==
    {[inputs |-> <<a>>, tasks |-> <<[id |-> t1, inputs |-> <<a>>]>>, outputs |-> <<>>,
      zero_limit |-> zero, max_tasks |-> max] : zero \in BOOLEAN, max \in {0, 1}}

Families == Sloppy \cup Graphs3 \cup Limits

Paths(n, path) == [i \in 1..n |-> path]
Content(w, paths, operators) ==
    [workflow |-> w, paths |-> paths, defs |-> [t \in DOMAIN operators |-> ToDef(operators[t])]]
Blank == Operator("PdfEdit", "DeleteBlankPages", "none", {})
\* Every operator with all its options, but for those that rule others out.
AllOperators ==
    UNION {UNION {{Operator(f, n, k, FieldsOf([family |-> f, name |-> n])
                                         \ {"tsa_url", "rasterize_pages"}) :
                   k \in KindsOf(f, n)} : n \in DOMAIN Variants[f]} : f \in OperatorFamilies}
Pairs == {"Merge", "Overlay", "Watermark", "ImageEdit", "Attachment", "Report", "VisualDiff"}
\* Each operator behind each, with a further input or without.
ChainContents ==
    LET W(n1, n2) == [inputs |-> <<a, b>>,
            tasks |-> <<[id |-> t1, inputs |-> SubSeq(<<a, b>>, 1, n1)],
                        [id |-> t2, inputs |-> SubSeq(<<t1, b>>, 1, n2)]>>,
            outputs |-> <<[id |-> o, from |-> t2]>>, zero_limit |-> FALSE, max_tasks |-> 2]
        Counts(op) == IF op.name \in Pairs THEN {1, 2} ELSE {1}
    IN  {Content(W(n[1], n[2]), Paths(2, "file"), ops2) :
            <<n, ops2>> \in UNION {(Counts(x) \X Counts(y)) \X {<<x, y>>} :
                                    x, y \in AllOperators}}

\* One merge whose inputs may be standard input, and files that are no workflow.
OneMerge(n) ==
    [inputs |-> SubSeq(<<a, b>>, 1, n),
     tasks |-> <<[id |-> t1, inputs |-> SubSeq(<<a, b>>, 1, n)]>>,
     outputs |-> <<[id |-> o, from |-> t1]>>, zero_limit |-> FALSE, max_tasks |-> 1]
Merging == Operator("PdfEdit", "Merge", "none", {})
MergeEntry == [name |-> "Merge", kind |-> "none", given |-> {}]
ReportEntry == [name |-> "Report", kind |-> "none", given |-> {}]
BlankEntry == [name |-> "DeleteBlankPages", kind |-> "none", given |-> {}]
Defs ==
    {[f \in {"PdfSign"} |-> {[name |-> "List", kind |-> "Verify", given |-> {}]}],
     [f \in {"PdfEdit"} |-> {MergeEntry}], [f \in {"PdfEdit"} |-> {}],
     [f \in {"PdfEdit"} |-> {MergeEntry, BlankEntry}],
     [f \in {"PdfEdit", "PdfCompare"} |->
        IF f = "PdfEdit" THEN {MergeEntry} ELSE {ReportEntry}]}
DashContents ==
    {[workflow |-> OneMerge(2), paths |-> paths, defs |-> <<def>>] :
        paths \in [1..2 -> {"file", "-"}], def \in Defs}
\* What the workflow file may hold by the time it is read again.
Saved == {c \in DashContents : c.paths[1] = "-" /\ c.defs[1] = ToDef(Merging)}
             \cup {CHOOSE c \in DashContents : ~Parses(c)}

RunCall(path, metrics, content) ==
    [door |-> "run", path |-> path, metrics |-> metrics, content |-> content]
RunCalls ==
    {RunCall("file", "none", c) : c \in ChainContents}
        \cup {RunCall(path, metrics, c) :
                path \in {"file", "-"}, metrics \in {"none", "-"}, c \in DashContents}

-----------------------------------------------------------------------------
Ask(op, given, local) ==
    [family |-> op.family, name |-> op.name, kind |-> op.kind, given |-> given, local |-> local]
SingleCalls ==
    UNION {{[door |-> "single", tasks |-> <<Ask(op, given, local)>>, files |-> files] :
            given \in {{}, RequiredOf(op), FieldsOf(op), FieldsOf(op) \ PathFields},
            local \in BOOLEAN,
            files \in {<<>>, <<"Pdf">>, <<"Pdf", "Pdf">>, <<"Pdf", "Image">>, <<"Text">>,
                       <<"Pdf", "Pdf", "Pdf">>}} : op \in AllOperators}

StepOps == {Ask(Blank, {}, FALSE),
            Ask(Merging, {}, FALSE),
            Ask(Operator("PdfInspect", "ImageExtract", "none", {}), {"name"}, FALSE)}
StepTasks(most) ==
    {[family |-> r.family, name |-> r.name, kind |-> r.kind, given |-> r.given,
      local |-> r.local, inputs |-> inputs] :
        r \in StepOps, inputs \in SeqsUpTo({<<"file", 1>>, <<"file", 2>>, <<"step", 1>>,
                                            <<"step", 2>>}, most)}
StepCalls ==
    {[door |-> "steps", tasks |-> tasks, files |-> <<"Pdf", "Bytes">>] :
        tasks \in SeqsUpTo(StepTasks(2), 2) \cup [1..1 -> StepTasks(3)]
                  \cup {<<x, x, x>> : x \in StepTasks(1)}}

AllCalls == CommandCalls \cup RunCalls \cup SingleCalls \cup StepCalls
NoWorkflows == {}
StdinCalls == {c \in CommandCalls : c.command \in {"Report", "VisualDiff"}}
=============================================================================
