------------------------------ MODULE Commands ------------------------------
(***************************************************************************)
(* The command line: which operands and flags each command takes, which    *)
(* commands make the process read standard input before anything else, and *)
(* the one-operator workflow each command builds.  An operand is "file" or *)
(* "-".  The three values of watermark's --kind count as three commands,   *)
(* and the path of its --watermark as a second operand.                    *)
(***************************************************************************)
EXTENDS Operators

-----------------------------------------------------------------------------
(* args/: the operands (how many) and the flags clap asks for.               *)

Args(operands, must, may) == [operands |-> operands, required |-> must, optional |-> may]
InputOnly == Args({1}, {}, {})

EditPageArgs ==
    [Merge |-> Args({2, 3}, {}, {}), KeepPages |-> Args({1}, {"pages"}, {}),
     ExtractPages |-> Args({1}, {"pages"}, {}), ReorderPages |-> Args({1}, {"pages"}, {}),
     DeletePages |-> Args({1}, {"pages"}, {}),
     RotatePages |-> Args({1}, {"pages", "degrees"}, {}),
     DeleteBlankPages |-> InputOnly,
     CropPages |-> Args({1}, {"left", "bottom", "right", "top"}, {"pages"}),
     ScalePages |-> Args({1}, {"factor"}, {"pages"}), SinglePage |-> InputOnly]
\* Of compress, mode stands for --mode lossy; --mode lossless is the default.
EditLayoutArgs ==
    [NUp |-> Args({1}, {"columns", "rows"}, {}), Booklet |-> InputOnly,
     PageNumbers |->
        Args({1}, {}, {"pages", "start", "prefix", "suffix", "font_size", "position"}),
     Compress |->
        Args({1}, {}, {"mode", "image_quality", "image_max_width", "image_max_height",
                       "image_format"})]
WatermarkArgs ==
    Args({1, 2}, {}, {"text", "font", "font_path", "font_size", "pages", "opacity",
                      "rotation", "position", "scale", "rasterize"})
EditConvertArgs ==
    [Img2pdf |-> Args({1, 2}, {}, {"layout"}), Svg2pdf |-> Args({1}, {}, {"rasterize"}),
     Render |-> Args({1}, {"page"}, {"scale"}), ExtractText |-> InputOnly,
     WatermarkText |-> WatermarkArgs, WatermarkImage |-> WatermarkArgs,
     WatermarkSvg |-> WatermarkArgs]
DocumentArgs ==
    [MetadataGet |-> InputOnly, MetadataValidate |-> InputOnly, OutlineGet |-> InputOnly,
     OutlineDelete |-> InputOnly, AttachList |-> InputOnly, AnnotList |-> InputOnly,
     FormInspect |-> InputOnly, FormUnlockReadonly |-> InputOnly, FormRemove |-> InputOnly,
     ImageList |-> InputOnly,
     MetadataSet |-> Args({1}, {"entry"}, {}), MetadataDelete |-> Args({1}, {"key"}, {}),
     OutlineSet |-> Args({2}, {}, {}),
     AttachAdd |-> Args({2}, {}, {"name", "description"}),
     AttachExtract |-> Args({1}, {"name"}, {}), AttachDelete |-> Args({1}, {"name"}, {})]
InteractiveArgs ==
    [AnnotAdd |-> Args({1}, {"page", "id", "text"}, {}),
     AnnotDelete |-> Args({1}, {"id"}, {}), FormFill |-> Args({1}, {"field"}, {}),
     InteractiveRemove |->
        Args({1}, {}, {"annotations", "forms", "actions", "javascript", "embedded_files"}),
     Stamp |-> Args({1}, {"text"}, {"font", "font_path", "font_size", "pages", "opacity",
                                    "rotation", "position"})]
MarkArgs ==
    [Appearance |->
        Args({1}, {"text"}, {"font", "font_path", "font_size", "pages", "position"}),
     OverlayPdf |-> Args({2}, {}, {"source_page", "pages", "opacity", "scale", "position"}),
     ImageAdd |-> Args({2}, {"name", "page"}, {})]
ImageColorArgs ==
    [ImageReplace |-> Args({2}, {"name"}, {}), ImageDelete |-> Args({1}, {"name"}, {}),
     ImageExtract |-> Args({1}, {"name"}, {}), ColorInvert |-> Args({1}, {}, {"pages"}),
     ColorContrast |-> Args({1}, {"factor"}, {"pages"}),
     ColorReplace |-> Args({1}, {"from", "to"}, {"pages"})]
SignArgs ==
    [SignAdd |-> Args({1}, {"field_name", "certificate", "private_key"},
                           {"contents_reserved_bytes", "appearance_field"}),
     SignVerify |-> Args({1}, {}, {"trust_anchors"}), SignList |-> InputOnly,
     SignDeleteField |-> Args({1}, {"field_name"}, {"destructive"}),
     Timestamp |-> Args({1}, {}, {"tsa_url", "token"})]
PermissionFlags ==
    {"no_print", "no_modify", "no_copy", "no_annotate", "no_fill_forms", "no_accessibility",
     "no_assemble", "no_high_quality_print"}
SecurityArgs ==
    LET passwords == {"owner_password", "owner_password_file",
                      "user_password", "user_password_file"}
    IN  [Encrypt |-> Args({1}, {}, passwords \cup PermissionFlags),
         PermissionsSet |-> Args({1}, {}, passwords \cup PermissionFlags),
         Decrypt |-> Args({1}, {}, {"password", "password_file"}),
         PermissionsGet |-> Args({1}, {}, {"password", "password_file"})]
CompareArgs ==
    [Report |-> Args({2}, {}, {}), VisualDiff |-> Args({2}, {}, {"page", "scale"})]

\* The subcommands of each family.
CommandFamilies ==
    [PdfEdit |-> DOMAIN EditPageArgs \cup DOMAIN EditLayoutArgs
                 \cup {"Img2pdf", "Svg2pdf", "WatermarkText", "WatermarkImage",
                       "WatermarkSvg", "Stamp", "OverlayPdf", "ColorInvert",
                       "ColorContrast", "ColorReplace", "InteractiveRemove"},
     PdfInspect |-> {"Render", "ExtractText"},
     PdfSecurity |-> {"Encrypt", "Decrypt", "PermissionsGet", "PermissionsSet"},
     PdfCompare |-> {"Report", "VisualDiff"},
     PdfSign |-> {"SignAdd", "SignList", "SignVerify", "SignDeleteField", "Appearance",
                  "Timestamp"}]
AdvCommands ==
    {"MetadataGet", "MetadataSet", "MetadataDelete", "MetadataValidate", "OutlineGet",
     "OutlineSet", "OutlineDelete", "AttachAdd", "AttachList", "AttachExtract",
     "AttachDelete", "AnnotList", "AnnotAdd", "AnnotDelete", "FormInspect", "FormFill",
     "FormUnlockReadonly", "FormRemove", "ImageList", "ImageAdd", "ImageReplace",
     "ImageDelete", "ImageExtract"}
CommandNames ==
    AdvCommands \cup UNION {CommandFamilies[f] : f \in DOMAIN CommandFamilies}

ArgTables == {EditPageArgs, EditLayoutArgs, EditConvertArgs, DocumentArgs, InteractiveArgs,
              MarkArgs, ImageColorArgs, SignArgs, SecurityArgs, CompareArgs}
ArgsOf(command) == (CHOOSE t \in ArgTables : command \in DOMAIN t)[command]

-----------------------------------------------------------------------------
(* stdin.rs: does a command read standard input?                             *)

InputIsStdio(operands) == operands[1] = "-"
EitherIsStdio(operands) == \E i \in DOMAIN operands : operands[i] = "-"

pdf_edit_reads_stdin(command, operands) ==
    IF command \in {"Merge", "Img2pdf", "OverlayPdf",
                    "WatermarkText", "WatermarkImage", "WatermarkSvg"}
    THEN EitherIsStdio(operands) ELSE InputIsStdio(operands)
pdf_inspect_reads_stdin(command, operands) == InputIsStdio(operands)
pdf_security_reads_stdin(command, operands) == InputIsStdio(operands)
pdf_compare_reads_stdin(command, operands) == EitherIsStdio(operands)
sign_reads_stdin(command, operands) == InputIsStdio(operands)
\* Mutant: image replace looks at its first operand only.
AdvOverlookingReplace(command, operands) ==
    IF command \in {"OutlineSet", "AttachAdd", "ImageAdd"}
    THEN EitherIsStdio(operands) ELSE InputIsStdio(operands)
pdf_adv_reads_stdin(command, operands) ==
    IF command \in {"OutlineSet", "AttachAdd", "ImageAdd", "ImageReplace"}
    THEN EitherIsStdio(operands) ELSE InputIsStdio(operands)

cli_reads_stdin(command, operands) ==
    CASE command \in CommandFamilies.PdfEdit     -> pdf_edit_reads_stdin(command, operands)
      [] command \in CommandFamilies.PdfInspect  -> pdf_inspect_reads_stdin(command, operands)
      [] command \in CommandFamilies.PdfSecurity -> pdf_security_reads_stdin(command, operands)
      [] command \in CommandFamilies.PdfCompare  -> pdf_compare_reads_stdin(command, operands)
      [] command \in CommandFamilies.PdfSign     -> sign_reads_stdin(command, operands)
      [] command \in AdvCommands                 -> pdf_adv_reads_stdin(command, operands)

-----------------------------------------------------------------------------
(* The builders: the operator, the flags handed on to its options, the       *)
(* options set whatever the flags, the task's id, and the guard against     *)
(* reading standard input twice.                                            *)

Builds(family, name, kind, passes, sets, task, guard) ==
    [family |-> family, name |-> name, kind |-> kind, passes |-> passes, sets |-> sets,
     task |-> task, guard |-> guard]
Edits(name, kind, passes, task) == Builds("PdfEdit", name, kind, passes, {}, task, "none")
Inspects(name, passes, sets, task) ==
    Builds("PdfInspect", name, "none", passes, sets, task, "none")

PageBuilders ==
    [Merge |-> Builds("PdfEdit", "Merge", "none", {}, {}, "merge", "multiple"),
     KeepPages |-> Edits("KeepPages", "none", {"pages"}, "keep_pages"),
     ExtractPages |-> Edits("ExtractPages", "none", {"pages"}, "extract_pages"),
     ReorderPages |-> Edits("ReorderPages", "none", {"pages"}, "reorder_pages"),
     RotatePages |-> Edits("RotatePages", "none", {"pages", "degrees"}, "rotate_pages"),
     DeletePages |-> Edits("DeletePages", "none", {"pages"}, "delete_pages"),
     DeleteBlankPages |-> Edits("DeleteBlankPages", "none", {}, "delete_blank_pages")]
LayoutBuilders ==
    [CropPages |->
        Edits("CropPages", "none", {"pages", "left", "bottom", "right", "top"}, "crop_pages"),
     ScalePages |-> Edits("ScalePages", "none", {"pages", "factor"}, "scale_pages"),
     SinglePage |-> Edits("SinglePage", "none", {}, "single_page"),
     NUp |-> Edits("NUp", "none", {"columns", "rows"}, "nup"),
     Booklet |-> Edits("Booklet", "none", {}, "booklet"),
     PageNumbers |-> Edits("PageNumbers", "none",
        {"pages", "start", "prefix", "suffix", "font_size", "position"}, "page_numbers")]
WatermarkPasses ==
    {"text", "font", "font_path", "font_size", "opacity", "rotation", "position", "pages",
     "scale", "rasterize"}
\* Mutant: image conversion and the image watermark without their guards.
ConversionUnguarded ==
    [Img2pdf |-> Builds("PdfEdit", "ImageToPdf", "none", {"layout"}, {}, "img2pdf", "none"),
     Svg2pdf |-> Edits("SvgToPdf", "none", {"rasterize"}, "svg2pdf"),
     WatermarkText |-> Edits("Watermark", "Text", WatermarkPasses, "watermark"),
     WatermarkImage |-> Edits("Watermark", "Image", WatermarkPasses, "watermark"),
     WatermarkSvg |->
        Builds("PdfEdit", "Watermark", "Svg", WatermarkPasses, {}, "watermark", "shared")]
ConversionBuilders ==
    [Img2pdf |->
        Builds("PdfEdit", "ImageToPdf", "none", {"layout"}, {}, "img2pdf", "multiple"),
     Svg2pdf |-> Edits("SvgToPdf", "none", {"rasterize"}, "svg2pdf"),
     WatermarkText |-> Edits("Watermark", "Text", WatermarkPasses, "watermark"),
     WatermarkImage |->
        Builds("PdfEdit", "Watermark", "Image", WatermarkPasses, {}, "watermark", "shared"),
     WatermarkSvg |->
        Builds("PdfEdit", "Watermark", "Svg", WatermarkPasses, {}, "watermark", "shared")]
CompressionBuilders ==
    [Compress |-> Edits("Compression", "none", {"mode", "image_quality", "image_max_width",
                        "image_max_height", "image_format"}, "compress")]
InspectBuilders ==
    [Render |-> Inspects("Render", {"page", "scale"}, {"format"}, "render"),
     ExtractText |-> Inspects("ExtractText", {}, {"format"}, "extract_text")]
CompareBuilders ==
    [Report |-> Builds("PdfCompare", "Report", "none", {}, {}, "compare", "none"),
     VisualDiff |->
        Builds("PdfCompare", "VisualDiff", "none", {"page", "scale"}, {}, "compare", "none")]
MetadataBuilders ==
    [MetadataGet |-> Inspects("Metadata", {}, {}, "metadata_get"),
     MetadataSet |-> Edits("Metadata", "Set", {"entry"}, "metadata_set"),
     MetadataDelete |-> Edits("Metadata", "Delete", {"key"}, "metadata_delete"),
     MetadataValidate |-> Inspects("Metadata", {}, {}, "metadata_validate")]
\* The tree is read while the workflow is built and is no input of it.
OutlineBuilders ==
    [OutlineGet |-> Inspects("Outline", {}, {}, "outline_get"),
     OutlineSet |-> Builds("PdfEdit", "Outline", "Set", {}, {"tree"}, "outline_set", "shared"),
     OutlineDelete |-> Edits("Outline", "Delete", {}, "outline_delete")]
\* Without --name the file's own name is the attachment's.
AttachBuilders ==
    [AttachAdd |-> Builds("PdfEdit", "Attachment", "Add", {"name", "description"}, {"name"},
                          "attach_add", "shared"),
     AttachList |-> Inspects("Attachments", {}, {}, "attach_list"),
     AttachExtract |-> Inspects("AttachmentExtract", {"name"}, {}, "attach_extract"),
     AttachDelete |-> Edits("Attachment", "Delete", {"name"}, "attach_delete")]
\* Mutant: the id of a new annotation is lost on the way.
AnnotFormDroppingId ==
    [AnnotList |-> Inspects("Annotations", {}, {}, "annot_list"),
     AnnotAdd |-> Edits("Annotation", "AddText", {"page", "text"}, "annot_add"),
     AnnotDelete |-> Edits("Annotation", "Delete", {"id"}, "annot_delete"),
     FormInspect |-> Inspects("Forms", {}, {}, "form_inspect"),
     FormFill |-> Edits("FormFill", "none", {"field"}, "form_fill"),
     FormUnlockReadonly |-> Edits("FormUnlockReadonly", "none", {}, "form_unlock_readonly"),
     FormRemove |-> Edits("FormRemove", "none", {}, "form_remove"),
     InteractiveRemove |-> Edits("InteractiveRemove", "none",
        {"annotations", "forms", "actions", "javascript", "embedded_files"},
        "interactive_remove")]
AnnotFormBuilders ==
    [AnnotList |-> Inspects("Annotations", {}, {}, "annot_list"),
     AnnotAdd |-> Edits("Annotation", "AddText", {"page", "id", "text"}, "annot_add"),
     AnnotDelete |-> Edits("Annotation", "Delete", {"id"}, "annot_delete"),
     FormInspect |-> Inspects("Forms", {}, {}, "form_inspect"),
     FormFill |-> Edits("FormFill", "none", {"field"}, "form_fill"),
     FormUnlockReadonly |-> Edits("FormUnlockReadonly", "none", {}, "form_unlock_readonly"),
     FormRemove |-> Edits("FormRemove", "none", {}, "form_remove"),
     InteractiveRemove |-> Edits("InteractiveRemove", "none",
        {"annotations", "forms", "actions", "javascript", "embedded_files"},
        "interactive_remove")]
ImageBuilders ==
    [ImageList |-> Inspects("Images", {}, {}, "image_list"),
     ImageAdd |->
        Builds("PdfEdit", "ImageEdit", "Add", {"name", "page"}, {}, "image_add", "shared"),
     ImageReplace |->
        Builds("PdfEdit", "ImageEdit", "Replace", {"name"}, {}, "image_replace", "shared"),
     ImageDelete |-> Edits("ImageEdit", "Delete", {"name"}, "image_delete"),
     ImageExtract |-> Inspects("ImageExtract", {"name"}, {}, "image_extract")]
ColorBuilders ==
    [ColorContrast |-> Edits("Color", "Contrast", {"pages", "factor"}, "color"),
     ColorInvert |-> Edits("Color", "Invert", {"pages"}, "color"),
     ColorReplace |-> Edits("Color", "Replace", {"pages", "from", "to"}, "color")]
Signs(name, kind, passes, task) == Builds("PdfSign", name, kind, passes, {}, task, "none")
SignBuilders ==
    [SignVerify |-> Signs("Verify", "Verify", {"trust_anchors"}, "verify_signature"),
     SignAdd |-> Signs("Add", "none", {"field_name", "certificate", "private_key",
                       "contents_reserved_bytes", "appearance_field"}, "add_signature"),
     SignList |-> Signs("List", "List", {}, "list_signatures"),
     SignDeleteField |-> Signs("DeleteField", "none", {"field_name", "destructive"},
                               "delete_signature_field"),
     Timestamp |-> Signs("Timestamp", "none", {"tsa_url", "token"}, "add_timestamp")]
\* stamp and appearance fall back to Helvetica, appearance is always opaque.
MarkBuilders ==
    [Stamp |-> Builds("PdfEdit", "Overlay", "Stamp", {"text", "font", "font_path",
        "font_size", "opacity", "rotation", "position", "pages"}, {"font"}, "stamp", "none"),
     Appearance |-> Builds("PdfEdit", "Overlay", "SignatureAppearance", {"text", "font",
        "font_path", "font_size", "position", "pages"}, {"font", "opacity"},
        "signature_appearance", "none"),
     OverlayPdf |-> Builds("PdfEdit", "Overlay", "PdfPage", {"opacity", "position", "pages",
        "scale", "source_page"}, {}, "overlay_pdf", "shared")]
Secures(name, passes, sets, task) ==
    Builds("PdfSecurity", name, "none", passes, sets, task, "none")
SecurityBuilders ==
    [Encrypt |-> Secures("Encrypt", SecurityArgs.Encrypt.optional, {}, "encrypt"),
     Decrypt |-> Secures("Decrypt", {"password", "password_file"}, {}, "decrypt"),
     PermissionsGet |->
        Secures("PermissionsGet", {"password", "password_file"}, {}, "permissions_get"),
     PermissionsSet |->
        Secures("PermissionsSet", SecurityArgs.PermissionsSet.optional, {}, "permissions_set")]

BuilderTables == {PageBuilders, LayoutBuilders, ConversionBuilders, CompressionBuilders,
    InspectBuilders, CompareBuilders, MetadataBuilders, OutlineBuilders, AttachBuilders,
    AnnotFormBuilders, ImageBuilders, ColorBuilders, SignBuilders, MarkBuilders,
    SecurityBuilders}
BuilderOf(command) == (CHOOSE t \in BuilderTables : command \in DOMAIN t)[command]

\* permission_policy, resolve_*_password and compression_image_options fold
\* several flags into one option; --entry, --key and --field are lists.
FieldOf(flag) ==
    CASE flag \in PermissionFlags -> "permissions"
      [] flag = "owner_password_file" -> "owner_password"
      [] flag = "user_password_file" -> "user_password"
      [] flag = "password_file" -> "password"
      [] flag \in {"image_quality", "image_max_width", "image_max_height", "image_format"} ->
            "images"
      [] flag = "entry" -> "entries"
      [] flag = "key" -> "keys"
      [] flag = "field" -> "fields"
      [] OTHER -> flag

\* Of a password and its file exactly one for a required password, at most one
\* for an optional one.
resolve_optional_password(flags, inline, file) == ~({inline, file} \subseteq flags)
resolve_required_password(flags, inline, file) == (inline \in flags) # (file \in flags)
PasswordsResolve(command, flags) ==
    CASE command \in {"Encrypt", "PermissionsSet"} ->
            /\ resolve_required_password(flags, "owner_password", "owner_password_file")
            /\ resolve_required_password(flags, "user_password", "user_password_file")
      [] command = "Decrypt" -> resolve_required_password(flags, "password", "password_file")
      [] command = "PermissionsGet" ->
            resolve_optional_password(flags, "password", "password_file")
      [] OTHER -> TRUE

\* The operator in the workflow that a command builds.
BuiltOperator(command, flags) ==
    LET builder == BuilderOf(command)
    IN  Operator(builder.family, builder.name, builder.kind,
                 builder.sets \cup {FieldOf(f) : f \in flags \cap builder.passes})

-----------------------------------------------------------------------------
(* runtime/io.rs: the guards and the shapes of the workflows.                *)

Dashes(operands) == {i \in DOMAIN operands : operands[i] = "-"}

reject_shared_stdin_inputs(operands) ==
    Len(operands) = 2 /\ operands[1] = "-" /\ operands[2] = "-"
reject_multiple_stdin_inputs(operands) == Cardinality(Dashes(operands)) > 1

\* Image and SVG watermarks ask for --watermark before the guard is tried.
RefusesOperands(command, operands) ==
    \/ command \in {"WatermarkImage", "WatermarkSvg"} /\ Len(operands) = 1
    \/ BuilderOf(command).guard = "shared" /\ reject_shared_stdin_inputs(operands)
    \/ BuilderOf(command).guard = "multiple" /\ reject_multiple_stdin_inputs(operands)

\* The operands that become inputs of the workflow.
InputOperands(command, operands) ==
    IF command \in {"OutlineSet", "WatermarkText"} THEN SubSeq(operands, 1, 1) ELSE operands

one_input_workflow == <<"input">>
two_input_workflow == <<"input", "attachment">>
multi_input_workflow(n) == SubSeq(<<"input_0", "input_1", "input_2">>, 1, n)
InputIds(command, n) ==
    CASE command \in {"Merge", "Img2pdf"}     -> multi_input_workflow(n)
      [] command \in {"Report", "VisualDiff"} -> <<"left", "right">>
      [] command \in {"WatermarkImage", "WatermarkSvg"} -> <<"input", "watermark_input">>
      [] OTHER -> IF n = 1 THEN one_input_workflow ELSE two_input_workflow

\* The operands beside the command's inputs that the builder reads itself.
BuilderReads(command, operands) ==
    IF command = "OutlineSet" /\ operands[2] = "-" THEN {<<"tree", 2>>} ELSE {}

DEFAULT_MAX_WORKFLOW_TASKS == 256
workflow_from_specs(command, operands) ==
    LET ids == InputIds(command, Len(InputOperands(command, operands)))
        task == BuilderOf(command).task
    IN  [inputs |-> ids, tasks |-> <<[id |-> task, inputs |-> ids]>>,
         outputs |-> <<[id |-> "output", from |-> task]>>,
         zero_limit |-> FALSE, max_tasks |-> DEFAULT_MAX_WORKFLOW_TASKS]
=============================================================================
