------------------------------ MODULE Operators ------------------------------
(***************************************************************************)
(* The operators a task may name: their options as a workflow file spells  *)
(* them, the serde conversions between the two, which artifacts each one   *)
(* takes and which one it returns.  An operator is a record                *)
(*   [family, name, kind : STRING, given : SUBSET STRING]                  *)
(* in which kind is the value of the field that selects a mode of the      *)
(* operator ("none" where there is no such field) and given are the other  *)
(* option fields that carry a value of their own.  Pure operators.         *)
(***************************************************************************)
EXTENDS Integers, Sequences, FiniteSets

\* A field without serde default and not an Option is required.
Struct(must, may) == [required |-> must, optional |-> may]
NoFields == Struct({}, {})

-----------------------------------------------------------------------------
(* The option structs, file by file.                                        *)

PageOptions ==
    [MergeOptions |-> NoFields,
     SplitOptions |-> Struct({"pages"}, {}),
     ReorderOptions |-> Struct({"pages"}, {}),
     RotateOptions |-> Struct({"pages", "degrees"}, {}),
     PageSelectionOptions |-> Struct({"pages"}, {}),
     DeleteBlankPagesOptions |-> NoFields,
     CropPagesOptions |-> Struct({"left", "bottom", "right", "top"}, {"pages"}),
     ScalePagesOptions |-> Struct({"factor"}, {"pages"}),
     SinglePageOptions |-> NoFields,
     NUpOptions |-> Struct({"columns", "rows"}, {}),
     BookletOptions |-> NoFields,
     PageNumbersOptions |->
         Struct({}, {"pages", "start", "prefix", "suffix", "font_size", "position"})]

MarkFields == {"text", "font", "font_path", "font_size", "opacity", "rotation", "position",
               "pages", "scale", "rasterize"}

OverlayOptions ==
    [ImageToPdfOptions |-> Struct({}, {"layout"}),
     SvgToPdfOptions |-> Struct({}, {"rasterize"}),
     ExtractTextOptions |-> Struct({}, {"format"}),
     WatermarkOptions |-> Struct({}, MarkFields),
     OverlayOptions |-> Struct({}, MarkFields \cup {"source_page"}),
     ImageInspectOptions |-> NoFields,
     ImageExtractOptions |-> Struct({"name"}, {}),
     ImageEditOptions |-> Struct({}, {"name", "page"}),
     ColorEditOptions |-> Struct({}, {"pages", "from", "to", "factor", "rasterize_pages"}),
     RenderOptions |-> Struct({"page"}, {"format", "scale"})]

DocumentOptions ==
    [MetadataInspectOptions |-> NoFields,
     MetadataEditOptions |-> Struct({}, {"entries", "keys"})]
OutlineOptions ==
    [OutlineInspectOptions |-> NoFields,
     OutlineEditOptions |-> Struct({}, {"tree"})]
AttachmentOptions ==
    [AttachmentInspectOptions |-> NoFields,
     AttachmentExtractOptions |-> Struct({"name"}, {}),
     AttachmentEditOptions |-> Struct({}, {"name", "description"})]
AnnotationOptions ==
    [AnnotationInspectOptions |-> NoFields,
     AnnotationEditOptions |-> Struct({}, {"page", "id", "text"})]
FormOptions ==
    [FormInspectOptions |-> NoFields,
     FormFillOptions |-> Struct({"fields"}, {}),
     FormFlag |-> NoFields]
InteractiveOptions ==
    [InteractiveRemovalOptions |->
        Struct({}, {"annotations", "forms", "actions", "javascript", "embedded_files"})]
\* mode is given when it is lossy, not its default; an images without any of its
\* fields is left out.
CompressionOptions ==
    [CompressionOptions |-> Struct({}, {"mode", "images"})]

\* Every field of these structs has a default: an absent password is "".
SecurityStructs ==
    [SecurityEncryptOptions |->
        Struct({}, {"owner_password", "user_password", "algorithm", "permissions"}),
     SecurityDecryptOptions |-> Struct({}, {"password"}),
     SecurityPermissionGetOptions |-> Struct({}, {"password"}),
     SecurityPermissionSetOptions |->
        Struct({}, {"owner_password", "user_password", "algorithm", "permissions"})]
CompareStructs ==
    [CompareOptions |-> Struct({}, {"include_text", "text_max_chars"}),
     VisualDiffOptions |-> Struct({}, {"page", "scale"})]
SignatureStructs ==
    [SignatureAddOptions |-> Struct({}, {"field_name", "certificate", "private_key",
                                        "contents_reserved_bytes", "appearance_field"}),
     SignatureDeleteFieldOptions |-> Struct({}, {"field_name", "destructive"}),
     TimestampAddOptions |-> Struct({}, {"tsa_url", "token"}),
     SignatureOptions |-> Struct({}, {"trust_anchors"})]

StructTables == <<PageOptions, OverlayOptions, DocumentOptions, OutlineOptions,
    AttachmentOptions, AnnotationOptions, FormOptions, InteractiveOptions,
    CompressionOptions, SecurityStructs, CompareStructs, SignatureStructs>>
Structs ==
    LET all == UNION {DOMAIN StructTables[t] : t \in DOMAIN StructTables}
    IN  [s \in all |-> (CHOOSE t \in {StructTables[i] : i \in DOMAIN StructTables} :
                            s \in DOMAIN t)[s]]

\* The fields whose value selects what the operator does.
Selectors ==
    [WatermarkOptions |-> {"Text", "Image", "Svg"},
     OverlayOptions |-> {"Watermark", "Stamp", "SignatureAppearance", "PdfPage", "Text",
                         "Image", "Svg"},
     ImageEditOptions |-> {"Add", "Replace", "Delete"},
     ColorEditOptions |-> {"Contrast", "Invert", "Replace"},
     MetadataEditOptions |-> {"Set", "Delete", "Validate"},
     OutlineEditOptions |-> {"Set", "Delete"},
     AttachmentEditOptions |-> {"Add", "Delete"},
     AnnotationEditOptions |-> {"AddText", "Delete"},
     SignatureOptions |-> {"List", "Verify"}]

\* Options that name a file of the machine the engine runs on.
PathFields == {"font_path", "certificate", "private_key", "token", "trust_anchors"}

-----------------------------------------------------------------------------
(* The five families of OperatorSpec and the options struct of each variant.*)

EditVariants ==
    [Merge |-> "MergeOptions", KeepPages |-> "SplitOptions",
     ExtractPages |-> "PageSelectionOptions", ReorderPages |-> "ReorderOptions",
     RotatePages |-> "RotateOptions", DeletePages |-> "PageSelectionOptions",
     DeleteBlankPages |-> "DeleteBlankPagesOptions", CropPages |-> "CropPagesOptions",
     ScalePages |-> "ScalePagesOptions", SinglePage |-> "SinglePageOptions",
     NUp |-> "NUpOptions", Booklet |-> "BookletOptions",
     PageNumbers |-> "PageNumbersOptions", ImageToPdf |-> "ImageToPdfOptions",
     SvgToPdf |-> "SvgToPdfOptions", Watermark |-> "WatermarkOptions",
     Overlay |-> "OverlayOptions", ImageEdit |-> "ImageEditOptions",
     Color |-> "ColorEditOptions", Metadata |-> "MetadataEditOptions",
     Outline |-> "OutlineEditOptions", Attachment |-> "AttachmentEditOptions",
     Annotation |-> "AnnotationEditOptions", FormFill |-> "FormFillOptions",
     FormUnlockReadonly |-> "FormFlag", FormRemove |-> "FormFlag",
     InteractiveRemove |-> "InteractiveRemovalOptions", Compression |-> "CompressionOptions"]
InspectVariants ==
    [Render |-> "RenderOptions", ExtractText |-> "ExtractTextOptions",
     Metadata |-> "MetadataInspectOptions", Outline |-> "OutlineInspectOptions",
     Attachments |-> "AttachmentInspectOptions",
     AttachmentExtract |-> "AttachmentExtractOptions",
     Annotations |-> "AnnotationInspectOptions", Forms |-> "FormInspectOptions",
     Images |-> "ImageInspectOptions", ImageExtract |-> "ImageExtractOptions"]
SecurityVariants ==
    [Encrypt |-> "SecurityEncryptOptions", Decrypt |-> "SecurityDecryptOptions",
     PermissionsGet |-> "SecurityPermissionGetOptions",
     PermissionsSet |-> "SecurityPermissionSetOptions"]
CompareVariants == [Report |-> "CompareOptions", VisualDiff |-> "VisualDiffOptions"]
SignVariants ==
    [Add |-> "SignatureAddOptions", List |-> "SignatureOptions",
     Verify |-> "SignatureOptions", DeleteField |-> "SignatureDeleteFieldOptions",
     Timestamp |-> "TimestampAddOptions"]

Variants ==
    [PdfEdit |-> EditVariants, PdfInspect |-> InspectVariants,
     PdfSecurity |-> SecurityVariants, PdfCompare |-> CompareVariants,
     PdfSign |-> SignVariants]
OperatorFamilies == DOMAIN Variants

Operator(family, name, kind, given) ==
    [family |-> family, name |-> name, kind |-> kind, given |-> given]

StructOf(family, name) == Variants[family][name]
KindsOf(family, name) ==
    IF StructOf(family, name) \in DOMAIN Selectors
    THEN Selectors[StructOf(family, name)] ELSE {"none"}
FieldsOf(op) ==
    LET s == Structs[StructOf(op.family, op.name)] IN s.required \cup s.optional
RequiredOf(op) == Structs[StructOf(op.family, op.name)].required

-----------------------------------------------------------------------------
(* serde.  In a file an operator is an object with one key per family, whose *)
(* value is an object with one key per variant; a document is a function    *)
(* from the families present to the set of the variants present.            *)

Refused == [name |-> "refused", kind |-> "none", given |-> {}]

\* The one variant that is present; every family counts its own variants.
OneOf(entries, counted) ==
    LET present == {e \in entries : e.name \in counted}
    IN  IF entries \subseteq present /\ Cardinality(present) = 1
        THEN CHOOSE e \in present : TRUE ELSE Refused
PdfEditFromDef(entries) == OneOf(entries, DOMAIN EditVariants)
PdfInspectFromDef(entries) == OneOf(entries, DOMAIN InspectVariants)
PdfSecurityFromDef(entries) == OneOf(entries, DOMAIN SecurityVariants)
PdfCompareFromDef(entries) == OneOf(entries, DOMAIN CompareVariants)
\* Mutant: the mode of the file is kept.
SignKeepingMode(entries) == OneOf(entries, DOMAIN SignVariants)
\* list and verify set the mode whatever the file says.
PdfSignFromDef(entries) ==
    LET e == OneOf(entries, DOMAIN SignVariants)
    IN  IF e # Refused /\ e.name \in {"List", "Verify"} THEN [e EXCEPT !.kind = e.name] ELSE e

FamilyFromDef(family, entries) ==
    CASE family = "PdfEdit"     -> PdfEditFromDef(entries)
      [] family = "PdfInspect"  -> PdfInspectFromDef(entries)
      [] family = "PdfSecurity" -> PdfSecurityFromDef(entries)
      [] family = "PdfCompare"  -> PdfCompareFromDef(entries)
      [] family = "PdfSign"     -> PdfSignFromDef(entries)

\* Each family is deserialised first, then OperatorSpec wants exactly one.
FromDef(def) ==
    IF \/ \E f \in DOMAIN def : FamilyFromDef(f, def[f]) = Refused
       \/ Cardinality(DOMAIN def) # 1
    THEN Refused
    ELSE LET f == CHOOSE f \in DOMAIN def : TRUE
             e == FamilyFromDef(f, def[f])
         IN  Operator(f, e.name, e.kind, e.given)

\* Mutant: a marker written as null reads back as absent.
EntriesDroppingFlags(op) ==
    IF StructOf(op.family, op.name) = "FormFlag" THEN {}
    ELSE {[name |-> op.name, kind |-> op.kind, given |-> op.given]}
\* A parameterless variant is written as {} by FlagMarker and so is present too.
Entries(op) == {[name |-> op.name, kind |-> op.kind, given |-> op.given]}

ToDef(op) == [f \in {op.family} |-> Entries(op)]
=============================================================================
