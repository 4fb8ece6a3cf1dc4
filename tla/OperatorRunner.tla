--------------------------- MODULE OperatorRunner ---------------------------
(***************************************************************************)
(* run_pdf_edit and its siblings: how many artifacts of which kinds each   *)
(* operator takes, what its options must carry by then, and the kind of    *)
(* the artifact it returns.  Pure operators.                               *)
(***************************************************************************)
EXTENDS Operators

ArtifactKinds == {"Pdf", "PdfObject", "Image", "Svg", "Text", "Bytes"}

-----------------------------------------------------------------------------
(* inputs.rs                                                                *)

pdf_bytes(kind) == kind \in {"Pdf", "Bytes"}
image_bytes(kind) == kind \in {"Image", "Bytes"}
svg_bytes(kind) == kind \in {"Svg", "Bytes"}

\* A parsed document is serialised first.
single_pdf_input_bytes(kinds) ==
    Len(kinds) = 1 /\ (kinds[1] = "PdfObject" \/ pdf_bytes(kinds[1]))
single_pdf_document(kinds) ==
    Len(kinds) = 1 /\ kinds[1] \in {"PdfObject", "Pdf", "Bytes"}
single_svg_input(kinds) == Len(kinds) = 1 /\ svg_bytes(kinds[1])
two_pdf_inputs(kinds) == Len(kinds) = 2 /\ pdf_bytes(kinds[1]) /\ pdf_bytes(kinds[2])

\* Mutant: documents reach the byte operators unserialised.
PassThrough(kinds) == kinds
materialize_object_inputs(kinds) ==
    [i \in DOMAIN kinds |-> IF kinds[i] = "PdfObject" THEN "Pdf" ELSE kinds[i]]

-----------------------------------------------------------------------------
(* The operators that check their inputs themselves.                        *)

merge_artifacts_to_document(kinds) ==
    Len(kinds) >= 2 /\ \A i \in DOMAIN kinds : kinds[i] \in {"PdfObject", "Pdf", "Bytes"}

image_artifacts_to_pdf(kinds) ==
    Len(kinds) >= 1 /\ \A i \in DOMAIN kinds : image_bytes(kinds[i])

TextKinds == {"Watermark", "Text", "Stamp", "SignatureAppearance"}
OverlayBytes(overlay, kind) ==
    CASE kind = "Image"   -> image_bytes(overlay)
      [] kind = "Svg"     -> svg_bytes(overlay)
      [] kind = "PdfPage" -> pdf_bytes(overlay)
      [] OTHER            -> FALSE
overlay_inputs(kinds, kind) ==
    IF kind \in TextKinds THEN Len(kinds) = 1 /\ pdf_bytes(kinds[1])
    ELSE Len(kinds) = 2 /\ pdf_bytes(kinds[1]) /\ OverlayBytes(kinds[2], kind)

\* A text overlay has to have text and a font: a family or a file.
overlay_pdf_artifacts(kinds, kind, given) ==
    /\ overlay_inputs(kinds, kind)
    /\ kind \in TextKinds => "text" \in given /\ {"font", "font_path"} \cap given # {}

\* watermark_pdf_artifacts is an overlay of the matching kind.
watermark_pdf_artifacts(kinds, kind, given) ==
    overlay_pdf_artifacts(kinds, IF kind = "Text" THEN "Watermark" ELSE kind, given)

edit_pdf_images_artifacts(kinds, action, given) ==
    /\ Len(kinds) >= 1 /\ pdf_bytes(kinds[1])
    /\ CASE action = "Add"     -> /\ Len(kinds) = 2 /\ image_bytes(kinds[2])
                                  /\ {"page", "name"} \subseteq given
         [] action = "Replace" -> Len(kinds) = 2 /\ image_bytes(kinds[2]) /\ "name" \in given
         [] action = "Delete"  -> Len(kinds) = 1 /\ "name" \in given

\* raw_bytes takes an attachment of any kind but a parsed document's, which
\* materialize_object_inputs has replaced.
edit_pdf_attachment_artifacts(kinds, action, given) ==
    /\ "name" \in given
    /\ CASE action = "Add"    -> Len(kinds) = 2 /\ pdf_bytes(kinds[1])
         [] action = "Delete" -> Len(kinds) = 1 /\ pdf_bytes(kinds[1])

\* What the remaining operators want of options that serde lets them do without.
OptionsSuffice(op) ==
    CASE op.name = "Color" ->
            /\ "rasterize_pages" \notin op.given
            /\ op.kind = "Replace" => {"from", "to"} \subseteq op.given
      [] op.name = "Annotation" ->
            IF op.kind = "AddText" THEN {"page", "id", "text"} \subseteq op.given
            ELSE "id" \in op.given
      [] op.family = "PdfEdit" /\ op.name = "Outline" -> op.kind = "Set" => "tree" \in op.given
      [] op.name \in {"Encrypt", "PermissionsSet"} ->
            {"owner_password", "user_password"} \subseteq op.given
      [] op.name = "Decrypt" -> "password" \in op.given
      [] op.family = "PdfSign" /\ op.name = "Add" ->
            {"field_name", "certificate", "private_key"} \subseteq op.given
      [] op.name = "DeleteField" -> "field_name" \in op.given
      [] op.name = "Timestamp" -> "token" \in op.given /\ "tsa_url" \notin op.given
      [] op.name = "Compression" -> ("mode" \in op.given) <=> ("images" \in op.given)
      [] OTHER -> TRUE

-----------------------------------------------------------------------------
(* The four runners: TRUE when the operator takes these artifacts.           *)

run_pdf_edit(op, kinds) ==
    CASE op.name = "Merge"      -> merge_artifacts_to_document(kinds)
      [] op.name \in {"NUp", "Booklet"} -> single_pdf_input_bytes(kinds)
      [] op.name = "ImageToPdf" -> image_artifacts_to_pdf(kinds)
      [] op.name = "SvgToPdf"   -> single_svg_input(kinds)
      [] op.name = "Watermark"  ->
            watermark_pdf_artifacts(materialize_object_inputs(kinds), op.kind, op.given)
      [] op.name = "Overlay"    ->
            overlay_pdf_artifacts(materialize_object_inputs(kinds), op.kind, op.given)
      [] op.name = "ImageEdit"  ->
            edit_pdf_images_artifacts(materialize_object_inputs(kinds), op.kind, op.given)
      [] op.name = "Attachment" ->
            edit_pdf_attachment_artifacts(materialize_object_inputs(kinds), op.kind, op.given)
      [] OTHER -> single_pdf_document(kinds)

run_pdf_inspect(op, kinds) ==
    IF op.name \in {"Render", "ExtractText", "AttachmentExtract", "ImageExtract"}
    THEN single_pdf_input_bytes(kinds) ELSE single_pdf_document(kinds)

run_pdf_security(op, kinds) == single_pdf_input_bytes(kinds)
run_pdf_compare(op, kinds) == two_pdf_inputs(materialize_object_inputs(kinds))
run_pdf_sign(op, kinds) == single_pdf_input_bytes(kinds)

Runs(op, kinds) ==
    /\ OptionsSuffice(op)
    /\ CASE op.family = "PdfEdit"     -> run_pdf_edit(op, kinds)
         [] op.family = "PdfInspect"  -> run_pdf_inspect(op, kinds)
         [] op.family = "PdfSecurity" -> run_pdf_security(op, kinds)
         [] op.family = "PdfCompare"  -> run_pdf_compare(op, kinds)
         [] op.family = "PdfSign"     -> run_pdf_sign(op, kinds)

\* The kind an operator returns: object editors hand the parsed document on.
EditResult(op) ==
    IF op.name \in {"NUp", "Booklet", "ImageToPdf", "SvgToPdf", "Watermark", "Overlay",
                    "ImageEdit", "Attachment"}
    THEN "Pdf" ELSE "PdfObject"
InspectResult(op) ==
    CASE op.name = "Render" -> "Image"
      [] op.name \in {"AttachmentExtract", "ImageExtract"} -> "Bytes"
      [] OTHER -> "Text"
ResultKind(op) ==
    CASE op.family = "PdfEdit"    -> EditResult(op)
      [] op.family = "PdfInspect" -> InspectResult(op)
      [] op.name = "VisualDiff"   -> "Image"
      [] op.name \in {"PermissionsGet", "Report", "List", "Verify", "Timestamp"} -> "Text"
      [] OTHER -> "Pdf"
=============================================================================
