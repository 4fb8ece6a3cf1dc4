------------------------------ MODULE WebSchema ------------------------------
(***************************************************************************)
(* The browser's side of the engine: the operators /api/schema offers with *)
(* the options of their forms, and parse_op, which turns the family, the   *)
(* name and the options a request carries into an operator.  A request is  *)
(*   [family, name, kind : STRING, given : SUBSET STRING, local : BOOLEAN]  *)
(* where local says that its font, if any, is none of the 14 standard      *)
(* fonts of PDF but one of the machine's.  Pure operators.                 *)
(***************************************************************************)
EXTENDS Operators

-----------------------------------------------------------------------------
(* schema/mod.rs: <<takes several inputs, what comes out>>                   *)

schema ==
    [PdfEdit |-> [n \in DOMAIN EditVariants |->
        <<n \in {"Merge", "ImageToPdf", "SvgToPdf", "Overlay", "Attachment"}, "pdf">>],
     PdfInspect |-> [n \in DOMAIN InspectVariants |->
        <<FALSE, CASE n \in {"Render", "ImageExtract"} -> "image"
                   [] n = "AttachmentExtract"          -> "bytes"
                   [] OTHER                            -> "text">>],
     PdfSecurity |-> [n \in DOMAIN SecurityVariants |->
        <<FALSE, IF n = "PermissionsGet" THEN "text" ELSE "pdf">>],
     PdfCompare |-> [n \in DOMAIN CompareVariants |->
        <<TRUE, IF n = "Report" THEN "text" ELSE "image">>],
     PdfSign |-> [n \in {"List", "Verify", "DeleteField"} |->
        <<FALSE, IF n = "DeleteField" THEN "pdf" ELSE "text">>]]

\* A variant whose form is empty whatever its request says.
Flags == {"FormUnlockReadonly", "FormRemove"}

\* Mutant: the overlay's form keeps every option.
SchemaWithPaths(family, name) ==
    LET s == Structs[StructOf(family, name)]
    IN  (s.required \cup s.optional) \ (IF name \in {"List", "Verify", "Watermark"}
                                        THEN {"trust_anchors", "font_path"} ELSE {})
\* schema/op_schema.rs: the options in an operator's form.
op_schema(family, name) ==
    LET s == Structs[StructOf(family, name)]
        without == CASE name \in {"Watermark", "Overlay"} -> {"font_path"}
                     [] name \in {"List", "Verify"}       -> {"trust_anchors"}
                     [] OTHER                             -> {}
    IN  (s.required \cup s.optional) \ without

-----------------------------------------------------------------------------
(* schema/parse/std.rs                                                       *)

NeedsFont(kind) == kind \in {"Text", "Watermark", "Stamp", "SignatureAppearance"}

\* Mutant: an overlay's font is not looked at.
SanitizeWatermarkOnly(r) ==
    IF "font_path" \in r.given \/ (r.name = "Watermark" /\ "font" \in r.given /\ r.local)
    THEN Refused
    ELSE Operator(r.family, r.name, r.kind,
                  r.given \cup (IF NeedsFont(r.kind) THEN {"font"} ELSE {}))
\* sanitize_watermark_options and sanitize_overlay_options
Sanitize(r) ==
    IF "font_path" \in r.given \/ ("font" \in r.given /\ r.local) THEN Refused
    ELSE Operator(r.family, r.name, r.kind,
                  r.given \cup (IF NeedsFont(r.kind) THEN {"font"} ELSE {}))

signature_options_without_trust_anchors(r) ==
    IF "trust_anchors" \in r.given THEN Refused
    ELSE Operator(r.family, r.name, r.kind, r.given)

\* Every option the struct requires has to be in the request, unless the
\* request's options are not looked at.
parse_op(r) ==
    CASE r.family = "PdfSign" /\ r.name \notin {"List", "Verify", "DeleteField"} -> Refused
      [] r.name \in Flags -> Operator(r.family, r.name, "none", {})
      [] r.name \notin Flags /\ ~(RequiredOf(r) \subseteq r.given) -> Refused
      [] r.family = "PdfEdit" /\ r.name \in {"Watermark", "Overlay"} -> Sanitize(r)
      [] r.name \in {"List", "Verify"} -> signature_options_without_trust_anchors(r)
      [] OTHER -> Operator(r.family, r.name, r.kind, r.given)
=============================================================================
