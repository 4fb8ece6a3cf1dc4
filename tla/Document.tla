------------------------------ MODULE Document ------------------------------
(***************************************************************************)
(* What a PDF keeps beside the contents of its pages, as objects and       *)
(* references: the name tree with the embedded files, the form and its     *)
(* fields, each page's annotations, the Info dictionary, the outline and   *)
(* the encryption.  Every operator loads the file, edits the objects and   *)
(* saves, so one action is one operator; one that fails changes nothing.   *)
(*                                                                         *)
(* A dictionary or an array may be absent, inside its owner ("inline"), or *)
(* an object of its own ("ref"); much of the code treats the two           *)
(* differently.                                                            *)
(***************************************************************************)
EXTENDS Naturals, Sequences, FiniteSets, Functions

CONSTANTS
    Originals,  \* the parsed documents at first
    PageIds,    \* page objects
    Ids,        \* field and annotation objects
    Texts,      \* names of attachments, fields and annotations
    Keys,       \* keys of the Info dictionary, normalized
    Passwords,
    MaxEdits    \* bound: operators run in a behaviour

VARIABLES pdf, edits, last
vars == <<pdf, edits, last>>

Places == {"none", "inline", "ref"}
Open == [owner |-> "", user |-> ""]
Objects == [kind : {"none", "Tx", "Btn", "Sig", "Text"}, name : Texts \cup {""},
            filled : BOOLEAN, readonly : BOOLEAN]
Object(kind, name, filled) == [kind |-> kind, name |-> name, filled |-> filled, readonly |-> FALSE]
NoObject == Object("none", "", FALSE)
Forms == {form \in [at : Places, xfa : BOOLEAN, need_appearances : BOOLEAN, fields : SUBSET Ids] :
            form.at = "none" => form.fields = {}}
Annots == {annots \in [at : Places, ids : SUBSET Ids] : annots.at = "none" => annots.ids = {}}
Entries == {"name", "spec"} \X Texts
NameTrees == [at : Places, script : BOOLEAN, files : Places, entries : Seq(Entries)]
Seals == [owner : Passwords \cup {""}, user : Passwords \cup {""}]
\* Bound: an encrypted document has two passwords, neither of them empty.
Documents ==
    [pages : Seq(PageIds),
     names : NameTrees,
     form : Forms,
     annots : [PageIds -> Annots],
     objects : [Ids -> Objects],
     actions : BOOLEAN,
     info : [Keys -> {"none", "text", "name", "other"}],
     outline : SUBSET PageIds,
     seal : {seal \in Seals : seal.owner = "" <=> seal.user = ""}]

Live(doc) == {id \in Ids : doc.objects[id].kind # "none"}

\* References that the program follows lead somewhere.  An inline form may hold
\* one that does not, and so may an array that is an object of its own.
Resolves(doc) ==
    /\ doc.form.at # "inline" => doc.form.fields \subseteq Live(doc)
    /\ \A p \in PageIds : p \in Range(doc.pages) /\ doc.annots[p].at # "ref"
                            => doc.annots[p].ids \subseteq Live(doc)

ASSUME DocumentAssumption ==
    /\ MaxEdits \in Nat /\ "" \notin Texts /\ "" \notin Passwords
    /\ Originals \subseteq Documents
    /\ \A doc \in Originals : Resolves(doc) /\ doc.form.fields \subseteq Live(doc)

NoNames == [at |-> "none", script |-> FALSE, files |-> "none", entries |-> <<>>]
NoForm == [at |-> "none", xfa |-> FALSE, need_appearances |-> FALSE, fields |-> {}]
NoAnnots == [at |-> "none", ids |-> {}]

Init == pdf \in Originals /\ edits = 0 /\ last = <<"none">>

-----------------------------------------------------------------------------
\* save_pdf and the next load_pdf: objects that nothing refers to are dropped
\* and the rest is renumbered.  A reference to no object keeps its number, which
\* another object may have by then; what that is depends on all other objects.
Referenced(doc) == doc.form.fields \cup UNION {doc.annots[p].ids : p \in PageIds}
Pruned(doc) ==
    [doc EXCEPT !.objects = [i \in Ids |-> IF i \in Referenced(doc) THEN doc.objects[i] ELSE NoObject]]
Dangling(doc) == doc.form.fields \ Live(doc)
Saved(doc) ==
    {[Pruned(doc) EXCEPT !.form.fields = (@ \ Dangling(doc)) \cup some] :
        some \in IF Dangling(doc) = {} THEN {{}}
                 ELSE SUBSET (Dangling(doc) \cup Live(Pruned(doc)))}

Write(op, docs) == edits < MaxEdits /\ pdf' \in docs /\ edits' = edits + 1 /\ last' = op
Run(op, doc) == Write(op, Saved(doc))

\* load_pdf refuses an encrypted document, and one without pages.
Edit(op, doc) == pdf.seal = Open /\ pdf.pages # <<>> /\ Run(op, doc)

-----------------------------------------------------------------------------
(* attachments: a flat array of names and file specifications in turn.       *)
Pairs(entries) == {<<entries[2 * k - 1], entries[2 * k]>> : k \in 1..(Len(entries) \div 2)}
OddTail(entries) == Len(entries) % 2 = 1

\* Mutant: the list is not looked for and always started anew.
embedded_files_started_anew(doc) ==
    [at |-> "ref", script |-> doc.names.at = "ref" /\ doc.names.script, files |-> "ref", entries |-> <<>>]

\* What add and delete edit.  A dictionary that is not an object of its own
\* counts as absent and is replaced by a new one.
embedded_files_names(doc) ==
    LET names == IF doc.names.at = "ref" THEN doc.names ELSE [NoNames EXCEPT !.at = "ref"]
    IN  IF names.files = "ref" THEN names ELSE [names EXCEPT !.files = "ref", !.entries = <<>>]

\* The elements at these places, in order: SelectSeq by places.
Kept(s, places) ==
    LET kept[n \in 0..Len(s)] ==
            IF n = 0 THEN <<>> ELSE IF n \in places THEN Append(kept[n - 1], s[n]) ELSE kept[n - 1]
    IN  kept[Len(s)]

\* Mutant: the names go, whatever they are.
retain_no_names(entries, name) == Kept(entries, {k \in DOMAIN entries : entries[k][1] # "name"})

\* An older entry of the name loses its name and keeps its specification.
retain_other_names(entries, name) == Kept(entries, {k \in DOMAIN entries : entries[k] # <<"name", name>>})

add_attachment(name) ==
    LET names == embedded_files_names(pdf)
        kept == retain_other_names(names.entries, name)
    IN  Edit(<<"add attachment", name>>,
             [pdf EXCEPT !.names = [names EXCEPT
                !.entries = kept \o <<<<"name", name>>, <<"spec", name>>>>]])

delete_attachment(name) ==
    LET names == embedded_files_names(pdf)
        entries == names.entries
        all == [k \in 1..(Len(entries) \div 2) |-> k]
        kept == Kept(all, {k \in DOMAIN all : entries[2 * k - 1] # <<"name", name>>})
    IN  /\ ~OddTail(entries) /\ Len(kept) < Len(all)
        /\ Edit(<<"delete attachment", name>>,
                [pdf EXCEPT !.names = [names EXCEPT !.entries =
                    [i \in 1..(2 * Len(kept)) |-> entries[2 * kept[(i + 1) \div 2] - (i % 2)]]]])

read_attachment_reports(doc) ==
    LET pairs == Pairs(doc.names.entries)
    IN  IF doc.names.files = "none" THEN [ok |-> TRUE, of |-> {}]
        ELSE IF OddTail(doc.names.entries) \/ \E pair \in pairs : pair[1][1] # "name" \/ pair[2][1] # "spec"
        THEN [ok |-> FALSE, of |-> {}]
        ELSE [ok |-> TRUE, of |-> {pair[1][2] : pair \in pairs}]

-----------------------------------------------------------------------------
(* forms                                                                     *)
IsField(doc, id) == doc.objects[id].kind \in {"Tx", "Btn", "Sig"}
FieldsNamed(doc, name) ==
    {id \in doc.form.fields \cap Live(doc) : IsField(doc, id) /\ doc.objects[id].name = name}

FieldReport(doc, id) ==
    [id |-> id, kind |-> doc.objects[id].kind, name |-> doc.objects[id].name,
     filled |-> doc.objects[id].filled, readonly |-> doc.objects[id].readonly]
collect_form_fields(doc) ==
    IF Dangling(doc) # {} THEN [ok |-> FALSE, of |-> {}]
    ELSE [ok |-> TRUE, of |-> {FieldReport(doc, id) : id \in {i \in doc.form.fields : IsField(doc, i)}}]

With(doc, objects) == [doc EXCEPT !.objects = objects]

\* All values or none: one name of the list may be wrong.  Of two fields of one
\* name the first in the form's order is filled; what comes behind is not read.
fill_form(names) ==
    /\ ~pdf.form.xfa
    /\ \E chosen \in [names -> pdf.form.fields] :
         LET flagged == [pdf EXCEPT !.form.need_appearances = @ \/ (names # {} /\ pdf.form.at # "none")]
         IN  /\ \A n \in names : chosen[n] \in FieldsNamed(pdf, n) /\ pdf.objects[chosen[n]].kind = "Tx"
             /\ Edit(<<"fill form", names>>,
                     With(flagged, [id \in Ids |->
                        [pdf.objects[id] EXCEPT !.filled = @ \/ id \in Range(chosen)]]))

unlock_form_readonly ==
    /\ ~pdf.form.xfa /\ Dangling(pdf) = {}
    /\ Edit(<<"unlock form">>,
            With(pdf, [id \in Ids |->
                [pdf.objects[id] EXCEPT !.readonly = @ /\ id \notin pdf.form.fields]]))

-----------------------------------------------------------------------------
(* interactive                                                               *)
remove_annotations(doc) ==
    [doc EXCEPT !.annots = [p \in PageIds |-> IF p \in Range(doc.pages) THEN NoAnnots ELSE @[p]]]
remove_acroform(doc) == remove_annotations([doc EXCEPT !.form = NoForm])
remove_actions(doc) == [doc EXCEPT !.actions = FALSE]
remove_javascript(doc) == [doc EXCEPT !.names.script = FALSE]
remove_embedded_files(doc) == [doc EXCEPT !.names.files = "none", !.names.entries = <<>>]

remove_forms == Edit(<<"remove form">>, remove_acroform(pdf))

\* Scripts and files are removed from an inline name tree only.
remove_interactive(what) ==
    LET after(doc, part, removed) == IF part \in what THEN removed ELSE doc
        annots == after(pdf, "annotations", remove_annotations(pdf))
        forms == after(annots, "forms", remove_acroform(annots))
        actions == after(forms, "actions", remove_actions(forms))
        script == after(actions, "javascript", remove_javascript(actions))
    IN  /\ what \cap {"javascript", "embedded_files"} # {} => pdf.names.at # "ref"
        /\ Edit(<<"remove interactive", what>>, after(script, "embedded_files", remove_embedded_files(script)))

-----------------------------------------------------------------------------
(* signatures                                                                *)
Annotated(doc) == UNION {doc.annots[p].ids : p \in {q \in Range(doc.pages) : doc.annots[q].at # "ref"}}
IsSigned(doc, id) == doc.objects[id].kind = "Sig" /\ doc.objects[id].filled
discover_pdf_signature_dictionaries(doc) ==
    LET seen == doc.form.fields \cup Annotated(doc)
    IN  IF ~(seen \subseteq Live(doc)) THEN [ok |-> FALSE, of |-> {}]
        ELSE [ok |-> TRUE, of |-> {doc.objects[id].name : id \in {i \in seen : IsSigned(doc, i)}}]

\* The widget is appended to the first page's annotations, or replaces an array
\* that is an object of its own; the field is appended to the form, or a new
\* form replaces one that is inline.
append_reference_to_page_annots(annots, id) ==
    [at |-> "inline", ids |-> IF annots.at = "inline" THEN annots.ids \cup {id} ELSE {id}]
\* Mutant: a new form replaces any other.
append_signature_field_to_new_acroform(form, id) == [NoForm EXCEPT !.at = "ref", !.fields = {id}]
append_signature_field_to_acroform(form, id) ==
    IF form.at = "ref" THEN [form EXCEPT !.fields = @ \cup {id}]
    ELSE [NoForm EXCEPT !.at = "ref", !.fields = {id}]

add_pdf_signature(name) ==
    /\ discover_pdf_signature_dictionaries(pdf) = [ok |-> TRUE, of |-> {}]
    /\ \E id \in Ids \ Live(pdf) :
         Edit(<<"sign", name>>,
              [pdf EXCEPT !.objects[id] = Object("Sig", name, TRUE),
                          !.annots[pdf.pages[1]] = append_reference_to_page_annots(@, id),
                          !.form = append_signature_field_to_acroform(@, id)])

\* Mutant: the widget stays on its page.
remove_from_acroform_fields(doc, id) ==
    [doc EXCEPT !.form.fields = IF doc.form.at = "ref" THEN @ \ {id} ELSE @]

WithoutNotes(doc, p, ids) == [doc.annots[p] EXCEPT !.ids = @ \ ids]
remove_signature_field_references(doc, id) ==
    [doc EXCEPT !.form.fields = IF doc.form.at = "ref" THEN @ \ {id} ELSE @,
                !.annots = [p \in PageIds |->
                    IF p \in Range(doc.pages) /\ doc.annots[p].at = "inline"
                    THEN WithoutNotes(doc, p, {id}) ELSE doc.annots[p]]]

delete_pdf_signature_field(name, destructive) ==
    /\ Dangling(pdf) = {}
    /\ \E id \in FieldsNamed(pdf, name) :
         /\ {i \in FieldsNamed(pdf, name) : pdf.objects[i].kind = "Sig"} = {id}
         /\ pdf.objects[id].filled => destructive
         /\ Edit(<<"delete signature", name>>,
                 [remove_signature_field_references(pdf, id) EXCEPT !.objects[id] = NoObject])

-----------------------------------------------------------------------------
(* annotations                                                               *)
\* Widgets have no name of this kind (NM).
NoteName(doc, id) == IF doc.objects[id].kind = "Text" THEN doc.objects[id].name ELSE ""
AnnotationArrays(doc) == \A p \in Range(doc.pages) : doc.annots[p].at # "ref"

NoteReport(doc, p, id) == [page |-> p, id |-> id, name |-> NoteName(doc, id)]
inspect_annotations(doc) ==
    IF ~AnnotationArrays(doc) THEN [ok |-> FALSE, of |-> {}]
    ELSE [ok |-> TRUE,
          of |-> UNION {{NoteReport(doc, p, id) : id \in doc.annots[p].ids} : p \in Range(doc.pages)}]

add_text_annotation(page, name) ==
    /\ page \in Range(pdf.pages) /\ pdf.annots[page].at # "ref"
    /\ \E id \in Ids \ Live(pdf) :
         Edit(<<"add note", page, name>>,
              [pdf EXCEPT !.objects[id] = Object("Text", name, FALSE),
                          !.annots[page] = [at |-> "inline", ids |-> @.ids \cup {id}]])

\* Mutant: the arrays go, whatever else is in them.
delete_annotation_arrays(name) ==
    /\ AnnotationArrays(pdf) /\ \E id \in Annotated(pdf) : NoteName(pdf, id) = name
    /\ Edit(<<"delete note", name>>,
            [pdf EXCEPT !.annots = [p \in PageIds |->
                IF \E id \in @[p].ids : NoteName(pdf, id) = name THEN NoAnnots ELSE @[p]]])

\* On every page; one page whose array cannot be read fails the whole.
delete_annotation(name) ==
    LET gone == {id \in Annotated(pdf) : NoteName(pdf, id) = name}
    IN  /\ AnnotationArrays(pdf) /\ gone # {}
        /\ Edit(<<"delete note", name>>,
                [pdf EXCEPT !.annots = [p \in PageIds |->
                    IF p \in Range(pdf.pages) THEN WithoutNotes(pdf, p, gone) ELSE pdf.annots[p]]])

-----------------------------------------------------------------------------
(* metadata: an edit writes all entries that it could read, as texts.        *)
read_metadata_entries(doc) == {k \in Keys : doc.info[k] \in {"text", "name"}}
write_metadata_entries(entries) == [k \in Keys |-> IF k \in entries THEN "text" ELSE "none"]
edit_metadata(added, removed) ==
    Edit(<<"edit metadata", added, removed>>,
         [pdf EXCEPT !.info = write_metadata_entries((read_metadata_entries(pdf) \cup added) \ removed)])
validate_metadata == Edit(<<"edit metadata", {}, {}>>, pdf)

(* outlines: an item without its page cannot be read, and with it the rest.  *)
edit_outline(some) ==
    some \subseteq Range(pdf.pages) /\ Edit(<<"set outline", some>>, [pdf EXCEPT !.outline = some])
read_outline_tree(doc) ==
    IF doc.outline \subseteq Range(doc.pages) THEN [ok |-> TRUE, of |-> doc.outline]
    ELSE [ok |-> FALSE, of |-> {}]

\* The page operations of PageTree, here by the pages that are left.  The items
\* of the outline and the fields of the form are not theirs to change.
keep_pages(order) ==
    /\ order # <<>> /\ Range(order) \subseteq Range(pdf.pages) /\ IsInjective(order)
    /\ Edit(<<"keep pages", order>>,
            [pdf EXCEPT !.pages = order,
                        !.annots = [p \in PageIds |-> IF p \in Range(order) THEN @[p] ELSE NoAnnots]])

-----------------------------------------------------------------------------
(* security                                                                  *)
ensure_explicit_passwords(seal) == seal.owner # "" /\ seal.user # ""
Authenticates(password) == password # "" /\ password \in {pdf.seal.owner, pdf.seal.user}

encrypt_pdf(seal) ==
    /\ ensure_explicit_passwords(seal) /\ pdf.seal = Open
    /\ Run(<<"encrypt">>, [pdf EXCEPT !.seal = seal])

\* What comes out of a decryption is neither pruned nor renumbered.
decrypt_pdf(password) ==
    /\ pdf.seal # Open /\ Authenticates(password)
    /\ Write(<<"decrypt", password>>, {[pdf EXCEPT !.seal = Open]})

\* Mutant: any password of the document will do.
set_permissions_with_any_password(seal) ==
    /\ ensure_explicit_passwords(seal)
    /\ pdf.seal # Open => Authenticates(seal.owner)
    /\ Run(<<"set permissions">>, [pdf EXCEPT !.seal = seal])

\* One password opens the document as its owner and is the owner's afterwards.
set_pdf_permissions(seal) ==
    /\ ensure_explicit_passwords(seal)
    /\ pdf.seal # Open => seal.owner = pdf.seal.owner
    /\ Run(<<"set permissions">>, [pdf EXCEPT !.seal = seal])

-----------------------------------------------------------------------------
Next ==
    \/ \E name \in Texts :
          \/ add_attachment(name) \/ delete_attachment(name)
          \/ add_pdf_signature(name)
          \/ \E destructive \in BOOLEAN : delete_pdf_signature_field(name, destructive)
          \/ delete_annotation(name) \/ \E page \in PageIds : add_text_annotation(page, name)
    \/ \E names \in SUBSET Texts : fill_form(names)
    \/ unlock_form_readonly \/ remove_forms
    \/ \E what \in SUBSET {"annotations", "forms", "actions", "javascript", "embedded_files"} :
          remove_interactive(what)
    \/ \E some \in SUBSET Keys : edit_metadata(some, {}) \/ edit_metadata({}, some)
    \/ validate_metadata
    \/ \E some \in SUBSET PageIds : edit_outline(some)
    \/ \E order \in UNION {[1..n -> PageIds] : n \in DOMAIN pdf.pages} : keep_pages(order)
    \/ \E seal \in Seals : encrypt_pdf(seal) \/ set_pdf_permissions(seal)
    \/ \E password \in Passwords : decrypt_pdf(password)

Spec == Init /\ [][Next]_vars

-----------------------------------------------------------------------------
\* No edit leaves behind a reference to a field or an annotation that is gone,
\* where the program writes the form as an object of its own: inspecting,
\* filling, unlocking, signing and deleting fail on the first such reference.
ReferencesResolve == Resolves(pdf)

\* The lists that are objects of their own, which adding to them asks for.
Extensible(doc) ==
    {part \in {"files", "fields"} :
        IF part = "files" THEN doc.names.at = "ref" /\ doc.names.files = "ref" ELSE doc.form.at = "ref"}

Report(doc) ==
    [pages |-> doc.pages, files |-> read_attachment_reports(doc), fields |-> collect_form_fields(doc),
     signatures |-> discover_pdf_signature_dictionaries(doc), notes |-> inspect_annotations(doc),
     keys |-> read_metadata_entries(doc), outline |-> read_outline_tree(doc),
     extensible |-> Extensible(doc), seal |-> doc.seal]

Contract == INSTANCE DocumentReport WITH
    Reports <- {Report(doc) : doc \in Originals},
    pages <- pdf.pages, files <- read_attachment_reports(pdf),
    fields <- collect_form_fields(pdf), signatures <- discover_pdf_signature_dictionaries(pdf),
    notes <- inspect_annotations(pdf), keys <- read_metadata_entries(pdf),
    outline <- read_outline_tree(pdf), extensible <- Extensible(pdf), seal <- pdf.seal, done <- last

\* Every operator changes what the inspection operators report of its own part of
\* the document, and of no other part but where the contract says so: the form
\* takes all annotations along, removed annotations and pages the signatures that
\* only they refer to, and nothing is promised of a form that cannot be read.  An
\* attachment or a signature field is listed with the others where the file keeps
\* their list as an object of its own, and alone elsewhere.  A form is filled
\* wholly or not at all, a page takes only its own annotations along, and
\* encryption gives back what it was given.
ImplementsReport == Contract!Spec

\* An attachment that is added is listed afterwards, with those listed before.
AddedFilesAreListed ==
    [][LET before == read_attachment_reports(pdf)
           after == read_attachment_reports(pdf')
       IN  last'[1] = "add attachment" /\ edits' # edits /\ before.ok
              => after.ok /\ before.of \subseteq after.of]_vars
=============================================================================
