--------------------------- MODULE DocumentReport ---------------------------
(***************************************************************************)
(* What the document operators promise, in terms of what the inspection    *)
(* operators report: an edit changes the report it is about and leaves the *)
(* others alone.  No objects, references, name trees or passwords' keys.   *)
(*                                                                         *)
(* Where the program does less than one would ask of it the contract says  *)
(* so, and when: the attachments and the form are extended only where the  *)
(* file keeps them as objects of their own, and started anew elsewhere; a  *)
(* name that is taken makes the attachments unreadable, and a signature    *)
(* field deleted from a form that is no object of its own the form; with   *)
(* the form go all annotations.                                            *)
(***************************************************************************)
EXTENDS Naturals, Sequences, Functions

CONSTANTS Reports, Texts, Passwords, Keys, PageIds, Ids

VARIABLES
    pages,       \* the pages in order
    files,       \* names of attachments
    fields,      \* form fields: [id, kind, name, filled, readonly]
    signatures,  \* names of signed fields
    notes,       \* annotations: [page, id, name]
    keys,        \* keys of the Info dictionary
    outline,     \* pages that the outline names
    extensible,  \* which of "files" and "fields" an addition extends in place
    seal,        \* Open, or the owner's and the user's password
    done         \* the last edit

reportVars == <<pages, files, fields, signatures, notes, keys, outline, extensible, seal, done>>

\* A list that an operator reports, or fails to.
Readable(set) == [ok |-> TRUE, of |-> set]
Unreadable == [ok |-> FALSE, of |-> {}]
Without(report, set) == IF report.ok THEN Readable(report.of \ set) ELSE Unreadable
Named(report, name) == {x \in report.of : x.name = name}
Open == [owner |-> "", user |-> ""]

Init ==
    /\ \E r \in Reports :
         /\ pages = r.pages /\ files = r.files /\ fields = r.fields
         /\ signatures = r.signatures /\ notes = r.notes /\ keys = r.keys
         /\ outline = r.outline /\ extensible = r.extensible /\ seal = r.seal
    /\ done = <<"none">>

\* An encrypted document is opened by the security operators only.
Edit(op) == seal = Open /\ seal' = Open /\ done' = op

\* Nothing is promised of a form with a reference to a field that is gone.
KeepForm == fields.ok => UNCHANGED <<fields, signatures>>

-----------------------------------------------------------------------------
\* What is added to: nothing, where the list is started anew.
Extended(part, report) == IF part \in extensible THEN report ELSE Readable({})

\* An attachment under a name that is taken makes the list unreadable; any edit
\* of a list that cannot be read may make it readable.
AddAttachment(name) ==
    /\ Edit(<<"add attachment", name>>)
    /\ LET listed == Extended("files", files) IN
       IF listed.ok
       THEN files' = IF name \in listed.of THEN Unreadable ELSE Readable(listed.of \cup {name})
       ELSE files'.ok => name \in files'.of
    /\ extensible' = extensible \cup {"files"}
    /\ KeepForm /\ UNCHANGED <<pages, notes, keys, outline>>

DeleteAttachment(name) ==
    /\ Edit(<<"delete attachment", name>>)
    /\ files.ok => name \in files.of /\ files' = Without(files, {name})
    /\ files'.ok => name \notin files'.of
    /\ KeepForm /\ UNCHANGED <<pages, notes, keys, outline, extensible>>

-----------------------------------------------------------------------------
FillForm(names) ==
    /\ Edit(<<"fill form", names>>)
    /\ fields.ok => \E chosen \in SUBSET {f \in fields.of : f.kind = "Tx" /\ f.name \in names} :
         /\ {f.name : f \in chosen} = names
         /\ \A f, g \in chosen : f.name = g.name => f = g
         /\ fields' = Readable({IF f \in chosen THEN [f EXCEPT !.filled = TRUE] ELSE f : f \in fields.of})
    /\ fields.ok => UNCHANGED signatures
    /\ UNCHANGED <<pages, files, notes, keys, outline, extensible>>

UnlockForm ==
    /\ Edit(<<"unlock form">>) /\ fields.ok
    /\ fields' = Readable({[f EXCEPT !.readonly = FALSE] : f \in fields.of})
    /\ UNCHANGED <<pages, files, signatures, notes, keys, outline, extensible>>

\* The signatures that the form has a field for; others only a page refers to.
SignedFields == {f.name : f \in {g \in fields.of : g.kind = "Sig" /\ g.filled}}

\* With the form go the annotations of every page, its widgets or not.
FormGone ==
    fields' = Readable({}) /\ signatures' = Readable({}) /\ notes' = Readable({})
NotesGone ==
    /\ notes' = Readable({})
    /\ fields.ok => UNCHANGED fields /\ signatures' = Readable(SignedFields)
RemoveForm ==
    /\ Edit(<<"remove form">>) /\ FormGone /\ extensible' = extensible \ {"fields"}
    /\ UNCHANGED <<pages, files, keys, outline>>

RemoveInteractive(what) ==
    /\ Edit(<<"remove interactive", what>>)
    /\ IF "forms" \in what THEN FormGone
       ELSE IF "annotations" \in what THEN NotesGone
       ELSE KeepForm /\ UNCHANGED notes
    /\ files' = IF "embedded_files" \in what THEN Readable({}) ELSE files
    /\ extensible' = extensible \ {part \in {"files", "fields"} :
            IF part = "files" THEN "embedded_files" \in what ELSE "forms" \in what}
    /\ UNCHANGED <<pages, keys, outline>>

-----------------------------------------------------------------------------
\* The first signature of a document, on its first page.  Annotations that could
\* not be read may be readable afterwards: those of the first page are started
\* anew where they are an object of their own.
Sign(name) ==
    /\ Edit(<<"sign", name>>) /\ signatures = Readable({}) /\ fields.ok
    /\ \E field \in [id : Ids, kind : {"Sig"}, name : {name}, filled : {TRUE}, readonly : {FALSE}] :
         /\ \A f \in fields.of : f.id # field.id
         /\ fields' = Readable(Extended("fields", fields).of \cup {field})
         /\ LET note == [page |-> pages[1], id |-> field.id, name |-> ""] IN
            \/ notes' = IF notes.ok THEN Readable(notes.of \cup {note}) ELSE Unreadable
            \/ ~notes.ok /\ notes'.ok /\ note \in notes'.of
    /\ signatures' = Readable({name}) /\ extensible' = extensible \cup {"fields"}
    /\ UNCHANGED <<pages, files, keys, outline>>

\* Only `destructive` removes a signed field.  A form that is no object of its own
\* keeps a reference to the field, which may come to mean something else; a
\* signature of the same name that only a page refers to stays.
DeleteSignature(name, destructive) ==
    /\ Edit(<<"delete signature", name>>) /\ fields.ok
    /\ \E field \in Named(fields, name) :
         /\ field.kind = "Sig" /\ (field.filled => destructive)
         /\ \A f \in Named(fields, name) : f.kind = "Sig" => f = field
         /\ IF "fields" \in extensible THEN fields' = Without(fields, {field})
            ELSE fields'.ok => field \notin fields'.of /\ fields.of \ {field} \subseteq fields'.of
         /\ fields'.ok /\ signatures.ok
               => signatures'.ok /\ signatures.of \ {name} \subseteq signatures'.of
         /\ fields' = Without(fields, {field}) /\ signatures.ok
               => signatures' \in {signatures} \cup
                     (IF field.filled THEN {Without(signatures, {name})} ELSE {})
         /\ notes' = Without(notes, {n \in notes.of : n.id = field.id})
    /\ UNCHANGED <<pages, files, keys, outline, extensible>>

-----------------------------------------------------------------------------
AddNote(page, name) ==
    /\ Edit(<<"add note", page, name>>) /\ page \in Range(pages)
    /\ IF notes.ok
       THEN \E id \in Ids : /\ \A n \in notes.of : n.id # id
                            /\ notes' = Readable(notes.of \cup {[page |-> page, id |-> id, name |-> name]})
       ELSE UNCHANGED notes
    /\ KeepForm /\ UNCHANGED <<pages, files, keys, outline, extensible>>

DeleteNote(name) ==
    /\ Edit(<<"delete note", name>>) /\ notes.ok /\ Named(notes, name) # {}
    /\ notes' = Without(notes, Named(notes, name))
    /\ KeepForm /\ UNCHANGED <<pages, files, keys, outline, extensible>>

EditMetadata(added, removed) ==
    /\ Edit(<<"edit metadata", added, removed>>) /\ keys' = (keys \cup added) \ removed
    /\ KeepForm /\ UNCHANGED <<pages, files, notes, outline, extensible>>

SetOutline(some) ==
    /\ Edit(<<"set outline", some>>) /\ some \subseteq Range(pages) /\ outline' = Readable(some)
    /\ KeepForm /\ UNCHANGED <<pages, files, notes, keys, extensible>>

\* The pages kept keep their annotations, the form all its fields; an outline
\* that names a page which is gone cannot be read.
KeepPages(order) ==
    /\ Edit(<<"keep pages", order>>) /\ order # <<>> /\ Range(order) \subseteq Range(pages)
    /\ pages' = order
    /\ notes.ok => notes' = Without(notes, {n \in notes.of : n.page \notin Range(order)})
    /\ outline' = IF outline.of \subseteq Range(order) THEN outline ELSE Unreadable
    /\ fields.ok => /\ UNCHANGED fields
                    /\ signatures.ok => /\ signatures'.ok /\ SignedFields \subseteq signatures'.of
                                        /\ signatures'.of \subseteq signatures.of
    /\ UNCHANGED <<files, keys, extensible>>

-----------------------------------------------------------------------------
\* Sealing and unsealing change nothing else.  Who seals a sealed document anew
\* knows its owner's password, and does not change it.
Secure(op, before, after) ==
    /\ seal \in before /\ seal' = after /\ done' = op
    /\ KeepForm /\ UNCHANGED <<pages, files, notes, keys, outline, extensible>>

Seals == [owner : Passwords, user : Passwords]
Encrypt == \E s \in Seals : Secure(<<"encrypt">>, {Open}, s)
Decrypt == \E p \in Passwords : Secure(<<"decrypt", p>>, {s \in Seals : p \in {s.owner, s.user}}, Open)
SetPermissions ==
    \E s \in Seals : Secure(<<"set permissions">>, {Open} \cup [owner : {s.owner}, user : Passwords], s)

Next ==
    \/ \E name \in Texts :
          \/ AddAttachment(name) \/ DeleteAttachment(name)
          \/ Sign(name) \/ \E destructive \in BOOLEAN : DeleteSignature(name, destructive)
          \/ DeleteNote(name) \/ \E page \in PageIds : AddNote(page, name)
    \/ \E names \in SUBSET Texts : FillForm(names)
    \/ UnlockForm \/ RemoveForm
    \/ \E what \in SUBSET {"annotations", "forms", "actions", "javascript", "embedded_files"} :
          RemoveInteractive(what)
    \/ \E some \in SUBSET Keys : EditMetadata(some, {}) \/ EditMetadata({}, some)
    \/ \E some \in SUBSET PageIds : SetOutline(some)
    \/ \E order \in UNION {[1..n -> PageIds] : n \in DOMAIN pages} : KeepPages(order)
    \/ Encrypt \/ Decrypt \/ SetPermissions

Spec == Init /\ [][Next]_reportVars
=============================================================================
