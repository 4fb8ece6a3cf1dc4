--------------------------- MODULE DocumentProofs ---------------------------
(***************************************************************************)
(* Two results for any documents, any number of objects and any sequence   *)
(* of operators.  No operator leaves a reference to a field or an          *)
(* annotation that is gone in a form of its own object or in an array of a *)
(* page.  And every operator does to the reports of the inspection         *)
(* operators what DocumentReport says of it.                               *)
(*                                                                         *)
(* ReferencesResolve alone is not inductive: an update of a component says *)
(* nothing of a value that is no record with that component.  Shape adds    *)
(* what of the documents' type that argument needs; Typed adds what the    *)
(* refinement needs of pages, name trees and passwords.                    *)
(***************************************************************************)
EXTENDS Document, SequenceTheorems, WellFoundedInduction, TLAPS

Shape(doc) ==
    /\ doc = [pages |-> doc.pages, names |-> doc.names, form |-> doc.form, annots |-> doc.annots,
              objects |-> doc.objects, actions |-> doc.actions, info |-> doc.info,
              outline |-> doc.outline, seal |-> doc.seal]
    /\ doc.form \in Forms
    /\ doc.annots \in [PageIds -> Annots]
    /\ doc.objects \in [Ids -> Objects]
Sound(doc) == Shape(doc) /\ Resolves(doc)

\* Parsed documents are sound.
LEMMA OriginalsSound == ASSUME NEW doc \in Originals PROVE Sound(doc)
<1>1. doc \in Documents /\ Resolves(doc)
  BY DocumentAssumption
<1>2. Shape(doc)
  BY <1>1 DEF Documents, Shape
<1> QED
  BY <1>1, <1>2 DEF Sound

\* Pruning keeps what is referred to.
LEMMA PrunedSound ==
  ASSUME NEW doc, Sound(doc)
  PROVE  /\ Sound(Pruned(doc))
         /\ Pruned(doc).form = doc.form
         /\ doc.form.at # "inline" => Dangling(doc) = {}
<1> DEFINE kept == [i \in Ids |-> IF i \in Referenced(doc) THEN doc.objects[i] ELSE NoObject]
<1>a. kept \in [Ids -> Objects]
  BY DEF Sound, Shape, Objects, NoObject, Object
<1>b. Pruned(doc) = [doc EXCEPT !.objects = kept]
  BY DEF Pruned
<1>1. /\ Shape(Pruned(doc)) /\ Pruned(doc).form = doc.form
      /\ Pruned(doc).annots = doc.annots /\ Pruned(doc).pages = doc.pages
  <2> HIDE DEF kept
  <2> QED  BY <1>a, <1>b DEF Sound, Shape
<1>2. \A id \in Referenced(doc) \cap Live(doc) : id \in Live(Pruned(doc))
  BY DEF Sound, Shape, Pruned, Live
<1>3. doc.form.fields \subseteq Referenced(doc) /\ \A p \in PageIds : doc.annots[p].ids \subseteq Referenced(doc)
  BY DEF Referenced
<1>4. Resolves(Pruned(doc))
  BY <1>1, <1>2, <1>3 DEF Sound, Resolves
<1>5. doc.form.at # "inline" => Dangling(doc) = {}
  BY DEF Sound, Resolves, Dangling
<1> QED
  BY <1>1, <1>4, <1>5 DEF Sound

\* What is read back after an edit is sound if the edited document is.
LEMMA SavedSound ==
  ASSUME NEW doc, Sound(doc), NEW saved \in Saved(doc)
  PROVE  Sound(saved)
<1> DEFINE old == Pruned(doc)
<1>1. /\ Sound(old) /\ old.form = doc.form
      /\ doc.form.at # "inline" => Dangling(doc) = {}
  BY PrunedSound
<1>2. PICK some : /\ saved = [old EXCEPT !.form.fields = (@ \ Dangling(doc)) \cup some]
                  /\ some \subseteq Dangling(doc) \cup Live(old)
                  /\ Dangling(doc) = {} => some = {}
  BY DEF Saved
<1>3. old.form \in Forms /\ some \subseteq Ids
  BY <1>1, <1>2 DEF Sound, Shape, Dangling, Live, Forms
<1>4. /\ Shape(saved)
      /\ saved.annots = old.annots /\ saved.objects = old.objects /\ saved.pages = old.pages
      /\ saved.form.at = old.form.at
      /\ saved.form.fields = (old.form.fields \ Dangling(doc)) \cup some
  BY <1>1, <1>2, <1>3 DEF Sound, Shape, Forms
<1>5. Resolves(saved)
  BY <1>1, <1>2, <1>4 DEF Sound, Resolves, Live
<1> QED
  BY <1>4, <1>5 DEF Sound

-----------------------------------------------------------------------------
\* Edits of what holds no references to fields and annotations.
LEMMA EditsElsewhere ==
  ASSUME NEW doc, Sound(doc), NEW x
  PROVE  /\ Sound([doc EXCEPT !.names = x])
         /\ Sound([doc EXCEPT !.actions = x])
         /\ Sound([doc EXCEPT !.info = x])
         /\ Sound([doc EXCEPT !.outline = x])
         /\ Sound([doc EXCEPT !.seal = x])
  BY DEF Sound, Shape, Resolves, Live

LEMMA NameTreeEdits ==
  ASSUME NEW doc, Sound(doc)
  PROVE  /\ Sound(remove_javascript(doc))
         /\ Sound(remove_embedded_files(doc))
         /\ Sound(remove_actions(doc))
<1> DEFINE unscripted == [doc.names EXCEPT !.script = FALSE]
           emptied == [doc.names EXCEPT !.files = "none", !.entries = <<>>]
<1>1. remove_javascript(doc) = [doc EXCEPT !.names = unscripted]
  BY DEF remove_javascript
<1>2. remove_embedded_files(doc) = [doc EXCEPT !.names = emptied]
  BY DEF remove_embedded_files, Sound, Shape
<1> HIDE DEF unscripted, emptied
<1>3. Sound(remove_javascript(doc))
  BY <1>1 DEF Sound, Shape, Resolves, Live
<1>4. Sound(remove_embedded_files(doc))
  BY <1>2 DEF Sound, Shape, Resolves, Live
<1>5. Sound(remove_actions(doc))
  BY EditsElsewhere DEF remove_actions
<1> QED
  BY <1>3, <1>4, <1>5

\* A form or arrays of annotations that refer to what there is.
LEMMA FormSound ==
  ASSUME NEW doc, Sound(doc), NEW form \in Forms,
         form.at # "inline" => form.fields \subseteq Live(doc)
  PROVE  Sound([doc EXCEPT !.form = form])
  BY DEF Sound, Shape, Resolves, Live

LEMMA AnnotsSound ==
  ASSUME NEW doc, Sound(doc), NEW annots \in [PageIds -> Annots],
         \A p \in PageIds : p \in Range(doc.pages) /\ annots[p].at # "ref"
                               => annots[p].ids \subseteq Live(doc)
  PROVE  Sound([doc EXCEPT !.annots = annots])
  BY DEF Sound, Shape, Resolves, Live

LEMMA RemovalSound ==
  ASSUME NEW doc, Sound(doc)
  PROVE  Sound(remove_annotations(doc)) /\ Sound(remove_acroform(doc))
<1>1. ASSUME NEW d, Sound(d) PROVE Sound(remove_annotations(d))
  <2> DEFINE fewer == [p \in PageIds |-> IF p \in Range(d.pages) THEN NoAnnots ELSE d.annots[p]]
  <2>1. NoAnnots \in Annots /\ NoAnnots.ids = {}
    BY DEF NoAnnots, Annots, Places
  <2>2. fewer \in [PageIds -> Annots]
    BY <1>1, <2>1 DEF Sound, Shape
  <2>3. \A p \in PageIds : p \in Range(d.pages) => fewer[p].ids \subseteq Live(d)
    BY <1>1, <2>1 DEF Sound, Resolves
  <2>4. remove_annotations(d) = [d EXCEPT !.annots = fewer]
    BY DEF remove_annotations
  <2> HIDE DEF fewer
  <2> QED
    BY <1>1, <2>2, <2>3, <2>4, AnnotsSound
<1>2. NoForm \in Forms /\ NoForm.fields = {}
  BY DEF NoForm, Forms, Places
<1>3. Sound([doc EXCEPT !.form = NoForm])
  BY <1>2, FormSound
<1> QED
  BY <1>1, <1>3 DEF remove_acroform

\* Edits of objects that leave each what it is.
LEMMA ObjectsSound ==
  ASSUME NEW doc, Sound(doc), NEW changed \in [Ids -> Objects],
         \A id \in Ids : changed[id].kind = doc.objects[id].kind
  PROVE  Sound([doc EXCEPT !.objects = changed])
  BY DEF Sound, Shape, Resolves, Live

-----------------------------------------------------------------------------
LEMMA FillSound ==
  ASSUME Sound(pdf), NEW names \in SUBSET Texts, fill_form(names)
  PROVE  Sound(pdf')
<1> DEFINE changed(chosen) == [id \in Ids |-> [pdf.objects[id] EXCEPT !.filled = @ \/ id \in Range(chosen)]]
           flagged == [pdf EXCEPT !.form.need_appearances = @ \/ (names # {} /\ pdf.form.at # "none")]
<1>1. PICK chosen : pdf' \in Saved(With(flagged, changed(chosen)))
  BY DEF fill_form, Edit, Run, Write
<1>2. /\ changed(chosen) \in [Ids -> Objects]
      /\ \A id \in Ids : changed(chosen)[id].kind = pdf.objects[id].kind
  BY DEF Sound, Shape, Objects
<1>3. Sound(flagged) /\ flagged.objects = pdf.objects
  <2> DEFINE flag == pdf.form.need_appearances \/ (names # {} /\ pdf.form.at # "none")
             form == [pdf.form EXCEPT !.need_appearances = flag]
  <2>1. flag \in BOOLEAN
    OBVIOUS
  <2>2. form \in Forms /\ form.at = pdf.form.at /\ form.fields = pdf.form.fields
    <3> HIDE DEF flag
    <3> QED  BY <2>1 DEF Sound, Shape, Forms
  <2>3. Sound([pdf EXCEPT !.form = form])
    <3> HIDE DEF form
    <3> QED  BY <2>2, FormSound DEF Sound, Resolves
  <2>4. flagged = [pdf EXCEPT !.form = form]
    OBVIOUS
  <2>5. [pdf EXCEPT !.form = form].objects = pdf.objects
    BY DEF Sound, Shape
  <2> QED
    BY <2>3, <2>4, <2>5
<1>4. Sound(With(flagged, changed(chosen)))
  <2> HIDE DEF changed, flagged
  <2> QED  BY <1>2, <1>3, ObjectsSound DEF With
<1> QED
  BY <1>1, <1>4, SavedSound

LEMMA UnlockSound ==
  ASSUME Sound(pdf), unlock_form_readonly
  PROVE  Sound(pdf')
<1> DEFINE changed == [id \in Ids |-> [pdf.objects[id] EXCEPT !.readonly = @ /\ id \notin pdf.form.fields]]
<1>1. pdf' \in Saved(With(pdf, changed))
  BY DEF unlock_form_readonly, Edit, Run, Write
<1>2. changed \in [Ids -> Objects] /\ \A id \in Ids : changed[id].kind = pdf.objects[id].kind
  BY DEF Sound, Shape, Objects
<1>3. Sound(With(pdf, changed))
  <2> HIDE DEF changed
  <2> QED  BY <1>2, ObjectsSound DEF With
<1> QED
  BY <1>1, <1>3, SavedSound

\* Every removal is sound where it is asked for, and nothing is done elsewhere.
LEMMA InteractiveSound ==
  ASSUME Sound(pdf), NEW what, remove_interactive(what)
  PROVE  Sound(pdf')
<1> DEFINE after(doc, part, removed) == IF part \in what THEN removed ELSE doc
           annots == after(pdf, "annotations", remove_annotations(pdf))
           forms == after(annots, "forms", remove_acroform(annots))
           actions == after(forms, "actions", remove_actions(forms))
           script == after(actions, "javascript", remove_javascript(actions))
           files == after(script, "embedded_files", remove_embedded_files(script))
<1>1. pdf' \in Saved(files)
  BY DEF remove_interactive, Edit, Run, Write
<1>2. Sound(annots)
  BY RemovalSound
<1>3. Sound(forms)
  <2> HIDE DEF annots
  <2> QED  BY <1>2, RemovalSound
<1>4. Sound(actions)
  <2> HIDE DEF forms
  <2> QED  BY <1>3, NameTreeEdits
<1>5. Sound(script)
  <2> HIDE DEF actions
  <2> QED  BY <1>4, NameTreeEdits
<1>6. Sound(files)
  <2> HIDE DEF script
  <2> QED  BY <1>5, NameTreeEdits
<1> HIDE DEF files
<1> QED
  BY <1>1, <1>6, SavedSound

-----------------------------------------------------------------------------
\* The new field is there before the form and the page refer to it.
Signed(name, id) ==
    [pdf EXCEPT !.objects[id] = Object("Sig", name, TRUE),
                !.annots[pdf.pages[1]] = append_reference_to_page_annots(@, id),
                !.form = append_signature_field_to_acroform(@, id)]

LEMMA SignedSound ==
  ASSUME Sound(pdf), NEW name \in Texts, NEW id \in Ids \ Live(pdf)
  PROVE  /\ Sound(Signed(name, id)) /\ Live(Signed(name, id)) = Live(pdf) \cup {id}
         /\ Signed(name, id).objects = [pdf.objects EXCEPT ![id] = Object("Sig", name, TRUE)]
         /\ Signed(name, id).annots = [pdf.annots EXCEPT ![pdf.pages[1]] = append_reference_to_page_annots(@, id)]
         /\ Signed(name, id).form = append_signature_field_to_acroform(pdf.form, id)
         /\ Signed(name, id).pages = pdf.pages /\ Signed(name, id).names = pdf.names
         /\ Signed(name, id).info = pdf.info /\ Signed(name, id).outline = pdf.outline
         /\ Signed(name, id).seal = pdf.seal
<1> DEFINE first == pdf.pages[1]
           field == Object("Sig", name, TRUE)
           objects == [pdf.objects EXCEPT ![id] = field]
           added == [pdf EXCEPT !.objects = objects]
           annots == [pdf.annots EXCEPT ![first] = append_reference_to_page_annots(@, id)]
           form == append_signature_field_to_acroform(pdf.form, id)
           signed == [[added EXCEPT !.annots = annots] EXCEPT !.form = form]
<1>1. Signed(name, id) = signed
  BY DEF Signed, Sound, Shape
<1>2. /\ Sound(added) /\ Live(added) = Live(pdf) \cup {id} /\ added.pages = pdf.pages
      /\ added.form = pdf.form /\ added.annots = pdf.annots /\ added.objects = objects
      /\ added.names = pdf.names /\ added.info = pdf.info /\ added.outline = pdf.outline /\ added.seal = pdf.seal
  <2>1. field \in Objects /\ field.kind = "Sig"
    BY DEF Object, Objects
  <2>2. objects \in [Ids -> Objects] /\ objects[id].kind = "Sig"
        /\ \A i \in Ids : i # id => objects[i] = pdf.objects[i]
    <3> HIDE DEF field
    <3> QED  BY <2>1 DEF Sound, Shape
  <2>3. added = [pdf EXCEPT !.objects = objects]
    OBVIOUS
  <2> HIDE DEF objects, added
  <2>4. Shape(added) /\ added.form = pdf.form /\ added.annots = pdf.annots
        /\ added.objects = objects /\ added.pages = pdf.pages
        /\ added.names = pdf.names /\ added.info = pdf.info /\ added.outline = pdf.outline /\ added.seal = pdf.seal
    BY <2>2, <2>3 DEF Sound, Shape
  <2>5. Live(added) = Live(pdf) \cup {id}
    BY <2>2, <2>4 DEF Live
  <2>6. Sound(added)
    BY <2>4, <2>5 DEF Sound, Resolves
  <2> QED
    BY <2>4, <2>5, <2>6
<1>3. /\ annots \in [PageIds -> Annots]
      /\ \A p \in PageIds : p \in Range(added.pages) /\ annots[p].at # "ref"
                              => annots[p].ids \subseteq Live(added)
  <2>1. ASSUME NEW p \in PageIds
        PROVE  /\ append_reference_to_page_annots(pdf.annots[p], id) \in Annots
               /\ p \in Range(pdf.pages)
                    => append_reference_to_page_annots(pdf.annots[p], id).ids \subseteq Live(added)
    <3> HIDE DEF added
    <3> QED  BY <1>2 DEF Sound, Shape, Resolves, Annots, Places, append_reference_to_page_annots
  <2> HIDE DEF added
  <2> QED
    BY <1>2, <2>1 DEF Sound, Shape, Resolves
<1>4. form \in Forms /\ (form.at # "inline" => form.fields \subseteq Live(added))
  <2> HIDE DEF added
  <2> QED
    BY <1>2 DEF Sound, Shape, Resolves, Forms, NoForm, Places, append_signature_field_to_acroform
<1>5. Sound([added EXCEPT !.annots = annots])
  <2> HIDE DEF added, annots
  <2> QED  BY <1>2, <1>3, AnnotsSound
<1>6. Live([added EXCEPT !.annots = annots]) = Live(added)
  <2> HIDE DEF annots
  <2> QED  BY DEF Live, Sound, Shape
<1>7. Sound(signed)
  <2> HIDE DEF added, annots, form
  <2> QED  BY <1>4, <1>5, <1>6, FormSound
<1>8. /\ Live(signed) = Live(added) /\ signed.objects = added.objects /\ signed.annots = annots
      /\ signed.form = form /\ signed.pages = added.pages /\ signed.names = added.names
      /\ signed.info = added.info /\ signed.outline = added.outline /\ signed.seal = added.seal
  <2> HIDE DEF added, annots, form
  <2> QED  BY <1>2 DEF Sound, Shape, Live
<1> HIDE DEF signed, added, annots, form, objects, field
<1>9. /\ Sound(signed) /\ Live(signed) = Live(pdf) \cup {id} /\ signed.objects = objects /\ signed.annots = annots
      /\ signed.form = form /\ signed.pages = pdf.pages /\ signed.names = pdf.names
      /\ signed.info = pdf.info /\ signed.outline = pdf.outline /\ signed.seal = pdf.seal
  BY <1>2, <1>7, <1>8
<1> QED
  BY <1>1, <1>9, Zenon DEF objects, field, annots, form, first

LEMMA SignSound ==
  ASSUME Sound(pdf), NEW name \in Texts, add_pdf_signature(name)
  PROVE  Sound(pdf')
<1>1. PICK id \in Ids \ Live(pdf) : pdf' \in Saved(Signed(name, id))
  BY DEF add_pdf_signature, Edit, Run, Write, Signed
<1> QED
  BY <1>1, SignedSound, SavedSound

\* References go before the field does; those that stay refer to others.
Unsigned(id) == [remove_signature_field_references(pdf, id) EXCEPT !.objects[id] = NoObject]

LEMMA UnsignedSound ==
  ASSUME Sound(pdf), NEW id \in Ids
  PROVE  LET after == Unsigned(id)
         IN  /\ Sound(after) /\ Live(after) = Live(pdf) \ {id}
             /\ after.objects[id] = NoObject /\ \A i \in Ids : i # id => after.objects[i] = pdf.objects[i]
             /\ after.form.at = pdf.form.at
             /\ pdf.form.at = "ref" => after.form.fields = pdf.form.fields \ {id}
             /\ pdf.form.at # "ref" => after.form.fields = pdf.form.fields
             /\ after.annots = [p \in PageIds |-> IF p \in Range(pdf.pages) /\ pdf.annots[p].at = "inline"
                                                THEN WithoutNotes(pdf, p, {id}) ELSE pdf.annots[p]]
             /\ after.pages = pdf.pages /\ after.names = pdf.names /\ after.info = pdf.info
             /\ after.outline = pdf.outline /\ after.seal = pdf.seal
<1> DEFINE cut == remove_signature_field_references(pdf, id)
           after == [cut EXCEPT !.objects[id] = NoObject]
<1>2. NoObject \in Objects /\ NoObject.kind = "none"
  BY DEF NoObject, Object, Objects
<1>3. /\ Shape(cut) /\ cut.objects = pdf.objects /\ cut.pages = pdf.pages
      /\ cut.names = pdf.names /\ cut.info = pdf.info /\ cut.outline = pdf.outline /\ cut.seal = pdf.seal
      /\ cut.form.at = pdf.form.at
      /\ pdf.form.at = "ref" => cut.form.fields = pdf.form.fields \ {id}
      /\ pdf.form.at # "ref" => cut.form.fields = pdf.form.fields
      /\ cut.annots = [p \in PageIds |-> IF p \in Range(pdf.pages) /\ pdf.annots[p].at = "inline"
                                             THEN WithoutNotes(pdf, p, {id}) ELSE pdf.annots[p]]
  <2> DEFINE form == [pdf.form EXCEPT !.fields = IF pdf.form.at = "ref" THEN @ \ {id} ELSE @]
             annots == [p \in PageIds |-> IF p \in Range(pdf.pages) /\ pdf.annots[p].at = "inline"
                                         THEN WithoutNotes(pdf, p, {id}) ELSE pdf.annots[p]]
  <2>1. form \in Forms /\ form.at = pdf.form.at
        /\ form.fields = IF pdf.form.at = "ref" THEN pdf.form.fields \ {id} ELSE pdf.form.fields
    BY DEF Sound, Shape, Forms
  <2>2. annots \in [PageIds -> Annots]
    BY DEF Sound, Shape, Annots, WithoutNotes
  <2>3. cut = [pdf EXCEPT !.form = form, !.annots = annots]
    BY DEF remove_signature_field_references, Sound, Shape
  <2> HIDE DEF form, annots, cut
  <2>4. /\ Shape(cut) /\ cut.objects = pdf.objects /\ cut.pages = pdf.pages
        /\ cut.form = form /\ cut.annots = annots
        /\ cut.names = pdf.names /\ cut.info = pdf.info /\ cut.outline = pdf.outline /\ cut.seal = pdf.seal
    BY <2>1, <2>2, <2>3 DEF Sound, Shape
  <2> QED
    BY <2>1, <2>4 DEF annots
<1>4. /\ Shape(after) /\ after.form = cut.form
      /\ after.annots = cut.annots /\ after.pages = cut.pages
      /\ Live(after) = Live(pdf) \ {id}
      /\ after.objects[id] = NoObject /\ \A i \in Ids : i # id => after.objects[i] = pdf.objects[i]
      /\ after.names = cut.names /\ after.info = cut.info /\ after.outline = cut.outline /\ after.seal = cut.seal
  <2> DEFINE objects == [pdf.objects EXCEPT ![id] = NoObject]
  <2>1. /\ objects \in [Ids -> Objects] /\ objects[id].kind = "none" /\ objects[id] = NoObject
        /\ \A i \in Ids : i # id => objects[i] = pdf.objects[i]
    BY <1>2 DEF Sound, Shape
  <2>2. after = [cut EXCEPT !.objects = objects]
    <3> HIDE DEF cut
    <3> QED  BY <1>3
  <2> HIDE DEF objects, after, cut
  <2>3. /\ Shape(after) /\ after.form = cut.form /\ after.objects = objects
        /\ after.annots = cut.annots /\ after.pages = cut.pages
        /\ after.names = cut.names /\ after.info = cut.info /\ after.outline = cut.outline /\ after.seal = cut.seal
    BY <1>3, <2>1, <2>2 DEF Shape
  <2>4. Live(after) = Live(pdf) \ {id}
    BY <2>1, <2>3 DEF Live
  <2> QED
    BY <2>1, <2>3, <2>4
<1> HIDE DEF cut, after
<1>5. ASSUME after.form.at # "inline" PROVE after.form.fields \subseteq Live(after)
  <2>1. CASE pdf.form.at = "ref"
    BY <1>3, <1>4, <2>1 DEF Sound, Resolves
  <2>2. CASE pdf.form.at = "none"
    BY <1>3, <1>4, <2>2 DEF Sound, Shape, Forms
  <2> QED
    BY <1>3, <1>4, <1>5, <2>1, <2>2 DEF Sound, Shape, Forms, Places
<1>6. ASSUME NEW p \in PageIds, p \in Range(after.pages), after.annots[p].at # "ref"
      PROVE  after.annots[p].ids \subseteq Live(after)
  <2>1. pdf.annots[p] \in Annots /\ p \in Range(pdf.pages)
    BY <1>3, <1>4, <1>6 DEF Sound, Shape
  <2>2. CASE pdf.annots[p].at = "inline"
    <3>1. after.annots[p].ids = pdf.annots[p].ids \ {id}
      BY <1>3, <1>4, <2>1, <2>2 DEF WithoutNotes, Annots
    <3> QED
      BY <1>4, <2>1, <2>2, <3>1 DEF Sound, Resolves
  <2>3. CASE pdf.annots[p].at # "inline"
    BY <1>3, <1>4, <1>6, <2>1, <2>3 DEF Annots, Places
  <2> QED
    BY <2>2, <2>3
<1>7. Sound(after)
  BY <1>4, <1>5, <1>6 DEF Sound, Resolves
<1>8. /\ Sound(after) /\ Live(after) = Live(pdf) \ {id}
      /\ after.objects[id] = NoObject /\ \A i \in Ids : i # id => after.objects[i] = pdf.objects[i]
      /\ after.form.at = pdf.form.at
      /\ pdf.form.at = "ref" => after.form.fields = pdf.form.fields \ {id}
      /\ pdf.form.at # "ref" => after.form.fields = pdf.form.fields
      /\ after.annots = [p \in PageIds |-> IF p \in Range(pdf.pages) /\ pdf.annots[p].at = "inline"
                                         THEN WithoutNotes(pdf, p, {id}) ELSE pdf.annots[p]]
      /\ after.pages = pdf.pages /\ after.names = pdf.names /\ after.info = pdf.info
      /\ after.outline = pdf.outline /\ after.seal = pdf.seal
  BY <1>3, <1>4, <1>7
<1> QED
  BY <1>8, Zenon DEF after, cut, Unsigned

LEMMA DeleteSignatureSound ==
  ASSUME Sound(pdf), NEW name \in Texts, NEW destructive, delete_pdf_signature_field(name, destructive)
  PROVE  Sound(pdf')
<1>1. PICK id \in Ids : pdf' \in Saved(Unsigned(id))
  BY DEF delete_pdf_signature_field, Edit, Run, Write, FieldsNamed, Live, Unsigned
<1>2. Sound(Unsigned(id))
  BY UnsignedSound
<1> QED
  BY <1>1, <1>2, SavedSound

-----------------------------------------------------------------------------
\* The note is there before its page refers to it.
Noted(page, name, id) ==
    [pdf EXCEPT !.objects[id] = Object("Text", name, FALSE),
                !.annots[page] = [at |-> "inline", ids |-> @.ids \cup {id}]]

\* The note is on its page, and nothing else has changed.
OnItsPage(doc, page, name, id) ==
    /\ doc.pages = pdf.pages /\ doc.form = pdf.form /\ Live(doc) = Live(pdf) \cup {id}
    /\ doc.objects[id] = Object("Text", name, FALSE)
    /\ \A i \in Ids : i # id => doc.objects[i] = pdf.objects[i]
    /\ \A p \in PageIds : /\ p = page => doc.annots[p] = [at |-> "inline", ids |-> pdf.annots[p].ids \cup {id}]
                          /\ p # page => doc.annots[p] = pdf.annots[p]

LEMMA NotedSound ==
  ASSUME Sound(pdf), NEW page \in PageIds, page \in Range(pdf.pages), pdf.annots[page].at # "ref",
         NEW name \in Texts, NEW id \in Ids \ Live(pdf), NEW doc, doc = Noted(page, name, id)
  PROVE  /\ Sound(doc) /\ OnItsPage(doc, page, name, id)
         /\ doc.names = pdf.names /\ doc.info = pdf.info /\ doc.outline = pdf.outline /\ doc.seal = pdf.seal
<1> DEFINE note == Object("Text", name, FALSE)
           objects == [pdf.objects EXCEPT ![id] = note]
           added == [pdf EXCEPT !.objects = objects]
           annots == [pdf.annots EXCEPT ![page] = [at |-> "inline", ids |-> @.ids \cup {id}]]
           noted == [added EXCEPT !.annots = annots]
<1>1. doc = noted
  BY DEF Noted, Sound, Shape
<1>2. note \in Objects /\ note.kind = "Text"
  BY DEF Object, Objects
<1> HIDE DEF note
<1>3. /\ objects \in [Ids -> Objects] /\ objects[id] = note /\ objects[id].kind = "Text"
      /\ \A i \in Ids : i # id => objects[i] = pdf.objects[i]
  BY <1>2 DEF Sound, Shape
<1> HIDE DEF objects
<1>4. /\ Sound(added) /\ Live(added) = Live(pdf) \cup {id} /\ added.pages = pdf.pages
      /\ added.form = pdf.form /\ added.annots = pdf.annots /\ added.objects = objects
      /\ added.names = pdf.names /\ added.info = pdf.info /\ added.outline = pdf.outline /\ added.seal = pdf.seal
  <2>1. /\ Shape(added) /\ added.form = pdf.form /\ added.annots = pdf.annots
        /\ added.objects = objects /\ added.pages = pdf.pages
        /\ added.names = pdf.names /\ added.info = pdf.info /\ added.outline = pdf.outline /\ added.seal = pdf.seal
    BY <1>3 DEF Sound, Shape
  <2> HIDE DEF added
  <2>2. Live(added) = Live(pdf) \cup {id}
    BY <1>3, <2>1 DEF Live
  <2> QED
    BY <2>1, <2>2 DEF Sound, Resolves
<1>5. /\ annots \in [PageIds -> Annots]
      /\ \A p \in PageIds : p \in Range(added.pages) /\ annots[p].at # "ref"
                              => annots[p].ids \subseteq Live(added)
  <2>1. pdf.annots[page].ids \subseteq Live(pdf) /\ [at |-> "inline", ids |-> pdf.annots[page].ids \cup {id}] \in Annots
    BY DEF Sound, Shape, Resolves, Annots, Places
  <2> HIDE DEF added
  <2> QED
    BY <1>4, <2>1 DEF Sound, Shape, Resolves
<1>6. Sound(noted)
  <2> HIDE DEF added, annots
  <2> QED  BY <1>4, <1>5, AnnotsSound
<1>7. /\ Live(noted) = Live(added) /\ noted.objects = added.objects /\ noted.annots = annots
      /\ noted.form = added.form /\ noted.pages = added.pages /\ noted.names = added.names
      /\ noted.info = added.info /\ noted.outline = added.outline /\ noted.seal = added.seal
  <2> HIDE DEF added, annots
  <2> QED  BY <1>4 DEF Sound, Shape, Live
<1> HIDE DEF noted, added, annots
<1>8. \A p \in PageIds : /\ p = page => annots[p] = [at |-> "inline", ids |-> pdf.annots[p].ids \cup {id}]
                         /\ p # page => annots[p] = pdf.annots[p]
  BY DEF annots, Sound, Shape
<1>9. OnItsPage(noted, page, name, id)
  <2>1. /\ noted.pages = pdf.pages /\ noted.form = pdf.form /\ Live(noted) = Live(pdf) \cup {id}
        /\ noted.objects = objects /\ noted.annots = annots
    BY <1>4, <1>7
  <2>2. noted.objects[id] = note /\ \A i \in Ids : i # id => noted.objects[i] = pdf.objects[i]
    BY <1>3, <2>1
  <2>3. \A p \in PageIds : /\ p = page => noted.annots[p] = [at |-> "inline", ids |-> pdf.annots[p].ids \cup {id}]
                           /\ p # page => noted.annots[p] = pdf.annots[p]
    BY <1>8, <2>1
  <2> QED
    BY <2>1, <2>2, <2>3 DEF OnItsPage, note
<1> QED
  BY <1>1, <1>4, <1>6, <1>7, <1>9

LEMMA AddNoteSound ==
  ASSUME Sound(pdf), NEW page \in PageIds, NEW name \in Texts, add_text_annotation(page, name)
  PROVE  Sound(pdf')
<1>1. page \in Range(pdf.pages) /\ pdf.annots[page].at # "ref"
  BY DEF add_text_annotation
<1>2. PICK id \in Ids \ Live(pdf) : pdf' \in Saved(Noted(page, name, id))
  BY DEF add_text_annotation, Edit, Run, Write, Noted
<1> QED
  BY <1>1, <1>2, NotedSound, SavedSound

Unnoted(gone) ==
    [pdf EXCEPT !.annots = [p \in PageIds |->
        IF p \in Range(pdf.pages) THEN WithoutNotes(pdf, p, gone) ELSE pdf.annots[p]]]

\* The notes are on no page any more, and nothing else has changed.
OffTheirPages(doc, gone) ==
    /\ doc.pages = pdf.pages /\ doc.form = pdf.form /\ doc.objects = pdf.objects
    /\ \A p \in PageIds : p \in Range(pdf.pages) => /\ doc.annots[p].at = pdf.annots[p].at
                                                    /\ doc.annots[p].ids = pdf.annots[p].ids \ gone
    /\ doc.names = pdf.names /\ doc.info = pdf.info /\ doc.outline = pdf.outline /\ doc.seal = pdf.seal

LEMMA UnnotedSound ==
  ASSUME Sound(pdf), NEW gone, NEW doc, doc = Unnoted(gone)
  PROVE  Sound(doc) /\ OffTheirPages(doc, gone)
<1> DEFINE annots == [p \in PageIds |-> IF p \in Range(pdf.pages) THEN WithoutNotes(pdf, p, gone)
                                        ELSE pdf.annots[p]]
<1>1. doc = [pdf EXCEPT !.annots = annots]
  BY DEF Unnoted
<1>2. /\ annots \in [PageIds -> Annots]
      /\ \A p \in PageIds : p \in Range(pdf.pages) => annots[p].at = pdf.annots[p].at
                                                 /\ annots[p].ids = pdf.annots[p].ids \ gone
  BY DEF Sound, Shape, Annots, WithoutNotes
<1> HIDE DEF annots
<1>3. \A p \in PageIds : p \in Range(pdf.pages) /\ annots[p].at # "ref" => annots[p].ids \subseteq Live(pdf)
  BY <1>2 DEF Sound, Resolves
<1>4. Sound(doc)
  BY <1>1, <1>2, <1>3, AnnotsSound
<1>5. /\ doc.pages = pdf.pages /\ doc.form = pdf.form /\ doc.objects = pdf.objects /\ doc.annots = annots
      /\ doc.names = pdf.names /\ doc.info = pdf.info /\ doc.outline = pdf.outline /\ doc.seal = pdf.seal
  BY <1>1 DEF Sound, Shape
<1> QED
  BY <1>2, <1>4, <1>5 DEF OffTheirPages

LEMMA DeleteNoteSound ==
  ASSUME Sound(pdf), NEW name \in Texts, delete_annotation(name)
  PROVE  Sound(pdf')
<1> DEFINE doc == Unnoted({id \in Annotated(pdf) : NoteName(pdf, id) = name})
<1>1. pdf' \in Saved(doc)
  BY DEF delete_annotation, Edit, Run, Write, Unnoted
<1>2. Sound(doc)
  BY UnnotedSound
<1> HIDE DEF doc
<1> QED
  BY <1>1, <1>2, SavedSound

\* The pages that stay keep their arrays.
WithPages(order) ==
    [pdf EXCEPT !.pages = order,
                !.annots = [p \in PageIds |-> IF p \in Range(order) THEN @[p] ELSE NoAnnots]]
CutTo(doc, order) ==
    /\ doc.pages = order /\ doc.form = pdf.form /\ doc.objects = pdf.objects
    /\ \A p \in PageIds : p \in Range(order) => doc.annots[p] = pdf.annots[p]
    /\ doc.names = pdf.names /\ doc.info = pdf.info /\ doc.outline = pdf.outline /\ doc.seal = pdf.seal

LEMMA WithPagesSound ==
  ASSUME Sound(pdf), NEW order, Range(order) \subseteq Range(pdf.pages), NEW doc, doc = WithPages(order)
  PROVE  Sound(doc) /\ CutTo(doc, order)
<1> DEFINE annots == [p \in PageIds |-> IF p \in Range(order) THEN pdf.annots[p] ELSE NoAnnots]
<1>1. doc = [pdf EXCEPT !.pages = order, !.annots = annots]
  BY DEF WithPages, Sound, Shape
<1>2. annots \in [PageIds -> Annots] /\ \A p \in PageIds : p \in Range(order) => annots[p] = pdf.annots[p]
  BY DEF Sound, Shape, Annots, NoAnnots, Places
<1> HIDE DEF annots
<1>3. /\ Shape(doc) /\ doc.form = pdf.form /\ doc.objects = pdf.objects
      /\ doc.annots = annots /\ doc.pages = order
      /\ doc.names = pdf.names /\ doc.info = pdf.info /\ doc.outline = pdf.outline /\ doc.seal = pdf.seal
  BY <1>1, <1>2 DEF Sound, Shape
<1>4. Sound(doc)
  BY <1>2, <1>3 DEF Sound, Resolves, Live
<1> QED
  BY <1>2, <1>3, <1>4 DEF CutTo

LEMMA KeepPagesSound ==
  ASSUME Sound(pdf), NEW order, keep_pages(order)
  PROVE  Sound(pdf')
<1> DEFINE doc == WithPages(order)
<1>1. pdf' \in Saved(doc) /\ Range(order) \subseteq Range(pdf.pages)
  BY DEF keep_pages, Edit, Run, Write, WithPages
<1>2. Sound(doc)
  BY <1>1, WithPagesSound
<1> HIDE DEF doc
<1> QED
  BY <1>1, <1>2, SavedSound

\* The operators on the rest of the document.
LEMMA ElsewhereSound ==
  ASSUME Sound(pdf),
         \/ \E name \in Texts : add_attachment(name) \/ delete_attachment(name)
         \/ \E added, removed : edit_metadata(added, removed)
         \/ validate_metadata
         \/ \E some : edit_outline(some)
         \/ \E seal : encrypt_pdf(seal) \/ set_pdf_permissions(seal)
         \/ \E password : decrypt_pdf(password)
  PROVE  Sound(pdf')
<1>1. \/ pdf' \in Saved(pdf) \/ pdf' = [pdf EXCEPT !.seal = Open]
      \/ \E x : \/ pdf' \in Saved([pdf EXCEPT !.names = x])
               \/ pdf' \in Saved([pdf EXCEPT !.info = x])
               \/ pdf' \in Saved([pdf EXCEPT !.outline = x])
               \/ pdf' \in Saved([pdf EXCEPT !.seal = x])
  <2>1. CASE \E name \in Texts : add_attachment(name)
    BY <2>1 DEF add_attachment, Edit, Run, Write
  <2>2. CASE \E name \in Texts : delete_attachment(name)
    BY <2>2 DEF delete_attachment, Edit, Run, Write
  <2>3. CASE \E added, removed : edit_metadata(added, removed)
    BY <2>3 DEF edit_metadata, Edit, Run, Write
  <2>4. CASE validate_metadata \/ \E some : edit_outline(some)
    BY <2>4 DEF validate_metadata, edit_outline, Edit, Run, Write
  <2>5. CASE \E seal : encrypt_pdf(seal) \/ set_pdf_permissions(seal)
    BY <2>5 DEF encrypt_pdf, set_pdf_permissions, Run, Write
  <2>6. CASE \E password : decrypt_pdf(password)
    BY <2>6 DEF decrypt_pdf, Write
  <2> QED
    BY <2>1, <2>2, <2>3, <2>4, <2>5, <2>6
<1>2. CASE pdf' \in Saved(pdf) \/ pdf' = [pdf EXCEPT !.seal = Open]
  BY <1>2, SavedSound, EditsElsewhere
<1>3. ASSUME NEW x,
             \/ pdf' \in Saved([pdf EXCEPT !.names = x]) \/ pdf' \in Saved([pdf EXCEPT !.info = x])
             \/ pdf' \in Saved([pdf EXCEPT !.outline = x]) \/ pdf' \in Saved([pdf EXCEPT !.seal = x])
      PROVE  Sound(pdf')
  BY <1>3, EditsElsewhere, SavedSound
<1> QED
  BY <1>1, <1>2, <1>3

LEMMA StepSound == ASSUME Sound(pdf), [Next]_vars PROVE Sound(pdf')
<1>1. CASE UNCHANGED vars
  BY <1>1 DEF vars
<1>2. ASSUME NEW name \in Texts, add_pdf_signature(name) PROVE Sound(pdf')
  BY <1>2, SignSound
<1>3. ASSUME NEW name \in Texts, NEW destructive \in BOOLEAN, delete_pdf_signature_field(name, destructive)
      PROVE  Sound(pdf')
  BY <1>3, DeleteSignatureSound
<1>4. ASSUME NEW name \in Texts, NEW page \in PageIds, add_text_annotation(page, name) PROVE Sound(pdf')
  BY <1>4, AddNoteSound
<1>5. ASSUME NEW name \in Texts, delete_annotation(name) PROVE Sound(pdf')
  BY <1>5, DeleteNoteSound
<1>6. ASSUME NEW names \in SUBSET Texts, fill_form(names) PROVE Sound(pdf')
  BY <1>6, FillSound
<1>7. CASE unlock_form_readonly
  BY <1>7, UnlockSound
<1>8. CASE remove_forms
  <2>1. pdf' \in Saved(remove_acroform(pdf))
    BY <1>8 DEF remove_forms, Edit, Run, Write
  <2> QED
    BY <2>1, RemovalSound, SavedSound
<1>9. ASSUME NEW what, remove_interactive(what) PROVE Sound(pdf')
  BY <1>9, InteractiveSound
<1>10. ASSUME NEW order, keep_pages(order) PROVE Sound(pdf')
  BY <1>10, KeepPagesSound
<1> QED
  BY <1>1, <1>2, <1>3, <1>4, <1>5, <1>6, <1>7, <1>8, <1>9, <1>10, ElsewhereSound DEF Next

-----------------------------------------------------------------------------
\* Whatever documents it starts from and whatever operators run on them, the
\* program leaves no form of its own object and no page with a reference to a
\* field or an annotation that is gone.
THEOREM ReferencesAlwaysResolve == Spec => []ReferencesResolve
<1>1. Init => Sound(pdf)
  BY OriginalsSound DEF Init
<1>2. Sound(pdf) /\ [Next]_vars => Sound(pdf)'
  <2> SUFFICES ASSUME Sound(pdf), [Next]_vars PROVE Sound(pdf')
    BY DEF Sound, Shape, Resolves, Live
  <2> QED
    BY StepSound
<1>3. Sound(pdf) => ReferencesResolve
  BY DEF Sound, ReferencesResolve
<1> QED
  BY <1>1, <1>2, <1>3, PTL DEF Spec

-----------------------------------------------------------------------------
(* The operators as DocumentReport sees them.                                *)

Typed(doc) ==
    /\ doc.pages \in Seq(PageIds)
    /\ doc.names \in NameTrees
    /\ doc.seal \in {seal \in Seals : seal.owner = "" <=> seal.user = ""}
Whole(doc) == Sound(doc) /\ Typed(doc)

\* What there is to report, readable or not.
Fields(doc) == {FieldReport(doc, id) : id \in {i \in doc.form.fields : IsField(doc, i)}}
Signatures(doc) == {doc.objects[id].name : id \in {i \in doc.form.fields \cup Annotated(doc) : IsSigned(doc, i)}}
Notes(doc) == UNION {{NoteReport(doc, p, id) : id \in doc.annots[p].ids} : p \in Range(doc.pages)}

LEMMA PagesTyped == ASSUME NEW doc, Whole(doc) PROVE Range(doc.pages) \subseteq PageIds
<1>1. doc.pages \in Seq(PageIds)
  BY DEF Whole, Typed
<1> QED
  BY <1>1 DEF Range

LEMMA NotesIn ==
  ASSUME NEW doc, NEW n
  PROVE  n \in Notes(doc) <=> \E p \in Range(doc.pages) : \E id \in doc.annots[p].ids : n = NoteReport(doc, p, id)
  BY DEF Notes

LEMMA AnnotatedLive == ASSUME NEW doc, Whole(doc) PROVE Annotated(doc) \subseteq Live(doc)
  BY PagesTyped DEF Annotated, Whole, Sound, Resolves

\* The signatures are as readable as the fields: notes never stand in their way.
LEMMA Reported ==
  ASSUME NEW doc, Whole(doc)
  PROVE  /\ Dangling(doc) = {} =>
              /\ collect_form_fields(doc) = Contract!Readable(Fields(doc))
              /\ discover_pdf_signature_dictionaries(doc) = Contract!Readable(Signatures(doc))
         /\ Dangling(doc) # {} =>
              /\ collect_form_fields(doc) = Contract!Unreadable
              /\ discover_pdf_signature_dictionaries(doc) = Contract!Unreadable
         /\ AnnotationArrays(doc) => inspect_annotations(doc) = Contract!Readable(Notes(doc))
         /\ ~AnnotationArrays(doc) => inspect_annotations(doc) = Contract!Unreadable
<1>1. doc.form.fields \cup Annotated(doc) \subseteq Live(doc) <=> Dangling(doc) = {}
  BY AnnotatedLive DEF Dangling
<1>2. CASE Dangling(doc) = {}
  <2>1. collect_form_fields(doc) = Contract!Readable(Fields(doc))
    BY <1>2 DEF collect_form_fields, Fields, Contract!Readable
  <2>2. discover_pdf_signature_dictionaries(doc) = Contract!Readable(Signatures(doc))
    BY <1>1, <1>2 DEF discover_pdf_signature_dictionaries, Signatures, Contract!Readable
  <2> QED
    BY <1>2, <2>1, <2>2 DEF inspect_annotations, Notes, Contract!Readable, Contract!Unreadable
<1>3. CASE Dangling(doc) # {}
  <2>1. collect_form_fields(doc) = Contract!Unreadable
    BY <1>3 DEF collect_form_fields, Contract!Unreadable
  <2>2. discover_pdf_signature_dictionaries(doc) = Contract!Unreadable
    BY <1>1, <1>3 DEF discover_pdf_signature_dictionaries, Contract!Unreadable
  <2> QED
    BY <1>3, <2>1, <2>2 DEF inspect_annotations, Notes, Contract!Readable, Contract!Unreadable
<1> QED
  BY <1>2, <1>3

\* What is read back after an edit, component by component.
LEMMA SavedFields ==
  ASSUME NEW doc, Sound(doc), NEW saved \in Saved(doc)
  PROVE  /\ saved.pages = doc.pages /\ saved.names = doc.names /\ saved.annots = doc.annots
         /\ saved.info = doc.info /\ saved.outline = doc.outline /\ saved.seal = doc.seal
         /\ saved.form.at = doc.form.at
         /\ \A i \in Ids : saved.objects[i] = IF i \in Referenced(doc) THEN doc.objects[i] ELSE NoObject
         /\ Dangling(doc) = {} => saved.form.fields = doc.form.fields
         /\ \E some \in SUBSET (Dangling(doc) \cup Live(saved)) :
              saved.form.fields = (doc.form.fields \ Dangling(doc)) \cup some
<1> DEFINE kept == [i \in Ids |-> IF i \in Referenced(doc) THEN doc.objects[i] ELSE NoObject]
           old == Pruned(doc)
<1>1. old = [doc EXCEPT !.objects = kept]
  BY DEF Pruned
<1>2. PICK some : /\ saved = [old EXCEPT !.form.fields = (@ \ Dangling(doc)) \cup some]
                  /\ some \subseteq Dangling(doc) \cup Live(old)
                  /\ Dangling(doc) = {} => some = {}
  BY DEF Saved
<1>3. old.form \in Forms /\ Sound(old) /\ old.form = doc.form
  BY PrunedSound DEF Sound, Shape
<1> HIDE DEF old, kept
<1>4. /\ saved.pages = old.pages /\ saved.names = old.names /\ saved.annots = old.annots
      /\ saved.info = old.info /\ saved.outline = old.outline /\ saved.seal = old.seal
      /\ saved.objects = old.objects /\ saved.form.fields = (old.form.fields \ Dangling(doc)) \cup some
      /\ saved.form.at = old.form.at
  BY <1>2, <1>3 DEF Sound, Shape, Forms
<1>5. /\ old.pages = doc.pages /\ old.names = doc.names /\ old.annots = doc.annots
      /\ old.info = doc.info /\ old.outline = doc.outline /\ old.seal = doc.seal
      /\ old.objects = kept
  BY <1>1 DEF Sound, Shape
<1>6. \A i \in Ids : saved.objects[i] = IF i \in Referenced(doc) THEN doc.objects[i] ELSE NoObject
  BY <1>4, <1>5 DEF kept
<1>7. Live(old) = Live(saved)
  BY <1>4 DEF Live
<1>8. Dangling(doc) = {} => saved.form.fields = doc.form.fields
  BY <1>2, <1>3, <1>4
<1>9. some \in SUBSET (Dangling(doc) \cup Live(saved))
      /\ saved.form.fields = (doc.form.fields \ Dangling(doc)) \cup some
  BY <1>2, <1>3, <1>4, <1>7
<1> QED
  BY <1>3, <1>4, <1>5, <1>6, <1>8, <1>9

\* Two documents that the inspection operators tell apart nowhere, except that
\* of a form with a dangling reference nothing is said.
Alike(new, doc) ==
    /\ new.pages = doc.pages /\ new.seal = doc.seal /\ Extensible(new) = Extensible(doc)
    /\ read_attachment_reports(new) = read_attachment_reports(doc)
    /\ inspect_annotations(new) = inspect_annotations(doc)
    /\ read_metadata_entries(new) = read_metadata_entries(doc)
    /\ read_outline_tree(new) = read_outline_tree(doc)
    /\ Dangling(doc) = {} =>
         /\ Dangling(new) = {}
         /\ collect_form_fields(new) = collect_form_fields(doc)
         /\ discover_pdf_signature_dictionaries(new) = discover_pdf_signature_dictionaries(doc)

\* What is extended in place lies with the name tree and the form alone.
LEMMA SameExtensible ==
  ASSUME NEW new, NEW doc, new.names = doc.names, new.form.at = doc.form.at
  PROVE  Extensible(new) = Extensible(doc)
  BY DEF Extensible

LEMMA SavedAlike ==
  ASSUME NEW doc, Whole(doc), NEW saved \in Saved(doc)
  PROVE  Whole(saved) /\ Alike(saved, doc)
<1>1. /\ saved.pages = doc.pages /\ saved.names = doc.names /\ saved.annots = doc.annots
      /\ saved.info = doc.info /\ saved.outline = doc.outline /\ saved.seal = doc.seal
      /\ saved.form.at = doc.form.at
      /\ \A i \in Ids : saved.objects[i] = IF i \in Referenced(doc) THEN doc.objects[i] ELSE NoObject
      /\ Dangling(doc) = {} => saved.form.fields = doc.form.fields
  BY SavedFields DEF Whole
<1>2. Whole(saved)
  BY <1>1, SavedSound DEF Whole, Typed
<1>3. Range(doc.pages) \subseteq PageIds
  BY PagesTyped
<1>4. \A p \in Range(doc.pages) : \A id \in doc.annots[p].ids : id \in Ids /\ saved.objects[id] = doc.objects[id]
  BY <1>1, <1>3 DEF Whole, Sound, Shape, Annots, Referenced
<1>5. \A id \in doc.form.fields : id \in Ids /\ saved.objects[id] = doc.objects[id]
  BY <1>1 DEF Whole, Sound, Shape, Forms, Referenced
<1>6. inspect_annotations(saved) = inspect_annotations(doc)
  <2>1. AnnotationArrays(saved) <=> AnnotationArrays(doc)
    BY <1>1 DEF AnnotationArrays
  <2>2. \A p \in Range(doc.pages) : \A id \in doc.annots[p].ids : NoteReport(saved, p, id) = NoteReport(doc, p, id)
    BY <1>4 DEF NoteReport, NoteName
  <2>3. Notes(saved) = Notes(doc)
    BY <1>1, <2>2 DEF Notes
  <2> QED
    BY <1>2, <2>1, <2>3, Reported
<1>7. ASSUME Dangling(doc) = {}
      PROVE  /\ Dangling(saved) = {}
             /\ collect_form_fields(saved) = collect_form_fields(doc)
             /\ discover_pdf_signature_dictionaries(saved) = discover_pdf_signature_dictionaries(doc)
  <2>1. saved.form.fields = doc.form.fields
    BY <1>1, <1>7
  <2>2. Dangling(saved) = {}
    BY <1>5, <1>7, <2>1 DEF Dangling, Live
  <2>3. \A id \in doc.form.fields : /\ IsField(saved, id) <=> IsField(doc, id)
                                    /\ FieldReport(saved, id) = FieldReport(doc, id)
    BY <1>5 DEF IsField, FieldReport
  <2>4. Fields(saved) = Fields(doc)
    BY <2>1, <2>3 DEF Fields
  <2>5. Annotated(saved) = Annotated(doc)
    BY <1>1 DEF Annotated
  <2>6. \A id \in doc.form.fields \cup Annotated(doc) : saved.objects[id] = doc.objects[id]
    BY <1>4, <1>5 DEF Annotated
  <2>7. Signatures(saved) = Signatures(doc)
    BY <2>1, <2>5, <2>6 DEF Signatures, IsSigned
  <2> QED
    BY <1>2, <1>7, <2>2, <2>4, <2>7, Reported
<1>8. /\ read_attachment_reports(saved) = read_attachment_reports(doc)
      /\ read_metadata_entries(saved) = read_metadata_entries(doc)
      /\ read_outline_tree(saved) = read_outline_tree(doc)
  BY <1>1 DEF read_attachment_reports, read_metadata_entries, read_outline_tree
<1>9. Extensible(saved) = Extensible(doc)
  BY <1>1, SameExtensible
<1> QED
  BY <1>1, <1>2, <1>6, <1>7, <1>8, <1>9 DEF Alike

-----------------------------------------------------------------------------
(* Counting from nothing, and the elements of a list at some places.         *)

LEMMA LeastNumber ==
  ASSUME NEW S \in SUBSET Nat, S # {}
  PROVE  \E n \in S : \A m \in S : n <= m
<1>1. IsWellFoundedOn(OpToRel(<, Nat), Nat)
  BY NatLessThanWellFounded
<1>2. \E n \in S : \A m \in S : ~ (<<m, n>> \in OpToRel(<, Nat))
  BY <1>1, WFMin
<1>3. PICK n \in S : \A m \in S : ~ (m < n)
  BY <1>2 DEF OpToRel
<1> QED
  BY <1>3

LEMMA CountingUp ==
  ASSUME NEW N \in Nat, NEW P, 0 \in P,
         \A k \in 0..(N - 1) : k \in P => k + 1 \in P
  PROVE  0..N \subseteq P
<1>1. SUFFICES ASSUME (0..N) \ P # {} PROVE FALSE
  OBVIOUS
<1>2. PICK n \in (0..N) \ P : \A m \in (0..N) \ P : n <= m
  <2>1. (0..N) \ P \in SUBSET Nat
    OBVIOUS
  <2> QED
    BY <1>1, <2>1, LeastNumber
<1>3. n # 0 /\ n - 1 \in 0..(N - 1)
  BY <1>2
<1>4. n - 1 \in P
  BY <1>2, <1>3
<1> QED
  BY <1>2, <1>3, <1>4

\* The elements kept of the first n are those kept of the first n - 1 and the
\* n-th, if it is kept.
Keeps(f, s, places) ==
    /\ f[0] = <<>> /\ f[Len(s)] = Kept(s, places)
    /\ \A n \in 1..Len(s) : f[n] = IF n \in places THEN Append(f[n - 1], s[n]) ELSE f[n - 1]

LEMMA KeptGrows ==
  ASSUME NEW S, NEW s \in Seq(S), NEW places
  PROVE  \E f : Keeps(f, s, places)
<1> DEFINE N == Len(s)
           Rule(f, n) == IF n = 0 THEN <<>> ELSE IF n \in places THEN Append(f[n - 1], s[n]) ELSE f[n - 1]
           Solution(f, m) == f = [n \in 0..m |-> Rule(f, n)]
           P == {m \in 0..N : \E f : Solution(f, m)}
<1>0. N \in Nat
  OBVIOUS
<1> HIDE DEF N
<1>1. 0 \in P
  <2>1. Solution([n \in 0..0 |-> <<>>], 0)
    OBVIOUS
  <2>2. 0 \in 0..N
    BY <1>0
  <2> HIDE DEF Solution
  <2> QED
    BY <2>1, <2>2
<1>2. ASSUME NEW m \in 0..(N - 1), m \in P PROVE m + 1 \in P
  <2>1. PICK f : Solution(f, m)
    BY <1>2
  <2> DEFINE new == IF m + 1 \in places THEN Append(f[m], s[m + 1]) ELSE f[m]
             g == [n \in 0..(m + 1) |-> IF n = m + 1 THEN new ELSE f[n]]
  <2>2. m \in Nat /\ m + 1 \in 0..N /\ (m + 1) - 1 = m /\ m + 1 # 0
    BY <1>0
  <2>3. ASSUME NEW n \in 0..(m + 1) PROVE g[n] = Rule(g, n)
    <3>1. CASE n = m + 1
      <4>1. g[m + 1] = new /\ g[m] = f[m]
        <5>1. m \in 0..(m + 1) /\ m # m + 1 /\ m + 1 \in 0..(m + 1)
          BY <2>2
        <5> HIDE DEF new
        <5> QED  BY <5>1
      <4> HIDE DEF g
      <4> QED
        BY <2>2, <3>1, <4>1
    <3>2. CASE n # m + 1
      <4>1. n \in 0..m /\ (n # 0 => n - 1 \in 0..(m + 1) /\ n - 1 # m + 1)
        BY <2>2, <3>2
      <4>2. g[n] = f[n] /\ (n # 0 => g[n - 1] = f[n - 1])
        <5> HIDE DEF new
        <5> QED  BY <3>2, <4>1
      <4>3. f[n] = Rule(f, n)
        BY <2>1, <4>1
      <4> HIDE DEF g
      <4> QED
        BY <4>2, <4>3
    <3> QED
      BY <3>1, <3>2
  <2>4. g = [n \in 0..(m + 1) |-> g[n]]
    OBVIOUS
  <2> HIDE DEF g
  <2>5. Solution(g, m + 1)
    <3> HIDE DEF Rule
    <3>1. [n \in 0..(m + 1) |-> g[n]] = [n \in 0..(m + 1) |-> Rule(g, n)]
      BY <2>3
    <3> QED  BY <2>4, <3>1
  <2> QED
    BY <2>2, <2>5
<1>3. N \in P
  <2>1. N \in 0..N
    BY <1>0
  <2> HIDE DEF P
  <2> QED
    BY <1>0, <1>1, <1>2, <2>1, CountingUp
<1> DEFINE kept == CHOOSE f : Solution(f, N)
<1>4. Solution(kept, N)
  BY <1>3
<1>5. Kept(s, places) = kept[N]
  <2>1. Kept(s, places) =
          (CHOOSE f : f = [n \in 0..N |-> IF n = 0 THEN <<>>
                                          ELSE IF n \in places THEN Append(f[n - 1], s[n]) ELSE f[n - 1]])[N]
    BY DEF Kept, N
  <2> QED
    BY <2>1
<1> HIDE DEF kept
<1>6. kept[0] = <<>>
  <2>1. 0 \in 0..N
    BY <1>0
  <2> QED  BY <1>4, <2>1
<1>7. ASSUME NEW n \in 1..N
      PROVE  kept[n] = IF n \in places THEN Append(kept[n - 1], s[n]) ELSE kept[n - 1]
  <2>1. n \in 0..N /\ n # 0
    BY <1>0
  <2> QED
    BY <1>4, <2>1
<1> QED
  BY <1>5, <1>6, <1>7 DEF Keeps, N

LEMMA AppendFacts ==
  ASSUME NEW S, NEW s \in Seq(S), NEW x \in S
  PROVE  /\ Append(s, x) \in Seq(S) /\ Len(Append(s, x)) = Len(s) + 1 /\ Len(s) \in Nat
         /\ \A i \in 1..Len(s) : Append(s, x)[i] = s[i]
         /\ Append(s, x)[Len(s) + 1] = x
         /\ Range(Append(s, x)) = Range(s) \cup {x}
<1> DEFINE new == Append(s, x)
<1>1. /\ new \in Seq(S) /\ Len(new) = Len(s) + 1 /\ Len(s) \in Nat
      /\ \A i \in 1..Len(s) : new[i] = s[i]
      /\ new[Len(s) + 1] = x
  OBVIOUS
<1>2. DOMAIN s = 1..Len(s) /\ DOMAIN new = 1..(Len(s) + 1)
  BY <1>1
<1> HIDE DEF new
<1>3. Range(new) = Range(s) \cup {x}
  <2>1. \A y \in Range(new) : y \in Range(s) \cup {x}
    BY <1>1, <1>2 DEF Range
  <2>2. \A y \in Range(s) \cup {x} : y \in Range(new)
    BY <1>1, <1>2 DEF Range
  <2> QED  BY <2>1, <2>2
<1> QED
  BY <1>1, <1>3 DEF new

\* What is kept is what is at these places.
LEMMA KeptElements ==
  ASSUME NEW S, NEW s \in Seq(S), NEW places
  PROVE  /\ Kept(s, places) \in Seq(S)
         /\ Range(Kept(s, places)) = {s[k] : k \in {n \in 1..Len(s) : n \in places}}
<1>1. PICK f : Keeps(f, s, places)
  BY KeptGrows
<1> DEFINE N == Len(s)
           From(n) == {s[k] : k \in {m \in 1..n : m \in places}}
           P == {n \in 0..N : f[n] \in Seq(S) /\ Range(f[n]) = From(n)}
<1>0. N \in Nat /\ \A n \in 1..N : s[n] \in S
  OBVIOUS
<1> HIDE DEF N
<1>2. 0 \in P
  <2>1. f[0] = <<>> /\ 0 \in 0..N /\ <<>> \in Seq(S)
    BY <1>0, <1>1 DEF Keeps
  <2>2. Range(<<>>) = {} /\ From(0) = {}
    BY DEF Range
  <2> HIDE DEF From
  <2> QED  BY <2>1, <2>2
<1>3. ASSUME NEW n \in 0..(N - 1), n \in P PROVE n + 1 \in P
  <2>1. f[n] \in Seq(S) /\ Range(f[n]) = From(n) /\ n + 1 \in 1..N /\ (n + 1) - 1 = n /\ n \in Nat
    BY <1>0, <1>3
  <2>2. f[n + 1] = IF n + 1 \in places THEN Append(f[n], s[n + 1]) ELSE f[n]
    BY <1>1, <2>1 DEF Keeps, N
  <2>3. CASE n + 1 \in places
    <3>1. f[n + 1] \in Seq(S) /\ Range(f[n + 1]) = Range(f[n]) \cup {s[n + 1]}
      BY <1>0, <2>1, <2>2, <2>3, AppendFacts
    <3>2. From(n + 1) = From(n) \cup {s[n + 1]}
      BY <2>1, <2>3
    <3> HIDE DEF From
    <3>3. Range(f[n + 1]) = From(n + 1) /\ n + 1 \in 0..N
      BY <1>0, <2>1, <3>1, <3>2
    <3> QED  BY <3>1, <3>3
  <2>4. CASE n + 1 \notin places
    <3>1. From(n + 1) = From(n)
      BY <2>1, <2>4
    <3> HIDE DEF From
    <3> QED  BY <2>1, <2>2, <2>4, <3>1
  <2> HIDE DEF P
  <2> QED
    BY <2>3, <2>4
<1>4. N \in P
  <2>1. N \in 0..N
    BY <1>0
  <2> HIDE DEF P
  <2> QED
    BY <1>0, <1>2, <1>3, <2>1, CountingUp
<1>5. f[N] = Kept(s, places)
  BY <1>1 DEF Keeps, N
<1> QED
  BY <1>4, <1>5 DEF N

\* As long as every element is kept nothing changes.
LEMMA KeptFirst ==
  ASSUME NEW S, NEW s \in Seq(S), NEW places, NEW f, Keeps(f, s, places),
         NEW j \in 0..Len(s), 1..j \subseteq places
  PROVE  f[j] \in Seq(S) /\ Len(f[j]) = j /\ \A i \in 1..j : f[j][i] = s[i]
<1> DEFINE P == {n \in 0..j : f[n] \in Seq(S) /\ Len(f[n]) = n /\ \A i \in 1..n : f[n][i] = s[i]}
<1>0. j \in Nat /\ \A n \in 1..j : s[n] \in S /\ n \in places /\ n \in 1..Len(s)
  OBVIOUS
<1>1. 0 \in P
  <2>1. f[0] \in Seq(S) /\ Len(f[0]) = 0 /\ 0 \in 0..j /\ 1..0 = {}
    <3>1. f[0] = <<>> /\ <<>> \in Seq(S) /\ Len(<<>>) = 0
      BY DEF Keeps
    <3> QED  BY <1>0, <3>1
  <2> QED  BY <2>1
<1>2. ASSUME NEW n \in 0..(j - 1), n \in P PROVE n + 1 \in P
  <2>1. /\ f[n] \in Seq(S) /\ Len(f[n]) = n /\ \A i \in 1..n : f[n][i] = s[i]
        /\ n + 1 \in 1..j /\ (n + 1) - 1 = n /\ n \in Nat
    BY <1>0, <1>2
  <2>2. f[n + 1] = Append(f[n], s[n + 1]) /\ s[n + 1] \in S
    BY <1>0, <2>1 DEF Keeps
  <2>3. /\ f[n + 1] \in Seq(S) /\ Len(f[n + 1]) = n + 1
        /\ \A i \in 1..n : f[n + 1][i] = f[n][i]
        /\ f[n + 1][n + 1] = s[n + 1]
    BY <2>1, <2>2, AppendFacts
  <2>4. ASSUME NEW i \in 1..(n + 1) PROVE f[n + 1][i] = s[i]
    <3>1. i = n + 1 \/ i \in 1..n
      BY <2>1
    <3> QED  BY <2>1, <2>3, <3>1
  <2> QED
    BY <2>1, <2>3, <2>4
<1>3. j \in P
  <2> HIDE DEF P
  <2> QED  BY <1>0, <1>1, <1>2, CountingUp
<1> QED
  BY <1>3

LEMMA KeptAll ==
  ASSUME NEW S, NEW s \in Seq(S), NEW places, 1..Len(s) \subseteq places
  PROVE  Kept(s, places) = s
<1>1. PICK f : Keeps(f, s, places)
  BY KeptGrows
<1>2. Len(s) \in 0..Len(s)
  OBVIOUS
<1>3. f[Len(s)] \in Seq(S) /\ Len(f[Len(s)]) = Len(s) /\ \A i \in 1..Len(s) : f[Len(s)][i] = s[i]
  BY <1>1, <1>2, KeptFirst
<1>4. f[Len(s)] = Kept(s, places)
  BY <1>1 DEF Keeps
<1> DEFINE t == Kept(s, places)
<1>5. t \in Seq(S) /\ Len(t) = Len(s) /\ \A i \in 1..Len(s) : t[i] = s[i]
  BY <1>3, <1>4
<1> HIDE DEF t
<1>6. t = s
  BY <1>5
<1> QED
  BY <1>6 DEF t

\* Where the first element goes its successor takes its place.
LEMMA KeptShift ==
  ASSUME NEW S, NEW s \in Seq(S), NEW places, NEW j \in 1..Len(s), j + 1 <= Len(s),
         1..(j - 1) \subseteq places, j \notin places, j + 1 \in places
  PROVE  j <= Len(Kept(s, places)) /\ Kept(s, places)[j] = s[j + 1]
<1>1. PICK f : Keeps(f, s, places)
  BY KeptGrows
<1> DEFINE N == Len(s)
           Held(n) == f[n] \in Seq(S) /\ j <= Len(f[n]) /\ f[n][j] = s[j + 1]
           P == {n \in 0..(N - (j + 1)) : Held(n + (j + 1))}
<1>0. N \in Nat /\ j \in Nat /\ j - 1 \in 0..N /\ j + 1 \in 1..N /\ \A n \in 1..N : s[n] \in S
  OBVIOUS
<1>2. /\ f[N] = Kept(s, places)
      /\ \A n \in 1..N : f[n] = IF n \in places THEN Append(f[n - 1], s[n]) ELSE f[n - 1]
  BY <1>1 DEF Keeps
<1>3. f[j - 1] \in Seq(S) /\ Len(f[j - 1]) = j - 1
  BY <1>0, <1>1, KeptFirst
<1>4. f[j] = f[j - 1] /\ f[j + 1] = Append(f[j], s[j + 1])
  <2>1. j \in 1..N /\ (j + 1) - 1 = j
    BY <1>0
  <2> HIDE DEF N
  <2> QED  BY <1>0, <1>2, <2>1
<1> HIDE DEF N
<1>5. 0 \in P
  <2>1. s[j + 1] \in S /\ f[j] \in Seq(S) /\ Len(f[j]) + 1 = j
    BY <1>0, <1>3, <1>4
  <2>2. Held(j + 1)
    BY <1>4, <2>1, AppendFacts, <1>0
  <2>3. 0 \in 0..(N - (j + 1)) /\ 0 + (j + 1) = j + 1
    BY <1>0
  <2> HIDE DEF Held
  <2> QED  BY <2>2, <2>3
<1>6. ASSUME NEW n \in 0..((N - (j + 1)) - 1), n \in P PROVE n + 1 \in P
  <2> DEFINE m == n + (j + 1)
  <2>1. /\ Held(m) /\ m \in Nat /\ m + 1 \in 1..N /\ (m + 1) - 1 = m /\ (n + 1) + (j + 1) = m + 1
        /\ n + 1 \in 0..(N - (j + 1))
    BY <1>0, <1>6
  <2> HIDE DEF m
  <2>2. s[m + 1] \in S /\ f[m + 1] = IF m + 1 \in places THEN Append(f[m], s[m + 1]) ELSE f[m]
    <3> HIDE DEF Held
    <3>1. f[m + 1] = IF m + 1 \in places THEN Append(f[(m + 1) - 1], s[m + 1]) ELSE f[(m + 1) - 1]
      BY <1>2, <2>1
    <3> QED  BY <1>0, <2>1, <3>1
  <2>3. Held(m + 1)
    BY <1>0, <2>1, <2>2, AppendFacts
  <2> HIDE DEF Held
  <2> QED
    BY <2>1, <2>3
<1>7. Held(N)
  <2>1. N - (j + 1) \in Nat /\ (N - (j + 1)) + (j + 1) = N /\ N - (j + 1) \in 0..(N - (j + 1))
    BY <1>0
  <2>2. N - (j + 1) \in P
    <3> HIDE DEF P
    <3> QED  BY <1>5, <1>6, <2>1, CountingUp
  <2> HIDE DEF Held
  <2> QED
    BY <2>1, <2>2
<1> QED
  BY <1>2, <1>7

-----------------------------------------------------------------------------
(* Every operator does what the contract says.  First what they share.       *)

LEMMA Primes ==
  /\ read_attachment_reports(pdf)' = read_attachment_reports(pdf')
  /\ collect_form_fields(pdf)' = collect_form_fields(pdf')
  /\ discover_pdf_signature_dictionaries(pdf)' = discover_pdf_signature_dictionaries(pdf')
  /\ inspect_annotations(pdf)' = inspect_annotations(pdf')
  /\ read_metadata_entries(pdf)' = read_metadata_entries(pdf')
  /\ read_outline_tree(pdf)' = read_outline_tree(pdf')
  /\ Extensible(pdf)' = Extensible(pdf')
<1>1. read_attachment_reports(pdf)' = read_attachment_reports(pdf')
  BY DEF read_attachment_reports, Pairs, OddTail
<1>2. collect_form_fields(pdf)' = collect_form_fields(pdf')
  BY DEF collect_form_fields, Dangling, Live, FieldReport, IsField
<1>3. discover_pdf_signature_dictionaries(pdf)' = discover_pdf_signature_dictionaries(pdf')
  BY DEF discover_pdf_signature_dictionaries, Live, Annotated, IsSigned, Range
<1>4. inspect_annotations(pdf)' = inspect_annotations(pdf')
  BY DEF inspect_annotations, AnnotationArrays, NoteReport, NoteName, Range
<1>5. read_metadata_entries(pdf)' = read_metadata_entries(pdf')
  BY DEF read_metadata_entries
<1>6. read_outline_tree(pdf)' = read_outline_tree(pdf')
  BY DEF read_outline_tree, Range
<1>7. Extensible(pdf)' = Extensible(pdf')
  BY DEF Extensible
<1> QED
  BY <1>1, <1>2, <1>3, <1>4, <1>5, <1>6, <1>7

LEMMA Edited ==
  ASSUME Whole(pdf), NEW op, NEW doc, Whole(doc), doc.seal = pdf.seal, Edit(op, doc)
  PROVE  Whole(pdf') /\ Alike(pdf', doc) /\ Contract!Edit(op)
<1>1. pdf.seal = Open /\ pdf' \in Saved(doc) /\ last' = op
  BY DEF Edit, Run, Write
<1>2. Whole(pdf') /\ Alike(pdf', doc)
  BY <1>1, SavedAlike
<1>3. pdf'.seal = Open
  BY <1>1, <1>2 DEF Alike
<1> QED
  BY <1>1, <1>2, <1>3 DEF Contract!Edit, Contract!Open, Open

\* Documents with the same pages, form, annotations and objects.
SameForms(doc, old) ==
    /\ doc.pages = old.pages /\ doc.form = old.form
    /\ doc.annots = old.annots /\ doc.objects = old.objects

LEMMA SameFormsAlike ==
  ASSUME NEW doc, NEW old, SameForms(doc, old)
  PROVE  /\ Dangling(doc) = Dangling(old)
         /\ collect_form_fields(doc) = collect_form_fields(old)
         /\ discover_pdf_signature_dictionaries(doc) = discover_pdf_signature_dictionaries(old)
         /\ inspect_annotations(doc) = inspect_annotations(old)
<1>1. Live(doc) = Live(old) /\ Annotated(doc) = Annotated(old)
  BY DEF SameForms, Live, Annotated
<1>2. \A id : /\ IsField(doc, id) <=> IsField(old, id)
              /\ IsSigned(doc, id) <=> IsSigned(old, id)
              /\ FieldReport(doc, id) = FieldReport(old, id)
              /\ \A p : NoteReport(doc, p, id) = NoteReport(old, p, id)
  BY DEF SameForms, IsField, IsSigned, FieldReport, NoteReport, NoteName
<1>3. Dangling(doc) = Dangling(old)
  BY <1>1 DEF Dangling, SameForms
<1>4. collect_form_fields(doc) = collect_form_fields(old)
  <2>1. {FieldReport(doc, id) : id \in {i \in doc.form.fields : IsField(doc, i)}}
          = {FieldReport(old, id) : id \in {i \in old.form.fields : IsField(old, i)}}
    BY <1>2 DEF SameForms
  <2> QED
    BY <1>3, <2>1 DEF collect_form_fields
<1>5. discover_pdf_signature_dictionaries(doc) = discover_pdf_signature_dictionaries(old)
  <2>1. {doc.objects[id].name : id \in {i \in doc.form.fields \cup Annotated(doc) : IsSigned(doc, i)}}
          = {old.objects[id].name : id \in {i \in old.form.fields \cup Annotated(old) : IsSigned(old, i)}}
    BY <1>1, <1>2 DEF SameForms
  <2> QED
    BY <1>1, <2>1 DEF discover_pdf_signature_dictionaries, SameForms
<1>6. inspect_annotations(doc) = inspect_annotations(old)
  <2>1. AnnotationArrays(doc) <=> AnnotationArrays(old)
    BY DEF AnnotationArrays, SameForms
  <2>2. UNION {{NoteReport(doc, p, id) : id \in doc.annots[p].ids} : p \in Range(doc.pages)}
          = UNION {{NoteReport(old, p, id) : id \in old.annots[p].ids} : p \in Range(old.pages)}
    BY <1>2 DEF SameForms
  <2> QED
    BY <2>1, <2>2 DEF inspect_annotations
<1> QED
  BY <1>3, <1>4, <1>5, <1>6

\* Nothing is promised of a form that cannot be read.
LEMMA FormKept ==
  ASSUME Whole(pdf),
         Dangling(pdf) = {} =>
            /\ collect_form_fields(pdf') = collect_form_fields(pdf)
            /\ discover_pdf_signature_dictionaries(pdf') = discover_pdf_signature_dictionaries(pdf)
  PROVE  Contract!KeepForm
<1>1. CASE Dangling(pdf) = {}
  BY <1>1, Primes DEF Contract!KeepForm
<1>2. CASE Dangling(pdf) # {}
  <2>1. ~collect_form_fields(pdf).ok
    BY <1>2 DEF collect_form_fields
  <2> QED
    BY <2>1 DEF Contract!KeepForm
<1> QED
  BY <1>1, <1>2

\* The reports after an edit of something else.
LEMMA FormsAside ==
  ASSUME Whole(pdf), NEW doc, SameForms(doc, pdf), Alike(pdf', doc)
  PROVE  /\ Contract!KeepForm
         /\ pdf'.pages = pdf.pages
         /\ doc.names = pdf.names => UNCHANGED Extensible(pdf)
         /\ inspect_annotations(pdf)' = inspect_annotations(pdf)
<1>1. /\ Dangling(pdf) = {} => /\ collect_form_fields(pdf') = collect_form_fields(pdf)
                               /\ discover_pdf_signature_dictionaries(pdf') = discover_pdf_signature_dictionaries(pdf)
      /\ inspect_annotations(pdf') = inspect_annotations(pdf) /\ pdf'.pages = pdf.pages
  BY SameFormsAlike DEF Alike, SameForms
<1>2. doc.names = pdf.names => Extensible(pdf)' = Extensible(pdf)
  <2>1. doc.names = pdf.names => Extensible(doc) = Extensible(pdf)
    BY SameExtensible DEF SameForms
  <2> QED
    BY <2>1, Primes DEF Alike
<1> QED
  BY <1>1, <1>2, FormKept, Primes

\* Edits of what holds no references keep the rest.
OkSeals == {seal \in Seals : seal.owner = "" <=> seal.user = ""}

LEMMA NamesWhole ==
  ASSUME NEW doc, Whole(doc), NEW x \in NameTrees, NEW d, d = [doc EXCEPT !.names = x]
  PROVE  /\ Whole(d) /\ SameForms(d, doc) /\ d.names = x
         /\ d.info = doc.info /\ d.outline = doc.outline /\ d.seal = doc.seal
<1>1. /\ SameForms(d, doc) /\ d.names = x /\ d.pages = doc.pages
      /\ d.info = doc.info /\ d.outline = doc.outline /\ d.seal = doc.seal
  BY DEF Whole, Sound, Shape, SameForms
<1>2. Sound(d)
  BY EditsElsewhere DEF Whole
<1>3. doc.pages \in Seq(PageIds) /\ doc.names \in NameTrees /\ doc.seal \in OkSeals
  BY DEF Whole, Typed, OkSeals
<1>4. d.pages \in Seq(PageIds) /\ d.names \in NameTrees /\ d.seal \in OkSeals
  BY <1>1, <1>3
<1> QED
  BY <1>1, <1>2, <1>4 DEF Whole, Typed, OkSeals

LEMMA InfoWhole ==
  ASSUME NEW doc, Whole(doc), NEW x, NEW d, d = [doc EXCEPT !.info = x]
  PROVE  /\ Whole(d) /\ SameForms(d, doc) /\ d.info = x
         /\ d.names = doc.names /\ d.outline = doc.outline /\ d.seal = doc.seal
<1>1. /\ SameForms(d, doc) /\ d.info = x /\ d.pages = doc.pages
      /\ d.names = doc.names /\ d.outline = doc.outline /\ d.seal = doc.seal
  BY DEF Whole, Sound, Shape, SameForms
<1>2. Sound(d)
  BY EditsElsewhere DEF Whole
<1>3. doc.pages \in Seq(PageIds) /\ doc.names \in NameTrees /\ doc.seal \in OkSeals
  BY DEF Whole, Typed, OkSeals
<1>4. d.pages \in Seq(PageIds) /\ d.names \in NameTrees /\ d.seal \in OkSeals
  BY <1>1, <1>3
<1> QED
  BY <1>1, <1>2, <1>4 DEF Whole, Typed, OkSeals

LEMMA OutlineWhole ==
  ASSUME NEW doc, Whole(doc), NEW x, NEW d, d = [doc EXCEPT !.outline = x]
  PROVE  /\ Whole(d) /\ SameForms(d, doc) /\ d.outline = x
         /\ d.names = doc.names /\ d.info = doc.info /\ d.seal = doc.seal
<1>1. /\ SameForms(d, doc) /\ d.outline = x /\ d.pages = doc.pages
      /\ d.names = doc.names /\ d.info = doc.info /\ d.seal = doc.seal
  BY DEF Whole, Sound, Shape, SameForms
<1>2. Sound(d)
  BY EditsElsewhere DEF Whole
<1>3. doc.pages \in Seq(PageIds) /\ doc.names \in NameTrees /\ doc.seal \in OkSeals
  BY DEF Whole, Typed, OkSeals
<1>4. d.pages \in Seq(PageIds) /\ d.names \in NameTrees /\ d.seal \in OkSeals
  BY <1>1, <1>3
<1> QED
  BY <1>1, <1>2, <1>4 DEF Whole, Typed, OkSeals

LEMMA SealWhole ==
  ASSUME NEW doc, Whole(doc), NEW x \in OkSeals, NEW d, d = [doc EXCEPT !.seal = x]
  PROVE  /\ Whole(d) /\ SameForms(d, doc) /\ d.seal = x
         /\ d.names = doc.names /\ d.info = doc.info /\ d.outline = doc.outline
<1>1. /\ SameForms(d, doc) /\ d.seal = x /\ d.pages = doc.pages
      /\ d.names = doc.names /\ d.info = doc.info /\ d.outline = doc.outline
  BY DEF Whole, Sound, Shape, SameForms
<1>2. Sound(d)
  BY EditsElsewhere DEF Whole
<1>3. doc.pages \in Seq(PageIds) /\ doc.names \in NameTrees /\ doc.seal \in OkSeals
  BY DEF Whole, Typed, OkSeals
<1>4. d.pages \in Seq(PageIds) /\ d.names \in NameTrees /\ d.seal \in OkSeals
  BY <1>1, <1>3
<1> QED
  BY <1>1, <1>2, <1>4 DEF Whole, Typed, OkSeals

-----------------------------------------------------------------------------
(* Attachments.                                                              *)

Paired(entries) ==
    /\ ~OddTail(entries)
    /\ \A k \in 1..(Len(entries) \div 2) : entries[2 * k - 1][1] = "name" /\ entries[2 * k][1] = "spec"
NamesIn(entries) == {entries[2 * k - 1][2] : k \in 1..(Len(entries) \div 2)}

LEMMA Listed ==
  ASSUME NEW doc
  PROVE  /\ doc.names.files = "none" => read_attachment_reports(doc) = Contract!Readable({})
         /\ doc.names.files # "none" /\ Paired(doc.names.entries)
              => read_attachment_reports(doc) = Contract!Readable(NamesIn(doc.names.entries))
         /\ doc.names.files # "none" /\ ~Paired(doc.names.entries)
              => read_attachment_reports(doc) = Contract!Unreadable
<1> DEFINE es == doc.names.entries
           pairs == Pairs(es)
           h == Len(es) \div 2
           pair(k) == <<es[2 * k - 1], es[2 * k]>>
<1>1. /\ pairs = {pair(k) : k \in 1..h}
      /\ \A k : pair(k)[1] = es[2 * k - 1] /\ pair(k)[2] = es[2 * k]
  BY DEF Pairs
<1>2. Paired(es) <=> ~(OddTail(es) \/ \E both \in pairs : both[1][1] # "name" \/ both[2][1] # "spec")
  <2> HIDE DEF es, pairs, h, pair
  <2>1. Paired(es) <=> ~OddTail(es) /\ \A k \in 1..h : es[2 * k - 1][1] = "name" /\ es[2 * k][1] = "spec"
    BY DEF Paired, h
  <2>2. (\E both \in pairs : both[1][1] # "name" \/ both[2][1] # "spec")
          <=> \E k \in 1..h : es[2 * k - 1][1] # "name" \/ es[2 * k][1] # "spec"
    BY <1>1
  <2> QED  BY <2>1, <2>2
<1>3. {both[1][2] : both \in pairs} = NamesIn(es)
  <2> HIDE DEF es, pairs, h, pair
  <2>1. NamesIn(es) = {es[2 * k - 1][2] : k \in 1..h}
    BY DEF NamesIn, h
  <2>2. {both[1][2] : both \in pairs} = {es[2 * k - 1][2] : k \in 1..h}
    BY <1>1
  <2> QED  BY <2>1, <2>2
<1>4. read_attachment_reports(doc) =
        IF doc.names.files = "none" THEN [ok |-> TRUE, of |-> {}]
        ELSE IF OddTail(es) \/ \E both \in pairs : both[1][1] # "name" \/ both[2][1] # "spec"
        THEN [ok |-> FALSE, of |-> {}]
        ELSE [ok |-> TRUE, of |-> {both[1][2] : both \in pairs}]
  BY DEF read_attachment_reports
<1> HIDE DEF es, pairs, h
<1>5. read_attachment_reports(doc) =
        IF doc.names.files = "none" THEN [ok |-> TRUE, of |-> {}]
        ELSE IF ~Paired(es) THEN [ok |-> FALSE, of |-> {}]
        ELSE [ok |-> TRUE, of |-> NamesIn(es)]
  BY <1>2, <1>3, <1>4
<1> QED
  BY <1>5 DEF Contract!Readable, Contract!Unreadable, es

LEMMA Halves ==
  ASSUME NEW L \in Nat
  PROVE  /\ L \div 2 \in Nat /\ L % 2 \in {0, 1} /\ L = 2 * (L \div 2) + (L % 2)
         /\ \A k \in Nat : k \in 1..(L \div 2) <=> 1 <= k /\ 2 * k <= L
  OBVIOUS

LEMMA TwoMore ==
  ASSUME NEW S, NEW s \in Seq(S), NEW x \in S, NEW y \in S
  PROVE  LET new == s \o <<x, y>>
         IN  /\ new \in Seq(S) /\ Len(new) = Len(s) + 2 /\ Len(s) \in Nat
             /\ \A i \in 1..Len(s) : new[i] = s[i]
             /\ new[Len(s) + 1] = x /\ new[Len(s) + 2] = y
<1>1. <<x, y>> \in Seq(S) /\ Len(<<x, y>>) = 2 /\ <<x, y>>[1] = x /\ <<x, y>>[2] = y
  OBVIOUS
<1> DEFINE two == <<x, y>>
<1>2. two \in Seq(S) /\ Len(two) = 2 /\ two[1] = x /\ two[2] = y
  BY <1>1
<1> HIDE DEF two
<1> DEFINE new == s \o two
<1>3. /\ new \in Seq(S) /\ Len(new) = Len(s) + 2 /\ Len(s) \in Nat
      /\ \A i \in 1..(Len(s) + 2) : new[i] = IF i <= Len(s) THEN s[i] ELSE two[i - Len(s)]
  <2>1. /\ new \in Seq(S) /\ Len(new) = Len(s) + Len(two)
        /\ \A i \in 1..(Len(s) + Len(two)) : new[i] = IF i <= Len(s) THEN s[i] ELSE two[i - Len(s)]
    BY <1>2, ConcatProperties, Zenon
  <2>2. Len(s) \in Nat
    OBVIOUS
  <2> HIDE DEF new
  <2> QED  BY <1>2, <2>1, <2>2
<1>a. \A i \in 1..Len(s) : new[i] = s[i]
  <2> HIDE DEF new
  <2> QED  BY <1>3
<1>4. new[Len(s) + 1] = x /\ new[Len(s) + 2] = y
  <2> HIDE DEF new
  <2> QED  BY <1>2, <1>3
<1> QED
  BY <1>3, <1>4, <1>a DEF two

LEMMA EntryParts ==
  ASSUME NEW entry \in Entries
  PROVE  /\ entry[1] \in {"name", "spec"} /\ entry[2] \in Texts
         /\ \A name : entry = <<"name", name>> <=> entry[1] = "name" /\ entry[2] = name
  BY DEF Entries

\* An entry under a new name is the list's last; where a name is taken an older
\* entry loses it, and its specification takes the place of a name.
LEMMA AddedList ==
  ASSUME NEW entries \in Seq(Entries), NEW name \in Texts
  PROVE  LET new == retain_other_names(entries, name) \o <<<<"name", name>>, <<"spec", name>>>>
         IN  /\ new \in Seq(Entries)
             /\ Paired(entries) /\ name \notin NamesIn(entries)
                  => Paired(new) /\ NamesIn(new) = NamesIn(entries) \cup {name}
             /\ Paired(entries) /\ name \in NamesIn(entries) => ~Paired(new)
             /\ Paired(new) => name \in NamesIn(new)
<1> DEFINE places == {k \in DOMAIN entries : entries[k] # <<"name", name>>}
           kept == retain_other_names(entries, name)
           x == <<"name", name>>
           y == <<"spec", name>>
           new == kept \o <<x, y>>
           h == Len(entries) \div 2
<1>1. kept = Kept(entries, places)
  BY DEF retain_other_names
<1>2. x \in Entries /\ y \in Entries /\ x[1] = "name" /\ x[2] = name /\ y[1] = "spec"
  BY DEF Entries
<1>3. /\ Len(entries) \in Nat /\ DOMAIN entries = 1..Len(entries)
      /\ \A k \in 1..Len(entries) : entries[k] \in Entries
      /\ \A k \in 1..Len(entries) : k \in places <=> entries[k] # x
  OBVIOUS
<1>4. kept \in Seq(Entries)
  <2> HIDE DEF kept, places
  <2> QED  BY <1>1, KeptElements
<1> HIDE DEF kept, places, x, y
<1>5. /\ new \in Seq(Entries) /\ Len(new) = Len(kept) + 2 /\ Len(kept) \in Nat
      /\ \A i \in 1..Len(kept) : new[i] = kept[i]
      /\ new[Len(kept) + 1] = x /\ new[Len(kept) + 2] = y
  BY <1>2, <1>4, TwoMore
<1> HIDE DEF new
<1>h. /\ h \in Nat /\ Len(entries) % 2 \in {0, 1} /\ Len(entries) = 2 * h + (Len(entries) % 2)
      /\ \A k \in Nat : k \in 1..h <=> 1 <= k /\ 2 * k <= Len(entries)
  BY <1>3, Halves
<1> HIDE DEF h
<1>n. /\ Len(new) \div 2 \in Nat /\ Len(new) % 2 \in {0, 1} /\ Len(new) = 2 * (Len(new) \div 2) + (Len(new) % 2)
      /\ \A k \in Nat : k \in 1..(Len(new) \div 2) <=> 1 <= k /\ 2 * k <= Len(new)
  <2>1. Len(new) \in Nat
    BY <1>5
  <2> QED  BY <2>1, Halves
<1>p. Paired(entries) => /\ Len(entries) = 2 * h
                         /\ \A k \in 1..h : /\ entries[2 * k - 1] \in Entries /\ entries[2 * k] \in Entries
                                            /\ entries[2 * k - 1][1] = "name" /\ entries[2 * k][1] = "spec"
                                            /\ k \in Nat /\ 2 * k \in 1..Len(entries) /\ 2 * k - 1 \in 1..Len(entries)
  <2> SUFFICES ASSUME Paired(entries)
               PROVE  /\ Len(entries) = 2 * h
                      /\ \A k \in 1..h : /\ entries[2 * k - 1] \in Entries /\ entries[2 * k] \in Entries
                                         /\ entries[2 * k - 1][1] = "name" /\ entries[2 * k][1] = "spec"
                                         /\ k \in Nat /\ 2 * k \in 1..Len(entries) /\ 2 * k - 1 \in 1..Len(entries)
    OBVIOUS
  <2>1. Len(entries) = 2 * h /\ \A k \in 1..h : entries[2 * k - 1][1] = "name" /\ entries[2 * k][1] = "spec"
    BY <1>h DEF Paired, OddTail, h
  <2>2. \A k \in 1..h : k \in Nat /\ 2 * k \in 1..Len(entries) /\ 2 * k - 1 \in 1..Len(entries)
    BY <1>h, <1>3, <2>1
  <2> QED
    BY <1>3, <2>1, <2>2
<1>6. ASSUME Paired(entries), name \notin NamesIn(entries)
      PROVE  Paired(new) /\ NamesIn(new) = NamesIn(entries) \cup {name}
  <2>1. \A k \in 1..h : entries[2 * k - 1] # x /\ entries[2 * k] # x
    BY <1>2, <1>6, <1>p DEF NamesIn, h
  <2>2. \A k \in 1..Len(entries) : entries[k] # x
    <3> TAKE k \in 1..Len(entries)
    <3>1. \E m \in 1..h : k = 2 * m \/ k = 2 * m - 1
      <4>1. CASE k % 2 = 0
        <5>1. k \div 2 \in 1..h /\ k = 2 * (k \div 2)
          BY <1>3, <1>h, <1>p, <1>6, <4>1
        <5> QED  BY <5>1
      <4>2. CASE k % 2 = 1
        <5>1. (k + 1) \div 2 \in 1..h /\ k = 2 * ((k + 1) \div 2) - 1
          BY <1>3, <1>h, <1>p, <1>6, <4>2
        <5> QED  BY <5>1
      <4> QED  BY <4>1, <4>2, <1>3
    <3> QED  BY <2>1, <3>1
  <2>3. kept = entries
    <3>1. 1..Len(entries) \subseteq places
      BY <1>3, <2>2
    <3> QED  BY <1>1, <3>1, KeptAll
  <2>4. Len(new) = 2 * (h + 1) /\ Len(new) \div 2 = h + 1 /\ Len(new) % 2 = 0
    BY <1>5, <1>6, <1>h, <1>n, <1>p, <2>3
  <2>5. \A k \in 1..h : new[2 * k - 1] = entries[2 * k - 1] /\ new[2 * k] = entries[2 * k]
    BY <1>5, <1>6, <1>p, <2>3
  <2>6. new[2 * (h + 1) - 1] = x /\ new[2 * (h + 1)] = y
    BY <1>5, <1>6, <1>h, <1>p, <2>3
  <2>7. 1..(h + 1) = 1..h \cup {h + 1}
    BY <1>h
  <2>8. Paired(new)
    <3>1. ASSUME NEW k \in 1..(h + 1) PROVE new[2 * k - 1][1] = "name" /\ new[2 * k][1] = "spec"
      <4>1. CASE k \in 1..h
        BY <1>6, <1>p, <2>5, <4>1
      <4>2. CASE k = h + 1
        BY <1>2, <2>6, <4>2
      <4> QED  BY <2>7, <4>1, <4>2
    <3> QED  BY <2>4, <3>1 DEF Paired, OddTail
  <2>9. NamesIn(new) = NamesIn(entries) \cup {name}
    <3>1. NamesIn(new) = {new[2 * k - 1][2] : k \in 1..h \cup {h + 1}}
      BY <2>4, <2>7 DEF NamesIn
    <3>2. NamesIn(entries) = {entries[2 * k - 1][2] : k \in 1..h}
      BY DEF NamesIn, h
    <3>3. new[2 * (h + 1) - 1][2] = name
      BY <1>2, <2>6
    <3> QED  BY <2>5, <3>1, <3>2, <3>3
  <2> QED
    BY <2>8, <2>9
<1>7. ASSUME Paired(entries), name \in NamesIn(entries) PROVE ~Paired(new)
  <2> DEFINE Taken == {k \in 1..Len(entries) : entries[k] = x}
  <2>1. Taken # {} /\ Taken \in SUBSET Nat
    <3>1. PICK k \in 1..h : entries[2 * k - 1][2] = name
      BY <1>7 DEF NamesIn, h
    <3> DEFINE entry == entries[2 * k - 1]
    <3>2. entry \in Entries /\ entry[1] = "name" /\ entry[2] = name /\ 2 * k - 1 \in 1..Len(entries)
      BY <1>7, <1>p, <3>1
    <3>3. entry = x
      <4> HIDE DEF entry
      <4> QED  BY <3>2, EntryParts DEF x
    <3> QED  BY <1>3, <3>2, <3>3
  <2>2. PICK j \in Taken : \A k \in Taken : j <= k
    <3> HIDE DEF Taken
    <3> QED  BY <2>1, LeastNumber
  <2>3. PICK m \in 1..h : j = 2 * m - 1
    <3>1. j \in 1..Len(entries) /\ j \in Nat
      BY <1>3, <2>2
    <3>2. CASE j % 2 = 0
      <4>1. j \div 2 \in 1..h /\ j = 2 * (j \div 2)
        BY <1>3, <1>h, <1>p, <1>7, <3>1, <3>2
      <4>2. entries[j][1] = "spec"
        BY <1>7, <1>p, <4>1
      <4> QED  BY <1>2, <2>2, <4>2
    <3>3. CASE j % 2 = 1
      <4>1. (j + 1) \div 2 \in 1..h /\ j = 2 * ((j + 1) \div 2) - 1
        BY <1>3, <1>h, <1>p, <1>7, <3>1, <3>3
      <4> QED  BY <4>1
    <3> QED  BY <3>1, <3>2, <3>3
  <2>4. /\ j \in 1..Len(entries) /\ j + 1 \in 1..Len(entries) /\ j + 1 = 2 * m /\ entries[j + 1][1] = "spec"
        /\ entries[j] = x /\ m \in Nat /\ 1 <= m
    BY <1>3, <1>7, <1>p, <2>2, <2>3
  <2>5. 1..(j - 1) \subseteq places /\ j \notin places /\ j + 1 \in places
    <3>1. \A k \in 1..(j - 1) : k \in 1..Len(entries) /\ ~(j <= k)
      BY <1>3, <2>4
    <3> QED  BY <1>2, <1>3, <2>2, <2>4, <3>1
  <2>6. j <= Len(kept) /\ kept[j] = entries[j + 1]
    <3>1. j + 1 <= Len(entries)
      BY <2>4
    <3> QED  BY <1>1, <2>4, <2>5, <3>1, KeptShift
  <2>7. new[2 * m - 1][1] = "spec"
    BY <1>5, <2>3, <2>4, <2>6
  <2>8. m \in 1..(Len(new) \div 2)
    BY <1>5, <1>n, <2>3, <2>4, <2>6
  <2> QED
    BY <2>7, <2>8 DEF Paired
<1>8. ASSUME Paired(new) PROVE name \in NamesIn(new)
  <2> DEFINE m == Len(new) \div 2
  <2>1. Len(new) = 2 * m /\ m \in 1..m
    BY <1>5, <1>8, <1>n DEF Paired, OddTail
  <2>2. new[2 * m - 1][2] = name
    BY <1>2, <1>5, <1>n, <2>1
  <2> QED
    BY <2>1, <2>2 DEF NamesIn
<1> QED
  BY <1>5, <1>6, <1>7, <1>8 DEF new, kept, x, y

\* The pairs of a list that are not of the name, in order.
LEMMA DeletedList ==
  ASSUME NEW entries \in Seq(Entries), NEW name \in Texts
  PROVE  LET all == [k \in 1..(Len(entries) \div 2) |-> k]
             kept == Kept(all, {k \in DOMAIN all : entries[2 * k - 1] # <<"name", name>>})
             new == [i \in 1..(2 * Len(kept)) |-> entries[2 * kept[(i + 1) \div 2] - (i % 2)]]
         IN  /\ new \in Seq(Entries)
             /\ Paired(entries) => Paired(new) /\ NamesIn(new) = NamesIn(entries) \ {name}
             /\ Paired(entries) /\ Len(kept) < Len(all) => name \in NamesIn(entries)
             /\ Paired(new) => name \notin NamesIn(new)
<1> DEFINE h == Len(entries) \div 2
           all == [k \in 1..h |-> k]
           x == <<"name", name>>
           places == {k \in DOMAIN all : entries[2 * k - 1] # x}
           kept == Kept(all, places)
           new == [i \in 1..(2 * Len(kept)) |-> entries[2 * kept[(i + 1) \div 2] - (i % 2)]]
           K == Len(kept)
<1>1. /\ Len(entries) \in Nat /\ h \in Nat
      /\ \A k \in Nat : k \in 1..h <=> 1 <= k /\ 2 * k <= Len(entries)
      /\ \A k \in 1..Len(entries) : entries[k] \in Entries
  <2>1. Len(entries) \in Nat
    OBVIOUS
  <2> QED
    BY <2>1, Halves
<1>2. \A k \in 1..h : /\ k \in Nat /\ 2 * k \in 1..Len(entries) /\ 2 * k - 1 \in 1..Len(entries)
                      /\ entries[2 * k] \in Entries /\ entries[2 * k - 1] \in Entries
  <2>1. \A k \in 1..h : k \in Nat /\ 2 * k \in 1..Len(entries) /\ 2 * k - 1 \in 1..Len(entries)
    <3> HIDE DEF h
    <3> QED  BY <1>1
  <2> QED  BY <1>1, <2>1
<1>d. NamesIn(entries) = {entries[2 * k - 1][2] : k \in 1..h}
  BY DEF NamesIn
<1>e. Paired(entries) => \A k \in 1..h : entries[2 * k - 1][1] = "name" /\ entries[2 * k][1] = "spec"
  BY DEF Paired
<1> HIDE DEF h
<1>3. all \in Seq(1..h) /\ Len(all) = h /\ \A k \in 1..h : all[k] = k
  BY <1>1
<1>4. \A k \in 1..h : k \in places <=> entries[2 * k - 1] # x
  OBVIOUS
<1> HIDE DEF all, places, x
<1>5. kept \in Seq(1..h) /\ Range(kept) = {k \in 1..h : entries[2 * k - 1] # x}
  <2>1. kept \in Seq(1..h) /\ Range(kept) = {all[k] : k \in {n \in 1..h : n \in places}}
    BY <1>3, KeptElements
  <2>2. {all[k] : k \in {n \in 1..h : n \in places}} = {k \in 1..h : entries[2 * k - 1] # x}
    BY <1>3, <1>4
  <2> QED
    BY <2>1, <2>2
<1>6. h > K => \E k \in 1..h : entries[2 * k - 1] = x
  <2>1. ~(\E k \in 1..h : entries[2 * k - 1] = x) => 1..Len(all) \subseteq places
    BY <1>3, <1>4
  <2>2. ~(\E k \in 1..h : entries[2 * k - 1] = x) => kept = all
    BY <1>3, <2>1, KeptAll
  <2> QED
    BY <1>1, <1>3, <2>2
<1> HIDE DEF kept
<1>7. K \in Nat /\ DOMAIN kept = 1..K /\ \A m \in 1..K : kept[m] \in 1..h
  <2>1. kept \in Seq(1..h)
    BY <1>5
  <2> HIDE DEF h
  <2>2. K \in Nat /\ DOMAIN kept = 1..K
    BY <2>1
  <2>3. \A m \in 1..K : kept[m] \in Range(kept)
    BY <2>2 DEF Range
  <2> QED
    BY <1>5, <2>2, <2>3
<1>8. Range(kept) = {kept[m] : m \in 1..K}
  BY <1>7 DEF Range
<1> HIDE DEF K
<1>9. \A i \in 1..(2 * K) : (i + 1) \div 2 \in 1..K /\ i % 2 \in {0, 1}
  BY <1>7
<1>10. \A i \in 1..(2 * K) : entries[2 * kept[(i + 1) \div 2] - (i % 2)] \in Entries
  <2> TAKE i \in 1..(2 * K)
  <2> DEFINE k == kept[(i + 1) \div 2]
  <2>1. k \in 1..h /\ i % 2 \in {0, 1}
    BY <1>7, <1>9
  <2> HIDE DEF k
  <2>2. 2 * k - (i % 2) \in {2 * k, 2 * k - 1}
    BY <1>2, <2>1
  <2>3. entries[2 * k - (i % 2)] \in Entries
    BY <1>2, <2>1, <2>2
  <2> QED
    BY <2>3 DEF k
<1>11. new = [i \in 1..(2 * K) |-> entries[2 * kept[(i + 1) \div 2] - (i % 2)]]
  BY DEF K
<1>12. new \in Seq(Entries) /\ Len(new) = 2 * K
  <2>1. 2 * K \in Nat
    BY <1>7
  <2>2. new \in [1..(2 * K) -> Entries]
    BY <1>10, <1>11
  <2> HIDE DEF new
  <2> QED
    BY <2>1, <2>2
<1>13. \A m \in 1..K : new[2 * m - 1] = entries[2 * kept[m] - 1] /\ new[2 * m] = entries[2 * kept[m]]
  <2> TAKE m \in 1..K
  <2>1. /\ 2 * m \in 1..(2 * K) /\ 2 * m - 1 \in 1..(2 * K)
        /\ (2 * m + 1) \div 2 = m /\ (2 * m) % 2 = 0
        /\ ((2 * m - 1) + 1) \div 2 = m /\ (2 * m - 1) % 2 = 1
    BY <1>7
  <2>2. new[2 * m] = entries[2 * kept[m] - 0] /\ new[2 * m - 1] = entries[2 * kept[m] - 1]
    <3> HIDE DEF new
    <3> QED  BY <1>11, <2>1
  <2>3. 2 * kept[m] - 0 = 2 * kept[m]
    BY <1>2, <1>7
  <2> QED
    BY <2>2, <2>3
<1> HIDE DEF new
<1>14. Len(new) \div 2 = K /\ Len(new) % 2 = 0
  BY <1>7, <1>12
<1>15. NamesIn(new) = {new[2 * m - 1][2] : m \in 1..K}
  BY <1>14 DEF NamesIn
<1>16. ASSUME Paired(entries)
       PROVE  Paired(new) /\ NamesIn(new) = NamesIn(entries) \ {name}
  <2>1. \A m \in 1..K : new[2 * m - 1][1] = "name" /\ new[2 * m][1] = "spec"
    <3> TAKE m \in 1..K
    <3>1. kept[m] \in 1..h
      BY <1>7
    <3> QED  BY <1>e, <1>13, <1>16, <3>1
  <2>2. Paired(new)
    BY <1>14, <2>1 DEF Paired, OddTail
  <2>3. \A k \in 1..h : entries[2 * k - 1] = x <=> entries[2 * k - 1][2] = name
    <3> TAKE k \in 1..h
    <3> DEFINE entry == entries[2 * k - 1]
    <3>1. entry \in Entries /\ entry[1] = "name"
      BY <1>2, <1>e, <1>16
    <3> HIDE DEF entry
    <3>2. entry = x <=> entry[2] = name
      BY <3>1, EntryParts DEF x
    <3> QED
      BY <3>2 DEF entry
  <2>4. NamesIn(new) = {entries[2 * k - 1][2] : k \in Range(kept)}
    <3>1. {new[2 * m - 1][2] : m \in 1..K} = {entries[2 * kept[m] - 1][2] : m \in 1..K}
      BY <1>13
    <3> QED
      BY <1>8, <1>15, <3>1
  <2>5. NamesIn(new) = NamesIn(entries) \ {name}
    BY <1>5, <1>d, <2>3, <2>4
  <2> QED
    BY <2>2, <2>5
<1>17. ASSUME Paired(entries), K < Len(all) PROVE name \in NamesIn(entries)
  <2>1. PICK k \in 1..h : entries[2 * k - 1] = x
    BY <1>1, <1>3, <1>6, <1>7, <1>17
  <2>2. entries[2 * k - 1][2] = name
    BY <2>1 DEF x
  <2> QED
    BY <1>d, <2>2
<1>18. ASSUME Paired(new) PROVE name \notin NamesIn(new)
  <2> SUFFICES ASSUME NEW m \in 1..K PROVE new[2 * m - 1][2] # name
    BY <1>15
  <2>1. new[2 * m - 1][1] = "name"
    BY <1>14, <1>18 DEF Paired
  <2>2. kept[m] \in Range(kept) /\ kept[m] \in 1..h
    BY <1>7, <1>8
  <2> DEFINE entry == entries[2 * kept[m] - 1]
  <2>3. entry # x /\ entry \in Entries /\ entry = new[2 * m - 1]
    BY <1>2, <1>5, <1>13, <2>2
  <2> HIDE DEF entry
  <2>4. entry[1] = "name"
    BY <2>1, <2>3
  <2>5. entry[2] # name
    BY <2>3, <2>4, EntryParts DEF x
  <2> QED
    BY <2>3, <2>5
<1> QED
  BY <1>12, <1>16, <1>17, <1>18 DEF new, kept, K, places, all, h, x

\* The list of a name tree, and an edit of it.
ListIn(tree) == read_attachment_reports([names |-> tree])

LEMMA ListInTree == ASSUME NEW doc PROVE read_attachment_reports(doc) = ListIn(doc.names)
  BY DEF ListIn, read_attachment_reports

LEMMA NamesEdit ==
  ASSUME Whole(pdf), NEW op, NEW tree \in NameTrees, Edit(op, [pdf EXCEPT !.names = tree])
  PROVE  /\ Whole(pdf') /\ Contract!Edit(op) /\ Contract!KeepForm
         /\ read_attachment_reports(pdf)' = ListIn(tree)
         /\ Extensible(pdf)' = (Extensible(pdf) \ {"files"}) \cup
                                 (IF tree.at = "ref" /\ tree.files = "ref" THEN {"files"} ELSE {})
         /\ UNCHANGED <<pdf.pages, inspect_annotations(pdf), read_metadata_entries(pdf), read_outline_tree(pdf)>>
<1> DEFINE doc == [pdf EXCEPT !.names = tree]
<1>1. /\ Whole(doc) /\ SameForms(doc, pdf) /\ doc.names = tree
      /\ doc.info = pdf.info /\ doc.outline = pdf.outline /\ doc.seal = pdf.seal
  BY NamesWhole
<1>2. Edit(op, doc)
  OBVIOUS
<1> HIDE DEF doc
<1>3. Whole(pdf') /\ Alike(pdf', doc) /\ Contract!Edit(op)
  BY <1>1, <1>2, Edited
<1>4. /\ Contract!KeepForm /\ pdf'.pages = pdf.pages
      /\ inspect_annotations(pdf)' = inspect_annotations(pdf)
  BY <1>1, <1>3, FormsAside
<1>5. read_attachment_reports(pdf)' = ListIn(tree)
  BY <1>1, <1>3, ListInTree, Primes DEF Alike
<1>6. read_metadata_entries(doc) = read_metadata_entries(pdf) /\ read_outline_tree(doc) = read_outline_tree(pdf)
  BY <1>1 DEF read_metadata_entries, read_outline_tree, SameForms
<1>7. /\ read_metadata_entries(pdf)' = read_metadata_entries(pdf)
      /\ read_outline_tree(pdf)' = read_outline_tree(pdf)
  BY <1>3, <1>6, Primes DEF Alike
<1>8. Extensible(pdf)' = (Extensible(pdf) \ {"files"}) \cup
                           (IF tree.at = "ref" /\ tree.files = "ref" THEN {"files"} ELSE {})
  <2>1. Extensible(doc) = (Extensible(pdf) \ {"files"}) \cup
                            (IF tree.at = "ref" /\ tree.files = "ref" THEN {"files"} ELSE {})
    BY <1>1 DEF Extensible, SameForms
  <2> QED
    BY <1>3, <2>1, Primes DEF Alike
<1> QED
  BY <1>3, <1>4, <1>5, <1>7, <1>8

LEMMA EditedTrees ==
  ASSUME Whole(pdf)
  PROVE  LET names == embedded_files_names(pdf)
         IN  /\ names \in NameTrees /\ names.files = "ref"
             /\ \A entries \in Seq(Entries) :
                  LET tree == [names EXCEPT !.entries = entries]
                  IN  /\ tree \in NameTrees /\ tree.at = "ref" /\ tree.files = "ref"
                      /\ tree.entries = entries
             /\ "files" \in Extensible(pdf) => names = pdf.names
             /\ "files" \notin Extensible(pdf) => names.entries = <<>>
<1> DEFINE blank == [NoNames EXCEPT !.at = "ref"]
           base == IF pdf.names.at = "ref" THEN pdf.names ELSE blank
           names == embedded_files_names(pdf)
           new == [base EXCEPT !.files = "ref", !.entries = <<>>]
           S == Seq(Entries)
<1>1. pdf.names \in NameTrees /\ NameTrees = [at : Places, script : BOOLEAN, files : Places, entries : S] /\ <<>> \in S
  <2>1. pdf.names \in NameTrees
    BY DEF Whole, Typed
  <2>2. <<>> \in S
    OBVIOUS
  <2> QED  BY <2>1, <2>2 DEF NameTrees
<1>2. blank \in NameTrees
  <2> HIDE DEF S
  <2> QED  BY <1>1 DEF NoNames, Places
<1> HIDE DEF blank, S
<1>3. base \in NameTrees /\ base.at = "ref"
  BY <1>1, <1>2 DEF blank, NoNames
<1>4. names = IF base.files = "ref" THEN base ELSE new
  BY DEF embedded_files_names, blank
<1> HIDE DEF base, names
<1>5. new \in NameTrees /\ new.at = "ref" /\ new.files = "ref" /\ new.entries = <<>>
  BY <1>1, <1>3 DEF Places
<1> HIDE DEF new
<1>6. names \in NameTrees /\ names.at = "ref" /\ names.files = "ref"
  BY <1>3, <1>4, <1>5
<1>7. ASSUME NEW entries \in S
      PROVE  LET tree == [names EXCEPT !.entries = entries]
             IN  /\ tree \in NameTrees /\ tree.at = "ref" /\ tree.files = "ref"
                 /\ tree.entries = entries
  BY <1>1, <1>6
<1>8. "files" \in Extensible(pdf) <=> pdf.names.at = "ref" /\ pdf.names.files = "ref"
  BY DEF Extensible
<1>9. "files" \in Extensible(pdf) => names = pdf.names
  BY <1>4, <1>8 DEF base
<1>10. "files" \notin Extensible(pdf) => names.entries = <<>>
  <2>1. "files" \notin Extensible(pdf) => base.files # "ref"
    BY <1>8 DEF base, blank, NoNames
  <2> QED
    BY <1>4, <1>5, <2>1
<1> QED
  BY <1>6, <1>7, <1>9, <1>10, Zenon DEF names, S

LEMMA AddAttachmentReports ==
  ASSUME Whole(pdf), NEW name \in Texts, add_attachment(name)
  PROVE  Whole(pdf') /\ Contract!AddAttachment(name)
<1> DEFINE names == embedded_files_names(pdf)
           new == retain_other_names(names.entries, name) \o <<<<"name", name>>, <<"spec", name>>>>
           tree == [names EXCEPT !.entries = new]
<1>1. Edit(<<"add attachment", name>>, [pdf EXCEPT !.names = tree])
  BY DEF add_attachment
<1>2. /\ names \in NameTrees /\ names.files = "ref"
      /\ "files" \in Extensible(pdf) => names = pdf.names
      /\ "files" \notin Extensible(pdf) => names.entries = <<>>
      /\ \A entries \in Seq(Entries) :
           LET t == [names EXCEPT !.entries = entries]
           IN  t \in NameTrees /\ t.at = "ref" /\ t.files = "ref" /\ t.entries = entries
  BY EditedTrees, Zenon
<1>3. names.entries \in Seq(Entries)
  BY <1>2 DEF NameTrees
<1>4. /\ new \in Seq(Entries)
      /\ Paired(names.entries) /\ name \notin NamesIn(names.entries)
           => Paired(new) /\ NamesIn(new) = NamesIn(names.entries) \cup {name}
      /\ Paired(names.entries) /\ name \in NamesIn(names.entries) => ~Paired(new)
      /\ Paired(new) => name \in NamesIn(new)
  <2> HIDE DEF names
  <2> QED  BY <1>3, AddedList, Zenon
<1> HIDE DEF new
<1>5. tree \in NameTrees /\ tree.at = "ref" /\ tree.files = "ref" /\ tree.entries = new
  <2> HIDE DEF names
  <2> QED  BY <1>2, <1>4
<1> HIDE DEF tree
<1>6. /\ Whole(pdf') /\ Contract!Edit(<<"add attachment", name>>) /\ Contract!KeepForm
      /\ read_attachment_reports(pdf)' = ListIn(tree)
      /\ Extensible(pdf)' = Extensible(pdf) \cup {"files"}
      /\ UNCHANGED <<pdf.pages, inspect_annotations(pdf), read_metadata_entries(pdf), read_outline_tree(pdf)>>
  BY <1>1, <1>5, NamesEdit
<1>7. /\ Paired(new) => ListIn(tree) = Contract!Readable(NamesIn(new))
      /\ ~Paired(new) => ListIn(tree) = Contract!Unreadable
  BY <1>5, Listed DEF ListIn
<1> DEFINE listed == Contract!Extended("files", read_attachment_reports(pdf))
           after == read_attachment_reports(pdf)'
<1>8. after = ListIn(tree)
  BY <1>6
<1>9. /\ Paired(names.entries) => listed = Contract!Readable(NamesIn(names.entries))
      /\ ~Paired(names.entries) => listed = Contract!Unreadable
  <2>1. CASE "files" \in Extensible(pdf)
    <3>1. names = pdf.names /\ pdf.names.files = "ref" /\ listed = read_attachment_reports(pdf)
      BY <1>2, <2>1 DEF Contract!Extended
    <3> HIDE DEF names, listed
    <3> QED
      BY <3>1, Listed
  <2>2. CASE "files" \notin Extensible(pdf)
    <3>1. names.entries = <<>> /\ listed = Contract!Readable({})
      BY <1>2, <2>2 DEF Contract!Extended
    <3>2. Paired(<<>>) /\ NamesIn(<<>>) = {}
      BY DEF Paired, OddTail, NamesIn
    <3> HIDE DEF names, listed
    <3> QED
      BY <3>1, <3>2
  <2> QED
    BY <2>1, <2>2
<1> HIDE DEF names, listed, after
<1>10. IF listed.ok
       THEN after = IF name \in listed.of THEN Contract!Unreadable ELSE Contract!Readable(listed.of \cup {name})
       ELSE after.ok => name \in after.of
  <2>1. CASE Paired(names.entries)
    <3>1. listed.ok /\ listed.of = NamesIn(names.entries)
      BY <1>9, <2>1 DEF Contract!Readable
    <3> QED
      BY <1>4, <1>7, <1>8, <2>1, <3>1
  <2>2. CASE ~Paired(names.entries)
    <3>1. ~listed.ok
      BY <1>9, <2>2 DEF Contract!Unreadable
    <3>2. after.ok => name \in after.of
      BY <1>4, <1>7, <1>8 DEF Contract!Readable, Contract!Unreadable
    <3> QED
      BY <3>1, <3>2
  <2> QED
    BY <2>1, <2>2
<1> QED
  BY <1>6, <1>10 DEF Contract!AddAttachment, listed, after

LEMMA DeleteAttachmentReports ==
  ASSUME Whole(pdf), NEW name \in Texts, delete_attachment(name)
  PROVE  Whole(pdf') /\ Contract!DeleteAttachment(name)
<1> DEFINE names == embedded_files_names(pdf)
           entries == names.entries
           all == [k \in 1..(Len(entries) \div 2) |-> k]
           kept == Kept(all, {k \in DOMAIN all : entries[2 * k - 1] # <<"name", name>>})
           new == [i \in 1..(2 * Len(kept)) |-> entries[2 * kept[(i + 1) \div 2] - (i % 2)]]
           tree == [names EXCEPT !.entries = new]
<1>1. Edit(<<"delete attachment", name>>, [pdf EXCEPT !.names = tree]) /\ Len(kept) < Len(all)
  BY DEF delete_attachment
<1>2. /\ names \in NameTrees /\ names.files = "ref"
      /\ "files" \in Extensible(pdf) => names = pdf.names
      /\ "files" \notin Extensible(pdf) => entries = <<>>
      /\ \A es \in Seq(Entries) :
           LET t == [names EXCEPT !.entries = es]
           IN  t \in NameTrees /\ t.at = "ref" /\ t.files = "ref" /\ t.entries = es
  BY EditedTrees, Zenon
<1>3. entries \in Seq(Entries)
  BY <1>2 DEF NameTrees
<1> HIDE DEF names, entries
<1>4. /\ new \in Seq(Entries)
      /\ Paired(entries) => Paired(new) /\ NamesIn(new) = NamesIn(entries) \ {name}
      /\ Paired(entries) /\ Len(kept) < Len(all) => name \in NamesIn(entries)
      /\ Paired(new) => name \notin NamesIn(new)
  BY <1>3, DeletedList, Zenon
<1>5. entries # <<>>
  <2> SUFFICES ASSUME entries = <<>> PROVE FALSE
    OBVIOUS
  <2>1. ~(name \in NamesIn(entries)) /\ Paired(entries)
    BY DEF Paired, OddTail, NamesIn
  <2> HIDE DEF all, kept, new
  <2> QED
    BY <1>1, <1>4, <2>1
<1> HIDE DEF new, kept, all
<1>6. /\ tree \in NameTrees /\ tree.at = "ref" /\ tree.files = "ref" /\ tree.entries = new
      /\ names = pdf.names /\ "files" \in Extensible(pdf)
  BY <1>2, <1>4, <1>5
<1> HIDE DEF tree
<1>7. /\ Whole(pdf') /\ Contract!Edit(<<"delete attachment", name>>) /\ Contract!KeepForm
      /\ read_attachment_reports(pdf)' = ListIn(tree)
      /\ UNCHANGED <<pdf.pages, inspect_annotations(pdf), read_metadata_entries(pdf), read_outline_tree(pdf),
                     Extensible(pdf)>>
  BY <1>1, <1>6, NamesEdit
<1>8. /\ Paired(new) => ListIn(tree) = Contract!Readable(NamesIn(new))
      /\ ~Paired(new) => ListIn(tree) = Contract!Unreadable
  BY <1>6, Listed DEF ListIn
<1> DEFINE before == read_attachment_reports(pdf)
           after == read_attachment_reports(pdf)'
<1>9. /\ Paired(entries) => before = Contract!Readable(NamesIn(entries))
      /\ ~Paired(entries) => before = Contract!Unreadable
  BY <1>2, <1>6, Listed DEF entries
<1>10. after = ListIn(tree)
  BY <1>7
<1> HIDE DEF before, after
<1>11. before.ok => name \in before.of /\ after = Contract!Without(before, {name})
  <2>1. before.ok => Paired(entries)
    BY <1>9 DEF Contract!Unreadable
  <2>2. ASSUME Paired(entries) PROVE name \in before.of /\ after = Contract!Without(before, {name})
    <3>1. before.ok /\ before.of = NamesIn(entries)
      BY <1>9, <2>2 DEF Contract!Readable
    <3>2. after = Contract!Readable(NamesIn(entries) \ {name}) /\ name \in NamesIn(entries)
      BY <1>1, <1>4, <1>8, <1>10, <2>2
    <3> QED
      BY <3>1, <3>2 DEF Contract!Without
  <2> QED
    BY <2>1, <2>2
<1>12. after.ok => name \notin after.of
  BY <1>4, <1>8, <1>10 DEF Contract!Readable, Contract!Unreadable
<1> QED
  BY <1>7, <1>11, <1>12 DEF Contract!DeleteAttachment, before, after

-----------------------------------------------------------------------------
(* The Info dictionary, the outline and encryption.                          *)

LEMMA MetadataReports ==
  ASSUME Whole(pdf), NEW added \in SUBSET Keys, NEW removed \in SUBSET Keys,
         edit_metadata(added, removed) \/ (validate_metadata /\ added = {} /\ removed = {})
  PROVE  Whole(pdf') /\ Contract!EditMetadata(added, removed)
<1> DEFINE op == <<"edit metadata", added, removed>>
           keys == (read_metadata_entries(pdf) \cup added) \ removed
<1>1. PICK doc : /\ Edit(op, doc) /\ Whole(doc) /\ SameForms(doc, pdf)
                 /\ doc.names = pdf.names /\ doc.outline = pdf.outline /\ doc.seal = pdf.seal
                 /\ read_metadata_entries(doc) = keys
  <2>1. CASE edit_metadata(added, removed)
    <3> DEFINE info == write_metadata_entries(keys)
               doc == [pdf EXCEPT !.info = info]
    <3>1. Edit(op, doc)
      BY <2>1 DEF edit_metadata
    <3>2. /\ Whole(doc) /\ SameForms(doc, pdf) /\ doc.info = info
          /\ doc.names = pdf.names /\ doc.outline = pdf.outline /\ doc.seal = pdf.seal
      BY InfoWhole
    <3>3. \A k \in Keys : info[k] \in {"text", "name"} <=> k \in keys
      BY DEF write_metadata_entries
    <3>4. keys \subseteq Keys
      BY DEF read_metadata_entries
    <3> HIDE DEF doc, info, keys
    <3>5. read_metadata_entries(doc) = keys
      BY <3>2, <3>3, <3>4 DEF read_metadata_entries
    <3> QED
      BY <3>1, <3>2, <3>5
  <2>2. CASE validate_metadata /\ added = {} /\ removed = {}
    BY <2>2 DEF validate_metadata, SameForms
  <2> QED
    BY <2>1, <2>2
<1>2. Whole(pdf') /\ Alike(pdf', doc) /\ Contract!Edit(op)
  BY <1>1, Edited
<1>3. Contract!KeepForm /\ pdf'.pages = pdf.pages /\ inspect_annotations(pdf)' = inspect_annotations(pdf)
      /\ UNCHANGED Extensible(pdf)
  BY <1>1, <1>2, FormsAside
<1>4. /\ read_attachment_reports(pdf)' = read_attachment_reports(pdf)
      /\ read_outline_tree(pdf)' = read_outline_tree(pdf)
      /\ read_metadata_entries(pdf)' = keys
  <2>1. read_outline_tree(doc) = read_outline_tree(pdf) /\ read_attachment_reports(doc) = read_attachment_reports(pdf)
    BY <1>1, ListInTree DEF read_outline_tree, SameForms
  <2> HIDE DEF keys
  <2> QED
    BY <1>1, <1>2, <2>1, Primes DEF Alike
<1> QED
  BY <1>2, <1>3, <1>4 DEF Contract!EditMetadata

LEMMA OutlineReports ==
  ASSUME Whole(pdf), NEW some, edit_outline(some)
  PROVE  Whole(pdf') /\ Contract!SetOutline(some)
<1> DEFINE doc == [pdf EXCEPT !.outline = some]
<1>1. Edit(<<"set outline", some>>, doc) /\ some \subseteq Range(pdf.pages)
  BY DEF edit_outline
<1>2. /\ Whole(doc) /\ SameForms(doc, pdf) /\ doc.outline = some
      /\ doc.names = pdf.names /\ doc.info = pdf.info /\ doc.seal = pdf.seal
  BY OutlineWhole
<1> HIDE DEF doc
<1>3. Whole(pdf') /\ Alike(pdf', doc) /\ Contract!Edit(<<"set outline", some>>)
  BY <1>1, <1>2, Edited
<1>4. Contract!KeepForm /\ pdf'.pages = pdf.pages /\ inspect_annotations(pdf)' = inspect_annotations(pdf)
      /\ UNCHANGED Extensible(pdf)
  BY <1>2, <1>3, FormsAside
<1>5. read_outline_tree(doc) = Contract!Readable(some)
  BY <1>1, <1>2 DEF read_outline_tree, SameForms, Contract!Readable
<1>6. read_metadata_entries(doc) = read_metadata_entries(pdf) /\ read_attachment_reports(doc) = read_attachment_reports(pdf)
  BY <1>2, ListInTree DEF read_metadata_entries
<1>7. /\ read_attachment_reports(pdf)' = read_attachment_reports(pdf)
      /\ read_outline_tree(pdf)' = Contract!Readable(some)
      /\ read_metadata_entries(pdf)' = read_metadata_entries(pdf)
  BY <1>3, <1>5, <1>6, Primes DEF Alike
<1> QED
  BY <1>1, <1>3, <1>4, <1>7 DEF Contract!SetOutline, Contract!Range, Range

LEMMA SealEdit ==
  ASSUME Whole(pdf), NEW seal \in OkSeals,
         pdf' \in Saved([pdf EXCEPT !.seal = seal]) \/ pdf' = [pdf EXCEPT !.seal = seal]
  PROVE  /\ Whole(pdf') /\ pdf'.seal = seal /\ Contract!KeepForm
         /\ UNCHANGED <<pdf.pages, read_attachment_reports(pdf), inspect_annotations(pdf),
                        read_metadata_entries(pdf), read_outline_tree(pdf), Extensible(pdf)>>
<1> DEFINE doc == [pdf EXCEPT !.seal = seal]
<1>1. /\ Whole(doc) /\ SameForms(doc, pdf) /\ doc.seal = seal
      /\ doc.names = pdf.names /\ doc.info = pdf.info /\ doc.outline = pdf.outline
  BY SealWhole
<1>2. pdf' \in Saved(doc) \/ pdf' = doc
  OBVIOUS
<1> HIDE DEF doc
<1>3. Whole(pdf') /\ Alike(pdf', doc)
  <2>1. Alike(doc, doc)
    BY DEF Alike
  <2> QED
    BY <1>1, <1>2, <2>1, SavedAlike
<1>4. Contract!KeepForm /\ pdf'.pages = pdf.pages /\ inspect_annotations(pdf)' = inspect_annotations(pdf)
      /\ UNCHANGED Extensible(pdf)
  BY <1>1, <1>3, FormsAside
<1>5. /\ read_attachment_reports(doc) = read_attachment_reports(pdf)
      /\ read_metadata_entries(doc) = read_metadata_entries(pdf)
      /\ read_outline_tree(doc) = read_outline_tree(pdf)
  BY <1>1, ListInTree DEF read_metadata_entries, read_outline_tree, SameForms
<1>6. /\ read_attachment_reports(pdf)' = read_attachment_reports(pdf)
      /\ read_outline_tree(pdf)' = read_outline_tree(pdf)
      /\ read_metadata_entries(pdf)' = read_metadata_entries(pdf)
      /\ pdf'.seal = seal
  BY <1>1, <1>3, <1>5, Primes DEF Alike
<1> QED
  BY <1>3, <1>4, <1>6

LEMMA SealTyped ==
  ASSUME NEW seal \in Seals
  PROVE  /\ ensure_explicit_passwords(seal) => seal \in Contract!Seals /\ seal \in OkSeals /\ seal # Open
         /\ Open \in OkSeals
         /\ seal \in OkSeals /\ seal # Open => seal \in Contract!Seals /\ seal.owner # "" /\ seal.user # ""
         /\ seal = [owner |-> seal.owner, user |-> seal.user]
<1>1. seal.owner \in Passwords \cup {""} /\ seal.user \in Passwords \cup {""}
      /\ seal = [owner |-> seal.owner, user |-> seal.user]
  BY DEF Seals
<1>2. ASSUME ensure_explicit_passwords(seal)
      PROVE  seal \in Contract!Seals /\ seal \in OkSeals /\ seal # Open
  <2>1. seal.owner # "" /\ seal.user # ""
    BY <1>2 DEF ensure_explicit_passwords
  <2>2. seal \in Contract!Seals
    BY <1>1, <2>1 DEF Contract!Seals
  <2>3. seal \in OkSeals
    BY <2>1 DEF OkSeals
  <2>4. Open.owner = ""
    BY DEF Open
  <2> QED
    BY <2>1, <2>2, <2>3, <2>4
<1>3. Open \in OkSeals
  BY DEF Open, OkSeals, Seals
<1>4. seal \in OkSeals /\ seal # Open => seal \in Contract!Seals /\ seal.owner # "" /\ seal.user # ""
  BY <1>1 DEF Contract!Seals, OkSeals, Open
<1> QED
  BY <1>1, <1>2, <1>3, <1>4

LEMMA SecurityReports ==
  ASSUME Whole(pdf)
  PROVE  /\ \A seal \in Seals : encrypt_pdf(seal) => Whole(pdf') /\ Contract!Encrypt
         /\ \A password \in Passwords : decrypt_pdf(password) => Whole(pdf') /\ Contract!Decrypt
         /\ \A seal \in Seals : set_pdf_permissions(seal) => Whole(pdf') /\ Contract!SetPermissions
<1>1. pdf.seal \in OkSeals /\ pdf.seal \in Seals
  BY DEF Whole, Typed, OkSeals
<1>2. ASSUME NEW seal \in OkSeals, NEW op, NEW before, pdf.seal \in before, last' = op,
             pdf' \in Saved([pdf EXCEPT !.seal = seal]) \/ pdf' = [pdf EXCEPT !.seal = seal]
      PROVE  Whole(pdf') /\ Contract!Secure(op, before, seal)
  BY <1>2, SealEdit DEF Contract!Secure
<1>3. ASSUME NEW seal \in Seals, encrypt_pdf(seal) PROVE Whole(pdf') /\ Contract!Encrypt
  <2>1. seal \in Contract!Seals /\ seal \in OkSeals
    BY <1>3, SealTyped DEF encrypt_pdf
  <2>2. pdf.seal \in {Contract!Open} /\ last' = <<"encrypt">> /\ pdf' \in Saved([pdf EXCEPT !.seal = seal])
    BY <1>3 DEF encrypt_pdf, Run, Write, Contract!Open, Open
  <2>3. Whole(pdf') /\ Contract!Secure(<<"encrypt">>, {Contract!Open}, seal)
    BY <1>2, <2>1, <2>2
  <2> QED
    BY <2>1, <2>3 DEF Contract!Encrypt
<1>4. ASSUME NEW password \in Passwords, decrypt_pdf(password) PROVE Whole(pdf') /\ Contract!Decrypt
  <2>1. /\ pdf.seal # Open /\ password \in {pdf.seal.owner, pdf.seal.user}
        /\ last' = <<"decrypt", password>> /\ pdf' = [pdf EXCEPT !.seal = Open]
    BY <1>4 DEF decrypt_pdf, Authenticates, Write
  <2>2. pdf.seal \in {s \in Contract!Seals : password \in {s.owner, s.user}} /\ Open \in OkSeals
    BY <1>1, <2>1, SealTyped
  <2>3. Whole(pdf') /\ Contract!Secure(<<"decrypt", password>>, {s \in Contract!Seals : password \in {s.owner, s.user}}, Open)
    BY <1>2, <2>1, <2>2
  <2> QED
    BY <2>3 DEF Contract!Decrypt, Contract!Open, Open
<1>5. ASSUME NEW seal \in Seals, set_pdf_permissions(seal) PROVE Whole(pdf') /\ Contract!SetPermissions
  <2>1. seal \in Contract!Seals /\ seal \in OkSeals
    BY <1>5, SealTyped DEF set_pdf_permissions
  <2>2. /\ last' = <<"set permissions">> /\ pdf' \in Saved([pdf EXCEPT !.seal = seal])
        /\ pdf.seal # Open => seal.owner = pdf.seal.owner
    BY <1>5 DEF set_pdf_permissions, Run, Write
  <2> DEFINE before == {Contract!Open} \cup [owner : {seal.owner}, user : Passwords]
  <2>3. pdf.seal \in before
    <3>1. CASE pdf.seal = Open
      BY <3>1 DEF Contract!Open, Open
    <3>2. CASE pdf.seal # Open
      <4>1. pdf.seal \in Contract!Seals /\ seal.owner = pdf.seal.owner
        BY <1>1, <2>2, <3>2, SealTyped
      <4>2. pdf.seal \in [owner : {seal.owner}, user : Passwords]
        BY <4>1 DEF Contract!Seals
      <4> QED  BY <4>2
    <3> QED  BY <3>1, <3>2
  <2>4. Whole(pdf') /\ Contract!Secure(<<"set permissions">>, before, seal)
    <3> HIDE DEF before
    <3> QED  BY <1>2, <2>1, <2>2, <2>3
  <2> QED
    BY <2>1, <2>4 DEF Contract!SetPermissions
<1> QED
  BY <1>3, <1>4, <1>5

-----------------------------------------------------------------------------
(* Filling and unlocking: the objects change, and no reference does.         *)

\* The two documents differ in nothing but values and flags of fields that are
\* no signatures.
Refilled(doc, old) ==
    /\ doc.pages = old.pages /\ doc.names = old.names /\ doc.annots = old.annots
    /\ doc.info = old.info /\ doc.outline = old.outline /\ doc.seal = old.seal
    /\ doc.form.fields = old.form.fields /\ doc.form.at = old.form.at
    /\ \A id \in Ids : /\ doc.objects[id].kind = old.objects[id].kind
                       /\ doc.objects[id].name = old.objects[id].name
                       /\ old.objects[id].kind = "Sig" => doc.objects[id].filled = old.objects[id].filled

LEMMA IdsTyped ==
  ASSUME NEW doc, Whole(doc)
  PROVE  /\ doc.form.fields \subseteq Ids /\ Annotated(doc) \subseteq Ids
         /\ \A p \in Range(doc.pages) : p \in PageIds /\ doc.annots[p] \in Annots /\ doc.annots[p].ids \subseteq Ids
         /\ \A id \in Ids : doc.objects[id] \in Objects
<1>1. \A p \in Range(doc.pages) : p \in PageIds /\ doc.annots[p] \in Annots /\ doc.annots[p].ids \subseteq Ids
  BY PagesTyped DEF Whole, Sound, Shape, Annots
<1>2. doc.form.fields \subseteq Ids
  BY DEF Whole, Sound, Shape, Forms
<1>3. \A id \in Ids : doc.objects[id] \in Objects
  BY DEF Whole, Sound, Shape
<1> QED
  BY <1>1, <1>2, <1>3 DEF Annotated

LEMMA RefilledReports ==
  ASSUME Whole(pdf), NEW op, NEW doc, Sound(doc), Refilled(doc, pdf), Edit(op, doc)
  PROVE  /\ Whole(pdf') /\ Contract!Edit(op)
         /\ UNCHANGED <<pdf.pages, read_attachment_reports(pdf), inspect_annotations(pdf),
                        read_metadata_entries(pdf), read_outline_tree(pdf), Extensible(pdf)>>
         /\ Dangling(pdf) = {} =>
              /\ collect_form_fields(pdf) = Contract!Readable(Fields(pdf))
              /\ collect_form_fields(pdf)' = Contract!Readable(Fields(doc))
              /\ UNCHANGED discover_pdf_signature_dictionaries(pdf)
<1>1. Whole(doc)
  BY DEF Whole, Typed, Refilled
<1>2. Whole(pdf') /\ Alike(pdf', doc) /\ Contract!Edit(op)
  BY <1>1, Edited DEF Refilled
<1>3. /\ pdf.form.fields \subseteq Ids /\ Annotated(pdf) \subseteq Ids
      /\ \A p \in Range(pdf.pages) : p \in PageIds /\ pdf.annots[p] \in Annots /\ pdf.annots[p].ids \subseteq Ids
  BY IdsTyped
<1>4. Live(doc) = Live(pdf) /\ Annotated(doc) = Annotated(pdf) /\ (AnnotationArrays(doc) <=> AnnotationArrays(pdf))
  BY DEF Refilled, Live, Annotated, AnnotationArrays
<1>5. Dangling(doc) = Dangling(pdf)
  BY <1>4 DEF Dangling, Refilled
<1>6. Notes(doc) = Notes(pdf)
  <2>1. \A p \in Range(pdf.pages) : \A id \in pdf.annots[p].ids : NoteReport(doc, p, id) = NoteReport(pdf, p, id)
    BY <1>3 DEF NoteReport, NoteName, Refilled
  <2> QED
    BY <2>1 DEF Notes, Refilled
<1>7. Signatures(doc) = Signatures(pdf)
  <2> DEFINE seen == pdf.form.fields \cup Annotated(pdf)
  <2>1. \A id \in seen : /\ IsSigned(doc, id) <=> IsSigned(pdf, id)
                         /\ doc.objects[id].name = pdf.objects[id].name
    BY <1>3 DEF IsSigned, Refilled
  <2>2. Signatures(doc) = {doc.objects[id].name : id \in {i \in seen : IsSigned(doc, i)}}
    BY <1>4 DEF Signatures, Refilled
  <2> QED
    BY <2>1, <2>2 DEF Signatures
<1>8. inspect_annotations(doc) = inspect_annotations(pdf)
  BY <1>1, <1>4, <1>6, Reported
<1>9. /\ read_attachment_reports(doc) = read_attachment_reports(pdf)
      /\ read_metadata_entries(doc) = read_metadata_entries(pdf)
      /\ read_outline_tree(doc) = read_outline_tree(pdf) /\ Extensible(doc) = Extensible(pdf)
  BY ListInTree, SameExtensible DEF read_metadata_entries, read_outline_tree, Refilled
<1>10. UNCHANGED <<pdf.pages, read_attachment_reports(pdf), inspect_annotations(pdf),
                   read_metadata_entries(pdf), read_outline_tree(pdf), Extensible(pdf)>>
  BY <1>2, <1>8, <1>9, Primes DEF Alike, Refilled
<1>11. ASSUME Dangling(pdf) = {}
       PROVE  /\ collect_form_fields(pdf) = Contract!Readable(Fields(pdf))
              /\ collect_form_fields(pdf)' = Contract!Readable(Fields(doc))
              /\ UNCHANGED discover_pdf_signature_dictionaries(pdf)
  <2>1. /\ collect_form_fields(doc) = Contract!Readable(Fields(doc))
        /\ collect_form_fields(pdf) = Contract!Readable(Fields(pdf))
        /\ discover_pdf_signature_dictionaries(doc) = Contract!Readable(Signatures(doc))
        /\ discover_pdf_signature_dictionaries(pdf) = Contract!Readable(Signatures(pdf))
    BY <1>1, <1>5, <1>11, Reported
  <2> QED
    BY <1>2, <1>5, <1>7, <1>11, <2>1, Primes DEF Alike
<1> QED
  BY <1>2, <1>10, <1>11

LEMMA ReadableParts ==
  ASSUME NEW set
  PROVE  Contract!Readable(set).ok /\ Contract!Readable(set).of = set /\ ~Contract!Unreadable.ok
  BY DEF Contract!Readable, Contract!Unreadable

LEMMA Unlocked ==
  ASSUME NEW doc, NEW id, NEW x
  PROVE  [FieldReport(doc, id) EXCEPT !.readonly = x] =
           [id |-> id, kind |-> doc.objects[id].kind, name |-> doc.objects[id].name,
            filled |-> doc.objects[id].filled, readonly |-> x]
  BY DEF FieldReport

LEMMA Filled ==
  ASSUME NEW doc, NEW id, NEW x
  PROVE  [FieldReport(doc, id) EXCEPT !.filled = x] =
           [id |-> id, kind |-> doc.objects[id].kind, name |-> doc.objects[id].name,
            filled |-> x, readonly |-> doc.objects[id].readonly]
  BY DEF FieldReport

\* A field that can be read is reported with what it is.
LEMMA FieldReports ==
  ASSUME NEW doc, NEW id
  PROVE  /\ FieldReport(doc, id).id = id /\ FieldReport(doc, id).kind = doc.objects[id].kind
         /\ FieldReport(doc, id).name = doc.objects[id].name
         /\ FieldReport(doc, id).filled = doc.objects[id].filled
         /\ FieldReport(doc, id).readonly = doc.objects[id].readonly
  BY DEF FieldReport

\* The signatures that the form has a field for.
SignedNames(doc) == {doc.objects[id].name : id \in {i \in doc.form.fields : IsSigned(doc, i)}}

LEMMA SignedReports ==
  ASSUME NEW doc
  PROVE  /\ {f.name : f \in {g \in Fields(doc) : g.kind = "Sig" /\ g.filled}} = SignedNames(doc)
         /\ SignedNames(doc) \subseteq Signatures(doc)
         /\ Annotated(doc) = {} => Signatures(doc) = SignedNames(doc)
<1>1. \A id \in doc.form.fields :
        IsSigned(doc, id) <=> /\ IsField(doc, id) /\ FieldReport(doc, id).kind = "Sig"
                              /\ FieldReport(doc, id).filled
  BY FieldReports DEF IsSigned, IsField
<1>2. {g \in Fields(doc) : g.kind = "Sig" /\ g.filled} =
        {FieldReport(doc, id) : id \in {i \in doc.form.fields : IsSigned(doc, i)}}
  BY <1>1 DEF Fields
<1>3. \A id : FieldReport(doc, id).name = doc.objects[id].name
  BY FieldReports
<1>4. {f.name : f \in {g \in Fields(doc) : g.kind = "Sig" /\ g.filled}} = SignedNames(doc)
  BY <1>2, <1>3 DEF SignedNames
<1>5. SignedNames(doc) \subseteq Signatures(doc) /\ (Annotated(doc) = {} => Signatures(doc) = SignedNames(doc))
  BY DEF SignedNames, Signatures
<1> QED
  BY <1>4, <1>5

\* The document that an edit of the objects makes.
LEMMA WithObjects ==
  ASSUME NEW doc, Sound(doc), NEW objects
  PROVE  LET new == With(doc, objects)
         IN  /\ new.pages = doc.pages /\ new.names = doc.names /\ new.annots = doc.annots
             /\ new.info = doc.info /\ new.outline = doc.outline /\ new.seal = doc.seal
             /\ new.form = doc.form /\ new.objects = objects
  BY DEF With, Sound, Shape

LEMMA UnlockReports ==
  ASSUME Whole(pdf), unlock_form_readonly
  PROVE  Whole(pdf') /\ Contract!UnlockForm
<1> DEFINE changed == [id \in Ids |-> [pdf.objects[id] EXCEPT !.readonly = @ /\ id \notin pdf.form.fields]]
           doc == With(pdf, changed)
<1>1. Edit(<<"unlock form">>, doc) /\ Dangling(pdf) = {}
  BY DEF unlock_form_readonly
<1>2. /\ changed \in [Ids -> Objects]
      /\ \A id \in Ids : /\ changed[id].kind = pdf.objects[id].kind /\ changed[id].name = pdf.objects[id].name
                         /\ changed[id].filled = pdf.objects[id].filled
                         /\ id \in pdf.form.fields => changed[id].readonly = FALSE
  BY DEF Whole, Sound, Shape, Objects
<1> HIDE DEF changed
<1>3. Sound(doc)
  BY <1>2, ObjectsSound DEF With, Whole
<1>4. /\ doc.pages = pdf.pages /\ doc.names = pdf.names /\ doc.annots = pdf.annots
      /\ doc.info = pdf.info /\ doc.outline = pdf.outline /\ doc.seal = pdf.seal
      /\ doc.form = pdf.form /\ doc.objects = changed
  BY WithObjects DEF Whole
<1> HIDE DEF doc
<1>5. Refilled(doc, pdf)
  BY <1>2, <1>4 DEF Refilled
<1>6. /\ Whole(pdf') /\ Contract!Edit(<<"unlock form">>)
      /\ UNCHANGED <<pdf.pages, read_attachment_reports(pdf), inspect_annotations(pdf),
                     read_metadata_entries(pdf), read_outline_tree(pdf), Extensible(pdf)>>
      /\ collect_form_fields(pdf) = Contract!Readable(Fields(pdf))
      /\ collect_form_fields(pdf)' = Contract!Readable(Fields(doc))
      /\ UNCHANGED discover_pdf_signature_dictionaries(pdf)
  BY <1>1, <1>3, <1>5, RefilledReports
<1>7. Fields(doc) = {[f EXCEPT !.readonly = FALSE] : f \in Fields(pdf)}
  <2>1. \A id \in pdf.form.fields : /\ FieldReport(doc, id) = [FieldReport(pdf, id) EXCEPT !.readonly = FALSE]
                                    /\ IsField(doc, id) <=> IsField(pdf, id)
    <3> TAKE id \in pdf.form.fields
    <3>1. id \in Ids /\ doc.objects[id] = changed[id]
      BY <1>4, IdsTyped
    <3>2. /\ changed[id].kind = pdf.objects[id].kind /\ changed[id].name = pdf.objects[id].name
          /\ changed[id].filled = pdf.objects[id].filled /\ changed[id].readonly = FALSE
      BY <1>2, <3>1
    <3>3. FieldReport(doc, id) = [id |-> id, kind |-> pdf.objects[id].kind, name |-> pdf.objects[id].name,
                                  filled |-> pdf.objects[id].filled, readonly |-> FALSE]
      BY <3>1, <3>2 DEF FieldReport
    <3>4. FieldReport(doc, id) = [FieldReport(pdf, id) EXCEPT !.readonly = FALSE]
      <4>1. \A x : [FieldReport(pdf, id) EXCEPT !.readonly = x] =
                     [id |-> id, kind |-> pdf.objects[id].kind, name |-> pdf.objects[id].name,
                      filled |-> pdf.objects[id].filled, readonly |-> x]
        BY Unlocked
      <4>2. [FieldReport(pdf, id) EXCEPT !.readonly = FALSE] =
                     [id |-> id, kind |-> pdf.objects[id].kind, name |-> pdf.objects[id].name,
                      filled |-> pdf.objects[id].filled, readonly |-> FALSE]
        BY <4>1
      <4> QED
        BY <3>3, <4>2
    <3>5. IsField(doc, id) <=> IsField(pdf, id)
      BY <3>1, <3>2 DEF IsField
    <3> QED
      BY <3>4, <3>5
  <2>2. Fields(doc) = {FieldReport(doc, id) : id \in {i \in pdf.form.fields : IsField(doc, i)}}
    BY <1>4 DEF Fields
  <2>3. Fields(doc) = {[FieldReport(pdf, id) EXCEPT !.readonly = FALSE] : id \in {i \in pdf.form.fields : IsField(pdf, i)}}
    BY <2>1, <2>2
  <2> QED
    BY <2>3 DEF Fields
<1>8. collect_form_fields(pdf).ok /\ collect_form_fields(pdf).of = Fields(pdf)
  <2>1. collect_form_fields(pdf) = Contract!Readable(Fields(pdf))
    BY <1>6
  <2> QED
    BY <2>1, ReadableParts
<1> QED
  BY <1>6, <1>7, <1>8 DEF Contract!UnlockForm

LEMMA FillReports ==
  ASSUME Whole(pdf), NEW names \in SUBSET Texts, fill_form(names)
  PROVE  Whole(pdf') /\ Contract!FillForm(names)
<1> DEFINE flag == pdf.form.need_appearances \/ (names # {} /\ pdf.form.at # "none")
           form == [pdf.form EXCEPT !.need_appearances = flag]
           flagged == [pdf EXCEPT !.form = form]
           changed(chosen) == [id \in Ids |-> [pdf.objects[id] EXCEPT !.filled = @ \/ id \in Range(chosen)]]
           op == <<"fill form", names>>
<1>1. PICK chosen \in [names -> pdf.form.fields] :
         /\ \A n \in names : chosen[n] \in FieldsNamed(pdf, n) /\ pdf.objects[chosen[n]].kind = "Tx"
         /\ Edit(op, With(flagged, changed(chosen)))
  <2>1. [pdf EXCEPT !.form.need_appearances = @ \/ (names # {} /\ pdf.form.at # "none")] = flagged
    OBVIOUS
  <2> QED
    BY <2>1 DEF fill_form
<1> DEFINE filled == Range(chosen)
           objects == changed(chosen)
           doc == With(flagged, objects)
<1>2. flag \in BOOLEAN
  BY DEF Whole, Sound, Shape, Forms
<1> HIDE DEF flag
<1>3. form \in Forms /\ form.at = pdf.form.at /\ form.fields = pdf.form.fields
  BY <1>2 DEF Whole, Sound, Shape, Forms
<1> HIDE DEF form
<1>4. Sound(flagged)
  BY <1>3, FormSound DEF Whole, Sound, Resolves
<1>5. /\ flagged.pages = pdf.pages /\ flagged.names = pdf.names /\ flagged.annots = pdf.annots
      /\ flagged.info = pdf.info /\ flagged.outline = pdf.outline /\ flagged.seal = pdf.seal
      /\ flagged.form.fields = pdf.form.fields /\ flagged.form.at = pdf.form.at
      /\ flagged.objects = pdf.objects
  BY <1>3 DEF Whole, Sound, Shape
<1>6. /\ objects \in [Ids -> Objects]
      /\ \A id \in Ids : /\ objects[id].kind = pdf.objects[id].kind /\ objects[id].name = pdf.objects[id].name
                         /\ objects[id].readonly = pdf.objects[id].readonly
                         /\ id \in filled => objects[id].filled = TRUE
                         /\ id \notin filled => objects[id].filled = pdf.objects[id].filled
  <2> HIDE DEF filled
  <2> QED  BY DEF Whole, Sound, Shape, Objects, filled
<1> HIDE DEF flagged, objects, changed
<1>7. Sound(doc)
  BY <1>4, <1>5, <1>6, ObjectsSound DEF With
<1>8. /\ doc.pages = pdf.pages /\ doc.names = pdf.names /\ doc.annots = pdf.annots
      /\ doc.info = pdf.info /\ doc.outline = pdf.outline /\ doc.seal = pdf.seal
      /\ doc.form.fields = pdf.form.fields /\ doc.form.at = pdf.form.at /\ doc.objects = objects
  BY <1>4, <1>5, WithObjects
<1>9. Edit(op, doc)
  BY <1>1 DEF objects
<1> HIDE DEF doc
<1>10. filled = {chosen[n] : n \in names}
  BY DEF Range
<1>11. \A id \in filled : /\ id \in pdf.form.fields /\ id \in Ids /\ IsField(pdf, id)
                          /\ pdf.objects[id].kind = "Tx" /\ pdf.objects[id].name \in names
  <2>1. \A n \in names : /\ chosen[n] \in pdf.form.fields /\ IsField(pdf, chosen[n])
                         /\ pdf.objects[chosen[n]].kind = "Tx" /\ pdf.objects[chosen[n]].name = n
    BY <1>1 DEF FieldsNamed
  <2>2. pdf.form.fields \subseteq Ids
    BY IdsTyped
  <2> QED
    BY <1>10, <2>1, <2>2
<1>12. \A n \in names : chosen[n] \in filled /\ pdf.objects[chosen[n]].name = n
  BY <1>1, <1>10 DEF FieldsNamed
<1> HIDE DEF filled
<1>13. Refilled(doc, pdf)
  <2>1. \A id \in Ids : pdf.objects[id].kind = "Sig" => doc.objects[id].filled = pdf.objects[id].filled
    BY <1>6, <1>8, <1>11
  <2> QED
    BY <1>6, <1>8, <2>1 DEF Refilled
<1>14. /\ Whole(pdf') /\ Contract!Edit(op)
       /\ UNCHANGED <<pdf.pages, read_attachment_reports(pdf), inspect_annotations(pdf),
                      read_metadata_entries(pdf), read_outline_tree(pdf), Extensible(pdf)>>
       /\ Dangling(pdf) = {} =>
            /\ collect_form_fields(pdf) = Contract!Readable(Fields(pdf))
            /\ collect_form_fields(pdf)' = Contract!Readable(Fields(doc))
            /\ UNCHANGED discover_pdf_signature_dictionaries(pdf)
  BY <1>7, <1>9, <1>13, RefilledReports
<1>15. CASE Dangling(pdf) # {}
  <2>1. ~collect_form_fields(pdf).ok
    BY <1>15 DEF collect_form_fields
  <2> QED
    BY <1>14, <2>1 DEF Contract!FillForm
<1>16. CASE Dangling(pdf) = {}
  <2> DEFINE picked == {FieldReport(pdf, id) : id \in filled}
             new(f) == IF f \in picked THEN [f EXCEPT !.filled = TRUE] ELSE f
             old == Fields(pdf)
  <2>1. \A id \in pdf.form.fields : FieldReport(pdf, id) \in picked <=> id \in filled
    BY FieldReports
  <2>2. ASSUME NEW id \in pdf.form.fields
        PROVE  /\ FieldReport(doc, id) = new(FieldReport(pdf, id))
               /\ IsField(doc, id) <=> IsField(pdf, id)
    <3>1. id \in Ids /\ doc.objects[id] = objects[id]
      BY <1>8, IdsTyped
    <3>2. IsField(doc, id) <=> IsField(pdf, id)
      BY <1>6, <3>1 DEF IsField
    <3>3. CASE id \notin filled
      <4>1. FieldReport(doc, id) = FieldReport(pdf, id)
        BY <1>6, <3>1, <3>3 DEF FieldReport
      <4> HIDE DEF picked
      <4> QED
        BY <2>1, <3>2, <3>3, <4>1
    <3>4. CASE id \in filled
      <4>1. FieldReport(doc, id) = [id |-> id, kind |-> pdf.objects[id].kind, name |-> pdf.objects[id].name,
                                    filled |-> TRUE, readonly |-> pdf.objects[id].readonly]
        BY <1>6, <3>1, <3>4 DEF FieldReport
      <4>2. \A x : [FieldReport(pdf, id) EXCEPT !.filled = x] =
                     [id |-> id, kind |-> pdf.objects[id].kind, name |-> pdf.objects[id].name,
                      filled |-> x, readonly |-> pdf.objects[id].readonly]
        BY Filled
      <4>3. [FieldReport(pdf, id) EXCEPT !.filled = TRUE] =
                     [id |-> id, kind |-> pdf.objects[id].kind, name |-> pdf.objects[id].name,
                      filled |-> TRUE, readonly |-> pdf.objects[id].readonly]
        BY <4>2
      <4> HIDE DEF picked
      <4> QED
        BY <2>1, <3>2, <3>4, <4>1, <4>3
    <3> QED
      BY <3>3, <3>4
  <2>3. Fields(doc) = {new(f) : f \in old}
    <3>1. Fields(doc) = {FieldReport(doc, id) : id \in {i \in pdf.form.fields : IsField(doc, i)}}
      BY <1>8 DEF Fields
    <3> HIDE DEF new, picked
    <3>2. Fields(doc) = {new(FieldReport(pdf, id)) : id \in {i \in pdf.form.fields : IsField(pdf, i)}}
      BY <2>2, <3>1
    <3> QED
      BY <3>2 DEF Fields
  <2>4. picked \in SUBSET {f \in old : f.kind = "Tx" /\ f.name \in names}
    BY <1>11, FieldReports DEF Fields
  <2>5. {f.name : f \in picked} = names
    <3>1. \A id \in filled : FieldReport(pdf, id).name \in names
      BY <1>11, FieldReports
    <3>2. \A n \in names : chosen[n] \in filled /\ FieldReport(pdf, chosen[n]).name = n
      BY <1>12, FieldReports
    <3> QED
      BY <3>1, <3>2
  <2>6. \A f, g \in picked : f.name = g.name => f = g
    <3>1. \A i, j \in filled : pdf.objects[i].name = pdf.objects[j].name => i = j
      BY <1>10, <1>12
    <3> QED
      BY <3>1, FieldReports
  <2> HIDE DEF picked, old
  <2> DEFINE before == collect_form_fields(pdf)
             after == collect_form_fields(pdf)'
  <2>7. before = Contract!Readable(old) /\ after = Contract!Readable({new(f) : f \in old})
    BY <1>14, <1>16, <2>3 DEF old
  <2>8. before.of = old
    BY <2>7, ReadableParts
  <2> HIDE DEF before, after
  <2>9. \E taken \in SUBSET {f \in before.of : f.kind = "Tx" /\ f.name \in names} :
          /\ {f.name : f \in taken} = names
          /\ \A f, g \in taken : f.name = g.name => f = g
          /\ after = Contract!Readable({IF f \in taken THEN [f EXCEPT !.filled = TRUE] ELSE f : f \in before.of})
    <3>1. picked \in SUBSET {f \in before.of : f.kind = "Tx" /\ f.name \in names}
      BY <2>4, <2>8 DEF old
    <3>2. after = Contract!Readable({IF f \in picked THEN [f EXCEPT !.filled = TRUE] ELSE f : f \in before.of})
      BY <2>7, <2>8
    <3> QED
      BY <2>5, <2>6, <3>1, <3>2
  <2> QED
    BY <1>14, <1>16, <2>9 DEF Contract!FillForm, before, after
<1> QED
  BY <1>14, <1>15, <1>16

-----------------------------------------------------------------------------
(* Removing interactive elements.                                            *)

Bare(doc) == \A p \in Range(doc.pages) : doc.annots[p] = NoAnnots

LEMMA BareReports ==
  ASSUME NEW doc, Whole(doc), Bare(doc)
  PROVE  /\ Annotated(doc) = {} /\ inspect_annotations(doc) = Contract!Readable({})
         /\ doc.form = NoForm =>
              /\ Dangling(doc) = {}
              /\ collect_form_fields(doc) = Contract!Readable({})
              /\ discover_pdf_signature_dictionaries(doc) = Contract!Readable({})
<1>1. NoAnnots.ids = {} /\ NoAnnots.at = "none" /\ NoForm.fields = {}
  BY DEF NoAnnots, NoForm
<1>2. Annotated(doc) = {} /\ Notes(doc) = {} /\ AnnotationArrays(doc)
  BY <1>1 DEF Bare, Annotated, Notes, AnnotationArrays
<1>3. inspect_annotations(doc) = Contract!Readable({})
  BY <1>2, Reported
<1>4. ASSUME doc.form = NoForm
      PROVE  /\ Dangling(doc) = {}
             /\ collect_form_fields(doc) = Contract!Readable({})
             /\ discover_pdf_signature_dictionaries(doc) = Contract!Readable({})
  <2>1. Dangling(doc) = {} /\ Fields(doc) = {} /\ Signatures(doc) = {}
    BY <1>1, <1>2, <1>4 DEF Dangling, Fields, Signatures
  <2> QED
    BY <2>1, Reported
<1> QED
  BY <1>2, <1>3, <1>4

\* The lists that go with some parts.
Lost(parts) ==
    {part \in {"files", "fields"} :
        IF part = "files" THEN "embedded_files" \in parts ELSE "forms" \in parts}

\* What is left of a document when some parts are removed.
Removed(doc, old, parts) ==
    /\ doc.pages = old.pages /\ doc.objects = old.objects
    /\ doc.info = old.info /\ doc.outline = old.outline /\ doc.seal = old.seal
    /\ IF "forms" \in parts THEN doc.form = NoForm ELSE doc.form = old.form
    /\ IF "forms" \in parts \/ "annotations" \in parts THEN Bare(doc) ELSE doc.annots = old.annots
    /\ IF "embedded_files" \in parts THEN ListIn(doc.names) = Contract!Readable({})
                                     ELSE ListIn(doc.names) = ListIn(old.names)
    /\ Extensible(doc) = Extensible(old) \ Lost(parts)

LEMMA AnnotationsRemoved ==
  ASSUME NEW doc, Whole(doc), NEW old, NEW parts, Removed(doc, old, parts)
  PROVE  LET new == remove_annotations(doc)
         IN  Whole(new) /\ Removed(new, old, parts \cup {"annotations"})
<1> DEFINE fewer == [p \in PageIds |-> IF p \in Range(doc.pages) THEN NoAnnots ELSE doc.annots[p]]
           new == remove_annotations(doc)
<1>1. new = [doc EXCEPT !.annots = fewer]
  BY DEF remove_annotations
<1>2. \A p \in Range(doc.pages) : fewer[p] = NoAnnots
  BY PagesTyped
<1>3. Sound(new)
  BY RemovalSound DEF Whole
<1> HIDE DEF new, fewer
<1>4. /\ new.pages = doc.pages /\ new.objects = doc.objects /\ new.names = doc.names
      /\ new.info = doc.info /\ new.outline = doc.outline /\ new.seal = doc.seal
      /\ new.form = doc.form /\ new.annots = fewer
  BY <1>1 DEF Whole, Sound, Shape
<1>5. Whole(new) /\ Bare(new)
  BY <1>2, <1>3, <1>4 DEF Whole, Typed, Bare
<1>6. Extensible(new) = Extensible(doc) /\ Lost(parts \cup {"annotations"}) = Lost(parts)
  BY <1>4, SameExtensible DEF Lost
<1> QED
  BY <1>4, <1>5, <1>6 DEF Removed, new

LEMMA FormsRemoved ==
  ASSUME NEW doc, Whole(doc), NEW old, NEW parts, Removed(doc, old, parts)
  PROVE  LET new == remove_acroform(doc)
         IN  Whole(new) /\ Removed(new, old, parts \cup {"forms"})
<1> DEFINE formless == [doc EXCEPT !.form = NoForm]
           new == remove_acroform(doc)
<1>1. NoForm \in Forms /\ NoForm.fields = {}
  BY DEF NoForm, Forms, Places
<1>2. Sound(formless)
  BY <1>1, FormSound DEF Whole
<1>3. /\ formless.pages = doc.pages /\ formless.objects = doc.objects /\ formless.names = doc.names
      /\ formless.info = doc.info /\ formless.outline = doc.outline /\ formless.seal = doc.seal
      /\ formless.form = NoForm /\ formless.annots = doc.annots
  BY DEF Whole, Sound, Shape
<1>4. new = remove_annotations(formless)
  BY DEF remove_acroform
<1> HIDE DEF formless, new
<1>5. Whole(formless)
  BY <1>2, <1>3 DEF Whole, Typed
<1>6. Removed(formless, formless, {})
  BY DEF Removed, Lost
<1>7. Whole(new) /\ Removed(new, formless, {"annotations"})
  <2>1. {} \cup {"annotations"} = {"annotations"}
    OBVIOUS
  <2> QED
    BY <1>4, <1>5, <1>6, <2>1, AnnotationsRemoved
<1>8. Extensible(new) = Extensible(doc) \ {"fields"}
  <2>1. Extensible(new) = Extensible(formless)
    BY <1>7 DEF Removed, Lost
  <2>2. Extensible(formless) = Extensible(doc) \ {"fields"}
    BY <1>3 DEF Extensible, NoForm
  <2> QED
    BY <2>1, <2>2
<1>9. Extensible(new) = Extensible(old) \ Lost(parts \cup {"forms"})
  BY <1>8 DEF Removed, Lost
<1> QED
  BY <1>3, <1>7, <1>9 DEF Removed, new

LEMMA ActionsRemoved ==
  ASSUME NEW doc, Whole(doc), NEW old, NEW parts, Removed(doc, old, parts)
  PROVE  LET new == remove_actions(doc)
         IN  Whole(new) /\ Removed(new, old, parts \cup {"actions"})
<1> DEFINE new == remove_actions(doc)
<1>1. Sound(new)
  BY NameTreeEdits DEF Whole
<1>2. new = [doc EXCEPT !.actions = FALSE]
  BY DEF remove_actions
<1> HIDE DEF new
<1>3. /\ new.pages = doc.pages /\ new.objects = doc.objects /\ new.names = doc.names
      /\ new.info = doc.info /\ new.outline = doc.outline /\ new.seal = doc.seal
      /\ new.form = doc.form /\ new.annots = doc.annots
  BY <1>2 DEF Whole, Sound, Shape
<1>4. Whole(new)
  BY <1>1, <1>3 DEF Whole, Typed
<1>5. Extensible(new) = Extensible(doc) /\ Lost(parts \cup {"actions"}) = Lost(parts)
  BY <1>3, SameExtensible DEF Lost
<1> QED
  BY <1>3, <1>4, <1>5 DEF Removed, Bare, new

LEMMA NamesRemoved ==
  ASSUME NEW doc, Whole(doc), NEW old, NEW parts, Removed(doc, old, parts)
  PROVE  /\ LET new == remove_javascript(doc)
            IN  Whole(new) /\ Removed(new, old, parts \cup {"javascript"})
         /\ LET new == remove_embedded_files(doc)
            IN  Whole(new) /\ Removed(new, old, parts \cup {"embedded_files"})
<1> DEFINE unscripted == [doc.names EXCEPT !.script = FALSE]
           emptied == [doc.names EXCEPT !.files = "none", !.entries = <<>>]
<1>1. doc.names \in NameTrees
  BY DEF Whole, Typed
<1> DEFINE S == Seq(Entries)
<1>2. NameTrees = [at : Places, script : BOOLEAN, files : Places, entries : S] /\ <<>> \in S
  BY DEF NameTrees
<1> HIDE DEF S
<1>3. unscripted \in NameTrees /\ unscripted.at = doc.names.at
      /\ unscripted.files = doc.names.files /\ unscripted.entries = doc.names.entries
  BY <1>1, <1>2
<1>4. emptied \in NameTrees /\ emptied.files = "none"
  BY <1>1, <1>2 DEF Places
<1>5. ListIn(unscripted) = ListIn(doc.names)
  BY <1>3 DEF ListIn, read_attachment_reports
<1>6. ListIn(emptied) = Contract!Readable({})
  BY <1>4, Listed DEF ListIn
<1>7. remove_javascript(doc) = [doc EXCEPT !.names = unscripted]
  BY DEF remove_javascript
<1>8. remove_embedded_files(doc) = [doc EXCEPT !.names = emptied]
  BY DEF remove_embedded_files, Whole, Sound, Shape
<1> HIDE DEF unscripted, emptied
<1>9. ASSUME NEW tree \in NameTrees, NEW new, new = [doc EXCEPT !.names = tree]
      PROVE  /\ Whole(new) /\ new.names = tree
             /\ new.pages = doc.pages /\ new.objects = doc.objects
             /\ new.info = doc.info /\ new.outline = doc.outline /\ new.seal = doc.seal
             /\ new.form = doc.form /\ new.annots = doc.annots
  BY <1>9, NamesWhole DEF SameForms
<1>10. LET new == remove_javascript(doc)
       IN  Whole(new) /\ Removed(new, old, parts \cup {"javascript"})
  <2> DEFINE new == remove_javascript(doc)
  <2>1. /\ Whole(new) /\ new.names = unscripted
        /\ new.pages = doc.pages /\ new.objects = doc.objects
        /\ new.info = doc.info /\ new.outline = doc.outline /\ new.seal = doc.seal
        /\ new.form = doc.form /\ new.annots = doc.annots
    BY <1>3, <1>7, <1>9
  <2> HIDE DEF new
  <2>2. Extensible(new) = Extensible(doc) /\ Lost(parts \cup {"javascript"}) = Lost(parts)
    BY <1>3, <2>1 DEF Extensible, Lost
  <2>3. Removed(new, old, parts \cup {"javascript"})
    BY <1>5, <2>1, <2>2 DEF Removed, Bare
  <2> QED
    BY <2>1, <2>3 DEF new
<1>11. LET new == remove_embedded_files(doc)
       IN  Whole(new) /\ Removed(new, old, parts \cup {"embedded_files"})
  <2> DEFINE new == remove_embedded_files(doc)
  <2>1. /\ Whole(new) /\ new.names = emptied
        /\ new.pages = doc.pages /\ new.objects = doc.objects
        /\ new.info = doc.info /\ new.outline = doc.outline /\ new.seal = doc.seal
        /\ new.form = doc.form /\ new.annots = doc.annots
    BY <1>4, <1>8, <1>9
  <2> HIDE DEF new
  <2>2. Extensible(new) = Extensible(doc) \ {"files"}
    BY <1>4, <2>1 DEF Extensible
  <2>3. Extensible(new) = Extensible(old) \ Lost(parts \cup {"embedded_files"})
    BY <2>2 DEF Removed, Lost
  <2>4. Removed(new, old, parts \cup {"embedded_files"})
    BY <1>6, <2>1, <2>3 DEF Removed, Bare
  <2> QED
    BY <2>1, <2>4 DEF new
<1> QED
  BY <1>10, <1>11

LEMMA RemovedReports ==
  ASSUME Whole(pdf), NEW doc, NEW what, Whole(doc), Removed(doc, pdf, what), NEW op, Edit(op, doc)
  PROVE  /\ Whole(pdf') /\ Contract!Edit(op)
         /\ IF "forms" \in what THEN Contract!FormGone
            ELSE IF "annotations" \in what THEN Contract!NotesGone
            ELSE Contract!KeepForm /\ UNCHANGED inspect_annotations(pdf)
         /\ read_attachment_reports(pdf)' =
              IF "embedded_files" \in what THEN Contract!Readable({}) ELSE read_attachment_reports(pdf)
         /\ UNCHANGED <<pdf.pages, read_metadata_entries(pdf), read_outline_tree(pdf)>>
         /\ Extensible(pdf)' = Extensible(pdf) \ Lost(what)
<1>1. Whole(pdf') /\ Alike(pdf', doc) /\ Contract!Edit(op)
  BY Edited DEF Removed
<1>2. ASSUME "forms" \in what PROVE Contract!FormGone
  <2>1. Bare(doc) /\ doc.form = NoForm
    BY <1>2 DEF Removed
  <2>2. /\ Dangling(doc) = {} /\ inspect_annotations(doc) = Contract!Readable({})
        /\ collect_form_fields(doc) = Contract!Readable({})
        /\ discover_pdf_signature_dictionaries(doc) = Contract!Readable({})
    BY <2>1, BareReports
  <2> QED
    BY <1>1, <2>2, Primes DEF Alike, Contract!FormGone
<1>3. ASSUME "forms" \notin what, "annotations" \in what PROVE Contract!NotesGone
  <2>1. Bare(doc) /\ doc.form = pdf.form /\ doc.objects = pdf.objects
    BY <1>3 DEF Removed
  <2>2. Annotated(doc) = {} /\ inspect_annotations(doc) = Contract!Readable({})
    BY <2>1, BareReports
  <2>3. inspect_annotations(pdf)' = Contract!Readable({})
    BY <1>1, <2>2, Primes DEF Alike
  <2>4. CASE Dangling(pdf) # {}
    <3>1. ~collect_form_fields(pdf).ok
      BY <2>4 DEF collect_form_fields
    <3> QED
      BY <2>3, <3>1 DEF Contract!NotesGone
  <2>5. CASE Dangling(pdf) = {}
    <3>1. Dangling(doc) = {} /\ Fields(doc) = Fields(pdf) /\ Signatures(doc) = SignedNames(pdf)
      <4>1. Dangling(doc) = {} /\ Fields(doc) = Fields(pdf) /\ SignedNames(doc) = SignedNames(pdf)
        BY <2>1, <2>5 DEF Dangling, Live, Fields, SignedNames, IsField, IsSigned, FieldReport
      <4> QED
        BY <2>2, <4>1, SignedReports
    <3>2. /\ collect_form_fields(doc) = Contract!Readable(Fields(doc))
          /\ collect_form_fields(pdf) = Contract!Readable(Fields(pdf))
          /\ discover_pdf_signature_dictionaries(doc) = Contract!Readable(Signatures(doc))
      BY <2>5, <3>1, Reported
    <3>3. /\ collect_form_fields(pdf)' = collect_form_fields(pdf)
          /\ discover_pdf_signature_dictionaries(pdf)' = Contract!Readable(SignedNames(pdf))
      BY <1>1, <3>1, <3>2, Primes DEF Alike
    <3>4. Contract!SignedFields = SignedNames(pdf)
      <4>1. collect_form_fields(pdf).of = Fields(pdf)
        BY <3>2, ReadableParts
      <4> QED
        BY <4>1, SignedReports DEF Contract!SignedFields
    <3> QED
      BY <2>3, <3>3, <3>4 DEF Contract!NotesGone
  <2> QED
    BY <2>4, <2>5
<1>4. ASSUME "forms" \notin what, "annotations" \notin what
      PROVE  Contract!KeepForm /\ UNCHANGED inspect_annotations(pdf)
  <2>1. SameForms(doc, pdf)
    BY <1>4 DEF Removed, SameForms
  <2> QED
    BY <1>1, <2>1, FormsAside
<1>5. read_attachment_reports(pdf)' =
        IF "embedded_files" \in what THEN Contract!Readable({}) ELSE read_attachment_reports(pdf)
  BY <1>1, ListInTree, Primes DEF Alike, Removed
<1>6. UNCHANGED <<pdf.pages, read_metadata_entries(pdf), read_outline_tree(pdf)>>
  <2>1. read_metadata_entries(doc) = read_metadata_entries(pdf) /\ read_outline_tree(doc) = read_outline_tree(pdf)
    BY DEF Removed, read_metadata_entries, read_outline_tree
  <2> QED
    BY <1>1, <2>1, Primes DEF Alike, Removed
<1>7. Extensible(pdf)' = Extensible(pdf) \ Lost(what)
  BY <1>1, Primes DEF Alike, Removed
<1> QED
  BY <1>1, <1>2, <1>3, <1>4, <1>5, <1>6, <1>7

LEMMA RemoveFormReports ==
  ASSUME Whole(pdf), remove_forms
  PROVE  Whole(pdf') /\ Contract!RemoveForm
<1> DEFINE doc == remove_acroform(pdf)
<1>1. Edit(<<"remove form">>, doc)
  BY DEF remove_forms
<1>2. Removed(pdf, pdf, {})
  BY DEF Removed, Lost
<1>3. Whole(doc) /\ Removed(doc, pdf, {"forms"})
  <2>1. {} \cup {"forms"} = {"forms"}
    OBVIOUS
  <2> QED
    BY <1>2, <2>1, FormsRemoved
<1> HIDE DEF doc
<1>4. /\ Whole(pdf') /\ Contract!Edit(<<"remove form">>) /\ Contract!FormGone
      /\ read_attachment_reports(pdf)' = read_attachment_reports(pdf)
      /\ UNCHANGED <<pdf.pages, read_metadata_entries(pdf), read_outline_tree(pdf)>>
      /\ Extensible(pdf)' = Extensible(pdf) \ {"fields"}
  <2>1. "forms" \in {"forms"} /\ "embedded_files" \notin {"forms"} /\ Lost({"forms"}) = {"fields"}
    BY DEF Lost
  <2> QED
    BY <1>1, <1>3, <2>1, RemovedReports
<1> QED
  BY <1>4 DEF Contract!RemoveForm

LEMMA InteractiveReports ==
  ASSUME Whole(pdf), NEW what, remove_interactive(what)
  PROVE  Whole(pdf') /\ Contract!RemoveInteractive(what)
<1> DEFINE after(doc, part, removed) == IF part \in what THEN removed ELSE doc
           annots == after(pdf, "annotations", remove_annotations(pdf))
           forms == after(annots, "forms", remove_acroform(annots))
           actions == after(forms, "actions", remove_actions(forms))
           script == after(actions, "javascript", remove_javascript(actions))
           files == after(script, "embedded_files", remove_embedded_files(script))
           op == <<"remove interactive", what>>
           so(parts, part) == IF part \in what THEN parts \cup {part} ELSE parts
           a == so({}, "annotations")
           b == so(a, "forms")
           c == so(b, "actions")
           d == so(c, "javascript")
           e == so(d, "embedded_files")
<1>1. Edit(op, files)
  BY DEF remove_interactive
<1>2. Whole(annots) /\ Removed(annots, pdf, a)
  <2>1. Removed(pdf, pdf, {})
    BY DEF Removed, Lost
  <2> QED
    BY <2>1, AnnotationsRemoved
<1>3. Whole(forms) /\ Removed(forms, pdf, b)
  <2> HIDE DEF annots, a
  <2> QED  BY <1>2, FormsRemoved
<1>4. Whole(actions) /\ Removed(actions, pdf, c)
  <2> HIDE DEF forms, b
  <2> QED  BY <1>3, ActionsRemoved
<1>5. Whole(script) /\ Removed(script, pdf, d)
  <2> HIDE DEF actions, c
  <2> QED  BY <1>4, NamesRemoved
<1>6. Whole(files) /\ Removed(files, pdf, e)
  <2> HIDE DEF script, d
  <2> QED  BY <1>5, NamesRemoved
<1>7. \A part \in {"annotations", "forms", "embedded_files"} : part \in e <=> part \in what
  OBVIOUS
<1> HIDE DEF files, e
<1>8. /\ Whole(pdf') /\ Contract!Edit(op)
      /\ IF "forms" \in e THEN Contract!FormGone
         ELSE IF "annotations" \in e THEN Contract!NotesGone
         ELSE Contract!KeepForm /\ UNCHANGED inspect_annotations(pdf)
      /\ read_attachment_reports(pdf)' =
           IF "embedded_files" \in e THEN Contract!Readable({}) ELSE read_attachment_reports(pdf)
      /\ UNCHANGED <<pdf.pages, read_metadata_entries(pdf), read_outline_tree(pdf)>>
      /\ Extensible(pdf)' = Extensible(pdf) \ Lost(e)
  BY <1>1, <1>6, RemovedReports
<1>9. Lost(e) = Lost(what)
  BY <1>7 DEF Lost
<1> QED
  BY <1>7, <1>8, <1>9 DEF Contract!RemoveInteractive, Lost

-----------------------------------------------------------------------------
(* Signing.                                                                  *)

\* What is signed is in the form, on the first page, and signed by nobody else.
LEMMA SignedFields ==
  ASSUME Whole(pdf), NEW name \in Texts, NEW id \in Ids \ Live(pdf), Dangling(pdf) = {},
         NEW doc, doc = Signed(name, id), Whole(doc)
  PROVE  LET field == [id |-> id, kind |-> "Sig", name |-> name, filled |-> TRUE, readonly |-> FALSE]
         IN  /\ Dangling(doc) = {}
             /\ Fields(doc) = (IF "fields" \in Extensible(pdf) THEN Fields(pdf) ELSE {}) \cup {field}
             /\ doc.form.at = "ref"
             /\ \A f \in Fields(pdf) : f.id # id
             /\ Signatures(pdf) = {} => Signatures(doc) = {name}
<1> DEFINE field == [id |-> id, kind |-> "Sig", name |-> name, filled |-> TRUE, readonly |-> FALSE]
<1>1. /\ Live(doc) = Live(pdf) \cup {id}
      /\ doc.objects = [pdf.objects EXCEPT ![id] = Object("Sig", name, TRUE)]
      /\ doc.annots = [pdf.annots EXCEPT ![pdf.pages[1]] = append_reference_to_page_annots(@, id)]
      /\ doc.form = append_signature_field_to_acroform(pdf.form, id)
      /\ doc.pages = pdf.pages
  BY SignedSound DEF Whole
<1>2. /\ doc.objects[id] = Object("Sig", name, TRUE)
      /\ \A i \in Ids : i # id => doc.objects[i] = pdf.objects[i]
  BY <1>1 DEF Whole, Sound, Shape
<1>3. FieldReport(doc, id) = field /\ IsField(doc, id) /\ IsSigned(doc, id) /\ doc.objects[id].name = name
  BY <1>2 DEF FieldReport, IsField, IsSigned, Object
<1>4. /\ pdf.form.fields \subseteq Ids /\ pdf.form.fields \subseteq Live(pdf)
      /\ Annotated(pdf) \subseteq Ids /\ Annotated(pdf) \subseteq Live(pdf)
      /\ id \notin pdf.form.fields /\ id \notin Annotated(pdf)
  BY IdsTyped, AnnotatedLive DEF Dangling
<1>5. /\ doc.form.fields = (IF pdf.form.at = "ref" THEN pdf.form.fields ELSE {}) \cup {id}
      /\ doc.form.at = "ref"
  <2>1. pdf.form \in Forms
    BY DEF Whole, Sound, Shape
  <2> QED
    BY <1>1, <2>1 DEF append_signature_field_to_acroform, Forms, NoForm
<1>6. Dangling(doc) = {}
  BY <1>1, <1>4, <1>5 DEF Dangling
<1>7. \A i \in pdf.form.fields : FieldReport(doc, i) = FieldReport(pdf, i) /\ (IsField(doc, i) <=> IsField(pdf, i))
  BY <1>2, <1>4 DEF FieldReport, IsField
<1> HIDE DEF field
<1>8. Fields(doc) = (IF "fields" \in Extensible(pdf) THEN Fields(pdf) ELSE {}) \cup {field}
  <2>1. "fields" \in Extensible(pdf) <=> pdf.form.at = "ref"
    BY DEF Extensible
  <2>2. CASE pdf.form.at # "ref"
    <3>1. doc.form.fields = {id}
      BY <1>5, <2>2
    <3> QED
      BY <1>3, <2>1, <2>2, <3>1 DEF Fields
  <2>3. CASE pdf.form.at = "ref"
    <3>1. doc.form.fields = pdf.form.fields \cup {id}
      BY <1>5, <2>3
    <3>2. Fields(doc) = Fields(pdf) \cup {field}
      BY <1>3, <1>7, <3>1 DEF Fields
    <3> QED
      BY <2>1, <2>3, <3>2
  <2> QED
    BY <2>2, <2>3
<1>9. \A f \in Fields(pdf) : f.id # id
  BY <1>4, FieldReports DEF Fields
<1>10. Annotated(doc) \subseteq Annotated(pdf) \cup {id}
  <2>1. ASSUME NEW p \in Range(pdf.pages), doc.annots[p].at # "ref", NEW i \in doc.annots[p].ids, i # id
        PROVE  pdf.annots[p].at # "ref" /\ i \in pdf.annots[p].ids
    <3>1. p \in PageIds /\ pdf.annots \in [PageIds -> Annots]
      BY PagesTyped DEF Whole, Sound, Shape
    <3>2. doc.annots[p] = IF p = pdf.pages[1] THEN append_reference_to_page_annots(pdf.annots[p], id) ELSE pdf.annots[p]
      BY <1>1, <3>1
    <3> QED
      BY <2>1, <3>2 DEF append_reference_to_page_annots
  <2> QED
    BY <1>1, <2>1 DEF Annotated
<1>11. ASSUME Signatures(pdf) = {} PROVE Signatures(doc) = {name}
  <2>1. \A i \in pdf.form.fields \cup Annotated(pdf) : ~IsSigned(pdf, i)
    BY <1>11 DEF Signatures
  <2>2. \A i \in doc.form.fields \cup Annotated(doc) : i # id => ~IsSigned(doc, i)
    BY <1>2, <1>4, <1>5, <1>10, <2>1 DEF IsSigned
  <2>3. {i \in doc.form.fields \cup Annotated(doc) : IsSigned(doc, i)} = {id}
    BY <1>3, <1>5, <2>2
  <2> QED
    BY <1>3, <2>3 DEF Signatures
<1> QED
  BY <1>5, <1>6, <1>8, <1>9, <1>11 DEF field

LEMMA SignedNotes ==
  ASSUME Whole(pdf), pdf.pages # <<>>, NEW name \in Texts, NEW id \in Ids \ Live(pdf),
         NEW doc, doc = Signed(name, id), Whole(doc)
  PROVE  LET note == [page |-> pdf.pages[1], id |-> id, name |-> ""]
         IN  /\ AnnotationArrays(pdf) => AnnotationArrays(doc) /\ Notes(doc) = Notes(pdf) \cup {note}
             /\ AnnotationArrays(doc) => note \in Notes(doc)
<1> DEFINE first == pdf.pages[1]
           note == [page |-> first, id |-> id, name |-> ""]
<1>1. /\ doc.objects = [pdf.objects EXCEPT ![id] = Object("Sig", name, TRUE)]
      /\ doc.annots = [pdf.annots EXCEPT ![first] = append_reference_to_page_annots(@, id)]
      /\ doc.pages = pdf.pages
  BY SignedSound DEF Whole
<1>2. first \in Range(pdf.pages)
  <2>1. pdf.pages \in Seq(PageIds)
    BY DEF Whole, Typed
  <2>2. 1 \in DOMAIN pdf.pages
    BY <2>1
  <2> QED
    BY <2>2 DEF Range
<1> HIDE DEF first
<1>3. doc.objects[id] = Object("Sig", name, TRUE) /\ \A i \in Ids : i # id => doc.objects[i] = pdf.objects[i]
  BY <1>1 DEF Whole, Sound, Shape
<1>4. NoteReport(doc, first, id) = note
  BY <1>3 DEF NoteReport, NoteName, Object
<1>5. \A p \in Range(pdf.pages) :
        /\ p \in PageIds /\ pdf.annots[p] \in Annots
        /\ doc.annots[p] = IF p = first THEN append_reference_to_page_annots(pdf.annots[p], id) ELSE pdf.annots[p]
  <2>1. \A p \in Range(pdf.pages) : p \in PageIds
    BY PagesTyped
  <2> QED
    BY <1>1, <2>1 DEF Whole, Sound, Shape
<1>6. doc.annots[first].at = "inline" /\ id \in doc.annots[first].ids
  <2>1. doc.annots[first] = append_reference_to_page_annots(pdf.annots[first], id)
    BY <1>2, <1>5
  <2> QED
    BY <2>1 DEF append_reference_to_page_annots
<1>7. note \in Notes(doc)
  BY <1>1, <1>2, <1>4, <1>6, NotesIn
<1>8. ASSUME AnnotationArrays(pdf) PROVE AnnotationArrays(doc) /\ Notes(doc) = Notes(pdf) \cup {note}
  <2>1. AnnotationArrays(doc)
    BY <1>1, <1>5, <1>6, <1>8 DEF AnnotationArrays
  <2>2. \A p \in Range(pdf.pages) : doc.annots[p].ids = IF p = first THEN pdf.annots[p].ids \cup {id} ELSE pdf.annots[p].ids
    <3>1. ASSUME NEW annots \in Annots, annots.at # "ref"
          PROVE  append_reference_to_page_annots(annots, id).ids = annots.ids \cup {id}
      BY <3>1 DEF append_reference_to_page_annots, Annots, Places
    <3> QED
      BY <1>5, <1>8, <3>1 DEF AnnotationArrays
  <2>3. \A p \in Range(pdf.pages) : \A i \in pdf.annots[p].ids : NoteReport(doc, p, i) = NoteReport(pdf, p, i)
    <3>1. Annotated(pdf) \subseteq Ids /\ id \notin Annotated(pdf)
      BY IdsTyped, AnnotatedLive
    <3>2. \A p \in Range(pdf.pages) : \A i \in pdf.annots[p].ids : i \in Ids /\ i # id
      BY <1>8, <3>1 DEF Annotated, AnnotationArrays
    <3> QED
      BY <1>3, <3>2 DEF NoteReport, NoteName
  <2>4. Notes(doc) = Notes(pdf) \cup {note}
    <3> HIDE DEF note
    <3>1. ASSUME NEW n \in Notes(doc) PROVE n \in Notes(pdf) \cup {note}
      <4>a. \E p \in Range(doc.pages) : \E i \in doc.annots[p].ids : n = NoteReport(doc, p, i)
        BY NotesIn
      <4>0. PICK p \in Range(pdf.pages) : \E i \in doc.annots[p].ids : n = NoteReport(doc, p, i)
        BY <1>1, <4>a
      <4>1. PICK i \in doc.annots[p].ids : n = NoteReport(doc, p, i)
        BY <4>0
      <4>2. CASE i \in pdf.annots[p].ids
        BY <2>3, <4>1, <4>2, NotesIn
      <4>3. CASE i \notin pdf.annots[p].ids
        BY <1>4, <2>2, <4>1, <4>3
      <4> QED
        BY <4>2, <4>3
    <3>2. ASSUME NEW n \in Notes(pdf) PROVE n \in Notes(doc)
      <4>0. PICK p \in Range(pdf.pages) : \E i \in pdf.annots[p].ids : n = NoteReport(pdf, p, i)
        BY NotesIn
      <4>1. PICK i \in pdf.annots[p].ids : n = NoteReport(pdf, p, i)
        BY <4>0
      <4> QED
        BY <1>1, <2>2, <2>3, <4>1, NotesIn
    <3> QED
      BY <1>7, <3>1, <3>2
  <2> QED
    BY <2>1, <2>4
<1> QED
  BY <1>7, <1>8 DEF first

LEMMA SignReports ==
  ASSUME Whole(pdf), NEW name \in Texts, add_pdf_signature(name)
  PROVE  Whole(pdf') /\ Contract!Sign(name)
<1>1. PICK id \in Ids \ Live(pdf) :
        Edit(<<"sign", name>>, Signed(name, id)) /\ discover_pdf_signature_dictionaries(pdf) = Contract!Readable({})
  BY DEF add_pdf_signature, Signed, Contract!Readable
<1> DEFINE doc == Signed(name, id)
           field == [id |-> id, kind |-> "Sig", name |-> name, filled |-> TRUE, readonly |-> FALSE]
           note == [page |-> pdf.pages[1], id |-> id, name |-> ""]
<1>2. Dangling(pdf) = {} /\ Signatures(pdf) = {} /\ collect_form_fields(pdf) = Contract!Readable(Fields(pdf))
  <2>1. Dangling(pdf) = {}
    <3>1. Contract!Readable({}) # Contract!Unreadable
      BY ReadableParts
    <3> QED
      BY <1>1, <3>1, Reported
  <2>2. discover_pdf_signature_dictionaries(pdf) = Contract!Readable(Signatures(pdf))
    BY <2>1, Reported
  <2>3. Signatures(pdf) = {}
    BY <1>1, <2>2, ReadableParts
  <2> QED
    BY <2>1, <2>3, Reported
<1>3. /\ Sound(doc) /\ doc.pages = pdf.pages /\ doc.names = pdf.names
      /\ doc.info = pdf.info /\ doc.outline = pdf.outline /\ doc.seal = pdf.seal
  BY SignedSound DEF Whole
<1>4. pdf.pages # <<>> /\ Edit(<<"sign", name>>, doc)
  BY <1>1 DEF Edit
<1> HIDE DEF doc
<1>5. Whole(doc)
  BY <1>3 DEF Whole, Typed
<1>6. Whole(pdf') /\ Alike(pdf', doc) /\ Contract!Edit(<<"sign", name>>)
  BY <1>3, <1>4, <1>5, Edited
<1>7. /\ Dangling(doc) = {}
      /\ Fields(doc) = (IF "fields" \in Extensible(pdf) THEN Fields(pdf) ELSE {}) \cup {field}
      /\ doc.form.at = "ref"
      /\ \A f \in Fields(pdf) : f.id # id
      /\ Signatures(doc) = {name}
  BY <1>2, <1>5, SignedFields DEF doc
<1>8. /\ AnnotationArrays(pdf) => AnnotationArrays(doc) /\ Notes(doc) = Notes(pdf) \cup {note}
      /\ AnnotationArrays(doc) => note \in Notes(doc)
  BY <1>4, <1>5, SignedNotes DEF doc
<1> DEFINE fields == collect_form_fields(pdf)
           after == collect_form_fields(pdf)'
           notes == inspect_annotations(pdf)
           notes2 == inspect_annotations(pdf)'
<1>9. fields.ok /\ fields.of = Fields(pdf)
  BY <1>2, ReadableParts
<1>10. /\ after = Contract!Readable(Fields(doc))
       /\ discover_pdf_signature_dictionaries(pdf)' = Contract!Readable({name})
  <2>1. /\ collect_form_fields(doc) = Contract!Readable(Fields(doc))
        /\ discover_pdf_signature_dictionaries(doc) = Contract!Readable({name})
    BY <1>5, <1>7, Reported
  <2> QED
    BY <1>6, <1>7, <2>1, Primes DEF Alike
<1>11. field \in [id : Ids, kind : {"Sig"}, name : {name}, filled : {TRUE}, readonly : {FALSE}] /\ field.id = id
  OBVIOUS
<1>12. notes2 = inspect_annotations(doc)
  BY <1>6, Primes DEF Alike
<1>13. \/ notes2 = IF notes.ok THEN Contract!Readable(notes.of \cup {note}) ELSE Contract!Unreadable
       \/ ~notes.ok /\ notes2.ok /\ note \in notes2.of
  <2> HIDE DEF note, notes2, notes
  <2>1. CASE AnnotationArrays(pdf)
    <3>1. notes.ok /\ notes.of = Notes(pdf)
      BY <2>1, Reported, ReadableParts DEF notes
    <3>2. notes2 = Contract!Readable(Notes(pdf) \cup {note})
      BY <1>5, <1>8, <1>12, <2>1, Reported
    <3> QED
      BY <3>1, <3>2
  <2>2. CASE ~AnnotationArrays(pdf)
    <3>1. ~notes.ok
      BY <2>2, Reported, ReadableParts DEF notes
    <3>2. CASE AnnotationArrays(doc)
      <4>1. notes2.ok /\ notes2.of = Notes(doc)
        BY <1>5, <1>12, <3>2, Reported, ReadableParts
      <4> QED
        BY <1>8, <3>1, <3>2, <4>1
    <3>3. CASE ~AnnotationArrays(doc)
      <4>1. notes2 = Contract!Unreadable
        BY <1>5, <1>12, <3>3, Reported
      <4> QED
        BY <3>1, <4>1
    <3> QED
      BY <3>2, <3>3
  <2> QED
    BY <2>1, <2>2
<1>14. /\ read_attachment_reports(pdf)' = read_attachment_reports(pdf)
       /\ read_metadata_entries(pdf)' = read_metadata_entries(pdf)
       /\ read_outline_tree(pdf)' = read_outline_tree(pdf)
       /\ pdf'.pages = pdf.pages
       /\ Extensible(pdf)' = Extensible(pdf) \cup {"fields"}
  <2>1. /\ read_attachment_reports(doc) = read_attachment_reports(pdf)
        /\ read_metadata_entries(doc) = read_metadata_entries(pdf)
        /\ read_outline_tree(doc) = read_outline_tree(pdf)
    BY <1>3, ListInTree DEF read_metadata_entries, read_outline_tree
  <2>2. Extensible(doc) = Extensible(pdf) \cup {"fields"}
    BY <1>3, <1>7 DEF Extensible
  <2> QED
    BY <1>3, <1>6, <2>1, <2>2, Primes DEF Alike
<1> HIDE DEF field, notes, notes2, after, fields
<1>15. /\ \A f \in fields.of : f.id # field.id
       /\ after = Contract!Readable(Contract!Extended("fields", fields).of \cup {field})
  <2>1. Contract!Extended("fields", fields).of =
          IF "fields" \in Extensible(pdf) THEN Fields(pdf) ELSE {}
    BY <1>9, ReadableParts DEF Contract!Extended
  <2> QED
    BY <1>7, <1>9, <1>10, <1>11, <2>1
<1>16. \E x \in [id : Ids, kind : {"Sig"}, name : {name}, filled : {TRUE}, readonly : {FALSE}] :
         /\ \A f \in fields.of : f.id # x.id
         /\ after = Contract!Readable(Contract!Extended("fields", fields).of \cup {x})
         /\ LET n == [page |-> pdf.pages[1], id |-> x.id, name |-> ""] IN
            \/ notes2 = IF notes.ok THEN Contract!Readable(notes.of \cup {n}) ELSE Contract!Unreadable
            \/ ~notes.ok /\ notes2.ok /\ n \in notes2.of
  <2>1. note = [page |-> pdf.pages[1], id |-> field.id, name |-> ""]
    BY <1>11
  <2> HIDE DEF note
  <2> QED
    BY <1>11, <1>13, <1>15, <2>1
<1> QED
  BY <1>1, <1>6, <1>9, <1>10, <1>14, <1>16 DEF Contract!Sign, fields, after, notes, notes2

-----------------------------------------------------------------------------
(* Deleting a signature field.  A form that cannot be changed in place keeps *)
(* the reference, and saving may let it lead to any other object.            *)

LEMMA UnsignedNotes ==
  ASSUME Whole(pdf), NEW id \in Ids, NEW doc, doc = Unsigned(id), Whole(doc)
  PROVE  /\ AnnotationArrays(doc) <=> AnnotationArrays(pdf)
         /\ AnnotationArrays(pdf) => Notes(doc) = Notes(pdf) \ {n \in Notes(pdf) : n.id = id}
         /\ Annotated(doc) = Annotated(pdf) \ {id}
<1>1. /\ \A i \in Ids : i # id => doc.objects[i] = pdf.objects[i]
      /\ doc.annots = [p \in PageIds |-> IF p \in Range(pdf.pages) /\ pdf.annots[p].at = "inline"
                                         THEN WithoutNotes(pdf, p, {id}) ELSE pdf.annots[p]]
      /\ doc.pages = pdf.pages
  BY UnsignedSound DEF Whole
<1>2. /\ \A p \in Range(pdf.pages) : p \in PageIds /\ pdf.annots[p] \in Annots /\ pdf.annots[p].ids \subseteq Ids
  BY IdsTyped
<1>3. \A p \in Range(pdf.pages) :
        /\ doc.annots[p].at = pdf.annots[p].at
        /\ pdf.annots[p].at # "ref" => doc.annots[p].ids = pdf.annots[p].ids \ {id}
        /\ pdf.annots[p].at = "ref" => doc.annots[p].ids = pdf.annots[p].ids
  <2> TAKE p \in Range(pdf.pages)
  <2> DEFINE annots == pdf.annots[p]
  <2>1. p \in PageIds /\ annots \in Annots
    BY <1>2
  <2>2. doc.annots[p] = IF annots.at = "inline" THEN [annots EXCEPT !.ids = @ \ {id}] ELSE annots
    BY <1>1, <2>1 DEF WithoutNotes
  <2> HIDE DEF annots
  <2>3. [annots EXCEPT !.ids = @ \ {id}].at = annots.at /\ [annots EXCEPT !.ids = @ \ {id}].ids = annots.ids \ {id}
    BY <2>1 DEF Annots
  <2>4. annots.at \in {"none", "inline", "ref"} /\ (annots.at = "none" => annots.ids = {})
    BY <2>1 DEF Annots, Places
  <2>5. /\ doc.annots[p].at = annots.at
        /\ annots.at # "ref" => doc.annots[p].ids = annots.ids \ {id}
        /\ annots.at = "ref" => doc.annots[p].ids = annots.ids
    BY <2>2, <2>3, <2>4
  <2> QED
    BY <2>5 DEF annots
<1>4. AnnotationArrays(doc) <=> AnnotationArrays(pdf)
  BY <1>1, <1>3 DEF AnnotationArrays
<1>5. Annotated(doc) = Annotated(pdf) \ {id}
  <2>1. \A d, i : i \in Annotated(d) <=> \E p \in Range(d.pages) : d.annots[p].at # "ref" /\ i \in d.annots[p].ids
    BY DEF Annotated
  <2>2. ASSUME NEW i \in Annotated(doc) PROVE i \in Annotated(pdf) /\ i # id
    <3>1. PICK p \in Range(pdf.pages) : doc.annots[p].at # "ref" /\ i \in doc.annots[p].ids
      BY <1>1, <2>1
    <3>2. pdf.annots[p].at # "ref" /\ i \in pdf.annots[p].ids /\ i # id
      BY <1>3, <3>1
    <3> QED
      BY <2>1, <3>2
  <2>3. ASSUME NEW i \in Annotated(pdf), i # id PROVE i \in Annotated(doc)
    <3>1. PICK p \in Range(pdf.pages) : pdf.annots[p].at # "ref" /\ i \in pdf.annots[p].ids
      BY <2>1
    <3>2. doc.annots[p].at # "ref" /\ i \in doc.annots[p].ids
      BY <1>3, <2>3, <3>1
    <3> QED
      BY <1>1, <2>1, <3>2
  <2> QED
    BY <2>2, <2>3
<1>6. ASSUME AnnotationArrays(pdf) PROVE Notes(doc) = Notes(pdf) \ {n \in Notes(pdf) : n.id = id}
  <2>1. \A p \in Range(pdf.pages) : doc.annots[p].ids = pdf.annots[p].ids \ {id}
    BY <1>3, <1>6 DEF AnnotationArrays
  <2>2. \A p \in Range(pdf.pages) : \A i \in pdf.annots[p].ids : i # id => NoteReport(doc, p, i) = NoteReport(pdf, p, i)
    BY <1>1, <1>2 DEF NoteReport, NoteName
  <2>3. \A d, p, i : NoteReport(d, p, i).id = i
    BY DEF NoteReport
  <2>4. ASSUME NEW n \in Notes(doc) PROVE n \in Notes(pdf) /\ n.id # id
    <3>1. \E p \in Range(doc.pages) : \E i \in doc.annots[p].ids : n = NoteReport(doc, p, i)
      BY NotesIn
    <3>2. PICK p \in Range(pdf.pages) : \E i \in doc.annots[p].ids : n = NoteReport(doc, p, i)
      BY <1>1, <3>1
    <3>3. PICK i \in doc.annots[p].ids : n = NoteReport(doc, p, i)
      BY <3>2
    <3>4. i \in pdf.annots[p].ids /\ i # id /\ n = NoteReport(pdf, p, i)
      BY <2>1, <2>2, <3>3
    <3> QED
      BY <2>3, <3>4, NotesIn
  <2>5. ASSUME NEW n \in Notes(pdf), n.id # id PROVE n \in Notes(doc)
    <3>1. PICK p \in Range(pdf.pages) : \E i \in pdf.annots[p].ids : n = NoteReport(pdf, p, i)
      BY NotesIn
    <3>2. PICK i \in pdf.annots[p].ids : n = NoteReport(pdf, p, i)
      BY <3>1
    <3>3. i # id
      BY <2>3, <2>5, <3>2
    <3> QED
      BY <1>1, <2>1, <2>2, <3>2, <3>3, NotesIn
  <2> QED
    BY <2>4, <2>5
<1> QED
  BY <1>4, <1>5, <1>6

\* What the form says once the document is saved and read back.
LEMMA UnsignedFields ==
  ASSUME Whole(pdf), Dangling(pdf) = {}, NEW id \in pdf.form.fields,
         NEW doc, doc = Unsigned(id), Whole(doc), NEW new \in Saved(doc), Whole(new), Dangling(new) = {}
  PROVE  LET name == pdf.objects[id].name
             field == FieldReport(pdf, id)
         IN  /\ field \notin Fields(new) /\ Fields(pdf) \ {field} \subseteq Fields(new)
             /\ Signatures(pdf) \ {name} \subseteq Signatures(new)
             /\ ~field.filled => Signatures(pdf) \subseteq Signatures(new)
             /\ Fields(new) = Fields(pdf) \ {field} => Signatures(new) \subseteq Signatures(pdf)
<1> DEFINE name == pdf.objects[id].name
           field == FieldReport(pdf, id)
<1>1. /\ id \in Ids /\ pdf.form.fields \subseteq Ids /\ new.form.fields \subseteq Ids
      /\ Annotated(pdf) \subseteq Ids /\ pdf.form.fields \subseteq Live(pdf)
  BY IdsTyped DEF Dangling
<1>2. /\ Live(doc) = Live(pdf) \ {id} /\ doc.objects[id] = NoObject
      /\ \A i \in Ids : i # id => doc.objects[i] = pdf.objects[i]
      /\ pdf.form.fields \ {id} \subseteq doc.form.fields
  BY <1>1, UnsignedSound DEF Whole
<1>3. Annotated(doc) = Annotated(pdf) \ {id}
  BY <1>1, UnsignedNotes
<1>4. /\ new.pages = doc.pages /\ new.annots = doc.annots
      /\ \A i \in Ids : new.objects[i] = IF i \in Referenced(doc) THEN doc.objects[i] ELSE NoObject
      /\ doc.form.fields \ Dangling(doc) \subseteq new.form.fields
  <2>1. Sound(doc) /\ new \in Saved(doc)
    BY DEF Whole
  <2>2. /\ new.pages = doc.pages /\ new.annots = doc.annots
        /\ \A i \in Ids : new.objects[i] = IF i \in Referenced(doc) THEN doc.objects[i] ELSE NoObject
    BY <2>1, SavedFields
  <2>3. doc.form.fields \ Dangling(doc) \subseteq new.form.fields
    BY <2>1, SavedFields
  <2> QED
    BY <2>2, <2>3
<1>5. Annotated(new) = Annotated(pdf) \ {id}
  BY <1>3, <1>4 DEF Annotated
<1>6. id \notin new.form.fields
  <2>1. NoObject.kind = "none"
    BY DEF NoObject, Object
  <2>2. id \notin Live(new)
    BY <1>1, <1>2, <1>4, <2>1 DEF Live
  <2> QED
    BY <2>2 DEF Dangling
<1>7. pdf.form.fields \ {id} \subseteq new.form.fields
  BY <1>1, <1>2, <1>4 DEF Dangling
<1>8. \A i \in (pdf.form.fields \cup Annotated(pdf)) \ {id} : new.objects[i] = pdf.objects[i]
  <2>1. Annotated(doc) \cup doc.form.fields \subseteq Referenced(doc)
    <3>1. Range(doc.pages) \subseteq PageIds
      BY PagesTyped
    <3> QED  BY <3>1 DEF Annotated, Referenced
  <2> QED
    BY <1>1, <1>2, <1>3, <1>4, <2>1
<1>9. \A i \in pdf.form.fields \ {id} : FieldReport(new, i) = FieldReport(pdf, i) /\ (IsField(new, i) <=> IsField(pdf, i))
  BY <1>8 DEF FieldReport, IsField
<1>10. field \notin Fields(new)
  BY <1>6, FieldReports DEF Fields
<1>11. Fields(pdf) \ {field} \subseteq Fields(new)
  <2> SUFFICES ASSUME NEW f \in Fields(pdf), f # field PROVE f \in Fields(new)
    OBVIOUS
  <2>1. PICK i \in pdf.form.fields : IsField(pdf, i) /\ f = FieldReport(pdf, i)
    BY DEF Fields
  <2>2. i \in pdf.form.fields \ {id}
    BY <2>1
  <2>3. i \in new.form.fields /\ IsField(new, i) /\ f = FieldReport(new, i)
    BY <1>7, <1>9, <2>1, <2>2
  <2> QED
    BY <2>3 DEF Fields
<1>12. /\ Signatures(pdf) \ {name} \subseteq Signatures(new)
       /\ ~field.filled => Signatures(pdf) \subseteq Signatures(new)
  <2> SUFFICES ASSUME NEW s \in Signatures(pdf), s # name \/ ~field.filled PROVE s \in Signatures(new)
    OBVIOUS
  <2>1. PICK i \in pdf.form.fields \cup Annotated(pdf) : IsSigned(pdf, i) /\ s = pdf.objects[i].name
    BY DEF Signatures
  <2>2. i # id
    BY <2>1, FieldReports DEF IsSigned
  <2>3. i \in new.form.fields \cup Annotated(new) /\ new.objects[i] = pdf.objects[i]
    BY <1>5, <1>7, <1>8, <2>2
  <2>4. IsSigned(new, i) /\ s = new.objects[i].name
    BY <2>1, <2>3 DEF IsSigned
  <2> QED
    BY <2>3, <2>4 DEF Signatures
<1>13. ASSUME Fields(new) = Fields(pdf) \ {field} PROVE Signatures(new) \subseteq Signatures(pdf)
  <2> SUFFICES ASSUME NEW s \in Signatures(new) PROVE s \in Signatures(pdf)
    OBVIOUS
  <2>1. PICK i \in new.form.fields \cup Annotated(new) : IsSigned(new, i) /\ s = new.objects[i].name
    BY DEF Signatures
  <2>2. CASE i \in Annotated(new)
    <3>1. i \in Annotated(pdf) /\ new.objects[i] = pdf.objects[i]
      BY <1>5, <1>8, <2>2
    <3>2. IsSigned(pdf, i) /\ s = pdf.objects[i].name
      BY <2>1, <3>1 DEF IsSigned
    <3> QED
      BY <3>1, <3>2 DEF Signatures
  <2>3. CASE i \in new.form.fields
    <3>1. IsField(new, i)
      BY <2>1 DEF IsSigned, IsField
    <3>2. FieldReport(new, i) \in Fields(pdf)
      BY <1>13, <2>3, <3>1 DEF Fields
    <3>3. PICK j \in pdf.form.fields : FieldReport(new, i) = FieldReport(pdf, j)
      BY <3>2 DEF Fields
    <3>4. j = i
      BY <3>3, FieldReports
    <3>5. i # id
      BY <1>6, <2>3
    <3>6. new.objects[i] = pdf.objects[i] /\ i \in pdf.form.fields
      BY <1>8, <3>3, <3>4, <3>5
    <3>7. IsSigned(pdf, i) /\ s = pdf.objects[i].name
      BY <2>1, <3>6 DEF IsSigned
    <3> QED
      BY <3>6, <3>7 DEF Signatures
  <2> QED
    BY <2>1, <2>2, <2>3
<1> QED
  BY <1>10, <1>11, <1>12, <1>13

\* A form that is an object of its own loses the reference, and with it the field.
LEMMA UnsignedForm ==
  ASSUME Whole(pdf), Dangling(pdf) = {}, NEW id \in pdf.form.fields, pdf.form.at = "ref",
         NEW doc, doc = Unsigned(id), Whole(doc)
  PROVE  Dangling(doc) = {} /\ Fields(doc) = Fields(pdf) \ {FieldReport(pdf, id)}
<1> DEFINE field == FieldReport(pdf, id)
<1>1. id \in Ids /\ pdf.form.fields \subseteq Ids /\ pdf.form.fields \subseteq Live(pdf)
  BY IdsTyped DEF Dangling
<1>2. /\ Live(doc) = Live(pdf) \ {id} /\ doc.form.fields = pdf.form.fields \ {id}
      /\ \A i \in Ids : i # id => doc.objects[i] = pdf.objects[i]
  BY <1>1, UnsignedSound DEF Whole
<1>3. Dangling(doc) = {}
  BY <1>1, <1>2 DEF Dangling
<1>4. \A i \in pdf.form.fields \ {id} : FieldReport(doc, i) = FieldReport(pdf, i) /\ (IsField(doc, i) <=> IsField(pdf, i))
  BY <1>1, <1>2 DEF FieldReport, IsField
<1>5. \A i : FieldReport(pdf, i) = field <=> i = id
  BY FieldReports
<1>6. Fields(doc) = {FieldReport(pdf, i) : i \in {k \in pdf.form.fields \ {id} : IsField(pdf, k)}}
  BY <1>2, <1>4 DEF Fields
<1> HIDE DEF field
<1>7. Fields(doc) = Fields(pdf) \ {field}
  BY <1>5, <1>6 DEF Fields
<1> QED
  BY <1>3, <1>7 DEF field

LEMMA DeleteSignatureReports ==
  ASSUME Whole(pdf), NEW name \in Texts, NEW destructive, delete_pdf_signature_field(name, destructive)
  PROVE  Whole(pdf') /\ Contract!DeleteSignature(name, destructive)
<1> DEFINE op == <<"delete signature", name>>
<1>1. PICK id \in FieldsNamed(pdf, name) :
        /\ {i \in FieldsNamed(pdf, name) : pdf.objects[i].kind = "Sig"} = {id}
        /\ pdf.objects[id].filled => destructive
        /\ Edit(op, Unsigned(id))
  BY DEF delete_pdf_signature_field, Unsigned
<1>2. Dangling(pdf) = {}
  BY DEF delete_pdf_signature_field
<1>3. /\ id \in Ids /\ id \in pdf.form.fields /\ IsField(pdf, id)
      /\ pdf.objects[id].name = name /\ pdf.objects[id].kind = "Sig"
  BY <1>1, IdsTyped DEF FieldsNamed
<1> DEFINE doc == Unsigned(id)
           field == FieldReport(pdf, id)
           fields == collect_form_fields(pdf)
           signatures == discover_pdf_signature_dictionaries(pdf)
           notes == inspect_annotations(pdf)
           after == collect_form_fields(pdf')
           signed == discover_pdf_signature_dictionaries(pdf')
<1>4. /\ Sound(doc) /\ doc.pages = pdf.pages /\ doc.names = pdf.names
      /\ doc.info = pdf.info /\ doc.outline = pdf.outline /\ doc.seal = pdf.seal
      /\ doc.form.at = pdf.form.at
  BY <1>3, UnsignedSound DEF Whole
<1>5. doc = Unsigned(id) /\ Edit(op, doc)
  BY <1>1
<1> HIDE DEF doc
<1>6. Whole(doc)
  BY <1>4 DEF Whole, Typed
<1>7. /\ Whole(pdf') /\ Alike(pdf', doc) /\ Contract!Edit(op) /\ pdf' \in Saved(doc)
  BY <1>4, <1>5, <1>6, Edited DEF Edit, Run, Write
<1>8. fields = Contract!Readable(Fields(pdf)) /\ signatures = Contract!Readable(Signatures(pdf))
  BY <1>2, Reported
<1>9. fields.ok /\ fields.of = Fields(pdf) /\ signatures.ok /\ signatures.of = Signatures(pdf)
  BY <1>8, ReadableParts
<1>10. /\ field \in Fields(pdf) /\ field.name = name /\ field.kind = "Sig" /\ field.id = id
       /\ field.filled => destructive
  <2>1. field \in Fields(pdf) /\ field.name = name /\ field.kind = "Sig" /\ field.id = id
    BY <1>3, FieldReports DEF Fields
  <2>2. field.filled = pdf.objects[id].filled
    BY FieldReports
  <2>3. field.filled => destructive
    <3> HIDE DEF field
    <3> QED  BY <1>1, <2>2, Zenon
  <2> QED
    BY <2>1, <2>3
<1>11. \A f \in Fields(pdf) : f.name = name /\ f.kind = "Sig" => f = field
  <2> SUFFICES ASSUME NEW f \in Fields(pdf), f.name = name, f.kind = "Sig" PROVE f = field
    OBVIOUS
  <2>1. PICK i \in pdf.form.fields : IsField(pdf, i) /\ f = FieldReport(pdf, i)
    BY DEF Fields
  <2>2. pdf.objects[i].name = name /\ pdf.objects[i].kind = "Sig"
    BY <2>1, FieldReports
  <2>3. i \in FieldsNamed(pdf, name)
    BY <1>2, <2>1, <2>2 DEF FieldsNamed, Dangling
  <2>4. i = id
    BY <1>1, <2>2, <2>3
  <2> QED
    BY <2>1, <2>4
<1> HIDE DEF field, fields, signatures, notes, after, signed
<1>12. /\ IF "fields" \in Extensible(pdf) THEN after = Contract!Without(fields, {field})
          ELSE after.ok => field \notin after.of /\ fields.of \ {field} \subseteq after.of
       /\ after.ok /\ signatures.ok => signed.ok /\ signatures.of \ {name} \subseteq signed.of
       /\ after = Contract!Without(fields, {field}) /\ signatures.ok
            => signed \in {signatures} \cup
                  (IF field.filled THEN {Contract!Without(signatures, {name})} ELSE {})
  <2>1. /\ Contract!Without(fields, {field}) = Contract!Readable(Fields(pdf) \ {field})
        /\ Contract!Without(signatures, {name}) = Contract!Readable(Signatures(pdf) \ {name})
    BY <1>9 DEF Contract!Without
  <2>2. ASSUME "fields" \in Extensible(pdf)
        PROVE  Dangling(pdf') = {} /\ after = Contract!Without(fields, {field})
    <3>1. pdf.form.at = "ref"
      BY <2>2 DEF Extensible
    <3>2. Dangling(doc) = {} /\ Fields(doc) = Fields(pdf) \ {field}
      BY <1>2, <1>3, <1>5, <1>6, <3>1, UnsignedForm DEF field
    <3>3. collect_form_fields(doc) = Contract!Readable(Fields(pdf) \ {field})
      BY <1>6, <3>2, Reported
    <3> QED
      BY <1>7, <2>1, <3>2, <3>3 DEF Alike, after
  <2>3. CASE Dangling(pdf') # {}
    <3>1. after = Contract!Unreadable
      BY <1>7, <2>3, Reported DEF after
    <3>2. ~after.ok /\ after # Contract!Without(fields, {field})
      BY <2>1, <3>1, ReadableParts
    <3> QED
      BY <2>2, <2>3, <3>2
  <2>4. CASE Dangling(pdf') = {}
    <3>1. /\ field \notin Fields(pdf') /\ Fields(pdf) \ {field} \subseteq Fields(pdf')
          /\ Signatures(pdf) \ {name} \subseteq Signatures(pdf')
          /\ ~field.filled => Signatures(pdf) \subseteq Signatures(pdf')
          /\ Fields(pdf') = Fields(pdf) \ {field} => Signatures(pdf') \subseteq Signatures(pdf)
      BY <1>2, <1>3, <1>5, <1>6, <1>7, <2>4, UnsignedFields DEF field
    <3>2. after = Contract!Readable(Fields(pdf')) /\ signed = Contract!Readable(Signatures(pdf'))
      BY <1>7, <2>4, Reported DEF after, signed
    <3>3. after.ok /\ after.of = Fields(pdf') /\ signed.ok /\ signed.of = Signatures(pdf')
      BY <3>2, ReadableParts
    <3>4. ASSUME after = Contract!Without(fields, {field})
          PROVE  signed \in {signatures} \cup
                    (IF field.filled THEN {Contract!Without(signatures, {name})} ELSE {})
      <4>1. Fields(pdf') = Fields(pdf) \ {field}
        BY <2>1, <3>3, <3>4, ReadableParts
      <4>2. \/ Signatures(pdf') = Signatures(pdf)
            \/ field.filled /\ Signatures(pdf') = Signatures(pdf) \ {name}
        BY <3>1, <4>1
      <4> QED
        BY <1>8, <2>1, <3>2, <4>2 DEF signatures
    <3>5. \/ "fields" \in Extensible(pdf)
          \/ after.ok => field \notin after.of /\ fields.of \ {field} \subseteq after.of
      BY <1>9, <3>1, <3>3
    <3>6. after.ok /\ signatures.ok => signed.ok /\ signatures.of \ {name} \subseteq signed.of
      BY <1>9, <3>1, <3>3
    <3> QED
      BY <2>2, <3>4, <3>5, <3>6
  <2> QED
    BY <2>3, <2>4
<1>13. inspect_annotations(pdf') = Contract!Without(notes, {n \in notes.of : n.id = id})
  <2>1. /\ AnnotationArrays(doc) <=> AnnotationArrays(pdf)
        /\ AnnotationArrays(pdf) => Notes(doc) = Notes(pdf) \ {n \in Notes(pdf) : n.id = id}
    BY <1>3, <1>5, <1>6, UnsignedNotes
  <2>2. inspect_annotations(pdf') = inspect_annotations(doc)
    BY <1>7 DEF Alike
  <2>3. CASE AnnotationArrays(pdf)
    <3>1. notes.ok /\ notes.of = Notes(pdf)
      BY <2>3, Reported, ReadableParts DEF notes
    <3>2. inspect_annotations(doc) = Contract!Readable(Notes(pdf) \ {n \in Notes(pdf) : n.id = id})
      BY <1>6, <2>1, <2>3, Reported
    <3> QED
      BY <2>2, <3>1, <3>2 DEF Contract!Without
  <2>4. CASE ~AnnotationArrays(pdf)
    <3>1. ~notes.ok
      BY <2>4, Reported, ReadableParts DEF notes
    <3>2. inspect_annotations(doc) = Contract!Unreadable
      BY <1>6, <2>1, <2>4, Reported
    <3> QED
      BY <2>2, <3>1, <3>2 DEF Contract!Without
  <2> QED
    BY <2>3, <2>4
<1>14. /\ read_attachment_reports(pdf)' = read_attachment_reports(pdf)
       /\ read_metadata_entries(pdf)' = read_metadata_entries(pdf)
       /\ read_outline_tree(pdf)' = read_outline_tree(pdf)
       /\ pdf'.pages = pdf.pages /\ UNCHANGED Extensible(pdf)
  <2>1. /\ read_attachment_reports(doc) = read_attachment_reports(pdf)
        /\ read_metadata_entries(doc) = read_metadata_entries(pdf)
        /\ read_outline_tree(doc) = read_outline_tree(pdf) /\ Extensible(doc) = Extensible(pdf)
    BY <1>4, ListInTree, SameExtensible DEF read_metadata_entries, read_outline_tree
  <2> QED
    BY <1>4, <1>7, <2>1, Primes DEF Alike
<1>15. /\ after = collect_form_fields(pdf)' /\ signed = discover_pdf_signature_dictionaries(pdf)'
       /\ inspect_annotations(pdf)' = Contract!Without(notes, {n \in notes.of : n.id = field.id})
  BY <1>10, <1>13, Primes DEF after, signed
<1>16. \E x \in Contract!Named(fields, name) :
         /\ x.kind = "Sig" /\ (x.filled => destructive)
         /\ \A f \in Contract!Named(fields, name) : f.kind = "Sig" => f = x
         /\ IF "fields" \in Extensible(pdf) THEN after = Contract!Without(fields, {x})
            ELSE after.ok => x \notin after.of /\ fields.of \ {x} \subseteq after.of
         /\ after.ok /\ signatures.ok => signed.ok /\ signatures.of \ {name} \subseteq signed.of
         /\ after = Contract!Without(fields, {x}) /\ signatures.ok
               => signed \in {signatures} \cup
                     (IF x.filled THEN {Contract!Without(signatures, {name})} ELSE {})
         /\ inspect_annotations(pdf)' = Contract!Without(notes, {n \in notes.of : n.id = x.id})
  <2>1. field \in Contract!Named(fields, name) /\ \A f \in Contract!Named(fields, name) : f.kind = "Sig" => f = field
    BY <1>9, <1>10, <1>11 DEF Contract!Named
  <2> QED
    BY <1>10, <1>12, <1>15, <2>1
<1> QED
  BY <1>7, <1>9, <1>14, <1>15, <1>16 DEF Contract!DeleteSignature, fields, signatures, notes

-----------------------------------------------------------------------------
(* Notes.  They are no fields, so that the form stays as it is.              *)

LEMMA NotedPages ==
  ASSUME Whole(pdf), NEW page \in Range(pdf.pages), pdf.annots[page].at # "ref",
         NEW name, NEW id, NEW doc, OnItsPage(doc, page, name, id)
  PROVE  \A p \in Range(pdf.pages) :
           /\ doc.annots[p].at = "ref" <=> pdf.annots[p].at = "ref"
           /\ p = page => doc.annots[p].ids = pdf.annots[p].ids \cup {id}
           /\ p # page => doc.annots[p].ids = pdf.annots[p].ids
<1> TAKE p \in Range(pdf.pages)
<1>1. p \in PageIds
  BY IdsTyped
<1>2. CASE p = page
  <2>1. doc.annots[p] = [at |-> "inline", ids |-> pdf.annots[p].ids \cup {id}]
    BY <1>1, <1>2 DEF OnItsPage
  <2> QED
    BY <1>2, <2>1
<1>3. CASE p # page
  <2>1. doc.annots[p] = pdf.annots[p]
    BY <1>1, <1>3 DEF OnItsPage
  <2> QED
    BY <1>3, <2>1
<1> QED
  BY <1>2, <1>3

LEMMA NotedForms ==
  ASSUME Whole(pdf), NEW page \in Range(pdf.pages), pdf.annots[page].at # "ref",
         NEW name \in Texts, NEW id \in Ids \ Live(pdf), Dangling(pdf) = {},
         NEW doc, OnItsPage(doc, page, name, id), Whole(doc)
  PROVE  Dangling(doc) = {} /\ Fields(doc) = Fields(pdf) /\ Signatures(doc) = Signatures(pdf)
<1>0. /\ doc.pages = pdf.pages /\ doc.form = pdf.form /\ Live(doc) = Live(pdf) \cup {id}
      /\ doc.objects[id] = Object("Text", name, FALSE)
      /\ \A i \in Ids : i # id => doc.objects[i] = pdf.objects[i]
  BY DEF OnItsPage
<1>1. \A p \in Range(pdf.pages) :
        /\ doc.annots[p].at = "ref" <=> pdf.annots[p].at = "ref"
        /\ p = page => doc.annots[p].ids = pdf.annots[p].ids \cup {id}
        /\ p # page => doc.annots[p].ids = pdf.annots[p].ids
  BY NotedPages
<1>2. /\ pdf.form.fields \subseteq Ids /\ pdf.form.fields \subseteq Live(pdf)
      /\ Annotated(pdf) \subseteq Ids /\ Annotated(pdf) \subseteq Live(pdf)
  BY IdsTyped, AnnotatedLive DEF Dangling
<1>3. Dangling(doc) = {}
  BY <1>0, <1>1, <1>2 DEF Dangling
<1>4. \A i \in pdf.form.fields : doc.objects[i] = pdf.objects[i]
  BY <1>0, <1>1, <1>2
<1>5. Fields(doc) = Fields(pdf)
  <2>1. \A i \in pdf.form.fields : FieldReport(doc, i) = FieldReport(pdf, i) /\ (IsField(doc, i) <=> IsField(pdf, i))
    BY <1>4 DEF FieldReport, IsField
  <2> QED
    BY <1>0, <1>1, <2>1 DEF Fields
<1>6. \A d, i : i \in Annotated(d) <=> \E p \in Range(d.pages) : d.annots[p].at # "ref" /\ i \in d.annots[p].ids
  BY DEF Annotated
<1>7. ASSUME NEW i \in Annotated(doc), i # id PROVE i \in Annotated(pdf)
  <2>1. PICK p \in Range(pdf.pages) : doc.annots[p].at # "ref" /\ i \in doc.annots[p].ids
    BY <1>0, <1>1, <1>6
  <2>2. pdf.annots[p].at # "ref" /\ i \in pdf.annots[p].ids
    BY <1>0, <1>1, <1>7, <2>1
  <2> QED
    BY <1>6, <2>2
<1>8. ASSUME NEW i \in Annotated(pdf) PROVE i \in Annotated(doc)
  <2>1. PICK p \in Range(pdf.pages) : pdf.annots[p].at # "ref" /\ i \in pdf.annots[p].ids
    BY <1>6
  <2>2. doc.annots[p].at # "ref" /\ i \in doc.annots[p].ids
    BY <1>0, <1>1, <2>1
  <2> QED
    BY <1>0, <1>1, <1>6, <2>2
<1>9. ~IsSigned(doc, id) /\ \A i \in Ids : i # id => doc.objects[i] = pdf.objects[i]
  BY <1>0, <1>1 DEF IsSigned, Object
<1>10. ASSUME NEW s \in Signatures(doc) PROVE s \in Signatures(pdf)
  <2>1. PICK i \in doc.form.fields \cup Annotated(doc) : IsSigned(doc, i) /\ s = doc.objects[i].name
    BY DEF Signatures
  <2>2. i \in pdf.form.fields \cup Annotated(pdf) /\ doc.objects[i] = pdf.objects[i]
    BY <1>0, <1>1, <1>2, <1>7, <1>9, <2>1
  <2>3. IsSigned(pdf, i) /\ s = pdf.objects[i].name
    BY <2>1, <2>2 DEF IsSigned
  <2> QED
    BY <2>2, <2>3 DEF Signatures
<1>11. ASSUME NEW s \in Signatures(pdf) PROVE s \in Signatures(doc)
  <2>1. PICK i \in pdf.form.fields \cup Annotated(pdf) : IsSigned(pdf, i) /\ s = pdf.objects[i].name
    BY DEF Signatures
  <2>2. i \in doc.form.fields \cup Annotated(doc) /\ doc.objects[i] = pdf.objects[i]
    BY <1>0, <1>1, <1>2, <1>8, <2>1
  <2>3. IsSigned(doc, i) /\ s = doc.objects[i].name
    BY <2>1, <2>2 DEF IsSigned
  <2> QED
    BY <2>2, <2>3 DEF Signatures
<1> QED
  BY <1>3, <1>5, <1>10, <1>11

LEMMA NotedNotes ==
  ASSUME Whole(pdf), NEW page \in Range(pdf.pages), pdf.annots[page].at # "ref",
         NEW name \in Texts, NEW id \in Ids \ Live(pdf),
         NEW doc, OnItsPage(doc, page, name, id), Whole(doc)
  PROVE  LET note == [page |-> page, id |-> id, name |-> name]
         IN  /\ AnnotationArrays(doc) <=> AnnotationArrays(pdf)
             /\ AnnotationArrays(pdf) => /\ Notes(doc) = Notes(pdf) \cup {note}
                                         /\ \A n \in Notes(pdf) : n.id # id
<1> DEFINE note == [page |-> page, id |-> id, name |-> name]
<1>0. /\ doc.pages = pdf.pages
      /\ doc.objects[id] = Object("Text", name, FALSE)
      /\ \A i \in Ids : i # id => doc.objects[i] = pdf.objects[i]
  BY DEF OnItsPage
<1>1. \A p \in Range(pdf.pages) :
        /\ doc.annots[p].at = "ref" <=> pdf.annots[p].at = "ref"
        /\ p = page => doc.annots[p].ids = pdf.annots[p].ids \cup {id}
        /\ p # page => doc.annots[p].ids = pdf.annots[p].ids
  BY NotedPages
<1>2. AnnotationArrays(doc) <=> AnnotationArrays(pdf)
  BY <1>0, <1>1 DEF AnnotationArrays
<1>3. NoteReport(doc, page, id) = note
  BY <1>0, <1>1 DEF NoteReport, NoteName, Object
<1>4. ASSUME AnnotationArrays(pdf)
      PROVE  Notes(doc) = Notes(pdf) \cup {note} /\ \A n \in Notes(pdf) : n.id # id
  <2>1. \A p \in Range(pdf.pages) : \A i \in pdf.annots[p].ids : i \in Ids /\ i # id
    <3>1. Annotated(pdf) \subseteq Ids /\ id \notin Annotated(pdf)
      BY IdsTyped, AnnotatedLive
    <3> QED
      BY <1>4, <3>1 DEF Annotated, AnnotationArrays
  <2>2. \A p \in Range(pdf.pages) : \A i \in pdf.annots[p].ids : NoteReport(doc, p, i) = NoteReport(pdf, p, i)
    BY <1>0, <1>1, <2>1 DEF NoteReport, NoteName
  <2>3. \A d, p, i : NoteReport(d, p, i).id = i
    BY DEF NoteReport
  <2> HIDE DEF note
  <2>4. ASSUME NEW n \in Notes(doc) PROVE n \in Notes(pdf) \cup {note}
    <3>1. \E p \in Range(doc.pages) : \E i \in doc.annots[p].ids : n = NoteReport(doc, p, i)
      BY NotesIn
    <3>2. PICK p \in Range(pdf.pages) : \E i \in doc.annots[p].ids : n = NoteReport(doc, p, i)
      BY <1>0, <1>1, <3>1
    <3>3. PICK i \in doc.annots[p].ids : n = NoteReport(doc, p, i)
      BY <3>2
    <3>4. CASE i \in pdf.annots[p].ids
      BY <2>2, <3>3, <3>4, NotesIn
    <3>5. CASE i \notin pdf.annots[p].ids
      BY <1>0, <1>1, <1>3, <3>3, <3>5
    <3> QED
      BY <3>4, <3>5
  <2>5. ASSUME NEW n \in Notes(pdf) PROVE n \in Notes(doc) /\ n.id # id
    <3>1. PICK p \in Range(pdf.pages) : \E i \in pdf.annots[p].ids : n = NoteReport(pdf, p, i)
      BY NotesIn
    <3>2. PICK i \in pdf.annots[p].ids : n = NoteReport(pdf, p, i)
      BY <3>1
    <3>3. i \in doc.annots[p].ids /\ n = NoteReport(doc, p, i)
      BY <1>0, <1>1, <2>2, <3>2
    <3>4. n \in Notes(doc)
      BY <1>0, <1>1, <3>3, NotesIn
    <3> QED
      BY <2>1, <2>3, <3>2, <3>4
  <2>6. note \in Notes(doc)
    BY <1>0, <1>1, <1>3, NotesIn
  <2> QED
    BY <2>4, <2>5, <2>6
<1> QED
  BY <1>2, <1>4

LEMMA AddNoteReports ==
  ASSUME Whole(pdf), NEW page \in PageIds, NEW name \in Texts, add_text_annotation(page, name)
  PROVE  Whole(pdf') /\ Contract!AddNote(page, name)
<1> DEFINE op == <<"add note", page, name>>
<1>1. page \in Range(pdf.pages) /\ pdf.annots[page].at # "ref"
  BY DEF add_text_annotation
<1>2. PICK id \in Ids \ Live(pdf) : Edit(op, Noted(page, name, id))
  BY DEF add_text_annotation, Noted
<1> DEFINE doc == Noted(page, name, id)
           note == [page |-> page, id |-> id, name |-> name]
           notes == inspect_annotations(pdf)
<1>a. Sound(pdf) /\ doc = Noted(page, name, id) /\ Edit(op, doc)
  BY <1>2 DEF Whole
<1> HIDE DEF doc
<1>4. /\ Sound(doc) /\ OnItsPage(doc, page, name, id) /\ Edit(op, doc)
      /\ doc.names = pdf.names /\ doc.info = pdf.info /\ doc.outline = pdf.outline /\ doc.seal = pdf.seal
  BY <1>1, <1>a, NotedSound
<1>3. /\ Sound(doc) /\ doc.pages = pdf.pages /\ doc.names = pdf.names /\ doc.form = pdf.form
      /\ doc.info = pdf.info /\ doc.outline = pdf.outline /\ doc.seal = pdf.seal
  BY <1>4 DEF OnItsPage
<1>5. Whole(doc)
  BY <1>3 DEF Whole, Typed
<1>6. Whole(pdf') /\ Alike(pdf', doc) /\ Contract!Edit(op)
  BY <1>3, <1>4, <1>5, Edited
<1>7. Contract!KeepForm
  <2>1. ASSUME Dangling(pdf) = {}
        PROVE  /\ collect_form_fields(pdf') = collect_form_fields(pdf)
               /\ discover_pdf_signature_dictionaries(pdf') = discover_pdf_signature_dictionaries(pdf)
    <3>1. Dangling(doc) = {} /\ Fields(doc) = Fields(pdf) /\ Signatures(doc) = Signatures(pdf)
      BY <1>1, <1>4, <1>5, <2>1, NotedForms
    <3>2. /\ collect_form_fields(doc) = collect_form_fields(pdf)
          /\ discover_pdf_signature_dictionaries(doc) = discover_pdf_signature_dictionaries(pdf)
      BY <1>5, <2>1, <3>1, Reported
    <3> QED
      BY <1>6, <3>1, <3>2 DEF Alike
  <2> QED
    BY <2>1, FormKept
<1>8. inspect_annotations(pdf)' = inspect_annotations(doc)
  BY <1>6, Primes DEF Alike
<1>9. /\ AnnotationArrays(doc) <=> AnnotationArrays(pdf)
      /\ AnnotationArrays(pdf) => Notes(doc) = Notes(pdf) \cup {note} /\ \A n \in Notes(pdf) : n.id # id
  BY <1>1, <1>4, <1>5, NotedNotes
<1> HIDE DEF note
<1>10. IF notes.ok
       THEN \E i \in Ids : /\ \A n \in notes.of : n.id # i
                           /\ inspect_annotations(pdf)' =
                                Contract!Readable(notes.of \cup {[page |-> page, id |-> i, name |-> name]})
       ELSE inspect_annotations(pdf)' = notes
  <2>1. CASE AnnotationArrays(pdf)
    <3>1. notes.ok /\ notes.of = Notes(pdf)
      BY <2>1, Reported, ReadableParts
    <3>2. inspect_annotations(pdf)' = Contract!Readable(Notes(pdf) \cup {note})
      BY <1>5, <1>8, <1>9, <2>1, Reported
    <3> QED
      BY <1>9, <2>1, <3>1, <3>2 DEF note
  <2>2. CASE ~AnnotationArrays(pdf)
    <3>1. ~notes.ok /\ notes = Contract!Unreadable
      BY <2>2, Reported, ReadableParts
    <3>2. inspect_annotations(pdf)' = Contract!Unreadable
      BY <1>5, <1>8, <1>9, <2>2, Reported
    <3> QED
      BY <3>1, <3>2
  <2> QED
    BY <2>1, <2>2
<1>11. /\ read_attachment_reports(pdf)' = read_attachment_reports(pdf)
       /\ read_metadata_entries(pdf)' = read_metadata_entries(pdf)
       /\ read_outline_tree(pdf)' = read_outline_tree(pdf)
       /\ pdf'.pages = pdf.pages /\ UNCHANGED Extensible(pdf)
  <2>1. /\ read_attachment_reports(doc) = read_attachment_reports(pdf)
        /\ read_metadata_entries(doc) = read_metadata_entries(pdf)
        /\ read_outline_tree(doc) = read_outline_tree(pdf) /\ Extensible(doc) = Extensible(pdf)
    BY <1>3, ListInTree, SameExtensible DEF read_metadata_entries, read_outline_tree
  <2> QED
    BY <1>3, <1>6, <2>1, Primes DEF Alike
<1> QED
  BY <1>1, <1>6, <1>7, <1>10, <1>11 DEF Contract!AddNote, Contract!Range, Range

LEMMA DeleteNoteReports ==
  ASSUME Whole(pdf), NEW name \in Texts, delete_annotation(name)
  PROVE  Whole(pdf') /\ Contract!DeleteNote(name)
<1> DEFINE op == <<"delete note", name>>
           gone == {id \in Annotated(pdf) : NoteName(pdf, id) = name}
           doc == Unnoted(gone)
           notes == inspect_annotations(pdf)
<1>1. AnnotationArrays(pdf) /\ gone # {} /\ Edit(op, doc) /\ doc = Unnoted(gone) /\ Sound(pdf)
  BY DEF delete_annotation, Unnoted, Whole
<1> HIDE DEF doc
<1>2. /\ Sound(doc)
      /\ doc.pages = pdf.pages /\ doc.form = pdf.form /\ doc.objects = pdf.objects
      /\ \A p \in PageIds : p \in Range(pdf.pages) => doc.annots[p].at = pdf.annots[p].at
                                                 /\ doc.annots[p].ids = pdf.annots[p].ids \ gone
      /\ doc.names = pdf.names /\ doc.info = pdf.info /\ doc.outline = pdf.outline /\ doc.seal = pdf.seal
  <2> HIDE DEF gone
  <2>1. Sound(doc) /\ OffTheirPages(doc, gone)
    BY <1>1, UnnotedSound
  <2> QED
    BY <2>1 DEF OffTheirPages
<1>3. Whole(doc)
  BY <1>2 DEF Whole, Typed
<1>4. Whole(pdf') /\ Alike(pdf', doc) /\ Contract!Edit(op)
  BY <1>1, <1>2, <1>3, Edited
<1>5. \A p \in Range(pdf.pages) : /\ doc.annots[p].ids = pdf.annots[p].ids \ gone
                                  /\ doc.annots[p].at = pdf.annots[p].at /\ doc.annots[p].at # "ref"
                                  /\ pdf.annots[p].ids \subseteq Annotated(pdf)
  <2>1. \A p \in Range(pdf.pages) : p \in PageIds /\ pdf.annots[p].at # "ref"
    BY <1>1, IdsTyped DEF AnnotationArrays
  <2>2. \A p \in Range(pdf.pages) : pdf.annots[p].ids \subseteq Annotated(pdf)
    BY <2>1 DEF Annotated
  <2> QED
    BY <1>2, <2>1, <2>2
<1>6. \A d, p, i : NoteReport(d, p, i).name = NoteName(d, i)
  BY DEF NoteReport
<1>7. \A p, i : NoteReport(doc, p, i) = NoteReport(pdf, p, i)
  BY <1>2 DEF NoteReport, NoteName
<1>8. Notes(doc) = Notes(pdf) \ {n \in Notes(pdf) : n.name = name}
  <2>1. ASSUME NEW n \in Notes(doc) PROVE n \in Notes(pdf) /\ n.name # name
    <3>1. \E p \in Range(doc.pages) : \E i \in doc.annots[p].ids : n = NoteReport(doc, p, i)
      BY NotesIn
    <3>2. PICK p \in Range(pdf.pages) : \E i \in doc.annots[p].ids : n = NoteReport(doc, p, i)
      BY <1>2, <3>1
    <3>3. PICK i \in doc.annots[p].ids : n = NoteReport(doc, p, i)
      BY <3>2
    <3>4. i \in pdf.annots[p].ids /\ NoteName(pdf, i) # name /\ n = NoteReport(pdf, p, i)
      BY <1>5, <1>7, <3>3
    <3> QED
      BY <1>6, <3>4, NotesIn
  <2>2. ASSUME NEW n \in Notes(pdf), n.name # name PROVE n \in Notes(doc)
    <3>1. PICK p \in Range(pdf.pages) : \E i \in pdf.annots[p].ids : n = NoteReport(pdf, p, i)
      BY NotesIn
    <3>2. PICK i \in pdf.annots[p].ids : n = NoteReport(pdf, p, i)
      BY <3>1
    <3>3. NoteName(pdf, i) # name
      BY <1>6, <2>2, <3>2
    <3>4. p \in Range(doc.pages) /\ i \in doc.annots[p].ids /\ n = NoteReport(doc, p, i)
      BY <1>2, <1>5, <1>7, <3>2, <3>3
    <3> QED
      BY <3>4, NotesIn
  <2> QED
    BY <2>1, <2>2
<1>9. \E n \in Notes(pdf) : n.name = name
  <2>1. PICK i \in Annotated(pdf) : NoteName(pdf, i) = name
    BY <1>1
  <2>2. \E p \in Range(pdf.pages) : i \in pdf.annots[p].ids
    BY DEF Annotated
  <2> QED
    BY <1>6, <2>1, <2>2, NotesIn
<1>10. /\ Contract!Named(notes, name) # {} /\ notes.ok
       /\ inspect_annotations(pdf)' = Contract!Without(notes, Contract!Named(notes, name))
  <2>1. notes.ok /\ notes.of = Notes(pdf)
    BY <1>1, Reported, ReadableParts
  <2>2. AnnotationArrays(doc)
    BY <1>2, <1>5 DEF AnnotationArrays
  <2>3. inspect_annotations(pdf)' = Contract!Readable(Notes(doc))
    BY <1>3, <1>4, <2>2, Reported, Primes DEF Alike
  <2> HIDE DEF notes
  <2> QED
    BY <1>8, <1>9, <2>1, <2>3 DEF Contract!Named, Contract!Without
<1>11. Contract!KeepForm
  <2>1. ASSUME Dangling(pdf) = {}
        PROVE  /\ collect_form_fields(pdf') = collect_form_fields(pdf)
               /\ discover_pdf_signature_dictionaries(pdf') = discover_pdf_signature_dictionaries(pdf)
    <3>1. Live(doc) = Live(pdf) /\ Dangling(doc) = {}
      BY <1>2, <2>1 DEF Live, Dangling
    <3>2. \A i : /\ FieldReport(doc, i) = FieldReport(pdf, i) /\ (IsField(doc, i) <=> IsField(pdf, i))
                 /\ IsSigned(doc, i) <=> IsSigned(pdf, i)
      BY <1>2 DEF FieldReport, IsField, IsSigned
    <3>3. Fields(doc) = Fields(pdf)
      BY <1>2, <3>2 DEF Fields
    <3>4. \A i \in gone : ~IsSigned(pdf, i)
      BY DocumentAssumption DEF NoteName, IsSigned
    <3>5. \A d, i : i \in Annotated(d) <=> \E p \in Range(d.pages) : d.annots[p].at # "ref" /\ i \in d.annots[p].ids
      BY DEF Annotated
    <3>6. \A i : i \in Annotated(doc) => i \in Annotated(pdf)
      BY <1>2, <1>5, <3>5
    <3>7. ASSUME NEW i \in Annotated(pdf), i \notin gone PROVE i \in Annotated(doc)
      <4>1. PICK p \in Range(pdf.pages) : i \in pdf.annots[p].ids
        BY <3>5
      <4> QED
        BY <1>2, <1>5, <3>5, <3>7, <4>1
    <3> HIDE DEF gone
    <3>8. ASSUME NEW s \in Signatures(doc) PROVE s \in Signatures(pdf)
      <4>1. PICK i \in doc.form.fields \cup Annotated(doc) : IsSigned(doc, i) /\ s = doc.objects[i].name
        BY DEF Signatures
      <4>2. i \in pdf.form.fields \cup Annotated(pdf) /\ IsSigned(pdf, i) /\ s = pdf.objects[i].name
        BY <1>2, <3>2, <3>6, <4>1
      <4> QED
        BY <4>2 DEF Signatures
    <3>9. ASSUME NEW s \in Signatures(pdf) PROVE s \in Signatures(doc)
      <4>1. PICK i \in pdf.form.fields \cup Annotated(pdf) : IsSigned(pdf, i) /\ s = pdf.objects[i].name
        BY DEF Signatures
      <4>2. i \in doc.form.fields \cup Annotated(doc) /\ IsSigned(doc, i) /\ s = doc.objects[i].name
        BY <1>2, <3>2, <3>4, <3>7, <4>1
      <4> QED
        BY <4>2 DEF Signatures
    <3>10. Signatures(doc) = Signatures(pdf)
      BY <3>8, <3>9
    <3>11. /\ collect_form_fields(doc) = collect_form_fields(pdf)
           /\ discover_pdf_signature_dictionaries(doc) = discover_pdf_signature_dictionaries(pdf)
      BY <1>3, <2>1, <3>1, <3>3, <3>10, Reported
    <3> QED
      BY <1>4, <3>1, <3>11 DEF Alike
  <2> QED
    BY <2>1, FormKept
<1>12. /\ read_attachment_reports(pdf)' = read_attachment_reports(pdf)
       /\ read_metadata_entries(pdf)' = read_metadata_entries(pdf)
       /\ read_outline_tree(pdf)' = read_outline_tree(pdf)
       /\ pdf'.pages = pdf.pages /\ UNCHANGED Extensible(pdf)
  <2>1. /\ read_attachment_reports(doc) = read_attachment_reports(pdf)
        /\ read_metadata_entries(doc) = read_metadata_entries(pdf)
        /\ read_outline_tree(doc) = read_outline_tree(pdf) /\ Extensible(doc) = Extensible(pdf)
    BY <1>2, ListInTree, SameExtensible DEF read_metadata_entries, read_outline_tree
  <2> QED
    BY <1>2, <1>4, <2>1, Primes DEF Alike
<1> QED
  BY <1>4, <1>10, <1>11, <1>12 DEF Contract!DeleteNote

-----------------------------------------------------------------------------
(* Pages that stay take their annotations along, and the form stays.         *)

LEMMA KeepPagesReports ==
  ASSUME Whole(pdf), NEW order \in Seq(PageIds), keep_pages(order)
  PROVE  Whole(pdf') /\ Contract!KeepPages(order)
<1> DEFINE op == <<"keep pages", order>>
           doc == WithPages(order)
           fields == collect_form_fields(pdf)
           signatures == discover_pdf_signature_dictionaries(pdf)
           notes == inspect_annotations(pdf)
           outline == read_outline_tree(pdf)
<1>1. /\ Range(order) \subseteq Range(pdf.pages) /\ order # <<>>
      /\ Edit(op, doc) /\ doc = WithPages(order) /\ Sound(pdf)
  BY DEF keep_pages, WithPages, Whole
<1> HIDE DEF doc
<1>2. Sound(doc) /\ CutTo(doc, order)
  BY <1>1, WithPagesSound
<1>3. /\ doc.pages = order /\ doc.form = pdf.form /\ doc.objects = pdf.objects
      /\ \A p \in Range(order) : p \in Range(pdf.pages) /\ doc.annots[p] = pdf.annots[p]
      /\ doc.names = pdf.names /\ doc.info = pdf.info /\ doc.outline = pdf.outline /\ doc.seal = pdf.seal
  <2>1. Range(order) \subseteq PageIds
    BY <1>1, PagesTyped
  <2> QED
    BY <1>1, <1>2, <2>1 DEF CutTo
<1>4. Whole(doc)
  BY <1>2, <1>3 DEF Whole, Typed
<1>5. Whole(pdf') /\ Alike(pdf', doc) /\ Contract!Edit(op)
  BY <1>1, <1>3, <1>4, Edited
<1>6. \A p, i : NoteReport(doc, p, i) = NoteReport(pdf, p, i) /\ NoteReport(pdf, p, i).page = p
  BY <1>3 DEF NoteReport, NoteName
<1>7. ASSUME notes.ok
      PROVE  inspect_annotations(pdf)' = Contract!Without(notes, {n \in notes.of : n.page \notin Range(order)})
  <2>1. AnnotationArrays(pdf)
    BY <1>7, Reported, ReadableParts
  <2>2. AnnotationArrays(doc)
    BY <1>3, <2>1 DEF AnnotationArrays
  <2>3. notes.of = Notes(pdf)
    BY <2>1, Reported, ReadableParts
  <2>4. inspect_annotations(pdf)' = Contract!Readable(Notes(doc))
    BY <1>4, <1>5, <2>2, Reported, Primes DEF Alike
  <2>5. ASSUME NEW n \in Notes(doc) PROVE n \in Notes(pdf) /\ n.page \in Range(order)
    <3>1. \E p \in Range(doc.pages) : \E i \in doc.annots[p].ids : n = NoteReport(doc, p, i)
      BY NotesIn
    <3>2. PICK p \in Range(order) : \E i \in doc.annots[p].ids : n = NoteReport(doc, p, i)
      BY <1>3, <3>1
    <3>3. PICK i \in doc.annots[p].ids : n = NoteReport(doc, p, i)
      BY <3>2
    <3>4. i \in pdf.annots[p].ids /\ n = NoteReport(pdf, p, i) /\ p \in Range(pdf.pages)
      BY <1>3, <1>6, <3>3
    <3> QED
      BY <1>6, <3>4, NotesIn
  <2>6. ASSUME NEW n \in Notes(pdf), n.page \in Range(order) PROVE n \in Notes(doc)
    <3>1. PICK p \in Range(pdf.pages) : \E i \in pdf.annots[p].ids : n = NoteReport(pdf, p, i)
      BY NotesIn
    <3>2. PICK i \in pdf.annots[p].ids : n = NoteReport(pdf, p, i)
      BY <3>1
    <3>3. p \in Range(order)
      BY <1>6, <2>6, <3>2
    <3>4. p \in Range(doc.pages) /\ i \in doc.annots[p].ids /\ n = NoteReport(doc, p, i)
      BY <1>3, <1>6, <3>2, <3>3
    <3> QED
      BY <3>4, NotesIn
  <2>7. Notes(doc) = Notes(pdf) \ {n \in Notes(pdf) : n.page \notin Range(order)}
    BY <2>5, <2>6
  <2> HIDE DEF notes
  <2> QED
    BY <1>7, <2>3, <2>4, <2>7 DEF Contract!Without
<1>8. ASSUME fields.ok
      PROVE  /\ collect_form_fields(pdf)' = fields
             /\ signatures.ok => /\ discover_pdf_signature_dictionaries(pdf)'.ok
                                 /\ Contract!SignedFields \subseteq discover_pdf_signature_dictionaries(pdf)'.of
                                 /\ discover_pdf_signature_dictionaries(pdf)'.of \subseteq signatures.of
  <2>1. Dangling(pdf) = {}
    BY <1>8, Reported, ReadableParts
  <2>2. Dangling(doc) = {}
    BY <1>3, <2>1 DEF Dangling, Live
  <2>3. \A i : /\ FieldReport(doc, i) = FieldReport(pdf, i) /\ (IsField(doc, i) <=> IsField(pdf, i))
               /\ IsSigned(doc, i) <=> IsSigned(pdf, i)
    BY <1>3 DEF FieldReport, IsField, IsSigned
  <2>4. Fields(doc) = Fields(pdf)
    BY <1>3, <2>3 DEF Fields
  <2>5. \A d, i : i \in Annotated(d) <=> \E p \in Range(d.pages) : d.annots[p].at # "ref" /\ i \in d.annots[p].ids
    BY DEF Annotated
  <2>6. \A i : i \in Annotated(doc) => i \in Annotated(pdf)
    BY <1>3, <2>5
  <2>7. Signatures(doc) \subseteq Signatures(pdf)
    <3> SUFFICES ASSUME NEW s \in Signatures(doc) PROVE s \in Signatures(pdf)
      OBVIOUS
    <3>1. PICK i \in doc.form.fields \cup Annotated(doc) : IsSigned(doc, i) /\ s = doc.objects[i].name
      BY DEF Signatures
    <3>2. i \in pdf.form.fields \cup Annotated(pdf) /\ IsSigned(pdf, i) /\ s = pdf.objects[i].name
      BY <1>3, <2>3, <2>6, <3>1
    <3> QED
      BY <3>2 DEF Signatures
  <2>8. /\ collect_form_fields(pdf)' = Contract!Readable(Fields(pdf))
        /\ discover_pdf_signature_dictionaries(pdf)' = Contract!Readable(Signatures(doc))
    <3>1. /\ collect_form_fields(doc) = Contract!Readable(Fields(pdf))
          /\ discover_pdf_signature_dictionaries(doc) = Contract!Readable(Signatures(doc))
      BY <1>4, <2>2, <2>4, Reported
    <3> QED
      BY <1>5, <2>2, <3>1, Primes DEF Alike
  <2>9. fields = Contract!Readable(Fields(pdf)) /\ signatures = Contract!Readable(Signatures(pdf))
    BY <2>1, Reported
  <2>10. /\ discover_pdf_signature_dictionaries(pdf)'.ok
         /\ discover_pdf_signature_dictionaries(pdf)'.of = Signatures(doc)
         /\ signatures.of = Signatures(pdf) /\ fields.of = Fields(pdf)
    BY <2>8, <2>9, ReadableParts
  <2>11. Contract!SignedFields \subseteq Signatures(doc)
    <3>1. Contract!SignedFields = SignedNames(pdf)
      BY <2>10, SignedReports DEF Contract!SignedFields
    <3>2. SignedNames(doc) = SignedNames(pdf)
      BY <1>3 DEF SignedNames, IsSigned
    <3> QED
      BY <3>1, <3>2, SignedReports
  <2> QED
    BY <2>7, <2>8, <2>9, <2>10, <2>11
<1>9. read_outline_tree(pdf)' = IF outline.of \subseteq Range(order) THEN outline ELSE Contract!Unreadable
  <2>1. read_outline_tree(pdf)' = read_outline_tree(doc)
    BY <1>5, Primes DEF Alike
  <2>2. read_outline_tree(doc) = IF pdf.outline \subseteq Range(order) THEN Contract!Readable(pdf.outline)
                                                                       ELSE Contract!Unreadable
    BY <1>3 DEF read_outline_tree, Contract!Readable, Contract!Unreadable
  <2>3. CASE pdf.outline \subseteq Range(pdf.pages)
    <3>1. outline = Contract!Readable(pdf.outline)
      BY <2>3 DEF read_outline_tree, Contract!Readable
    <3> HIDE DEF outline
    <3> QED
      BY <2>1, <2>2, <3>1, ReadableParts
  <2>4. CASE ~(pdf.outline \subseteq Range(pdf.pages))
    <3>1. outline = Contract!Unreadable
      BY <2>4 DEF read_outline_tree, Contract!Unreadable
    <3>2. ~(pdf.outline \subseteq Range(order))
      BY <1>1, <2>4
    <3> HIDE DEF outline
    <3> QED
      BY <2>1, <2>2, <3>1, <3>2
  <2> QED
    BY <2>3, <2>4
<1>10. /\ read_attachment_reports(pdf)' = read_attachment_reports(pdf)
       /\ read_metadata_entries(pdf)' = read_metadata_entries(pdf)
       /\ pdf'.pages = order /\ UNCHANGED Extensible(pdf)
  <2>1. /\ read_attachment_reports(doc) = read_attachment_reports(pdf)
        /\ read_metadata_entries(doc) = read_metadata_entries(pdf) /\ Extensible(doc) = Extensible(pdf)
    BY <1>3, ListInTree, SameExtensible DEF read_metadata_entries
  <2> QED
    BY <1>3, <1>5, <2>1, Primes DEF Alike
<1> HIDE DEF fields, signatures, notes, outline
<1> QED
  BY <1>1, <1>5, <1>7, <1>8, <1>9, <1>10
  DEF Contract!KeepPages, Contract!Range, Range, fields, signatures, notes, outline

-----------------------------------------------------------------------------
LEMMA OriginalsWhole == ASSUME NEW doc \in Originals PROVE Whole(doc)
<1>1. doc \in Documents
  BY DocumentAssumption
<1>2. Typed(doc)
  BY <1>1 DEF Documents, Typed
<1> QED
  BY <1>2, OriginalsSound DEF Whole

\* Every operator does what the contract says of it.
LEMMA StepReports ==
  ASSUME Whole(pdf), Next
  PROVE  Whole(pdf') /\ Contract!Next
<1>1. ASSUME NEW name \in Texts, add_attachment(name) PROVE Whole(pdf') /\ Contract!Next
  <2>1. Whole(pdf') /\ Contract!AddAttachment(name)
    BY <1>1, AddAttachmentReports
  <2> QED  BY <2>1 DEF Contract!Next
<1>2. ASSUME NEW name \in Texts, delete_attachment(name) PROVE Whole(pdf') /\ Contract!Next
  <2>1. Whole(pdf') /\ Contract!DeleteAttachment(name)
    BY <1>2, DeleteAttachmentReports
  <2> QED  BY <2>1 DEF Contract!Next
<1>3. ASSUME NEW name \in Texts, add_pdf_signature(name) PROVE Whole(pdf') /\ Contract!Next
  <2>1. Whole(pdf') /\ Contract!Sign(name)
    BY <1>3, SignReports
  <2> QED  BY <2>1 DEF Contract!Next
<1>4. ASSUME NEW name \in Texts, NEW destructive \in BOOLEAN, delete_pdf_signature_field(name, destructive)
      PROVE  Whole(pdf') /\ Contract!Next
  <2>1. Whole(pdf') /\ Contract!DeleteSignature(name, destructive)
    BY <1>4, DeleteSignatureReports
  <2> QED  BY <2>1 DEF Contract!Next
<1>5. ASSUME NEW name \in Texts, delete_annotation(name) PROVE Whole(pdf') /\ Contract!Next
  <2>1. Whole(pdf') /\ Contract!DeleteNote(name)
    BY <1>5, DeleteNoteReports
  <2> QED  BY <2>1 DEF Contract!Next
<1>6. ASSUME NEW name \in Texts, NEW page \in PageIds, add_text_annotation(page, name)
      PROVE  Whole(pdf') /\ Contract!Next
  <2>1. Whole(pdf') /\ Contract!AddNote(page, name)
    BY <1>6, AddNoteReports
  <2> QED  BY <2>1 DEF Contract!Next
<1>7. ASSUME NEW names \in SUBSET Texts, fill_form(names) PROVE Whole(pdf') /\ Contract!Next
  <2>1. Whole(pdf') /\ Contract!FillForm(names)
    BY <1>7, FillReports
  <2> QED  BY <2>1 DEF Contract!Next
<1>8. ASSUME unlock_form_readonly PROVE Whole(pdf') /\ Contract!Next
  <2>1. Whole(pdf') /\ Contract!UnlockForm
    BY <1>8, UnlockReports
  <2> QED  BY <2>1 DEF Contract!Next
<1>9. ASSUME remove_forms PROVE Whole(pdf') /\ Contract!Next
  <2>1. Whole(pdf') /\ Contract!RemoveForm
    BY <1>9, RemoveFormReports
  <2> QED  BY <2>1 DEF Contract!Next
<1>10. ASSUME NEW what \in SUBSET {"annotations", "forms", "actions", "javascript", "embedded_files"},
              remove_interactive(what)
       PROVE  Whole(pdf') /\ Contract!Next
  <2>1. Whole(pdf') /\ Contract!RemoveInteractive(what)
    BY <1>10, InteractiveReports
  <2> QED  BY <2>1 DEF Contract!Next
<1>11. ASSUME NEW some \in SUBSET Keys, edit_metadata(some, {}) PROVE Whole(pdf') /\ Contract!Next
  <2>1. Whole(pdf') /\ Contract!EditMetadata(some, {})
    BY <1>11, MetadataReports
  <2> QED  BY <2>1 DEF Contract!Next
<1>12. ASSUME NEW some \in SUBSET Keys, edit_metadata({}, some) PROVE Whole(pdf') /\ Contract!Next
  <2>1. Whole(pdf') /\ Contract!EditMetadata({}, some)
    BY <1>12, MetadataReports
  <2> QED  BY <2>1 DEF Contract!Next
<1>13. ASSUME validate_metadata PROVE Whole(pdf') /\ Contract!Next
  <2>1. Whole(pdf') /\ Contract!EditMetadata({}, {})
    BY <1>13, MetadataReports
  <2> QED  BY <2>1 DEF Contract!Next
<1>14. ASSUME NEW some \in SUBSET PageIds, edit_outline(some) PROVE Whole(pdf') /\ Contract!Next
  <2>1. Whole(pdf') /\ Contract!SetOutline(some)
    BY <1>14, OutlineReports
  <2> QED  BY <2>1 DEF Contract!Next
<1>15. ASSUME NEW order \in UNION {[1..n -> PageIds] : n \in DOMAIN pdf.pages}, keep_pages(order)
       PROVE  Whole(pdf') /\ Contract!Next
  <2>1. order \in Seq(PageIds)
    <3>1. PICK n \in DOMAIN pdf.pages : order \in [1..n -> PageIds]
      OBVIOUS
    <3>2. pdf.pages \in Seq(PageIds)
      BY DEF Whole, Typed
    <3>3. n \in Nat
      BY <3>1, <3>2
    <3> QED
      BY <3>1, <3>3
  <2>2. Whole(pdf') /\ Contract!KeepPages(order)
    BY <1>15, <2>1, KeepPagesReports
  <2> QED  BY <2>2 DEF Contract!Next
<1>16. ASSUME NEW seal \in Seals, encrypt_pdf(seal) \/ set_pdf_permissions(seal) PROVE Whole(pdf') /\ Contract!Next
  <2>1. Whole(pdf') /\ (Contract!Encrypt \/ Contract!SetPermissions)
    BY <1>16, SecurityReports
  <2> QED  BY <2>1 DEF Contract!Next
<1>17. ASSUME NEW password \in Passwords, decrypt_pdf(password) PROVE Whole(pdf') /\ Contract!Next
  <2>1. Whole(pdf') /\ Contract!Decrypt
    BY <1>17, SecurityReports
  <2> QED  BY <2>1 DEF Contract!Next
<1> QED
  BY <1>1, <1>2, <1>3, <1>4, <1>5, <1>6, <1>7, <1>8, <1>9, <1>10, <1>11, <1>12, <1>13, <1>14, <1>15,
     <1>16, <1>17 DEF Next

\* Whatever documents it starts from, how they hold their forms, their
\* annotations and their files, and whatever operators run: each changes what
\* the inspection operators report as the contract says.  That is its own part
\* of the document and no other, except that all annotations go with the form,
\* that signatures only a page refers to go with its annotations or the page, and
\* that of a form which cannot be read nothing is promised.  The other
\* attachments and fields stay listed where their list is an object of its own,
\* and are lost to an addition only where it is not.
THEOREM DocumentImplementsReport == Spec => ImplementsReport
<1>1. Init => Whole(pdf)
  BY OriginalsWhole DEF Init
<1>2. Whole(pdf) /\ [Next]_vars => Whole(pdf)'
  <2>1. Whole(pdf)' <=> Whole(pdf')
    BY DEF Whole, Typed, Sound, Shape, Resolves, Live, Range
  <2>2. ASSUME Whole(pdf), UNCHANGED vars PROVE Whole(pdf')
    BY <2>2 DEF vars
  <2> QED
    BY <2>1, <2>2, StepReports
<1>3. Init => Contract!Init
  <2> SUFFICES ASSUME Init PROVE Contract!Init
    OBVIOUS
  <2>1. pdf \in Originals /\ last = <<"none">>
    BY DEF Init
  <2>2. Report(pdf) \in {Report(doc) : doc \in Originals}
    BY <2>1
  <2>3. /\ Report(pdf).pages = pdf.pages /\ Report(pdf).files = read_attachment_reports(pdf)
        /\ Report(pdf).fields = collect_form_fields(pdf)
        /\ Report(pdf).signatures = discover_pdf_signature_dictionaries(pdf)
        /\ Report(pdf).notes = inspect_annotations(pdf) /\ Report(pdf).keys = read_metadata_entries(pdf)
        /\ Report(pdf).outline = read_outline_tree(pdf) /\ Report(pdf).seal = pdf.seal
        /\ Report(pdf).extensible = Extensible(pdf)
    BY DEF Report
  <2> QED
    BY <2>1, <2>2, <2>3 DEF Contract!Init
<1>4. Whole(pdf) /\ [Next]_vars => [Contract!Next]_(Contract!reportVars)
  <2>1. UNCHANGED vars => UNCHANGED Contract!reportVars
    <3> SUFFICES ASSUME UNCHANGED vars PROVE UNCHANGED Contract!reportVars
      OBVIOUS
    <3>1. pdf' = pdf /\ last' = last
      BY DEF vars
    <3>2. /\ read_attachment_reports(pdf)' = read_attachment_reports(pdf)
          /\ collect_form_fields(pdf)' = collect_form_fields(pdf)
          /\ discover_pdf_signature_dictionaries(pdf)' = discover_pdf_signature_dictionaries(pdf)
          /\ inspect_annotations(pdf)' = inspect_annotations(pdf)
          /\ read_metadata_entries(pdf)' = read_metadata_entries(pdf)
          /\ read_outline_tree(pdf)' = read_outline_tree(pdf)
          /\ Extensible(pdf)' = Extensible(pdf)
      BY <3>1, Primes
    <3> QED
      BY <3>1, <3>2 DEF Contract!reportVars
  <2> QED
    BY <2>1, StepReports
<1> QED
  BY <1>1, <1>2, <1>3, <1>4, PTL DEF Spec, ImplementsReport, Contract!Spec
=============================================================================
