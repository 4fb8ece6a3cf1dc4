----------------------------- MODULE MCDocument -----------------------------
(* Documents of two pages: each way to store the name tree with each way to  *)
(* store the form and the annotations.                                       *)
EXTENDS Document

SomeTrees ==
    {NoNames,
     [at |-> "inline", script |-> TRUE, files |-> "inline", entries |-> <<<<"name", "a">>, <<"spec", "a">>>>],
     [at |-> "ref", script |-> TRUE, files |-> "none", entries |-> <<>>],
     [at |-> "ref", script |-> FALSE, files |-> "ref", entries |-> <<<<"name", "a">>, <<"spec", "a">>>>],
     \* lists that cannot be read
     [at |-> "ref", script |-> FALSE, files |-> "ref", entries |-> <<<<"name", "a">>, <<"name", "b">>, <<"spec", "b">>>>],
     [at |-> "ref", script |-> FALSE, files |-> "ref", entries |-> <<<<"name", "a">>, <<"name", "b">>>>]}

Field(kind, name, filled) == [Object(kind, name, filled) EXCEPT !.readonly = kind = "Tx"]
Padded(some) == [id \in Ids |-> IF id \in DOMAIN some THEN some[id] ELSE NoObject]
FormAt(place, ids) == [NoForm EXCEPT !.at = place, !.fields = ids]
AnnotsAt(place, ids) == [at |-> place, ids |-> ids]

\* A text field and a signature field with widgets on the first page and an
\* annotation on the second.
StoredForms ==
    {[form |-> FormAt(place, {1, 2}), first |-> AnnotsAt(widgets, {1, 2}), second |-> AnnotsAt("inline", {3}),
      objects |-> <<Field("Tx", "a", FALSE), Field("Sig", "b", signed), Field("Text", "a", FALSE)>>] :
        place \in {"inline", "ref"}, widgets \in {"inline", "ref"}, signed \in BOOLEAN}
    \cup {[form |-> NoForm, first |-> NoAnnots, second |-> NoAnnots, objects |-> <<>>],
          \* two signature fields of one name, and a field that is no text
          [form |-> FormAt("ref", {1, 2, 3}), first |-> NoAnnots, second |-> AnnotsAt("inline", {1, 2}),
           objects |-> <<Field("Sig", "b", FALSE), Field("Sig", "b", TRUE), Field("Btn", "a", FALSE)>>],
          [form |-> [FormAt("ref", {1}) EXCEPT !.xfa = TRUE], first |-> AnnotsAt("inline", {1}),
           second |-> AnnotsAt("ref", {2}),
           objects |-> <<Field("Tx", "a", FALSE), Field("Text", "b", FALSE)>>],
          \* a signature that only an array of its own object refers to
          [form |-> FormAt("inline", {1}), first |-> AnnotsAt("inline", {1}), second |-> AnnotsAt("ref", {2}),
           objects |-> <<Field("Sig", "b", TRUE), Field("Sig", "a", TRUE)>>]}

Document1(names, f) ==
    [pages |-> <<1, 2>>, names |-> names, form |-> f.form, annots |-> <<f.first, f.second>>,
     objects |-> Padded(f.objects), actions |-> TRUE, info |-> [k \in Keys |-> "name"], outline |-> {2},
     seal |-> Open]

SomeDocuments ==
    LET open == {Document1(names, f) : names \in SomeTrees, f \in StoredForms}
    IN  open \cup {[doc EXCEPT !.seal = [owner |-> "p", user |-> "q"]] :
                    doc \in {d \in open : d.names = NoNames}}
PlainDocument == {Document1(NoNames, [form |-> NoForm, first |-> NoAnnots, second |-> NoAnnots, objects |-> <<>>])}
=============================================================================
