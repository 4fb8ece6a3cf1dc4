------------------------------ MODULE PageTree ------------------------------
(***************************************************************************)
(* The page operations of oxidepdf-core on the object graph of a PDF:      *)
(* page_ops, rebuild_pages_tree, and the saving and loading that happens   *)
(* between two operators of a workflow.                                    *)
(*                                                                         *)
(* A document is its root Pages node and its page-tree objects by id.      *)
(* Object ids are numbers because their order decides what merge does.     *)
(* What a page draws is a sequence of marks.  Rotate, MediaBox (here the   *)
(* page's height) and Resources may be on the page or inherited; None says *)
(* that an object does not have the key.  An operation that fails works on *)
(* a copy and changes nothing, so only successful ones are steps.          *)
(***************************************************************************)
EXTENDS Integers, SequencesExt, FiniteSetsExt

CONSTANTS
    Slots,       \* the artifacts of the workflow
    Originals,   \* the parsed documents they may hold at first
    PageSpecs,   \* the page ranges asked for, as sequences of <<first, last>>
    Degrees,     \* the rotations asked for
    MaxPages,    \* limits.max_pages
    MaxEdits,    \* bound: operations in a behaviour
    None         \* an absent key

ASSUME PageAssumption ==
    /\ MaxPages \in Nat \ {0} /\ MaxEdits \in Nat
    /\ Degrees \subseteq Int
    /\ \A spec \in PageSpecs : spec \in Seq(Nat \X Nat)

VARIABLES
    pdf,     \* slot -> the document
    form,    \* slot -> "bytes" or "object", the kind of artifact
    edits,   \* operations so far
    last     \* the last operation: name, slot, pages chosen

vars == <<pdf, form, edits, last>>

NoParent == 0

Ids(doc) == DOMAIN doc.objects
IsPage(doc, id) == doc.objects[id].type = "Page"

\* get_pages: the leaves of the tree in order.  Originals are at most two levels
\* deep, and so is what is made of them.
PageIds(doc) ==
    LET kids(id) == doc.objects[id].kids IN
    FlattenSeq([k \in DOMAIN kids(doc.root) |->
        IF IsPage(doc, kids(doc.root)[k]) THEN <<kids(doc.root)[k]>> ELSE kids(kids(doc.root)[k])])

PageCount(doc) == Len(PageIds(doc))
PageObject(doc, n) == doc.objects[PageIds(doc)[n]]

\* An inheritable key: on the object itself, or on the next Parent that has it.
Attribute(doc, id, key) ==
    LET parent(i) == IF i \in Ids(doc) THEN doc.objects[i].parent ELSE NoParent
        line == SelectSeq(<<id, parent(id), parent(parent(id))>>,
                          LAMBDA i : i \in Ids(doc) /\ doc.objects[i][key] # None)
    IN  IF line = <<>> THEN None ELSE doc.objects[line[1]][key]

\* The numbers of S, from the least on.
Ascending(S) ==
    [k \in 1..Cardinality(S) |-> CHOOSE n \in S : Cardinality({m \in S : m < n}) = k - 1]

-----------------------------------------------------------------------------
(* What a document is: its tree hangs together and has a page.  An object   *)
(* outside the tree may be anything, and may name objects that are gone.    *)

IsObject(object) ==
    /\ DOMAIN object = {"type", "parent", "kids", "count", "rotate", "box", "crop",
                         "resources", "marks"}
    /\ object.type \in {"Page", "Pages"}
    /\ object.parent \in Nat
    /\ object.kids \in Seq(Nat)
    /\ object.type = "Page" => object.kids = <<>>
    /\ object.rotate \in {None, 0, 90, 180, 270}

\* Objects by id, one of which is the root.
IsGraph(doc) ==
    /\ DOMAIN doc = {"root", "objects"}
    /\ IsFiniteSet(Ids(doc)) /\ Ids(doc) \subseteq Nat \ {0}
    /\ \A id \in Ids(doc) : IsObject(doc.objects[id])
    /\ doc.root \in Ids(doc) /\ ~ IsPage(doc, doc.root)

Kids(doc, id) == ToSet(doc.objects[id].kids)
Nodes(doc) == {id \in Kids(doc, doc.root) : ~ IsPage(doc, id)}
\* The pages below a node, and below the root.
Leaves(doc, id) == {kid \in Kids(doc, id) : IsPage(doc, kid)}
AllLeaves(doc) == Leaves(doc, doc.root) \cup UNION {Leaves(doc, id) : id \in Nodes(doc)}

IsDocument(doc) ==
    /\ IsGraph(doc)
    /\ \A id \in {doc.root} \cup Nodes(doc) :
           /\ IsInjective(doc.objects[id].kids)
           /\ \A kid \in Kids(doc, id) : kid \in Ids(doc) /\ doc.objects[kid].parent = id
    /\ \A id \in Nodes(doc) :
           /\ doc.objects[id].count = Cardinality(Leaves(doc, id))
           /\ \A kid \in Kids(doc, id) : IsPage(doc, kid)
    /\ AllLeaves(doc) # {}
    /\ doc.objects[doc.root].count = Cardinality(AllLeaves(doc))

\* An absent key has no number.
ASSUME NoneAssumption == None \notin Int

\* Originals are conforming PDF files of at most two levels.
ASSUME OriginalsAssumption == \A doc \in Originals : IsDocument(doc)

-----------------------------------------------------------------------------
(* save_pdf and load_pdf.                                                   *)

\* prune_objects keeps what the tree reaches.
Prune(doc) ==
    LET kids(id) == ToSet(doc.objects[id].kids)
        live == {doc.root} \cup kids(doc.root) \cup UNION {kids(id) : id \in kids(doc.root)}
    IN  [doc EXCEPT !.objects = [id \in live |-> doc.objects[id]]]

\* Mutant: renumbers in id order, whatever the order of the pages.
RenumberByIds(doc, start) ==
    LET new(id) == start + Cardinality({i \in Ids(doc) : i < id})
        moved(id) == IF id \in Ids(doc) THEN new(id) ELSE id
    IN  [root |-> new(doc.root),
         objects |-> [n \in {new(id) : id \in Ids(doc)} |->
             LET object == doc.objects[CHOOSE id \in Ids(doc) : new(id) = n] IN
             [object EXCEPT !.parent = moved(@),
                            !.kids = [k \in DOMAIN @ |-> moved(@[k])]]]]
\* renumber_objects_with: the ids of the pages are first dealt out again in page
\* order, then all ids become consecutive.  A dangling reference stays as it is.
Renumber(doc, start) ==
    LET pages == PageIds(doc)
        pageIds == Ascending(ToSet(pages))
        dealt(id) == IF id \in ToSet(pages)
                     THEN pageIds[CHOOSE k \in DOMAIN pages : pages[k] = id] ELSE id
        new(id) == start + Cardinality({i \in Ids(doc) : i < dealt(id)})
        moved(id) == IF id \in Ids(doc) THEN new(id) ELSE id
    IN  [root |-> new(doc.root),
         objects |-> [n \in {new(id) : id \in Ids(doc)} |->
             LET object == doc.objects[CHOOSE id \in Ids(doc) : new(id) = n] IN
             [object EXCEPT !.parent = moved(@),
                            !.kids = [k \in DOMAIN @ |-> moved(@[k])]]]]

\* single_pdf_document: an object artifact is saved and loaded again.
Loaded(s) ==
    IF form[s] = "object" THEN Renumber(Prune(pdf[s]), 1) ELSE pdf[s]

-----------------------------------------------------------------------------
(* Page ranges.                                                             *)

Expanded(spec) ==
    FlattenSeq([i \in DOMAIN spec |->
        [k \in 1..(spec[i][2] - spec[i][1] + 1) |-> spec[i][1] + k - 1]])

\* Mutant: does not look for duplicates.
RangeWithDuplicates(spec, count) ==
    /\ spec # <<>>
    /\ \A i \in DOMAIN spec : 1 <= spec[i][1] /\ spec[i][1] <= spec[i][2] /\ spec[i][2] <= count
\* parse_page_range accepts ascending ranges within the document, no page twice.
RangeAccepted(spec, count) ==
    /\ spec # <<>>
    /\ \A i \in DOMAIN spec : 1 <= spec[i][1] /\ spec[i][1] <= spec[i][2] /\ spec[i][2] <= count
    /\ Cardinality(ToSet(Expanded(spec))) = Len(Expanded(spec))

Selections(count) == {Expanded(spec) : spec \in {r \in PageSpecs : RangeAccepted(r, count)}}
AllPages(count) == [p \in 1..count |-> p]
\* selected_or_all_pages.
SelectionsOrAll(count) == Selections(count) \cup {AllPages(count)}

-----------------------------------------------------------------------------
(* The tree.                                                                *)

\* rebuild_pages_tree: the root lists the pages itself.
RebuildPagesTree(doc, pages) ==
    [doc EXCEPT !.objects = [id \in Ids(doc) |->
        IF id = doc.root THEN [@[id] EXCEPT !.kids = pages, !.count = Len(pages)]
        ELSE IF id \in ToSet(pages) THEN [@[id] EXCEPT !.parent = doc.root]
        ELSE @[id]]]

\* Mutant: in document order, not in the order asked for.
KeepInDocumentOrder(doc, selected) ==
    LET kept == [k \in DOMAIN selected |-> PageIds(doc)[Ascending(ToSet(selected))[k]]]
        gone == ToSet(PageIds(doc)) \ ToSet(kept)
    IN  RebuildPagesTree([doc EXCEPT !.objects = [id \in Ids(doc) \ gone |-> @[id]]], kept)
\* keep_pages.  Nodes between the root and the pages stay behind as orphans.
KeepPages(doc, selected) ==
    LET kept == [k \in DOMAIN selected |-> PageIds(doc)[selected[k]]]
        gone == ToSet(PageIds(doc)) \ ToSet(kept)
    IN  RebuildPagesTree([doc EXCEPT !.objects = [id \in Ids(doc) \ gone |-> @[id]]], kept)

\* Mutant: the pages of the first document keep their old Parent.
MergeKeepingParents(left, right) ==
    LET first == Renumber(left, 1)
        second == Renumber(right, Cardinality(Ids(left)) + 1)
        objects == [id \in Ids(first) \cup Ids(second) |->
                        IF id \in Ids(first) THEN first.objects[id] ELSE second.objects[id]]
        pages == ToSet(PageIds(first)) \cup ToSet(PageIds(second))
        root == Min({id \in DOMAIN objects : objects[id].type = "Pages"})
    IN  [root |-> root,
         objects |-> [id \in pages \cup {root} |->
             IF id = root
             THEN [objects[id] EXCEPT !.kids = Ascending(pages), !.count = Cardinality(pages)]
             ELSE IF id \in Ids(first) THEN objects[id]
             ELSE [objects[id] EXCEPT !.parent = root]]]
\* merge_documents: one Pages node survives, the one with the lowest id; all
\* pages move below it, by ascending id.  Its own keys stay, Parent included.
MergeDocuments(left, right) ==
    LET first == Renumber(left, 1)
        second == Renumber(right, Cardinality(Ids(left)) + 1)
        objects == [id \in Ids(first) \cup Ids(second) |->
                        IF id \in Ids(first) THEN first.objects[id] ELSE second.objects[id]]
        pages == ToSet(PageIds(first)) \cup ToSet(PageIds(second))
        root == Min({id \in DOMAIN objects : objects[id].type = "Pages"})
    IN  [root |-> root,
         objects |-> [id \in pages \cup {root} |->
             IF id = root
             THEN [objects[id] EXCEPT !.kids = Ascending(pages), !.count = Cardinality(pages)]
             ELSE [objects[id] EXCEPT !.parent = root]]]

\* page_is_structurally_blank looks at the page's own keys only.
IsBlank(page) == page.marks = <<>> /\ page.resources \in {None, {}}
BlankPages(doc) == {p \in 1..PageCount(doc) : IsBlank(PageObject(doc, p))}

\* The pages numbered in `selected` changed by Changed, k the place of a page in it.
OnPages(doc, selected, Changed(_, _)) ==
    [doc EXCEPT !.objects = [id \in Ids(doc) |->
        LET places == {k \in DOMAIN selected : PageIds(doc)[selected[k]] = id} IN
        IF places = {} THEN @[id] ELSE Changed(@[id], CHOOSE k \in places : TRUE)]]

-----------------------------------------------------------------------------
(* The operators.                                                           *)

Init ==
    /\ pdf \in [Slots -> Originals]
    /\ form = [s \in Slots |-> "bytes"]
    /\ edits = 0
    /\ last = [op |-> "none"]

\* One operator reads slot s and leaves `after` in it.
Edit(s, op, pages, after, kind) ==
    /\ edits' = edits + 1
    /\ pdf' = [pdf EXCEPT ![s] = after]
    /\ form' = [form EXCEPT ![s] = kind]
    /\ last' = [op |-> op, slot |-> s, pages |-> pages]

\* enforce_max_pages on the document an operator is about to change (and the
\* bound on the behaviour).
WithinLimit(doc) == edits < MaxEdits /\ PageCount(doc) <= MaxPages

\* split, extract and reorder are one operation.
Keep(s) ==
    LET doc == Loaded(s) IN
    /\ WithinLimit(doc)
    /\ \E selected \in Selections(PageCount(doc)) :
           Edit(s, "keep", selected, KeepPages(doc, selected), "object")

\* Mutant: may delete every page.
DeleteAll(s) ==
    LET doc == Loaded(s) IN
    /\ WithinLimit(doc)
    /\ \E deleted \in Selections(PageCount(doc)) :
           LET kept == Ascending(1..PageCount(doc) \ ToSet(deleted))
           IN  Edit(s, "delete", kept, KeepPages(doc, kept), "object")
Delete(s) ==
    LET doc == Loaded(s) IN
    /\ WithinLimit(doc)
    /\ \E deleted \in Selections(PageCount(doc)) :
           LET kept == Ascending(1..PageCount(doc) \ ToSet(deleted))
           IN  /\ Len(deleted) # PageCount(doc)
               /\ Edit(s, "delete", kept, KeepPages(doc, kept), "object")

DeleteBlank(s) ==
    LET doc == Loaded(s)
        kept == Ascending(1..PageCount(doc) \ BlankPages(doc))
    IN  /\ WithinLimit(doc)
        /\ BlankPages(doc) # {} /\ kept # <<>>
        /\ Edit(s, "delete blank", kept, KeepPages(doc, kept), "object")

\* rotate_on_document adds to the page's own Rotate, or to 0.
RotatePages(doc, selected, degrees) ==
    OnPages(doc, selected, LAMBDA page, k : [page EXCEPT
        !.rotate = ((IF @ = None THEN 0 ELSE @) + degrees) % 360])
Rotate(s) ==
    LET doc == Loaded(s) IN
    /\ WithinLimit(doc)
    /\ \E selected \in Selections(PageCount(doc)), degrees \in Degrees :
           /\ degrees % 360 \in {90, 180, 270}
           /\ Edit(s, "rotate", selected, RotatePages(doc, selected, degrees), "object")

CropPages(doc, selected) ==
    OnPages(doc, selected, LAMBDA page, k : [page EXCEPT !.crop = TRUE])
Crop(s) ==
    LET doc == Loaded(s) IN
    /\ WithinLimit(doc)
    /\ \E selected \in SelectionsOrAll(PageCount(doc)) :
           Edit(s, "crop", selected, CropPages(doc, selected), "object")

\* scale_page_boxes (the boxes the page has itself) and prepend_page_transform.
ScalePages(doc, selected) ==
    OnPages(doc, selected, LAMBDA page, k : [page EXCEPT
        !.box = IF @ = None THEN None ELSE 2 * @,
        !.marks = <<<<"scaled", 2>>>> \o @])
Scale(s) ==
    LET doc == Loaded(s) IN
    /\ WithinLimit(doc)
    /\ \E selected \in SelectionsOrAll(PageCount(doc)) :
           Edit(s, "scale", selected, ScalePages(doc, selected), "object")

HasBox(doc, selected) == \A k \in DOMAIN selected : PageObject(doc, selected[k]).box # None

\* add_page_numbers_on_document: the font goes into the page's own Resources,
\* which are created empty if the page has none.
NumberPages(doc, selected, start) ==
    OnPages(doc, selected, LAMBDA page, k : [page EXCEPT
        !.resources = (IF @ = None THEN {} ELSE @) \cup {"OxPnF1"},
        !.marks = Append(@, <<"number", start + k - 1>>)])
PageNumbers(s) ==
    LET doc == Loaded(s) IN
    /\ WithinLimit(doc)
    /\ \E selected \in SelectionsOrAll(PageCount(doc)), start \in 1..2 :
           /\ HasBox(doc, selected)
           /\ Edit(s, "number", selected, NumberPages(doc, selected, start), "object")

Heights(doc) == [p \in 1..PageCount(doc) |-> PageObject(doc, p).box]
\* Mutant: the first page is placed at the bottom.
StackedFromBottom(doc, p) == SumFunctionOnSet(Heights(doc), 1..(p - 1))
\* The offset single_page_on_document has counted down to at page p.
Offset(doc, p) == SumFunctionOnSet(Heights(doc), (p + 1)..PageCount(doc))

\* single_page_on_document: everything is drawn on the first page, which gets the
\* resources of all; the other pages fall out of the tree.
FusePages(doc) ==
    LET count == PageCount(doc)
        placed == [p \in 1..count |-> <<<<"at", Offset(doc, p)>>>> \o PageObject(doc, p).marks]
        resources == UNION {Attribute(doc, PageIds(doc)[p], "resources") : p \in
                        {q \in 1..count : Attribute(doc, PageIds(doc)[q], "resources") # None}}
        box == SumFunctionOnSet(Heights(doc), 1..count)
    IN  OnPages(doc, <<1>>, LAMBDA page, k : [page EXCEPT
            !.marks = FlattenSeq(placed), !.crop = TRUE, !.resources = resources, !.box = box])
SinglePage(s) ==
    LET doc == Loaded(s) IN
    /\ WithinLimit(doc)
    /\ PageCount(doc) >= 2
    /\ HasBox(doc, AllPages(PageCount(doc)))
    /\ Edit(s, "single page", <<1>>,
            RebuildPagesTree(FusePages(doc), <<PageIds(doc)[1]>>), "object")

-----------------------------------------------------------------------------
(* Imposition builds a new document out of the marks of the old.            *)

\* impose_pages: `order` counts source pages from 0 and may run past them.
ImposePages(doc, order, cells) ==
    LET sheets == (Len(order) + cells - 1) \div cells
        source(n, k) == IF (n - 1) * cells + k > Len(order) THEN PageCount(doc)
                        ELSE order[(n - 1) * cells + k]
        drawn(n) == FlattenSeq([k \in 1..cells |->
            IF source(n, k) < PageCount(doc)
            THEN <<<<"cell", k>>>> \o PageObject(doc, source(n, k) + 1).marks ELSE <<>>])
        page(n) == [type |-> "Page", parent |-> 2, kids |-> <<>>, count |-> 0, rotate |-> None,
                    box |-> PageObject(doc, 1).box, crop |-> TRUE, resources |-> {"OxPg"},
                    marks |-> drawn(n)]
        root == [page(1) EXCEPT !.type = "Pages", !.parent = NoParent, !.box = None,
                    !.crop = FALSE, !.resources = None, !.marks = <<>>, !.count = sheets,
                    !.kids = [n \in 1..sheets |-> n + 2]]
    IN  [root |-> 2, objects |-> [id \in 2..(sheets + 2) |-> IF id = 2 THEN root ELSE page(id - 2)]]

Imposable(doc, order) ==
    /\ WithinLimit(doc)
    /\ HasBox(doc, <<1>> \o [k \in DOMAIN order |-> IF order[k] < PageCount(doc) THEN order[k] + 1 ELSE 1])

NUp(s) ==
    LET doc == Loaded(s)
        order == [k \in 1..PageCount(doc) |-> k - 1]
    IN  \E cells \in 1..2 :
            /\ Imposable(doc, order)
            /\ (PageCount(doc) + cells - 1) \div cells <= MaxPages
            /\ Edit(s, "nup", order, ImposePages(doc, order, cells), "bytes")

\* Mutant: the back of a sheet is not mirrored.
UnmirroredBack(padded, sheet) ==
    <<padded - sheet * 2 - 1, sheet * 2, padded - sheet * 2 - 2, sheet * 2 + 1>>
\* One sheet of booklet_page_order: left and right of its front, then of its back.
BookletSheet(padded, sheet) ==
    <<padded - sheet * 2 - 1, sheet * 2, sheet * 2 + 1, padded - sheet * 2 - 2>>
BookletPageOrder(count) ==
    LET sheets == (count + 3) \div 4 IN
    FlattenSeq([n \in 1..sheets |-> BookletSheet(4 * sheets, n - 1)])

Booklet(s) ==
    LET doc == Loaded(s)
        order == BookletPageOrder(PageCount(doc))
    IN  /\ Imposable(doc, order)
        /\ PageCount(doc) >= 2
        /\ 2 * ((PageCount(doc) + 3) \div 4) <= MaxPages
        /\ Edit(s, "booklet", order, ImposePages(doc, order, 2), "bytes")

\* Mutant: counts the pages of the first input only.
MergeWithinFirst(s, left, right) ==
    /\ edits < MaxEdits
    /\ PageCount(left) <= MaxPages
    /\ Edit(s, "merge", <<>>, MergeDocuments(left, right), "object")
\* merge_artifacts_to_document takes object artifacts as they are.
Merge(s, left, right) ==
    /\ edits < MaxEdits
    /\ PageCount(left) + PageCount(right) <= MaxPages
    /\ Edit(s, "merge", <<>>, MergeDocuments(left, right), "object")

\* What else can go into a merge: another artifact, or a document as it was read.
Others == {pdf[t] : t \in Slots} \cup Originals

Next ==
    \E s \in Slots :
        \/ Keep(s) \/ Delete(s) \/ DeleteBlank(s) \/ Rotate(s) \/ Crop(s) \/ Scale(s)
        \/ PageNumbers(s) \/ SinglePage(s) \/ NUp(s) \/ Booklet(s)
        \/ \E other \in Others : Merge(s, pdf[s], other) \/ Merge(s, other, pdf[s])

Spec == Init /\ [][Next]_vars

-----------------------------------------------------------------------------
(* Properties.                                                              *)

\* Every artifact is a graph of typed objects, among which are the pages it lists.
TypeOK ==
    /\ DOMAIN pdf = Slots
    /\ form \in [Slots -> {"bytes", "object"}]
    /\ edits \in 0..MaxEdits
    /\ \A s \in Slots : IsGraph(pdf[s]) /\ ToSet(PageIds(pdf[s])) \subseteq Ids(pdf[s])

HangsTogether(doc) ==
    LET pages == ToSet(PageIds(doc))
        below(id) == {p \in pages : id = doc.root \/ p \in Kids(doc, id)}
    IN  /\ Cardinality(pages) = PageCount(doc)
        /\ \A id \in {doc.root} \cup Nodes(doc) :
               /\ doc.objects[id].count = Cardinality(below(id))
               /\ \A kid \in Kids(doc, id) : doc.objects[kid].parent = id

\* The tree of every document hangs together: no page occurs twice, every kid of
\* a node names that node as its Parent, and every Count is the number of pages
\* below its node.  RebuildPagesTree and MergeDocuments each mend it by hand, and
\* leave the nodes between root and pages behind.
TreeConsistent == \A s \in Slots : HangsTogether(pdf[s])

\* No operation makes an empty document or one over max_pages, in any chain.
PagesBounded ==
    \A s \in Slots : last.op # "none" /\ last.slot = s => PageCount(pdf[s]) \in 1..MaxPages

\* The pages in their order, each with its own keys; without inheritance.
View(doc) ==
    [p \in 1..PageCount(doc) |->
        LET page == PageObject(doc, p) IN
        [marks |-> page.marks, box |-> page.box, crop |-> page.crop,
         turn |-> IF page.rotate = None THEN 0 ELSE page.rotate]]
Views == [s \in Slots |-> View(pdf[s])]

\* Whatever the ids and the shape of the trees, the operations act as they do on
\* a sequence of pages.
List == INSTANCE PageList WITH
            lists <- Views,
            done <- IF last.op = "none" THEN <<"none">> ELSE <<last.op, last.slot>>,
            Documents <- {View(doc) : doc \in Originals},
            Orders <- {Expanded(spec) : spec \in PageSpecs}
ImplementsPageList == List!Spec

-----------------------------------------------------------------------------
(* Claims that documents with inherited keys refute.                        *)

Look(doc, id) ==
    [box |-> Attribute(doc, id, "box"), resources |-> Attribute(doc, id, "resources"),
     turn |-> LET rotate == Attribute(doc, id, "rotate") IN IF rotate = None THEN 0 ELSE rotate]

\* "Rotates selected PDF pages by 90, 180, or 270 degrees"
\* (page_ops/selection_edit.rs:64): what a viewer shows of them turns.
RotateTurns ==
    [][last'.op = "rotate" /\ edits' # edits =>
        \A k \in DOMAIN last'.pages :
            Look(pdf'[last'.slot], PageIds(pdf'[last'.slot])[last'.pages[k]]).turn
                # Look(pdf[last'.slot], PageIds(pdf[last'.slot])[last'.pages[k]]).turn]_vars

\* "Splits a PDF by keeping the specified one-based pages"
\* (page_ops/selection_edit.rs:1): a page that is kept looks as before.
KeptPagesLookTheSame ==
    [][last'.op = "keep" /\ edits' # edits =>
        \A k \in DOMAIN last'.pages :
            Look(pdf'[last'.slot], PageIds(pdf'[last'.slot])[k])
                = Look(pdf[last'.slot], PageIds(pdf[last'.slot])[last'.pages[k]])]_vars
=============================================================================
