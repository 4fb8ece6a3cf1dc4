------------------------------ MODULE Drawing ------------------------------
(***************************************************************************)
(* What the operators that draw on pages do to the objects they draw with: *)
(* overlays and watermarks, image resources, colours and compression.  The *)
(* contents of a page name its resources; a Resources dictionary says what *)
(* a name stands for, and may be the page's own, an object that pages      *)
(* share, or the parent's, inherited.  Every operator loads the file,      *)
(* edits it and saves it; one that fails changes nothing.                  *)
(***************************************************************************)
EXTENDS Integers, Sequences

CONSTANTS
    Originals,  \* the parsed documents at first
    Pages, Root,\* page objects, and the Pages node above them
    Dicts,      \* objects that are Resources dictionaries
    Ids,        \* stream objects: images and forms
    Names,      \* keys of XObject dictionaries, with the program's own
    UserNames,  \* image names that a caller may ask for, sanitized
    Pictures, Fonts, Texts, Tints,
    None,
    Nothing,    \* what is seen of a form that has lost its resources
    MaxEdits    \* bound: operators run in a behaviour

VARIABLES pdf, edits, last
vars == <<pdf, edits, last>>

WatermarkFont == "OxWmF1"   \* a key of Font dictionaries
Levels == 0..4              \* of a colour component, in quarters

Holders == Pages \cup {Root} \cup Dicts
Resources ==
    {res \in [xobject : {"none", "inline", "ref"}, x : [Names -> Ids \cup {None}],
              font : Fonts \cup {None}, tint : Tints \cup {None}] :
        res.xobject = "none" => \A n \in Names : res.x[n] = None}
\* A stream that is no reference to an image shows something itself.
Streams ==
    {stream \in [kind : {"none", "image", "form"}, shows : Pictures \cup {Nothing, None}, uses : Ids \cup {None},
                 plain : BOOLEAN, coding : {"raw", "jpeg"}] :
        stream.kind = "none" \/ stream.uses # None \/ stream.shows # None}
Item(kinds, names) ==
    [kind : kinds, of : names, text : Texts \cup {""}, level : Levels, tinted : BOOLEAN]
Items == Item({"do"}, Names) \cup Item({"text"}, {WatermarkFont}) \cup Item({"rgb", "gray"}, {""})
Contents == [Pages -> Seq(Items)]
\* Where Resources is, if anywhere: a node has its own or refers to an object.
Homes ==
    {home \in [Pages \cup {Root} -> Holders \cup {None}] :
        \A node \in Pages \cup {Root} : home[node] \in {node, None} \cup Dicts}
Documents ==
    [home : Homes,
     dicts : [Holders -> Resources],
     streams : [Ids -> Streams],
     contents : Contents,
     sized : SUBSET Pages,      \* pages with a MediaBox of their own
     odd : BOOLEAN]             \* another stream has a filter that cannot be undone

NoResources == [xobject |-> "none", x |-> [n \in Names |-> None], font |-> None, tint |-> None]
Image(picture) == [kind |-> "image", shows |-> picture, uses |-> None, plain |-> TRUE, coding |-> "raw"]
Form(picture, id) == [kind |-> "form", shows |-> picture, uses |-> id, plain |-> TRUE, coding |-> "raw"]
NoStream == [kind |-> "none", shows |-> None, uses |-> None, plain |-> TRUE, coding |-> "raw"]

Live(doc) == {id \in Ids : doc.streams[id].kind # "none"}

\* A form uses an image at most.
Resolves(doc) ==
    /\ \A h \in Holders, n \in Names : doc.dicts[h].x[n] \in Live(doc) \cup {None}
    /\ \A id \in Live(doc) :
         \/ doc.streams[id].uses = None
         \/ doc.streams[id].uses \in Live(doc) /\ doc.streams[doc.streams[id].uses].uses = None

ASSUME DrawingAssumption ==
    /\ MaxEdits \in Nat /\ UserNames \subseteq Names
    /\ {"OxWmIm", "OxWmSvg", "OxPdfOverlay"} \subseteq Names /\ WatermarkFont \notin Names
    /\ None \notin Ids /\ None \notin Holders /\ None \notin Pictures
    /\ Nothing \notin Pictures \cup {None}
    /\ Root \notin Pages /\ Dicts \cap (Pages \cup {Root}) = {}
    /\ Originals \subseteq Documents
    /\ \A doc \in Originals : Resolves(doc)

Init == pdf \in Originals /\ edits = 0 /\ last = <<"none">>

-----------------------------------------------------------------------------
\* save_pdf drops streams that no dictionary and no kept form refers to.  That it
\* also numbers the rest anew shows nowhere here.
Referenced(doc) ==
    LET named == {doc.dicts[h].x[n] : h \in Holders, n \in Names}
    IN  Ids \cap (named \cup {doc.streams[id].uses : id \in Ids \cap named})
Pruned(doc) ==
    LET kept == Referenced(doc)
    IN  [doc EXCEPT !.streams = [id \in Ids |-> IF id \in kept THEN doc.streams[id] ELSE NoStream]]

Edit(op, doc) == pdf' = Pruned(doc) /\ edits' = edits + 1 /\ last' = op

\* Bound: as many streams as Ids has.
Room(doc) == Live(doc) # Ids
new_object_id(doc) == CHOOSE id \in Ids : id \notin Live(doc)
add_object(doc, stream) == [doc EXCEPT !.streams[new_object_id(doc)] = stream]

-----------------------------------------------------------------------------
\* A page without Resources gets an empty dictionary of its own; the dictionary
\* of one that refers to an object is that object.
get_or_create_resources(doc, on) ==
    LET bare == {p \in on : doc.home[p] = None}
    IN  [doc EXCEPT !.home = [n \in DOMAIN @ |-> IF n \in bare THEN n ELSE @[n]],
                    !.dicts = [h \in Holders |-> IF h \in bare THEN NoResources ELSE @[h]]]
Edited(doc, on) == {doc.home[p] : p \in on}

add_resource_dict_entries(doc, on, Entries(_)) ==
    LET given == get_or_create_resources(doc, on)
    IN  [given EXCEPT !.dicts = [h \in Holders |-> IF h \in Edited(given, on) THEN Entries(@[h]) ELSE @[h]]]

CanAddXObject(doc, on) == \A p \in on : doc.home[p] # None => doc.dicts[doc.home[p]].xobject # "ref"
WithXObject(res, name, id) == [res EXCEPT !.xobject = "inline", !.x[name] = id]

add_page_contents(doc, on, item) ==
    [doc EXCEPT !.contents = [p \in Pages |-> IF p \in on THEN Append(@[p], item) ELSE @[p]]]

DoItem(name, tinted) == [kind |-> "do", of |-> name, text |-> "", level |-> 0, tinted |-> tinted]
TextItem(text) == [kind |-> "text", of |-> WatermarkFont, text |-> text, level |-> 0, tinted |-> TRUE]

-----------------------------------------------------------------------------
(* overlay and watermark                                                     *)
append_text_watermark(on, text, font, tint) ==
    LET entered == add_resource_dict_entries(pdf, on, LAMBDA res :
                        [res EXCEPT !.font = font, !.tint = tint])
    IN  /\ on # {} /\ on \subseteq pdf.sized
        /\ Edit(<<"overlay", on, TextItem(text), font, tint, FALSE>>, add_page_contents(entered, on, TextItem(text)))

append_xobject_watermark(doc, on, id, name, thing, tint, hidden) ==
    LET entered == add_resource_dict_entries(doc, on, LAMBDA res :
                        WithXObject([res EXCEPT !.tint = tint], name, id))
    IN  /\ on # {} /\ on \subseteq doc.sized /\ CanAddXObject(doc, on)
        /\ Edit(<<"overlay", on, DoItem(name, TRUE), thing, tint, hidden>>,
                add_page_contents(entered, on, DoItem(name, TRUE)))

\* Also what becomes of an SVG that is rasterized.
append_image_watermark(on, picture, tint) ==
    /\ Room(pdf)
    /\ append_xobject_watermark(add_object(pdf, Image(picture)), on, new_object_id(pdf),
                                "OxWmIm", picture, tint, FALSE)

append_svg_watermark(on, picture, tint) ==
    /\ Room(pdf)
    /\ append_xobject_watermark(add_object(pdf, Form(picture, None)), on, new_object_id(pdf),
                                "OxWmSvg", picture, tint, FALSE)

\* Where the page that is laid over others has the resources it draws with: in
\* itself, in an object that it or a node above refers to, or inside such a node.
Places == {"own", "object", "parent"}

\* Mutant: only what the page has itself is imported.
own_page_resources(picture, place) == IF place = "own" THEN {Image(picture)} ELSE {}

\* The image that the page draws is copied for its form, if it is found: only
\* what lies in the page itself or in an object is looked up.
imported_page_resources(picture, place) == IF place = "parent" THEN {} ELSE {Image(picture)}

\* The page becomes a form; without its resources it draws nothing with them.
append_pdf_page_overlay(on, picture, tint, place) ==
    /\ Room(pdf)
    /\ \/ /\ imported_page_resources(picture, place) = {}
          /\ append_xobject_watermark(add_object(pdf, Form(Nothing, None)), on, new_object_id(pdf),
                                      "OxPdfOverlay", picture, tint, place = "parent")
       \/ \E image \in imported_page_resources(picture, place) :
            LET imported == add_object(pdf, image)
            IN  /\ Room(imported)
                /\ append_xobject_watermark(add_object(imported, Form(None, new_object_id(pdf))), on,
                                            new_object_id(imported), "OxPdfOverlay", picture, tint, place = "parent")

-----------------------------------------------------------------------------
(* image resources                                                           *)
\* Painted with the opacity OxWmGS that the page may have from an overlay.
add_image_to_page(p, name, picture) ==
    LET entered == add_resource_dict_entries(add_object(pdf, Image(picture)), {p},
                        LAMBDA res : WithXObject(res, name, new_object_id(pdf)))
    IN  /\ p \in pdf.sized /\ CanAddXObject(pdf, {p}) /\ Room(pdf)
        /\ Edit(<<"add image", p, DoItem(name, TRUE), picture>>,
                add_page_contents(entered, {p}, DoItem(name, TRUE)))

merge_resource_dictionary(target, source) ==
    IF source.xobject = "none" THEN target
    ELSE IF target.xobject = "inline" /\ source.xobject = "inline"
    THEN [source EXCEPT !.x = [n \in Names |-> IF source.x[n] # None THEN source.x[n] ELSE target.x[n]]]
    ELSE source

\* The parent's dictionary counts only if it is an object of its own.
Inherited(doc) == IF doc.home[Root] \in Dicts THEN doc.dicts[doc.home[Root]] ELSE NoResources
OwnResources(doc, p) == IF doc.home[p] = None THEN NoResources ELSE doc.dicts[doc.home[p]]

\* Mutant: the parent's dictionary is merged last.
ParentLast(doc, p) == merge_resource_dictionary(OwnResources(doc, p), Inherited(doc))

MergedResources(doc, p) == merge_resource_dictionary(Inherited(doc), OwnResources(doc, p))

page_xobject_reference(doc, p, name) ==
    IF MergedResources(doc, p).xobject = "inline" THEN MergedResources(doc, p).x[name] ELSE None

\* What an image or a form shows.
Picture(doc, id) ==
    IF id = None THEN None
    ELSE IF doc.streams[id].uses # None THEN doc.streams[doc.streams[id].uses].shows
    ELSE doc.streams[id].shows

\* The stream is overwritten where it is, whatever else refers to it.
replace_image_resource(name, picture) ==
    LET found == {page_xobject_reference(pdf, p, name) : p \in Pages} \ {None}
    IN  /\ \A p \in Pages : MergedResources(pdf, p).xobject # "ref"
        /\ found # {}
        /\ Edit(<<"replace image", name, picture, {Picture(pdf, id) : id \in found}>>,
                [pdf EXCEPT !.streams = [id \in Ids |-> IF id \in found THEN Image(picture) ELSE @[id]]])

\* On every page, which all get dictionaries of their own.
delete_image_resource(name) ==
    LET given == get_or_create_resources(pdf, Pages)
        edited == Edited(given, Pages)
    IN  /\ CanAddXObject(pdf, Pages)
        /\ \E h \in edited : given.dicts[h].x[name] # None
        /\ Edit(<<"delete image", name>>,
                [given EXCEPT !.dicts = [h \in Holders |->
                    IF h \in edited THEN [given.dicts[h] EXCEPT !.x[name] = None] ELSE given.dicts[h]]])

-----------------------------------------------------------------------------
(* colours                                                                   *)
Clamp(level) == IF level < 0 THEN 0 ELSE IF level > 4 THEN 4 ELSE level
ColorPlans ==
    {[level \in Levels |-> 4 - level]}
    \cup {[level \in Levels |-> IF level = from THEN to ELSE level] : from \in {0, 1}, to \in {2}}
    \cup {[level \in Levels |-> Clamp((level - 2) * factor + 2)] : factor \in {1, 2}}

Recolored(item, plan) == IF item.kind = "rgb" THEN [item EXCEPT !.level = plan[@]] ELSE item

\* A page that sets a colour in another way than by its RGB components fails
\* the whole.
rewrite_page_colors(on, plan) ==
    /\ on # {}
    /\ \A p \in on : \A k \in DOMAIN pdf.contents[p] : pdf.contents[p][k].kind # "gray"
    /\ Edit(<<"edit colors", on, plan>>,
            [pdf EXCEPT !.contents = [p \in Pages |->
                IF p \notin on THEN @[p]
                ELSE [k \in DOMAIN @[p] |-> Recolored(@[p][k], plan)]]])

-----------------------------------------------------------------------------
(* compression                                                               *)
\* Mutant: the pictures are not compared.
KeyWithoutContent(stream) == [stream EXCEPT !.shows = None]
ResourceStreamKey(stream) == stream

\* Of streams with equal keys one stays, and stands for the others.
canonical(doc) ==
    [id \in Live(doc) |-> CHOOSE other \in Live(doc) :
        ResourceStreamKey(doc.streams[other]) = ResourceStreamKey(doc.streams[id])]

Remap(ref, to) == IF ref \in DOMAIN to THEN to[ref] ELSE ref

RemappedDicts(doc, to) ==
    [h \in Holders |-> [doc.dicts[h] EXCEPT !.x = [n \in Names |-> Remap(doc.dicts[h].x[n], to)]]]
RemappedStreams(doc, to) ==
    [id \in Ids |-> [doc.streams[id] EXCEPT !.uses = Remap(doc.streams[id].uses, to)]]

\* Mutant: references of streams to streams are overlooked.
remap_dictionaries_only(doc, to) == [doc EXCEPT !.dicts = RemappedDicts(doc, to)]

remap_duplicate_references(doc, to) ==
    [doc EXCEPT !.dicts = RemappedDicts(doc, to), !.streams = RemappedStreams(doc, to)]

merge_duplicate_resource_streams(doc) ==
    LET to == canonical(doc)
        remapped == remap_duplicate_references(doc, to)
    IN  [remapped EXCEPT !.streams = [id \in Ids |->
            IF id \in Live(doc) /\ to[id] # id THEN NoStream ELSE @[id]]]

recompress_images_lossy(doc) ==
    [doc EXCEPT !.streams = [id \in Ids |->
        IF doc.streams[id].kind = "image" THEN [doc.streams[id] EXCEPT !.coding = "jpeg"]
        ELSE doc.streams[id]]]

compress_on_document(mode) ==
    LET merged == merge_duplicate_resource_streams(pdf)
    IN  /\ ~pdf.odd
        /\ mode = "lossy" => \A id \in Live(merged) : merged.streams[id].kind = "image" => merged.streams[id].plain
        /\ Edit(<<"compress", mode>>, IF mode = "lossy" THEN recompress_images_lossy(merged) ELSE merged)

-----------------------------------------------------------------------------
Next ==
    /\ edits < MaxEdits
    /\ \/ \E on \in SUBSET Pages, tint \in Tints :
             \/ \E text \in Texts, font \in Fonts : append_text_watermark(on, text, font, tint)
             \/ \E picture \in Pictures :
                   \/ append_image_watermark(on, picture, tint)
                   \/ append_svg_watermark(on, picture, tint)
                   \/ \E place \in Places : append_pdf_page_overlay(on, picture, tint, place)
       \/ \E name \in UserNames :
             \/ delete_image_resource(name)
             \/ \E picture \in Pictures :
                   \/ replace_image_resource(name, picture)
                   \/ \E p \in Pages : add_image_to_page(p, name, picture)
       \/ \E on \in SUBSET Pages, plan \in ColorPlans : rewrite_page_colors(on, plan)
       \/ \E mode \in {"lossless", "lossy"} : compress_on_document(mode)

Spec == Init /\ [][Next]_vars

-----------------------------------------------------------------------------
(* What a viewer shows: a page's own dictionary is in force, or its parent's *)
(* if it has none; the two are never merged.                                 *)
InForce(doc, p) ==
    IF doc.home[p] # None THEN doc.dicts[doc.home[p]]
    ELSE IF doc.home[Root] # None THEN doc.dicts[doc.home[Root]] ELSE NoResources

Mark(doc, p, item) ==
    [item |-> item,
     shows |-> CASE item.kind = "do" -> Picture(doc, InForce(doc, p).x[item.of])
                 [] item.kind = "text" -> InForce(doc, p).font
                 [] OTHER -> None,
     tint |-> IF item.tinted THEN InForce(doc, p).tint ELSE None]
LooksOf(doc) == [p \in Pages |-> [k \in DOMAIN doc.contents[p] |-> Mark(doc, p, doc.contents[p][k])]]

\* Every name and every form leads to a stream that is there, however streams
\* are shared, merged, overwritten and dropped; and where a page shows an image
\* under a name, the program takes no other for it.
NamesResolve ==
    /\ Resolves(pdf)
    /\ \A p \in Pages, n \in Names :
         LET shown == InForce(pdf, p).x[n]  found == page_xobject_reference(pdf, p, n)
         IN  shown # None /\ found # None => found = shown

Contract == INSTANCE PageLooks WITH
    FirstLooks <- {<<LooksOf(doc), doc.home>> : doc \in Originals},
    Things <- Pictures \cup Fonts \cup {Nothing}, Names <- UserNames, Plans <- ColorPlans,
    Brushes <- {DoItem(name, TRUE) : name \in Names} \cup {TextItem(text) : text \in Texts},
    looks <- LooksOf(pdf), home <- pdf.home, done <- last

\* Each operator paints, replaces, removes or recolours what it was asked to, on
\* the pages it was asked to, and a compression changes no mark.  No other mark
\* changes, with the exceptions of PageLooks: a page that inherits its resources
\* loses the marks painted with them when it is given some of its own, marks of
\* the program's have a name and an opacity in common, an image that is replaced
\* changes other marks that showed it, and an overlaid page is seen without
\* resources that are inside its parent.
ImplementsLooks == Contract!Spec
=============================================================================
