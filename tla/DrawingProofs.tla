--------------------------- MODULE DrawingProofs ---------------------------
(***************************************************************************)
(* Two results for any documents, any number of objects and any sequence   *)
(* of operators.  Names and forms lead to streams that are there, and the  *)
(* program finds under a name what the page shows.  And every operator     *)
(* does to the looks of the pages what PageLooks says of it.               *)
(*                                                                         *)
(* NamesResolve is not inductive by itself: an update of a component says  *)
(* nothing of a value that is no record with that component.  Shape is     *)
(* what of the documents' type the argument needs.  Its second half is a   *)
(* consequence of Shape alone.                                             *)
(***************************************************************************)
EXTENDS Drawing, TLAPS

Shape(doc) ==
    /\ doc = [home |-> doc.home, dicts |-> doc.dicts, streams |-> doc.streams,
              contents |-> doc.contents, sized |-> doc.sized, odd |-> doc.odd]
    /\ doc.home \in Homes
    /\ doc.dicts \in [Holders -> Resources]
    /\ doc.streams \in [Ids -> Streams]
    /\ doc.contents \in Contents

Sound(doc) == Shape(doc) /\ Resolves(doc)

-----------------------------------------------------------------------------
\* The documents at first are sound.
LEMMA OriginalsSound == \A doc \in Originals : Sound(doc)
<1> SUFFICES ASSUME NEW doc \in Originals PROVE Sound(doc)
    OBVIOUS
<1>1. doc \in Documents /\ Resolves(doc)
    BY DrawingAssumption DEF DrawingAssumption
<1>2. Shape(doc)
    BY <1>1 DEF Documents, Shape
<1> QED  BY <1>1, <1>2 DEF Sound

\* Saving drops no stream that is referred to.
LEMMA PrunedSound == ASSUME NEW doc, Sound(doc) PROVE Sound(Pruned(doc))
<1> DEFINE pruned == Pruned(doc)
<1>1. Shape(doc) /\ Resolves(doc)
    BY DEF Sound
<1>2. NoStream \in Streams
    BY DEF NoStream, Streams
<1>3. /\ pruned.home = doc.home /\ pruned.dicts = doc.dicts
      /\ pruned.streams = [id \in Ids |-> IF id \in Referenced(doc) THEN doc.streams[id] ELSE NoStream]
    BY <1>1 DEF Pruned, Shape
<1>4. Shape(pruned)
    BY <1>1, <1>2 DEF Shape, Pruned
<1>5. Live(pruned) = Live(doc) \cap Referenced(doc)
    BY <1>3 DEF Live, NoStream
<1>6. ASSUME NEW h \in Holders, NEW n \in Names
      PROVE  pruned.dicts[h].x[n] \in Live(pruned) \cup {None}
    <2>1. doc.dicts[h].x[n] \in Live(doc) \cup {None}
        BY <1>1 DEF Resolves
    <2>2. doc.dicts[h].x[n] \in Ids => doc.dicts[h].x[n] \in Referenced(doc)
        BY DEF Referenced
    <2> QED  BY <2>1, <2>2, <1>3, <1>5 DEF Live
<1>7. ASSUME NEW id \in Live(pruned)
      PROVE  \/ pruned.streams[id].uses = None
             \/ /\ pruned.streams[id].uses \in Live(pruned)
                /\ pruned.streams[pruned.streams[id].uses].uses = None
    <2>1. id \in Ids /\ id \in Live(doc) /\ id \in Referenced(doc)
        BY <1>5 DEF Live
    <2>2. pruned.streams[id] = doc.streams[id]
        BY <2>1, <1>3
    <2>3. CASE doc.streams[id].uses = None
        BY <2>2, <2>3
    <2>4. CASE doc.streams[id].uses # None
        <3> DEFINE inner == doc.streams[id].uses
        <3>1. inner \in Live(doc) /\ doc.streams[inner].uses = None
            BY <1>1, <2>1, <2>4 DEF Resolves
        <3>2. \E h \in Holders, n \in Names : id = doc.dicts[h].x[n]
            <4>1. CASE \E other \in Ids \cap {doc.dicts[h].x[n] : h \in Holders, n \in Names} :
                          id = doc.streams[other].uses
                <5>1. PICK other \in Ids \cap {doc.dicts[h].x[n] : h \in Holders, n \in Names} :
                          id = doc.streams[other].uses
                    BY <4>1
                <5>2. PICK h \in Holders, n \in Names : other = doc.dicts[h].x[n]
                    BY <5>1
                <5>3. other \in Live(doc)
                    BY <1>1, <5>1, <5>2, DrawingAssumption DEF Resolves, DrawingAssumption
                <5>4. id # None
                    BY <2>1, DrawingAssumption DEF DrawingAssumption
                <5>5. doc.streams[id].uses = None
                    BY <1>1, <5>1, <5>3, <5>4 DEF Resolves
                <5> QED  BY <5>5, <2>4
            <4> QED  BY <2>1, <4>1 DEF Referenced
        <3>3. inner \in Referenced(doc)
            <4> DEFINE named == {doc.dicts[h].x[n] : h \in Holders, n \in Names}
            <4>1. id \in Ids \cap named
                BY <2>1, <3>2
            <4>2. inner \in Ids
                BY <3>1 DEF Live
            <4>3. Referenced(doc) = Ids \cap (named \cup {doc.streams[other].uses : other \in Ids \cap named})
                BY DEF Referenced
            <4> HIDE DEF named
            <4> QED  BY <4>1, <4>2, <4>3
        <3>4. inner \in Live(pruned) /\ inner \in Ids
            BY <3>1, <3>3, <1>5 DEF Live
        <3>5. pruned.streams[inner] = doc.streams[inner]
            BY <3>3, <3>4, <1>3
        <3> QED  BY <2>2, <3>1, <3>4, <3>5
    <2> QED  BY <2>3, <2>4
<1>8. Resolves(pruned)
    BY <1>6, <1>7 DEF Resolves
<1> QED  BY <1>4, <1>8 DEF Sound

\* A step that saves a sound document leaves a sound one.
LEMMA EditSound == ASSUME NEW op, NEW doc, Sound(doc), Edit(op, doc) PROVE Sound(pdf')
BY PrunedSound DEF Edit

-----------------------------------------------------------------------------
\* One component of a document at a time.
LEMMA DictsSound ==
    ASSUME NEW doc, Sound(doc), NEW dicts \in [Holders -> Resources],
           \A h \in Holders, n \in Names : dicts[h].x[n] \in Live(doc) \cup {None}
    PROVE  /\ Sound([doc EXCEPT !.dicts = dicts])
           /\ Live([doc EXCEPT !.dicts = dicts]) = Live(doc)
<1> DEFINE new == [doc EXCEPT !.dicts = dicts]
<1>1. /\ Shape(new) /\ new.dicts = dicts /\ new.streams = doc.streams
    BY DEF Sound, Shape
<1>2. Live(new) = Live(doc)
    BY <1>1 DEF Live
<1>3. Resolves(new)
    BY <1>1, <1>2 DEF Sound, Resolves
<1> QED  BY <1>1, <1>2, <1>3 DEF Sound

LEMMA ContentsSound ==
    ASSUME NEW doc, Sound(doc), NEW contents \in Contents
    PROVE  Sound([doc EXCEPT !.contents = contents])
<1> DEFINE new == [doc EXCEPT !.contents = contents]
<1>1. /\ Shape(new) /\ new.dicts = doc.dicts /\ new.streams = doc.streams
    BY DEF Sound, Shape
<1>2. Live(new) = Live(doc)
    BY <1>1 DEF Live
<1>3. Resolves(new)
    BY <1>1, <1>2 DEF Sound, Resolves
<1> QED  BY <1>1, <1>3 DEF Sound

LEMMA ItemsTyped ==
    /\ \A name \in Names : DoItem(name, TRUE) \in Items
    /\ \A text \in Texts : TextItem(text) \in Items
<1>1. 0 \in Levels
    BY DEF Levels
<1>2. \A name \in Names : DoItem(name, TRUE) \in Item({"do"}, Names)
    BY <1>1 DEF DoItem, Item
<1>3. \A text \in Texts : TextItem(text) \in Item({"text"}, {WatermarkFont})
    BY <1>1 DEF TextItem, Item
<1> QED  BY <1>2, <1>3 DEF Items

LEMMA PaintedSound ==
    ASSUME NEW doc, Sound(doc), NEW on, NEW item \in Items
    PROVE  Sound(add_page_contents(doc, on, item))
<1> DEFINE contents == [p \in Pages |-> IF p \in on THEN Append(doc.contents[p], item) ELSE doc.contents[p]]
<1>1. add_page_contents(doc, on, item) = [doc EXCEPT !.contents = contents]
    BY DEF add_page_contents
<1>2. contents \in Contents
    BY DEF Sound, Shape, Contents
<1> HIDE DEF contents
<1> QED  BY <1>1, <1>2, ContentsSound

LEMMA StreamAdded ==
    ASSUME NEW doc, Sound(doc), Room(doc), NEW stream \in Streams, stream.kind # "none",
           \/ stream.uses = None
           \/ stream.uses \in Live(doc) /\ doc.streams[stream.uses].uses = None
    PROVE  /\ Sound(add_object(doc, stream))
           /\ Live(add_object(doc, stream)) = Live(doc) \cup {new_object_id(doc)}
           /\ new_object_id(doc) \in Ids \ Live(doc)
           /\ add_object(doc, stream).streams[new_object_id(doc)] = stream
           /\ add_object(doc, stream).home = doc.home
<1> DEFINE id == new_object_id(doc)
           new == add_object(doc, stream)
<1>1. id \in Ids \ Live(doc)
    BY DEF Room, new_object_id, Live
<1> HIDE DEF id
<1>2. new = [doc EXCEPT !.streams[id] = stream]
    BY DEF add_object, id
<1>3. /\ Shape(new) /\ new.dicts = doc.dicts /\ new.home = doc.home
      /\ new.streams = [doc.streams EXCEPT ![id] = stream]
    BY <1>1, <1>2 DEF Sound, Shape
<1> HIDE DEF new
<1>4. /\ new.streams[id] = stream
      /\ \A other \in Ids \ {id} : new.streams[other] = doc.streams[other]
    BY <1>1, <1>3 DEF Sound, Shape
<1>5. Live(new) = Live(doc) \cup {id}
    BY <1>1, <1>4 DEF Live
<1>6. Resolves(new)
    BY <1>1, <1>3, <1>4, <1>5 DEF Sound, Resolves, Live
<1> QED  BY <1>1, <1>3, <1>4, <1>5, <1>6 DEF Sound, new, id

-----------------------------------------------------------------------------
\* Dictionaries that pages are given, and the entries that are put into them.
LEMMA NoResourcesTyped == NoResources \in Resources
BY DEF NoResources, Resources

LEMMA CreatedSound ==
    ASSUME NEW doc, Sound(doc), NEW on \in SUBSET Pages
    PROVE  /\ Sound(get_or_create_resources(doc, on))
           /\ Live(get_or_create_resources(doc, on)) = Live(doc)
           /\ get_or_create_resources(doc, on).streams = doc.streams
<1> DEFINE bare == {p \in on : doc.home[p] = None}
           home == [n \in DOMAIN doc.home |-> IF n \in bare THEN n ELSE doc.home[n]]
           dicts == [h \in Holders |-> IF h \in bare THEN NoResources ELSE doc.dicts[h]]
           new == get_or_create_resources(doc, on)
<1>1. new = [doc EXCEPT !.home = home, !.dicts = dicts]
    BY DEF get_or_create_resources
<1>2. home \in Homes /\ dicts \in [Holders -> Resources]
    BY NoResourcesTyped DEF Sound, Shape, Homes, Holders
<1>3. \A h \in Holders, n \in Names : dicts[h].x[n] \in Live(doc) \cup {None}
    BY DEF Sound, Resolves, NoResources
<1> HIDE DEF home, dicts, new
<1>4. Shape(new) /\ new.dicts = dicts /\ new.streams = doc.streams
    BY <1>1, <1>2 DEF Sound, Shape
<1>5. Live(new) = Live(doc)
    BY <1>4 DEF Live
<1>6. Resolves(new)
    BY <1>3, <1>4, <1>5 DEF Sound, Resolves
<1> QED  BY <1>4, <1>5, <1>6 DEF Sound, new

LEMMA WithXObjectTyped ==
    ASSUME NEW res \in Resources, NEW name \in Names, NEW id \in Ids
    PROVE  /\ WithXObject(res, name, id) \in Resources
           /\ \A n \in Names : WithXObject(res, name, id).x[n] \in {id, res.x[n]}
BY DEF WithXObject, Resources

LEMMA TintedTyped ==
    ASSUME NEW res \in Resources, NEW tint \in Tints
    PROVE  [res EXCEPT !.tint = tint] \in Resources /\ [res EXCEPT !.tint = tint].x = res.x
BY DEF Resources

LEMMA FontTyped ==
    ASSUME NEW res \in Resources, NEW tint \in Tints, NEW font \in Fonts
    PROVE  /\ [res EXCEPT !.font = font, !.tint = tint] \in Resources
           /\ [res EXCEPT !.font = font, !.tint = tint].x = res.x
BY DEF Resources

-----------------------------------------------------------------------------
\* The operators, one by one.
LEMMA TextSound ==
    ASSUME Sound(pdf), NEW on \in SUBSET Pages, NEW text \in Texts, NEW font \in Fonts, NEW tint \in Tints,
           append_text_watermark(on, text, font, tint)
    PROVE  Sound(pdf')
<1> DEFINE given == get_or_create_resources(pdf, on)
           dicts == [h \in Holders |-> IF h \in Edited(given, on)
                                      THEN [given.dicts[h] EXCEPT !.font = font, !.tint = tint]
                                      ELSE given.dicts[h]]
           entered == [given EXCEPT !.dicts = dicts]
<1>1. Sound(given)
    BY CreatedSound
<1>2. given.dicts \in [Holders -> Resources]
    BY <1>1 DEF Sound, Shape
<1> HIDE DEF given
<1>3. dicts \in [Holders -> Resources] /\ \A h \in Holders : dicts[h].x = given.dicts[h].x
    BY <1>2, FontTyped
<1> HIDE DEF dicts
<1>4. Sound(entered)
    <2>1. \A h \in Holders, n \in Names : dicts[h].x[n] \in Live(given) \cup {None}
        BY <1>1, <1>3 DEF Sound, Resolves
    <2> QED  BY <1>1, <1>3, <2>1, DictsSound
<1>5. Sound(add_page_contents(entered, on, TextItem(text)))
    BY <1>4, ItemsTyped, PaintedSound
<1>6. Edit(<<"overlay", on, TextItem(text), font, tint, FALSE>>, add_page_contents(entered, on, TextItem(text)))
    BY DEF append_text_watermark, add_resource_dict_entries, entered, dicts, given
<1> QED  BY <1>5, <1>6, EditSound

\* The entry of a stream, with or without an opacity.
LEMMA EnteredSound ==
    ASSUME NEW doc, Sound(doc), NEW on \in SUBSET Pages, NEW name \in Names, NEW id \in Live(doc),
           NEW dicts \in [Holders -> Resources],
           \A h \in Holders, n \in Names :
               dicts[h].x[n] \in {id, get_or_create_resources(doc, on).dicts[h].x[n]}
    PROVE  Sound([get_or_create_resources(doc, on) EXCEPT !.dicts = dicts])
<1> DEFINE given == get_or_create_resources(doc, on)
<1>1. Sound(given) /\ Live(given) = Live(doc)
    BY CreatedSound
<1>2. \A h \in Holders, n \in Names : dicts[h].x[n] \in Live(given) \cup {None}
    BY <1>1 DEF Sound, Resolves
<1> HIDE DEF given
<1>3. Sound([given EXCEPT !.dicts = dicts])
    BY <1>1, <1>2, DictsSound
<1> QED  BY <1>3 DEF given

LEMMA XObjectSound ==
    ASSUME NEW doc, Sound(doc), NEW on \in SUBSET Pages, NEW name \in Names, NEW id \in Live(doc),
           NEW thing, NEW tint \in Tints, NEW hidden,
           append_xobject_watermark(doc, on, id, name, thing, tint, hidden)
    PROVE  Sound(pdf')
<1> DEFINE given == get_or_create_resources(doc, on)
           dicts == [h \in Holders |-> IF h \in Edited(given, on)
                                      THEN WithXObject([given.dicts[h] EXCEPT !.tint = tint], name, id)
                                      ELSE given.dicts[h]]
           entered == [given EXCEPT !.dicts = dicts]
<1>1. given.dicts \in [Holders -> Resources] /\ id \in Ids
    BY CreatedSound DEF Sound, Shape, Live
<1>2. /\ dicts \in [Holders -> Resources]
      /\ \A h \in Holders, n \in Names : dicts[h].x[n] \in {id, given.dicts[h].x[n]}
    <2> HIDE DEF given
    <2> SUFFICES ASSUME NEW h \in Holders
                 PROVE  dicts[h] \in Resources /\ \A n \in Names : dicts[h].x[n] \in {id, given.dicts[h].x[n]}
        OBVIOUS
    <2> DEFINE tinted == [given.dicts[h] EXCEPT !.tint = tint]
    <2>1. given.dicts[h] \in Resources /\ tinted \in Resources /\ tinted.x = given.dicts[h].x
        BY <1>1, TintedTyped
    <2> HIDE DEF tinted
    <2>2. /\ WithXObject(tinted, name, id) \in Resources
          /\ \A n \in Names : WithXObject(tinted, name, id).x[n] \in {id, given.dicts[h].x[n]}
        BY <1>1, <2>1, WithXObjectTyped
    <2>3. dicts[h] = IF h \in Edited(given, on) THEN WithXObject(tinted, name, id) ELSE given.dicts[h]
        BY DEF tinted
    <2> HIDE DEF dicts
    <2> QED  BY <2>1, <2>2, <2>3
<1> HIDE DEF dicts
<1>3. Sound(entered)
    BY <1>2, EnteredSound
<1>4. Sound(add_page_contents(entered, on, DoItem(name, TRUE)))
    BY <1>3, ItemsTyped, PaintedSound
<1>5. Edit(<<"overlay", on, DoItem(name, TRUE), thing, tint, hidden>>, add_page_contents(entered, on, DoItem(name, TRUE)))
    BY DEF append_xobject_watermark, add_resource_dict_entries, dicts
<1> QED  BY <1>4, <1>5, EditSound

LEMMA ImageTyped ==
    ASSUME NEW picture \in Pictures
    PROVE  Image(picture) \in Streams /\ Image(picture).kind = "image" /\ Image(picture).uses = None
BY DrawingAssumption DEF DrawingAssumption, Image, Streams

LEMMA FormTyped ==
    ASSUME NEW picture \in Pictures \cup {Nothing, None}, NEW id \in Ids \cup {None},
           picture # None \/ id # None
    PROVE  Form(picture, id) \in Streams /\ Form(picture, id).kind = "form" /\ Form(picture, id).uses = id
BY DEF Form, Streams

LEMMA OverlaySound ==
    ASSUME Sound(pdf), NEW on \in SUBSET Pages, NEW picture \in Pictures, NEW tint \in Tints,
           \/ append_image_watermark(on, picture, tint)
           \/ append_svg_watermark(on, picture, tint)
    PROVE  Sound(pdf')
<1>1. {"OxWmIm", "OxWmSvg", "OxPdfOverlay"} \subseteq Names
    BY DrawingAssumption DEF DrawingAssumption
<1>2. CASE append_image_watermark(on, picture, tint)
    <2>1. /\ Sound(add_object(pdf, Image(picture)))
          /\ new_object_id(pdf) \in Live(add_object(pdf, Image(picture)))
        BY <1>2, ImageTyped, StreamAdded DEF append_image_watermark
    <2> QED  BY <1>1, <1>2, <2>1, XObjectSound DEF append_image_watermark
<1>3. CASE append_svg_watermark(on, picture, tint)
    <2>1. /\ Sound(add_object(pdf, Form(picture, None)))
          /\ new_object_id(pdf) \in Live(add_object(pdf, Form(picture, None)))
        <3>1. picture # None
            BY DrawingAssumption DEF DrawingAssumption
        <3> QED  BY <1>3, <3>1, FormTyped, StreamAdded DEF append_svg_watermark
    <2> QED  BY <1>1, <1>3, <2>1, XObjectSound DEF append_svg_watermark
<1> QED  BY <1>2, <1>3

\* The form of a page comes alone or with the image it uses.
LEMMA PageOverlay ==
    ASSUME NEW on, NEW picture, NEW tint, NEW place, append_pdf_page_overlay(on, picture, tint, place)
    PROVE  LET imported == add_object(pdf, Image(picture))
               inner == new_object_id(pdf)
           IN  /\ Room(pdf)
               /\ \/ /\ place = "parent"
                     /\ append_xobject_watermark(add_object(pdf, Form(Nothing, None)), on, inner,
                                                 "OxPdfOverlay", picture, tint, TRUE)
                  \/ /\ place # "parent" /\ Room(imported)
                     /\ append_xobject_watermark(add_object(imported, Form(None, inner)), on,
                                                 new_object_id(imported), "OxPdfOverlay", picture, tint, FALSE)
<1>1. CASE place = "parent"
    <2>1. imported_page_resources(picture, place) = {} /\ (place = "parent") = TRUE
        BY <1>1 DEF imported_page_resources
    <2> QED  BY <1>1, <2>1 DEF append_pdf_page_overlay
<1>2. CASE place # "parent"
    <2>1. imported_page_resources(picture, place) = {Image(picture)} /\ (place = "parent") = FALSE
        BY <1>2 DEF imported_page_resources
    <2> QED  BY <1>2, <2>1 DEF append_pdf_page_overlay
<1> QED  BY <1>1, <1>2

LEMMA PageOverlaySound ==
    ASSUME Sound(pdf), NEW on \in SUBSET Pages, NEW picture \in Pictures, NEW tint \in Tints, NEW place,
           append_pdf_page_overlay(on, picture, tint, place)
    PROVE  Sound(pdf')
<1> DEFINE imported == add_object(pdf, Image(picture))
           inner == new_object_id(pdf)
           bare == add_object(pdf, Form(Nothing, None))
<1>1. "OxPdfOverlay" \in Names /\ Nothing # None
    BY DrawingAssumption DEF DrawingAssumption
<1>2. Room(pdf)
    BY PageOverlay
<1>3. CASE append_xobject_watermark(bare, on, inner, "OxPdfOverlay", picture, tint, TRUE)
    <2>1. /\ Form(Nothing, None) \in Streams /\ Form(Nothing, None).kind # "none"
          /\ Form(Nothing, None).uses = None
        BY <1>1, FormTyped
    <2>2. Sound(bare) /\ inner \in Live(bare)
        BY <1>2, <2>1, StreamAdded
    <2> HIDE DEF bare, inner
    <2> QED  BY <1>1, <1>3, <2>2, XObjectSound
<1>4. CASE /\ Room(imported)
           /\ append_xobject_watermark(add_object(imported, Form(None, inner)), on, new_object_id(imported),
                                       "OxPdfOverlay", picture, tint, FALSE)
    <2>1. /\ Sound(imported) /\ inner \in Live(imported) /\ inner \in Ids
          /\ imported.streams[inner].uses = None
        BY <1>2, ImageTyped, StreamAdded
    <2> HIDE DEF imported, inner
    <2>2. /\ Sound(add_object(imported, Form(None, inner)))
          /\ new_object_id(imported) \in Live(add_object(imported, Form(None, inner)))
        <3>1. /\ Form(None, inner) \in Streams /\ Form(None, inner).kind # "none"
              /\ Form(None, inner).uses = inner
            BY <2>1, FormTyped, DrawingAssumption DEF DrawingAssumption
        <3> QED  BY <1>4, <2>1, <3>1, StreamAdded
    <2> QED  BY <1>1, <1>4, <2>2, XObjectSound
<1> QED  BY <1>3, <1>4, PageOverlay

LEMMA AddImageSound ==
    ASSUME Sound(pdf), NEW p \in Pages, NEW name \in Names, NEW picture \in Pictures,
           add_image_to_page(p, name, picture)
    PROVE  Sound(pdf')
<1> DEFINE id == new_object_id(pdf)
           added == add_object(pdf, Image(picture))
           given == get_or_create_resources(added, {p})
           dicts == [h \in Holders |-> IF h \in Edited(given, {p})
                                      THEN WithXObject(given.dicts[h], name, id) ELSE given.dicts[h]]
           entered == [given EXCEPT !.dicts = dicts]
<1>1. Sound(added) /\ id \in Live(added) /\ id \in Ids
    <2>1. Room(pdf)
        BY DEF add_image_to_page
    <2>2. Image(picture) \in Streams /\ Image(picture).kind # "none" /\ Image(picture).uses = None
        BY ImageTyped
    <2> QED  BY <2>1, <2>2, StreamAdded
<1>2. Edit(<<"add image", p, DoItem(name, TRUE), picture>>, add_page_contents(entered, {p}, DoItem(name, TRUE)))
    BY DEF add_image_to_page, add_resource_dict_entries
<1> HIDE DEF id, added
<1>3. given.dicts \in [Holders -> Resources]
    BY <1>1, CreatedSound DEF Sound, Shape
<1>4. /\ dicts \in [Holders -> Resources]
      /\ \A h \in Holders, n \in Names : dicts[h].x[n] \in {id, given.dicts[h].x[n]}
    <2> HIDE DEF given
    <2> QED  BY <1>1, <1>3, WithXObjectTyped
<1> HIDE DEF dicts
<1>5. Sound(entered)
    BY <1>1, <1>4, EnteredSound
<1>6. Sound(add_page_contents(entered, {p}, DoItem(name, TRUE)))
    BY <1>5, ItemsTyped, PaintedSound
<1> QED  BY <1>2, <1>6, EditSound

\* What the program finds under a name is there.
LEMMA FoundLive ==
    ASSUME Sound(pdf), NEW p \in Pages, NEW name \in Names
    PROVE  page_xobject_reference(pdf, p, name) \in Live(pdf) \cup {None}
<1>1. OwnResources(pdf, p).x[name] \in Live(pdf) \cup {None}
    BY DEF Sound, Shape, Resolves, OwnResources, NoResources, Homes
<1>2. Inherited(pdf).x[name] \in Live(pdf) \cup {None}
    BY DEF Sound, Shape, Resolves, Inherited, NoResources, Holders
<1>3. OwnResources(pdf, p) \in Resources /\ Inherited(pdf) \in Resources
    BY NoResourcesTyped DEF Sound, Shape, OwnResources, Inherited, Holders, Homes
<1>4. MergedResources(pdf, p).x[name] \in {OwnResources(pdf, p).x[name], Inherited(pdf).x[name]}
    BY <1>3 DEF MergedResources, merge_resource_dictionary, Resources
<1> QED  BY <1>1, <1>2, <1>4 DEF page_xobject_reference

\* An image in the place of a stream is still a stream, and uses no other.
Overwritten(found, picture) ==
    [pdf EXCEPT !.streams = [id \in Ids |-> IF id \in found THEN Image(picture) ELSE pdf.streams[id]]]
LEMMA OverwrittenSound ==
    ASSUME Sound(pdf), NEW picture \in Pictures, NEW found \in SUBSET Live(pdf)
    PROVE  Sound(Overwritten(found, picture))
<1> DEFINE streams == [id \in Ids |-> IF id \in found THEN Image(picture) ELSE pdf.streams[id]]
           new == Overwritten(found, picture)
<1>1. streams \in [Ids -> Streams]
    BY ImageTyped DEF Sound, Shape
<1>2. \A id \in Ids : /\ id \in found => streams[id].kind = "image" /\ streams[id].uses = None
                      /\ id \notin found => streams[id] = pdf.streams[id]
    BY ImageTyped
<1>3. new = [pdf EXCEPT !.streams = streams]
    BY DEF Overwritten
<1> HIDE DEF streams, new
<1>4. Shape(new) /\ new.dicts = pdf.dicts /\ new.streams = streams
    BY <1>1, <1>3 DEF Sound, Shape
<1>5. Live(new) = Live(pdf)
    BY <1>2, <1>4 DEF Live
<1>6. Resolves(new)
    BY <1>2, <1>4, <1>5 DEF Sound, Resolves, Live
<1> QED  BY <1>4, <1>6 DEF Sound, new

LEMMA Replacing ==
    ASSUME Sound(pdf), NEW name \in Names, NEW picture \in Pictures, replace_image_resource(name, picture)
    PROVE  LET found == {page_xobject_reference(pdf, p, name) : p \in Pages} \ {None}
           IN  /\ Edit(<<"replace image", name, picture, {Picture(pdf, id) : id \in found}>>,
                       Overwritten(found, picture))
               /\ Sound(Overwritten(found, picture))
<1> DEFINE found == {page_xobject_reference(pdf, p, name) : p \in Pages} \ {None}
<1>1. found \subseteq Live(pdf)
    BY FoundLive
<1>2. Edit(<<"replace image", name, picture, {Picture(pdf, id) : id \in found}>>, Overwritten(found, picture))
    BY DEF replace_image_resource, Overwritten
<1> HIDE DEF found
<1>3. Sound(Overwritten(found, picture))
    BY <1>1, OverwrittenSound
<1> QED  BY <1>2, <1>3, Zenon DEF found

LEMMA ReplaceSound ==
    ASSUME Sound(pdf), NEW name \in Names, NEW picture \in Pictures, replace_image_resource(name, picture)
    PROVE  Sound(pdf')
BY Replacing, EditSound

LEMMA DeleteSound ==
    ASSUME Sound(pdf), NEW name \in Names, delete_image_resource(name)
    PROVE  Sound(pdf')
<1> DEFINE given == get_or_create_resources(pdf, Pages)
           edited == Edited(given, Pages)
           dicts == [h \in Holders |-> IF h \in edited THEN [given.dicts[h] EXCEPT !.x[name] = None]
                                      ELSE given.dicts[h]]
<1>1. Sound(given)
    BY CreatedSound
<1>2. Edit(<<"delete image", name>>, [given EXCEPT !.dicts = dicts])
    BY DEF delete_image_resource
<1> HIDE DEF given, edited
<1>3. \A res \in Resources : /\ [res EXCEPT !.x[name] = None] \in Resources
                             /\ \A n \in Names : [res EXCEPT !.x[name] = None].x[n] \in {None, res.x[n]}
    BY DEF Resources
<1>4. given.dicts \in [Holders -> Resources]
    BY <1>1 DEF Sound, Shape
<1>5. /\ dicts \in [Holders -> Resources]
      /\ \A h \in Holders, n \in Names : dicts[h].x[n] \in {None, given.dicts[h].x[n]}
    BY <1>3, <1>4
<1> HIDE DEF dicts
<1>6. \A h \in Holders, n \in Names : dicts[h].x[n] \in Live(given) \cup {None}
    BY <1>1, <1>5 DEF Sound, Resolves
<1>7. Sound([given EXCEPT !.dicts = dicts])
    BY <1>1, <1>5, <1>6, DictsSound
<1> QED  BY <1>2, <1>7, EditSound

\* A colour is replaced by one, whatever the plan.
LEMMA PlansTyped == ASSUME NEW plan \in ColorPlans PROVE plan \in [Levels -> Levels]
<1>1. \A level \in Int : Clamp(level) \in Levels
    BY DEF Clamp, Levels
<1>2. \A level \in Levels : 4 - level \in Levels
    BY DEF Levels
<1>3. 2 \in Levels /\ Levels \subseteq Int
    BY DEF Levels
<1>4. \A factor \in {1, 2}, level \in Levels : (level - 2) * factor + 2 \in Int
    BY <1>3
<1> QED  BY <1>1, <1>2, <1>3, <1>4 DEF ColorPlans

LEMMA RecoloredTyped ==
    ASSUME NEW plan \in ColorPlans, NEW item \in Items
    PROVE  /\ Recolored(item, plan) \in Items
           /\ Recolored(item, plan).kind = item.kind /\ Recolored(item, plan).of = item.of
           /\ Recolored(item, plan).tinted = item.tinted
<1>1. plan \in [Levels -> Levels]
    BY PlansTyped
<1> QED  BY <1>1 DEF Recolored, Items, Item

LEMMA ColorsSound ==
    ASSUME Sound(pdf), NEW on \in SUBSET Pages, NEW plan \in ColorPlans, rewrite_page_colors(on, plan)
    PROVE  Sound(pdf')
<1> DEFINE repainted(p) == [k \in DOMAIN pdf.contents[p] |-> Recolored(pdf.contents[p][k], plan)]
           contents == [p \in Pages |-> IF p \notin on THEN pdf.contents[p] ELSE repainted(p)]
<1>1. Edit(<<"edit colors", on, plan>>, [pdf EXCEPT !.contents = contents])
    BY DEF rewrite_page_colors, Recolored
<1>2. ASSUME NEW p \in Pages PROVE repainted(p) \in Seq(Items)
    <2>1. pdf.contents[p] \in Seq(Items)
        BY DEF Sound, Shape, Contents
    <2> QED  BY <2>1, RecoloredTyped
<1>3. contents \in Contents
    BY <1>2 DEF Sound, Shape, Contents
<1> HIDE DEF contents
<1>4. Sound([pdf EXCEPT !.contents = contents])
    BY <1>3, ContentsSound
<1> QED  BY <1>1, <1>4, EditSound

-----------------------------------------------------------------------------
\* A stream that stays stands for each that goes, and what stands for an image
\* that a form uses is such an image.
LEMMA CanonicalStays ==
    ASSUME NEW doc, NEW id \in Live(doc)
    PROVE  /\ canonical(doc)[id] \in Live(doc)
           /\ doc.streams[canonical(doc)[id]] = doc.streams[id]
           /\ canonical(doc)[canonical(doc)[id]] = canonical(doc)[id]
<1> DEFINE stays == canonical(doc)[id]
<1>1. stays = CHOOSE other \in Live(doc) : doc.streams[other] = doc.streams[id]
    BY DEF canonical, ResourceStreamKey
<1>2. stays \in Live(doc) /\ doc.streams[stays] = doc.streams[id]
    BY <1>1
<1>3. canonical(doc)[stays] = CHOOSE other \in Live(doc) : doc.streams[other] = doc.streams[stays]
    BY <1>2 DEF canonical, ResourceStreamKey
<1> QED  BY <1>1, <1>2, <1>3

\* References and streams after the renaming.
LEMMA RemappedFacts ==
    ASSUME NEW doc, Sound(doc)
    PROVE  LET to == canonical(doc)
               Stays == {id \in Live(doc) : to[id] = id}
           IN  /\ Remap(None, to) = None
               /\ \A id \in Live(doc) : Remap(id, to) \in Stays
               /\ \A id \in Live(doc) : doc.streams[Remap(id, to)] = doc.streams[id]
               /\ Stays \subseteq Live(doc)
<1> DEFINE to == canonical(doc)
<1>1. DOMAIN to = Live(doc)
    BY DEF canonical
<1>2. \A id \in Live(doc) : to[id] \in Live(doc) /\ doc.streams[to[id]] = doc.streams[id] /\ to[to[id]] = to[id]
    BY CanonicalStays
<1>3. None \notin Ids
    BY DrawingAssumption DEF DrawingAssumption
<1>4. Remap(None, to) = None
    BY <1>1, <1>3 DEF Remap, Live
<1>5. \A id \in Live(doc) : Remap(id, to) = to[id]
    BY <1>1 DEF Remap
<1> HIDE DEF to
<1> QED  BY <1>2, <1>4, <1>5 DEF to

LEMMA CanonicalInIds ==
    ASSUME NEW doc, NEW ref \in Ids \cup {None}
    PROVE  Remap(ref, canonical(doc)) \in Ids \cup {None}
<1>1. DOMAIN canonical(doc) = Live(doc) /\ Live(doc) \subseteq Ids
    BY DEF canonical, Live
<1>2. \A id \in Live(doc) : canonical(doc)[id] \in Live(doc)
    BY CanonicalStays
<1> QED  BY <1>1, <1>2 DEF Remap

LEMMA MergedFields ==
    ASSUME NEW doc, Sound(doc)
    PROVE  LET to == canonical(doc)
               dicts == RemappedDicts(doc, to)
               streams == [id \in Ids |-> IF id \in Live(doc) /\ to[id] # id THEN NoStream
                                         ELSE RemappedStreams(doc, to)[id]]
               new == merge_duplicate_resource_streams(doc)
           IN  /\ new.dicts = dicts /\ new.streams = streams /\ new.home = doc.home
               /\ new = [home |-> new.home, dicts |-> new.dicts, streams |-> new.streams,
                         contents |-> new.contents, sized |-> new.sized, odd |-> new.odd]
               /\ new.contents = doc.contents
<1> DEFINE to == canonical(doc)
           dicts == RemappedDicts(doc, to)
           streams == [id \in Ids |-> IF id \in Live(doc) /\ to[id] # id THEN NoStream
                                     ELSE RemappedStreams(doc, to)[id]]
           remapped == remap_duplicate_references(doc, to)
           new == merge_duplicate_resource_streams(doc)
<1>1. remapped = [doc EXCEPT !.dicts = dicts, !.streams = RemappedStreams(doc, to)]
    BY DEF remap_duplicate_references
<1>2. /\ remapped.dicts = dicts /\ remapped.streams = RemappedStreams(doc, to)
      /\ remapped.home = doc.home /\ remapped.contents = doc.contents
      /\ remapped = [home |-> remapped.home, dicts |-> remapped.dicts, streams |-> remapped.streams,
                     contents |-> remapped.contents, sized |-> remapped.sized, odd |-> remapped.odd]
    <2> HIDE DEF dicts, remapped
    <2> QED  BY <1>1 DEF Sound, Shape
<1>3. new = [remapped EXCEPT !.streams = streams]
    <2>1. new = [remapped EXCEPT !.streams = [id \in Ids |->
                    IF id \in Live(doc) /\ to[id] # id THEN NoStream ELSE remapped.streams[id]]]
        BY DEF merge_duplicate_resource_streams
    <2> HIDE DEF remapped, new, to
    <2> QED  BY <1>2, <2>1
<1> HIDE DEF dicts, remapped, streams, new
<1>4. /\ new.dicts = dicts /\ new.streams = streams /\ new.home = doc.home
      /\ new = [home |-> new.home, dicts |-> new.dicts, streams |-> new.streams,
                contents |-> new.contents, sized |-> new.sized, odd |-> new.odd]
      /\ new.contents = doc.contents
    BY <1>2, <1>3
<1> QED  BY <1>4, Zenon DEF to, dicts, streams, new

LEMMA MergedSound ==
    ASSUME NEW doc, Sound(doc)
    PROVE  Sound(merge_duplicate_resource_streams(doc))
<1> DEFINE to == canonical(doc)
           Stays == {id \in Live(doc) : to[id] = id}
           dicts == RemappedDicts(doc, to)
           streams == [id \in Ids |-> IF id \in Live(doc) /\ to[id] # id THEN NoStream
                                     ELSE RemappedStreams(doc, to)[id]]
           new == merge_duplicate_resource_streams(doc)
<1>1. /\ Remap(None, to) = None
      /\ \A id \in Live(doc) : Remap(id, to) \in Stays /\ doc.streams[Remap(id, to)] = doc.streams[id]
      /\ Stays \subseteq Live(doc) /\ Live(doc) \subseteq Ids
    BY RemappedFacts DEF Live
<1>2. /\ new.dicts = dicts /\ new.streams = streams /\ new.home = doc.home
      /\ new = [home |-> new.home, dicts |-> new.dicts, streams |-> new.streams,
                contents |-> new.contents, sized |-> new.sized, odd |-> new.odd]
      /\ new.contents = doc.contents
    BY MergedFields
<1> HIDE DEF to, new, Stays
<1>3. \A id \in Ids : /\ doc.streams[id].uses \in Ids \cup {None}
                      /\ Remap(doc.streams[id].uses, to) \in Ids \cup {None}
    BY <1>1, CanonicalInIds DEF Sound, Shape, Streams, to
<1>4. \A id \in Ids : RemappedStreams(doc, to)[id] =
                [kind |-> doc.streams[id].kind, shows |-> doc.streams[id].shows,
                 uses |-> Remap(doc.streams[id].uses, to),
                 plain |-> doc.streams[id].plain, coding |-> doc.streams[id].coding]
    BY DEF RemappedStreams, Sound, Shape, Streams
<1>5. /\ RemappedStreams(doc, to) \in [Ids -> Streams]
      /\ \A id \in Ids : /\ RemappedStreams(doc, to)[id].kind = doc.streams[id].kind
                         /\ RemappedStreams(doc, to)[id].uses = Remap(doc.streams[id].uses, to)
    <2>1. ASSUME NEW id \in Ids
          PROVE  /\ RemappedStreams(doc, to)[id] \in Streams
                 /\ RemappedStreams(doc, to)[id].kind = doc.streams[id].kind
                 /\ RemappedStreams(doc, to)[id].uses = Remap(doc.streams[id].uses, to)
        <3> DEFINE uses == Remap(doc.streams[id].uses, to)
                   one == RemappedStreams(doc, to)[id]
        <3>1. one = [kind |-> doc.streams[id].kind, shows |-> doc.streams[id].shows, uses |-> uses,
                     plain |-> doc.streams[id].plain, coding |-> doc.streams[id].coding]
            BY <1>4
        <3>2. uses \in Ids \cup {None} /\ doc.streams[id] \in Streams
            BY <1>3 DEF Sound, Shape
        <3>4. doc.streams[id].kind # "none" /\ doc.streams[id].uses # None => uses # None
            <4>1. CASE doc.streams[id].kind # "none" /\ doc.streams[id].uses # None
                <5>1. doc.streams[id].uses \in Live(doc)
                    BY <4>1 DEF Sound, Resolves, Live
                <5>2. uses \in Ids
                    BY <1>1, <5>1
                <5> QED  BY <5>2, DrawingAssumption DEF DrawingAssumption
            <4> QED  BY <4>1
        <3> HIDE DEF uses, one
        <3>3. one \in Streams /\ one.kind = doc.streams[id].kind /\ one.uses = uses
            BY <3>1, <3>2, <3>4 DEF Streams
        <3> QED  BY <3>3 DEF uses, one
    <2>2. RemappedStreams(doc, to) = [id \in Ids |-> RemappedStreams(doc, to)[id]]
        BY DEF RemappedStreams
    <2> QED  BY <2>1, <2>2
<1>6. streams \in [Ids -> Streams]
    BY <1>5 DEF NoStream, Streams
<1>7. /\ dicts \in [Holders -> Resources]
      /\ \A h \in Holders, n \in Names : dicts[h].x[n] \in Stays \cup {None}
    <2> SUFFICES ASSUME NEW h \in Holders
                 PROVE  dicts[h] \in Resources /\ \A n \in Names : dicts[h].x[n] \in Stays \cup {None}
        BY DEF RemappedDicts
    <2> DEFINE x == [n \in Names |-> Remap(doc.dicts[h].x[n], to)]
    <2>1. doc.dicts[h] \in Resources /\ \A n \in Names : doc.dicts[h].x[n] \in Live(doc) \cup {None}
        BY DEF Sound, Shape, Resolves
    <2>2. \A n \in Names : /\ x[n] \in Stays \cup {None}
                           /\ doc.dicts[h].x[n] = None => x[n] = None
        BY <1>1, <2>1
    <2>3. x \in [Names -> Ids \cup {None}]
        BY <1>1, <2>2
    <2>4. dicts[h] = [doc.dicts[h] EXCEPT !.x = x]
        BY DEF RemappedDicts
    <2> HIDE DEF x, dicts
    <2>5. dicts[h] \in Resources /\ dicts[h].x = x
        BY <2>1, <2>2, <2>3, <2>4 DEF Resources
    <2> QED  BY <2>2, <2>5
<1> HIDE DEF dicts, streams
<1>8. Shape(new)
    BY <1>2, <1>6, <1>7 DEF Sound, Shape
<1>9. /\ Live(new) = Stays
      /\ \A id \in Stays : streams[id].uses = Remap(doc.streams[id].uses, to)
    <2>1. \A id \in Ids : streams[id] = IF id \in Live(doc) /\ to[id] # id THEN NoStream
                                       ELSE RemappedStreams(doc, to)[id]
        BY DEF streams
    <2> QED  BY <1>1, <1>2, <1>5, <2>1 DEF Live, NoStream, Stays
<1>10. ASSUME NEW id \in Live(new)
       PROVE  \/ new.streams[id].uses = None
              \/ new.streams[id].uses \in Live(new) /\ new.streams[new.streams[id].uses].uses = None
    <2> DEFINE inner == doc.streams[id].uses
    <2>1. id \in Live(doc) /\ new.streams[id].uses = Remap(inner, to)
        BY <1>1, <1>2, <1>9
    <2>2. \/ inner = None
          \/ inner \in Live(doc) /\ doc.streams[inner].uses = None
        BY <2>1 DEF Sound, Resolves
    <2> HIDE DEF inner
    <2>3. CASE inner = None
        BY <1>1, <2>1, <2>3
    <2>4. CASE inner \in Live(doc) /\ doc.streams[inner].uses = None
        <3> DEFINE stays == Remap(inner, to)
        <3>1. stays \in Stays /\ doc.streams[stays] = doc.streams[inner]
            BY <1>1, <2>4
        <3>2. new.streams[stays].uses = Remap(doc.streams[stays].uses, to)
            BY <1>2, <1>9, <3>1
        <3> QED  BY <1>1, <1>9, <2>1, <2>4, <3>1, <3>2
    <2> QED  BY <2>2, <2>3, <2>4
<1>11. Resolves(new)
    BY <1>2, <1>7, <1>9, <1>10 DEF Resolves
<1> QED  BY <1>8, <1>11 DEF Sound, new

LEMMA LossySound ==
    ASSUME NEW doc, Sound(doc)
    PROVE  Sound(recompress_images_lossy(doc))
<1> DEFINE streams == [id \in Ids |-> IF doc.streams[id].kind = "image"
                                     THEN [doc.streams[id] EXCEPT !.coding = "jpeg"] ELSE doc.streams[id]]
           new == recompress_images_lossy(doc)
<1>1. \A stream \in Streams : LET jpeg == [stream EXCEPT !.coding = "jpeg"]
                              IN  jpeg \in Streams /\ jpeg.kind = stream.kind /\ jpeg.uses = stream.uses
    BY DEF Streams
<1>2. /\ streams \in [Ids -> Streams]
      /\ \A id \in Ids : streams[id].kind = doc.streams[id].kind /\ streams[id].uses = doc.streams[id].uses
    BY <1>1 DEF Sound, Shape
<1>3. new = [doc EXCEPT !.streams = streams]
    BY DEF recompress_images_lossy
<1> HIDE DEF streams, new
<1>4. Shape(new) /\ new.dicts = doc.dicts /\ new.streams = streams
    BY <1>2, <1>3 DEF Sound, Shape
<1>5. Live(new) = Live(doc)
    BY <1>2, <1>4 DEF Live
<1>6. Resolves(new)
    BY <1>2, <1>4, <1>5 DEF Sound, Resolves, Live
<1> QED  BY <1>4, <1>6 DEF Sound, new

LEMMA CompressSound ==
    ASSUME Sound(pdf), NEW mode, compress_on_document(mode)
    PROVE  Sound(pdf')
<1> DEFINE merged == merge_duplicate_resource_streams(pdf)
           result == IF mode = "lossy" THEN recompress_images_lossy(merged) ELSE merged
<1>1. Sound(merged)
    BY MergedSound
<1>2. Edit(<<"compress", mode>>, result)
    BY DEF compress_on_document
<1> HIDE DEF merged
<1>3. Sound(result)
    BY <1>1, LossySound
<1> QED  BY <1>2, <1>3, EditSound

-----------------------------------------------------------------------------
LEMMA StepSound == Sound(pdf) /\ [Next]_vars => Sound(pdf')
<1> SUFFICES ASSUME Sound(pdf), [Next]_vars PROVE Sound(pdf')
    OBVIOUS
<1>1. UserNames \subseteq Names
    BY DrawingAssumption DEF DrawingAssumption
<1>2. ASSUME NEW on \in SUBSET Pages, NEW tint \in Tints, NEW text \in Texts, NEW font \in Fonts,
             append_text_watermark(on, text, font, tint)
      PROVE  Sound(pdf')
    BY <1>2, TextSound
<1>3. ASSUME NEW on \in SUBSET Pages, NEW tint \in Tints, NEW picture \in Pictures,
             \/ append_image_watermark(on, picture, tint)
             \/ append_svg_watermark(on, picture, tint)
      PROVE  Sound(pdf')
    BY <1>3, OverlaySound
<1>10. ASSUME NEW on \in SUBSET Pages, NEW tint \in Tints, NEW picture \in Pictures, NEW place \in Places,
              append_pdf_page_overlay(on, picture, tint, place)
       PROVE  Sound(pdf')
    BY <1>10, PageOverlaySound
<1>4. ASSUME NEW name \in UserNames, delete_image_resource(name) PROVE Sound(pdf')
    BY <1>1, <1>4, DeleteSound
<1>5. ASSUME NEW name \in UserNames, NEW picture \in Pictures, replace_image_resource(name, picture)
      PROVE  Sound(pdf')
    BY <1>1, <1>5, ReplaceSound
<1>6. ASSUME NEW name \in UserNames, NEW picture \in Pictures, NEW p \in Pages,
             add_image_to_page(p, name, picture)
      PROVE  Sound(pdf')
    BY <1>1, <1>6, AddImageSound
<1>7. ASSUME NEW on \in SUBSET Pages, NEW plan \in ColorPlans, rewrite_page_colors(on, plan)
      PROVE  Sound(pdf')
    BY <1>7, ColorsSound
<1>8. ASSUME NEW mode \in {"lossless", "lossy"}, compress_on_document(mode) PROVE Sound(pdf')
    BY <1>8, CompressSound
<1>9. CASE UNCHANGED vars
    BY <1>9 DEF vars
<1> QED  BY <1>2, <1>3, <1>4, <1>5, <1>6, <1>7, <1>8, <1>9, <1>10 DEF Next

\* The program looks in the page's own dictionary first, as a viewer does, and
\* in the parent's only when the page has none or lacks the name.
LEMMA SoundResolves == Sound(pdf) => NamesResolve
<1> SUFFICES ASSUME Sound(pdf) PROVE NamesResolve
    OBVIOUS
<1>1. ASSUME NEW p \in Pages, NEW n \in Names,
             InForce(pdf, p).x[n] # None, page_xobject_reference(pdf, p, n) # None
      PROVE  page_xobject_reference(pdf, p, n) = InForce(pdf, p).x[n]
    <2> DEFINE own == OwnResources(pdf, p)
               inherited == Inherited(pdf)
    <2>1. own \in Resources /\ inherited \in Resources
        BY NoResourcesTyped DEF Sound, Shape, OwnResources, Inherited, Holders, Homes
    <2>2. page_xobject_reference(pdf, p, n) = MergedResources(pdf, p).x[n]
        BY <1>1 DEF page_xobject_reference
    <2>3. CASE pdf.home[p] # None
        <3>1. own = InForce(pdf, p)
            BY <2>3 DEF OwnResources, InForce
        <3>2. own.xobject # "none" /\ own.x[n] # None
            BY <1>1, <2>1, <3>1 DEF Resources
        <3> HIDE DEF own, inherited
        <3>3. merge_resource_dictionary(inherited, own).x[n] = own.x[n]
            BY <2>1, <3>2 DEF merge_resource_dictionary, Resources
        <3> QED  BY <2>2, <3>1, <3>3 DEF MergedResources, own, inherited
    <2>4. CASE pdf.home[p] = None
        <3>1. merge_resource_dictionary(inherited, own) = inherited
            BY <2>4 DEF OwnResources, NoResources, merge_resource_dictionary
        <3>2. pdf.home[Root] \in Dicts
            BY <1>1, <2>2, <3>1 DEF Inherited, NoResources, MergedResources
        <3>3. pdf.home[Root] # None
            BY <3>2, DrawingAssumption DEF DrawingAssumption, Holders
        <3>4. inherited = InForce(pdf, p)
            BY <2>4, <3>2, <3>3 DEF Inherited, InForce
        <3> QED  BY <2>2, <3>1, <3>4 DEF MergedResources
    <2> QED  BY <2>3, <2>4
<1> QED  BY <1>1 DEF NamesResolve, Sound

\* Whatever operators run in whatever order on the original documents, every
\* name and every form leads to a stream that is there, and the image the
\* program finds under a name is the one the page shows under it.
THEOREM NamesAlwaysResolve == Spec => []NamesResolve
<1>1. Init => Sound(pdf)
    BY OriginalsSound DEF Init
<1>2. Sound(pdf) /\ [Next]_vars => Sound(pdf)'
    BY StepSound
<1> QED  BY <1>1, <1>2, SoundResolves, PTL DEF Spec

-----------------------------------------------------------------------------
(* The operators as PageLooks sees them.                                     *)

Inherits(doc) == {p \in Pages : doc.home[p] = None}

\* What a mark says of its page, field by field.
Shown(doc, p, name) == Picture(doc, InForce(doc, p).x[name])
LEMMA MarkFields ==
    ASSUME NEW doc, NEW p, NEW item \in Items
    PROVE  LET mark == Mark(doc, p, item) IN
           /\ mark = [item |-> item, shows |-> mark.shows, tint |-> mark.tint]
           /\ item.kind = "do" => item.of \in Names /\ mark.shows = Shown(doc, p, item.of)
           /\ item.kind = "text" => item.of = WatermarkFont /\ mark.shows = InForce(doc, p).font
           /\ item.kind \notin {"do", "text"} => mark.shows = None
           /\ mark.tint = IF item.tinted THEN InForce(doc, p).tint ELSE None
BY DEF Mark, Items, Item, Shown

LEMMA LooksFields ==
    ASSUME NEW doc, Shape(doc), NEW p \in Pages
    PROVE  /\ doc.contents[p] \in Seq(Items)
           /\ DOMAIN LooksOf(doc)[p] = 1..Len(doc.contents[p])
           /\ Len(LooksOf(doc)[p]) = Len(doc.contents[p])
           /\ \A k \in 1..Len(doc.contents[p]) :
                /\ doc.contents[p][k] \in Items
                /\ LooksOf(doc)[p][k] = Mark(doc, p, doc.contents[p][k])
<1>1. doc.contents[p] \in Seq(Items)
    BY DEF Shape, Contents
<1>2. LooksOf(doc)[p] = [k \in 1..Len(doc.contents[p]) |-> Mark(doc, p, doc.contents[p][k])]
    BY <1>1 DEF LooksOf
<1>3. Len(doc.contents[p]) \in Nat
    BY <1>1
<1>4. Len(LooksOf(doc)[p]) = Len(doc.contents[p])
    BY <1>2, <1>3
<1> QED  BY <1>1, <1>2, <1>4

\* The dictionary in force is one of the document's, or there is none.
LEMMA InForceTyped ==
    ASSUME NEW doc, Sound(doc), NEW p \in Pages
    PROVE  /\ InForce(doc, p) \in Resources
           /\ InForce(doc, p) = NoResources \/ \E h \in Holders : InForce(doc, p) = doc.dicts[h]
           /\ \A n \in Names : InForce(doc, p).x[n] \in Live(doc) \cup {None}
<1>1. /\ doc.home[p] \in Holders \cup {None} /\ doc.home[Root] \in Holders \cup {None}
      /\ doc.dicts \in [Holders -> Resources]
    BY DEF Sound, Shape, Homes
<1>2. InForce(doc, p) = NoResources \/ \E h \in Holders : InForce(doc, p) = doc.dicts[h]
    BY <1>1 DEF InForce
<1>3. \A n \in Names : NoResources.x[n] = None
    BY DEF NoResources
<1>4. \A h \in Holders, n \in Names : doc.dicts[h].x[n] \in Live(doc) \cup {None}
    BY DEF Sound, Resolves
<1>5. InForce(doc, p) \in Resources
    BY <1>1, <1>2, NoResourcesTyped
<1> QED  BY <1>2, <1>3, <1>4, <1>5

\* Pages look the same if their contents, their dictionaries and the pictures
\* that these refer to are.
LEMMA SameLooks ==
    ASSUME NEW doc, Sound(doc), NEW other,
           other.home = doc.home, other.contents = doc.contents,
           \A p \in Pages : /\ InForce(other, p).font = InForce(doc, p).font
                            /\ InForce(other, p).tint = InForce(doc, p).tint
                            /\ \A n \in Names : Shown(other, p, n) = Shown(doc, p, n)
    PROVE  LooksOf(other) = LooksOf(doc) /\ other.home = doc.home
<1>2. ASSUME NEW p \in Pages, NEW k \in DOMAIN doc.contents[p]
      PROVE  Mark(other, p, doc.contents[p][k]) = Mark(doc, p, doc.contents[p][k])
    <2>1. doc.contents[p][k] \in Items
        BY LooksFields, <1>2 DEF Sound
    <2> QED  BY <2>1, MarkFields
<1>3. LooksOf(other) = LooksOf(doc)
    BY <1>2 DEF LooksOf
<1> QED  BY <1>3

\* Streams that go or come without being named leave the looks alone.
LEMMA StreamsUnseen ==
    ASSUME NEW doc, Sound(doc), NEW other,
           other.home = doc.home, other.contents = doc.contents, other.dicts = doc.dicts,
           \A h \in Holders, n \in Names : Picture(other, doc.dicts[h].x[n]) = Picture(doc, doc.dicts[h].x[n])
    PROVE  LooksOf(other) = LooksOf(doc) /\ other.home = doc.home
<1>1. \A p \in Pages : InForce(other, p) = InForce(doc, p)
    BY DEF InForce
<1>2. \A n \in Names : Picture(other, NoResources.x[n]) = Picture(doc, NoResources.x[n])
    BY DEF Picture, NoResources
<1>3. ASSUME NEW p \in Pages, NEW n \in Names PROVE Shown(other, p, n) = Shown(doc, p, n)
    BY <1>1, <1>2, InForceTyped DEF Shown
<1> QED  BY <1>1, <1>3, SameLooks

LEMMA PrunedLooks ==
    ASSUME NEW doc, Sound(doc)
    PROVE  LooksOf(Pruned(doc)) = LooksOf(doc) /\ Pruned(doc).home = doc.home
<1> DEFINE other == Pruned(doc)
           named == {doc.dicts[h].x[n] : h \in Holders, n \in Names}
           kept == [id \in Ids |-> IF id \in Referenced(doc) THEN doc.streams[id] ELSE NoStream]
<1>1. /\ other.home = doc.home /\ other.contents = doc.contents /\ other.dicts = doc.dicts
      /\ other.streams = kept
    <2> HIDE DEF kept
    <2>1. other = [doc EXCEPT !.streams = kept]
        BY DEF Pruned, kept
    <2> QED  BY <2>1 DEF Sound, Shape
<1>2. ASSUME NEW h \in Holders, NEW n \in Names
      PROVE  Picture(other, doc.dicts[h].x[n]) = Picture(doc, doc.dicts[h].x[n])
    <2> DEFINE id == doc.dicts[h].x[n]
    <2>1. CASE id = None
        BY <2>1 DEF Picture
    <2>2. CASE id # None
        <3>1. id \in Live(doc) /\ id \in Ids /\ id \in named
            BY <2>2 DEF Sound, Resolves, Live
        <3>2. \/ doc.streams[id].uses = None
              \/ doc.streams[id].uses \in Ids
            BY <3>1 DEF Sound, Resolves, Live
        <3>3. Referenced(doc) = Ids \cap (named \cup {doc.streams[i].uses : i \in Ids \cap named})
            BY DEF Referenced
        <3> HIDE DEF named, id, other
        <3>4. id \in Referenced(doc) /\ (doc.streams[id].uses = None \/ doc.streams[id].uses \in Referenced(doc))
            BY <3>1, <3>2, <3>3
        <3>5. /\ kept[id] = doc.streams[id]
              /\ doc.streams[id].uses # None => kept[doc.streams[id].uses] = doc.streams[doc.streams[id].uses]
            BY <3>1, <3>2, <3>4
        <3>6. Picture(other, id) = Picture(doc, id)
            BY <2>2, <1>1, <3>5 DEF Picture
        <3> QED  BY <3>6 DEF id
    <2> QED  BY <2>1, <2>2
<1> QED  BY <1>1, <1>2, StreamsUnseen

LEMMA AddedLooks ==
    ASSUME NEW doc, Sound(doc), Room(doc), NEW stream
    PROVE  /\ LooksOf(add_object(doc, stream)) = LooksOf(doc)
           /\ add_object(doc, stream).home = doc.home
<1> DEFINE id == new_object_id(doc)
           other == add_object(doc, stream)
<1>1. id \in Ids \ Live(doc)
    BY DEF Room, new_object_id, Live
<1> HIDE DEF id
<1>2. other = [doc EXCEPT !.streams[id] = stream]
    BY DEF add_object, id
<1>3. /\ other.home = doc.home /\ other.contents = doc.contents /\ other.dicts = doc.dicts
      /\ other.streams = [doc.streams EXCEPT ![id] = stream]
    BY <1>2 DEF Sound, Shape
<1> HIDE DEF other
<1>4. \A i \in Live(doc) : other.streams[i] = doc.streams[i]
    BY <1>1, <1>3 DEF Sound, Shape, Live
<1>5. ASSUME NEW h \in Holders, NEW n \in Names
      PROVE  Picture(other, doc.dicts[h].x[n]) = Picture(doc, doc.dicts[h].x[n])
    BY <1>4 DEF Sound, Resolves, Picture
<1> QED  BY <1>3, <1>5, StreamsUnseen DEF other

\* What an operator saves looks as it edited it.
LEMMA EditLooks ==
    ASSUME NEW op, NEW doc, Sound(doc), Edit(op, doc)
    PROVE  LooksOf(pdf') = LooksOf(doc) /\ pdf'.home = doc.home /\ last' = op
BY PrunedLooks DEF Edit

-----------------------------------------------------------------------------
(* Painting: names entered in dictionaries, and a mark on top.               *)

\* A dictionary with the name that a mark is painted with, and with tinting the
\* opacity, defined anew.
Redefined(doc, old, new, item, thing, tinting, tint) ==
    /\ \A n \in Names : Picture(doc, new.x[n]) = IF item.kind = "do" /\ n = item.of THEN thing
                                                 ELSE Picture(doc, old.x[n])
    /\ new.font = IF item.kind = "text" THEN thing ELSE old.font
    /\ new.tint = IF tinting THEN tint ELSE old.tint

\* What Contract!Painted says of an earlier mark and of the new one.
MarkRepainted(new, p, k, on, item, thing, tinting, tint) ==
    LET anew == p \in Contract!Reached(on)
        old == Contract!Left(p, on, LooksOf(pdf)[p][k])
        mark == LooksOf(new)[p][k]
    IN  /\ mark.item = old.item
        /\ mark.shows = IF anew /\ Contract!Alike(old.item, item) THEN thing ELSE old.shows
        /\ mark.tint = IF anew /\ old.item.tinted /\ tinting THEN tint ELSE old.tint
TopPainted(new, p, item, thing, tinting, tint) ==
    LET top == LooksOf(new)[p][Len(LooksOf(new)[p])]
    IN  top.item = item /\ top.shows = thing /\ (tinting /\ item.tinted => top.tint = tint)

\* Contract!Painted, with another document for the one that is saved.
Repainted(new, on, item, thing, tinting, tint) ==
    /\ new.home = [n \in DOMAIN pdf.home |-> IF n \in Contract!Given(on) THEN n ELSE pdf.home[n]]
    /\ \A p \in Pages :
         /\ Len(LooksOf(new)[p]) = Len(LooksOf(pdf)[p]) + (IF p \in on THEN 1 ELSE 0)
         /\ \A k \in 1..Len(LooksOf(pdf)[p]) : MarkRepainted(new, p, k, on, item, thing, tinting, tint)
    /\ \A p \in on : TopPainted(new, p, item, thing, tinting, tint)

LEMMA CreatedFields ==
    ASSUME NEW doc, Sound(doc), NEW on \in SUBSET Pages
    PROVE  LET bare == {p \in on : doc.home[p] = None}
               given == get_or_create_resources(doc, on)
           IN  /\ \A n \in Pages \cup {Root} : given.home[n] = IF n \in bare THEN n ELSE doc.home[n]
               /\ \A h \in Holders : given.dicts[h] = IF h \in bare THEN NoResources ELSE doc.dicts[h]
               /\ given.streams = doc.streams /\ given.contents = doc.contents
<1> DEFINE bare == {p \in on : doc.home[p] = None}
           home == [n \in DOMAIN doc.home |-> IF n \in bare THEN n ELSE doc.home[n]]
           dicts == [h \in Holders |-> IF h \in bare THEN NoResources ELSE doc.dicts[h]]
           given == get_or_create_resources(doc, on)
<1>1. given = [doc EXCEPT !.home = home, !.dicts = dicts]
    BY DEF get_or_create_resources
<1>2. DOMAIN doc.home = Pages \cup {Root}
    BY DEF Sound, Shape, Homes
<1>3. /\ \A n \in Pages \cup {Root} : home[n] = IF n \in bare THEN n ELSE doc.home[n]
      /\ \A h \in Holders : dicts[h] = IF h \in bare THEN NoResources ELSE doc.dicts[h]
    BY <1>2
<1> HIDE DEF home, dicts, given
<1>4. given.home = home /\ given.dicts = dicts /\ given.streams = doc.streams /\ given.contents = doc.contents
    BY <1>1 DEF Sound, Shape
<1> QED  BY <1>3, <1>4 DEF given

LEMMA CreatedHome ==
    ASSUME NEW doc, Sound(doc), doc.home = pdf.home, NEW on \in SUBSET Pages
    PROVE  get_or_create_resources(doc, on).home =
               [n \in DOMAIN pdf.home |-> IF n \in Contract!Given(on) THEN n ELSE pdf.home[n]]
<1> DEFINE given == get_or_create_resources(doc, on)
           bare == {p \in on : doc.home[p] = None}
<1>1. Contract!Given(on) = bare
    BY DEF Contract!Given, Contract!Inherits
<1>2. \A n \in Pages \cup {Root} : given.home[n] = IF n \in bare THEN n ELSE doc.home[n]
    BY CreatedFields
<1>3. DOMAIN doc.home = Pages \cup {Root} /\ given.home \in [Pages \cup {Root} -> Holders \cup {None}]
    BY CreatedSound DEF Sound, Shape, Homes
<1> HIDE DEF given, bare
<1>4. given.home = [n \in Pages \cup {Root} |-> IF n \in bare THEN n ELSE doc.home[n]]
    BY <1>2, <1>3
<1> QED  BY <1>1, <1>3, <1>4 DEF given

\* A page that is given a dictionary has an empty one; the others keep theirs,
\* for nobody else refers to the dictionary inside a page.
LEMMA CreatedInForce ==
    ASSUME NEW doc, Sound(doc), NEW on \in SUBSET Pages, NEW p \in Pages
    PROVE  InForce(get_or_create_resources(doc, on), p) =
               IF p \in on \cap Inherits(doc) THEN NoResources ELSE InForce(doc, p)
<1> DEFINE given == get_or_create_resources(doc, on)
           bare == {q \in on : doc.home[q] = None}
<1>1. /\ \A n \in Pages \cup {Root} : given.home[n] = IF n \in bare THEN n ELSE doc.home[n]
      /\ \A h \in Holders : given.dicts[h] = IF h \in bare THEN NoResources ELSE doc.dicts[h]
    BY CreatedFields
<1>2. /\ \A n \in Pages \cup {Root} : doc.home[n] \in {n, None} \cup Dicts
      /\ bare \subseteq Pages /\ Pages \subseteq Holders /\ Dicts \subseteq Holders /\ Root \in Holders
    BY DEF Sound, Shape, Homes, Holders
<1>3. Root \notin Pages /\ Dicts \cap (Pages \cup {Root}) = {} /\ None \notin Holders
    BY DrawingAssumption DEF DrawingAssumption
<1> HIDE DEF given
<1>4. CASE p \in bare
    <2>1. given.home[p] = p /\ given.dicts[p] = NoResources /\ p # None
        BY <1>1, <1>2, <1>3, <1>4
    <2> QED  BY <1>4, <2>1 DEF InForce, Inherits, given
<1>5. CASE p \notin bare /\ doc.home[p] # None
    <2>1. given.home[p] = doc.home[p] /\ doc.home[p] \in Holders \ bare
        BY <1>1, <1>2, <1>3, <1>5
    <2>2. given.dicts[doc.home[p]] = doc.dicts[doc.home[p]]
        BY <1>1, <2>1
    <2> QED  BY <1>5, <2>1, <2>2 DEF InForce, Inherits, given
<1>6. CASE p \notin bare /\ doc.home[p] = None
    <2>1. given.home[p] = None /\ given.home[Root] = doc.home[Root] /\ p \notin on
        BY <1>1, <1>2, <1>3, <1>6
    <2>2. doc.home[Root] # None => given.dicts[doc.home[Root]] = doc.dicts[doc.home[Root]]
        BY <1>1, <1>2, <1>3
    <2> QED  BY <1>6, <2>1, <2>2 DEF InForce, Inherits, given
<1> QED  BY <1>4, <1>5, <1>6

\* The document with new entries for the dictionaries of some pages, and with
\* a mark on top of these.
Entered(doc, on, entries) ==
    LET given == get_or_create_resources(doc, on)
    IN  [h \in Holders |-> IF h \in Edited(given, on) THEN entries[h] ELSE given.dicts[h]]
Painting(doc, on, entries, item) ==
    add_page_contents([get_or_create_resources(doc, on) EXCEPT !.dicts = Entered(doc, on, entries)], on, item)

\* What the entries are for: a name, the font or the opacity.
Redefining(doc, on, entries, item, thing, tinting, tint) ==
    \A h \in Holders :
        Redefined(doc, get_or_create_resources(doc, on).dicts[h], entries[h], item, thing, tinting, tint)

\* The pages that an edit for some of them reaches are those that draw with a
\* dictionary that is edited.
LEMMA ReachedEdited ==
    ASSUME NEW doc, Sound(doc), doc.home = pdf.home, NEW on \in SUBSET Pages, NEW p \in Pages,
           NEW home, home = get_or_create_resources(doc, on).home
    PROVE  /\ p \in Contract!Reached(on) <=>
                  (IF home[p] = None THEN home[Root] ELSE home[p]) \in {home[q] : q \in on}
           /\ \A q \in on : home[q] \in Holders /\ home[q] # None
<1> DEFINE bare == {q \in on : doc.home[q] = None}
           From(q) == IF doc.home[q] = None THEN doc.home[Root] ELSE doc.home[q]
<1>1. \A n \in Pages \cup {Root} : home[n] = IF n \in bare THEN n ELSE doc.home[n]
    BY CreatedFields
<1>2. /\ \A n \in Pages \cup {Root} : doc.home[n] \in {n, None} \cup Dicts
      /\ bare \subseteq Pages /\ Pages \subseteq Holders /\ Dicts \subseteq Holders /\ Root \in Holders
    BY DEF Sound, Shape, Homes, Holders
<1>3. Root \notin Pages /\ Dicts \cap (Pages \cup {Root}) = {} /\ None \notin Holders
    BY DrawingAssumption DEF DrawingAssumption
<1>4. p \in Contract!Reached(on) <=> p \in on \/ From(p) \in {From(q) : q \in on \ bare}
    BY DEF Contract!Reached, Contract!From, Contract!Inherits
<1>5. \A q \in on : /\ q \in bare => home[q] = q
                    /\ q \notin bare => home[q] = From(q) /\ home[q] = doc.home[q] /\ doc.home[q] # None
                    /\ home[q] \in Holders /\ home[q] # None
    BY <1>1, <1>2, <1>3
<1>6. CASE p \in on
    BY <1>4, <1>5, <1>6
<1>7. CASE p \notin on
    <2> DEFINE from == IF home[p] = None THEN home[Root] ELSE home[p]
    <2>1. from = From(p)
        BY <1>1, <1>2, <1>3, <1>7
    <2>2. From(p) \notin bare
        <3>1. From(p) \in {p, Root, None} \cup Dicts
            BY <1>2
        <3> QED  BY <1>2, <1>3, <1>7, <3>1
    <2> HIDE DEF From, bare, from
    <2>3. from \in {home[q] : q \in on} <=> From(p) \in {From(q) : q \in on \ bare}
        BY <1>5, <2>1, <2>2
    <2>4. p \in Contract!Reached(on) <=> From(p) \in {From(q) : q \in on \ bare}
        BY <1>4, <1>7
    <2>5. p \in Contract!Reached(on) <=> from \in {home[q] : q \in on}
        BY <2>3, <2>4
    <2> QED  BY <1>5, <2>5 DEF from
<1> QED  BY <1>6, <1>7

LEMMA PaintLooks ==
    ASSUME NEW doc, Sound(doc), LooksOf(doc) = LooksOf(pdf), doc.home = pdf.home,
           NEW on \in SUBSET Pages, NEW item \in Items, item.kind \in {"do", "text"},
           NEW thing, NEW tinting \in BOOLEAN, NEW tint, NEW entries,
           Redefining(doc, on, entries, item, thing, tinting, tint),
           Sound(Painting(doc, on, entries, item))
    PROVE  Repainted(Painting(doc, on, entries, item), on, item, thing, tinting, tint)
<1> SUFFICES ASSUME NEW new, new = Painting(doc, on, entries, item), Sound(new)
             PROVE  Repainted(new, on, item, thing, tinting, tint)
    OBVIOUS
<1> DEFINE given == get_or_create_resources(doc, on)
           bare == {q \in on : doc.home[q] = None}
           dicts == Entered(doc, on, entries)
           entered == [given EXCEPT !.dicts = dicts]
           contents == [p \in Pages |-> IF p \in on THEN Append(doc.contents[p], item) ELSE doc.contents[p]]
<1>1. /\ Sound(given) /\ given.streams = doc.streams /\ given.contents = doc.contents
      /\ \A n \in Pages \cup {Root} : given.home[n] = IF n \in bare THEN n ELSE doc.home[n]
    BY CreatedSound, CreatedFields
<1>2. /\ new.home = given.home /\ new.dicts = dicts /\ new.streams = doc.streams
      /\ new.contents = contents
    <2> HIDE DEF given, dicts
    <2>1. /\ entered.home = given.home /\ entered.dicts = dicts /\ entered.streams = doc.streams
          /\ entered.contents = doc.contents
          /\ entered = [home |-> entered.home, dicts |-> entered.dicts, streams |-> entered.streams,
                        contents |-> entered.contents, sized |-> entered.sized, odd |-> entered.odd]
        BY <1>1 DEF Sound, Shape
    <2>2. new = [entered EXCEPT !.contents = [p \in Pages |-> IF p \in on THEN Append(entered.contents[p], item)
                                                             ELSE entered.contents[p]]]
        BY DEF Painting, add_page_contents, given, dicts
    <2> HIDE DEF entered
    <2>3. new = [entered EXCEPT !.contents = contents]
        BY <2>1, <2>2
    <2> HIDE DEF contents
    <2> QED  BY <2>1, <2>3
<1>3. ASSUME NEW p \in on
      PROVE  /\ given.home[p] \in Holders /\ given.home[p] # None
             /\ InForce(given, p) = given.dicts[given.home[p]]
             /\ InForce(new, p) = entries[given.home[p]]
    <2>1. given.home[p] \in Holders \cup {None} /\ given.home[p] # None
        BY <1>1, DrawingAssumption DEF Sound, Shape, Homes, Holders, DrawingAssumption
    <2>2. given.home[p] \in Edited(given, on)
        BY DEF Edited
    <2>3. dicts[given.home[p]] = entries[given.home[p]]
        BY <2>1, <2>2 DEF Entered
    <2> QED  BY <1>2, <2>1, <2>3 DEF InForce
<1>4. ASSUME NEW p \in Pages
      PROVE  IF p \in Contract!Reached(on)
             THEN Redefined(doc, InForce(given, p), InForce(new, p), item, thing, tinting, tint)
             ELSE InForce(new, p) = InForce(given, p)
    <2> DEFINE home == given.home
               from == IF home[p] = None THEN home[Root] ELSE home[p]
    <2>1. /\ p \in Contract!Reached(on) <=> from \in Edited(given, on)
          /\ from \in Edited(given, on) => from \in Holders /\ from # None
        BY ReachedEdited DEF Edited
    <2>2. from \in Holders \cup {None}
        BY <1>1 DEF Sound, Shape, Homes
    <2>3. /\ InForce(given, p) = IF from = None THEN NoResources ELSE given.dicts[from]
          /\ InForce(new, p) = IF from = None THEN NoResources ELSE dicts[from]
        BY <1>2 DEF InForce
    <2>4. \A h \in Holders : dicts[h] = IF h \in Edited(given, on) THEN entries[h] ELSE given.dicts[h]
        BY DEF Entered
    <2>5. \A h \in Holders : Redefined(doc, given.dicts[h], entries[h], item, thing, tinting, tint)
        BY DEF Redefining
    <2> HIDE DEF from, given, dicts
    <2> QED  BY <2>1, <2>2, <2>3, <2>4, <2>5
<1>9. ASSUME NEW p \in on
      PROVE  Redefined(doc, given.dicts[given.home[p]], InForce(new, p), item, thing, tinting, tint)
    BY <1>3 DEF Redefining
<1>10. new.home = [n \in DOMAIN pdf.home |-> IF n \in Contract!Given(on) THEN n ELSE pdf.home[n]]
    BY <1>2, CreatedHome
<1> HIDE DEF given, dicts
<1>6. ASSUME NEW p \in Pages
      PROVE  /\ Len(LooksOf(new)[p]) = Len(LooksOf(doc)[p]) + (IF p \in on THEN 1 ELSE 0)
             /\ \A k \in 1..Len(LooksOf(doc)[p]) : /\ doc.contents[p][k] \in Items
                                                   /\ LooksOf(doc)[p][k] = Mark(doc, p, doc.contents[p][k])
                                                   /\ LooksOf(new)[p][k] = Mark(new, p, doc.contents[p][k])
             /\ p \in on => LooksOf(new)[p][Len(LooksOf(new)[p])] = Mark(new, p, item)
    <2>1. /\ doc.contents[p] \in Seq(Items) /\ Len(LooksOf(doc)[p]) = Len(doc.contents[p])
          /\ \A k \in 1..Len(doc.contents[p]) : /\ doc.contents[p][k] \in Items
                                                /\ LooksOf(doc)[p][k] = Mark(doc, p, doc.contents[p][k])
        BY LooksFields DEF Sound
    <2>2. /\ Len(LooksOf(new)[p]) = Len(new.contents[p])
          /\ \A k \in 1..Len(new.contents[p]) : LooksOf(new)[p][k] = Mark(new, p, new.contents[p][k])
        BY LooksFields DEF Sound
    <2>3. new.contents[p] = IF p \in on THEN Append(doc.contents[p], item) ELSE doc.contents[p]
        BY <1>2
    <2> DEFINE old == doc.contents[p]
               longer == new.contents[p]
    <2>4. CASE p \in on
        <3>1. longer = Append(old, item)
            BY <2>3, <2>4
        <3>2. /\ Len(longer) = Len(old) + 1 /\ longer[Len(old) + 1] = item
              /\ \A k \in 1..Len(old) : longer[k] = old[k]
            BY <2>1, <3>1
        <3>3. Len(old) \in Nat
            BY <2>1
        <3>4. /\ Len(LooksOf(doc)[p]) = Len(old) /\ Len(LooksOf(new)[p]) = Len(longer)
              /\ \A k \in 1..Len(old) : old[k] \in Items /\ LooksOf(doc)[p][k] = Mark(doc, p, old[k])
              /\ \A k \in 1..Len(longer) : LooksOf(new)[p][k] = Mark(new, p, longer[k])
            BY <2>1, <2>2
        <3> HIDE DEF old, longer
        <3>5. /\ Len(old) \in 0..Len(longer) /\ Len(longer) \in 1..Len(longer)
              /\ 1..Len(old) \subseteq 1..Len(longer)
            BY <3>2, <3>3
        <3>6. \A k \in 1..Len(old) : LooksOf(new)[p][k] = Mark(new, p, old[k])
            BY <3>2, <3>4, <3>5
        <3>7. LooksOf(new)[p][Len(longer)] = Mark(new, p, item)
            BY <3>2, <3>4, <3>5
        <3> QED  BY <2>4, <3>2, <3>4, <3>6, <3>7 DEF old
    <2>5. CASE p \notin on
        <3>1. longer = old /\ Len(old) \in Nat
            BY <2>1, <2>3, <2>5
        <3> QED  BY <2>1, <2>2, <2>5, <3>1
    <2> QED  BY <2>4, <2>5
<1>7. ASSUME NEW p \in Pages, NEW k \in 1..Len(LooksOf(pdf)[p])
      PROVE  MarkRepainted(new, p, k, on, item, thing, tinting, tint)
    <2> DEFINE it == doc.contents[p][k]
               old == Contract!Left(p, on, LooksOf(pdf)[p][k])
               other == LooksOf(new)[p][k]
    <2>1. it \in Items /\ LooksOf(pdf)[p][k] = Mark(doc, p, it) /\ other = Mark(new, p, it)
        BY <1>6
    <2>2. InForce(given, p) = IF p \in on \cap Inherits(doc) THEN NoResources ELSE InForce(doc, p)
        BY CreatedInForce DEF given
    <2>3. /\ \A n \in Names : NoResources.x[n] = None
          /\ NoResources.font = None /\ NoResources.tint = None
        BY DEF NoResources
    <2>4. \A id : Picture(new, id) = Picture(doc, id)
        BY <1>2 DEF Picture
    <2>5. Picture(doc, None) = None
        BY DEF Picture
    <2>6. p \in Contract!Given(on) <=> p \in on \cap Inherits(doc)
        BY DEF Contract!Given, Contract!Inherits, Inherits
    <2>7. /\ old.item = it
          /\ it.kind = "do" => it.of \in Names /\ old.shows = Picture(doc, InForce(given, p).x[it.of])
          /\ it.kind = "text" => old.shows = InForce(given, p).font
          /\ it.kind \notin {"do", "text"} => old.shows = None
          /\ old.tint = IF it.tinted THEN InForce(given, p).tint ELSE None
        <3> HIDE DEF it
        <3>1. CASE p \in on \cap Inherits(doc)
            <4>1. old = [item |-> Mark(doc, p, it).item, shows |-> None, tint |-> None]
                BY <2>1, <2>6, <3>1 DEF Contract!Left, Contract!Blank
            <4>2. Mark(doc, p, it).item = it /\ (it.kind = "do" => it.of \in Names)
                BY <2>1, MarkFields
            <4> HIDE DEF old
            <4>3. old.item = it /\ old.shows = None /\ old.tint = None
                BY <4>1, <4>2
            <4> QED  BY <2>2, <2>3, <2>5, <3>1, <4>2, <4>3
        <3>2. CASE p \notin on \cap Inherits(doc)
            <4>1. old = Mark(doc, p, it) /\ InForce(given, p) = InForce(doc, p)
                BY <2>1, <2>2, <2>6, <3>2 DEF Contract!Left
            <4> HIDE DEF old
            <4> QED  BY <2>1, <4>1, MarkFields DEF Shown
        <3> QED  BY <3>1, <3>2
    <2>8. /\ other.item = it
          /\ it.kind = "do" => other.shows = Picture(doc, InForce(new, p).x[it.of])
          /\ it.kind = "text" => it.of = WatermarkFont /\ other.shows = InForce(new, p).font
          /\ it.kind \notin {"do", "text"} => other.shows = None
          /\ other.tint = IF it.tinted THEN InForce(new, p).tint ELSE None
        <3> HIDE DEF it, other
        <3> QED  BY <2>1, <2>4, MarkFields DEF Shown
    <2>9. item.kind = "text" => item.of = WatermarkFont
        BY MarkFields
    <2> HIDE DEF it, old, other
    <2>10. CASE p \notin Contract!Reached(on)
        <3>1. InForce(new, p) = InForce(given, p)
            BY <1>4, <2>10
        <3>2. other.item = old.item /\ other.shows = old.shows /\ other.tint = old.tint
            BY <2>7, <2>8, <3>1
        <3> QED  BY <2>10, <3>2 DEF MarkRepainted, old, other
    <2>11. CASE p \in Contract!Reached(on)
        <3>1. Redefined(doc, InForce(given, p), InForce(new, p), item, thing, tinting, tint)
            BY <1>4, <2>11
        <3>2. other.tint = IF old.item.tinted /\ tinting THEN tint ELSE old.tint
            BY <2>7, <2>8, <3>1 DEF Redefined
        <3>3. other.shows = IF it.kind = item.kind /\ it.of = item.of THEN thing ELSE old.shows
            <4>1. CASE it.kind = "do"
                BY <2>7, <2>8, <3>1, <4>1 DEF Redefined
            <4>2. CASE it.kind = "text"
                BY <2>7, <2>8, <2>9, <3>1, <4>2 DEF Redefined
            <4>3. CASE it.kind \notin {"do", "text"}
                BY <2>7, <2>8, <4>3
            <4> QED  BY <4>1, <4>2, <4>3
        <3> QED  BY <2>7, <2>8, <2>11, <3>2, <3>3 DEF MarkRepainted, Contract!Alike, old, other
    <2> QED  BY <2>10, <2>11
<1>8. ASSUME NEW p \in on PROVE TopPainted(new, p, item, thing, tinting, tint)
    <2> DEFINE top == Mark(new, p, item)
    <2>1. LooksOf(new)[p][Len(LooksOf(new)[p])] = top
        BY <1>6
    <2>2. Redefined(doc, given.dicts[given.home[p]], InForce(new, p), item, thing, tinting, tint)
        BY <1>9
    <2>3. /\ top.item = item
          /\ item.kind = "do" => item.of \in Names /\ top.shows = Picture(new, InForce(new, p).x[item.of])
          /\ item.kind = "text" => top.shows = InForce(new, p).font
          /\ top.tint = IF item.tinted THEN InForce(new, p).tint ELSE None
        BY MarkFields DEF Shown
    <2>4. \A id : Picture(new, id) = Picture(doc, id)
        BY <1>2 DEF Picture
    <2> HIDE DEF top
    <2>5. top.item = item /\ top.shows = thing /\ (tinting /\ item.tinted => top.tint = tint)
        BY <2>2, <2>3, <2>4 DEF Redefined
    <2> QED  BY <2>1, <2>5 DEF TopPainted
<1> QED  BY <1>6, <1>7, <1>8, <1>10 DEF Repainted

LEMMA EntriesSound ==
    ASSUME NEW doc, Sound(doc), NEW on \in SUBSET Pages, NEW item \in Items,
           NEW entries \in [Holders -> Resources],
           \A h \in Holders, n \in Names : entries[h].x[n] \in Live(doc) \cup {None}
    PROVE  Sound(Painting(doc, on, entries, item))
<1> DEFINE given == get_or_create_resources(doc, on)
           dicts == Entered(doc, on, entries)
<1>1. Sound(given) /\ Live(given) = Live(doc)
    BY CreatedSound
<1>2. given.dicts \in [Holders -> Resources]
      /\ \A h \in Holders, n \in Names : given.dicts[h].x[n] \in Live(doc) \cup {None}
    BY <1>1 DEF Sound, Shape, Resolves
<1> HIDE DEF given
<1>3. dicts = [h \in Holders |-> IF h \in Edited(given, on) THEN entries[h] ELSE given.dicts[h]]
    BY DEF given, Entered
<1> HIDE DEF dicts
<1>4. dicts \in [Holders -> Resources] /\ \A h \in Holders, n \in Names : dicts[h].x[n] \in Live(given) \cup {None}
    BY <1>1, <1>2, <1>3
<1>5. Sound([given EXCEPT !.dicts = dicts])
    BY <1>1, <1>4, DictsSound
<1> QED  BY <1>5, PaintedSound DEF given, dicts, Painting

\* Whatever enters names in the dictionaries of some pages and paints a mark on
\* them paints it as PageLooks asks.  doc is what is edited: the document at
\* hand, with the streams that are about to be named.
LEMMA PaintStep ==
    ASSUME NEW doc, Sound(doc), LooksOf(doc) = LooksOf(pdf), doc.home = pdf.home,
           NEW on \in SUBSET Pages, NEW item \in Items, item.kind \in {"do", "text"},
           NEW thing, NEW tinting \in BOOLEAN, NEW tint,
           NEW entries \in [Holders -> Resources],
           \A h \in Holders, n \in Names : entries[h].x[n] \in Live(doc) \cup {None},
           Redefining(doc, on, entries, item, thing, tinting, tint),
           NEW op, Edit(op, Painting(doc, on, entries, item))
    PROVE  Contract!Painted(on, item, thing, tinting, tint) /\ last' = op
<1> DEFINE new == Painting(doc, on, entries, item)
<1>1. Sound(new)
    BY EntriesSound
<1>2. Repainted(new, on, item, thing, tinting, tint)
    BY <1>1, PaintLooks
<1> HIDE DEF new
<1>3. LooksOf(pdf') = LooksOf(new) /\ pdf'.home = new.home /\ last' = op
    BY <1>1, EditLooks DEF new
<1>4. Contract!Supplied(on)
    BY <1>2, <1>3 DEF Repainted, Contract!Supplied
<1>5. ASSUME NEW p \in Pages
      PROVE  LET olds == LooksOf(pdf)[p]  news == LooksOf(pdf')[p]  anew == p \in Contract!Reached(on) IN
             /\ Len(news) = Len(olds) + (IF p \in on THEN 1 ELSE 0)
             /\ \A k \in 1..Len(olds) :
                  LET old == Contract!Left(p, on, olds[k])  mark == news[k] IN
                  /\ mark.item = old.item
                  /\ mark.shows = IF anew /\ Contract!Alike(old.item, item) THEN thing ELSE old.shows
                  /\ mark.tint = IF anew /\ old.item.tinted /\ tinting THEN tint ELSE old.tint
    <2>1. /\ Len(LooksOf(new)[p]) = Len(LooksOf(pdf)[p]) + (IF p \in on THEN 1 ELSE 0)
          /\ \A k \in 1..Len(LooksOf(pdf)[p]) : MarkRepainted(new, p, k, on, item, thing, tinting, tint)
        BY <1>2 DEF Repainted
    <2>2. ASSUME NEW k \in 1..Len(LooksOf(pdf)[p])
          PROVE  LET old == Contract!Left(p, on, LooksOf(pdf)[p][k])
                     mark == LooksOf(pdf')[p][k]
                     anew == p \in Contract!Reached(on)
                 IN  /\ mark.item = old.item
                     /\ mark.shows = IF anew /\ Contract!Alike(old.item, item) THEN thing ELSE old.shows
                     /\ mark.tint = IF anew /\ old.item.tinted /\ tinting THEN tint ELSE old.tint
        BY <1>3, <2>1, Zenon DEF MarkRepainted
    <2> QED  BY <1>3, <2>1, <2>2
<1>6. ASSUME NEW p \in on
      PROVE  LET top == LooksOf(pdf')[p][Len(LooksOf(pdf')[p])] IN
             /\ top.item = item /\ top.shows = thing
             /\ tinting /\ item.tinted => top.tint = tint
    BY <1>2, <1>3 DEF Repainted, TopPainted
<1>7. Contract!Painted(on, item, thing, tinting, tint)
    BY <1>4, <1>5, <1>6, Zenon DEF Contract!Painted
<1> QED  BY <1>3, <1>7

LEMMA TextPaints ==
    ASSUME Sound(pdf), NEW on \in SUBSET Pages, NEW text \in Texts, NEW font \in Fonts, NEW tint \in Tints,
           append_text_watermark(on, text, font, tint)
    PROVE  Contract!Overlay(on, TextItem(text), font, tint, FALSE)
<1> DEFINE given == get_or_create_resources(pdf, on)
           entries == [h \in Holders |-> [given.dicts[h] EXCEPT !.font = font, !.tint = tint]]
           item == TextItem(text)
           op == <<"overlay", on, item, font, tint, FALSE>>
<1>1. given.dicts \in [Holders -> Resources]
      /\ \A h \in Holders, n \in Names : given.dicts[h].x[n] \in Live(pdf) \cup {None}
    BY CreatedSound DEF Sound, Shape, Resolves
<1>2. item \in Items /\ item.kind = "text" /\ item.of = WatermarkFont /\ item.tinted = TRUE
    BY ItemsTyped DEF TextItem
<1>3. Edit(op, Painting(pdf, on, entries, item))
    BY DEF append_text_watermark, add_resource_dict_entries, Painting, Entered
<1> HIDE DEF given
<1>4. ASSUME NEW h \in Holders
      PROVE  /\ entries[h] \in Resources /\ entries[h].x = given.dicts[h].x
             /\ entries[h].font = font /\ entries[h].tint = tint
             /\ Redefined(pdf, given.dicts[h], entries[h], item, font, TRUE, tint)
    <2>1. given.dicts[h] \in Resources
        BY <1>1
    <2>2. entries[h] \in Resources /\ entries[h].x = given.dicts[h].x
        BY <2>1, FontTyped
    <2>3. entries[h].font = font /\ entries[h].tint = tint
        BY <2>1 DEF Resources
    <2> QED  BY <1>2, <2>2, <2>3 DEF Redefined
<1>5. entries \in [Holders -> Resources] /\ \A h \in Holders, n \in Names : entries[h].x[n] \in Live(pdf) \cup {None}
    BY <1>1, <1>4
<1> HIDE DEF entries, item, op
<1>6. Redefining(pdf, on, entries, item, font, TRUE, tint)
    BY <1>4 DEF Redefining, given
<1>7. Contract!Painted(on, item, font, TRUE, tint) /\ last' = op
    BY <1>2, <1>3, <1>5, <1>6, PaintStep
<1>8. Contract!Seen(font, FALSE) = font
    BY DEF Contract!Seen
<1> QED  BY <1>7, <1>8 DEF Contract!Overlay, item, op

LEMMA WithXObjectFields ==
    ASSUME NEW res \in Resources, NEW name \in Names, NEW id \in Ids
    PROVE  LET new == WithXObject(res, name, id) IN
           /\ new \in Resources
           /\ new.x[name] = id /\ \A n \in Names \ {name} : new.x[n] = res.x[n]
           /\ new.font = res.font /\ new.tint = res.tint
BY DEF WithXObject, Resources

LEMMA XObjectPaints ==
    ASSUME NEW doc, Sound(doc), LooksOf(doc) = LooksOf(pdf), doc.home = pdf.home,
           NEW on \in SUBSET Pages, NEW name \in Names, NEW id \in Live(doc), NEW tint \in Tints,
           NEW thing, NEW hidden, Picture(doc, id) = Contract!Seen(thing, hidden),
           append_xobject_watermark(doc, on, id, name, thing, tint, hidden)
    PROVE  Contract!Overlay(on, DoItem(name, TRUE), thing, tint, hidden)
<1> DEFINE given == get_or_create_resources(doc, on)
           tinted(h) == [given.dicts[h] EXCEPT !.tint = tint]
           entries == [h \in Holders |-> WithXObject(tinted(h), name, id)]
           item == DoItem(name, TRUE)
           op == <<"overlay", on, item, thing, tint, hidden>>
<1>1. given.dicts \in [Holders -> Resources] /\ id \in Ids
      /\ \A h \in Holders, n \in Names : given.dicts[h].x[n] \in Live(doc) \cup {None}
    BY CreatedSound DEF Sound, Shape, Resolves, Live
<1>2. item \in Items /\ item.kind = "do" /\ item.of = name /\ item.tinted = TRUE
    BY ItemsTyped DEF DoItem
<1>3. Edit(op, Painting(doc, on, entries, item))
    BY DEF append_xobject_watermark, add_resource_dict_entries, Painting, Entered
<1> HIDE DEF given
<1>4. ASSUME NEW h \in Holders
      PROVE  /\ entries[h] \in Resources
             /\ entries[h].x[name] = id /\ \A n \in Names \ {name} : entries[h].x[n] = given.dicts[h].x[n]
             /\ entries[h].tint = tint
             /\ Redefined(doc, given.dicts[h], entries[h], item, Picture(doc, id), TRUE, tint)
    <2>1. given.dicts[h] \in Resources
        BY <1>1
    <2>2. tinted(h) \in Resources /\ tinted(h).x = given.dicts[h].x
        BY <2>1, TintedTyped
    <2>3. tinted(h).tint = tint /\ tinted(h).font = given.dicts[h].font
        BY <2>1 DEF Resources
    <2>4. entries[h] = WithXObject(tinted(h), name, id)
        OBVIOUS
    <2> HIDE DEF tinted, entries
    <2>5. /\ entries[h] \in Resources
          /\ entries[h].x[name] = id /\ \A n \in Names \ {name} : entries[h].x[n] = tinted(h).x[n]
          /\ entries[h].font = tinted(h).font /\ entries[h].tint = tinted(h).tint
        BY <1>1, <2>2, <2>4, WithXObjectFields
    <2> QED  BY <1>2, <2>2, <2>3, <2>5 DEF Redefined
<1>5. entries \in [Holders -> Resources] /\ \A h \in Holders, n \in Names : entries[h].x[n] \in Live(doc) \cup {None}
    BY <1>1, <1>4
<1> HIDE DEF entries, item, op
<1>6. Redefining(doc, on, entries, item, Picture(doc, id), TRUE, tint)
    BY <1>4 DEF Redefining, given
<1>7. Contract!Painted(on, item, Picture(doc, id), TRUE, tint) /\ last' = op
    BY <1>2, <1>3, <1>5, <1>6, PaintStep
<1> QED  BY <1>7 DEF Contract!Overlay, item, op

LEMMA AddedPicture ==
    ASSUME NEW doc, Sound(doc), Room(doc), NEW stream \in Streams, stream.kind # "none",
           \/ stream.uses = None
           \/ stream.uses \in Live(doc) /\ doc.streams[stream.uses].uses = None
    PROVE  /\ LET new == add_object(doc, stream) IN
              /\ Sound(new)
              /\ LooksOf(new) = LooksOf(doc) /\ new.home = doc.home
              /\ new_object_id(doc) \in Live(new) /\ new_object_id(doc) \notin Live(doc)
              /\ new.streams[new_object_id(doc)] = stream
              /\ \A id \in Live(doc) : new.streams[id] = doc.streams[id]
              /\ Picture(new, new_object_id(doc)) =
                    IF stream.uses = None THEN stream.shows ELSE doc.streams[stream.uses].shows
<1> DEFINE id == new_object_id(doc)
           new == add_object(doc, stream)
<1>1. /\ Sound(new) /\ Live(new) = Live(doc) \cup {id} /\ id \in Ids \ Live(doc)
      /\ new.streams[id] = stream
    BY StreamAdded
<1>2. LooksOf(new) = LooksOf(doc) /\ new.home = doc.home
    BY AddedLooks
<1>3. new = [doc EXCEPT !.streams[id] = stream]
    BY DEF add_object
<1> HIDE DEF id, new
<1>4. new.streams = [doc.streams EXCEPT ![id] = stream]
    BY <1>3 DEF Sound, Shape
<1>5. \A i \in Live(doc) : new.streams[i] = doc.streams[i]
    BY <1>1, <1>4 DEF Sound, Shape, Live
<1>6. id # None
    BY <1>1, DrawingAssumption DEF DrawingAssumption
<1>7. Picture(new, id) = IF stream.uses = None THEN stream.shows ELSE doc.streams[stream.uses].shows
    BY <1>1, <1>5, <1>6 DEF Picture
<1> QED  BY <1>1, <1>2, <1>5, <1>7 DEF id, new

LEMMA OverlayPaints ==
    ASSUME Sound(pdf), NEW on \in SUBSET Pages, NEW picture \in Pictures, NEW tint \in Tints,
           \/ append_image_watermark(on, picture, tint)
           \/ append_svg_watermark(on, picture, tint)
    PROVE  \E name \in Names : Contract!Overlay(on, DoItem(name, TRUE), picture, tint, FALSE)
<1>1. {"OxWmIm", "OxWmSvg", "OxPdfOverlay"} \subseteq Names /\ picture # None /\ None \notin Ids
    BY DrawingAssumption DEF DrawingAssumption
<1> DEFINE id == new_object_id(pdf)
<1>2. Contract!Seen(picture, FALSE) = picture
    BY DEF Contract!Seen
<1>3. CASE append_image_watermark(on, picture, tint)
    <2> DEFINE added == add_object(pdf, Image(picture))
    <2>1. /\ Image(picture) \in Streams /\ Image(picture).kind # "none"
          /\ Image(picture).uses = None /\ Image(picture).shows = picture
        BY ImageTyped DEF Image
    <2>2. /\ Sound(added) /\ LooksOf(added) = LooksOf(pdf) /\ added.home = pdf.home
          /\ id \in Live(added) /\ Picture(added, id) = picture
        BY <1>3, <2>1, AddedPicture DEF append_image_watermark
    <2>3. append_xobject_watermark(added, on, id, "OxWmIm", picture, tint, FALSE)
        BY <1>3 DEF append_image_watermark
    <2> HIDE DEF added, id
    <2>4. Contract!Overlay(on, DoItem("OxWmIm", TRUE), picture, tint, FALSE)
        BY <1>1, <1>2, <2>2, <2>3, XObjectPaints
    <2> QED  BY <1>1, <2>4
<1>4. CASE append_svg_watermark(on, picture, tint)
    <2> DEFINE added == add_object(pdf, Form(picture, None))
    <2>1. /\ Form(picture, None) \in Streams /\ Form(picture, None).kind # "none"
          /\ Form(picture, None).uses = None /\ Form(picture, None).shows = picture
        BY <1>1, FormTyped DEF Form
    <2>2. /\ Sound(added) /\ LooksOf(added) = LooksOf(pdf) /\ added.home = pdf.home
          /\ id \in Live(added) /\ Picture(added, id) = picture
        BY <1>4, <2>1, AddedPicture DEF append_svg_watermark
    <2>3. append_xobject_watermark(added, on, id, "OxWmSvg", picture, tint, FALSE)
        BY <1>4 DEF append_svg_watermark
    <2> HIDE DEF added, id
    <2>4. Contract!Overlay(on, DoItem("OxWmSvg", TRUE), picture, tint, FALSE)
        BY <1>1, <1>2, <2>2, <2>3, XObjectPaints
    <2> QED  BY <1>1, <2>4
<1> QED  BY <1>3, <1>4

\* A page laid over others shows its image, or nothing if the image is out of sight.
LEMMA PageOverlayPaints ==
    ASSUME Sound(pdf), NEW on \in SUBSET Pages, NEW picture \in Pictures, NEW tint \in Tints, NEW place,
           append_pdf_page_overlay(on, picture, tint, place)
    PROVE  \E hidden \in BOOLEAN : Contract!Overlay(on, DoItem("OxPdfOverlay", TRUE), picture, tint, hidden)
<1>1. "OxPdfOverlay" \in Names /\ Nothing # None /\ None \notin Ids
    BY DrawingAssumption DEF DrawingAssumption
<1> DEFINE id == new_object_id(pdf)
           bare == add_object(pdf, Form(Nothing, None))
           imported == add_object(pdf, Image(picture))
           form == new_object_id(imported)
           added == add_object(imported, Form(None, id))
<1>2. Room(pdf)
    BY PageOverlay
<1>3. CASE append_xobject_watermark(bare, on, id, "OxPdfOverlay", picture, tint, TRUE)
    <2>1. /\ Form(Nothing, None) \in Streams /\ Form(Nothing, None).kind # "none"
          /\ Form(Nothing, None).uses = None /\ Form(Nothing, None).shows = Nothing
        BY <1>1, FormTyped DEF Form
    <2>2. /\ Sound(bare) /\ LooksOf(bare) = LooksOf(pdf) /\ bare.home = pdf.home
          /\ id \in Live(bare) /\ Picture(bare, id) = Nothing
        BY <1>2, <2>1, AddedPicture
    <2>3. Contract!Seen(picture, TRUE) = Nothing
        BY DEF Contract!Seen
    <2> HIDE DEF bare, id
    <2>4. Contract!Overlay(on, DoItem("OxPdfOverlay", TRUE), picture, tint, TRUE)
        BY <1>1, <1>3, <2>2, <2>3, XObjectPaints
    <2> QED  BY <2>4
<1>4. CASE Room(imported) /\ append_xobject_watermark(added, on, form, "OxPdfOverlay", picture, tint, FALSE)
    <2>1. /\ Image(picture) \in Streams /\ Image(picture).kind # "none"
          /\ Image(picture).uses = None /\ Image(picture).shows = picture
        BY ImageTyped DEF Image
    <2>2. /\ Sound(imported) /\ LooksOf(imported) = LooksOf(pdf) /\ imported.home = pdf.home
          /\ id \in Live(imported) /\ imported.streams[id] = Image(picture)
        BY <1>2, <2>1, AddedPicture
    <2>3. id \in Ids /\ id # None
        BY <1>1, <2>2 DEF Live
    <2> HIDE DEF imported, id
    <2>4. /\ Form(None, id) \in Streams /\ Form(None, id).kind # "none" /\ Form(None, id).uses = id
        BY <2>3, FormTyped
    <2>5. /\ Sound(added) /\ LooksOf(added) = LooksOf(imported) /\ added.home = imported.home
          /\ form \in Live(added) /\ Picture(added, form) = picture
        BY <1>4, <2>1, <2>2, <2>3, <2>4, AddedPicture
    <2>6. Contract!Seen(picture, FALSE) = picture
        BY DEF Contract!Seen
    <2> HIDE DEF added, form
    <2>7. Contract!Overlay(on, DoItem("OxPdfOverlay", TRUE), picture, tint, FALSE)
        BY <1>1, <1>4, <2>2, <2>5, <2>6, XObjectPaints
    <2> QED  BY <2>7
<1> QED  BY <1>3, <1>4, PageOverlay

LEMMA AddImagePaints ==
    ASSUME Sound(pdf), NEW p \in Pages, NEW name \in Names, NEW picture \in Pictures,
           add_image_to_page(p, name, picture)
    PROVE  Contract!AddImage(p, DoItem(name, TRUE), picture)
<1> DEFINE id == new_object_id(pdf)
           doc == add_object(pdf, Image(picture))
           given == get_or_create_resources(doc, {p})
           entries == [h \in Holders |-> WithXObject(given.dicts[h], name, id)]
           item == DoItem(name, TRUE)
           op == <<"add image", p, item, picture>>
<1>1. /\ Sound(doc) /\ LooksOf(doc) = LooksOf(pdf) /\ doc.home = pdf.home
      /\ id \in Live(doc) /\ id \in Ids /\ Picture(doc, id) = picture
    <2>1. /\ Image(picture) \in Streams /\ Image(picture).kind # "none"
          /\ Image(picture).uses = None /\ Image(picture).shows = picture
        BY ImageTyped DEF Image
    <2>2. Room(pdf)
        BY DEF add_image_to_page
    <2> QED  BY <2>1, <2>2, AddedPicture DEF Live
<1>2. item \in Items /\ item.kind = "do" /\ item.of = name
    BY ItemsTyped DEF DoItem
<1>3. Edit(op, Painting(doc, {p}, entries, item))
    BY DEF add_image_to_page, add_resource_dict_entries, Painting, Entered
<1> HIDE DEF id, doc
<1>4. given.dicts \in [Holders -> Resources]
      /\ \A h \in Holders, n \in Names : given.dicts[h].x[n] \in Live(doc) \cup {None}
    BY <1>1, CreatedSound DEF Sound, Shape, Resolves
<1> HIDE DEF given
<1>5. ASSUME NEW h \in Holders
      PROVE  /\ entries[h] \in Resources
             /\ entries[h].x[name] = id /\ \A n \in Names \ {name} : entries[h].x[n] = given.dicts[h].x[n]
             /\ Redefined(doc, given.dicts[h], entries[h], item, picture, FALSE, None)
    <2>1. given.dicts[h] \in Resources /\ entries[h] = WithXObject(given.dicts[h], name, id)
        BY <1>4
    <2> HIDE DEF entries
    <2>2. /\ entries[h] \in Resources
          /\ entries[h].x[name] = id /\ \A n \in Names \ {name} : entries[h].x[n] = given.dicts[h].x[n]
          /\ entries[h].font = given.dicts[h].font /\ entries[h].tint = given.dicts[h].tint
        BY <1>1, <2>1, WithXObjectFields
    <2> QED  BY <1>1, <1>2, <2>2 DEF Redefined
<1>6. entries \in [Holders -> Resources] /\ \A h \in Holders, n \in Names : entries[h].x[n] \in Live(doc) \cup {None}
    BY <1>1, <1>4, <1>5
<1> HIDE DEF entries, item, op
<1>7. Redefining(doc, {p}, entries, item, picture, FALSE, None)
    BY <1>5 DEF Redefining, given
<1>8. Contract!Painted({p}, item, picture, FALSE, None) /\ last' = op
    <2>1. {p} \in SUBSET Pages
        OBVIOUS
    <2> QED  BY <1>1, <1>2, <1>3, <1>6, <1>7, <2>1, PaintStep
<1> QED  BY <1>8 DEF Contract!AddImage, item, op

\* A name that is taken out of every page's dictionary shows nothing anywhere.
LEMMA DeletePaints ==
    ASSUME Sound(pdf), NEW name \in Names, delete_image_resource(name)
    PROVE  Contract!DeleteImage(name)
<1> DEFINE given == get_or_create_resources(pdf, Pages)
           edited == Edited(given, Pages)
           without(res) == [res EXCEPT !.x[name] = None]
           dicts == [h \in Holders |-> IF h \in edited THEN without(given.dicts[h]) ELSE given.dicts[h]]
           new == [given EXCEPT !.dicts = dicts]
<1>1. Edit(<<"delete image", name>>, new)
    BY DEF delete_image_resource
<1>2. /\ Sound(given) /\ given.contents = pdf.contents /\ given.streams = pdf.streams
      /\ \A p \in Pages : given.home[p] = IF pdf.home[p] = None THEN p ELSE pdf.home[p]
    BY CreatedSound, CreatedFields
<1>3. \A p \in Pages : InForce(given, p) = IF p \in Inherits(pdf) THEN NoResources ELSE InForce(pdf, p)
    BY CreatedInForce
<1>4. \A res \in Resources : /\ without(res) \in Resources
                             /\ without(res).x[name] = None
                             /\ \A n \in Names \ {name} : without(res).x[n] = res.x[n]
                             /\ without(res).font = res.font /\ without(res).tint = res.tint
    BY DEF Resources
<1>5. given.dicts \in [Holders -> Resources]
      /\ \A h \in Holders, n \in Names : given.dicts[h].x[n] \in Live(given) \cup {None}
    BY <1>2 DEF Sound, Shape, Resolves
<1> HIDE DEF given, without
<1>6. dicts \in [Holders -> Resources] /\ \A h \in Holders, n \in Names : dicts[h].x[n] \in Live(given) \cup {None}
    BY <1>4, <1>5
<1>7. \A p \in Pages : /\ given.home[p] \in Holders /\ given.home[p] # None
                       /\ dicts[given.home[p]] = without(given.dicts[given.home[p]])
    <2> SUFFICES ASSUME NEW p \in Pages
                 PROVE  /\ given.home[p] \in Holders /\ given.home[p] # None
                        /\ dicts[given.home[p]] = without(given.dicts[given.home[p]])
        OBVIOUS
    <2>1. given.home[p] \in Holders /\ given.home[p] # None
        BY <1>2, DrawingAssumption DEF Sound, Shape, Homes, Holders, DrawingAssumption
    <2>2. given.home[p] \in edited
        BY DEF Edited
    <2> QED  BY <2>1, <2>2
<1> HIDE DEF dicts, edited
<1>8. /\ Sound(new) /\ new.dicts = dicts /\ new.home = given.home
      /\ new.contents = pdf.contents /\ new.streams = pdf.streams
    BY <1>2, <1>6, DictsSound DEF Sound, Shape
<1> HIDE DEF new
<1>9. LooksOf(pdf') = LooksOf(new) /\ pdf'.home = new.home /\ last' = <<"delete image", name>>
    BY <1>1, <1>8, EditLooks
<1>10. new.home = [n \in DOMAIN pdf.home |-> IF n \in Contract!Given(Pages) THEN n ELSE pdf.home[n]]
    BY <1>8, CreatedHome DEF given
<1>11. ASSUME NEW p \in Pages, NEW k \in DOMAIN LooksOf(pdf)[p]
       PROVE  LET mark == LooksOf(pdf)[p][k] IN
              Mark(new, p, pdf.contents[p][k]) =
                    IF p \in Inherits(pdf) THEN Contract!Blank(mark)
                    ELSE IF mark.item.kind = "do" /\ mark.item.of = name
                    THEN [mark EXCEPT !.shows = None] ELSE mark
    <2> DEFINE item == pdf.contents[p][k]
               mark == LooksOf(pdf)[p][k]
               other == Mark(new, p, item)
    <2>1. item \in Items /\ mark = Mark(pdf, p, item)
        BY <1>11, LooksFields DEF Sound
    <2>2. InForce(new, p) = without(InForce(given, p)) /\ InForce(given, p) \in Resources
        BY <1>2, <1>5, <1>7, <1>8 DEF InForce
    <2>3. /\ InForce(new, p).x[name] = None
          /\ \A n \in Names \ {name} : InForce(new, p).x[n] = InForce(given, p).x[n]
          /\ InForce(new, p).font = InForce(given, p).font /\ InForce(new, p).tint = InForce(given, p).tint
        BY <1>4, <2>2
    <2>4. /\ \A id : Picture(new, id) = Picture(pdf, id)
          /\ Picture(new, None) = None
        BY <1>8 DEF Picture
    <2>5. Shown(new, p, name) = None
        BY <2>3, <2>4 DEF Shown
    <2>6. /\ mark = [item |-> item, shows |-> mark.shows, tint |-> mark.tint]
          /\ other = [item |-> item, shows |-> other.shows, tint |-> other.tint]
        BY <2>1, MarkFields
    <2> HIDE DEF item, mark, other
    <2>7. ASSUME p \in Inherits(pdf) PROVE other = Contract!Blank(mark)
        <3>1. /\ \A n \in Names : NoResources.x[n] = None
              /\ NoResources.font = None /\ NoResources.tint = None
            BY DEF NoResources
        <3>2. InForce(given, p) = NoResources
            BY <1>3, <2>7
        <3>3. /\ \A n \in Names : InForce(new, p).x[n] = None
              /\ InForce(new, p).font = None /\ InForce(new, p).tint = None
            BY <2>3, <3>1, <3>2
        <3>4. \A n \in Names : Shown(new, p, n) = None
            BY <2>4, <3>3 DEF Shown
        <3>5. other.shows = None /\ other.tint = None
            BY <2>1, <3>3, <3>4, MarkFields DEF other
        <3> QED  BY <2>6, <3>5 DEF Contract!Blank
    <2>8. ASSUME p \notin Inherits(pdf)
          PROVE  other = IF mark.item.kind = "do" /\ mark.item.of = name THEN [mark EXCEPT !.shows = None] ELSE mark
        <3>1. InForce(given, p) = InForce(pdf, p)
            BY <1>3, <2>8
        <3>2. \A n \in Names \ {name} : Shown(new, p, n) = Shown(pdf, p, n)
            BY <2>3, <2>4, <3>1 DEF Shown
        <3>3. other.tint = mark.tint
            BY <2>1, <2>3, <3>1, MarkFields DEF other
        <3>4. other.shows = IF item.kind = "do" /\ item.of = name THEN None ELSE mark.shows
            BY <2>1, <2>3, <2>5, <3>1, <3>2, MarkFields DEF other
        <3> QED  BY <2>6, <3>3, <3>4
    <2>9. other = IF p \in Inherits(pdf) THEN Contract!Blank(mark)
                  ELSE IF mark.item.kind = "do" /\ mark.item.of = name THEN [mark EXCEPT !.shows = None] ELSE mark
        BY <2>7, <2>8
    <2> QED  BY <2>9, Zenon DEF mark, other, item
<1>12. LooksOf(new) = [p \in Pages |-> [k \in DOMAIN LooksOf(pdf)[p] |->
                    LET mark == LooksOf(pdf)[p][k] IN
                    IF p \in Inherits(pdf) THEN Contract!Blank(mark)
                    ELSE IF mark.item.kind = "do" /\ mark.item.of = name
                    THEN [mark EXCEPT !.shows = None] ELSE mark]]
    <2>1. \A p \in Pages : DOMAIN LooksOf(pdf)[p] = DOMAIN pdf.contents[p]
        BY DEF LooksOf
    <2>2. LooksOf(new) = [p \in Pages |-> [k \in DOMAIN LooksOf(pdf)[p] |-> Mark(new, p, pdf.contents[p][k])]]
        BY <1>8, <2>1 DEF LooksOf
    <2> QED  BY <1>11, <2>2
<1>13. Inherits(pdf) = Contract!Inherits
    BY DEF Inherits, Contract!Inherits
<1> QED  BY <1>9, <1>10, <1>12, <1>13 DEF Contract!DeleteImage, Contract!Supplied

LEMMA ColorsPaint ==
    ASSUME Sound(pdf), NEW on \in SUBSET Pages, NEW plan \in ColorPlans, rewrite_page_colors(on, plan)
    PROVE  Contract!EditColors(on, plan)
<1> DEFINE repainted(p) == [k \in DOMAIN pdf.contents[p] |-> Recolored(pdf.contents[p][k], plan)]
           contents == [p \in Pages |-> IF p \notin on THEN pdf.contents[p] ELSE repainted(p)]
           new == [pdf EXCEPT !.contents = contents]
<1>1. Edit(<<"edit colors", on, plan>>, new)
    BY DEF rewrite_page_colors, Recolored
<1>2. ASSUME NEW p \in Pages PROVE repainted(p) \in Seq(Items)
    <2>1. pdf.contents[p] \in Seq(Items)
        BY DEF Sound, Shape, Contents
    <2> QED  BY <2>1, RecoloredTyped
<1>3. contents \in Contents
    BY <1>2 DEF Sound, Shape, Contents
<1> HIDE DEF contents
<1>4. Sound(new) /\ new.contents = contents /\ new.home = pdf.home /\ new.dicts = pdf.dicts
      /\ new.streams = pdf.streams
    BY <1>3, ContentsSound DEF Sound, Shape
<1> HIDE DEF new
<1>5. LooksOf(pdf') = LooksOf(new) /\ pdf'.home = new.home /\ last' = <<"edit colors", on, plan>>
    BY <1>1, <1>4, EditLooks
<1>6. new.home = pdf.home
    BY <1>4 DEF Inherits
<1>7. \A p \in Pages : /\ InForce(new, p) = InForce(pdf, p)
                       /\ \A n \in Names : Shown(new, p, n) = Shown(pdf, p, n)
    BY <1>4 DEF InForce, Shown, Picture
<1>8. ASSUME NEW p \in Pages, NEW k \in DOMAIN LooksOf(pdf)[p]
      PROVE  LET mark == LooksOf(pdf)[p][k] IN
             Mark(new, p, contents[p][k]) =
                    IF p \in on /\ mark.item.kind = "rgb"
                    THEN [mark EXCEPT !.item.level = plan[@]] ELSE mark
    <2> DEFINE item == pdf.contents[p][k]
               mark == LooksOf(pdf)[p][k]
               recolored == IF p \in on THEN Recolored(item, plan) ELSE item
               other == Mark(new, p, recolored)
    <2>1. k \in DOMAIN pdf.contents[p] /\ item \in Items /\ mark = Mark(pdf, p, item)
        BY <1>8, LooksFields DEF Sound
    <2>2. contents[p][k] = recolored
        BY <2>1 DEF contents
    <2>3. /\ recolored \in Items /\ recolored.kind = item.kind /\ recolored.of = item.of
          /\ recolored.tinted = item.tinted
        BY <2>1, RecoloredTyped
    <2>4. recolored = IF p \in on /\ item.kind = "rgb" THEN [item EXCEPT !.level = plan[@]] ELSE item
        BY DEF Recolored
    <2>5. /\ mark = [item |-> item, shows |-> mark.shows, tint |-> mark.tint]
          /\ other = [item |-> recolored, shows |-> other.shows, tint |-> other.tint]
        BY <2>1, <2>3, MarkFields
    <2> HIDE DEF item, mark, recolored, other
    <2>6. other.shows = mark.shows /\ other.tint = mark.tint
        BY <1>7, <2>1, <2>3, MarkFields DEF other
    <2>7. CASE p \in on /\ item.kind = "rgb"
        <3>1. [mark EXCEPT !.item.level = plan[@]] = [item |-> recolored, shows |-> mark.shows, tint |-> mark.tint]
            BY <2>4, <2>5, <2>7
        <3> QED  BY <2>2, <2>5, <2>6, <2>7, <3>1 DEF mark, other
    <2>8. CASE ~(p \in on /\ item.kind = "rgb")
        BY <2>2, <2>4, <2>5, <2>6, <2>8 DEF mark, other
    <2> QED  BY <2>7, <2>8
<1>9. LooksOf(new) = [p \in Pages |-> [k \in DOMAIN LooksOf(pdf)[p] |->
                    LET mark == LooksOf(pdf)[p][k] IN
                    IF p \in on /\ mark.item.kind = "rgb"
                    THEN [mark EXCEPT !.item.level = plan[@]] ELSE mark]]
    <2>1. \A p \in Pages : DOMAIN LooksOf(pdf)[p] = DOMAIN pdf.contents[p] /\ DOMAIN contents[p] = DOMAIN pdf.contents[p]
        BY DEF LooksOf, contents
    <2>2. LooksOf(new) = [p \in Pages |-> [k \in DOMAIN LooksOf(pdf)[p] |-> Mark(new, p, contents[p][k])]]
        BY <1>4, <2>1 DEF LooksOf
    <2> QED  BY <1>8, <2>2
<1> QED  BY <1>5, <1>6, <1>9 DEF Contract!EditColors

\* What a name that is defined stands for shows something.
LEMMA LiveShows ==
    ASSUME NEW doc, Sound(doc), NEW id \in Live(doc)
    PROVE  Picture(doc, id) # None
<1>1. /\ id \in Ids /\ id # None /\ doc.streams[id] \in Streams /\ doc.streams[id].kind # "none"
    BY DrawingAssumption DEF DrawingAssumption, Sound, Shape, Live
<1>2. CASE doc.streams[id].uses = None
    BY <1>1, <1>2 DEF Picture, Streams
<1>3. CASE doc.streams[id].uses # None
    <2> DEFINE inner == doc.streams[id].uses
    <2>1. inner \in Live(doc) /\ doc.streams[inner].uses = None
        BY <1>3 DEF Sound, Resolves
    <2>2. doc.streams[inner] \in Streams /\ doc.streams[inner].kind # "none"
        BY <2>1 DEF Sound, Shape, Live
    <2>3. doc.streams[inner].shows # None
        BY <2>1, <2>2 DEF Streams
    <2> QED  BY <1>1, <1>3, <2>3 DEF Picture
<1> QED  BY <1>2, <1>3

LEMMA LiveShown ==
    ASSUME NEW doc, Sound(doc), NEW id \in Live(doc)
    PROVE  Picture(doc, id) \in Pictures \cup {Nothing}
<1>1. /\ id \in Ids /\ id # None /\ doc.streams[id] \in Streams
      /\ doc.streams[id].uses = None \/ doc.streams[id].uses \in Ids
    BY DrawingAssumption DEF DrawingAssumption, Sound, Shape, Live, Resolves
<1>2. \A i \in Ids : doc.streams[i].shows \in Pictures \cup {Nothing, None}
    BY DEF Sound, Shape, Streams
<1>3. Picture(doc, id) \in Pictures \cup {Nothing, None}
    BY <1>1, <1>2 DEF Picture
<1> QED  BY <1>3, LiveShows

\* The image that a page with a dictionary of its own shows under a name is the
\* one the program finds, unless it gives up.
LEMMA OwnFound ==
    ASSUME Sound(pdf), NEW p \in Pages, NEW name \in Names, pdf.home[p] # None,
           MergedResources(pdf, p).xobject # "ref", InForce(pdf, p).x[name] # None
    PROVE  page_xobject_reference(pdf, p, name) = InForce(pdf, p).x[name]
<1> DEFINE own == OwnResources(pdf, p)
           inherited == Inherited(pdf)
           merged == merge_resource_dictionary(inherited, own)
<1>1. own \in Resources /\ inherited \in Resources
    BY NoResourcesTyped DEF Sound, Shape, OwnResources, Inherited, Holders, Homes
<1>2. own = InForce(pdf, p)
    BY DEF OwnResources, InForce
<1>3. own.xobject # "none" /\ own.x[name] # None
    BY <1>1, <1>2 DEF Resources
<1>4. merged.xobject # "ref"
    BY DEF MergedResources
<1> HIDE DEF own, inherited
<1>5. merged.xobject = own.xobject /\ merged.x[name] = own.x[name]
    BY <1>1, <1>3 DEF merge_resource_dictionary, Resources
<1>6. merged.xobject = "inline"
    BY <1>1, <1>3, <1>4, <1>5 DEF Resources
<1> HIDE DEF merged
<1>7. MergedResources(pdf, p) = merged
    BY DEF MergedResources, merged, own, inherited
<1> QED  BY <1>2, <1>5, <1>6, <1>7 DEF page_xobject_reference

LEMMA ReplacePaints ==
    ASSUME Sound(pdf), NEW name \in Names, NEW picture \in Pictures, replace_image_resource(name, picture)
    PROVE  LET gone == {Picture(pdf, id) : id \in {page_xobject_reference(pdf, p, name) : p \in Pages} \ {None}}
           IN  /\ Contract!ReplaceImage(name, picture, gone)
               /\ gone \subseteq Pictures \cup {Nothing}
<1> DEFINE found == {page_xobject_reference(pdf, p, name) : p \in Pages} \ {None}
           streams == [id \in Ids |-> IF id \in found THEN Image(picture) ELSE pdf.streams[id]]
           gone == {Picture(pdf, id) : id \in found}
           new == Overwritten(found, picture)
<1>1. Edit(<<"replace image", name, picture, gone>>, new) /\ Sound(new)
    BY Replacing
<1>16. found \subseteq Live(pdf)
    BY FoundLive
<1>2. /\ \A p \in Pages : MergedResources(pdf, p).xobject # "ref"
      /\ picture # None /\ None \notin Ids
    BY DrawingAssumption DEF replace_image_resource, DrawingAssumption
<1>3. \A id \in Ids : /\ id \in found => streams[id].shows = picture /\ streams[id].uses = None
                      /\ id \notin found => streams[id] = pdf.streams[id]
    BY DEF Image
<1>4. \A p \in Pages : p \notin Inherits(pdf) /\ InForce(pdf, p).x[name] # None
                            => InForce(pdf, p).x[name] \in found
    BY <1>2, OwnFound DEF Inherits
<1> HIDE DEF found, streams
<1>5. /\ new.streams = streams /\ new.home = pdf.home /\ new.dicts = pdf.dicts /\ new.contents = pdf.contents
    BY DEF Sound, Shape, Overwritten, streams
<1> HIDE DEF new
<1>6. ASSUME NEW id \in Live(pdf)
      PROVE  /\ \/ Picture(new, id) = Picture(pdf, id)
                \/ Picture(new, id) = picture /\ Picture(pdf, id) \in gone
             /\ id \in found => Picture(new, id) = picture /\ Picture(pdf, id) \in gone
    <2>1. id \in Ids /\ id # None
        BY <1>2 DEF Live
    <2>2. CASE id \in found
        BY <1>3, <1>5, <2>1, <2>2 DEF Picture
    <2>3. CASE id \notin found
        <3>1. new.streams[id] = pdf.streams[id]
            BY <1>3, <1>5, <2>1, <2>3
        <3>2. pdf.streams[id].uses = None \/ pdf.streams[id].uses \in Ids
            BY DEF Sound, Resolves, Live
        <3>3. pdf.streams[id].uses # None =>
                 \/ /\ new.streams[pdf.streams[id].uses].shows = picture
                    /\ pdf.streams[id].uses \in found /\ pdf.streams[pdf.streams[id].uses].uses = None
                 \/ new.streams[pdf.streams[id].uses] = pdf.streams[pdf.streams[id].uses]
            BY <1>3, <1>5, <3>2 DEF Sound, Resolves
        <3>4. ASSUME pdf.streams[id].uses # None, pdf.streams[id].uses \in found,
                     pdf.streams[pdf.streams[id].uses].uses = None
              PROVE  Picture(pdf, id) \in gone
            <4>1. Picture(pdf, pdf.streams[id].uses) = Picture(pdf, id)
                BY <2>1, <3>4 DEF Picture
            <4> QED  BY <3>4, <4>1
        <3> HIDE DEF gone
        <3> QED  BY <2>1, <2>3, <3>1, <3>3, <3>4 DEF Picture
    <2> QED  BY <2>2, <2>3
<1>7. \A p \in Pages : InForce(new, p) = InForce(pdf, p)
    BY <1>5 DEF InForce
<1>8. ASSUME NEW p \in Pages, NEW n \in Names
      PROVE  /\ \/ Shown(new, p, n) = Shown(pdf, p, n)
                \/ Shown(new, p, n) = picture /\ Shown(pdf, p, n) \in gone
             /\ n = name /\ p \notin Inherits(pdf) /\ Shown(pdf, p, n) # None
                => Shown(new, p, n) = picture /\ Shown(pdf, p, n) \in gone
    <2> DEFINE id == InForce(pdf, p).x[n]
    <2>1. id \in Live(pdf) \cup {None}
        BY InForceTyped
    <2>2. Shown(pdf, p, n) = Picture(pdf, id) /\ Shown(new, p, n) = Picture(new, id)
        BY <1>7 DEF Shown
    <2>3. n = name /\ p \notin Inherits(pdf) /\ id # None => id \in found
        BY <1>4
    <2> HIDE DEF id
    <2>4. CASE id = None
        BY <2>2, <2>4 DEF Picture
    <2>5. CASE id \in Live(pdf)
        <3>1. Picture(pdf, id) # None
            BY <2>5, LiveShows
        <3>2. id # None
            BY <1>2, <2>5 DEF Live
        <3> QED  BY <1>6, <2>2, <2>3, <2>5, <3>1, <3>2
    <2> QED  BY <2>1, <2>4, <2>5
<1>9. ASSUME NEW p \in Pages, NEW k \in 1..Len(pdf.contents[p])
      PROVE  LET old == LooksOf(pdf)[p][k]
                 other == Mark(new, p, pdf.contents[p][k])
                 named == old.item.kind = "do" /\ old.item.of = name /\ p \notin Inherits(pdf)
             IN  \/ other = [old EXCEPT !.shows = picture] /\ old.item.kind = "do" /\ old.shows \in gone
                 \/ other = old /\ (named => old.shows = None)
    <2> DEFINE item == pdf.contents[p][k]
               old == LooksOf(pdf)[p][k]
               other == Mark(new, p, item)
    <2>1. item \in Items /\ old = Mark(pdf, p, item)
        BY <1>9, LooksFields DEF Sound
    <2>2. /\ old = [item |-> item, shows |-> old.shows, tint |-> old.tint]
          /\ other = [item |-> item, shows |-> other.shows, tint |-> other.tint]
        BY <2>1, MarkFields
    <2>3. other.tint = old.tint
        BY <1>7, <2>1, MarkFields
    <2>4. item.kind # "do" => other.shows = old.shows
        BY <1>7, <2>1, MarkFields
    <2>5. item.kind = "do" => item.of \in Names /\ old.shows = Shown(pdf, p, item.of)
                                 /\ other.shows = Shown(new, p, item.of)
        BY <2>1, MarkFields
    <2> HIDE DEF item, old, other, gone
    <2>6. /\ \/ other.shows = picture /\ item.kind = "do" /\ old.shows \in gone
             \/ other.shows = old.shows
          /\ item.kind = "do" /\ item.of = name /\ p \notin Inherits(pdf) /\ old.shows # None
                => other.shows = picture /\ old.shows \in gone
        BY <1>8, <2>4, <2>5
    <2>7. other.shows = picture => other = [old EXCEPT !.shows = picture]
        BY <2>2, <2>3
    <2>8. other.shows = old.shows => other = old
        BY <2>2, <2>3
    <2>9. old.item = item
        BY <2>2
    <2>10. \/ other = [old EXCEPT !.shows = picture] /\ old.item.kind = "do" /\ old.shows \in gone
           \/ other = old /\ ((old.item.kind = "do" /\ old.item.of = name /\ p \notin Inherits(pdf)) => old.shows = None)
        BY <2>6, <2>7, <2>8, <2>9
    <2> QED  BY <2>10, Zenon DEF item, old, other
<1> HIDE DEF gone
<1>10. LooksOf(pdf') = LooksOf(new) /\ pdf'.home = new.home
       /\ last' = <<"replace image", name, picture, gone>>
    BY <1>1, EditLooks
<1>12. ASSUME NEW p \in Pages
       PROVE  /\ Len(LooksOf(new)[p]) = Len(LooksOf(pdf)[p]) /\ Len(LooksOf(pdf)[p]) = Len(pdf.contents[p])
              /\ \A k \in 1..Len(pdf.contents[p]) : LooksOf(new)[p][k] = Mark(new, p, pdf.contents[p][k])
    <2>1. Shape(new) /\ Shape(pdf)
        BY <1>1 DEF Sound
    <2>2. /\ Len(LooksOf(new)[p]) = Len(new.contents[p])
          /\ \A k \in 1..Len(new.contents[p]) : LooksOf(new)[p][k] = Mark(new, p, new.contents[p][k])
        BY <2>1, LooksFields
    <2>3. Len(LooksOf(pdf)[p]) = Len(pdf.contents[p])
        BY <2>1, LooksFields
    <2> QED  BY <1>5, <2>2, <2>3
<1>13. ASSUME NEW p \in Pages, NEW k \in 1..Len(LooksOf(pdf)[p])
       PROVE  LET old == LooksOf(pdf)[p][k]
                  other == LooksOf(pdf')[p][k]
                  named == old.item.kind = "do" /\ old.item.of = name /\ p \notin Contract!Inherits
              IN  \/ other = [old EXCEPT !.shows = picture] /\ old.item.kind = "do" /\ old.shows \in gone
                  \/ other = old /\ (named => old.shows = None)
    <2>1. k \in 1..Len(pdf.contents[p])
        BY <1>12
    <2>2. LooksOf(pdf')[p][k] = Mark(new, p, pdf.contents[p][k])
        BY <1>10, <1>12, <2>1
    <2>3. Inherits(pdf) = Contract!Inherits
        BY DEF Inherits, Contract!Inherits
    <2> QED  BY <1>9, <2>1, <2>2, <2>3
<1>14. \A p \in Pages : Len(LooksOf(pdf')[p]) = Len(LooksOf(pdf)[p])
    BY <1>10, <1>12
<1>15. pdf'.home = pdf.home /\ last' = <<"replace image", name, picture, gone>>
    BY <1>5, <1>10
<1>17. Contract!ReplaceImage(name, picture, gone)
    BY <1>13, <1>14, <1>15, Zenon DEF Contract!ReplaceImage
<1>18. gone \subseteq Pictures \cup {Nothing}
    <2>1. ASSUME NEW id \in found PROVE Picture(pdf, id) \in Pictures \cup {Nothing}
        BY <1>16, LiveShown
    <2> QED  BY <2>1 DEF gone
<1> QED  BY <1>17, <1>18 DEF gone, found

\* A merged document shows what it showed: a name leads to a stream with the
\* same picture, and a form to an image with the same.
LEMMA MergedLooks ==
    ASSUME NEW doc, Sound(doc)
    PROVE  LET new == merge_duplicate_resource_streams(doc) IN
           LooksOf(new) = LooksOf(doc) /\ new.home = doc.home
<1> DEFINE to == canonical(doc)
           Stays == {id \in Live(doc) : to[id] = id}
           dicts == RemappedDicts(doc, to)
           streams == [id \in Ids |-> IF id \in Live(doc) /\ to[id] # id THEN NoStream
                                     ELSE RemappedStreams(doc, to)[id]]
           new == merge_duplicate_resource_streams(doc)
<1>1. /\ Remap(None, to) = None
      /\ \A id \in Live(doc) : Remap(id, to) \in Stays /\ doc.streams[Remap(id, to)] = doc.streams[id]
      /\ Stays \subseteq Ids /\ \A id \in Stays : to[id] = id
      /\ None \notin Ids /\ Live(doc) \subseteq Ids
    BY RemappedFacts, DrawingAssumption DEF Live, DrawingAssumption
<1>2. /\ new.dicts = dicts /\ new.streams = streams /\ new.home = doc.home /\ new.contents = doc.contents
    BY MergedFields
<1> HIDE DEF to, new, Stays
<1>3. \A id \in Stays : streams[id] = [doc.streams[id] EXCEPT !.uses = Remap(doc.streams[id].uses, to)]
    BY <1>1 DEF RemappedStreams
<1>4. ASSUME NEW id \in Stays
      PROVE  /\ streams[id].shows = doc.streams[id].shows
             /\ streams[id].uses = Remap(doc.streams[id].uses, to)
    <2> DEFINE stream == doc.streams[id]
               uses == Remap(stream.uses, to)
    <2>1. stream \in Streams
        BY <1>1 DEF Sound, Shape
    <2>2. streams[id] = [stream EXCEPT !.uses = uses]
        BY <1>3
    <2> HIDE DEF stream, streams, uses
    <2>3. streams[id].shows = stream.shows /\ streams[id].uses = uses
        BY <2>1, <2>2 DEF Streams
    <2> QED  BY <2>3 DEF stream, uses
<1>5. \A h \in Holders : /\ dicts[h].font = doc.dicts[h].font /\ dicts[h].tint = doc.dicts[h].tint
                         /\ \A n \in Names : dicts[h].x[n] = Remap(doc.dicts[h].x[n], to)
    BY DEF RemappedDicts, Sound, Shape, Resources
<1> HIDE DEF streams, dicts
<1>6. ASSUME NEW id \in Live(doc) PROVE Picture(new, Remap(id, to)) = Picture(doc, id)
    <2> DEFINE stays == Remap(id, to)
               uses == doc.streams[id].uses
    <2>1. /\ stays \in Stays /\ stays # None /\ id # None
          /\ new.streams[stays].shows = doc.streams[id].shows
          /\ new.streams[stays].uses = Remap(uses, to)
        BY <1>1, <1>2, <1>4
    <2>2. CASE uses = None
        BY <1>1, <2>1, <2>2 DEF Picture
    <2>3. CASE uses # None
        <3>1. uses \in Live(doc)
            BY <2>3 DEF Sound, Resolves
        <3>2. Remap(uses, to) # None /\ new.streams[Remap(uses, to)].shows = doc.streams[uses].shows
            BY <1>1, <1>2, <1>4, <3>1
        <3> QED  BY <2>1, <2>3, <3>2 DEF Picture
    <2> QED  BY <2>2, <2>3
<1>7. Picture(new, Remap(None, to)) = Picture(doc, None)
    BY <1>1 DEF Picture
<1>8. ASSUME NEW p \in Pages
      PROVE  /\ InForce(new, p).font = InForce(doc, p).font
             /\ InForce(new, p).tint = InForce(doc, p).tint
             /\ \A n \in Names : InForce(new, p).x[n] = Remap(InForce(doc, p).x[n], to)
    <2>1. /\ doc.home[p] \in Holders \cup {None} /\ doc.home[Root] \in Holders \cup {None}
        BY DEF Sound, Shape, Homes
    <2>2. \A n \in Names : NoResources.x[n] = None
        BY DEF NoResources
    <2>3. CASE InForce(doc, p) = NoResources /\ InForce(new, p) = NoResources
        BY <1>1, <2>2, <2>3
    <2>4. CASE \E h \in Holders : InForce(doc, p) = doc.dicts[h] /\ InForce(new, p) = dicts[h]
        BY <1>5, <2>4
    <2> QED  BY <1>2, <2>1, <2>3, <2>4 DEF InForce
<1>9. ASSUME NEW p \in Pages, NEW n \in Names PROVE Shown(new, p, n) = Shown(doc, p, n)
    <2>1. InForce(doc, p).x[n] \in Live(doc) \cup {None}
        BY InForceTyped
    <2> QED  BY <1>6, <1>7, <1>8, <2>1 DEF Shown
<1>10. LooksOf(new) = LooksOf(doc) /\ new.home = doc.home
    BY <1>2, <1>8, <1>9, SameLooks
<1> QED  BY <1>10 DEF new

LEMMA LossyLooks ==
    ASSUME NEW doc, Sound(doc)
    PROVE  LET new == recompress_images_lossy(doc) IN
           LooksOf(new) = LooksOf(doc) /\ new.home = doc.home
<1> DEFINE streams == [id \in Ids |-> IF doc.streams[id].kind = "image" THEN [doc.streams[id] EXCEPT !.coding = "jpeg"]
                                      ELSE doc.streams[id]]
           new == recompress_images_lossy(doc)
<1>1. new = [doc EXCEPT !.streams = streams]
    BY DEF recompress_images_lossy
<1>2. \A id \in Ids : streams[id].shows = doc.streams[id].shows /\ streams[id].uses = doc.streams[id].uses
    BY DEF Sound, Shape, Streams
<1> HIDE DEF streams, new
<1>3. /\ new.home = doc.home /\ new.dicts = doc.dicts /\ new.contents = doc.contents
      /\ new.streams = streams
    BY <1>1 DEF Sound, Shape
<1>4. ASSUME NEW h \in Holders, NEW n \in Names
      PROVE  Picture(new, doc.dicts[h].x[n]) = Picture(doc, doc.dicts[h].x[n])
    <2> DEFINE id == doc.dicts[h].x[n]
    <2>1. \/ id = None
          \/ id \in Ids /\ (doc.streams[id].uses = None \/ doc.streams[id].uses \in Ids)
        BY DEF Sound, Resolves, Live
    <2> HIDE DEF id
    <2>2. Picture(new, id) = Picture(doc, id)
        BY <1>2, <1>3, <2>1 DEF Picture
    <2> QED  BY <2>2 DEF id
<1>5. LooksOf(new) = LooksOf(doc) /\ new.home = doc.home
    BY <1>3, <1>4, StreamsUnseen
<1> QED  BY <1>5 DEF new

LEMMA CompressPaints ==
    ASSUME Sound(pdf), NEW mode \in {"lossless", "lossy"}, compress_on_document(mode)
    PROVE  Contract!Compress(mode)
<1> DEFINE merged == merge_duplicate_resource_streams(pdf)
           lossy == recompress_images_lossy(merged)
<1>1. Edit(<<"compress", mode>>, IF mode = "lossy" THEN lossy ELSE merged)
    BY DEF compress_on_document
<1>2. Sound(merged) /\ LooksOf(merged) = LooksOf(pdf) /\ merged.home = pdf.home
    BY MergedSound, MergedLooks
<1> HIDE DEF merged
<1>3. Sound(lossy) /\ LooksOf(lossy) = LooksOf(merged) /\ lossy.home = merged.home
    BY <1>2, LossySound, LossyLooks
<1> HIDE DEF lossy
<1>4. LooksOf(pdf') = LooksOf(pdf) /\ pdf'.home = pdf.home /\ last' = <<"compress", mode>>
    BY <1>1, <1>2, <1>3, EditLooks
<1> QED  BY <1>4 DEF Contract!Compress

\* Every operator does what PageLooks asks of it.
LEMMA StepLooks == Sound(pdf) /\ [Next]_vars => [Contract!Next]_<<LooksOf(pdf), pdf.home, last>>
<1> SUFFICES ASSUME Sound(pdf), [Next]_vars
             PROVE  Contract!Next \/ UNCHANGED <<LooksOf(pdf), pdf.home, last>>
    OBVIOUS
<1>1. UserNames \subseteq Names
    BY DrawingAssumption DEF DrawingAssumption
<1>2. ASSUME NEW on \in SUBSET Pages, NEW tint \in Tints, NEW text \in Texts, NEW font \in Fonts,
             append_text_watermark(on, text, font, tint)
      PROVE  Contract!Next
    <2>1. Contract!Overlay(on, TextItem(text), font, tint, FALSE)
        BY <1>2, TextPaints
    <2> QED  BY <2>1 DEF Contract!Next
<1>3. ASSUME NEW on \in SUBSET Pages, NEW tint \in Tints, NEW picture \in Pictures,
             \/ append_image_watermark(on, picture, tint)
             \/ append_svg_watermark(on, picture, tint)
      PROVE  Contract!Next
    <2>1. PICK name \in Names : Contract!Overlay(on, DoItem(name, TRUE), picture, tint, FALSE)
        BY <1>3, OverlayPaints
    <2> QED  BY <2>1 DEF Contract!Next
<1>10. ASSUME NEW on \in SUBSET Pages, NEW tint \in Tints, NEW picture \in Pictures, NEW place \in Places,
              append_pdf_page_overlay(on, picture, tint, place)
       PROVE  Contract!Next
    <2>1. PICK hidden \in BOOLEAN : Contract!Overlay(on, DoItem("OxPdfOverlay", TRUE), picture, tint, hidden)
        BY <1>10, PageOverlayPaints
    <2>2. "OxPdfOverlay" \in Names
        BY DrawingAssumption DEF DrawingAssumption
    <2> QED  BY <2>1, <2>2 DEF Contract!Next
<1>4. ASSUME NEW name \in UserNames, delete_image_resource(name)
      PROVE  Contract!Next
    BY <1>1, <1>4, DeletePaints DEF Contract!Next
<1>5. ASSUME NEW name \in UserNames, NEW picture \in Pictures, replace_image_resource(name, picture)
      PROVE  Contract!Next
    <2>1. PICK gone \in SUBSET (Pictures \cup {Nothing}) : Contract!ReplaceImage(name, picture, gone)
        BY <1>1, <1>5, ReplacePaints
    <2>2. None \notin Pictures \cup {Nothing}
        BY DrawingAssumption DEF DrawingAssumption
    <2> QED  BY <2>1, <2>2 DEF Contract!Next
<1>6. ASSUME NEW name \in UserNames, NEW picture \in Pictures, NEW p \in Pages, add_image_to_page(p, name, picture)
      PROVE  Contract!Next
    <2>1. Contract!AddImage(p, DoItem(name, TRUE), picture)
        BY <1>1, <1>6, AddImagePaints
    <2> QED  BY <1>1, <2>1 DEF Contract!Next
<1>7. ASSUME NEW on \in SUBSET Pages, NEW plan \in ColorPlans, rewrite_page_colors(on, plan)
      PROVE  Contract!Next
    <2>1. Contract!EditColors(on, plan)
        BY <1>7, ColorsPaint
    <2> QED  BY <2>1 DEF Contract!Next
<1>8. ASSUME NEW mode \in {"lossless", "lossy"}, compress_on_document(mode)
      PROVE  Contract!Next
    BY <1>8, CompressPaints DEF Contract!Next
<1>9. UNCHANGED vars => UNCHANGED <<LooksOf(pdf), pdf.home, last>>
    BY DEF vars, LooksOf, Mark, InForce, Picture
<1> QED  BY <1>2, <1>3, <1>4, <1>5, <1>6, <1>7, <1>8, <1>9, <1>10 DEF Next

\* Whatever documents there are and whatever operators run: each paints,
\* replaces, removes or recolours what it was asked to on the pages it was asked
\* to, and changes no other mark but those that PageLooks excepts: marks painted
\* with resources that a page inherits and loses, marks with a name or an opacity
\* in common with the new one, marks that showed an image that is replaced, and
\* what a page laid over others draws with resources inside its parent.
THEOREM DrawingImplementsLooks == Spec => ImplementsLooks
<1>1. Init => Sound(pdf)
    BY OriginalsSound DEF Init
<1>2. Sound(pdf) /\ [Next]_vars => Sound(pdf)'
    BY StepSound
<1>3. Init => Contract!Init
    BY DEF Init, Contract!Init
<1>4. Sound(pdf) /\ [Next]_vars => [Contract!Next]_<<LooksOf(pdf), pdf.home, last>>
    BY StepLooks
<1> QED  BY <1>1, <1>2, <1>3, <1>4, PTL DEF Spec, ImplementsLooks, Contract!Spec
=============================================================================
