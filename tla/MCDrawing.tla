----------------------------- MODULE MCDrawing -----------------------------
(* Two pages that keep their resources in each way there is.                 *)
EXTENDS Drawing, TLC

XObjects(place, names) ==
    [NoResources EXCEPT !.xobject = place,
        !.x = [n \in Names |-> IF n \in DOMAIN names THEN names[n] ELSE None]]
Padded(some) == [id \in Ids |-> IF id \in DOMAIN some THEN some[id] ELSE NoStream]
Plain(kind, of, level) == [kind |-> kind, of |-> of, text |-> "", level |-> level, tinted |-> FALSE]
Home(first, second, above) == "p1" :> first @@ "p2" :> second @@ "root" :> above
Kept(some) == [h \in Holders |-> IF h \in DOMAIN some THEN some[h] ELSE NoResources]

Twice == Padded(1 :> Image("a") @@ 2 :> Image("a"))
Apart == Padded(1 :> Image("a") @@ 2 :> Image("b"))
Masked == Padded(1 :> [Image("a") EXCEPT !.plain = FALSE] @@ 2 :> Image("a"))
Inner == Padded(1 :> Form(None, 2) @@ 2 :> Image("a"))
Nested == Padded(1 :> Form(None, 3) @@ 2 :> Form(None, 4) @@ 3 :> Image("a") @@ 4 :> Image("a"))

Shared == XObjects("inline", "Im" :> 1)
Other == XObjects("inline", "Im" :> 2)
\* Each page with an image of its own; both with one dictionary; one or both
\* with that of the parent, which is inside the Pages node or an object.
Layouts ==
    {[home |-> Home("p1", "p2", None), dicts |-> Kept("p1" :> Shared @@ "p2" :> Other)],
     [home |-> Home("d", "d", None), dicts |-> Kept("d" :> Shared)],
     [home |-> Home("p1", None, "d"), dicts |-> Kept("p1" :> Shared @@ "d" :> Other)],
     [home |-> Home("p1", None, "root"), dicts |-> Kept("p1" :> Shared @@ "root" :> Other)],
     [home |-> Home("d", None, None), dicts |-> Kept("d" :> XObjects("ref", "Im" :> 1))]}

Painting == <<Plain("rgb", "", 1), Plain("do", "Im", 0)>>
Doc(layout, streams, second) ==
    [home |-> layout.home, dicts |-> layout.dicts, streams |-> streams,
     contents |-> "p1" :> Painting @@ "p2" :> second, sized |-> Pages, odd |-> FALSE]

Apiece == [home |-> Home("p1", "p2", None), dicts |-> Kept("p1" :> Shared @@ "p2" :> Other)]

\* An image watermark of an earlier run, on the dictionary of both pages.
Watermarked ==
    LET res == [XObjects("inline", "Im" :> 1 @@ "OxWmIm" :> 2) EXCEPT !.tint = "half"]
        doc == Doc([home |-> Home("d", "d", None), dicts |-> Kept("d" :> res)], Apart, Painting)
    IN  [doc EXCEPT !.contents["p1"] = Append(@, DoItem("OxWmIm", TRUE))]

SomeDocuments ==
    {Doc(layout, streams, Painting) : layout \in Layouts, streams \in {Twice, Apart, Masked}}
    \cup {[Doc(layout, Twice, <<Plain("gray", "", 0), Plain("do", "Im", 0)>>) EXCEPT
            !.sized = {"p1"}, !.odd = TRUE] : layout \in Layouts}
    \cup {Doc(Apiece, Inner, Painting), Doc(Apiece, Nested, Painting), Watermarked}
=============================================================================
