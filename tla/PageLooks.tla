----------------------------- MODULE PageLooks -----------------------------
(***************************************************************************)
(* What the operators that draw promise of the look of the pages: the      *)
(* marks of a page in the order they are painted, each with the thing it   *)
(* shows and the opacity it is painted with.                               *)
(*                                                                         *)
(* An operator changes what it was asked to change and no more, but for    *)
(* four weaknesses of the program, which the promise names where they      *)
(* happen:                                                                 *)
(*   - a page that draws with the resources of its parent loses them all   *)
(*     with the first edit that gives it some of its own (Left);           *)
(*   - names and opacity belong to a dictionary, so the program's new mark *)
(*     changes its earlier ones on every page with the same (Reached);     *)
(*   - a replaced image may also change marks that showed the same picture *)
(*     elsewhere (ReplaceImage);                                           *)
(*   - a page laid over others shows nothing of what it draws with         *)
(*     resources if these are in its parent (Seen).                        *)
(***************************************************************************)
EXTENDS Naturals, Sequences

CONSTANTS FirstLooks, \* the pages of the original documents
          Pages, Root, Names, Things, Tints, Plans, None,
          Nothing,    \* what a form without its resources shows
          Brushes     \* the items that the program paints with

VARIABLES looks,    \* page |-> sequence of marks
          home,     \* page, or the node above |-> which resources it has, if any
          done      \* the last operator

Init == <<looks, home>> \in FirstLooks /\ done = <<"none">>

Inherits == {p \in Pages : home[p] = None}
Given(on) == on \cap Inherits
From(p) == IF home[p] = None THEN home[Root] ELSE home[p]

\* A page without resources of its own gets empty ones.
Supplied(on) == home' = [n \in DOMAIN home |-> IF n \in Given(on) THEN n ELSE home[n]]

\* A mark that a page paints with a resource is gone with it.
Blank(mark) == [item |-> mark.item, shows |-> None, tint |-> None]
Left(p, on, mark) == IF p \in Given(on) THEN Blank(mark) ELSE mark

\* The pages with a dictionary that is edited for those in on.
Reached(on) == on \cup {p \in Pages : From(p) \in {From(q) : q \in on \ Inherits}}

Alike(item, other) == item.kind = other.kind /\ item.of = other.of

\* Pages get one more mark; the name it is painted with, and with tinting the
\* opacity, are defined anew for the earlier marks that go by them.
Painted(on, item, thing, tinting, tint) ==
    /\ Supplied(on)
    /\ \A p \in Pages :
         LET olds == looks[p]  news == looks'[p]  anew == p \in Reached(on) IN
         /\ Len(news) = Len(olds) + (IF p \in on THEN 1 ELSE 0)
         /\ \A k \in 1..Len(olds) :
              LET old == Left(p, on, olds[k])  new == news[k] IN
              /\ new.item = old.item
              /\ new.shows = IF anew /\ Alike(old.item, item) THEN thing ELSE old.shows
              /\ new.tint = IF anew /\ old.item.tinted /\ tinting THEN tint ELSE old.tint
    /\ \A p \in on : LET top == looks'[p][Len(looks'[p])] IN
         /\ top.item = item /\ top.shows = thing
         /\ tinting /\ item.tinted => top.tint = tint

\* What is seen of a page that is laid over others and draws with resources that
\* are out of sight.
Seen(thing, hidden) == IF hidden THEN Nothing ELSE thing

\* The pages asked for, and no others, get the mark asked for on top.
Overlay(on, item, thing, tint, hidden) ==
    /\ done' = <<"overlay", on, item, thing, tint, hidden>>
    /\ Painted(on, item, Seen(thing, hidden), TRUE, tint)

\* An added image takes whatever opacity the page has from an earlier overlay.
AddImage(p, item, thing) ==
    /\ done' = <<"add image", p, item, thing>>
    /\ Painted({p}, item, thing, FALSE, None)

\* What pages paint under the name shows the new image.  gone is what there was
\* under the name: another mark that showed the same may change with it, no other.
ReplaceImage(name, thing, gone) ==
    /\ done' = <<"replace image", name, thing, gone>>
    /\ home' = home
    /\ \A p \in Pages :
         /\ Len(looks'[p]) = Len(looks[p])
         /\ \A k \in 1..Len(looks[p]) :
              LET old == looks[p][k]
                  new == looks'[p][k]
                  replaced == [old EXCEPT !.shows = thing]
                  named == old.item.kind = "do" /\ old.item.of = name /\ p \notin Inherits
              IN  \/ new = replaced /\ old.item.kind = "do" /\ old.shows \in gone
                  \/ new = old /\ (named => old.shows = None)

\* Nothing is painted under the name any more, on any page.
DeleteImage(name) ==
    /\ done' = <<"delete image", name>>
    /\ Supplied(Pages)
    /\ looks' = [p \in Pages |-> [k \in DOMAIN looks[p] |->
                    LET mark == looks[p][k] IN
                    IF p \in Inherits THEN Blank(mark)
                    ELSE IF mark.item.kind = "do" /\ mark.item.of = name
                    THEN [mark EXCEPT !.shows = None] ELSE mark]]

\* Colours change on the pages asked for, all in one way.
EditColors(on, plan) ==
    /\ done' = <<"edit colors", on, plan>>
    /\ home' = home
    /\ looks' = [p \in Pages |-> [k \in DOMAIN looks[p] |->
                    LET mark == looks[p][k] IN
                    IF p \in on /\ mark.item.kind = "rgb"
                    THEN [mark EXCEPT !.item.level = plan[@]] ELSE mark]]

\* A smaller file looks the same (up to the quality asked for).
Compress(mode) == done' = <<"compress", mode>> /\ UNCHANGED <<looks, home>>

Next ==
    \/ \E on \in SUBSET Pages, item \in Brushes, thing \in Things, tint \in Tints, hidden \in BOOLEAN :
          Overlay(on, item, thing, tint, hidden)
    \/ \E p \in Pages, item \in Brushes, thing \in Things : AddImage(p, item, thing)
    \/ \E name \in Names, thing \in Things, gone \in SUBSET (Things \ {None}) :
          ReplaceImage(name, thing, gone)
    \/ \E name \in Names : DeleteImage(name)
    \/ \E on \in SUBSET Pages, plan \in Plans : EditColors(on, plan)
    \/ \E mode \in {"lossless", "lossy"} : Compress(mode)

Spec == Init /\ [][Next]_<<looks, home, done>>
=============================================================================
