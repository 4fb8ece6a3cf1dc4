------------------------------ MODULE PageList ------------------------------
(***************************************************************************)
(* What the page operations promise: a PDF is a sequence of pages, and an  *)
(* operation selects, orders, joins or decorates them.  No object ids, no  *)
(* page tree, no saving and loading in between.                            *)
(*                                                                         *)
(* A page is what it draws, as a sequence of marks, and what is set on it  *)
(* itself; None is the box of a page that has none of its own.             *)
(***************************************************************************)
EXTENDS Integers, SequencesExt, FiniteSets

CONSTANTS
    Slots,      \* the artifacts of the workflow
    Documents,  \* what they may hold at first
    Orders,     \* the sequences of page numbers that may be asked for
    None        \* no box

VARIABLES
    lists,   \* slot -> Seq([marks, turn, box, crop])
    done     \* the operation last done, and on which slot

listVars == <<lists, done>>

Init ==
    /\ lists \in [Slots -> Documents]
    /\ done = <<"none">>

Pages(s) == 1..Len(lists[s])
Choose(s, order) == lists' = [lists EXCEPT ![s] = [k \in DOMAIN order |-> @[order[k]]]]

\* A request names pages of the document, none twice.
Requests(s) == {order \in Orders : order # <<>> /\ Range(order) \subseteq Pages(s) /\ IsInjective(order)}
RequestsOrAll(s) == Requests(s) \cup {[p \in Pages(s) |-> p]}

\* The members of S, the least first.
InOrder(S) ==
    CHOOSE order \in [1..Cardinality(S) -> S] :
        \A j, k \in DOMAIN order : j < k => order[j] < order[k]

Select(s) == \E order \in Requests(s) : Choose(s, order)

\* At least one page stays, and the order of the rest is kept.
Drop(s) ==
    \E order \in Requests(s) :
        /\ Range(order) # Pages(s)
        /\ Choose(s, InOrder(Pages(s) \ Range(order)))

\* Blank pages go; which these are is a question of marks.
DropBlank(s) ==
    \E kept \in (SUBSET Pages(s)) \ {{}, Pages(s)} :
        /\ \A p \in Pages(s) \ kept : lists[s][p].marks = <<>>
        /\ Choose(s, InOrder(kept))

Change(s, some, Changed(_, _)) ==
    lists' = [lists EXCEPT ![s] = [p \in Pages(s) |-> IF p \in some THEN Changed(@[p], p) ELSE @[p]]]

Turn(s) ==
    \E order \in Requests(s), degrees \in {90, 180, 270} :
        Change(s, Range(order), LAMBDA page, p : [page EXCEPT !.turn = (@ + degrees) % 360])

Crop(s) ==
    \E order \in RequestsOrAll(s) : Change(s, Range(order), LAMBDA page, p : [page EXCEPT !.crop = TRUE])

Scale(s) ==
    \E order \in RequestsOrAll(s) :
        Change(s, Range(order), LAMBDA page, p : [page EXCEPT !.box = IF @ = None THEN None ELSE 2 * @,
                                                      !.marks = <<<<"scaled", 2>>>> \o @])

\* Consecutive numbers on the pages asked for, in the order asked for.
Number(s) ==
    \E order \in RequestsOrAll(s), first \in 1..2 :
        Change(s, Range(order), LAMBDA page, p :
            LET k == CHOOSE i \in DOMAIN order : order[i] = p IN
            [page EXCEPT !.marks = Append(@, <<"number", first + k - 1>>)])

Blank(box) == [marks |-> <<>>, turn |-> 0, box |-> box, crop |-> FALSE]

\* All pages on one, stacked from the top: page p starts where the heights of
\* the pages behind it end.
Fuse(s) ==
    LET heights == [p \in Pages(s) |-> lists[s][p].box]
        below(p) == SumFunctionOnSet(heights, (p + 1)..Len(lists[s]))
        placed == [p \in Pages(s) |-> <<<<"at", below(p)>>>> \o lists[s][p].marks]
    IN  /\ Len(lists[s]) > 1
        /\ lists' = [lists EXCEPT ![s] =
               <<[@[1] EXCEPT !.marks = FlattenSeq(placed), !.crop = TRUE,
                              !.box = SumFunctionOnSet(heights, Pages(s))]>>]

\* A sheet shows its pages side by side, each in the cell that is its turn.
Sheet(s, pages) ==
    [Blank(lists[s][1].box) EXCEPT
        !.crop = TRUE,
        !.marks = FlattenSeq([k \in DOMAIN pages |->
            IF pages[k] \in Pages(s) THEN <<<<"cell", k>>>> \o lists[s][pages[k]].marks ELSE <<>>])]

\* Sheet n shows the n-th run of `cells` pages.
NUp(s) ==
    \E cells \in 1..2 : \E sheets \in Pages(s) :
        /\ (sheets - 1) * cells < Len(lists[s]) /\ Len(lists[s]) <= sheets * cells
        /\ lists' = [lists EXCEPT ![s] =
               [n \in 1..sheets |-> Sheet(s, [k \in 1..cells |->
                    IF (n - 1) * cells + k <= Len(lists[s]) THEN (n - 1) * cells + k ELSE 0])]]

\* Sheets printed on both sides, folded and nested, read in page order: leaf i
\* of the booklet has page 2i - 1 on its front and page 2i on its back, and the
\* two leaves of one sheet are as far from the ends.
Booklet(s) ==
    \E sheets \in Pages(s) :
        /\ 4 * (sheets - 1) < Len(lists[s]) /\ Len(lists[s]) <= 4 * sheets
        /\ Len(lists[s]) > 1
        /\ lists' = [lists EXCEPT ![s] =
               [n \in 1..(2 * sheets) |->
                    LET leaf == (n + 1) \div 2
                        mirror == 2 * sheets + 1 - leaf
                    IN  Sheet(s, IF n % 2 = 1 THEN <<2 * mirror, 2 * leaf - 1>>
                                 ELSE <<2 * leaf, 2 * mirror - 1>>)]]

Join(s) ==
    \E other \in {lists[t] : t \in Slots} \cup Documents :
        \/ lists' = [lists EXCEPT ![s] = @ \o other]
        \/ lists' = [lists EXCEPT ![s] = other \o @]

Step(s, op, Action(_)) == done' = <<op, s>> /\ Action(s)

Next ==
    \E s \in Slots :
        \/ Step(s, "keep", Select)
        \/ Step(s, "delete", Drop)
        \/ Step(s, "delete blank", DropBlank)
        \/ Step(s, "rotate", Turn)
        \/ Step(s, "crop", Crop)
        \/ Step(s, "scale", Scale)
        \/ Step(s, "number", Number)
        \/ Step(s, "single page", Fuse)
        \/ Step(s, "nup", NUp)
        \/ Step(s, "booklet", Booklet)
        \/ Step(s, "merge", Join)

Spec == Init /\ [][Next]_listVars
=============================================================================
