----------------------------- MODULE MCPageTree -----------------------------
(* Small documents: flat and nested trees, pages in and out of id order,    *)
(* keys on the pages or inherited.                                          *)
EXTENDS PageTree, TLC

PageOf(parent, rotate, box, resources, marks) ==
    [type |-> "Page", parent |-> parent, kids |-> <<>>, count |-> 0, rotate |-> rotate,
     box |-> box, crop |-> FALSE, resources |-> resources, marks |-> marks]
NodeOf(parent, rotate, box, resources, kids, count) ==
    [type |-> "Pages", parent |-> parent, kids |-> kids, count |-> count, rotate |-> rotate,
     box |-> box, crop |-> FALSE, resources |-> resources, marks |-> <<>>]

\* Three pages out of id order below one root; the second is blank.
Flat ==
    [root |-> 2, objects |->
        (2 :> NodeOf(0, None, None, None, <<5, 3, 4>>, 3)) @@
        (5 :> PageOf(2, None, 1, {"F"}, <<<<"A", 1>>>>)) @@
        (3 :> PageOf(2, 90, 2, None, <<>>)) @@
        (4 :> PageOf(2, None, 1, {"F"}, <<<<"A", 3>>>>))]

\* A page below a node whose id precedes the root's, and one beside it.
Nested ==
    [root |-> 7, objects |->
        (7 :> NodeOf(0, None, None, None, <<4, 1>>, 2)) @@
        (4 :> NodeOf(7, None, None, None, <<6>>, 1)) @@
        (6 :> PageOf(4, 270, 1, {}, <<>>)) @@
        (1 :> PageOf(7, None, 3, {"G"}, <<<<"B", 2>>>>))]

\* The root and a node carry what their pages need.
Inheriting ==
    [root |-> 1, objects |->
        (1 :> NodeOf(0, 90, 1, None, <<2, 5>>, 2)) @@
        (2 :> NodeOf(1, None, None, {"F"}, <<3>>, 1)) @@
        (3 :> PageOf(2, None, None, None, <<<<"C", 1>>>>)) @@
        (5 :> PageOf(1, 0, 1, {"F"}, <<<<"C", 2>>>>))]

Inherited == {Inheriting}
AllKinds == {Flat, Nested, Inheriting}

Specs == {<<>>, <<<<2, 2>>>>, <<<<1, 3>>>>, <<<<2, 2>>, <<1, 1>>>>, <<<<3, 3>>, <<1, 2>>>>,
          <<<<1, 2>>, <<2, 2>>>>, <<<<2, 1>>>>, <<<<0, 1>>>>}
Quarters == {90, -180, 0, 45}
=============================================================================
