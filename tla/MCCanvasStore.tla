--------------------------- MODULE MCCanvasStore ---------------------------
(* A shape, an arrow and a container in a saved drawing, one more shape   *)
(* and container to add, and a draw.io file whose cell has the id of the   *)
(* first shape.                                                            *)
EXTENDS CanvasStore

CONSTANTS s1, s2, a1, c1, c2, L0, L1, g1

Kinds == s1 :> "shape" @@ s2 :> "shape" @@ a1 :> "arrow" @@ c1 :> "container"
         @@ c2 :> "container"

E(at, bound) == [at |-> at, look |-> 0, bound |-> bound, parent |-> None,
                 layer |-> L0, clip |-> FALSE]

Drawing == [doc   |-> s1 :> E(0, None) @@ a1 :> E(0, s1) @@ c1 :> E(1, None),
            order |-> <<c1, s1, a1>>]
Cells   == [doc |-> s1 :> E(1, None), order |-> <<s1>>]
TheFiles == {Drawing, Cells}
=============================================================================
