----------------------------- MODULE MCBookmarks -----------------------------
(* A first start, and one with two folders, bookmarks in one of them and   *)
(* at the root, and commands whose indexes clash with theirs; and a file   *)
(* with a bookmark of a folder it does not have, and equal and negative    *)
(* indexes at the root and in a folder.                                    *)
EXTENDS Bookmarks

CONSTANTS p1, p2, p3, f1, f2, c1, c2, g1

MCPaths == {p1, p2, p3}
MCFolderIds == {f1, f2}
MCCommandIds == {c1, c2}
MCGroupIds == {g1}

At(c, k, n) == [in |-> c, at |-> k, row |-> n]

MCBoots == {
  <<>>,
  f1 :> At(None, 0, 0) @@ p1 :> At(f1, 0, 0) @@ p2 :> At(f1, 1, 1) @@ p3 :> At(None, 1, 2) @@
    f2 :> At(None, 3, 1) @@ c1 :> At(None, 1, 0) @@ c2 :> At(g1, 2, 1) @@ g1 :> At(None, 2, 0)}

MCImports == {
  p1 :> At(f2, 0, 0) @@ p2 :> At(None, -1, 1) @@ p3 :> At(None, -1, 2) @@ f1 :> At(None, -1, 0),
  p1 :> At(f1, 2, 1) @@ p2 :> At(f1, 2, 0) @@ f1 :> At(None, 0, 0)}
=============================================================================
