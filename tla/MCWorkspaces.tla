---------------------------- MODULE MCWorkspaces ----------------------------
(* A first start, and a start from two saved workspaces: one with two      *)
(* regions of two tabs and one tab, the other with one terminal.           *)
EXTENDS Workspaces

CONSTANTS w1, w2, file, diff

T(t, v) == [id |-> t, view |-> v, session |-> None, pending |-> FALSE]

FirstStart == [order |-> <<w1>>, active |-> w1, fresh |-> 1, saved |-> <<>>]
TwoSaved ==
  [order |-> <<w1, w2>>, active |-> w1, fresh |-> 4,
   saved |-> w1 :> [layout |-> <<1, 2>>, focused |-> 1,
                    regions |-> 1 :> [tabs |-> <<T(1, Terminal), T(2, file)>>, activeTabId |-> 1]
                             @@ 2 :> [tabs |-> <<T(3, file)>>, activeTabId |-> 3]]
          @@ w2 :> [layout |-> <<3>>, focused |-> 3,
                    regions |-> 3 :> [tabs |-> <<T(4, Terminal)>>, activeTabId |-> 4]]]
TheBoots == {FirstStart, TwoSaved}
=============================================================================
