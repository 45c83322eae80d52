------------------------------ MODULE UnitLeaks ------------------------------
(***************************************************************************)
(* Which tokens ast_destroy leaves, node by node.  For TLC only: the       *)
(* definitions recurse over trees.                                         *)
(***************************************************************************)
EXTENDS Unit, ParserGrammar

(* Of the tokens of a tree, exactly those below a statement whose parts     *)
(* ast_destroy leaves are never freed; all others are (unit_destroy).       *)
DestroyedExactly ==
  phase = "over" =>
    /\ cache = 0
    /\ ToSet(Leaves(tree)) \cap held =
         {t \in UNION {ToSet(Leaves(node)) : node \in {n \in Nodes(tree) : n.kind \in Left}} :
            KindOf(t) \notin TypeSpecs}
=============================================================================
