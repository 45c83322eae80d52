--------------------------- MODULE MCTokenStream ----------------------------
(***************************************************************************)
(* Small instances of TokenStream: two sources, so that one is registered  *)
(* while the other is open, ended or ended by a lookahead.                 *)
(***************************************************************************)
EXTENDS TokenStream

CONSTANT MaxRead \* bound: tokens scanned before only EOF is left

MCBound(tokens) == Len(tokens) <= MaxRead
=============================================================================
