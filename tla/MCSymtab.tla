------------------------------ MODULE MCSymtab ------------------------------
(***************************************************************************)
(* Small instances of Symtab: x has two symbols, so that one hides or      *)
(* duplicates the other, and is a prefix of xy.  Besides the global and    *)
(* the tag scope there are two more, one in the other or side by side.     *)
(***************************************************************************)
EXTENDS Symtab, TLC

CONSTANTS v1, v2, v3

MCNameOf == (v1 :> "x") @@ (v2 :> "x") @@ (v3 :> "xy")
MCExtends == {<<"x", "x">>, <<"xy", "xy">>, <<"x", "xy">>}
=============================================================================
