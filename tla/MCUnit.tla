------------------------------- MODULE MCUnit --------------------------------
(***************************************************************************)
(* Small instances of Unit, over the token sequences of MCParser's sorts.  *)
(***************************************************************************)
EXTENDS UnitLeaks, MCParser

(* Operators; conditionals; declarations; a for that is not the last of a   *)
(* block; a do in a block; the other statements.                            *)
UnitSorts ==
  {Sort({"num", "+", "-", "++", "[", "]", ";"}, 6),
   Sort({"num", "?", ":", "if", "else", "(", ")", ";"}, 7),
   Sort({"for", "{", "}", "(", ")", ";", "int"}, 8),
   Sort({"for", "{", "}", "(", ")", ";", "num"}, 11),
   Sort({"do", "while", "(", ")", "num", ";", "{", "}"}, 8),
   Sort({"switch", "case", "default", "return", ":", "(", ")", "num", ";", "{", "}"}, 5)}
=============================================================================
