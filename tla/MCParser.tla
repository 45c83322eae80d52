------------------------------ MODULE MCParser ------------------------------
(***************************************************************************)
(* Small instances of Parser.  A sort is a set of token kinds and a length;*)
(* a run takes all token sequences over the kinds of one of its sorts, of  *)
(* at most that length.  The end of the file may come anywhere.            *)
(***************************************************************************)
EXTENDS ParserGrammar

CONSTANT Sorts

SortKinds == UNION {sort.kinds : sort \in Sorts}

(* The tokens scanned so far are of one sort.                               *)
MCBound(tokens) ==
  \E sort \in Sorts :
    /\ Len(tokens) <= sort.length
    /\ \A i \in DOMAIN tokens : tokens[i].kind \in sort.kinds

Sort(kinds, length) == [kinds |-> kinds, length |-> length]

(* Operators of three strengths; conditionals in conditionals; what         *)
(* brackets enclose; and every sort of expression, the broken ones too.     *)
ExpressionSorts ==
  {Sort({"num", "+", "*", "<", ";"}, 6),
   Sort({"num", "?", ":", ";"}, 10),
   Sort({"num", "-", "(", ")", ";"}, 6),
   Sort({"num", "id", "=", ".", "[", "]", "++", "-", "?", ":", "(", ")", ";", ","}, 4)}

(* An else for two ifs; blocks, declarations and for, once with room for a  *)
(* whole for with a declaration; the other statements; and statements with  *)
(* brackets and assignments in their expressions.                           *)
StatementSorts ==
  {Sort({"if", "else", "(", ")", "num", ";"}, 13),
   Sort({"for", "{", "}", "(", ")", ";", "int"}, 8),
   Sort({"for", "(", ")", ";", "int", "break"}, 9),
   Sort({"if", "do", "while", "switch", "case", "default", "return", "break", "continue",
         "goto", ":", "(", ")", "num", ";"}, 7),
   Sort({"if", "do", "for", "{", "}", "(", ")", "[", "]", "?", ":", "=", "num", ";"}, 4)}

(* Assignments.                                                             *)
AssignSorts == {Sort({"num", "=", ";"}, 5)}
=============================================================================
