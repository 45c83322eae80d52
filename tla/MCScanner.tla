----------------------------- MODULE MCScanner ------------------------------
(***************************************************************************)
(* Small instances of Scanner.  A sort is a set of characters and a length;*)
(* the run takes all texts over the characters of one of the sorts, of at  *)
(* most that length.                                                       *)
(***************************************************************************)
EXTENDS Scanner

Seqs == INSTANCE SequencesExt

(* Numbers, decimal, octal, hexadecimal and broken ones; operators of one,  *)
(* two and three characters; white space and comments; words and keywords;  *)
(* and characters no token begins with.                                     *)
MCTexts ==
  UNION {Seqs!BoundedSeq({"0", "1", "8", "x", ".", "e", "p", "f", "-"}, 4),
         Seqs!BoundedSeq({"0", "1", ".", "x", "p"}, 5),
         Seqs!BoundedSeq({"<", ">", "=", "-", "+", "!"}, 4),
         Seqs!BoundedSeq(OpChar, 2),
         Seqs!BoundedSeq({" ", "\n", "\r", "\t", "/", "*", "a"}, 4),
         Seqs!BoundedSeq({"i", "f", "d", "o", "_", "1", " "}, 4),
         Seqs!BoundedSeq({"#", "@", "'", "a", "1", "\n", "+"}, 3)}

MCKeywords ==
  {<<"i", "f">>, <<"d", "o">>, <<"d", "o", "u", "b", "l", "e">>, <<"_", "B", "o", "o", "l">>}
=============================================================================
