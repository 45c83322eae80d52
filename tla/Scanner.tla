------------------------------ MODULE Scanner -------------------------------
(***************************************************************************)
(* src/lexer.c, the scanner: lexer_internal over the text of one source,   *)
(* called by lexer_get until it has handed out the EOF.  A turn of the     *)
(* loop over white space and a turn of the loop over directives is a step; *)
(* scanning a token is one.  A text, a keyword and the kind of an operator *)
(* are sequences of characters; the character at the end of text is NUL.   *)
(* The keyword table answers as KeywordTable shows it does.                *)
(***************************************************************************)
EXTENDS Integers, Sequences, FiniteSets

CONSTANTS
  Texts,   \* the contents of the source
  Keywords \* the keys of the keyword table

Digit == {"0", "1", "2", "3", "4", "5", "6", "7", "8", "9"}
Octal == Digit \ {"8", "9"}
Hex == Digit \cup {"a", "b", "c", "d", "e", "f", "A", "B", "C", "D", "E", "F"}
Ident0 ==
  {"a", "b", "c", "d", "e", "f", "g", "h", "i", "j", "k", "l", "m",
   "n", "o", "p", "q", "r", "s", "t", "u", "v", "w", "x", "y", "z",
   "A", "B", "C", "D", "E", "F", "G", "H", "I", "J", "K", "L", "M",
   "N", "O", "P", "Q", "R", "S", "T", "U", "V", "W", "X", "Y", "Z", "_"}
Ident1 == Ident0 \cup Digit
Newline == {"\n", "\r"}
Blank == Newline \cup {" ", "\t"}

ASSUME TextAssumption == Texts \subseteq Seq(STRING)
ASSUME WordAssumption == \A word \in Keywords : word \in Seq(STRING) /\ word # <<>> /\ word[1] \in Ident0

VARIABLES
  text,    \* source->contents
  cursor,  \* source->cursor, as a position of text
  line,    \* source->line
  pc,      \* "idle", or where the running lexer_internal is
  status,  \* "new", "open" once registered, "ended" once popped, or "crash"
  tokens   \* what lexer_get returned

vars == <<text, cursor, line, pc, status, tokens>>

(* What may follow the first character of an operator; a second < or > may  *)
(* be followed by =.  Mutant: there is no ->.                               *)
SecondNoArrow(c) ==
  CASE c \in {"+", "-", "&", "|", "<", ">"} -> {c, "="}
    [] c \in {"*", "/", "%", "!", "^", "="} -> {"="}
    [] OTHER -> {}
Second(c) ==
  CASE c = "-" -> {"-", "=", ">"}
    [] c \in {"+", "&", "|", "<", ">"} -> {c, "="}
    [] c \in {"*", "/", "%", "!", "^", "="} -> {"="}
    [] OTHER -> {}
OpChar ==
  {"+", "-", "&", "|", "<", ">", "*", "/", "%", "!", "^", "=",
   "~", ";", ":", ",", "(", ")", "[", "]", "{", "}", ".", "?"}
(* The kind of an operator and of a keyword is its spelling, but the !     *)
(* alone gets the kind of ~.                                          *)
OpKind(op) == IF op = <<"!">> THEN <<"~">> ELSE op

EOF == <<"eof">>
INTEGER == <<"integer">>
FLOAT == <<"float">>
IDENTIFIER == <<"identifier">>

Char(i) == IF i > Len(text) THEN "NUL" ELSE text[i]
Span(i, j) == SubSeq(text, i, j - 1)
RunEnd(i, chars) ==
  CHOOSE j \in i .. Len(text) + 1 :
    Char(j) \notin chars /\ \A k \in i .. j - 1 : Char(k) \in chars

Init ==
  /\ text \in Texts
  /\ cursor = 1 /\ line = 1
  /\ pc = "idle" /\ status = "new"
  /\ tokens = <<>>

Register ==
  /\ status = "new"
  /\ status' = "open"
  /\ UNCHANGED <<text, cursor, line, pc, tokens>>

Give(kind, end, length, at) ==
  /\ tokens' = Append(tokens, [kind |-> kind, loc |-> cursor, length |-> length, line |-> at])
  /\ cursor' = end
  /\ pc' = "idle"
  /\ UNCHANGED <<text, line>>

(* lexer_get pops and destroys the source with its EOF.  Mutant: it stays.  *)
EndStays == Give(EOF, cursor, 0, line) /\ UNCHANGED status
End == Give(EOF, cursor, 0, line) /\ status' = "ended"

Get ==
  /\ status = "open" /\ pc = "idle"
  /\ \/ /\ Char(cursor) = "NUL"
        /\ End
     \/ /\ Char(cursor) # "NUL"
        /\ pc' = "skip"
        /\ UNCHANGED <<text, cursor, line, status, tokens>>
-----------------------------------------------------------------------------
(* lexer_skip.  For a comment the character after / would have to be * and  *)
(* / at once, so lexer_comment is never called and a comment is scanned.    *)
(* Mutants: the cursor stays at \t; \r is no line.                          *)
PastStuck(c) == IF c = "\t" THEN cursor ELSE cursor + 1
Past(c) == cursor + 1
LinesUnix(c) == IF c = "\n" THEN 1 ELSE 0
Lines(c) == IF c \in Newline THEN 1 ELSE 0
CommentBegins == Char(cursor) = "/" /\ Char(cursor + 1) = "*" /\ Char(cursor + 1) = "/"

Skip ==
  /\ pc = "skip"
  /\ \/ /\ Char(cursor) \in Blank
        /\ cursor' = Past(Char(cursor))
        /\ line' = line + Lines(Char(cursor))
        /\ UNCHANGED pc
     \/ /\ Char(cursor) \notin Blank /\ ~CommentBegins
        /\ pc' = "scan"
        /\ UNCHANGED <<cursor, line>>
  /\ UNCHANGED <<text, status, tokens>>

(* preprocess_directive has an empty body.                                  *)
Directive ==
  /\ pc = "scan" /\ Char(cursor) = "#"
  /\ pc' = "skip"
  /\ UNCHANGED <<text, cursor, line, status, tokens>>
-----------------------------------------------------------------------------
(* Numbers                                                                  *)

IsNumconst ==
  \/ Char(cursor) \in Digit
  \/ Char(cursor) = "." /\ Char(cursor + 1) \in Digit
IsHex(i) == Char(i) = "0" /\ Char(i + 1) \in {"x", "X"}
Base ==
  IF IsHex(cursor) THEN 16
  ELSE IF Char(cursor) = "0" /\ Char(cursor + 1) \in Digit THEN 8 ELSE 10

(* Where strtol and strtod stop.  The x of 0x needs a hexadecimal digit     *)
(* after it; an exponent needs a digit.                                     *)
Strtol ==
  CASE Base = 10 -> RunEnd(cursor, Digit)
    [] Base = 8 -> RunEnd(cursor, Octal)
    [] Base = 16 -> IF Char(cursor + 2) \in Hex THEN RunEnd(cursor + 2, Hex) ELSE cursor + 1

Mantissa ==
  LET digits == IF IsHex(cursor) THEN Hex ELSE Digit
      point == RunEnd(IF IsHex(cursor) THEN cursor + 2 ELSE cursor, digits)
  IN  IF Char(point) = "." THEN RunEnd(point + 1, digits) ELSE point
Strtod ==
  LET signed == Char(Mantissa + 1) \in {"+", "-"}
      exponent == Mantissa + (IF signed THEN 2 ELSE 1)
      marks == IF IsHex(cursor) THEN {"p", "P"} ELSE {"e", "E"}
  IN  IF Char(Mantissa) \in marks /\ Char(exponent) \in Digit THEN RunEnd(exponent, Digit)
      ELSE Mantissa

(* The value of the digits before end; exponents are in the range of double.*)
IsZero(end) == \A i \in cursor .. end - 1 : Char(i) \in {"0", "x", "X", "."}

(* An integer that is 0 is never taken for a float, whatever follows.       *)
IsFloat ==
  \/ Char(cursor) = "."
  \/ ~IsZero(Strtol) /\ Char(Strtol) \in {".", "p", "P"}

Integer ==
  /\ pc = "scan" /\ IsNumconst /\ ~IsFloat
  /\ Give(INTEGER, Strtol, Strtol - cursor, line)
  /\ UNCHANGED status

(* The suffix is no part of the token, and its line is not set.  For zero   *)
(* lexer_floatconst answers NULL, whose kind lexer_get reads.               *)
Float ==
  /\ pc = "scan" /\ IsNumconst /\ IsFloat
  /\ \/ /\ ~IsZero(Mantissa)
        /\ LET suffix == IF Char(Strtod) \in {"l", "L", "f", "F"} THEN 1 ELSE 0
           IN  Give(FLOAT, Strtod + suffix, Strtod - cursor, 0)
        /\ UNCHANGED status
     \/ /\ IsZero(Mantissa)
        /\ status' = "crash" /\ pc' = "idle"
        /\ UNCHANGED <<text, cursor, line, tokens>>
-----------------------------------------------------------------------------
(* Identifiers, keywords, operators.  A keyword is found; any other prefix  *)
(* of one may be found or not.                                              *)
WordEnd == RunEnd(cursor, Ident1)
Prefixes(word) == {SubSeq(word, 1, n) : n \in 1 .. Len(word)}
Kinds(word) ==
  IF word \in Keywords THEN {word}
  ELSE {IDENTIFIER} \cup {k \in Keywords : word \in Prefixes(k)}

Identifier ==
  /\ pc = "scan" /\ Char(cursor) \in Ident0
  /\ \E kind \in Kinds(Span(cursor, WordEnd)) :
       Give(kind, WordEnd, WordEnd - cursor, line)
  /\ UNCHANGED status

OpLength ==
  LET c == Char(cursor)
  IN  IF Char(cursor + 1) \notin Second(c) THEN 1
      ELSE IF c \in {"<", ">"} /\ Char(cursor + 1) = c /\ Char(cursor + 2) = "=" THEN 3
      ELSE 2

(* What no token begins with is the end of the source.                      *)
OpSep ==
  /\ pc = "scan" /\ ~IsNumconst
  /\ \/ /\ Char(cursor) \in OpChar
        /\ Give(OpKind(Span(cursor, cursor + OpLength)), cursor + OpLength, OpLength, line)
        /\ UNCHANGED status
     \/ /\ Char(cursor) \notin OpChar \cup Ident0 \cup {"#"}
        /\ End

Next == Register \/ Get \/ Skip \/ Directive \/ Integer \/ Float \/ Identifier \/ OpSep

Spec == Init /\ [][Next]_vars

(* The client asks for tokens until it gets the EOF.                        *)
FairSpec == Spec /\ WF_vars(Next)
-----------------------------------------------------------------------------
(* What token.h lists, by spelling.                                         *)
ELLIPSIS == <<".", ".", ".">>
Operators ==
  {<<c>> : c \in OpChar \ {"!"}} \cup {ELLIPSIS}
    \cup {<<c, "=">> : c \in {"=", "!", ">", "<", "+", "-", "*", "/", "%", "&", "|", "^"}}
    \cup {<<c, c>> : c \in {"&", "|", "<", ">", "+", "-"}}
    \cup {<<"-", ">">>, <<"<", "<", "=">>, <<">", ">", "=">>}
Words == {IDENTIFIER} \cup Keywords
Numbers == {INTEGER, FLOAT}

BeginsAt(w, at) == at + Len(w) <= Len(text) + 1 /\ Span(at, at + Len(w)) = w
Occurs(w) == \E i \in 1 .. Len(text) : BeginsAt(w, i)
LineAt(at) == 1 + Cardinality({i \in 1 .. at - 1 : Char(i) \in Newline})
Behind(t) == t.loc + t.length

(* Between two tokens there is nothing but white space and the suffix of a  *)
(* float, a comment not excepted; the EOF is at the end or where no token   *)
(* begins.  A token has the line it is on, of the lines that \n and \r      *)
(* each end; a float has none.                                              *)
Placed(n) ==
  LET t == tokens[n]
      begin == IF n = 1 THEN 1 ELSE Behind(tokens[n - 1])
      suffixed == n > 1 /\ tokens[n - 1].kind = FLOAT /\ Char(begin) \in {"l", "L", "f", "F"}
  IN  /\ begin <= t.loc
      /\ \A i \in begin .. t.loc - 1 : Char(i) \in Blank \/ (i = begin /\ suffixed)
      /\ t.kind = EOF => Char(t.loc) \notin Ident1 \cup OpChar
      /\ t.line = IF t.kind = FLOAT THEN 0 ELSE LineAt(t.loc)
TokensPlaced == \A n \in DOMAIN tokens : Placed(n)

(* The numbers of C without their suffixes, said of text[i .. j - 1]; the   *)
(* exponent of a hexadecimal one is optional, as it is for strtod.          *)
Within(i, j, chars) == \A k \in i .. j - 1 : Char(k) \in chars
IsInteger(i, j) ==
  /\ i < j
  /\ \/ Char(i) # "0" /\ Within(i, j, Digit)
     \/ Char(i) = "0" /\ Within(i, j, Octal)
     \/ IsHex(i) /\ i + 2 < j /\ Within(i + 2, j, Hex)
IsFraction(i, j, digits) ==
  \E point \in i .. j - 1 :
    i + 1 < j /\ Char(point) = "." /\ Within(i, point, digits) /\ Within(point + 1, j, digits)
IsExponent(i, j, marks) ==
  /\ Char(i) \in marks
  /\ \E first \in i + 1 .. j - 1 :
       /\ first = i + 1 \/ (first = i + 2 /\ Char(i + 1) \in {"+", "-"})
       /\ Within(first, j, Digit)
IsFloating(i, j) ==
  LET first == IF IsHex(i) THEN i + 2 ELSE i
      digits == IF IsHex(i) THEN Hex ELSE Digit
      marks == IF IsHex(i) THEN {"p", "P"} ELSE {"e", "E"}
  IN  \/ IsFraction(first, j, digits)
      \/ \E m \in first + 1 .. j - 1 :
           (IsFraction(first, m, digits) \/ Within(first, m, digits)) /\ IsExponent(m, j, marks)

(* Where the scanner takes an integer although a float begins there: the    *)
(* integer is 0 (0.5, 0x.8); an exponent follows it directly (1e5); it is   *)
(* the octal beginning of decimal digits (018.5).                           *)
FloatMissed(t) ==
  \/ Within(t.loc, Behind(t), {"0", "x", "X"})
  \/ Char(Behind(t)) \in {"e", "E"}
  \/ Char(t.loc) = "0" /\ Char(Behind(t)) \in {"8", "9"}

LongestNumber(t) ==
  /\ IsInteger(t.loc, Behind(t)) \/ IsFloating(t.loc, Behind(t))
  /\ \A j \in Behind(t) + 1 .. Len(text) + 1 :
       /\ ~IsInteger(t.loc, j)
       /\ IsFloating(t.loc, j) => t.kind = INTEGER /\ FloatMissed(t)

(* A token is the longest one of its sort that begins there: a word, an     *)
(* operator, a number.  The exceptions are the floats that are missed, and  *)
(* the ellipsis, which the scanner does not know.                           *)
Longest(t) ==
  CASE t.kind \in Words -> Char(Behind(t)) \notin Ident1
    [] t.kind \in Numbers -> LongestNumber(t)
    [] t.kind \in Operators ->
         \A w \in Operators \ {ELLIPSIS} : Len(w) > t.length => ~BeginsAt(w, t.loc)
    [] OTHER -> t.kind = EOF
MaximalMunch == \A n \in DOMAIN tokens : Longest(tokens[n])

NoBound(read) == TRUE

Stream == INSTANCE TokenStream WITH
  Kind <- Operators \cup Words \cup Numbers,
  EOF <- EOF,
  MaxSource <- 1,
  Bound <- NoBound,
  sources <- IF status \in {"new", "ended"} THEN <<>> ELSE <<1>>,
  registered <- IF status = "new" THEN 0 ELSE 1,
  cache <- 0,
  read <- [n \in DOMAIN tokens |-> [kind |-> tokens[n].kind, source |-> 1]],
  given <- [n \in DOMAIN tokens |-> n],
  held <- DOMAIN tokens,
  freed <- {},
  alive <- TRUE

(* The scanner makes the token sequences that TokenStream takes for granted:*)
(* one token per call, of a kind of token.h, none after the EOF.            *)
ImplementsStream == Stream!StreamSpec

AtDirective == pc # "idle" /\ Char(cursor) = "#"

(* A client that keeps asking gets to the EOF, unless a fraction begins     *)
(* with 0 or there is a #.  The scanner never gets away from a #.           *)
ReachesEnd ==
  /\ (~Occurs(<<"#">>) /\ ~Occurs(<<".", "0">>)) ~> (status = "ended")
  /\ [][AtDirective => AtDirective']_vars
=============================================================================
