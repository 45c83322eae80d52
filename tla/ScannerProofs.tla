---------------------------- MODULE ScannerProofs ----------------------------
(***************************************************************************)
(* Scanner for every text and every set of keywords: where the tokens are, *)
(* how long they are, and that they are what TokenStream takes for granted.*)
(***************************************************************************)
EXTENDS Scanner, FiniteSetTheorems, SequenceTheorems, WellFoundedInduction, TLAPS

Kind == Operators \cup Words \cup Numbers
Place == 1 .. Len(text) + 1
Suffix == {"l", "L", "f", "F"}

Types ==
  /\ text \in Seq(STRING)
  /\ cursor \in Place /\ line \in Nat
  /\ pc \in {"idle", "skip", "scan"}
  /\ pc # "idle" => status = "open"
  /\ tokens \in Seq([kind : Kind \cup {EOF}, loc : Place, length : Nat, line : Nat])

(* Where the next token may begin, and whether the suffix of a float does.  *)
Last == tokens[Len(tokens)]
Begin == IF tokens = <<>> THEN 1 ELSE Behind(Last)
Suffixed == tokens # <<>> /\ Last.kind = FLOAT /\ Char(Begin) \in Suffix

(* The line is that of the cursor, and the cursor has passed nothing but    *)
(* what may be between two tokens.                                          *)
Reached ==
  /\ line = LineAt(cursor)
  /\ Begin \in 1 .. cursor
  /\ \A i \in Begin .. cursor - 1 : Char(i) \in Blank \/ (i = Begin /\ Suffixed)

ScanInv == Types /\ Reached /\ TokensPlaced /\ MaximalMunch
-----------------------------------------------------------------------------
(* The sorts of characters, and the NUL that is of none.                    *)
LEMMA Characters ==
  /\ (Ident1 \cup OpChar) \cap Blank = {} /\ Ident1 \cap OpChar = {}
  /\ "NUL" \notin Ident1 \cup OpChar \cup Blank
  /\ Octal \subseteq Digit /\ Digit \subseteq Hex /\ Hex \subseteq Ident1
  /\ Suffix \cup {"x", "X", "e", "E", "p", "P"} \subseteq Ident1
  /\ {"+", "-", "."} \subseteq OpChar
<1>1. Ident1 \cap Blank = {} /\ OpChar \cap Blank = {}
  BY DEF Ident1, Ident0, Digit, Blank, Newline, OpChar
<1>2. Ident1 \cap OpChar = {}
  BY DEF Ident1, Ident0, Digit, OpChar
<1>3. "NUL" \notin Ident1 \cup OpChar \cup Blank
  BY DEF Ident1, Ident0, Digit, Blank, Newline, OpChar
<1>4. Octal \subseteq Digit /\ Digit \subseteq Hex /\ Hex \subseteq Ident1
  BY DEF Ident1, Ident0, Digit, Hex, Octal
<1>5. Suffix \cup {"x", "X", "e", "E", "p", "P"} \subseteq Ident1 /\ {"+", "-", "."} \subseteq OpChar
  BY DEF Ident1, Ident0, OpChar, Suffix
<1> QED
  BY <1>1, <1>2, <1>3, <1>4, <1>5

(* An operator that is longer than one character goes on as the scanner     *)
(* expects it, but for the ellipsis, and the scanner expects no other.      *)
LEMMA OperatorShape ==
  ASSUME NEW w \in Operators \ {ELLIPSIS}
  PROVE  /\ Len(w) \in 1 .. 3 /\ w[1] \in OpChar
         /\ Len(w) >= 2 => w[2] \in Second(w[1])
         /\ Len(w) = 3 => w[1] \in {"<", ">"} /\ w[2] = w[1] /\ w[3] = "="
<1>1. CASE \E c \in OpChar \ {"!"} : w = <<c>>
  <2>1. Len(w) = 1 /\ w[1] \in OpChar
    BY <1>1
  <2> QED
    BY <2>1
<1>2. CASE \E c \in {"=", "!", ">", "<", "+", "-", "*", "/", "%", "&", "|", "^"} : w = <<c, "=">>
  <2>1. Len(w) = 2 /\ w[2] = "=" /\ w[1] \in {"=", "!", ">", "<", "+", "-", "*", "/", "%", "&", "|", "^"}
    BY <1>2
  <2>2. w[2] \in Second(w[1])
    BY <2>1 DEF Second
  <2>3. w[1] \in OpChar
    BY <2>1 DEF OpChar
  <2> QED
    BY <2>1, <2>2, <2>3
<1>3. CASE \E c \in {"&", "|", "<", ">", "+", "-"} : w = <<c, c>>
  <2>1. Len(w) = 2 /\ w[2] = w[1] /\ w[1] \in {"&", "|", "<", ">", "+", "-"}
    BY <1>3
  <2>2. w[2] \in Second(w[1])
    BY <2>1 DEF Second
  <2>3. w[1] \in OpChar
    BY <2>1 DEF OpChar
  <2> QED
    BY <2>1, <2>2, <2>3
<1>4. CASE w \in {<<"-", ">">>, <<"<", "<", "=">>, <<">", ">", "=">>}
  <2>1. w[2] \in Second(w[1])
    BY <1>4 DEF Second
  <2>2. w[1] \in OpChar
    <3>1. w[1] \in {"-", "<", ">"}
      BY <1>4
    <3> QED
      BY <3>1 DEF OpChar
  <2>3. CASE w = <<"-", ">">>
    BY <2>1, <2>2, <2>3
  <2>4. CASE w = <<"<", "<", "=">>
    BY <2>1, <2>2, <2>4
  <2>5. CASE w = <<">", ">", "=">>
    BY <2>1, <2>2, <2>5
  <2> QED
    BY <1>4, <2>3, <2>4, <2>5
<1> QED
  BY <1>1, <1>2, <1>3, <1>4 DEF Operators

(* What the scanner takes for an operator is one of token.h.                *)
LEMMA OperatorSpelled ==
  ASSUME NEW c \in OpChar
  PROVE  /\ OpKind(<<c>>) \in Operators
         /\ \A d \in Second(c) : <<c, d>> \in Operators /\ OpKind(<<c, d>>) = <<c, d>>
         /\ c \in {"<", ">"} => <<c, c, "=">> \in Operators /\ OpKind(<<c, c, "=">>) = <<c, c, "=">>
<1>1. OpKind(<<c>>) \in Operators
  <2>1. "~" \in OpChar \ {"!"}
    BY DEF OpChar
  <2>2. CASE c = "!"
    BY <2>1, <2>2 DEF Operators, OpKind
  <2>3. CASE c # "!"
    <3>1. <<c>> # <<"!">>
      BY <2>3
    <3> QED
      BY <2>3, <3>1 DEF Operators, OpKind
  <2> QED
    BY <2>2, <2>3
<1>2. ASSUME NEW d \in Second(c) PROVE <<c, d>> \in Operators /\ OpKind(<<c, d>>) = <<c, d>>
  <2>1. \/ d = "=" /\ c \in {"=", "!", ">", "<", "+", "-", "*", "/", "%", "&", "|", "^"}
        \/ d = c /\ c \in {"&", "|", "<", ">", "+", "-"}
        \/ c = "-" /\ d = ">"
    <3>1. CASE c = "-"
      BY <3>1, <1>2 DEF Second
    <3>2. CASE c \in {"+", "&", "|", "<", ">"}
      BY <3>2, <1>2 DEF Second
    <3>3. CASE c \in {"*", "/", "%", "!", "^", "="}
      BY <3>3, <1>2 DEF Second
    <3>4. CASE c \notin {"-", "+", "&", "|", "<", ">", "*", "/", "%", "!", "^", "="}
      BY <3>4, <1>2 DEF Second
    <3> QED
      BY <3>1, <3>2, <3>3, <3>4
  <2>2. <<c, d>> \in Operators
    BY <2>1 DEF Operators
  <2>3. <<c, d>> # <<"!">>
    OBVIOUS
  <2> QED
    BY <2>2, <2>3 DEF OpKind
<1>3. ASSUME c \in {"<", ">"} PROVE <<c, c, "=">> \in Operators /\ OpKind(<<c, c, "=">>) = <<c, c, "=">>
  <2>1. <<c, c, "=">> # <<"!">>
    OBVIOUS
  <2> QED
    BY <1>3, <2>1 DEF Operators, OpKind
<1> QED
  BY <1>1, <1>2, <1>3

(* A token is of one sort.                                                  *)
LEMMA Sorts ==
  /\ Operators \cap (Words \cup Numbers \cup {EOF}) = {}
  /\ Words \cap (Numbers \cup {EOF}) = {} /\ EOF \notin Numbers /\ INTEGER # FLOAT
  /\ {IDENTIFIER, INTEGER, FLOAT} \subseteq Kind
<1> DEFINE Name == {"eof", "integer", "float", "identifier"}
<1>1. Name \cap OpChar = {} /\ Name \cap Ident0 = {}
  BY DEF OpChar, Ident0
<1>2. \A k \in Numbers \cup {EOF, IDENTIFIER} : k[1] \in Name
  BY DEF Numbers, EOF, IDENTIFIER, INTEGER, FLOAT
<1>3. \A k \in Operators : k[1] \in OpChar
  <2>1. ELLIPSIS[1] = "." /\ "." \in OpChar
    BY DEF ELLIPSIS, OpChar
  <2> QED
    BY <2>1, OperatorShape
<1>4. \A k \in Keywords : k[1] \in Ident0
  BY WordAssumption
<1>5. OpChar \cap Ident0 = {}
  BY Characters DEF Ident1
<1>6. EOF # IDENTIFIER /\ IDENTIFIER \notin Numbers /\ EOF \notin Numbers /\ INTEGER # FLOAT
  BY DEF Numbers, EOF, IDENTIFIER, INTEGER, FLOAT
<1> HIDE DEF Name
<1> QED
  BY <1>1, <1>2, <1>3, <1>4, <1>5, <1>6 DEF Words, Kind, Numbers
-----------------------------------------------------------------------------
(* The characters of the text, and the NUL behind it.                       *)
LEMMA Text ==
  ASSUME text \in Seq(STRING)
  PROVE  /\ Len(text) \in Nat /\ text \in [1 .. Len(text) -> STRING]
         /\ \A i \in Nat \ {0} : Char(i) = "NUL" \/ i \in 1 .. Len(text)
<1>1. Len(text) \in Nat /\ text \in [1 .. Len(text) -> STRING]
  BY LenProperties
<1> QED
  BY <1>1 DEF Char

(* A run of characters ends, at the first character that is not of it.      *)
LEMMA RunEnds ==
  ASSUME text \in Seq(STRING), NEW i \in Place, NEW chars, "NUL" \notin chars
  PROVE  /\ RunEnd(i, chars) \in i .. Len(text) + 1
         /\ Char(RunEnd(i, chars)) \notin chars
         /\ \A k \in i .. RunEnd(i, chars) - 1 : Char(k) \in chars
<1> DEFINE I == {j \in i .. Len(text) + 1 : Char(j) \notin chars}
<1>1. Len(text) \in Nat /\ i \in Nat /\ i <= Len(text) + 1
  BY Text DEF Place
<1>2. Char(Len(text) + 1) = "NUL"
  BY <1>1 DEF Char
<1>3. I \subseteq Nat /\ I # {}
  BY <1>1, <1>2
<1>4. PICK j \in I : \A k \in I : ~ (<<k, j>> \in OpToRel(<, Nat))
  BY <1>3, NatLessThanWellFounded, WFMin
<1>5. \A k \in I : ~ (k < j)
  BY <1>3, <1>4 DEF OpToRel
<1>6. \A k \in i .. j - 1 : Char(k) \in chars
  BY <1>1, <1>5
<1> QED
  BY <1>6 DEF RunEnd

(* The line of a later position, with and without lines between.            *)
LEMMA SameLine ==
  ASSUME text \in Seq(STRING), NEW i \in Place, NEW j \in Place, i <= j,
         \A k \in i .. j - 1 : Char(k) \notin Newline
  PROVE  LineAt(j) = LineAt(i)
<1>1. {k \in 1 .. j - 1 : Char(k) \in Newline} = {k \in 1 .. i - 1 : Char(k) \in Newline}
  BY Text DEF Place
<1> QED
  BY <1>1 DEF LineAt

(* A line ends at every newline character that is passed.                   *)
LEMMA NextLine ==
  ASSUME text \in Seq(STRING), NEW i \in 1 .. Len(text)
  PROVE  LineAt(i) \in Nat /\ LineAt(i + 1) = LineAt(i) + Lines(Char(i))
<1> DEFINE At(j) == {k \in 1 .. j - 1 : Char(k) \in Newline}
<1>1. i \in Nat /\ i >= 1
  BY Text
<1>2. IsFiniteSet(At(i)) /\ Cardinality(At(i)) \in Nat
  <2>1. IsFiniteSet(1 .. i - 1)
    BY <1>1, FS_Interval
  <2> QED
    BY <2>1, FS_Subset, FS_CardinalityType
<1>3. CASE Char(i) \in Newline
  <2>1. At(i + 1) = At(i) \cup {i} /\ i \notin At(i)
    BY <1>1, <1>3
  <2>2. Cardinality(At(i + 1)) = Cardinality(At(i)) + 1
    BY <1>2, <2>1, FS_AddElement
  <2> QED
    BY <1>2, <1>3, <2>2 DEF LineAt, Lines
<1>4. CASE Char(i) \notin Newline
  <2>1. At(i + 1) = At(i)
    BY <1>1, <1>4
  <2>2. Cardinality(At(i + 1)) = Cardinality(At(i))
    BY <2>1
  <2> QED
    BY <1>2, <1>4, <2>2 DEF LineAt, Lines
<1> QED
  BY <1>3, <1>4
-----------------------------------------------------------------------------
(* Where strtol stops, in the bases.                                        *)
IntegerRun ==
  /\ Base \in {8, 10, 16} /\ (Base = 16 <=> IsHex(cursor))
  /\ Base = 10 => Within(cursor, Strtol, Digit) /\ Char(Strtol) \notin Digit
  /\ Base = 8 => Char(cursor) = "0" /\ Within(cursor, Strtol, Octal) /\ Char(Strtol) \notin Octal
  /\ Base = 16 =>
       IF Char(cursor + 2) \in Hex THEN Within(cursor + 2, Strtol, Hex) /\ Char(Strtol) \notin Hex
                                       /\ cursor + 2 <= Strtol
       ELSE Strtol = cursor + 1

(* Where an integer ends.  Its characters end no line.                      *)
LEMMA IntegerEnds ==
  ASSUME Types, Char(cursor) \in Digit
  PROVE  /\ Strtol \in Place /\ cursor <= Strtol
         /\ \A k \in cursor .. Strtol - 1 : Char(k) \in Ident1
         /\ IntegerRun
<1>1. Len(text) \in Nat /\ cursor \in Nat /\ cursor >= 1 /\ text \in Seq(STRING)
  BY Text DEF Types, Place
<1>2. \A k \in Nat \ {0} : Char(k) # "NUL" => k \in 1 .. Len(text)
  BY Text, <1>1
<1>3. "NUL" \notin Digit /\ "NUL" \notin Octal /\ "NUL" \notin Hex
  BY Characters
<1>4. Octal \subseteq Ident1 /\ Digit \subseteq Ident1 /\ Hex \subseteq Ident1
      /\ {"x", "X"} \subseteq Ident1 /\ "0" \in Ident1
  BY Characters DEF Digit
<1>5. Base \in {8, 10, 16} /\ (Base = 16 <=> IsHex(cursor))
  BY DEF Base
<1>6. CASE Base = 10
  <2>1. Strtol = RunEnd(cursor, Digit)
    BY <1>6 DEF Strtol
  <2>2. /\ RunEnd(cursor, Digit) \in cursor .. Len(text) + 1
        /\ Char(RunEnd(cursor, Digit)) \notin Digit
        /\ \A k \in cursor .. RunEnd(cursor, Digit) - 1 : Char(k) \in Digit
    BY <1>1, <1>3, RunEnds DEF Types
  <2> QED
    BY <1>1, <1>4, <1>5, <1>6, <2>1, <2>2 DEF Place, IntegerRun, Within
<1>7. CASE Base = 8
  <2>1. Strtol = RunEnd(cursor, Octal)
    BY <1>7 DEF Strtol
  <2>2. /\ RunEnd(cursor, Octal) \in cursor .. Len(text) + 1
        /\ Char(RunEnd(cursor, Octal)) \notin Octal
        /\ \A k \in cursor .. RunEnd(cursor, Octal) - 1 : Char(k) \in Octal
    BY <1>1, <1>3, RunEnds DEF Types
  <2>3. Char(cursor) = "0"
    BY <1>7 DEF Base
  <2> QED
    BY <1>1, <1>4, <1>5, <1>7, <2>1, <2>2, <2>3 DEF Place, IntegerRun, Within
<1>8. CASE Base = 16
  <2>1. Char(cursor) = "0" /\ Char(cursor + 1) \in {"x", "X"}
    BY <1>8 DEF Base, IsHex
  <2>2. cursor + 1 <= Len(text)
    BY <1>1, <1>2, <2>1
  <2>3. CASE Char(cursor + 2) \in Hex
    <3>1. Strtol = RunEnd(cursor + 2, Hex)
      BY <1>8, <2>3 DEF Strtol
    <3>2. cursor + 2 \in Place
      BY <1>1, <2>2 DEF Place
    <3>3. /\ RunEnd(cursor + 2, Hex) \in cursor + 2 .. Len(text) + 1
          /\ Char(RunEnd(cursor + 2, Hex)) \notin Hex
          /\ \A k \in cursor + 2 .. RunEnd(cursor + 2, Hex) - 1 : Char(k) \in Hex
      BY <1>1, <1>3, <3>2, RunEnds
    <3>4. \A k \in cursor .. Strtol - 1 : k = cursor \/ k = cursor + 1 \/ k \in cursor + 2 .. Strtol - 1
      BY <1>1, <3>1, <3>3
    <3>5. IntegerRun
      BY <1>5, <1>8, <2>3, <3>1, <3>3 DEF IntegerRun, Within
    <3> QED
      BY <1>1, <1>4, <2>1, <3>1, <3>3, <3>4, <3>5, Characters DEF Place
  <2>4. CASE Char(cursor + 2) \notin Hex
    <3>1. Strtol = cursor + 1
      BY <1>8, <2>4 DEF Strtol
    <3>2. IntegerRun
      BY <1>5, <1>8, <2>4, <3>1 DEF IntegerRun
    <3> QED
      BY <1>1, <1>4, <2>1, <2>2, <3>1, <3>2 DEF Place
  <2> QED
    BY <2>3, <2>4
<1> QED
  BY <1>6, <1>7, <1>8 DEF Base

(* The parts of what strtod reads, and where its digits stop.               *)
NumberStart == IF IsHex(cursor) THEN cursor + 2 ELSE cursor
NumberDigits == IF IsHex(cursor) THEN Hex ELSE Digit
NumberMarks == IF IsHex(cursor) THEN {"p", "P"} ELSE {"e", "E"}
Point == RunEnd(NumberStart, NumberDigits)
MantissaRun ==
  /\ NumberStart \in Place /\ Point \in NumberStart .. Len(text) + 1
  /\ Within(NumberStart, Point, NumberDigits) /\ Char(Point) \notin NumberDigits
  /\ IF Char(Point) = "."
     THEN /\ Mantissa \in Point + 1 .. Len(text) + 1
          /\ Within(Point + 1, Mantissa, NumberDigits) /\ Char(Mantissa) \notin NumberDigits
     ELSE Mantissa = Point

(* Where the digits of a float end, which is before no digit.               *)
LEMMA MantissaEnds ==
  ASSUME Types
  PROVE  /\ Mantissa \in Place /\ cursor <= Mantissa
         /\ \A k \in cursor .. Mantissa - 1 : Char(k) \in Ident1 \cup OpChar
         /\ Char(Mantissa) \notin Digit
         /\ MantissaRun
<1> DEFINE digits == NumberDigits
           first == NumberStart
           point == Point
           second == RunEnd(point + 1, digits)
<1>1. Len(text) \in Nat /\ cursor \in Nat /\ cursor >= 1 /\ cursor <= Len(text) + 1 /\ text \in Seq(STRING)
  BY Text DEF Types, Place
<1>2. \A k \in Nat \ {0} : Char(k) # "NUL" => k \in 1 .. Len(text)
  BY Text, <1>1
<1>3. "NUL" \notin digits /\ Digit \subseteq digits /\ digits \subseteq Ident1
  BY Characters DEF NumberDigits
<1>4. first \in Place /\ cursor <= first /\ \A k \in cursor .. first - 1 : Char(k) \in Ident1
  <2>1. CASE IsHex(cursor)
    <3>1. Char(cursor) = "0" /\ Char(cursor + 1) \in {"x", "X"}
      BY <2>1 DEF IsHex
    <3>2. cursor + 1 <= Len(text)
      BY <1>1, <1>2, <3>1
    <3>3. Char(cursor) \in Ident1 /\ Char(cursor + 1) \in Ident1
      BY <3>1, Characters DEF Digit
    <3>4. \A k \in cursor .. first - 1 : k = cursor \/ k = cursor + 1
      BY <1>1, <2>1 DEF NumberStart
    <3> QED
      BY <1>1, <2>1, <3>2, <3>3, <3>4 DEF Place, NumberStart
  <2>2. CASE ~IsHex(cursor)
    BY <1>1, <2>2 DEF Place, NumberStart
  <2> QED
    BY <2>1, <2>2
<1> HIDE DEF first, digits
<1>5. /\ point \in first .. Len(text) + 1 /\ Char(point) \notin digits
      /\ \A k \in first .. point - 1 : Char(k) \in digits
  BY <1>1, <1>3, <1>4, RunEnds DEF Point, first, digits
<1> HIDE DEF point
<1>6. Mantissa = IF Char(point) = "." THEN second ELSE point
  BY DEF Mantissa, first, point, digits, NumberStart, NumberDigits, Point
<1>7. point \in Place /\ cursor <= point /\ \A k \in cursor .. point - 1 : Char(k) \in Ident1
  <2>1. \A k \in cursor .. point - 1 : k \in cursor .. first - 1 \/ k \in first .. point - 1
    BY <1>1, <1>4, <1>5 DEF Place
  <2> QED
    BY <1>1, <1>3, <1>4, <1>5, <2>1 DEF Place
<1>8. CASE Char(point) = "."
  <2>1. point \in Nat /\ point + 1 \in Place
    BY <1>1, <1>2, <1>7, <1>8 DEF Place
  <2>2. /\ second \in point + 1 .. Len(text) + 1 /\ Char(second) \notin digits
        /\ \A k \in point + 1 .. second - 1 : Char(k) \in digits
    BY <1>1, <1>3, <2>1, RunEnds
  <2>3. \A k \in cursor .. second - 1 : k \in cursor .. point - 1 \/ k = point \/ k \in point + 1 .. second - 1
    BY <1>1, <2>1, <2>2
  <2>4. Char(point) \in OpChar
    BY <1>8, Characters
  <2>5. MantissaRun
    BY <1>4, <1>5, <1>6, <1>8, <2>2 DEF MantissaRun, Within, first, point, digits
  <2> HIDE DEF second
  <2> QED
    BY <1>1, <1>3, <1>6, <1>7, <1>8, <2>1, <2>2, <2>3, <2>4, <2>5 DEF Place
<1>9. CASE Char(point) # "."
  <2>1. MantissaRun
    BY <1>4, <1>5, <1>6, <1>9 DEF MantissaRun, Within, first, point, digits
  <2> QED
    BY <1>3, <1>5, <1>6, <1>7, <1>9, <2>1
<1> QED
  BY <1>8, <1>9

(* Where strtod stops.                                                      *)
LEMMA FloatEnds ==
  ASSUME Types
  PROVE  /\ Strtod \in Place /\ cursor <= Strtod
         /\ \A k \in cursor .. Strtod - 1 : Char(k) \in Ident1 \cup OpChar
         /\ Char(Strtod) \notin Digit
<1> DEFINE signed == Char(Mantissa + 1) \in {"+", "-"}
           exponent == Mantissa + (IF signed THEN 2 ELSE 1)
           marks == IF IsHex(cursor) THEN {"p", "P"} ELSE {"e", "E"}
           end == RunEnd(exponent, Digit)
<1>1. Len(text) \in Nat /\ cursor \in Nat /\ cursor >= 1 /\ cursor <= Len(text) + 1 /\ text \in Seq(STRING)
  BY Text DEF Types, Place
<1>2. \A k \in Nat \ {0} : Char(k) # "NUL" => k \in 1 .. Len(text)
  BY Text, <1>1
<1>3. Mantissa \in Nat /\ Mantissa >= 1 /\ cursor <= Mantissa
  BY <1>1, MantissaEnds DEF Place
<1>4. CASE Char(Mantissa) \in marks /\ Char(exponent) \in Digit
  <2>1. Strtod = end
    BY <1>4 DEF Strtod
  <2>2. "NUL" \notin Digit /\ Digit \subseteq Ident1
    BY Characters
  <2>3. exponent \in Nat /\ exponent > Mantissa
    BY <1>3
  <2>4. exponent \in Place
    <3>1. exponent \in Nat \ {0} /\ Char(exponent) # "NUL"
      BY <1>3, <1>4, <2>2, <2>3
    <3> HIDE DEF exponent
    <3> QED
      BY <1>1, <1>2, <3>1 DEF Place
  <2>5. /\ end \in exponent .. Len(text) + 1 /\ Char(end) \notin Digit
        /\ \A k \in exponent .. end - 1 : Char(k) \in Digit
    BY <1>1, <2>2, <2>4, RunEnds
  <2>6. Char(Mantissa) \in Ident1
    BY <1>4, Characters
  <2>7. signed => Char(Mantissa + 1) \in OpChar
    BY Characters
  <2>8. \A k \in cursor .. end - 1 : \/ k \in cursor .. Mantissa - 1 \/ k = Mantissa
                                     \/ (signed /\ k = Mantissa + 1) \/ k \in exponent .. end - 1
    BY <1>1, <1>3, <2>5
  <2> HIDE DEF end, exponent, signed
  <2> QED
    BY <1>1, <1>3, <2>1, <2>2, <2>3, <2>5, <2>6, <2>7, <2>8, MantissaEnds DEF Place
<1>5. CASE ~ (Char(Mantissa) \in marks /\ Char(exponent) \in Digit)
  <2>1. Strtod = Mantissa
    BY <1>5 DEF Strtod
  <2> QED
    BY <2>1, MantissaEnds
<1> QED
  BY <1>4, <1>5
(* What is of a run up to a first character that is not is as long as it.   *)
LEMMA SameRun ==
  ASSUME NEW i \in Nat, NEW p \in Nat, NEW q \in Nat, i <= p, i <= q, NEW chars,
         Within(i, p, chars), Char(p) \notin chars, Within(i, q, chars)
  PROVE  q <= p /\ (Char(q) \notin chars => q = p)
<1>1. q > p => Char(p) \in chars
  BY DEF Within
<1>2. q < p => Char(q) \in chars
  BY DEF Within
<1> QED
  BY <1>1, <1>2

(* Characters that the parts of numbers are told apart by.                  *)
LEMMA NumberCharacters ==
  /\ {".", "x", "X", "p", "P", "+", "-"} \cap Digit = {}
  /\ {".", "p", "P", "x", "X"} \cap Hex = {}
  /\ {"e", "E"} \cap Digit = {} /\ {"p", "P", "."} \cap {"e", "E"} = {}
  /\ "0" \in Octal /\ Octal \subseteq Digit /\ Digit \subseteq Hex /\ Digit \ Octal = {"8", "9"}
  /\ {".", "x", "X"} \cap Octal = {}
  BY DEF Octal, Digit, Hex

(* An integer ends where its digits do: it is one, and none is longer.      *)
LEMMA IntegerSpan ==
  ASSUME Types, Char(cursor) \in Digit
  PROVE  /\ cursor < Strtol /\ IsInteger(cursor, Strtol)
         /\ \A j \in Strtol + 1 .. Len(text) + 1 : ~IsInteger(cursor, j)
<1>1. Len(text) \in Nat /\ cursor \in Nat /\ Strtol \in Nat /\ cursor <= Strtol /\ IntegerRun
  BY IntegerEnds, Text DEF Types, Place
<1>2. IsHex(cursor) => Char(cursor) = "0" /\ Char(cursor + 1) \in {"x", "X"}
  BY DEF IsHex
<1>3. Char(cursor) # "."
  BY NumberCharacters
<1>4. CASE Base = 10
  <2>1. Within(cursor, Strtol, Digit) /\ Char(Strtol) \notin Digit /\ ~IsHex(cursor)
    BY <1>1, <1>4 DEF IntegerRun
  <2>2. cursor < Strtol
    BY <1>1, <2>1
  <2>3. CASE Char(cursor) # "0"
    <3>1. IsInteger(cursor, Strtol)
      BY <2>1, <2>2, <2>3 DEF IsInteger
    <3>2. ASSUME NEW j \in Strtol + 1 .. Len(text) + 1, IsInteger(cursor, j) PROVE FALSE
      <4>1. Within(cursor, j, Digit)
        BY <2>1, <2>3, <3>2 DEF IsInteger
      <4> QED
        BY <1>1, <2>1, <2>2, <4>1 DEF Within
    <3> QED
      BY <2>2, <3>1, <3>2
  <2>4. CASE Char(cursor) = "0"
    <3>1. Char(cursor + 1) \notin Digit
      BY <1>4, <2>1, <2>4 DEF Base
    <3>2. Strtol = cursor + 1
      BY <1>1, <2>1, <2>2, <3>1 DEF Within
    <3>3. Within(cursor, Strtol, Octal)
      BY <1>1, <2>4, <3>2, NumberCharacters DEF Within
    <3>4. IsInteger(cursor, Strtol)
      BY <2>2, <2>4, <3>3 DEF IsInteger
    <3>5. ASSUME NEW j \in Strtol + 1 .. Len(text) + 1, IsInteger(cursor, j) PROVE FALSE
      <4>1. Within(cursor, j, Octal)
        BY <2>1, <2>4, <3>5 DEF IsInteger
      <4>2. Char(cursor + 1) \in Octal
        BY <1>1, <3>2, <4>1 DEF Within
      <4> QED
        BY <3>1, <4>2, NumberCharacters
    <3> QED
      BY <2>2, <3>4, <3>5
  <2> QED
    BY <2>3, <2>4
<1>5. CASE Base = 8
  <2>1. /\ Within(cursor, Strtol, Octal) /\ Char(Strtol) \notin Octal /\ ~IsHex(cursor)
        /\ Char(cursor) = "0"
    BY <1>1, <1>5 DEF IntegerRun
  <2>2. cursor < Strtol
    BY <1>1, <2>1, NumberCharacters
  <2>3. IsInteger(cursor, Strtol)
    BY <2>1, <2>2 DEF IsInteger
  <2>4. ASSUME NEW j \in Strtol + 1 .. Len(text) + 1, IsInteger(cursor, j) PROVE FALSE
    <3>1. Within(cursor, j, Octal)
      BY <2>1, <2>4 DEF IsInteger
    <3> QED
      BY <1>1, <2>1, <2>2, <3>1 DEF Within
  <2> QED
    BY <2>2, <2>3, <2>4
<1>6. CASE Base = 16
  <2>1. IsHex(cursor)
    BY <1>1, <1>6 DEF IntegerRun
  <2>2. ASSUME NEW j \in Nat, j > cursor + 1 PROVE ~Within(cursor, j, Octal)
    <3>1. Char(cursor + 1) \notin Octal
      BY <1>2, <2>1, NumberCharacters
    <3> QED
      BY <1>1, <2>2, <3>1 DEF Within
  <2>3. CASE Char(cursor + 2) \in Hex
    <3>1. Within(cursor + 2, Strtol, Hex) /\ Char(Strtol) \notin Hex /\ cursor + 2 <= Strtol
      BY <1>1, <1>6, <2>3 DEF IntegerRun
    <3>2. cursor + 2 < Strtol
      BY <1>1, <2>3, <3>1
    <3>3. IsInteger(cursor, Strtol)
      BY <1>1, <2>1, <3>1, <3>2 DEF IsInteger
    <3>4. ASSUME NEW j \in Strtol + 1 .. Len(text) + 1, IsInteger(cursor, j) PROVE FALSE
      <4>1. j \in Nat /\ j > cursor + 1
        BY <1>1, <3>2
      <4>2. Within(cursor + 2, j, Hex)
        BY <1>2, <2>1, <2>2, <3>4, <4>1 DEF IsInteger
      <4> QED
        BY <1>1, <3>1, <4>2 DEF Within
    <3> QED
      BY <1>1, <3>2, <3>3, <3>4
  <2>4. CASE Char(cursor + 2) \notin Hex
    <3>1. Strtol = cursor + 1
      BY <1>1, <1>6, <2>4 DEF IntegerRun
    <3>2. Within(cursor, Strtol, Octal)
      BY <1>1, <1>2, <2>1, <3>1, NumberCharacters DEF Within
    <3>3. IsInteger(cursor, Strtol)
      BY <1>1, <1>2, <2>1, <3>1, <3>2 DEF IsInteger
    <3>4. ASSUME NEW j \in Strtol + 1 .. Len(text) + 1, IsInteger(cursor, j) PROVE FALSE
      <4>1. j \in Nat /\ j > cursor + 1
        BY <1>1, <3>1
      <4>2. Within(cursor + 2, j, Hex) /\ cursor + 2 < j
        BY <1>2, <2>1, <2>2, <3>4, <4>1 DEF IsInteger
      <4> QED
        BY <1>1, <2>4, <4>2 DEF Within
    <3> QED
      BY <1>1, <3>1, <3>3, <3>4
  <2> QED
    BY <2>3, <2>4
<1> QED
  BY <1>1, <1>4, <1>5, <1>6 DEF IntegerRun

(* A float goes on behind its first digits, with a point or an exponent.    *)
LEMMA FloatingBegins ==
  ASSUME Types, NEW j \in Place, IsFloating(cursor, j)
  PROVE  Char(Point) = "." \/ Char(Point) \in NumberMarks
<1>1. /\ cursor \in Nat /\ j \in Nat /\ MantissaRun /\ NumberStart \in Nat /\ Point \in Nat
      /\ NumberStart <= Point
  BY MantissaEnds, Text DEF Types, Place, MantissaRun
<1>2. ASSUME NEW q \in Nat, NumberStart <= q, Within(NumberStart, q, NumberDigits),
             Char(q) = "." \/ Char(q) \in NumberMarks
      PROVE  q = Point
  <2>1. Char(q) \notin NumberDigits
    BY <1>2, NumberCharacters DEF NumberMarks, NumberDigits
  <2>2. Within(NumberStart, Point, NumberDigits) /\ Char(Point) \notin NumberDigits
    BY <1>1 DEF MantissaRun
  <2> QED
    BY <1>1, <1>2, <2>1, <2>2, SameRun
<1>3. ASSUME NEW m \in Nat, IsFraction(NumberStart, m, NumberDigits) PROVE Char(Point) = "."
  <2>1. PICK p \in NumberStart .. m - 1 : Char(p) = "." /\ Within(NumberStart, p, NumberDigits)
    BY <1>3 DEF IsFraction
  <2> QED
    BY <1>1, <1>2, <2>1
<1>4. ASSUME NEW m \in NumberStart + 1 .. j - 1, Within(NumberStart, m, NumberDigits),
             IsExponent(m, j, NumberMarks)
      PROVE  Char(Point) \in NumberMarks
  <2>1. Char(m) \in NumberMarks
    BY <1>4 DEF IsExponent
  <2> QED
    BY <1>1, <1>2, <1>4, <2>1
<1>5. \/ IsFraction(NumberStart, j, NumberDigits)
      \/ \E m \in NumberStart + 1 .. j - 1 :
           /\ IsFraction(NumberStart, m, NumberDigits) \/ Within(NumberStart, m, NumberDigits)
           /\ IsExponent(m, j, NumberMarks)
  BY DEF IsFloating, NumberStart, NumberDigits, NumberMarks
<1> QED
  BY <1>1, <1>3, <1>4, <1>5

(* An integer is the longest number, but for the floats that are missed.    *)
LEMMA IntegerLongest ==
  ASSUME Types, Char(cursor) \in Digit, ~IsFloat,
         NEW t, t.kind = INTEGER, t.loc = cursor, Behind(t) = Strtol
  PROVE  LongestNumber(t)
<1>1. /\ cursor \in Nat /\ Strtol \in Nat /\ cursor <= Strtol /\ IntegerRun /\ MantissaRun
      /\ \A k \in cursor .. Strtol - 1 : Char(k) \in Ident1
      /\ Len(text) \in Nat
  BY IntegerEnds, MantissaEnds, Text DEF Types, Place
<1>2. NumberStart \in Nat /\ Point \in Nat /\ NumberStart <= Point
      /\ Within(NumberStart, Point, NumberDigits) /\ Char(Point) \notin NumberDigits
  BY <1>1 DEF MantissaRun, Place
<1>3. Char(Strtol) \in {".", "p", "P"} => FloatMissed(t)
  <2>1. "." \notin Ident1 /\ Char(cursor) # "."
    BY Characters, NumberCharacters
  <2>2. Char(Strtol) \in {".", "p", "P"} => IsZero(Strtol)
    BY <2>1 DEF IsFloat
  <2>3. IsZero(Strtol) => Within(cursor, Strtol, {"0", "x", "X"})
    BY <1>1, <2>1 DEF IsZero, Within
  <2> QED
    BY <2>2, <2>3 DEF FloatMissed
<1>4. ASSUME NEW j \in Strtol + 1 .. Len(text) + 1, IsFloating(cursor, j), ~FloatMissed(t)
      PROVE  FALSE
  <2>1. Char(Point) = "." \/ Char(Point) \in NumberMarks
    BY <1>1, <1>4, FloatingBegins DEF Place
  <2>2. CASE Base = 10
    <3>1. NumberStart = cursor /\ NumberDigits = Digit /\ NumberMarks = {"e", "E"}
          /\ Within(cursor, Strtol, Digit) /\ Char(Strtol) \notin Digit
      BY <1>1, <2>2 DEF IntegerRun, NumberStart, NumberDigits, NumberMarks
    <3>2. Strtol = Point
      BY <1>1, <1>2, <3>1, SameRun
    <3> QED
      BY <1>3, <1>4, <2>1, <3>1, <3>2 DEF FloatMissed
  <2>3. CASE Base = 8
    <3>1. NumberStart = cursor /\ NumberDigits = Digit /\ NumberMarks = {"e", "E"}
          /\ Within(cursor, Strtol, Octal) /\ Char(Strtol) \notin Octal /\ Char(cursor) = "0"
      BY <1>1, <2>3 DEF IntegerRun, NumberStart, NumberDigits, NumberMarks
    <3>2. Within(cursor, Strtol, Digit) /\ Char(Strtol) \notin Digit
      BY <1>4, <3>1, NumberCharacters DEF FloatMissed, Within
    <3>3. Strtol = Point
      BY <1>1, <1>2, <3>1, <3>2, SameRun
    <3> QED
      BY <1>3, <1>4, <2>1, <3>1, <3>3 DEF FloatMissed
  <2>4. CASE Base = 16 /\ Char(cursor + 2) \in Hex
    <3>1. NumberStart = cursor + 2 /\ NumberDigits = Hex /\ NumberMarks = {"p", "P"}
          /\ Within(cursor + 2, Strtol, Hex) /\ Char(Strtol) \notin Hex /\ cursor + 2 <= Strtol
      BY <1>1, <2>4 DEF IntegerRun, NumberStart, NumberDigits, NumberMarks
    <3>2. Strtol = Point
      BY <1>1, <1>2, <3>1, SameRun
    <3> QED
      BY <1>3, <1>4, <2>1, <3>1, <3>2
  <2>5. CASE Base = 16 /\ Char(cursor + 2) \notin Hex
    <3>1. Strtol = cursor + 1 /\ Char(cursor) = "0"
      BY <1>1, <2>5 DEF IntegerRun, IsHex
    <3>2. Within(cursor, Strtol, {"0", "x", "X"})
      BY <1>1, <3>1 DEF Within
    <3> QED
      BY <1>4, <3>2 DEF FloatMissed
  <2> QED
    BY <1>1, <2>2, <2>3, <2>4, <2>5 DEF IntegerRun
<1> QED
  BY <1>4, IntegerSpan DEF LongestNumber

(* Where the exponent of a float ends, if it has one.                       *)
LEMMA ExponentEnds ==
  ASSUME Types
  PROVE  /\ Mantissa <= Strtod /\ Strtod \in Nat /\ Mantissa \in Nat
         /\ Strtod = Mantissa \/ IsExponent(Mantissa, Strtod, NumberMarks)
         /\ \A j \in Strtod + 1 .. Len(text) + 1 : ~IsExponent(Mantissa, j, NumberMarks)
<1> DEFINE signed == Char(Mantissa + 1) \in {"+", "-"}
           exponent == Mantissa + (IF signed THEN 2 ELSE 1)
           end == RunEnd(exponent, Digit)
<1>1. /\ Len(text) \in Nat /\ text \in Seq(STRING) /\ Mantissa \in Nat /\ Mantissa >= 1
      /\ Mantissa <= Len(text) + 1
  BY Text, MantissaEnds DEF Types, Place
<1>2. \A k \in Nat \ {0} : Char(k) # "NUL" => k \in 1 .. Len(text)
  BY Text, <1>1
<1>3. exponent \in Nat /\ exponent >= Mantissa + 1
  BY <1>1
<1>4. Strtod = IF Char(Mantissa) \in NumberMarks /\ Char(exponent) \in Digit THEN end ELSE Mantissa
  BY DEF Strtod, NumberMarks
<1>5. ASSUME NEW j \in Nat, NEW f \in Mantissa + 1 .. j - 1, Within(f, j, Digit),
             f = Mantissa + 1 \/ (f = Mantissa + 2 /\ Char(Mantissa + 1) \in {"+", "-"})
      PROVE  f = exponent /\ Char(exponent) \in Digit
  <2>1. Char(f) \in Digit
    BY <1>1, <1>5 DEF Within
  <2>2. CASE f = Mantissa + 1
    <3>1. ~signed
      BY <2>1, <2>2, NumberCharacters
    <3> QED
      BY <2>1, <2>2, <3>1
  <2>3. CASE f = Mantissa + 2 /\ signed
    BY <2>1, <2>3
  <2> QED
    BY <1>5, <2>2, <2>3
<1>6. exponent = Mantissa + 1 \/ (exponent = Mantissa + 2 /\ Char(Mantissa + 1) \in {"+", "-"})
  OBVIOUS
<1> HIDE DEF exponent, signed
<1>7. CASE Char(Mantissa) \in NumberMarks /\ Char(exponent) \in Digit
  <2>1. Strtod = end
    BY <1>4, <1>7
  <2>2. "NUL" \notin Digit
    BY Characters
  <2>3. exponent \in Place
    BY <1>1, <1>2, <1>3, <1>7, <2>2 DEF Place
  <2>4. /\ end \in exponent .. Len(text) + 1 /\ Char(end) \notin Digit
        /\ \A k \in exponent .. end - 1 : Char(k) \in Digit
    BY <1>1, <2>2, <2>3, RunEnds
  <2> HIDE DEF end
  <2>5. end # exponent
    BY <1>7, <2>4
  <2>6. end \in Nat /\ exponent < end
    BY <1>1, <1>3, <2>4, <2>5
  <2>7. IsExponent(Mantissa, Strtod, NumberMarks)
    <3>1. exponent \in Mantissa + 1 .. end - 1 /\ Within(exponent, end, Digit)
      BY <1>1, <1>3, <2>4, <2>6 DEF Within
    <3> QED
      BY <1>6, <1>7, <2>1, <3>1 DEF IsExponent
  <2>8. ASSUME NEW j \in Strtod + 1 .. Len(text) + 1, IsExponent(Mantissa, j, NumberMarks) PROVE FALSE
    <3>1. PICK f \in Mantissa + 1 .. j - 1 :
            /\ f = Mantissa + 1 \/ (f = Mantissa + 2 /\ Char(Mantissa + 1) \in {"+", "-"})
            /\ Within(f, j, Digit)
      BY <2>8 DEF IsExponent
    <3>2. j \in Nat
      BY <1>1, <2>1, <2>6
    <3>3. f = exponent
      BY <1>5, <3>1, <3>2
    <3>4. Within(exponent, j, Digit)
      BY <3>1, <3>3
    <3> QED
      BY <1>1, <1>3, <2>1, <2>4, <2>6, <3>2, <3>4 DEF Within
  <2> QED
    BY <1>1, <1>3, <2>1, <2>6, <2>7, <2>8
<1>8. CASE ~ (Char(Mantissa) \in NumberMarks /\ Char(exponent) \in Digit)
  <2>1. Strtod = Mantissa
    BY <1>4, <1>8
  <2>2. ASSUME NEW j \in Strtod + 1 .. Len(text) + 1, IsExponent(Mantissa, j, NumberMarks) PROVE FALSE
    <3>1. PICK f \in Mantissa + 1 .. j - 1 :
            /\ f = Mantissa + 1 \/ (f = Mantissa + 2 /\ Char(Mantissa + 1) \in {"+", "-"})
            /\ Within(f, j, Digit)
      BY <2>2 DEF IsExponent
    <3>2. j \in Nat /\ Char(Mantissa) \in NumberMarks
      BY <1>1, <2>1, <2>2 DEF IsExponent
    <3>3. Char(exponent) \in Digit
      BY <1>5, <3>1, <3>2
    <3> QED
      BY <1>8, <3>2, <3>3
  <2> QED
    BY <1>1, <2>1, <2>2
<1> QED
  BY <1>7, <1>8

(* A float has a digit before its point, or it begins with the point and    *)
(* has one behind it; strtol stops where its first digits do.               *)
LEMMA FloatParts ==
  ASSUME Types, IsNumconst, IsFloat
  PROVE  \/ /\ Char(cursor) = "." /\ Char(cursor + 1) \in Digit /\ ~IsHex(cursor)
            /\ NumberStart = cursor /\ Point = cursor
         \/ /\ Char(cursor) \in Digit /\ NumberStart < Point /\ Strtol = Point
            /\ Char(Point) \in {".", "p", "P"}
<1>1. /\ cursor \in Nat /\ MantissaRun /\ NumberStart \in Nat /\ Point \in Nat /\ NumberStart <= Point
      /\ Within(NumberStart, Point, NumberDigits) /\ Char(Point) \notin NumberDigits
  BY MantissaEnds, Text DEF Types, Place, MantissaRun
<1>2. CASE Char(cursor) = "."
  <2>1. ~IsHex(cursor) /\ Char(cursor) \notin Digit
    BY <1>2, NumberCharacters DEF IsHex
  <2>2. NumberStart = cursor /\ NumberDigits = Digit
    BY <2>1 DEF NumberStart, NumberDigits
  <2>3. Point = cursor
    BY <1>1, <2>1, <2>2 DEF Within
  <2> QED
    BY <1>2, <2>1, <2>2, <2>3 DEF IsNumconst
<1>3. CASE Char(cursor) # "."
  <2>1. /\ Char(cursor) \in Digit /\ ~IsZero(Strtol) /\ Char(Strtol) \in {".", "p", "P"}
    BY <1>3 DEF IsNumconst, IsFloat
  <2>2. Strtol \in Nat /\ cursor < Strtol /\ IntegerRun
    BY <2>1, IntegerEnds, IntegerSpan, Text DEF Types, Place
  <2>3. CASE Base # 16
    <3>1. NumberStart = cursor /\ NumberDigits = Digit
      BY <2>2, <2>3 DEF IntegerRun, NumberStart, NumberDigits
    <3>2. Within(cursor, Strtol, Digit) /\ Char(Strtol) \notin Digit
      BY <2>1, <2>2, <2>3, NumberCharacters DEF IntegerRun, Within
    <3>3. Strtol = Point
      BY <1>1, <2>2, <3>1, <3>2, SameRun
    <3> QED
      BY <2>1, <2>2, <3>1, <3>3
  <2>4. CASE Base = 16
    <3>1. /\ IsHex(cursor) /\ Char(cursor) = "0" /\ NumberStart = cursor + 2 /\ NumberDigits = Hex
      BY <2>2, <2>4 DEF IntegerRun, NumberStart, NumberDigits, IsHex
    <3>2. Char(cursor + 2) \in Hex
      <4>1. Strtol # cursor + 1
        BY <1>1, <2>1, <3>1 DEF IsZero
      <4> QED
        BY <2>2, <2>4, <4>1 DEF IntegerRun
    <3>3. Within(cursor + 2, Strtol, Hex) /\ Char(Strtol) \notin Hex /\ cursor + 2 <= Strtol
      BY <2>2, <2>4, <3>2 DEF IntegerRun
    <3>4. Strtol = Point
      BY <1>1, <2>2, <3>1, <3>3, SameRun
    <3>5. NumberStart < Point
      BY <1>1, <3>1, <3>2
    <3> QED
      BY <2>1, <3>4, <3>5
  <2> QED
    BY <2>3, <2>4
<1> QED
  BY <1>2, <1>3

(* A float is the longest number.                                           *)
LEMMA FloatLongest ==
  ASSUME Types, IsNumconst, IsFloat,
         NEW t, t.kind = FLOAT, t.loc = cursor, Behind(t) = Strtod
  PROVE  LongestNumber(t)
<1>1. /\ cursor \in Nat /\ MantissaRun /\ NumberStart \in Nat /\ Point \in Nat /\ NumberStart <= Point
      /\ Within(NumberStart, Point, NumberDigits) /\ Char(Point) \notin NumberDigits
      /\ Len(text) \in Nat
  BY MantissaEnds, Text DEF Types, Place, MantissaRun
<1>2. /\ Mantissa <= Strtod /\ Strtod \in Nat /\ Mantissa \in Nat
      /\ Strtod = Mantissa \/ IsExponent(Mantissa, Strtod, NumberMarks)
      /\ \A j \in Strtod + 1 .. Len(text) + 1 : ~IsExponent(Mantissa, j, NumberMarks)
  BY ExponentEnds
<1>3. /\ Char(Point) = "." => /\ Mantissa >= Point + 1 /\ Within(Point + 1, Mantissa, NumberDigits)
                              /\ Char(Mantissa) \notin NumberDigits
      /\ Char(Point) # "." => Mantissa = Point
      /\ Mantissa >= Point
  BY <1>1, <1>2 DEF MantissaRun
<1>4. NumberDigits \in {Digit, Hex} /\ Digit \subseteq NumberDigits
  BY NumberCharacters DEF NumberDigits
<1>5. \A c \in NumberMarks \cup {"."} : c \notin NumberDigits
  BY NumberCharacters DEF NumberMarks, NumberDigits
<1>6. \A j : IsFloating(cursor, j) <=>
               \/ IsFraction(NumberStart, j, NumberDigits)
               \/ \E m \in NumberStart + 1 .. j - 1 :
                    /\ IsFraction(NumberStart, m, NumberDigits) \/ Within(NumberStart, m, NumberDigits)
                    /\ IsExponent(m, j, NumberMarks)
  BY DEF IsFloating, NumberStart, NumberDigits, NumberMarks
<1>7. IsInteger(cursor, Strtod) \/ IsFloating(cursor, Strtod)
  <2>1. CASE Char(Point) = "."
    <3>1. NumberStart + 1 < Mantissa
      <4>1. CASE NumberStart < Point
        BY <1>1, <1>2, <1>3, <2>1, <4>1
      <4>2. CASE NumberStart = Point
        <5>1. Char(Point + 1) \in NumberDigits
          BY <1>1, <1>4, <4>2, FloatParts
        <5>2. Mantissa # Point + 1
          BY <1>3, <2>1, <5>1
        <5> QED
          BY <1>1, <1>2, <1>3, <2>1, <4>2, <5>2
      <4> QED
        BY <1>1, <4>1, <4>2
    <3>2. IsFraction(NumberStart, Mantissa, NumberDigits)
      <4>1. Point \in NumberStart .. Mantissa - 1
        BY <1>1, <1>2, <1>3, <2>1
      <4> QED
        BY <1>1, <1>3, <2>1, <3>1, <4>1 DEF IsFraction
    <3>3. CASE Strtod = Mantissa
      BY <1>6, <3>2, <3>3
    <3>4. CASE IsExponent(Mantissa, Strtod, NumberMarks)
      <4>1. Mantissa \in NumberStart + 1 .. Strtod - 1
        <5>1. \E first \in Mantissa + 1 .. Strtod - 1 : TRUE
          BY <3>4 DEF IsExponent
        <5> QED
          BY <1>1, <1>2, <3>1, <5>1
      <4> QED
        BY <1>6, <3>2, <3>4, <4>1
    <3> QED
      BY <1>2, <3>3, <3>4
  <2>2. CASE Char(Point) # "."
    <3>1. Char(cursor) \in Digit /\ NumberStart < Point /\ Strtol = Point /\ Mantissa = Point
      BY <1>3, <2>2, FloatParts
    <3>2. CASE Strtod = Mantissa
      BY <3>1, <3>2, IntegerSpan
    <3>3. CASE IsExponent(Mantissa, Strtod, NumberMarks)
      <4>1. Mantissa \in NumberStart + 1 .. Strtod - 1
        <5>1. \E first \in Mantissa + 1 .. Strtod - 1 : TRUE
          BY <3>3 DEF IsExponent
        <5> QED
          BY <1>1, <1>2, <3>1, <5>1
      <4> QED
        BY <1>1, <1>6, <3>1, <3>3, <4>1
    <3> QED
      BY <1>2, <3>2, <3>3
  <2> QED
    BY <2>1, <2>2
<1>8. ASSUME NEW j \in Strtod + 1 .. Len(text) + 1 PROVE ~IsInteger(cursor, j)
  <2>1. CASE Char(cursor) = "."
    <3> SUFFICES ASSUME IsInteger(cursor, j) PROVE FALSE
      OBVIOUS
    <3>1. cursor < j /\ Within(cursor, j, Digit)
      BY <2>1 DEF IsInteger, IsHex
    <3>2. Char(cursor) \in Digit
      BY <1>1, <1>2, <1>8, <3>1 DEF Within
    <3> QED
      BY <2>1, <3>2, NumberCharacters
  <2>2. CASE Char(cursor) # "."
    <3>1. Char(cursor) \in Digit /\ Strtol = Point
      BY <2>2, FloatParts
    <3>2. j \in Strtol + 1 .. Len(text) + 1
      BY <1>1, <1>2, <1>3, <1>8, <3>1
    <3> QED
      BY <3>1, <3>2, IntegerSpan
  <2> QED
    BY <2>1, <2>2
<1>9. ASSUME NEW j \in Strtod + 1 .. Len(text) + 1, IsFloating(cursor, j) PROVE FALSE
  <2>1. j \in Nat /\ j > Strtod
    BY <1>1, <1>2
  <2>2. ASSUME NEW m \in Nat, IsFraction(NumberStart, m, NumberDigits)
        PROVE  Char(Point) = "." /\ Point + 1 <= m /\ Within(Point + 1, m, NumberDigits)
    <3>1. PICK p \in NumberStart .. m - 1 :
            Char(p) = "." /\ Within(NumberStart, p, NumberDigits) /\ Within(p + 1, m, NumberDigits)
      BY <2>2 DEF IsFraction
    <3>2. p = Point
      <4>1. p \in Nat /\ NumberStart <= p /\ Char(p) \notin NumberDigits
        BY <1>1, <1>5, <3>1
      <4> QED
        BY <1>1, <3>1, <4>1, SameRun
    <3> QED
      BY <1>1, <3>1, <3>2
  <2>3. CASE IsFraction(NumberStart, j, NumberDigits)
    <3>1. Char(Point) = "." /\ Point + 1 <= j /\ Within(Point + 1, j, NumberDigits)
      BY <2>1, <2>2, <2>3
    <3>2. j <= Mantissa
      BY <1>1, <1>2, <1>3, <2>1, <3>1, SameRun
    <3> QED
      BY <1>2, <2>1, <3>2
  <2>4. CASE \E m \in NumberStart + 1 .. j - 1 :
               /\ IsFraction(NumberStart, m, NumberDigits) \/ Within(NumberStart, m, NumberDigits)
               /\ IsExponent(m, j, NumberMarks)
    <3>1. PICK m \in NumberStart + 1 .. j - 1 :
            /\ IsFraction(NumberStart, m, NumberDigits) \/ Within(NumberStart, m, NumberDigits)
            /\ IsExponent(m, j, NumberMarks)
      BY <2>4
    <3>2. m \in Nat /\ NumberStart <= m /\ Char(m) \in NumberMarks /\ Char(m) \notin NumberDigits
      BY <1>1, <1>5, <2>1, <3>1 DEF IsExponent
    <3>3. CASE IsFraction(NumberStart, m, NumberDigits)
      <4>1. Char(Point) = "." /\ Point + 1 <= m /\ Within(Point + 1, m, NumberDigits)
        BY <2>2, <3>2, <3>3
      <4>2. m = Mantissa
        BY <1>1, <1>2, <1>3, <3>2, <4>1, SameRun
      <4> QED
        BY <1>2, <1>9, <3>1, <4>2
    <3>4. CASE Within(NumberStart, m, NumberDigits)
      <4>1. m = Point
        BY <1>1, <3>2, <3>4, SameRun
      <4>2. Char(Point) # "."
        BY <3>2, <4>1, NumberCharacters DEF NumberMarks
      <4> QED
        BY <1>2, <1>3, <1>9, <3>1, <4>1, <4>2
    <3> QED
      BY <3>1, <3>3, <3>4
  <2> QED
    BY <1>6, <1>9, <2>3, <2>4
<1> QED
  BY <1>7, <1>8, <1>9 DEF LongestNumber

-----------------------------------------------------------------------------
(* What is the longest stays it.                                            *)
LEMMA LongestStays ==
  ASSUME UNCHANGED text, NEW t, Longest(t)
  PROVE  Longest(t)'
<1>1. (\A i : Char(i)' = Char(i)) /\ (\A i : IsHex(i)' <=> IsHex(i))
  BY DEF Char, IsHex
<1>2. \A i, j, chars : Within(i, j, chars)' <=> Within(i, j, chars)
  BY <1>1 DEF Within
<1>3. \A i, j : IsInteger(i, j)' <=> IsInteger(i, j)
  BY <1>1, <1>2 DEF IsInteger
<1>4. \A i, j, chars : IsFraction(i, j, chars)' <=> IsFraction(i, j, chars)
  BY <1>1, <1>2 DEF IsFraction
<1>5. \A i, j, chars : IsExponent(i, j, chars)' <=> IsExponent(i, j, chars)
  BY <1>1, <1>2 DEF IsExponent
<1>6. \A i, j : IsFloating(i, j)' <=> IsFloating(i, j)
  BY <1>1, <1>2, <1>4, <1>5 DEF IsFloating
<1>7. FloatMissed(t)' <=> FloatMissed(t)
  BY <1>1, <1>2 DEF FloatMissed, Behind
<1>8. LongestNumber(t)' <=> LongestNumber(t)
  BY <1>3, <1>6, <1>7 DEF LongestNumber, Behind
<1>9. \A w : BeginsAt(w, t.loc)' <=> BeginsAt(w, t.loc)
  BY DEF BeginsAt, Span
<1> QED
  BY <1>1, <1>8, <1>9 DEF Longest, Behind

(* A step that gives a token leaves the tokens before it as they were; the  *)
(* new one is right if it is told where it begins, ends and what it is.     *)
LEMMA Given ==
  ASSUME ScanInv, NEW kind \in Kind \cup {EOF}, NEW end \in Place, NEW length \in Nat, NEW at,
         Give(kind, end, length, at),
         at = IF kind = FLOAT THEN 0 ELSE line,
         \A i \in cursor .. end - 1 : Char(i) \notin Newline,
         \/ end = cursor + length
         \/ kind = FLOAT /\ end = cursor + length + 1 /\ Char(cursor + length) \in Suffix,
         kind = EOF => Char(cursor) \notin Ident1 \cup OpChar,
         Longest([kind |-> kind, loc |-> cursor, length |-> length, line |-> at])
  PROVE  ScanInv'
<1> DEFINE T == [kind : Kind \cup {EOF}, loc : Place, length : Nat, line : Nat]
<1>0. PICK token, size :
        /\ token = [kind |-> kind, loc |-> cursor, length |-> length, line |-> at]
        /\ size = Len(tokens)
  OBVIOUS
<1>1. /\ text' = text /\ line' = line /\ cursor' = end /\ pc' = "idle"
      /\ tokens' = Append(tokens, token)
  BY <1>0 DEF Give
<1>2. /\ Len(text) \in Nat /\ cursor \in Nat /\ cursor >= 1 /\ end \in Nat /\ text \in Seq(STRING)
      /\ line \in Nat
  BY Text DEF ScanInv, Types, Place
<1>3. tokens \in Seq(T) /\ token \in T
  BY <1>0, <1>2 DEF ScanInv, Types
<1>4. /\ size \in Nat /\ size = Len(tokens) /\ Len(tokens') = size + 1
      /\ DOMAIN tokens = 1 .. size /\ DOMAIN tokens' = 1 .. size + 1
      /\ \A n \in 1 .. size : tokens'[n] = tokens[n]
      /\ tokens'[size + 1] = token
      /\ tokens' \in Seq(T)
  BY <1>0, <1>1, <1>3, LenProperties, AppendProperties
<1>5. token.kind = kind /\ token.loc = cursor /\ token.length = length /\ token.line = at
  BY <1>0
<1> HIDE DEF T
<1>6. \A i : Char(i)' = Char(i)
  BY <1>1 DEF Char
<1>7. Types'
  BY <1>1, <1>2, <1>4 DEF Types, Place, T
<1>8. \A n \in 1 .. size : Placed(n)' /\ Longest(tokens[n])'
  <2> SUFFICES ASSUME NEW n \in 1 .. size PROVE Placed(n)' /\ Longest(tokens[n])'
    OBVIOUS
  <2>1. Placed(n) /\ Longest(tokens[n])
    BY <1>4 DEF ScanInv, TokensPlaced, MaximalMunch
  <2>2. tokens'[n] = tokens[n] /\ (n # 1 => n - 1 \in 1 .. size /\ tokens'[n - 1] = tokens[n - 1])
    BY <1>4
  <2>3. Placed(n)'
    <3>1. CASE n = 1
      BY <1>1, <2>1, <2>2, <3>1 DEF Placed, LineAt, Behind, Char
    <3>2. CASE n # 1
      BY <1>1, <2>1, <2>2, <3>2 DEF Placed, LineAt, Behind, Char
    <3> QED
      BY <3>1, <3>2
  <2>4. Longest(tokens[n])'
    <3>1. PICK t : t = tokens[n]
      OBVIOUS
    <3>2. t = tokens'[n] /\ Longest(t)
      BY <2>1, <2>2, <3>1
    <3>3. Longest(t)'
      BY <1>1, <3>2, LongestStays
    <3> QED
      BY <3>2, <3>3
  <2> QED
    BY <2>3, <2>4
<1>9. size # 0 => tokens # <<>> /\ size \in DOMAIN tokens
  BY <1>4
<1>10. size = 0 => tokens = <<>>
  BY <1>0, <1>3, EmptySeq
<1>11. Placed(size + 1)'
  <2> DEFINE n == size + 1
             begin == IF n = 1 THEN 1 ELSE Behind(tokens'[n - 1])
             suffixed == n > 1 /\ tokens'[n - 1].kind = FLOAT /\ Char(begin) \in Suffix
  <2>1. begin = Begin /\ (suffixed <=> Suffixed)
    BY <1>4, <1>9, <1>10 DEF Begin, Suffixed, Last
  <2>2. begin <= cursor /\ \A i \in begin .. cursor - 1 : Char(i) \in Blank \/ (i = begin /\ suffixed)
    BY <2>1, <1>2 DEF ScanInv, Reached
  <2>3. at = IF kind = FLOAT THEN 0 ELSE LineAt(cursor)
    BY DEF ScanInv, Reached
  <2> HIDE DEF begin, suffixed
  <2>4. Placed(n)' <=>
          /\ begin <= token.loc
          /\ \A i \in begin .. token.loc - 1 : Char(i) \in Blank \/ (i = begin /\ suffixed)
          /\ token.kind = EOF => Char(token.loc) \notin Ident1 \cup OpChar
          /\ token.line = IF token.kind = FLOAT THEN 0 ELSE LineAt(token.loc)
    BY <1>1, <1>4, <1>6 DEF Placed, Suffix, LineAt, Behind, begin, suffixed, Char
  <2> QED
    BY <2>2, <2>3, <2>4, <1>5
<1>12. Longest(token)'
  BY <1>0, <1>1, LongestStays
<1>13. TokensPlaced' /\ MaximalMunch'
  BY <1>4, <1>8, <1>11, <1>12 DEF TokensPlaced, MaximalMunch
<1>14. Reached'
  <2>1. Last' = token /\ tokens' # <<>>
    BY <1>4 DEF Last
  <2>2. Begin' = cursor + length /\ (Suffixed' <=> kind = FLOAT /\ Char(cursor + length) \in Suffix)
    BY <1>5, <1>6, <2>1 DEF Begin, Suffixed, Behind
  <2>3. LineAt(end) = LineAt(cursor)
    <3>1. cursor \in Place /\ cursor <= end
      BY <1>2 DEF ScanInv, Types
    <3> QED
      BY <1>2, <3>1, SameLine
  <2>4. LineAt(end)' = LineAt(end)
    <3>1. {k \in 1 .. end - 1 : Char(k) \in Newline}' = {k \in 1 .. end - 1 : Char(k) \in Newline}
      BY <1>6
    <3> QED
      BY <3>1 DEF LineAt
  <2>5. LineAt(cursor)' = LineAt(end)'
    BY <1>1 DEF LineAt
  <2>6. (line = LineAt(cursor))'
    BY <1>1, <2>3, <2>4, <2>5 DEF ScanInv, Reached
  <2> QED
    BY <1>1, <1>2, <1>6, <2>2, <2>6 DEF Reached, Place
<1> QED
  BY <1>7, <1>13, <1>14 DEF ScanInv

(* A step that gives none changes nothing of them.                          *)
LEMMA Kept ==
  ASSUME ScanInv, UNCHANGED <<text, tokens>>, Types', Reached'
  PROVE  ScanInv'
<1>1. TokensPlaced'
  <2> SUFFICES ASSUME NEW n \in DOMAIN tokens PROVE Placed(n)'
    BY DEF TokensPlaced
  <2>1. Placed(n)
    BY DEF ScanInv, TokensPlaced
  <2>2. CASE n = 1
    BY <2>1, <2>2 DEF Placed, LineAt, Behind, Char
  <2>3. CASE n # 1
    BY <2>1, <2>3 DEF Placed, LineAt, Behind, Char
  <2> QED
    BY <2>2, <2>3
<1>2. MaximalMunch'
  <2> SUFFICES ASSUME NEW n \in DOMAIN tokens PROVE Longest(tokens[n])'
    BY DEF MaximalMunch
  <2>1. PICK t : t = tokens[n]
    OBVIOUS
  <2>2. t = tokens'[n] /\ Longest(t)
    BY <2>1 DEF ScanInv, MaximalMunch
  <2>3. Longest(t)'
    BY <2>2, LongestStays
  <2> QED
    BY <2>2, <2>3
<1> QED
  BY <1>1, <1>2 DEF ScanInv

(* A step that moves neither the cursor nor the line keeps everything.      *)
LEMMA Stayed ==
  ASSUME ScanInv, UNCHANGED <<text, cursor, line, tokens>>,
         pc' \in {"idle", "skip", "scan"}, pc' # "idle" => status' = "open"
  PROVE  ScanInv'
<1>1. Types'
  BY DEF ScanInv, Types, Place
<1>2. Reached'
  BY DEF ScanInv, Reached, LineAt, Begin, Suffixed, Last, Behind, Char
<1> QED
  BY <1>1, <1>2, Kept
-----------------------------------------------------------------------------
(* The invariant holds at first, and every action keeps it.                 *)
LEMMA ScanInit == Init => ScanInv
<1> SUFFICES ASSUME Init PROVE ScanInv
  OBVIOUS
<1>1. text \in Seq(STRING) /\ Len(text) \in Nat
  BY TextAssumption, Text DEF Init
<1>2. Types
  BY <1>1 DEF Init, Types, Place
<1>3. Reached
  <2>1. {i \in 1 .. 1 - 1 : Char(i) \in Newline} = {}
    OBVIOUS
  <2>2. LineAt(1) = 1
    BY <2>1, FS_EmptySet DEF LineAt
  <2> QED
    BY <2>2 DEF Init, Reached, Begin
<1>4. TokensPlaced /\ MaximalMunch
  BY DEF Init, TokensPlaced, MaximalMunch
<1> QED
  BY <1>2, <1>3, <1>4 DEF ScanInv

(* The EOF is given where no token begins.                                  *)
LEMMA EndKeeps ==
  ASSUME ScanInv, Give(EOF, cursor, 0, line), Char(cursor) \notin Ident1 \cup OpChar
  PROVE  ScanInv'
<1>1. cursor \in Place /\ cursor \in Nat
  BY Text DEF ScanInv, Types, Place
<1>2. Longest([kind |-> EOF, loc |-> cursor, length |-> 0, line |-> line])
  BY Sorts DEF Longest
<1>3. EOF # FLOAT
  BY Sorts DEF Numbers
<1> QED
  BY <1>1, <1>2, <1>3, Given

(* lexer_get gives the EOF at the NUL, and scans before it.                 *)
LEMMA GetKeeps ==
  ASSUME ScanInv, Get
  PROVE  ScanInv'
<1>1. CASE Char(cursor) = "NUL" /\ End
  BY <1>1, EndKeeps, Characters DEF End
<1>2. CASE pc' = "skip" /\ UNCHANGED <<text, cursor, line, status, tokens>>
  BY <1>2, Stayed DEF Get
<1> QED
  BY <1>1, <1>2 DEF Get

(* lexer_skip passes white space and counts its lines.                      *)
LEMMA SkipKeeps ==
  ASSUME ScanInv, Skip
  PROVE  ScanInv'
<1>1. /\ Len(text) \in Nat /\ cursor \in Nat /\ cursor >= 1 /\ cursor <= Len(text) + 1
      /\ text \in Seq(STRING) /\ line \in Nat /\ status = "open"
  BY Text DEF ScanInv, Types, Place, Skip
<1>2. CASE /\ Char(cursor) \in Blank
           /\ cursor' = Past(Char(cursor))
           /\ line' = line + Lines(Char(cursor))
           /\ UNCHANGED <<text, pc, status, tokens>>
  <2>1. cursor \in 1 .. Len(text)
    BY <1>1, <1>2, Text, Characters
  <2>2. cursor' = cursor + 1
    BY <1>2 DEF Past
  <2>3. line = LineAt(cursor) /\ line' = LineAt(cursor + 1) /\ line' \in Nat
    BY <1>1, <1>2, <2>1, NextLine DEF ScanInv, Reached, Lines
  <2>4. Types'
    BY <1>1, <1>2, <2>1, <2>2, <2>3 DEF ScanInv, Types, Place
  <2>5. LineAt(cursor)' = LineAt(cursor + 1)
    BY <1>2, <2>2 DEF LineAt, Char
  <2>6. /\ Begin' = Begin /\ (Suffixed' <=> Suffixed)
        /\ \A i : Char(i)' = Char(i)
    BY <1>2 DEF Begin, Suffixed, Last, Behind, Char
  <2>7. Reached'
    BY <1>1, <1>2, <2>2, <2>3, <2>5, <2>6 DEF ScanInv, Reached
  <2> QED
    BY <1>2, <2>4, <2>7, Kept
<1>3. CASE pc' = "scan" /\ UNCHANGED <<text, cursor, line, status, tokens>>
  BY <1>1, <1>3, Stayed
<1> QED
  BY <1>2, <1>3 DEF Skip

(* An integer is given with the length strtol read.                         *)
LEMMA IntegerKeeps ==
  ASSUME ScanInv, Integer
  PROVE  ScanInv'
<1>1. Types /\ Char(cursor) \in Digit
  BY DEF ScanInv, Integer, IsNumconst, IsFloat
<1>2. cursor \in Nat /\ Strtol \in Nat /\ cursor <= Strtol /\ Strtol \in Place
  BY <1>1, IntegerEnds, Text DEF Types, Place
<1> DEFINE token == [kind |-> INTEGER, loc |-> cursor, length |-> Strtol - cursor, line |-> line]
<1>3. Longest(token)
  <2>1. token.kind = INTEGER /\ token.loc = cursor /\ Behind(token) = Strtol
    BY <1>2 DEF Behind
  <2>2. INTEGER \in Numbers /\ INTEGER \notin Words /\ INTEGER \notin Operators
    BY Sorts DEF Numbers
  <2>3. LongestNumber(token)
    <3> HIDE DEF token
    <3> QED
      BY <1>1, <2>1, IntegerLongest DEF Integer
  <2> HIDE DEF token
  <2> QED
    BY <2>1, <2>2, <2>3 DEF Longest
<1>4. \A i \in cursor .. Strtol - 1 : Char(i) \notin Newline
  BY <1>1, IntegerEnds, Characters DEF Blank
<1>5. INTEGER \in Kind /\ INTEGER # FLOAT /\ INTEGER # EOF
  BY Sorts DEF Numbers
<1>6. Strtol - cursor \in Nat /\ Strtol = cursor + (Strtol - cursor)
  BY <1>2
<1> QED
  BY <1>2, <1>3, <1>4, <1>5, <1>6, Given DEF Integer

(* A float is given without its suffix, which is passed.                    *)
LEMMA FloatKeeps ==
  ASSUME ScanInv, Float
  PROVE  ScanInv'
<1> DEFINE suffix == IF Char(Strtod) \in Suffix THEN 1 ELSE 0
<1>1. Types
  BY DEF ScanInv
<1>2. /\ Len(text) \in Nat /\ cursor \in Nat /\ Strtod \in Nat /\ Strtod >= 1 /\ cursor <= Strtod
      /\ Strtod <= Len(text) + 1
  BY <1>1, FloatEnds, Text DEF Types, Place
<1>3. suffix \in 0 .. 1 /\ (suffix = 1 => Char(Strtod) \in Suffix)
  OBVIOUS
<1> HIDE DEF suffix
<1>4. CASE Give(FLOAT, Strtod + suffix, Strtod - cursor, 0)
  <2> DEFINE token == [kind |-> FLOAT, loc |-> cursor, length |-> Strtod - cursor, line |-> 0]
  <2>1. Strtod + suffix \in Place
    <3>1. Char(Strtod) \in Suffix => Strtod \in 1 .. Len(text)
      BY <1>1, <1>2, Text, Characters DEF Types
    <3> QED
      BY <1>2, <1>3, <3>1 DEF Place
  <2>2. Longest(token)
    <3>1. token.kind = FLOAT /\ token.loc = cursor /\ Behind(token) = Strtod
      BY <1>2 DEF Behind
    <3>2. FLOAT \in Numbers /\ FLOAT \notin Words /\ FLOAT \notin Operators
      BY Sorts DEF Numbers
    <3>3. LongestNumber(token)
      <4> HIDE DEF token
      <4> QED
        BY <1>1, <3>1, FloatLongest DEF Float
    <3> HIDE DEF token
    <3> QED
      BY <3>1, <3>2, <3>3 DEF Longest
  <2>3. \A i \in cursor .. (Strtod + suffix) - 1 : Char(i) \notin Newline
    <3>1. \A i \in cursor .. (Strtod + suffix) - 1 : i \in cursor .. Strtod - 1 \/ (i = Strtod /\ Char(i) \in Suffix)
      <4>1. CASE suffix = 0
        BY <1>2, <4>1
      <4>2. CASE suffix = 1
        BY <1>2, <1>3, <4>2
      <4> QED
        BY <1>3, <4>1, <4>2
    <3> QED
      BY <1>1, <3>1, FloatEnds, Characters DEF Blank
  <2>4. FLOAT \in Kind /\ FLOAT # EOF
    BY Sorts DEF Numbers
  <2>5. /\ Strtod - cursor \in Nat /\ Strtod = cursor + (Strtod - cursor)
        /\ \/ Strtod + suffix = cursor + (Strtod - cursor)
           \/ Strtod + suffix = cursor + (Strtod - cursor) + 1 /\ Char(cursor + (Strtod - cursor)) \in Suffix
    BY <1>2, <1>3
  <2> QED
    BY <1>4, <2>1, <2>2, <2>3, <2>4, <2>5, Given
<1>5. CASE pc' = "idle" /\ UNCHANGED <<text, cursor, line, tokens>>
  BY <1>5, Stayed
<1> QED
  BY <1>4, <1>5 DEF Float, Suffix, suffix

(* An identifier or a keyword goes on to the end of the word.               *)
LEMMA IdentifierKeeps ==
  ASSUME ScanInv, Identifier
  PROVE  ScanInv'
<1>1. Types /\ text \in Seq(STRING) /\ cursor \in Place /\ "NUL" \notin Ident1
  BY Characters DEF ScanInv, Types
<1>2. /\ WordEnd \in cursor .. Len(text) + 1 /\ Char(WordEnd) \notin Ident1
      /\ \A k \in cursor .. WordEnd - 1 : Char(k) \in Ident1
  BY <1>1, RunEnds DEF WordEnd
<1>3. /\ Len(text) \in Nat /\ cursor \in Nat /\ cursor >= 1 /\ WordEnd \in Nat /\ cursor <= WordEnd
      /\ WordEnd \in Place
  BY <1>1, <1>2, Text DEF Place
<1>4. PICK kind \in Kinds(Span(cursor, WordEnd)) : Give(kind, WordEnd, WordEnd - cursor, line)
  BY DEF Identifier
<1>5. kind \in Words
  BY <1>4 DEF Kinds, Words
<1>6. kind \in Kind /\ kind # FLOAT /\ kind # EOF
  BY <1>5, Sorts DEF Kind, Numbers
<1> DEFINE token == [kind |-> kind, loc |-> cursor, length |-> WordEnd - cursor, line |-> line]
<1>7. Longest(token)
  <2>1. token.kind = kind /\ Behind(token) = WordEnd
    BY <1>3 DEF Behind
  <2>2. kind \notin Numbers /\ kind \notin Operators
    BY <1>5, Sorts
  <2> HIDE DEF token
  <2> QED
    BY <1>2, <1>5, <2>1, <2>2 DEF Longest
<1>8. \A i \in cursor .. WordEnd - 1 : Char(i) \notin Newline
  BY <1>2, Characters DEF Blank
<1>9. WordEnd - cursor \in Nat /\ WordEnd = cursor + (WordEnd - cursor)
  BY <1>3
<1> QED
  BY <1>3, <1>4, <1>6, <1>7, <1>8, <1>9, Given

(* The characters of a part of the text.                                    *)
LEMMA Spans ==
  ASSUME text \in Seq(STRING), NEW i \in 1 .. Len(text), NEW n \in 1 .. 3, i + n <= Len(text) + 1
  PROVE  /\ Len(Span(i, i + n)) = n
         /\ \A k \in 1 .. n : Span(i, i + n)[k] = Char(i + k - 1)
         /\ n = 1 => Span(i, i + n) = <<Char(i)>>
         /\ n = 2 => Span(i, i + n) = <<Char(i), Char(i + 1)>>
         /\ n = 3 => Span(i, i + n) = <<Char(i), Char(i + 1), Char(i + 2)>>
<1>1. Len(text) \in Nat /\ i \in Nat /\ i >= 1
  BY Text
<1>2. Span(i, i + n) = [k \in 1 .. n |-> text[i + k - 1]]
  BY <1>1, SubSeqProperties DEF Span
<1>3. \A k \in 1 .. n : Char(i + k - 1) = text[i + k - 1]
  BY <1>1 DEF Char
<1>4. Span(i, i + n) = [k \in 1 .. n |-> Char(i + k - 1)]
  BY <1>2, <1>3
<1>5. Len(Span(i, i + n)) = n
  BY <1>4
<1>6. CASE n = 1
  BY <1>1, <1>4, <1>5, <1>6
<1>7. CASE n = 2
  BY <1>1, <1>4, <1>5, <1>7
<1>8. CASE n = 3
  BY <1>1, <1>4, <1>5, <1>8
<1> QED
  BY <1>4, <1>5, <1>6, <1>7, <1>8

(* What the scanner takes for an operator is one, and nothing but.          *)
LEMMA OperatorTaken ==
  ASSUME Types, Char(cursor) \in OpChar,
         NEW c, NEW n, c = Char(cursor), n = OpLength
  PROVE  /\ cursor \in 1 .. Len(text) /\ n \in 1 .. 3 /\ cursor + n \in Place
         /\ \A i \in cursor .. (cursor + n) - 1 : Char(i) \in OpChar
         /\ OpKind(Span(cursor, cursor + n)) \in Operators
         /\ n = 1 => Char(cursor + 1) \notin Second(c)
         /\ n = 3 <=> /\ Char(cursor + 1) \in Second(c)
                      /\ c \in {"<", ">"} /\ Char(cursor + 1) = c /\ Char(cursor + 2) = "="
<1>1. /\ text \in Seq(STRING) /\ Len(text) \in Nat /\ cursor \in Nat /\ cursor >= 1
      /\ cursor \in Place
  BY Text DEF Types, Place
<1>2. \A i \in Nat \ {0} : Char(i) # "NUL" => i \in 1 .. Len(text)
  BY <1>1, Text
<1>3. cursor \in 1 .. Len(text)
  BY <1>1, <1>2, Characters
<1>4. /\ n \in 1 .. 3
      /\ n = 1 => Char(cursor + 1) \notin Second(c)
      /\ n # 1 => Char(cursor + 1) \in Second(c)
      /\ n = 3 <=> /\ Char(cursor + 1) \in Second(c)
                   /\ c \in {"<", ">"} /\ Char(cursor + 1) = c /\ Char(cursor + 2) = "="
  BY DEF OpLength
<1>5. Second(c) \subseteq OpChar
  BY DEF Second, OpChar
<1>6. cursor + n \in Place /\ \A i \in cursor .. (cursor + n) - 1 : Char(i) \in OpChar
  <2>1. n # 1 => cursor + 1 <= Len(text) /\ Char(cursor + 1) \in OpChar
    BY <1>1, <1>2, <1>4, <1>5, Characters
  <2>2. n = 3 => cursor + 2 <= Len(text) /\ Char(cursor + 2) \in OpChar
    <3>1. "=" \in OpChar /\ "=" # "NUL"
      BY DEF OpChar
    <3> QED
      BY <1>1, <1>2, <1>4, <3>1
  <2> QED
    BY <1>1, <1>3, <1>4, <2>1, <2>2 DEF Place
<1>7. /\ Span(cursor, cursor + n) = <<c>> \/ n # 1
      /\ Span(cursor, cursor + n) = <<c, Char(cursor + 1)>> \/ n # 2
      /\ Span(cursor, cursor + n) = <<c, c, "=">> \/ n # 3
  BY <1>1, <1>3, <1>4, <1>6, Spans DEF Place
<1>8. OpKind(Span(cursor, cursor + n)) \in Operators
  <2>1. CASE n = 1
    BY <1>7, <2>1, OperatorSpelled
  <2>2. CASE n = 2
    BY <1>4, <1>7, <2>2, OperatorSpelled
  <2>3. CASE n = 3
    BY <1>4, <1>7, <2>3, OperatorSpelled
  <2> QED
    BY <1>4, <2>1, <2>2, <2>3
<1> QED
  BY <1>3, <1>4, <1>6, <1>8

(* An operator is the longest one; what begins no token is the end.         *)
LEMMA OpSepKeeps ==
  ASSUME ScanInv, OpSep
  PROVE  ScanInv'
<1>1. /\ Types /\ text \in Seq(STRING) /\ cursor \in Nat /\ cursor >= 1
  BY Text DEF ScanInv, Types, Place
<1>2. CASE /\ Char(cursor) \in OpChar
           /\ Give(OpKind(Span(cursor, cursor + OpLength)), cursor + OpLength, OpLength, line)
  <2>1. PICK c, n : c = Char(cursor) /\ n = OpLength
    OBVIOUS
  <2>2. PICK kind : kind = OpKind(Span(cursor, cursor + n))
    OBVIOUS
  <2>3. /\ cursor \in 1 .. Len(text) /\ n \in 1 .. 3 /\ cursor + n \in Place
        /\ \A i \in cursor .. (cursor + n) - 1 : Char(i) \in OpChar
        /\ kind \in Operators
        /\ n = 1 => Char(cursor + 1) \notin Second(c)
        /\ n = 3 <=> /\ Char(cursor + 1) \in Second(c)
                     /\ c \in {"<", ">"} /\ Char(cursor + 1) = c /\ Char(cursor + 2) = "="
    BY <1>1, <1>2, <2>1, <2>2, OperatorTaken
  <2>4. kind \in Kind /\ kind # FLOAT /\ kind # EOF
    BY <2>3, Sorts DEF Kind, Numbers
  <2>5. Longest([kind |-> kind, loc |-> cursor, length |-> n, line |-> line])
    <3>1. kind \notin Words /\ kind \notin Numbers
      BY <2>3, Sorts
    <3>2. ASSUME NEW w \in Operators \ {ELLIPSIS}, Len(w) > n
          PROVE  ~BeginsAt(w, cursor)
      <4> SUFFICES ASSUME cursor + Len(w) <= Len(text) + 1, Span(cursor, cursor + Len(w)) = w
                   PROVE  FALSE
        BY DEF BeginsAt
      <4>1. Len(w) \in 2 .. 3 /\ w[2] \in Second(w[1])
        BY <2>3, <3>2, OperatorShape
      <4>2. PICK m \in 2 .. 3 : m = Len(w)
        BY <4>1
      <4>3. \A k \in 1 .. m : w[k] = Char(cursor + k - 1)
        <5>1. m \in 1 .. 3 /\ cursor + m <= Len(text) + 1 /\ w = Span(cursor, cursor + m)
          BY <3>2, <4>2
        <5> QED
          BY <1>1, <2>3, <5>1, Spans
      <4>4. w[1] = c /\ w[2] = Char(cursor + 1) /\ (m = 3 => w[3] = Char(cursor + 2))
        <5>1. cursor + 1 - 1 = cursor /\ cursor + 2 - 1 = cursor + 1 /\ cursor + 3 - 1 = cursor + 2
          BY <1>1
        <5> QED
          BY <2>1, <4>3, <5>1
      <4>5. n = 2 /\ m = 3
        <5>1. m > n /\ n \in 1 .. 3 /\ (m = 2 \/ m = 3)
          BY <2>3, <3>2, <4>2
        <5>2. n # 1
          BY <2>3, <4>1, <4>4
        <5>3. n = 2 \/ n = 3
          BY <5>1, <5>2
        <5> QED
          BY <5>1, <5>3
      <4> QED
        BY <2>3, <4>1, <4>2, <4>4, <4>5, OperatorShape
    <3> QED
      BY <2>3, <3>1, <3>2 DEF Longest
  <2>6. \A i \in cursor .. (cursor + n) - 1 : Char(i) \notin Newline
    BY <2>3, Characters DEF Blank
  <2> QED
    BY <1>2, <2>1, <2>2, <2>3, <2>4, <2>5, <2>6, Given
<1>3. CASE Char(cursor) \notin OpChar \cup Ident0 \cup {"#"} /\ End
  BY <1>3, EndKeeps DEF OpSep, IsNumconst, Ident1, End
<1> QED
  BY <1>2, <1>3 DEF OpSep

(* Every step keeps the invariant.                                          *)
LEMMA ScanNext == ScanInv /\ [Next]_vars => ScanInv'
<1> SUFFICES ASSUME ScanInv, [Next]_vars PROVE ScanInv'
  OBVIOUS
<1>1. CASE Register
  BY <1>1, Stayed DEF Register, ScanInv, Types
<1>2. CASE Get
  BY <1>2, GetKeeps
<1>3. CASE Skip
  BY <1>3, SkipKeeps
<1>4. CASE Directive
  BY <1>4, Stayed DEF Directive, ScanInv, Types
<1>5. CASE Integer
  BY <1>5, IntegerKeeps
<1>6. CASE Float
  BY <1>6, FloatKeeps
<1>7. CASE Identifier
  BY <1>7, IdentifierKeeps
<1>8. CASE OpSep
  BY <1>8, OpSepKeeps
<1>9. CASE UNCHANGED vars
  BY <1>9, Stayed DEF vars, ScanInv, Types
<1> QED
  BY <1>1, <1>2, <1>3, <1>4, <1>5, <1>6, <1>7, <1>8, <1>9 DEF Next

(* The inductive invariant of the scanner, for every text: the cursor       *)
(* stays in the text, the line is the line of the cursor, and the tokens    *)
(* are placed and munched as the properties say.                            *)
THEOREM ScanInvariant == Spec => []ScanInv
  BY ScanInit, ScanNext, PTL DEF Spec

(* The place of every token and its line, for every text.                   *)
THEOREM PlacesTokens == Spec => []TokensPlaced
<1>1. ScanInv => TokensPlaced
  BY DEF ScanInv
<1> QED
  BY <1>1, ScanInvariant, PTL

(* Every token is the longest one of its sort, for every text and every set *)
(* of keywords.                                                             *)
THEOREM MunchesMaximally == Spec => []MaximalMunch
<1>1. ScanInv => MaximalMunch
  BY DEF ScanInv
<1> QED
  BY <1>1, ScanInvariant, PTL
-----------------------------------------------------------------------------
(* What TokenStream sees: the kinds that were read, the numbers given out,  *)
(* and the one source while it is open.                                     *)
Seen == [n \in DOMAIN tokens |-> [kind |-> tokens[n].kind, source |-> 1]]
Numbered == [n \in DOMAIN tokens |-> n]
Opened == IF status \in {"new", "ended"} THEN <<>> ELSE <<1>>

(* A token that is given is read and numbered after those before it.        *)
LEMMA SeenAppends ==
  ASSUME Types, NEW kind \in Kind \cup {EOF}, NEW end, NEW length, NEW at, Give(kind, end, length, at)
  PROVE  /\ Seen' = Append(Seen, [kind |-> kind, source |-> 1])
         /\ Numbered' = Append(Numbered, Len(tokens) + 1)
         /\ Len(Seen) = Len(tokens) /\ Len(tokens) \in Nat
         /\ DOMAIN tokens' = DOMAIN tokens \cup {Len(tokens) + 1}
<1> DEFINE R == [kind : Kind \cup {EOF}, source : {1}]
           item == [kind |-> kind, source |-> 1]
<1>1. PICK size, token : /\ size = Len(tokens)
                         /\ token = [kind |-> kind, loc |-> cursor, length |-> length, line |-> at]
  OBVIOUS
<1>2. /\ size \in Nat /\ DOMAIN tokens = 1 .. size
      /\ \A n \in 1 .. size : tokens[n].kind \in Kind \cup {EOF}
  <2> DEFINE T == [kind : Kind \cup {EOF}, loc : Place, length : Nat, line : Nat]
  <2>1. tokens \in Seq(T) /\ \A t \in T : t.kind \in Kind \cup {EOF}
    BY DEF Types
  <2> HIDE DEF T
  <2> QED
    BY <1>1, <2>1, LenProperties
<1>3. /\ DOMAIN tokens' = 1 .. size + 1 /\ tokens'[size + 1] = token
      /\ \A n \in 1 .. size : tokens'[n] = tokens[n]
  <2> DEFINE S == {tokens[n] : n \in 1 .. size} \cup {token}
  <2>1. tokens = [n \in 1 .. size |-> tokens[n]]
    BY <1>1, LenProperties DEF Types
  <2>2. tokens \in Seq(S) /\ token \in S
    BY <1>2, <2>1
  <2>3. tokens' = Append(tokens, token)
    BY <1>1 DEF Give
  <2> HIDE DEF S
  <2>4. Len(tokens') = size + 1 /\ tokens' \in Seq(S)
    BY <1>1, <2>2, <2>3, AppendProperties
  <2> QED
    BY <1>1, <2>2, <2>3, <2>4, AppendProperties, LenProperties
<1>4. Seen = [n \in 1 .. size |-> [kind |-> tokens[n].kind, source |-> 1]]
      /\ Numbered = [n \in 1 .. size |-> n]
  BY <1>2 DEF Seen, Numbered
<1>5. /\ DOMAIN tokens' = 1 .. size + 1 /\ token.kind = kind
      /\ \A n \in 1 .. size : tokens'[n] = tokens[n]
      /\ tokens'[size + 1] = token
  BY <1>1, <1>3
<1>6. Seen \in Seq(R) /\ Len(Seen) = size
  BY <1>2, <1>4
<1>7. Numbered \in Seq(Nat) /\ Len(Numbered) = size
  BY <1>2, <1>4
<1>8. Seen' = Append(Seen, item)
  <2>1. PICK s : s = Append(Seen, item)
    OBVIOUS
  <2>2. item \in R
    OBVIOUS
  <2>3. /\ s \in Seq(R) /\ Len(s) = size + 1 /\ s[size + 1] = item
        /\ \A n \in 1 .. size : s[n] = Seen[n]
    BY <1>6, <2>1, <2>2, AppendProperties
  <2>4. ASSUME NEW n \in 1 .. size + 1 PROVE s[n] = [kind |-> tokens'[n].kind, source |-> 1]
    <3>1. CASE n = size + 1
      <4>1. tokens'[n].kind = kind
        BY <1>5, <3>1
      <4>2. s[n] = item
        BY <2>3, <3>1
      <4> QED
        BY <4>1, <4>2
    <3>2. CASE n # size + 1
      <4>1. n \in 1 .. size
        BY <1>2, <3>2
      <4> QED
        BY <1>4, <1>5, <2>3, <4>1
    <3> QED
      BY <3>1, <3>2
  <2>5. s = [n \in 1 .. size + 1 |-> s[n]]
    BY <2>3, LenProperties
  <2>6. s = [n \in 1 .. size + 1 |-> [kind |-> tokens'[n].kind, source |-> 1]]
    BY <2>4, <2>5, Zenon
  <2> QED
    BY <1>5, <2>1, <2>6, Zenon DEF Seen
<1>9. Numbered' = Append(Numbered, size + 1)
  <2>1. /\ Append(Numbered, size + 1) \in Seq(Nat) /\ Len(Append(Numbered, size + 1)) = size + 1
        /\ Append(Numbered, size + 1)[size + 1] = size + 1
        /\ \A n \in 1 .. size : Append(Numbered, size + 1)[n] = n
    BY <1>2, <1>4, <1>7, AppendProperties
  <2>2. Numbered' = [n \in 1 .. size + 1 |-> n]
    BY <1>5 DEF Numbered
  <2>3. Numbered' \in Seq(Nat) /\ Len(Numbered') = size + 1
    BY <1>2, <2>2
  <2>4. \A n \in 1 .. size + 1 : Numbered'[n] = Append(Numbered, size + 1)[n]
    BY <1>2, <2>1, <2>2
  <2> QED
    BY <2>1, <2>3, <2>4, SeqEqual
<1> QED
  BY <1>1, <1>2, <1>5, <1>6, <1>8, <1>9

(* A token that is given is one that a client of TokenStream gets.          *)
LEMMA GiveRefines ==
  ASSUME Types, NEW kind \in Kind \cup {EOF}, NEW end, NEW length, NEW at, Give(kind, end, length, at),
         status = "open", status' = IF kind = EOF THEN "ended" ELSE "open"
  PROVE  Stream!StreamNext
<1>1. /\ Seen' = Append(Seen, [kind |-> kind, source |-> 1])
      /\ Numbered' = Append(Numbered, Len(tokens) + 1)
      /\ Len(Seen) = Len(tokens) /\ Len(tokens) \in Nat
      /\ DOMAIN tokens' = DOMAIN tokens \cup {Len(tokens) + 1}
  BY SeenAppends
<1>2. Opened = <<1>> /\ Opened # <<>> /\ Head(Opened) = 1 /\ Tail(Opened) = <<>>
  BY DEF Opened
<1>3. Opened' = IF kind = EOF THEN Tail(Opened) ELSE Opened
  BY <1>2 DEF Opened
<1>4. Stream!Scan
  BY <1>1, <1>2, <1>3 DEF Stream!Scan, Stream!Pop, NoBound, Kind, Seen, Opened
<1>5. PICK t : t = Len(Seen) + 1
  OBVIOUS
<1>6. Stream!Take(t)
  BY <1>1, <1>2, <1>4, <1>5 DEF Stream!Take, Seen, Opened, Numbered
<1>7. Stream!Get(t)
  BY <1>1, <1>5, <1>6 DEF Stream!Get, Stream!Some, Seen
<1>8. t \in {0, Len(Seen) + 1, 0}
  BY <1>5
<1> QED
  BY <1>7, <1>8, Zenon DEF Stream!StreamNext, Seen

(* TokenStream sees no step that gives no token and opens or ends no        *)
(* source.                                                                  *)
LEMMA StutterRefines ==
  ASSUME tokens' = tokens, Opened' = Opened, status' = "new" <=> status = "new"
  PROVE  UNCHANGED Stream!streamVars
  BY DEF Stream!streamVars, Stream!lexer, Opened

(* At first nothing is open and nothing was read.                           *)
LEMMA InitStreams == Init => Stream!StreamInit
<1> SUFFICES ASSUME Init PROVE Stream!StreamInit
  OBVIOUS
<1>1. Opened = <<>> /\ Seen = <<>> /\ Numbered = <<>> /\ DOMAIN tokens = {}
  BY DEF Init, Opened, Seen, Numbered
<1> QED
  BY <1>1 DEF Init, Stream!StreamInit, Opened, Seen, Numbered

(* Every step gives a token, registers the source, or is not seen.          *)
LEMMA NextStreams == ScanInv /\ [Next]_vars => [Stream!StreamNext]_Stream!streamVars
<1> SUFFICES ASSUME ScanInv, [Next]_vars
             PROVE  Stream!StreamNext \/ UNCHANGED Stream!streamVars
  OBVIOUS
<1>1. Types /\ {INTEGER, FLOAT} \subseteq Kind /\ EOF \notin Kind
  BY Sorts DEF ScanInv, Kind, Numbers
<1>2. ASSUME NEW kind \in Kind \cup {EOF}, NEW end, NEW length, NEW at, Give(kind, end, length, at),
             status = "open", status' = IF kind = EOF THEN "ended" ELSE "open"
      PROVE  Stream!StreamNext
  BY <1>1, <1>2, GiveRefines
<1>3. ASSUME tokens' = tokens, status \in {"open", "crash"}, status' \in {"open", "crash"}
      PROVE  UNCHANGED Stream!streamVars
  BY <1>3, StutterRefines DEF Opened
<1>4. CASE Register
  <2>1. Stream!Register
    BY <1>4 DEF Register, Stream!Register, Stream!streamVars
  <2> QED
    BY <2>1 DEF Stream!StreamNext
<1>5. CASE Get
  BY <1>1, <1>2, <1>3, <1>5 DEF Get, End
<1>6. CASE Skip
  BY <1>1, <1>3, <1>6 DEF Skip, Types
<1>7. CASE Directive
  BY <1>1, <1>3, <1>7 DEF Directive, Types
<1>8. CASE Integer
  BY <1>1, <1>2, <1>8 DEF Integer, Types
<1>9. CASE Float
  <2>1. status = "open" /\ FLOAT # EOF
    BY <1>1, <1>9, Sorts DEF Float, Types, Numbers
  <2>2. CASE status' = "crash" /\ tokens' = tokens
    BY <1>3, <2>1, <2>2
  <2>3. CASE \E end, length : Give(FLOAT, end, length, 0) /\ status' = status
    BY <1>1, <1>2, <2>1, <2>3
  <2> QED
    BY <1>9, <2>2, <2>3 DEF Float
<1>10. CASE Identifier
  <2>1. status = "open" /\ status' = status
    BY <1>1, <1>10 DEF Identifier, Types
  <2>2. PICK kind \in Kinds(Span(cursor, WordEnd)) : Give(kind, WordEnd, WordEnd - cursor, line)
    BY <1>10 DEF Identifier
  <2>3. kind \in Kind
    BY <2>2, Sorts DEF Kinds, Words, Kind
  <2> QED
    BY <1>1, <1>2, <2>1, <2>2, <2>3
<1>11. CASE OpSep
  <2>1. status = "open"
    BY <1>1, <1>11 DEF OpSep, Types
  <2>2. CASE /\ Char(cursor) \in OpChar /\ status' = status
             /\ Give(OpKind(Span(cursor, cursor + OpLength)), cursor + OpLength, OpLength, line)
    <3>1. PICK kind : kind = OpKind(Span(cursor, cursor + OpLength))
      OBVIOUS
    <3>2. kind \in Operators
      BY <1>1, <2>2, <3>1, OperatorTaken
    <3>3. kind \in Kind /\ kind # EOF
      BY <1>1, <3>2 DEF Kind
    <3> QED
      BY <1>2, <2>1, <2>2, <3>1, <3>3
  <2>3. CASE End
    BY <1>2, <2>1, <2>3 DEF End
  <2> QED
    BY <1>11, <2>2, <2>3 DEF OpSep
<1>12. CASE UNCHANGED vars
  BY <1>12, StutterRefines DEF vars, Opened
<1> QED
  BY <1>4, <1>5, <1>6, <1>7, <1>8, <1>9, <1>10, <1>11, <1>12 DEF Next

(* For every text and every set of keywords, the scanner gives one token a  *)
(* call, of a kind of token.h, and none after the EOF: what TokenStream, and*)
(* with it the parser, takes for granted.                                   *)
THEOREM Streams == Spec => ImplementsStream
  BY InitStreams, NextStreams, ScanInvariant, PTL DEF Spec, ImplementsStream, Stream!StreamSpec
=============================================================================
