---------------------------- MODULE KeywordTable ----------------------------
(***************************************************************************)
(* The keyword table of the lexer: lexer_create inserts the keywords of    *)
(* src/keyword.c, in their order, into a hash map of the real capacity     *)
(* with the real hash, and lexer_internal looks every identifier up in it. *)
(* Every call is the Hashmap's, turn by turn.  For TLC only.               *)
(*                                                                         *)
(* A capacity is a power of two of at most Limit, so FNV-1a is computed    *)
(* modulo Limit: bits above never come down to the slot.                   *)
(***************************************************************************)
EXTENDS Hashmap, Bitwise, Sequences

CONSTANT Identifiers \* the identifiers looked up

S == INSTANCE SequencesExt

VARIABLE loaded \* i, the loop of lexer_create

kwrd_map ==
  <<"switch", "case", "default", "if", "else", "for", "while", "do", "continue", "goto",
    "break", "return", "typedef", "extern", "static", "auto", "register", "void", "char",
    "short", "int", "long", "float", "double", "signed", "unsigned", "_Bool", "_Complex",
    "_Imaginary", "const", "restrict", "volatile", "struct", "union", "enum", "inline">>
Keywords == S!ToSet(kwrd_map)

Chars(k) == [i \in 1 .. Len(k) |-> SubSeq(k, i, i)]
Prefixes(k) == {SubSeq(k, 1, n) : n \in 1 .. Len(k)}

(* The characters from code 65, A, to 122, z; those no name has are dots.   *)
Ascii == Chars("ABCDEFGHIJKLMNOPQRSTUVWXYZ...._.abcdefghijklmnopqrstuvwxyz")
Code == [c \in S!ToSet(Ascii) |-> 64 + CHOOSE i \in DOMAIN Ascii : Ascii[i] = c]

fnv1a_hash64(k) ==
  S!FoldLeft(LAMBDA hash, c : ((hash ^^ Code[c]) * 435) % Limit, 805 % Limit, Chars(k))

TableHash == [k \in Key |-> fnv1a_hash64(k)]
TableKey == Keywords \cup Identifiers
TableExtends ==
  {<<k, k>> : k \in Key} \cup UNION {{<<p, k>> : p \in Prefixes(k) \cap Key} : k \in Keywords}

(* i < KWRD_END.  Mutant: the last keyword is forgotten.                    *)
MoreButOne == loaded + 1 < Len(kwrd_map)
More == loaded < Len(kwrd_map)

TableInit == Init /\ loaded = 0

Load ==
  /\ More
  /\ Insert(kwrd_map[loaded + 1], kwrd_map[loaded + 1])
  /\ loaded' = loaded + 1

(* A lookup leaves the table as it is, so one of each key is enough.        *)
LookUp ==
  /\ ~More /\ ret.op = "insert"
  /\ \E k \in Key : Retrieve(k)
  /\ UNCHANGED loaded

Turn == (GrowStep \/ Rehash \/ EndGrow \/ InsertProbe \/ RetrieveProbe) /\ UNCHANGED loaded

TableNext == Load \/ LookUp \/ Turn

TableSpec == TableInit /\ [][TableNext]_<<vars, loaded>>
-----------------------------------------------------------------------------
Answered == pc = "idle" /\ ret.op = "retrieve"

(* The table grows while it is filled, keeps an empty slot, so that every   *)
(* lookup comes to an end, and answers every keyword with that keyword, the *)
(* lookup by prefix and all collisions notwithstanding: do is not taken for *)
(* double.                                                                  *)
KeywordsFound ==
  /\ ~More => \E i \in Slots(entries) : entries[i] = Empty
  /\ Answered /\ ret.key \in Keywords =>
       ret.found = {[key |-> ret.key, value |-> ret.key]}

(* What the comment at src/lexer.c:462 says: "if identifier is a keyword,   *)
(* return keyword token instead".  Other identifiers are taken for keywords *)
(* they are a prefix of.                                                    *)
OnlyKeywordsTaken == Answered /\ ret.found # {} => ret.key \in Keywords
=============================================================================
