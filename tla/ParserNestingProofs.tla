------------------------- MODULE ParserNestingProofs -------------------------
(***************************************************************************)
(* How the calls of src/parser.c nest, for every input: how deep they are, *)
(* which brackets they wait for, and what the end of the file does to      *)
(* them: no statement of any input is accepted when it was handed out.     *)
(***************************************************************************)
EXTENDS ParserProofs, WellFoundedInduction

-----------------------------------------------------------------------------
(* Recursion over a sequence                                                *)

(* A set of numbers that is not empty has a least one.                      *)
LEMMA LeastNumber ==
  ASSUME NEW I, I \subseteq Nat, I # {}
  PROVE  \E i \in I : \A j \in I : i <= j
<1>1. PICK i \in I : \A j \in I : ~ (<<j, i>> \in OpToRel(<, Nat))
  BY NatLessThanWellFounded, WFMin
<1>2. \A j \in I : ~ (j < i)
  BY <1>1 DEF OpToRel
<1>3. ASSUME NEW j \in I PROVE i <= j
  <2>1. i \in Nat /\ j \in Nat /\ ~ (j < i)
    BY <1>2
  <2> QED
    BY <2>1
<1> QED
  BY <1>3

Goes(g, n, a, step) == g[0] = a /\ \A k \in 1 .. n : g[k] = step[k][g[k - 1]]

(* A function that goes through n steps from a exists.                      *)
LEMMA StepsExist ==
  ASSUME NEW n \in Nat, NEW S, NEW a \in S, NEW step \in [1 .. n -> [S -> S]]
  PROVE  \E g \in [0 .. n -> S] : Goes(g, n, a, step)
<1> DEFINE Upto(g, m) == g[0] = a /\ \A k \in 1 .. m : g[k] = step[k][g[k - 1]]
           Missing == {m \in 0 .. n : ~ \E g \in [0 .. m -> S] : Upto(g, m)}
<1>1. CASE Missing # {}
  <2>1. PICK m \in Missing : \A l \in Missing : m <= l
    <3>1. Missing \subseteq Nat
      OBVIOUS
    <3> HIDE DEF Missing
    <3> QED
      BY <1>1, <3>1, LeastNumber
  <2>2. m \in 0 .. n /\ ~ \E g \in [0 .. m -> S] : Upto(g, m)
    OBVIOUS
  <2>3. m # 0
    <3>1. [k \in 0 .. 0 |-> a] \in [0 .. 0 -> S] /\ Upto([k \in 0 .. 0 |-> a], 0)
      OBVIOUS
    <3> QED
      BY <2>2, <3>1
  <2>4. m \in 1 .. n /\ m - 1 \in 0 .. n /\ m - 1 \notin Missing
    <3>1. m \in 1 .. n /\ m - 1 \in 0 .. n /\ ~ (m <= m - 1)
      BY <2>2, <2>3
    <3> HIDE DEF Missing
    <3> QED
      BY <2>1, <3>1
  <2>5. PICK g \in [0 .. m - 1 -> S] : Upto(g, m - 1)
    BY <2>4
  <2> DEFINE h == [k \in 0 .. m |-> IF k = m THEN step[m][g[m - 1]] ELSE g[k]]
  <2>6. m \in 1 .. n /\ g[m - 1] \in S
    BY <2>4
  <2>7. h \in [0 .. m -> S]
    <3>1. step[m][g[m - 1]] \in S
      BY <2>6
    <3>2. \A k \in 0 .. m : k # m => g[k] \in S
      BY <2>6
    <3> QED
      BY <3>1, <3>2
  <2>8. Upto(h, m)
    <3>1. h[0] = a
      BY <2>5, <2>6
    <3>2. ASSUME NEW k \in 1 .. m
          PROVE  h[k] = step[k][h[k - 1]]
      <4>1. CASE k = m
        BY <2>6, <4>1
      <4>2. CASE k # m
        <5>1. k \in 1 .. m - 1 /\ k - 1 \in 0 .. m - 1 /\ k - 1 # m
          BY <2>6, <4>2
        <5> QED
          BY <2>5, <2>6, <4>2, <5>1
      <4> QED
        BY <4>1, <4>2
    <3> QED
      BY <3>1, <3>2
  <2> QED
    BY <2>2, <2>7, <2>8
<1>2. CASE Missing = {}
  <2>1. n \in 0 .. n /\ n \notin Missing
    BY <1>2
  <2> QED
    BY <2>1 DEF Goes
<1> QED
  BY <1>1, <1>2

AlikeFrom(lo, n, f, g) ==
  f[lo] = g[lo] /\ \A k \in lo + 1 .. n : f[k - 1] = g[k - 1] => f[k] = g[k]
Alike(lo, n, f, g) == \A k \in lo .. n : f[k] = g[k]

(* Two functions that begin alike and go on alike are alike.                *)
LEMMA StepsAgree ==
  ASSUME NEW lo \in Nat, NEW n \in Nat, NEW f, NEW g, AlikeFrom(lo, n, f, g)
  PROVE  Alike(lo, n, f, g)
<1> USE DEF AlikeFrom, Alike
<1> DEFINE Differ == {k \in lo .. n : f[k] # g[k]}
<1> SUFFICES ASSUME Differ # {} PROVE FALSE
  OBVIOUS
<1>1. PICK m \in Differ : \A l \in Differ : m <= l
  <2>1. Differ \subseteq Nat
    OBVIOUS
  <2> HIDE DEF Differ
  <2> QED
    BY <2>1, LeastNumber
<1>2. m \in lo .. n /\ f[m] # g[m]
  OBVIOUS
<1>3. m \in lo + 1 .. n /\ m - 1 \in lo .. n /\ ~ (m <= m - 1)
  BY <1>2
<1>4. m - 1 \notin Differ
  <2> HIDE DEF Differ
  <2> QED
    BY <1>1, <1>3
<1> QED
  BY <1>2, <1>3, <1>4
-----------------------------------------------------------------------------
(* The brackets of a sequence                                               *)

Nothing == [open |-> <<>>, skip |-> FALSE]
Accs(S) == [open : Seq(S), skip : BOOLEAN]

(* All but the last element.                                                *)
LEMMA FrontIn ==
  ASSUME NEW S, NEW s \in Seq(S), s # <<>>
  PROVE  /\ Front(s) \in Seq(S) /\ Len(Front(s)) = Len(s) - 1 /\ Len(s) \in Nat \ {0}
         /\ \A i \in 1 .. Len(s) - 1 : Front(s)[i] = s[i]
<1>1. Len(s) \in Nat \ {0}
  BY EmptySeq
<1>2. \A i \in 1 .. Len(s) - 1 : s[i] \in S
  BY <1>1, ElementOfSeq
<1>3. /\ SubSeq(s, 1, Len(s) - 1) \in Seq(S)
      /\ Len(SubSeq(s, 1, Len(s) - 1)) = IF 1 <= Len(s) - 1 THEN Len(s) - 1 - 1 + 1 ELSE 0
      /\ \A i \in 1 .. Len(s) - 1 - 1 + 1 : SubSeq(s, 1, Len(s) - 1)[i] = s[1 + i - 1]
  BY <1>1, <1>2, SubSeqProperties
<1>4. \A l \in Nat \ {0} : (IF 1 <= l - 1 THEN l - 1 - 1 + 1 ELSE 0) = l - 1 /\ l - 1 - 1 + 1 = l - 1
  OBVIOUS
<1>5. \A i \in 1 .. Len(s) - 1 : 1 + i - 1 = i
  BY <1>1
<1> QED
  BY <1>1, <1>3, <1>4, <1>5 DEF Front

(* Appending to a sequence and taking it away again.                        *)
LEMMA FrontOfAppend ==
  ASSUME NEW S, NEW s \in Seq(S), NEW e \in S
  PROVE  Front(Append(s, e)) = s
<1> DEFINE r == Append(s, e)
<1>1. /\ r \in Seq(S) /\ r # <<>> /\ Len(r) = Len(s) + 1 /\ Len(s) \in Nat
      /\ \A i \in 1 .. Len(s) : r[i] = s[i]
  BY AppendProperties, LenProperties
<1> HIDE DEF r
<1>2. /\ Front(r) \in Seq(S) /\ Len(Front(r)) = Len(s)
      /\ \A i \in 1 .. Len(s) : Front(r)[i] = r[i]
  BY <1>1, FrontIn
<1>3. Front(r) = s
  BY <1>1, <1>2, SeqEqual
<1> QED
  BY <1>3 DEF r

(* A bracket leaves a sequence of open ones.                                *)
LEMMA BracketIn ==
  ASSUME NEW S, NEW acc \in Accs(S), NEW k \in S
  PROVE  Bracket(acc, k) \in Accs(S)
<1>1. acc.open \in Seq(S) /\ acc.skip \in BOOLEAN /\ acc = [open |-> acc.open, skip |-> acc.skip]
  BY DEF Accs
<1>2. /\ [acc EXCEPT !.skip = FALSE] \in Accs(S) /\ [acc EXCEPT !.skip = TRUE] \in Accs(S)
      /\ \A o \in Seq(S) : [acc EXCEPT !.open = o] \in Accs(S)
  BY <1>1 DEF Accs
<1>3. Append(acc.open, k) \in Seq(S)
  BY <1>1, AppendProperties
<1>4. acc.open # <<>> => Front(acc.open) \in Seq(S)
  BY <1>1, FrontIn
<1> QED
  BY <1>2, <1>3, <1>4, Zenon DEF Bracket

AfterEach(kinds) ==
  LET after[n \in 0 .. Len(kinds)] ==
        IF n = 0 THEN [open |-> <<>>, skip |-> FALSE] ELSE Bracket(after[n - 1], kinds[n])
  IN  after

After(g, kinds) ==
  [n \in 0 .. Len(kinds) |->
     IF n = 0 THEN [open |-> <<>>, skip |-> FALSE] ELSE Bracket(g[n - 1], kinds[n])]

(* The recursion of Brackets defines a function.                            *)
LEMMA AfterDefined ==
  ASSUME NEW S, NEW kinds \in Seq(S)
  PROVE  /\ Brackets(kinds) = AfterEach(kinds)[Len(kinds)]
         /\ AfterEach(kinds)[0] = Nothing
         /\ \A n \in 1 .. Len(kinds) :
              AfterEach(kinds)[n] = Bracket(AfterEach(kinds)[n - 1], kinds[n])
         /\ AfterEach(kinds) \in [0 .. Len(kinds) -> Accs(S)]
<1> DEFINE N == Len(kinds)
           step == [n \in 1 .. N |-> [acc \in Accs(S) |-> Bracket(acc, kinds[n])]]
<1>1. N \in Nat /\ \A n \in 1 .. N : kinds[n] \in S
  BY LenProperties, ElementOfSeq
<1>2. Nothing \in Accs(S)
  BY EmptySeq DEF Nothing, Accs
<1>3. step \in [1 .. N -> [Accs(S) -> Accs(S)]]
  BY <1>1, BracketIn
<1>4. PICK g \in [0 .. N -> Accs(S)] :
        g[0] = Nothing /\ \A n \in 1 .. N : g[n] = step[n][g[n - 1]]
  <2> HIDE DEF step, N
  <2>1. \E g \in [0 .. N -> Accs(S)] : Goes(g, N, Nothing, step)
    BY <1>1, <1>2, <1>3, StepsExist
  <2> QED
    BY <2>1, Zenon DEF Goes
<1>5. \A n \in 1 .. N : g[n] = Bracket(g[n - 1], kinds[n])
  <2> TAKE n \in 1 .. N
  <2>1. n - 1 \in 0 .. N
    BY <1>1
  <2>2. g[n - 1] \in Accs(S)
    BY <2>1
  <2> QED
    BY <1>4, <2>2
<1>6. g = After(g, kinds)
  <2>1. \A n \in 0 .. N : g[n] = After(g, kinds)[n]
    BY <1>1, <1>4, <1>5 DEF After, Nothing
  <2>2. After(g, kinds) = [n \in 0 .. N |-> After(g, kinds)[n]]
    BY DEF After
  <2> QED
    BY <2>1, <2>2
<1>7. AfterEach(kinds) = After(AfterEach(kinds), kinds)
  BY <1>6, Zenon DEF AfterEach, After
<1> DEFINE f == AfterEach(kinds)
<1>8. f = After(f, kinds)
  BY <1>7
<1> HIDE DEF f
<1>9. f[0] = Nothing /\ \A n \in 1 .. N : f[n] = Bracket(f[n - 1], kinds[n])
  <2>1. \A n \in 0 .. N : After(f, kinds)[n] = IF n = 0 THEN Nothing ELSE Bracket(f[n - 1], kinds[n])
    BY DEF After, Nothing
  <2>2. 0 \in 0 .. N /\ \A n \in 1 .. N : n \in 0 .. N /\ n # 0
    BY <1>1
  <2> QED
    BY <1>8, <2>1, <2>2
<1>10. \A n \in 0 .. N : f[n] = g[n]
  <2>1. \A n \in 0 + 1 .. N : n \in 1 .. N
    BY <1>1
  <2>2. AlikeFrom(0, N, f, g)
    BY <1>4, <1>5, <1>9, <2>1, Zenon DEF AlikeFrom
  <2> HIDE DEF N
  <2>3. Alike(0, N, f, g)
    BY <1>1, <2>2, StepsAgree
  <2> QED
    BY <2>3, Zenon DEF Alike
<1>11. f = [n \in 0 .. N |-> f[n]]
  BY <1>8 DEF After
<1>12. f = g
  BY <1>10, <1>11
<1>13. Brackets(kinds) = f[N]
  BY DEF Brackets, AfterEach, f
<1> QED
  BY <1>9, <1>12, <1>13 DEF f

(* One more token.                                                          *)
LEMMA BracketsAppend ==
  ASSUME NEW S, NEW kinds \in Seq(S), NEW k \in S
  PROVE  /\ Brackets(Append(kinds, k)) = Bracket(Brackets(kinds), k)
         /\ Brackets(kinds) \in Accs(S)
<1> DEFINE more == Append(kinds, k)
           N == Len(kinds)
           f == AfterEach(kinds)
           g == AfterEach(more)
<1>1. /\ more \in Seq(S) /\ N \in Nat /\ Len(more) = N + 1
      /\ \A n \in 1 .. N : more[n] = kinds[n]
      /\ more[N + 1] = k
  BY AppendProperties, LenProperties
<1>2. /\ Brackets(kinds) = f[N] /\ f[0] = Nothing /\ f \in [0 .. N -> Accs(S)]
      /\ \A n \in 1 .. N : f[n] = Bracket(f[n - 1], kinds[n])
  BY AfterDefined
<1> HIDE DEF more
<1>3. /\ Brackets(more) = g[N + 1] /\ g[0] = Nothing
      /\ \A n \in 1 .. N + 1 : g[n] = Bracket(g[n - 1], more[n])
  BY <1>1, AfterDefined
<1> HIDE DEF N, f, g
<1>4. \A n \in 0 .. N : f[n] = g[n]
  <2>1. \A n \in 0 + 1 .. N : n \in 1 .. N /\ n \in 1 .. N + 1
    BY <1>1
  <2>2. AlikeFrom(0, N, f, g)
    BY <1>1, <1>2, <1>3, <2>1, Zenon DEF AlikeFrom
  <2>3. Alike(0, N, f, g)
    BY <1>1, <2>2, StepsAgree
  <2> QED
    BY <2>3, Zenon DEF Alike
<1>5. g[N + 1] = Bracket(f[N], k)
  <2>1. N + 1 \in 1 .. N + 1 /\ N + 1 - 1 = N /\ N \in 0 .. N
    BY <1>1
  <2> QED
    BY <1>1, <1>3, <1>4, <2>1
<1> QED
  BY <1>1, <1>2, <1>3, <1>5 DEF more

(* No token.                                                                *)
LEMMA BracketsEmpty == Brackets(<<>>) = Nothing
<1>1. <<>> \in Seq({1}) /\ Len(<<>>) = 0
  BY EmptySeq
<1> QED
  BY <1>1, AfterDefined
-----------------------------------------------------------------------------
(* What a stack of calls waits for                                          *)

FlatEach(seqs) ==
  LET flatten[i \in 1 .. Len(seqs)] ==
        IF i = 1 THEN seqs[i] ELSE flatten[i - 1] \o seqs[i]
  IN  flatten

Flat(g, seqs) == [i \in 1 .. Len(seqs) |-> IF i = 1 THEN seqs[i] ELSE g[i - 1] \o seqs[i]]

(* The recursion of FlattenSeq defines a function.                          *)
LEMMA FlatDefined ==
  ASSUME NEW S, NEW seqs \in Seq(Seq(S))
  PROVE  /\ Len(seqs) # 0 => FlattenSeq(seqs) = FlatEach(seqs)[Len(seqs)]
         /\ Len(seqs) # 0 => FlatEach(seqs)[1] = seqs[1]
         /\ \A n \in 2 .. Len(seqs) : FlatEach(seqs)[n] = FlatEach(seqs)[n - 1] \o seqs[n]
         /\ \A n \in 1 .. Len(seqs) : FlatEach(seqs)[n] \in Seq(S)
<1> DEFINE N == Len(seqs)
           step == [n \in 1 .. N |-> [s \in Seq(S) |-> s \o seqs[n]]]
<1>1. N \in Nat /\ \A n \in 1 .. N : seqs[n] \in Seq(S)
  BY LenProperties, ElementOfSeq
<1>2. <<>> \in Seq(S)
  BY EmptySeq
<1>3. step \in [1 .. N -> [Seq(S) -> Seq(S)]]
  BY <1>1, ConcatProperties
<1>4. PICK g \in [0 .. N -> Seq(S)] :
        g[0] = <<>> /\ \A n \in 1 .. N : g[n] = step[n][g[n - 1]]
  <2> HIDE DEF step, N
  <2>1. \E g \in [0 .. N -> Seq(S)] : Goes(g, N, <<>>, step)
    BY <1>1, <1>2, <1>3, StepsExist
  <2> QED
    BY <2>1, Zenon DEF Goes
<1>5. \A n \in 1 .. N : g[n] = g[n - 1] \o seqs[n]
  <2> TAKE n \in 1 .. N
  <2>1. n - 1 \in 0 .. N
    BY <1>1
  <2>2. g[n - 1] \in Seq(S)
    BY <2>1
  <2> QED
    BY <1>4, <2>2
<1> DEFINE h == [n \in 1 .. N |-> g[n]]
<1>6. h = Flat(h, seqs)
  <2>1. \A n \in 1 .. N : h[n] = IF n = 1 THEN seqs[n] ELSE h[n - 1] \o seqs[n]
    <3> TAKE n \in 1 .. N
    <3>1. CASE n = 1
      <4>1. g[1] = <<>> \o seqs[1] /\ seqs[1] \in Seq(S)
        <5>1. 1 \in 1 .. N /\ 1 - 1 = 0
          BY <3>1
        <5> QED
          BY <1>1, <1>4, <1>5, <5>1
      <4> QED
        BY <3>1, <4>1, ConcatEmptySeq
    <3>2. CASE n # 1
      <4>1. n - 1 \in 1 .. N
        BY <1>1, <3>2
      <4> QED
        BY <1>5, <3>2, <4>1
    <3> QED
      BY <3>1, <3>2
  <2> HIDE DEF h
  <2>2. Flat(h, seqs) = [n \in 1 .. N |-> IF n = 1 THEN seqs[n] ELSE h[n - 1] \o seqs[n]]
    BY DEF Flat
  <2>3. h = [n \in 1 .. N |-> h[n]]
    BY DEF h
  <2> QED
    BY <2>1, <2>2, <2>3
<1> DEFINE f == FlatEach(seqs)
<1>7. f = Flat(f, seqs)
  <2> HIDE DEF h
  <2> QED
    BY <1>6, Zenon DEF FlatEach, Flat
<1> HIDE DEF f
<1>8. \A n \in 1 .. N : f[n] = IF n = 1 THEN seqs[n] ELSE f[n - 1] \o seqs[n]
  <2>1. \A n \in 1 .. N : Flat(f, seqs)[n] = IF n = 1 THEN seqs[n] ELSE f[n - 1] \o seqs[n]
    BY DEF Flat
  <2> QED
    BY <1>7, <2>1
<1>9. /\ N # 0 => f[1] = seqs[1]
      /\ \A n \in 2 .. N : f[n] = f[n - 1] \o seqs[n]
  <2>1. N # 0 => 1 \in 1 .. N
    BY <1>1
  <2>2. \A n \in 2 .. N : n \in 1 .. N /\ n # 1
    BY <1>1
  <2> QED
    BY <1>8, <2>1, <2>2
<1>10. \A n \in 1 .. N : f[n] = h[n]
  <2> HIDE DEF N
  <2>0. CASE N = 0
    <3>1. 1 .. N = {}
      BY <2>0
    <3> QED
      BY <3>1
  <2>1. CASE N # 0
    <3>1. \A n \in 1 .. N : h[n] = IF n = 1 THEN seqs[n] ELSE h[n - 1] \o seqs[n]
      <4> HIDE DEF h
      <4> QED
        BY <1>6 DEF Flat, N
    <3> HIDE DEF h
    <3>2. 1 \in 1 .. N /\ \A n \in 1 + 1 .. N : n \in 1 .. N /\ n # 1 /\ n \in 2 .. N
      BY <1>1, <2>1
    <3>3. AlikeFrom(1, N, f, h)
      BY <1>8, <3>1, <3>2, Zenon DEF AlikeFrom
    <3>4. Alike(1, N, f, h)
      BY <1>1, <3>3, StepsAgree
    <3> QED
      BY <3>4, Zenon DEF Alike
  <2> HIDE DEF h
  <2> QED
    BY <2>0, <2>1, Zenon
<1>11. \A n \in 1 .. N : h[n] \in Seq(S)
  <2>1. \A n \in 1 .. N : n \in 0 .. N
    BY <1>1
  <2> QED
    BY <2>1
<1>12. N # 0 => FlattenSeq(seqs) = f[N]
  BY DEF FlattenSeq, FlatEach, f
<1> QED
  BY <1>9, <1>10, <1>11, <1>12 DEF f

(* One more call.                                                           *)
LEMMA FlattenAppend ==
  ASSUME NEW S, NEW seqs \in Seq(Seq(S)), NEW s \in Seq(S)
  PROVE  /\ FlattenSeq(Append(seqs, s)) = FlattenSeq(seqs) \o s
         /\ FlattenSeq(seqs) \in Seq(S)
<1> DEFINE more == Append(seqs, s)
           N == Len(seqs)
           f == FlatEach(seqs)
           g == FlatEach(more)
<1>1. /\ more \in Seq(Seq(S)) /\ N \in Nat /\ Len(more) = N + 1
      /\ \A n \in 1 .. N : more[n] = seqs[n]
      /\ more[N + 1] = s
  BY AppendProperties, LenProperties
<1>2. /\ N # 0 => FlattenSeq(seqs) = f[N]
      /\ N # 0 => f[1] = seqs[1]
      /\ \A n \in 2 .. N : f[n] = f[n - 1] \o seqs[n]
      /\ \A n \in 1 .. N : f[n] \in Seq(S)
  BY FlatDefined
<1>2a. N = 0 => seqs = <<>> /\ FlattenSeq(seqs) = <<>>
  BY EmptySeq DEF FlattenSeq
<1> HIDE DEF more
<1>3. /\ FlattenSeq(more) = g[N + 1] /\ g[1] = more[1]
      /\ \A n \in 2 .. N + 1 : g[n] = g[n - 1] \o more[n]
  <2>1. Len(more) # 0
    BY <1>1
  <2> QED
    BY <1>1, <2>1, FlatDefined
<1> HIDE DEF N, f, g
<1>4. CASE N = 0
  <2>1. <<>> \o s = s /\ <<>> \in Seq(S)
    BY ConcatEmptySeq, EmptySeq
  <2>2. N + 1 = 1
    BY <1>4
  <2>3. FlattenSeq(more) = s
    BY <1>1, <1>3, <2>2
  <2> QED
    BY <1>2a, <1>4, <2>1, <2>3 DEF more
<1>5. CASE N # 0
  <2>1. \A n \in 1 .. N : f[n] = g[n]
    <3>1. 1 \in 1 .. N /\ \A n \in 1 + 1 .. N : n \in 2 .. N /\ n \in 1 .. N /\ n \in 2 .. N + 1
      BY <1>1, <1>5
    <3>2. AlikeFrom(1, N, f, g)
      BY <1>1, <1>2, <1>3, <1>5, <3>1, Zenon DEF AlikeFrom
    <3>3. Alike(1, N, f, g)
      BY <1>1, <3>2, StepsAgree
    <3> QED
      BY <3>3, Zenon DEF Alike
  <2>2. N + 1 \in 2 .. N + 1 /\ N + 1 - 1 = N /\ N \in 1 .. N
    <3>1. N \in Nat
      BY <1>1
    <3> QED
      BY <1>5, <3>1
  <2>3. g[N + 1] = f[N] \o s
    <3>1. PICK n \in 2 .. N + 1 : n = N + 1 /\ n - 1 = N
      BY <2>2
    <3>2. g[n] = g[n - 1] \o more[n]
      BY <1>3
    <3>3. g[N] = f[N] /\ more[N + 1] = s
      BY <1>1, <2>1, <2>2
    <3> QED
      BY <3>1, <3>2, <3>3, Zenon
  <2> QED
    BY <1>2, <1>3, <1>5, <2>2, <2>3 DEF more
<1> QED
  BY <1>4, <1>5
-----------------------------------------------------------------------------
(* The invariant                                                            *)

(* The functions of expressions.  They call each other only, so the calls   *)
(* below one of a statement are all of statements.                          *)
ExprProc == Calling \cup {"unary", "primary"}

(* How deep a call may be, for as many tokens as there are.  A function     *)
(* that calls another one without a token stands below it; the first token  *)
(* of the operator of an assignment is paid for in advance.                 *)
Rank ==
  [p \in Procs |->
     CASE p \in {"stmt", "exprstmt", "decl"} -> 8
       [] p = "expr" -> 9
       [] p = "assign" -> 10
       [] p = "cond" -> 11
       [] p = "logic" -> 12
       [] p = "bitwise" -> 13
       [] p = "relational" -> 14
       [] p = "binary" -> 15
       [] p = "binary2" -> 16
       [] p = "unary" -> 17
       [] p = "postfix" -> 18
       [] p = "primary" -> 19
       [] OTHER -> 7]

Height(f) == IF f.at = "op" THEN 0 ELSE Rank[f.proc]

Layered(s) ==
  \A j \in 1 .. Len(s) : s[j].proc \notin ExprProc => \A i \in 1 .. j : s[i].proc \notin ExprProc
Settled(s) == \A j \in 1 .. Len(s) - 1 : s[j].at # "op"
Low(s, g) == \A j \in 1 .. Len(s) : j + 7 <= 11 * g + Height(s[j])

(* The brackets the calls of a stack wait for.                              *)
Waiting(s) == FlattenSeq([n \in DOMAIN s |-> Awaits(s[n])])

(* The calls in progress: statements around expressions, at most eleven to  *)
(* a token, and waiting for the brackets that are open.  A token that counts  *)
(* for nothing is only expected while an assignment is at its operator; at  *)
(* the end of the input it never comes.                                     *)
NestInv ==
  /\ Layered(stack) /\ Settled(stack) /\ Low(stack, Len(given))
  /\ status \in {"run", "done"} => Brackets(GivenKinds).open = Waiting(stack)
  /\ status = "run" /\ sources # <<>> => Brackets(GivenKinds).skip = (Top.at = "op")

-----------------------------------------------------------------------------
(* What a call of the lexer does to the tokens handed out                   *)

(* No token, or one of kind k.                                              *)
Quiet ==
  /\ GivenKinds' = GivenKinds /\ Len(given') = Len(given)
  /\ sources = <<>> => sources' = <<>>
Takes(k) ==
  /\ GivenKinds' = Append(GivenKinds, k) /\ Len(given') = Len(given) + 1
  /\ sources # <<>>

(* The tokens, and the kinds of those handed out.                           *)
LEMMA GivenFacts ==
  ASSUME ParserInv
  PROVE  /\ read \in Seq(Scanned) /\ Len(read) \in Nat
         /\ given \in Seq(1 .. Len(read)) /\ Len(given) \in Nat
         /\ \A i \in 1 .. Len(given) : given[i] \in 1 .. Len(read)
         /\ \A t \in 1 .. Len(read) : KindOf(t) \in Kind \cup {EOF}
         /\ GivenKinds = [i \in 1 .. Len(given) |-> KindOf(given[i])]
         /\ GivenKinds \in Seq(Kind \cup {EOF}) /\ Len(GivenKinds) = Len(given)
<1>1. /\ read \in Seq(Scanned) /\ Len(read) \in Nat
      /\ given \in Seq(1 .. Len(read)) /\ Len(given) \in Nat
  BY DEF ParserInv, StreamInv, StreamTypeOK, Token, Scanned
<1>2. /\ \A i \in 1 .. Len(given) : given[i] \in 1 .. Len(read)
      /\ DOMAIN given = 1 .. Len(given)
  BY <1>1, ElementOfSeq, LenProperties
<1>3. \A t \in 1 .. Len(read) : KindOf(t) \in Kind \cup {EOF}
  <2> TAKE t \in 1 .. Len(read)
  <2>1. read[t] \in Scanned
    BY <1>1, ElementOfSeq
  <2> QED
    BY <2>1 DEF KindOf, Scanned
<1>4. GivenKinds = [i \in 1 .. Len(given) |-> KindOf(given[i])]
  BY <1>2 DEF GivenKinds
<1>5. GivenKinds \in [1 .. Len(given) -> Kind \cup {EOF}]
  BY <1>2, <1>3, <1>4
<1>6. GivenKinds \in Seq(Kind \cup {EOF}) /\ Len(GivenKinds) = Len(given)
  BY <1>1, <1>5
<1> QED
  BY <1>1, <1>2, <1>3, <1>4, <1>6

(* Scanning adds a token at the end and leaves those before it.             *)
LEMMA ScanKeeps ==
  ASSUME ParserInv, sources # <<>>, Scan
  PROVE  \A t \in 1 .. Len(read) : read'[t] = read[t]
<1>1. PICK k \in Kind \cup {EOF} : read' = Append(read, [kind |-> k, source |-> Head(sources)])
  BY DEF Scan
<1>2. Head(sources) \in 1 .. registered /\ read \in Seq(Scanned)
  BY DEF ParserInv, StreamInv, StreamTypeOK, Scanned
<1>3. [kind |-> k, source |-> Head(sources)] \in Scanned
  BY <1>2 DEF Scanned
<1> QED
  BY <1>1, <1>2, <1>3, AppendProperties

(* What was handed out keeps its kind.                                      *)
LEMMA KindsKept ==
  ASSUME ParserInv, UNCHANGED given, \A t \in 1 .. Len(read) : read'[t] = read[t]
  PROVE  GivenKinds' = GivenKinds
<1>1. /\ DOMAIN given = 1 .. Len(given)
      /\ \A i \in 1 .. Len(given) : given[i] \in 1 .. Len(read)
  BY GivenFacts, LenProperties
<1>2. GivenKinds' = [i \in DOMAIN given |-> read'[given[i]].kind]
  BY DEF GivenKinds, KindOf
<1>3. GivenKinds = [i \in DOMAIN given |-> read[given[i]].kind]
  BY DEF GivenKinds, KindOf
<1> QED
  BY <1>1, <1>2, <1>3

(* A new token adds its kind.                                               *)
LEMMA KindAdded ==
  ASSUME ParserInv, NEW t, given' = Append(given, t), t = Len(given) + 1,
         \A u \in 1 .. Len(read) : read'[u] = read[u],
         read'[t].kind \in Kind \cup {EOF}
  PROVE  GivenKinds' = Append(GivenKinds, read'[t].kind) /\ Len(given') = Len(given) + 1
<1> DEFINE n == Len(given)
           K == Kind \cup {EOF}
<1>1. /\ n \in Nat /\ given \in Seq(1 .. Len(read)) /\ Len(read) \in Nat
      /\ \A i \in 1 .. n : given[i] \in 1 .. Len(read)
      /\ GivenKinds = [i \in 1 .. n |-> KindOf(given[i])]
      /\ GivenKinds \in Seq(K) /\ Len(GivenKinds) = n
  BY GivenFacts
<1>2. given \in Seq(Nat) /\ t \in Nat
  BY <1>1, SeqMonotonic
<1>3. /\ given' \in Seq(Nat) /\ Len(given') = n + 1 /\ given'[n + 1] = t
      /\ \A i \in 1 .. n : given'[i] = given[i]
      /\ DOMAIN given' = 1 .. n + 1
  BY <1>1, <1>2, AppendProperties, LenProperties
<1>4. GivenKinds' = [i \in 1 .. n + 1 |-> read'[given'[i]].kind]
  BY <1>3 DEF GivenKinds, KindOf
<1> DEFINE new == [i \in 1 .. n + 1 |-> read'[given'[i]].kind]
           old == Append(GivenKinds, read'[t].kind)
<1>5. /\ old \in Seq(K) /\ Len(old) = n + 1 /\ old[n + 1] = read'[t].kind
      /\ \A i \in 1 .. n : old[i] = GivenKinds[i]
  BY <1>1, AppendProperties
<1>6. \A i \in 1 .. n : GivenKinds[i] = read'[given[i]].kind
  BY <1>1 DEF KindOf
<1>7. \A i \in 1 .. n + 1 : new[i] = old[i]
  <2> TAKE i \in 1 .. n + 1
  <2>1. CASE i = n + 1
    BY <1>3, <1>5, <2>1
  <2>2. CASE i # n + 1
    <3>1. i \in 1 .. n
      BY <1>1, <2>2
    <3> QED
      BY <1>3, <1>5, <1>6, <3>1
  <2> QED
    BY <2>1, <2>2
<1>8. old = [i \in 1 .. n + 1 |-> old[i]]
  BY <1>5, LenProperties
<1> HIDE DEF old
<1>9. new = old
  BY <1>7, <1>8
<1> QED
  BY <1>3, <1>4, <1>9 DEF old

(* lexer_get hands out nothing, at the end of the input, or one token: the  *)
(* cached one, or one that is scanned now.                                  *)
LEMMA TakeKinds ==
  ASSUME ParserInv, NEW t, Take(t)
  PROVE  \/ t = 0 /\ sources = <<>> /\ Quiet /\ UNCHANGED <<sources, cache, read, given>>
         \/ /\ t # 0 /\ Takes(read'[t].kind)
            /\ cache' = 0 /\ t \in 1 .. Len(read')
            /\ cache # 0 => t = cache /\ UNCHANGED <<sources, read>>
            /\ cache = 0 => Scan /\ t = Len(read) + 1
<1>1. CASE sources = <<>> /\ t = 0 /\ UNCHANGED <<sources, cache, read, given>>
  BY <1>1, KindsKept DEF Quiet
<1>2. CASE sources # <<>> /\ ~ (t = 0 /\ UNCHANGED <<cache, read, given>>)
  <2>1. /\ t = Len(given) + 1 /\ given' = Append(given, t)
        /\ cache' = 0 /\ Len(read') = t /\ read' \in Seq(Scanned)
    BY <1>2, TakeResult DEF ParserInv
  <2>2. Len(given) \in Nat
    BY GivenFacts
  <2>3. /\ cache # 0 => t = cache /\ UNCHANGED <<sources, read>>
        /\ cache = 0 => Scan /\ t = Len(read) + 1
    BY <1>2 DEF Take, TakeCached
  <2>4. \A u \in 1 .. Len(read) : read'[u] = read[u]
    BY <1>2, <2>3, ScanKeeps
  <2>5. t \in 1 .. Len(read')
    BY <2>1, <2>2
  <2>6. read'[t].kind \in Kind \cup {EOF}
    <3>1. read'[t] \in Scanned
      BY <2>1, <2>5, ElementOfSeq
    <3> QED
      BY <3>1 DEF Scanned
  <2>7. GivenKinds' = Append(GivenKinds, read'[t].kind) /\ Len(given') = Len(given) + 1
    BY <2>1, <2>4, <2>6, KindAdded
  <2> QED
    BY <1>2, <2>1, <2>2, <2>3, <2>5, <2>7 DEF Takes
<1>3. sources # <<>> => ~ (t = 0 /\ UNCHANGED <<cache, read, given>>)
  <2>1. Len(read) \in Nat /\ cache \in 0 .. Len(read)
    BY DEF ParserInv, StreamInv, StreamTypeOK, Token
  <2> QED
    BY <2>1 DEF Take, TakeCached
<1> QED
  BY <1>1, <1>2, <1>3 DEF Take

(* lexer_peek hands out nothing.                                            *)
LEMMA PeekQuiet == ParserInv /\ Peek => Quiet
<1> SUFFICES ASSUME ParserInv, Peek PROVE Quiet
  OBVIOUS
<1>1. sources # <<>> /\ Scan /\ UNCHANGED given
  BY DEF Peek, Fill
<1> QED
  BY <1>1, ScanKeeps, KindsKept DEF Quiet

(* Nor does a function that does not call the lexer.                        *)
LEMMA SameQuiet == UNCHANGED streamVars => Quiet
  BY DEF Quiet, GivenKinds, KindOf, streamVars, lexer

(* The lookahead is taken as what it looked like.                           *)
LEMMA LookTaken ==
  ASSUME ParserInv, Take(cache), Look # "null"
  PROVE  Takes(Look)
<1>1. cache # 0 /\ Look = KindOf(cache)
  BY DEF Look
<1>2. Takes(read'[cache].kind) /\ UNCHANGED read
  BY <1>1, TakeKinds
<1> QED
  BY <1>1, <1>2 DEF KindOf
-----------------------------------------------------------------------------
(* What the calls wait for                                                  *)

(* A statement whose items before the i-th hold the item.                   *)
Passed(p, i, item) == \E j \in 1 .. i - 1 : Script[p][j] = item
ParenWait(p, i) == IF Passed(p, i, "(") /\ ~ Passed(p, i, ")") THEN <<"(">> ELSE <<>>

(* A table without parentheses, and one with a pair.                        *)
NoParens(s) == Len(s) \in Nat /\ \A j \in 1 .. Len(s) : s[j] \notin {"(", ")"}
ParensAt(s, a, b) ==
  /\ Len(s) \in Nat /\ a \in 1 .. Len(s) /\ b \in 1 .. Len(s) /\ a < b
  /\ \A j \in 1 .. Len(s) : (s[j] = "(" <=> j = a) /\ (s[j] = ")" <=> j = b)

(* A table none of whose items is a parenthesis has none.                   *)
LEMMA NoParensIn ==
  LET OK(x) == x \notin {"(", ")"}
  IN  /\ \A a : OK(a) => NoParens(<<a>>)
      /\ \A a, b : OK(a) /\ OK(b) => NoParens(<<a, b>>)
      /\ \A a, b, c : OK(a) /\ OK(b) /\ OK(c) => NoParens(<<a, b, c>>)
  BY DEF NoParens

(* A table one of whose items is an opening and a later one a closing one   *)
(* has this pair.                                                           *)
LEMMA ParensIn ==
  LET OK(x) == x \notin {"(", ")"}
  IN  /\ \A a, b, c, d, e, f :
           OK(a) /\ OK(b) /\ c = "(" /\ OK(d) /\ e = ")" /\ OK(f) =>
             ParensAt(<<a, b, c, d, e, f>>, 3, 5)
      /\ \A a, b, c, d, e, f, g, h, i :
           a = "(" /\ OK(b) /\ OK(c) /\ OK(d) /\ OK(e) /\ OK(f) /\ OK(g) /\ h = ")" /\ OK(i) =>
             ParensAt(<<a, b, c, d, e, f, g, h, i>>, 1, 8)
  BY DEF ParensAt

(* Where the parentheses of the statements are.                             *)
LEMMA ScriptParens ==
  \A p \in DOMAIN Script :
    NoParens(Script[p]) \/ \E a \in 1 .. 9, b \in 1 .. 9 : ParensAt(Script[p], a, b)
<1>1. /\ Script["exprstmt"] = <<"expr", ";?">> /\ Script["decl"] = <<";">>
      /\ \A p \in DOMAIN Statement : Script[p] = Statement[p]
  BY StatementDomain DEF Script
<1>2. NoParens(Script["exprstmt"]) /\ NoParens(Script["decl"])
  BY <1>1, NoParensIn, Zenon
<1>3. /\ NoParens(Statement["case"]) /\ NoParens(Statement["default"])
      /\ NoParens(Statement["break"]) /\ NoParens(Statement["continue"])
      /\ NoParens(Statement["goto"]) /\ NoParens(Statement["return"])
  BY NoParensIn, Zenon DEF Statement
<1>4. ParensAt(Statement["if"], 1, 4)
  <2>1. Statement["if"] = <<"(", "expr", "need", ")", "stmt", "need", "else?">>
    BY Zenon DEF Statement
  <2> QED
    BY <2>1 DEF ParensAt
<1>5. ParensAt(Statement["switch"], 1, 3) /\ ParensAt(Statement["while"], 1, 3)
  <2>1. /\ Statement["switch"] = <<"(", "expr", ")", "stmt">>
        /\ Statement["while"] = <<"(", "expr", ")", "stmt">>
    BY Zenon DEF Statement
  <2> QED
    BY <2>1 DEF ParensAt
<1>6. ParensAt(Statement["do"], 3, 5)
  BY ParensIn, Zenon DEF Statement
<1>7. ParensAt(Statement["for"], 1, 8)
  BY ParensIn, Zenon DEF Statement, ForParts
<1> QED
  <2>1. \A p \in {"exprstmt", "decl", "case", "default", "break", "continue", "goto", "return"} :
          NoParens(Script[p])
    BY <1>1, <1>2, <1>3, StatementDomain
  <2>2. \A p \in {"if", "switch", "while", "do", "for"} : Script[p] = Statement[p]
    BY <1>1, StatementDomain
  <2>3. /\ ParensAt(Script["if"], 1, 4) /\ ParensAt(Script["switch"], 1, 3)
        /\ ParensAt(Script["while"], 1, 3) /\ ParensAt(Script["do"], 3, 5)
        /\ ParensAt(Script["for"], 1, 8)
    BY <1>4, <1>5, <1>6, <1>7, <2>2
  <2>4. \A p \in {"if", "switch", "while", "do", "for"} :
          \E a \in 1 .. 9, b \in 1 .. 9 : ParensAt(Script[p], a, b)
    BY <2>3
  <2> QED
    BY <2>1, <2>4, ScriptDomain, StatementDomain, Zenon

(* A statement waits for the closing parenthesis from the opening one on.   *)
LEMMA WaitSteps ==
  ASSUME NEW p \in DOMAIN Script
  PROVE  /\ ParenWait(p, 1) = <<>> /\ ParenWait(p, Len(Script[p]) + 1) = <<>>
         /\ \A i \in 1 .. Len(Script[p]) :
              /\ Script[p][i] = "(" => ParenWait(p, i) = <<>> /\ ParenWait(p, i + 1) = <<"(">>
              /\ Script[p][i] = ")" => ParenWait(p, i) = <<"(">> /\ ParenWait(p, i + 1) = <<>>
              /\ Script[p][i] \notin {"(", ")"} => ParenWait(p, i + 1) = ParenWait(p, i)
<1> DEFINE s == Script[p]
<1>1. Len(s) \in Nat
  BY ScriptItems
<1>2. CASE NoParens(s)
  <2>1. \A i \in 1 .. Len(s) + 1 : ParenWait(p, i) = <<>>
    BY <1>1, <1>2 DEF NoParens, ParenWait, Passed
  <2>2. 1 \in 1 .. Len(s) + 1 /\ Len(s) + 1 \in 1 .. Len(s) + 1
    BY <1>1
  <2>3. \A i \in 1 .. Len(s) :
          s[i] \notin {"(", ")"} /\ i + 1 \in 1 .. Len(s) + 1 /\ i \in 1 .. Len(s) + 1
    BY <1>1, <1>2 DEF NoParens
  <2> QED
    BY <2>1, <2>2, <2>3
<1>3. CASE \E a \in 1 .. 9, b \in 1 .. 9 : ParensAt(s, a, b)
  <2>1. PICK a \in 1 .. 9, b \in 1 .. 9 : ParensAt(s, a, b)
    BY <1>3
  <2>2. /\ a \in 1 .. Len(s) /\ b \in 1 .. Len(s) /\ a < b
        /\ \A j \in 1 .. Len(s) : (s[j] = "(" <=> j = a) /\ (s[j] = ")" <=> j = b)
    BY <2>1 DEF ParensAt
  <2>3. ASSUME NEW i \in 1 .. Len(s) + 1
        PROVE  (Passed(p, i, "(") <=> a < i) /\ (Passed(p, i, ")") <=> b < i)
    <3>1. \A j \in 1 .. i - 1 : j \in 1 .. Len(s) /\ j < i
      BY <1>1
    <3>2. a < i => a \in 1 .. i - 1
      BY <1>1, <2>2
    <3>3. b < i => b \in 1 .. i - 1
      BY <1>1, <2>2
    <3> QED
      BY <2>2, <3>1, <3>2, <3>3 DEF Passed
  <2>4. \A i \in 1 .. Len(s) + 1 :
          ParenWait(p, i) = IF a < i /\ ~ (b < i) THEN <<"(">> ELSE <<>>
    BY <2>3 DEF ParenWait
  <2>5. ParenWait(p, 1) = <<>> /\ ParenWait(p, Len(s) + 1) = <<>>
    <3>1. 1 \in 1 .. Len(s) + 1 /\ Len(s) + 1 \in 1 .. Len(s) + 1 /\ ~ (a < 1) /\ b < Len(s) + 1
      BY <1>1, <2>2
    <3> QED
      BY <2>4, <3>1
  <2>6. ASSUME NEW i \in 1 .. Len(s)
        PROVE  /\ s[i] = "(" => ParenWait(p, i) = <<>> /\ ParenWait(p, i + 1) = <<"(">>
               /\ s[i] = ")" => ParenWait(p, i) = <<"(">> /\ ParenWait(p, i + 1) = <<>>
               /\ s[i] \notin {"(", ")"} => ParenWait(p, i + 1) = ParenWait(p, i)
    <3>1. i \in 1 .. Len(s) + 1 /\ i + 1 \in 1 .. Len(s) + 1
      BY <1>1
    <3>2. (s[i] = "(" <=> i = a) /\ (s[i] = ")" <=> i = b)
      BY <2>2
    <3>3. /\ ParenWait(p, i) = IF a < i /\ ~ (b < i) THEN <<"(">> ELSE <<>>
          /\ ParenWait(p, i + 1) = IF a < i + 1 /\ ~ (b < i + 1) THEN <<"(">> ELSE <<>>
      BY <2>4, <3>1
    <3> HIDE DEF s
    <3> QED
      BY <1>1, <2>2, <3>2, <3>3
  <2> QED
    BY <2>5, <2>6
<1> QED
  BY <1>2, <1>3, ScriptParens

(* The bracket a call waits for, by its function and its point.             *)
LEMMA AwaitsOf ==
  ASSUME NEW f
  PROVE  /\ f.at = "close" /\ f.proc = "postfix" => Awaits(f) = <<"[">>
         /\ f.at = "close" /\ f.proc = "primary" => Awaits(f) = <<"(">>
         /\ f.at = "close" /\ f.proc = "cond" => Awaits(f) = <<"?">>
         /\ f.at # "close" /\ f.proc = "block" => Awaits(f) = <<"{">>
         /\ f.at # "close" /\ f.proc \in ExprProc \cup {"stmt"} => Awaits(f) = <<>>
         /\ f.at # "close" /\ f.proc \in DOMAIN Script => Awaits(f) = ParenWait(f.proc, f.i)
<1>1. /\ "block" \notin DOMAIN Script /\ "block" \notin ExprProc
      /\ (ExprProc \cup {"stmt"}) \cap DOMAIN Script = {}
      /\ \A p \in {"postfix", "primary", "cond"} : p \notin DOMAIN Script /\ p # "block"
  BY ScriptDomain, StatementDomain, CalleeDomain DEF ExprProc
<1>2. f.at # "close" /\ f.proc = "block" => Awaits(f) = <<"{">>
  BY <1>1, Zenon DEF Awaits
<1>3. ASSUME f.at = "close", f.proc \in {"postfix", "primary", "cond"}
      PROVE  /\ f.proc = "postfix" => Awaits(f) = <<"[">>
             /\ f.proc = "primary" => Awaits(f) = <<"(">>
             /\ f.proc = "cond" => Awaits(f) = <<"?">>
  <2> DEFINE wait == [postfix |-> <<"[">>, primary |-> <<"(">>, cond |-> <<"?">>]
  <2>1. f.proc \notin DOMAIN Script /\ f.proc # "block"
    BY <1>1, <1>3
  <2>2. Awaits(f) = wait[f.proc]
    BY <1>3, <2>1, Zenon DEF Awaits
  <2>3. /\ wait["postfix"] = <<"[">> /\ wait["primary"] = <<"(">> /\ wait["cond"] = <<"?">>
    OBVIOUS
  <2> QED
    BY <2>2, <2>3
<1>4. f.at # "close" /\ f.proc \in DOMAIN Script => Awaits(f) = ParenWait(f.proc, f.i)
  <2> SUFFICES ASSUME f.at # "close", f.proc \in DOMAIN Script
               PROVE  Awaits(f) = ParenWait(f.proc, f.i)
    OBVIOUS
  <2>1. f.proc # "block"
    BY <1>1
  <2> QED
    BY <2>1, Zenon DEF Awaits, ParenWait, Passed
<1>5. f.at # "close" /\ f.proc \in ExprProc \cup {"stmt"} => Awaits(f) = <<>>
  <2> SUFFICES ASSUME f.at # "close", f.proc \in ExprProc \cup {"stmt"}
               PROVE  Awaits(f) = <<>>
    OBVIOUS
  <2>1. f.proc # "block" /\ f.proc \notin DOMAIN Script
    BY <1>3, ScriptDomain, StatementDomain, CalleeDomain, Zenon DEF ExprProc
  <2> QED
    BY <2>1, Zenon DEF Awaits
<1> QED
  BY <1>2, <1>3, <1>4, <1>5
-----------------------------------------------------------------------------
(* What a token does to the brackets                                        *)

(* Kinds that neither open nor close anything.                              *)
Plain(k) == k \notin AssignOps \cup Opening \cup {")", "]", "}", ":"}

(* The brackets the calls below the innermost one may wait for.             *)
OpenUnder == IF Top.proc \in ExprProc THEN Opening ELSE {"(", "{"}

(* The innermost call, which waited for Awaits(Top), waits for a; b is that *)
(* it expects a token that counts for nothing.                              *)
Turns(a, b) ==
  \/ Quiet /\ a = Awaits(Top) /\ (sources # <<>> => b = (Top.at = "op"))
  \/ \E k : /\ Takes(k)
            /\ \A o \in Seq(OpenUnder) :
                 Bracket([open |-> o \o Awaits(Top), skip |-> Top.at = "op"], k)
                 = [open |-> o \o a, skip |-> b]

(* A token that counts for nothing; an operator of assignment; an opening   *)
(* bracket; one that closes the last; and any other token.                  *)
LEMMA BracketCases ==
  ASSUME NEW o \in Seq(Opening), NEW k
  PROVE  /\ Bracket([open |-> o, skip |-> TRUE], k) = [open |-> o, skip |-> FALSE]
         /\ k \in AssignOps =>
              Bracket([open |-> o, skip |-> FALSE], k) = [open |-> o, skip |-> TRUE]
         /\ k \in Opening =>
              Bracket([open |-> o, skip |-> FALSE], k) = [open |-> Append(o, k), skip |-> FALSE]
         /\ \A b \in Opening : <<b, k>> \in Pairs =>
              Bracket([open |-> Append(o, b), skip |-> FALSE], k) = [open |-> o, skip |-> FALSE]
         /\ Plain(k) \/ (k = ":" /\ o \in Seq({"(", "{"})) =>
              Bracket([open |-> o, skip |-> FALSE], k) = [open |-> o, skip |-> FALSE]
<1>1. Bracket([open |-> o, skip |-> TRUE], k) = [open |-> o, skip |-> FALSE]
  BY DEF Bracket
<1>2. k \in AssignOps =>
        Bracket([open |-> o, skip |-> FALSE], k) = [open |-> o, skip |-> TRUE]
  BY DEF Bracket
<1>3. ASSUME k \in Opening
      PROVE  Bracket([open |-> o, skip |-> FALSE], k) = [open |-> Append(o, k), skip |-> FALSE]
  <2>1. k \notin AssignOps /\ \A b : <<b, k>> \notin Pairs
    BY <1>3 DEF Opening, AssignOps, Pairs
  <2> QED
    BY <1>3, <2>1 DEF Bracket
<1>4. ASSUME NEW b \in Opening, <<b, k>> \in Pairs
      PROVE  Bracket([open |-> Append(o, b), skip |-> FALSE], k) = [open |-> o, skip |-> FALSE]
  <2> DEFINE r == Append(o, b)
  <2>1. k \notin AssignOps
    BY <1>4 DEF AssignOps, Pairs
  <2>2. r # <<>> /\ r[Len(r)] = b
    BY AppendProperties, LenProperties
  <2>3. Front(r) = o
    BY FrontOfAppend
  <2> HIDE DEF r
  <2>4. Bracket([open |-> r, skip |-> FALSE], k) = [open |-> o, skip |-> FALSE]
    BY <1>4, <2>1, <2>2, <2>3 DEF Bracket
  <2> QED
    BY <2>4 DEF r
<1>5. ASSUME Plain(k) \/ (k = ":" /\ o \in Seq({"(", "{"}))
      PROVE  Bracket([open |-> o, skip |-> FALSE], k) = [open |-> o, skip |-> FALSE]
  <2>1. k \notin AssignOps /\ k \notin Opening \cup {")", "]", "}"}
    BY <1>5 DEF AssignOps, Opening, Plain
  <2>2. ~ (o # <<>> /\ <<o[Len(o)], k>> \in Pairs)
    <3>1. CASE Plain(k)
      BY <3>1 DEF Plain, Pairs
    <3>2. CASE k = ":" /\ o \in Seq({"(", "{"}) /\ o # <<>>
      <4>1. Len(o) \in 1 .. Len(o)
        <5>1. Len(o) \in Nat \ {0}
          BY <3>2, EmptySeq
        <5> QED
          BY <5>1
      <4>2. o[Len(o)] \in {"(", "{"}
        BY <3>2, <4>1, ElementOfSeq
      <4> QED
        BY <3>2, <4>2 DEF Pairs
    <3> QED
      BY <1>5, <3>1, <3>2
  <2> QED
    BY <2>1, <2>2 DEF Bracket
<1> QED
  BY <1>1, <1>2, <1>3, <1>4, <1>5

(* A call waits for at most one bracket, one of a statement for no ? and    *)
(* no [.                                                                    *)
LEMMA AwaitsIn ==
  ASSUME NEW m, NEW f, Fits(f, m)
  PROVE  /\ Awaits(f) \in Seq(Opening)
         /\ f.proc \notin ExprProc => Awaits(f) \in Seq({"(", "{"})
<1>1. /\ f.proc \in Procs
      /\ f.at = "close" => f.proc \in {"postfix", "primary", "cond"}
  BY DEF Fits, MayBeAt
<1>2. Procs = DOMAIN Script \cup ExprProc \cup {"stmt", "block"}
  BY Zenon DEF Procs, ExprProc, Calling
<1>3. {"postfix", "primary", "cond"} \subseteq ExprProc
  BY CalleeDomain DEF ExprProc
<1>4. \A p, i : ParenWait(p, i) \in {<<>>, <<"(">>}
  BY DEF ParenWait
<1>5. /\ Awaits(f) \in {<<>>, <<"(">>, <<"{">>, <<"[">>, <<"?">>}
      /\ f.proc \notin ExprProc => Awaits(f) \in {<<>>, <<"(">>, <<"{">>}
  BY <1>1, <1>2, <1>3, <1>4, AwaitsOf
<1>6. /\ \A b \in Opening : <<b>> \in Seq(Opening)
      /\ \A b \in {"(", "{"} : <<b>> \in Seq({"(", "{"})
      /\ <<>> \in Seq(Opening) /\ <<>> \in Seq({"(", "{"})
  BY EmptySeq
<1>7. {"(", "{", "[", "?"} = Opening
  BY DEF Opening
<1> QED
  BY <1>5, <1>6, <1>7

(* The brackets the calls below may wait for are brackets.                  *)
LEMMA UnderOpens ==
  ASSUME NEW o \in Seq(OpenUnder)
  PROVE  o \in Seq(Opening) /\ (Top.proc \notin ExprProc => o \in Seq({"(", "{"}))
<1>1. OpenUnder \subseteq Opening
  BY DEF OpenUnder, Opening
<1> QED
  BY <1>1, SeqMonotonic DEF OpenUnder

(* No token.                                                                *)
LEMMA TurnQuiet == Quiet => Turns(Awaits(Top), Top.at = "op")
  BY DEF Turns

(* No token, and none to come.                                              *)
LEMMA TurnAtEnd == Quiet /\ sources = <<>> => Turns(Awaits(Top), FALSE)
  BY DEF Turns

(* A call that waited for nothing waits for the bracket to close.           *)
LEMMA TurnOpen ==
  ASSUME NEW k \in Opening, Takes(k), Top.at # "op", Awaits(Top) = <<>>
  PROVE  Turns(<<k>>, FALSE)
<1>1. ASSUME NEW o \in Seq(OpenUnder)
      PROVE  Bracket([open |-> o \o <<>>, skip |-> FALSE], k) = [open |-> o \o <<k>>, skip |-> FALSE]
  <2>1. o \in Seq(Opening)
    BY UnderOpens
  <2>2. o \o <<>> = o /\ o \o <<k>> = Append(o, k)
    BY <2>1, ConcatEmptySeq
  <2>3. Bracket([open |-> o, skip |-> FALSE], k) = [open |-> Append(o, k), skip |-> FALSE]
    BY <2>1, BracketCases
  <2> QED
    BY <2>2, <2>3, Zenon
<1> QED
  BY <1>1, Zenon DEF Turns

(* A call that waited for this bracket waits for nothing.                   *)
LEMMA TurnClose ==
  ASSUME NEW b \in Opening, NEW k, <<b, k>> \in Pairs, Takes(k), Top.at # "op",
         Awaits(Top) = <<b>>
  PROVE  Turns(<<>>, FALSE)
<1>1. ASSUME NEW o \in Seq(OpenUnder)
      PROVE  Bracket([open |-> o \o <<b>>, skip |-> FALSE], k) = [open |-> o \o <<>>, skip |-> FALSE]
  <2>1. o \in Seq(Opening)
    BY UnderOpens
  <2>2. o \o <<>> = o /\ o \o <<b>> = Append(o, b)
    BY <2>1, ConcatEmptySeq
  <2>3. Bracket([open |-> Append(o, b), skip |-> FALSE], k) = [open |-> o, skip |-> FALSE]
    BY <2>1, BracketCases
  <2> QED
    BY <2>2, <2>3, Zenon
<1> QED
  BY <1>1, Zenon DEF Turns

(* No bracket.                                                              *)
LEMMA TurnPlain ==
  ASSUME NEW m, Fits(Top, m), NEW k, Takes(k), Top.at # "op",
         Plain(k) \/ (k = ":" /\ Top.proc \notin ExprProc)
  PROVE  Turns(Awaits(Top), FALSE)
<1>1. ASSUME NEW o \in Seq(OpenUnder)
      PROVE  Bracket([open |-> o \o Awaits(Top), skip |-> FALSE], k)
             = [open |-> o \o Awaits(Top), skip |-> FALSE]
  <2>1. /\ o \o Awaits(Top) \in Seq(Opening)
        /\ Top.proc \notin ExprProc => o \o Awaits(Top) \in Seq({"(", "{"})
    BY UnderOpens, AwaitsIn, ConcatProperties
  <2> QED
    BY <2>1, BracketCases
<1> QED
  BY <1>1, Zenon DEF Turns

(* An operator of assignment.                                               *)
LEMMA TurnAssign ==
  ASSUME NEW m, Fits(Top, m), NEW k \in AssignOps, Takes(k), Top.at # "op"
  PROVE  Turns(Awaits(Top), TRUE)
<1>1. ASSUME NEW o \in Seq(OpenUnder)
      PROVE  Bracket([open |-> o \o Awaits(Top), skip |-> FALSE], k)
             = [open |-> o \o Awaits(Top), skip |-> TRUE]
  <2>1. o \o Awaits(Top) \in Seq(Opening)
    BY UnderOpens, AwaitsIn, ConcatProperties
  <2> QED
    BY <2>1, BracketCases
<1> QED
  BY <1>1, Zenon DEF Turns

(* What is taken for the operator.                                          *)
LEMMA TurnSkip ==
  ASSUME NEW m, Fits(Top, m), NEW k, Takes(k), Top.at = "op"
  PROVE  Turns(Awaits(Top), FALSE)
<1>1. ASSUME NEW o \in Seq(OpenUnder)
      PROVE  Bracket([open |-> o \o Awaits(Top), skip |-> TRUE], k)
             = [open |-> o \o Awaits(Top), skip |-> FALSE]
  <2>1. o \o Awaits(Top) \in Seq(Opening)
    BY UnderOpens, AwaitsIn, ConcatProperties
  <2> QED
    BY <2>1, BracketCases
<1> QED
  BY <1>1, Zenon DEF Turns
-----------------------------------------------------------------------------
(* What holds of a stack when a call is added, changed or taken away        *)

Nested(s, g) == Layered(s) /\ Settled(s) /\ Low(s, g)
Waits(s) == [n \in DOMAIN s |-> Awaits(s[n])]

(* What a call stands for is its function and how far it is.                *)
Alike2(f, g) == f.proc = g.proc /\ f.at = g.at /\ f.i = g.i

(* A sequence with one more element.                                        *)
LEMMA Appended ==
  ASSUME NEW s, s \in Seq(Range(s)), NEW f
  PROVE  /\ Len(s) \in Nat /\ Len(Append(s, f)) = Len(s) + 1
         /\ \A i \in 1 .. Len(s) : Append(s, f)[i] = s[i]
         /\ Append(s, f)[Len(s) + 1] = f
         /\ DOMAIN s = 1 .. Len(s) /\ DOMAIN Append(s, f) = 1 .. Len(s) + 1
<1> DEFINE S == Range(s) \cup {f}
<1>1. s \in Seq(S) /\ f \in S
  BY SeqMonotonic
<1> HIDE DEF S
<1> QED
  BY <1>1, AppendProperties, LenProperties

(* The stack is what is below the innermost call, and this call.            *)
LEMMA StackSplit ==
  ASSUME NEW n \in Nat, StackFits(stack, n), stack # <<>>
  PROVE  /\ Below \in Seq(Range(Below)) /\ StackFits(Below, n) /\ Fits(Top, n)
         /\ Len(Below) \in Nat /\ Len(stack) = Len(Below) + 1
         /\ stack = Append(Below, Top)
<1>1. stack \in Seq(Range(stack)) /\ Len(stack) \in Nat \ {0}
  BY EmptySeq DEF StackFits
<1>2. Below = Front(stack)
  BY DEF Below, Front
<1>3. /\ Below \in Seq(Range(stack)) /\ Len(Below) = Len(stack) - 1
      /\ \A i \in 1 .. Len(stack) - 1 : Below[i] = stack[i]
  BY <1>1, <1>2, FrontIn
<1>4. StackFits(Below, n) /\ Fits(Top, n) /\ Below \in Seq(Range(Below))
  BY BelowFits DEF StackFits
<1>5. Top \in Range(stack)
  <2>1. Len(stack) \in 1 .. Len(stack)
    BY <1>1
  <2> QED
    BY <1>1, <2>1, ElementOfSeq DEF Top
<1> DEFINE r == Append(Below, Top)
<1>6. /\ r \in Seq(Range(stack)) /\ Len(r) = Len(stack)
      /\ \A i \in 1 .. Len(stack) : r[i] = stack[i]
  <2>1. /\ r \in Seq(Range(stack)) /\ Len(r) = Len(Below) + 1
        /\ \A i \in 1 .. Len(Below) : r[i] = Below[i]
        /\ r[Len(Below) + 1] = Top
    BY <1>3, <1>5, AppendProperties
  <2>2. Len(r) = Len(stack)
    BY <1>1, <1>3, <2>1
  <2>3. ASSUME NEW i \in 1 .. Len(stack) PROVE r[i] = stack[i]
    <3>1. CASE i = Len(stack)
      <4>1. i = Len(Below) + 1
        BY <1>1, <1>3, <3>1
      <4> QED
        BY <2>1, <3>1, <4>1 DEF Top
    <3>2. CASE i # Len(stack)
      <4>1. i \in 1 .. Len(Below) /\ i \in 1 .. Len(stack) - 1
        BY <1>1, <1>3, <3>2
      <4> QED
        BY <1>3, <2>1, <4>1
    <3> QED
      BY <3>1, <3>2
  <2> QED
    BY <2>1, <2>2, <2>3
<1> HIDE DEF r
<1>7. stack = r
  BY <1>1, <1>6, SeqEqual
<1> QED
  BY <1>1, <1>3, <1>4, <1>7 DEF r

(* Without the last call.                                                   *)
LEMMA NestedShorter ==
  ASSUME NEW s, s \in Seq(Range(s)), NEW f, NEW g \in Nat, Nested(Append(s, f), g)
  PROVE  /\ Nested(s, g)
         /\ \A j \in 1 .. Len(s) : s[j].at # "op"
         /\ Len(s) + 8 <= 11 * g + Height(f)
         /\ f.proc \notin ExprProc => \A i \in 1 .. Len(s) : s[i].proc \notin ExprProc
<1> DEFINE r == Append(s, f)
<1>1. /\ Len(s) \in Nat /\ Len(r) = Len(s) + 1
      /\ \A i \in 1 .. Len(s) : r[i] = s[i]
      /\ r[Len(s) + 1] = f
  BY Appended
<1> HIDE DEF r
<1>2. Layered(r) /\ Settled(r) /\ Low(r, g)
  BY DEF Nested, r
<1>3. /\ \A i \in 1 .. Len(s) : i \in 1 .. Len(r) /\ i \in 1 .. Len(r) - 1 /\ i \in 1 .. Len(s) + 1
      /\ Len(s) + 1 \in 1 .. Len(r)
      /\ \A j \in 1 .. Len(s) : \A i \in 1 .. j : i \in 1 .. Len(s)
      /\ \A j \in 1 .. Len(s) - 1 : j \in 1 .. Len(s)
      /\ Len(s) + 1 + 7 = Len(s) + 8
  BY <1>1
<1>4. Layered(s)
  BY <1>1, <1>2, <1>3 DEF Layered
<1>5. \A j \in 1 .. Len(s) : s[j].at # "op"
  BY <1>1, <1>2, <1>3 DEF Settled
<1>6. Settled(s)
  BY <1>3, <1>5 DEF Settled
<1>7. Low(s, g)
  BY <1>1, <1>2, <1>3 DEF Low
<1>8. Len(s) + 8 <= 11 * g + Height(f)
  <2>1. Len(s) + 1 + 7 <= 11 * g + Height(r[Len(s) + 1])
    BY <1>2, <1>3 DEF Low
  <2> QED
    BY <1>1, <1>3, <2>1
<1>9. f.proc \notin ExprProc => \A i \in 1 .. Len(s) : s[i].proc \notin ExprProc
  <2>1. r[Len(s) + 1].proc \notin ExprProc =>
          \A i \in 1 .. Len(s) + 1 : r[i].proc \notin ExprProc
    BY <1>2, <1>3 DEF Layered
  <2> QED
    BY <1>1, <1>3, <2>1
<1> QED
  BY <1>4, <1>5, <1>6, <1>7, <1>8, <1>9 DEF Nested

(* With one more call.                                                      *)
LEMMA NestedLonger ==
  ASSUME NEW s, s \in Seq(Range(s)), NEW f, NEW g \in Nat, NEW h \in Nat, g <= h, Nested(s, g),
         \A j \in 1 .. Len(s) : s[j].at # "op" /\ Height(s[j]) \in Nat,
         Len(s) + 8 <= 11 * h + Height(f),
         f.proc \notin ExprProc => \A i \in 1 .. Len(s) : s[i].proc \notin ExprProc
  PROVE  Nested(Append(s, f), h)
<1> DEFINE r == Append(s, f)
<1>1. /\ Len(s) \in Nat /\ Len(r) = Len(s) + 1
      /\ \A i \in 1 .. Len(s) : r[i] = s[i]
      /\ r[Len(s) + 1] = f
  BY Appended
<1> HIDE DEF r
<1>2. Layered(s) /\ Low(s, g)
  BY DEF Nested
<1>3. \A j \in 1 .. Len(r) : j \in 1 .. Len(s) \/ j = Len(s) + 1
  BY <1>1
<1>4. Layered(r)
  <2> SUFFICES ASSUME NEW j \in 1 .. Len(r), r[j].proc \notin ExprProc, NEW i \in 1 .. j
               PROVE  r[i].proc \notin ExprProc
    BY DEF Layered
  <2>1. CASE j \in 1 .. Len(s)
    <3>1. i \in 1 .. Len(s)
      BY <1>1, <2>1
    <3> QED
      BY <1>1, <1>2, <2>1, <3>1 DEF Layered
  <2>2. CASE j = Len(s) + 1
    <3>1. f.proc \notin ExprProc /\ (i \in 1 .. Len(s) \/ i = j)
      BY <1>1, <2>2
    <3> QED
      BY <1>1, <2>2, <3>1
  <2> QED
    BY <1>3, <2>1, <2>2
<1>5. Settled(r)
  <2>1. \A j \in 1 .. Len(r) - 1 : j \in 1 .. Len(s)
    BY <1>1
  <2> QED
    BY <1>1, <2>1 DEF Settled
<1>6. Low(r, h)
  <2> SUFFICES ASSUME NEW j \in 1 .. Len(r) PROVE j + 7 <= 11 * h + Height(r[j])
    BY DEF Low
  <2>1. CASE j \in 1 .. Len(s)
    <3>1. j + 7 <= 11 * g + Height(s[j]) /\ Height(s[j]) \in Nat /\ r[j] = s[j]
      BY <1>1, <1>2, <2>1 DEF Low
    <3> QED
      BY <3>1
  <2>2. CASE j = Len(s) + 1
    BY <1>1, <2>2
  <2> QED
    BY <1>3, <2>1, <2>2
<1> QED
  BY <1>4, <1>5, <1>6 DEF Nested, r

(* A call that got a node.                                                  *)
LEMMA NestedSame ==
  ASSUME NEW s, NEW t, Len(t) = Len(s), Len(s) \in Nat,
         \A i \in 1 .. Len(s) : Alike2(t[i], s[i]), NEW g, Nested(s, g)
  PROVE  Nested(t, g)
<1>1. \A i \in 1 .. Len(s) : t[i].proc = s[i].proc /\ t[i].at = s[i].at
  BY DEF Alike2
<1>2. \A i \in 1 .. Len(s) : Height(t[i]) = Height(s[i])
  BY <1>1 DEF Height
<1>3. \A j \in 1 .. Len(s) : \A i \in 1 .. j : i \in 1 .. Len(s)
  OBVIOUS
<1>4. Layered(t)
  BY <1>1, <1>3 DEF Layered, Nested
<1>5. Settled(t)
  BY <1>1 DEF Settled, Nested
<1>6. Low(t, g)
  BY <1>2 DEF Low, Nested
<1> QED
  BY <1>4, <1>5, <1>6 DEF Nested

(* The heights of functions.                                                *)
LEMMA Ranks ==
  /\ Rank["stmt"] = 8 /\ Rank["exprstmt"] = 8 /\ Rank["decl"] = 8 /\ Rank["block"] = 7
  /\ \A p \in DOMAIN Statement : Rank[p] = 7
  /\ Rank["expr"] = 9 /\ Rank["assign"] = 10 /\ Rank["cond"] = 11 /\ Rank["logic"] = 12
  /\ Rank["bitwise"] = 13 /\ Rank["relational"] = 14 /\ Rank["binary"] = 15
  /\ Rank["binary2"] = 16 /\ Rank["unary"] = 17 /\ Rank["postfix"] = 18 /\ Rank["primary"] = 19
  /\ \A p \in Procs : Rank[p] \in 7 .. 19
<1>1. /\ {"stmt", "exprstmt", "decl", "block", "unary", "primary"} \subseteq Procs
      /\ Calling \subseteq Procs /\ DOMAIN Statement \subseteq Procs
  BY ProcNames, ScriptDomain, Zenon DEF Procs, Calling
<1>2. \A p \in DOMAIN Statement :
        p \notin Calling \cup {"stmt", "exprstmt", "decl", "unary", "primary"}
  BY StatementDomain, CalleeDomain
<1>3. \A p \in Procs : Rank[p] \in 7 .. 19
  BY DEF Rank
<1>4. \A p \in DOMAIN Statement : Rank[p] = 7
  BY <1>1, <1>2, CalleeDomain DEF Rank
<1> QED
  BY <1>1, <1>3, <1>4, CalleeDomain DEF Rank

(* The height of a call is at most that of parse_primary_expr.              *)
LEMMA HeightIn ==
  ASSUME NEW f, f.proc \in Procs
  PROVE  Height(f) \in Nat /\ Height(f) <= 19
<1>1. Rank[f.proc] \in 7 .. 19
  BY Ranks
<1> QED
  BY <1>1 DEF Height

(* What the calls of a stack wait for are brackets, those of statements     *)
(* only braces and parentheses.                                             *)
LEMMA WaitsIn ==
  ASSUME NEW n, NEW s, StackFits(s, n)
  PROVE  /\ Waits(s) \in Seq(Seq(Opening))
         /\ (\A i \in 1 .. Len(s) : s[i].proc \notin ExprProc) => Waits(s) \in Seq(Seq({"(", "{"}))
<1>1. s \in Seq(Range(s)) /\ Len(s) \in Nat /\ DOMAIN s = 1 .. Len(s)
  BY LenProperties DEF StackFits
<1>2. \A i \in 1 .. Len(s) : Fits(s[i], n)
  BY DEF StackFits
<1>3. \A i \in 1 .. Len(s) :
        /\ Awaits(s[i]) \in Seq(Opening)
        /\ s[i].proc \notin ExprProc => Awaits(s[i]) \in Seq({"(", "{"})
  BY <1>2, AwaitsIn
<1>4. Waits(s) \in [1 .. Len(s) -> Seq(Opening)]
  BY <1>1, <1>3 DEF Waits
<1>5. (\A i \in 1 .. Len(s) : s[i].proc \notin ExprProc) =>
        Waits(s) \in [1 .. Len(s) -> Seq({"(", "{"})]
  BY <1>1, <1>3 DEF Waits
<1>6. \A T : \A w \in [1 .. Len(s) -> T] : w \in Seq(T)
  BY <1>1
<1> QED
  BY <1>4, <1>5, <1>6

(* One more call.                                                           *)
LEMMA WaitsLonger ==
  ASSUME NEW n \in Nat, NEW s, StackFits(s, n), NEW f, Fits(f, n)
  PROVE  /\ Waits(Append(s, f)) = Append(Waits(s), Awaits(f))
         /\ Waiting(Append(s, f)) = Waiting(s) \o Awaits(f)
         /\ Waiting(s) \in Seq(Opening)
         /\ (\A i \in 1 .. Len(s) : s[i].proc \notin ExprProc) => Waiting(s) \in Seq({"(", "{"})
<1> DEFINE r == Append(s, f)
           w == Append(Waits(s), Awaits(f))
<1>1. /\ s \in Seq(Range(s))
      /\ Waits(s) \in Seq(Seq(Opening)) /\ Awaits(f) \in Seq(Opening)
  BY WaitsIn, AwaitsIn DEF StackFits
<1>2. /\ Len(s) \in Nat /\ DOMAIN r = 1 .. Len(s) + 1 /\ DOMAIN s = 1 .. Len(s)
      /\ \A i \in 1 .. Len(s) : r[i] = s[i]
      /\ r[Len(s) + 1] = f
  BY <1>1, Appended
<1>3. Len(Waits(s)) = Len(s)
  BY <1>1, <1>2, LenProperties DEF Waits
<1>4. /\ w \in Seq(Seq(Opening)) /\ Len(w) = Len(s) + 1
      /\ \A i \in 1 .. Len(s) : w[i] = Waits(s)[i]
      /\ w[Len(s) + 1] = Awaits(f)
  BY <1>1, <1>3, AppendProperties
<1> HIDE DEF r
<1>5. Waits(r) = [i \in 1 .. Len(s) + 1 |-> Awaits(r[i])]
  BY <1>2 DEF Waits
<1>6. \A i \in 1 .. Len(s) : Waits(s)[i] = Awaits(s[i])
  BY <1>2 DEF Waits
<1>7. \A i \in 1 .. Len(s) + 1 : Awaits(r[i]) = w[i]
  <2> TAKE i \in 1 .. Len(s) + 1
  <2>1. CASE i = Len(s) + 1
    BY <1>2, <1>4, <2>1
  <2>2. CASE i # Len(s) + 1
    <3>1. i \in 1 .. Len(s)
      BY <1>2, <2>2
    <3> QED
      BY <1>2, <1>4, <1>6, <3>1
  <2> QED
    BY <2>1, <2>2
<1>8. w = [i \in 1 .. Len(s) + 1 |-> w[i]]
  BY <1>4, LenProperties
<1> HIDE DEF w
<1>9. Waits(r) = w
  BY <1>5, <1>7, <1>8
<1>10. Waiting(r) = FlattenSeq(Waits(r)) /\ Waiting(s) = FlattenSeq(Waits(s))
  BY DEF Waiting, Waits
<1>11. /\ FlattenSeq(Append(Waits(s), Awaits(f))) = FlattenSeq(Waits(s)) \o Awaits(f)
       /\ FlattenSeq(Waits(s)) \in Seq(Opening)
  BY <1>1, FlattenAppend
<1>12. ASSUME \A i \in 1 .. Len(s) : s[i].proc \notin ExprProc
       PROVE  Waiting(s) \in Seq({"(", "{"})
  <2>1. Waits(s) \in Seq(Seq({"(", "{"})) /\ <<>> \in Seq({"(", "{"})
    BY <1>12, WaitsIn, EmptySeq
  <2> QED
    BY <1>10, <2>1, FlattenAppend
<1> QED
  BY <1>9, <1>10, <1>11, <1>12 DEF r, w

(* A call that got a node waits for what it waited for.                     *)
LEMMA WaitsSame ==
  ASSUME NEW s, NEW t, DOMAIN t = DOMAIN s, \A i \in DOMAIN s : Alike2(t[i], s[i])
  PROVE  Waiting(t) = Waiting(s)
<1>1. ASSUME NEW f, NEW g, Alike2(f, g) PROVE Awaits(f) = Awaits(g)
  <2>1. f.proc = g.proc /\ f.at = g.at /\ f.i = g.i
    BY <1>1 DEF Alike2
  <2> QED
    BY <2>1 DEF Awaits
<1>2. \A i \in DOMAIN s : Awaits(t[i]) = Awaits(s[i])
  BY <1>1
<1>3. [i \in DOMAIN t |-> Awaits(t[i])] = [i \in DOMAIN s |-> Awaits(s[i])]
  BY <1>2
<1> QED
  BY <1>3, Zenon DEF Waiting
-----------------------------------------------------------------------------
(* What a step does to the calls                                            *)

(* The innermost call goes on as f: of the same layer, with room for it and *)
(* the brackets waited for that are open.                                   *)
OnTo(f) ==
  /\ f.proc \in ExprProc <=> Top.proc \in ExprProc
  /\ 11 * Len(given) + Height(Top) <= 11 * Len(given') + Height(f)
  /\ Turns(Awaits(f), f.at = "op")

(* It calls proc: not a statement out of an expression, and with room.      *)
Into(proc) ==
  /\ proc \in Startable
  /\ proc \in ExprProc \/ Top.proc \notin ExprProc
  /\ 11 * Len(given) + Height(Top) + 1 <= 11 * Len(given') + Rank[proc]

NestMove ==
  \/ \E f : OnTo(f) /\ Become(f)
  \/ \E f, proc : OnTo(f) /\ f.at # "op" /\ Into(proc) /\ Call(proc, f)
  \/ Turns(<<>>, FALSE) /\ \E node : Return(node)
  \/ \E how \in {"fatal", "crash"} : Stop(how)

(* A function begins at its height, waiting for nothing.                    *)
LEMMA StartNests ==
  ASSUME NEW proc \in Startable
  PROVE  /\ Start(proc).proc = proc /\ Start(proc).at \in {"look", "call"}
         /\ Height(Start(proc)) = Rank[proc] /\ Awaits(Start(proc)) = <<>>
<1> DEFINE f == Start(proc)
<1>1. f = Frame(proc, IF proc \in Calling THEN "call" ELSE "look")
  BY DEF Start, Calling
<1>2. f.proc = proc /\ f.at \in {"look", "call"} /\ f.i = 1
  BY <1>1 DEF Frame
<1> HIDE DEF f
<1>3. Height(f) = Rank[proc]
  BY <1>2 DEF Height
<1>4. proc \in ExprProc \cup {"stmt"} \/ (proc = "decl" /\ proc \in DOMAIN Script)
  BY ScriptDomain DEF Startable, ExprProc
<1>5. proc \in DOMAIN Script => ParenWait(proc, 1) = <<>>
  BY WaitSteps
<1>6. Awaits(f) = <<>>
  <2>1. f.at # "close"
    BY <1>2
  <2>2. CASE proc \in ExprProc \cup {"stmt"}
    BY <1>2, <2>1, <2>2, AwaitsOf
  <2>3. CASE proc \in DOMAIN Script
    <3>1. Awaits(f) = ParenWait(f.proc, f.i)
      BY <1>2, <2>1, <2>3, AwaitsOf
    <3> QED
      BY <1>2, <1>5, <2>3, <3>1
  <2> QED
    BY <1>4, <2>2, <2>3
<1> QED
  BY <1>2, <1>3, <1>6 DEF f

(* The brackets that are open, and whether the next token counts for        *)
(* nothing, if there is one.                                                *)
BracketsAre(kinds, srcs, open, skip) ==
  /\ Brackets(kinds).open = open
  /\ srcs # <<>> => Brackets(kinds).skip = skip

(* A step that turns what the innermost call waits for turns the brackets.  *)
LEMMA TurnsBrackets ==
  ASSUME ParserInv, NEW o \in Seq(OpenUnder), NEW a, NEW b, Turns(a, b),
         BracketsAre(GivenKinds, sources, o \o Awaits(Top), Top.at = "op")
  PROVE  BracketsAre(GivenKinds', sources', o \o a, b)
<1>1. CASE Quiet /\ a = Awaits(Top) /\ (sources # <<>> => b = (Top.at = "op"))
  BY <1>1 DEF Quiet, BracketsAre
<1>2. CASE \E k : /\ Takes(k)
                  /\ \A p \in Seq(OpenUnder) :
                       Bracket([open |-> p \o Awaits(Top), skip |-> Top.at = "op"], k)
                       = [open |-> p \o a, skip |-> b]
  <2>1. PICK k : /\ Takes(k)
                 /\ Bracket([open |-> o \o Awaits(Top), skip |-> Top.at = "op"], k)
                    = [open |-> o \o a, skip |-> b]
    BY <1>2
  <2>2. GivenKinds \in Seq(Kind \cup {EOF})
    BY GivenFacts
  <2>3. GivenKinds \in Seq(Kind \cup {EOF} \cup {k}) /\ k \in Kind \cup {EOF} \cup {k}
    BY <2>2, SeqMonotonic
  <2>4. /\ Brackets(GivenKinds') = Bracket(Brackets(GivenKinds), k)
        /\ Brackets(GivenKinds) \in Accs(Kind \cup {EOF} \cup {k})
    BY <2>1, <2>3, BracketsAppend DEF Takes
  <2>5. Brackets(GivenKinds) = [open |-> o \o Awaits(Top), skip |-> Top.at = "op"]
    BY <2>1, <2>4 DEF BracketsAre, Takes, Accs
  <2>6. Brackets(GivenKinds') = [open |-> o \o a, skip |-> b]
    BY <2>1, <2>4, <2>5
  <2> QED
    BY <2>6 DEF BracketsAre
<1> QED
  BY <1>1, <1>2 DEF Turns

(* The invariant, of the calls below the innermost one and of this one.     *)
LEMMA NestParts ==
  ASSUME ParserInv, StackInv, NestInv, stack # <<>>
  PROVE  /\ StackFits(Below, Len(read)) /\ Fits(Top, Len(read))
         /\ Below \in Seq(Range(Below)) /\ Len(Below) \in Nat
         /\ Nested(Below, Len(given))
         /\ \A j \in 1 .. Len(Below) : Below[j].at # "op" /\ Height(Below[j]) \in Nat
         /\ Len(Below) + 8 <= 11 * Len(given) + Height(Top)
         /\ Top.proc \notin ExprProc => \A i \in 1 .. Len(Below) : Below[i].proc \notin ExprProc
         /\ Waiting(Below) \in Seq(OpenUnder) /\ Waiting(Below) \in Seq(Opening)
         /\ BracketsAre(GivenKinds, sources, Waiting(Below) \o Awaits(Top), Top.at = "op")
<1>1. Len(read) \in Nat /\ Len(given) \in Nat
  BY GivenFacts
<1>2. StackFits(stack, Len(read)) /\ status = "run"
  BY DEF StackInv
<1>3. /\ Below \in Seq(Range(Below)) /\ StackFits(Below, Len(read)) /\ Fits(Top, Len(read))
      /\ Len(Below) \in Nat /\ stack = Append(Below, Top)
  BY <1>1, <1>2, StackSplit
<1>4. Nested(Append(Below, Top), Len(given))
  BY <1>3 DEF NestInv, Nested
<1>5. /\ Nested(Below, Len(given))
      /\ \A j \in 1 .. Len(Below) : Below[j].at # "op"
      /\ Len(Below) + 8 <= 11 * Len(given) + Height(Top)
      /\ Top.proc \notin ExprProc => \A i \in 1 .. Len(Below) : Below[i].proc \notin ExprProc
  BY <1>1, <1>3, <1>4, NestedShorter
<1>6. ASSUME NEW j \in 1 .. Len(Below) PROVE Height(Below[j]) \in Nat
  <2>1. Below[j].proc \in Procs
    BY <1>3 DEF StackFits, Fits
  <2> QED
    BY <2>1, HeightIn
<1>7. /\ Waiting(stack) = Waiting(Below) \o Awaits(Top)
      /\ Waiting(Below) \in Seq(Opening)
      /\ Top.proc \notin ExprProc => Waiting(Below) \in Seq({"(", "{"})
  <2>1. /\ Waiting(Append(Below, Top)) = Waiting(Below) \o Awaits(Top)
        /\ Waiting(Below) \in Seq(Opening)
        /\ (\A i \in 1 .. Len(Below) : Below[i].proc \notin ExprProc) =>
             Waiting(Below) \in Seq({"(", "{"})
    <3>1. PICK n \in Nat : n = Len(read)
      BY <1>1
    <3>2. StackFits(Below, n) /\ Fits(Top, n)
      BY <1>3, <3>1
    <3> QED
      BY <3>2, WaitsLonger
  <2> QED
    BY <1>3, <1>5, <2>1
<1>8. Waiting(Below) \in Seq(OpenUnder)
  BY <1>7 DEF OpenUnder
<1>9. BracketsAre(GivenKinds, sources, Waiting(Below) \o Awaits(Top), Top.at = "op")
  BY <1>2, <1>7 DEF BracketsAre, NestInv
<1> QED
  BY <1>3, <1>5, <1>6, <1>7, <1>8, <1>9

(* More tokens leave more room.                                             *)
LEMMA NestedLater ==
  ASSUME NEW s, NEW g \in Nat, NEW h \in Nat, g <= h, Nested(s, g),
         \A j \in 1 .. Len(s) : Height(s[j]) \in Nat
  PROVE  Nested(s, h)
<1>1. ASSUME NEW j \in 1 .. Len(s) PROVE j + 7 <= 11 * h + Height(s[j])
  <2>1. j + 7 <= 11 * g + Height(s[j]) /\ Height(s[j]) \in Nat
    BY DEF Nested, Low
  <2> QED
    BY <2>1
<1> QED
  BY <1>1 DEF Nested, Low

(* No call.                                                                 *)
LEMMA NestedNone ==
  /\ \A g : Nested(<<>>, g)
  /\ Waiting(<<>>) = <<>>
<1>1. Len(<<>>) = 0 /\ DOMAIN <<>> = 1 .. 0 /\ 1 .. 0 = {}
  BY EmptySeq
<1>2. \A g : Nested(<<>>, g)
  BY <1>1 DEF Nested, Layered, Settled, Low
<1>3. Waits(<<>>) = <<>>
  BY <1>1 DEF Waits
<1>4. Waiting(<<>>) = <<>>
  <2>1. FlattenSeq(<<>>) = <<>>
    BY <1>1 DEF FlattenSeq
  <2> QED
    BY <1>3, <2>1 DEF Waiting, Waits
<1> QED
  BY <1>2, <1>4

(* The innermost call goes on.                                              *)
LEMMA BecomeNests ==
  ASSUME ParserInv, StackInv, StackInv', NestInv, stack # <<>>,
         NEW m \in Nat, m = Len(read'), Len(read) <= m,
         NEW h \in Nat, h = Len(given'), Len(given) <= h,
         NEW f, OnTo(f), Become(f)
  PROVE  NestInv'
<1>1. /\ StackFits(Below, Len(read)) /\ Below \in Seq(Range(Below)) /\ Len(Below) \in Nat
      /\ Nested(Below, Len(given))
      /\ \A j \in 1 .. Len(Below) : Below[j].at # "op" /\ Height(Below[j]) \in Nat
      /\ Len(Below) + 8 <= 11 * Len(given) + Height(Top)
      /\ Top.proc \notin ExprProc => \A i \in 1 .. Len(Below) : Below[i].proc \notin ExprProc
      /\ Waiting(Below) \in Seq(OpenUnder)
      /\ BracketsAre(GivenKinds, sources, Waiting(Below) \o Awaits(Top), Top.at = "op")
      /\ Fits(Top, Len(read))
  BY NestParts
<1>2. Len(read) \in Nat /\ Len(given) \in Nat
  BY GivenFacts
<1> DEFINE r == Append(Below, f)
<1>3. stack' = r /\ status' = status
  BY DEF Become
<1>4. Len(r) = Len(Below) + 1 /\ r[Len(Below) + 1] = f
  BY <1>1, Appended
<1>5. StackFits(Below, m)
  BY <1>1, <1>2, FitsLater DEF StackFits
<1>6. Fits(f, m)
  <2>1. StackFits(r, m) /\ Len(r) \in 1 .. Len(r)
    BY <1>1, <1>3, <1>4 DEF StackInv
  <2> HIDE DEF r
  <2> QED
    BY <1>4, <2>1 DEF StackFits
<1>7. Len(Below) + 8 <= 11 * h + Height(f)
  <2>1. Height(f) \in Nat /\ Height(Top) \in Nat
    <3>1. f.proc \in Procs /\ Top.proc \in Procs
      BY <1>1, <1>6 DEF Fits
    <3> QED
      BY <3>1, HeightIn
  <2> QED
    BY <1>1, <1>2, <2>1 DEF OnTo
<1>8. Nested(r, h)
  BY <1>1, <1>2, <1>7, NestedLonger DEF OnTo
<1>9. Waiting(r) = Waiting(Below) \o Awaits(f)
  BY <1>5, <1>6, WaitsLonger
<1>10. BracketsAre(GivenKinds', sources', Waiting(Below) \o Awaits(f), f.at = "op")
  <2>1. PICK o \in Seq(OpenUnder) : o = Waiting(Below)
    BY <1>1
  <2> DEFINE a == Awaits(f)
             b == f.at = "op"
  <2>2. Turns(a, b)
    BY DEF OnTo
  <2> HIDE DEF a, b
  <2>3. BracketsAre(GivenKinds', sources', o \o a, b)
    BY <1>1, <2>1, <2>2, TurnsBrackets
  <2> QED
    BY <2>1, <2>3 DEF a, b
<1>11. Top' = f
  BY <1>3, <1>4 DEF Top
<1> HIDE DEF r
<1>12. /\ Layered(stack') /\ Settled(stack') /\ Low(stack', Len(given'))
       /\ BracketsAre(GivenKinds', sources', Waiting(stack'), Top'.at = "op")
  BY <1>3, <1>8, <1>9, <1>10, <1>11 DEF Nested
<1> QED
  BY <1>12 DEF NestInv, BracketsAre

(* The innermost call goes on and calls.                                    *)
LEMMA CallNests ==
  ASSUME ParserInv, StackInv, StackInv', NestInv, stack # <<>>,
         NEW m \in Nat, m = Len(read'), Len(read) <= m,
         NEW h \in Nat, h = Len(given'), Len(given) <= h,
         NEW f, NEW proc, OnTo(f), f.at # "op", Into(proc), Call(proc, f)
  PROVE  NestInv'
<1>1. /\ StackFits(Below, Len(read)) /\ Below \in Seq(Range(Below)) /\ Len(Below) \in Nat
      /\ Nested(Below, Len(given))
      /\ \A j \in 1 .. Len(Below) : Below[j].at # "op" /\ Height(Below[j]) \in Nat
      /\ Len(Below) + 8 <= 11 * Len(given) + Height(Top)
      /\ Top.proc \notin ExprProc => \A i \in 1 .. Len(Below) : Below[i].proc \notin ExprProc
      /\ Waiting(Below) \in Seq(OpenUnder) /\ Waiting(Below) \in Seq(Opening)
      /\ BracketsAre(GivenKinds, sources, Waiting(Below) \o Awaits(Top), Top.at = "op")
      /\ Fits(Top, Len(read))
  BY NestParts
<1>2. Len(read) \in Nat /\ Len(given) \in Nat
  BY GivenFacts
<1> DEFINE c == Start(proc)
           s == Append(Below, f)
           r == Append(s, c)
<1>3. stack' = r /\ status' = status
  <2>1. Below \in Seq(Range(Below) \cup {f, c})
    BY <1>1, SeqMonotonic
  <2>2. Below \o <<f, c>> = Append(Append(Below, f), c)
    BY <2>1
  <2> QED
    BY <2>2 DEF Call
<1>4. /\ c.proc = proc /\ c.at \in {"look", "call"} /\ Height(c) = Rank[proc]
      /\ Awaits(c) = <<>> /\ proc \in Startable
  BY StartNests DEF Into
<1>5. StackFits(Below, m) /\ Fits(c, m)
  BY <1>1, <1>2, <1>4, FitsLater, StartFits DEF StackFits
<1> HIDE DEF c
<1>6. Len(s) = Len(Below) + 1 /\ s[Len(Below) + 1] = f /\ \A i \in 1 .. Len(Below) : s[i] = Below[i]
  BY <1>1, Appended
<1>7. s \in Seq(Range(s))
  <2>1. Below \in Seq(Range(Below) \cup {f}) /\ f \in Range(Below) \cup {f}
    BY <1>1, SeqMonotonic
  <2>2. s \in Seq(Range(Below) \cup {f})
    BY <2>1, AppendProperties
  <2> QED
    BY <2>2, SeqOfRange
<1> HIDE DEF s
<1>8. Len(r) = Len(s) + 1 /\ r[Len(s) + 1] = c /\ \A i \in 1 .. Len(s) : r[i] = s[i]
  BY <1>7, Appended
<1>9. Fits(f, m)
  <2>1. StackFits(r, m)
    BY <1>3 DEF StackInv
  <2>2. Len(s) \in 1 .. Len(r) /\ Len(s) \in 1 .. Len(s) /\ Len(s) = Len(Below) + 1
    BY <1>1, <1>6, <1>8
  <2> HIDE DEF r
  <2>3. Fits(r[Len(s)], m)
    BY <2>1, <2>2 DEF StackFits
  <2> QED
    BY <1>6, <1>8, <2>2, <2>3
<1>10. Len(Below) + 8 <= 11 * h + Height(f) /\ Len(s) + 8 <= 11 * h + Height(c) /\ Height(f) \in Nat
  <2>1. Height(f) \in Nat /\ Height(Top) \in Nat /\ Height(c) \in Nat
    <3>1. f.proc \in Procs /\ Top.proc \in Procs /\ c.proc \in Procs
      BY <1>1, <1>5, <1>9 DEF Fits
    <3> QED
      BY <3>1, HeightIn
  <2>2. 11 * Len(given) + Height(Top) + 1 <= 11 * Len(given') + Height(c)
    BY <1>4 DEF Into
  <2>3. 11 * Len(given) + Height(Top) <= 11 * Len(given') + Height(f)
    BY DEF OnTo
  <2> QED
    BY <1>1, <1>2, <1>6, <2>1, <2>2, <2>3
<1>11. Nested(s, h)
  BY <1>1, <1>2, <1>10, NestedLonger DEF OnTo, s
<1>12. \A j \in 1 .. Len(s) : s[j].at # "op" /\ Height(s[j]) \in Nat
  <2> TAKE j \in 1 .. Len(s)
  <2>1. CASE j = Len(Below) + 1
    BY <1>6, <1>10, <2>1
  <2>2. CASE j # Len(Below) + 1
    <3>1. j \in 1 .. Len(Below)
      BY <1>1, <1>6, <2>2
    <3> QED
      BY <1>1, <1>6, <3>1
  <2> QED
    BY <2>1, <2>2
<1>13. c.proc \notin ExprProc => \A i \in 1 .. Len(s) : s[i].proc \notin ExprProc
  <2> SUFFICES ASSUME c.proc \notin ExprProc, NEW i \in 1 .. Len(s)
               PROVE  s[i].proc \notin ExprProc
    OBVIOUS
  <2>1. Top.proc \notin ExprProc /\ f.proc \notin ExprProc
    BY <1>4 DEF Into, OnTo
  <2>2. CASE i = Len(Below) + 1
    BY <1>6, <2>1, <2>2
  <2>3. CASE i # Len(Below) + 1
    <3>1. i \in 1 .. Len(Below)
      BY <1>1, <1>6, <2>3
    <3> QED
      BY <1>1, <1>6, <2>1, <3>1
  <2> QED
    BY <2>2, <2>3
<1>14. Nested(r, h)
  <2>1. h <= h /\ Len(s) + 8 <= 11 * h + Height(c)
    BY <1>10
  <2>2. Nested(Append(s, c), h)
    BY <1>7, <1>11, <1>12, <1>13, <2>1, NestedLonger
  <2> QED
    BY <2>2
<1>15. Waiting(r) = Waiting(Below) \o Awaits(f)
  <2>1. Waiting(s) = Waiting(Below) \o Awaits(f)
    BY <1>5, <1>9, WaitsLonger DEF s
  <2>2. StackFits(s, m)
    BY <1>5, <1>9, PushFits DEF s
  <2>3. Waiting(Append(s, c)) = Waiting(s) \o Awaits(c) /\ Waiting(s) \in Seq(Opening)
    BY <1>5, <2>2, WaitsLonger
  <2>4. Waiting(s) \o <<>> = Waiting(s)
    BY <2>3, ConcatEmptySeq
  <2>5. Waiting(r) = Waiting(s)
    BY <1>4, <2>3, <2>4, Zenon
  <2> QED
    BY <2>1, <2>5
<1>16. BracketsAre(GivenKinds', sources', Waiting(Below) \o Awaits(f), FALSE)
  <2>1. PICK o \in Seq(OpenUnder) : o = Waiting(Below)
    BY <1>1
  <2> DEFINE a == Awaits(f)
  <2>2. Turns(a, f.at = "op") /\ (f.at = "op") = FALSE
    BY DEF OnTo
  <2> HIDE DEF a
  <2>3. Turns(a, FALSE)
    BY <2>2
  <2>4. BracketsAre(GivenKinds', sources', o \o a, FALSE)
    BY <1>1, <2>1, <2>3, TurnsBrackets
  <2> QED
    BY <2>1, <2>4 DEF a
<1>17. Top' = c
  BY <1>3, <1>8 DEF Top
<1> HIDE DEF r
<1>18. /\ Layered(stack') /\ Settled(stack') /\ Low(stack', Len(given'))
       /\ BracketsAre(GivenKinds', sources', Waiting(stack'), FALSE)
       /\ (Top'.at = "op") = FALSE
  BY <1>3, <1>4, <1>14, <1>15, <1>16, <1>17 DEF Nested
<1> QED
  BY <1>18 DEF NestInv, BracketsAre

(* The innermost call returns.                                              *)
LEMMA ReturnNests ==
  ASSUME ParserInv, StackInv, StackInv', NestInv, stack # <<>>,
         NEW h \in Nat, h = Len(given'), Len(given) <= h,
         NEW node, Turns(<<>>, FALSE), Return(node)
  PROVE  NestInv'
<1>1. /\ Below \in Seq(Range(Below)) /\ Len(Below) \in Nat
      /\ Nested(Below, Len(given))
      /\ \A j \in 1 .. Len(Below) : Below[j].at # "op" /\ Height(Below[j]) \in Nat
      /\ Waiting(Below) \in Seq(OpenUnder) /\ Waiting(Below) \in Seq(Opening)
      /\ BracketsAre(GivenKinds, sources, Waiting(Below) \o Awaits(Top), Top.at = "op")
      /\ StackFits(Below, Len(read))
  BY NestParts
<1>2. Len(given) \in Nat
  BY GivenFacts
<1>3. BracketsAre(GivenKinds', sources', Waiting(Below), FALSE)
  <2>1. PICK o \in Seq(OpenUnder) : o = Waiting(Below)
    BY <1>1
  <2>2. BracketsAre(GivenKinds', sources', o \o <<>>, FALSE)
    BY <1>1, <2>1, TurnsBrackets
  <2>3. o \o <<>> = o
    BY <1>1, <2>1, ConcatEmptySeq
  <2> QED
    BY <2>1, <2>2, <2>3
<1>4. Nested(Below, h)
  BY <1>1, <1>2, NestedLater
<1>5. CASE Below = <<>>
  <2>1. stack' = <<>> /\ status' = "done"
    BY <1>5 DEF Return
  <2>2. Nested(stack', Len(given')) /\ Waiting(stack') = Waiting(Below)
    BY <1>5, <2>1, NestedNone
  <2> QED
    BY <1>3, <2>1, <2>2 DEF NestInv, Nested, BracketsAre
<1>6. CASE Below # <<>>
  <2> DEFINE l == Len(Below)
             f == [Below[l] EXCEPT !.kids = Append(Below[l].kids, node)]
  <2>1. stack' = [Below EXCEPT ![l] = f] /\ status' = status
    BY <1>6 DEF Return
  <2>2. l \in 1 .. l
    <3>1. l \in Nat \ {0}
      BY <1>1, <1>6, EmptySeq
    <3> QED
      BY <3>1
  <2>3. Below \in Seq(Range(Below) \cup {f}) /\ f \in Range(Below) \cup {f}
    BY <1>1, SeqMonotonic
  <2>4. Fits(Below[l], Len(read))
    BY <1>1, <2>2 DEF StackFits
  <2>5. f = [proc |-> Below[l].proc, at |-> Below[l].at, i |-> Below[l].i,
             kids |-> Append(Below[l].kids, node), op |-> Below[l].op]
    BY <2>4, FieldChanged DEF Fits
  <2>6. Alike2(f, Below[l])
    BY <2>5 DEF Alike2
  <2> HIDE DEF f
  <2>7. /\ Len(stack') = l /\ DOMAIN stack' = 1 .. l /\ DOMAIN Below = 1 .. l
        /\ \A j \in 1 .. l : stack'[j] = IF j = l THEN f ELSE Below[j]
    BY <2>1, <2>2, <2>3, ExceptSeq, LenProperties
  <2>8. \A j \in 1 .. l : Alike2(stack'[j], Below[j])
    BY <2>6, <2>7 DEF Alike2
  <2>9. Nested(stack', h)
    BY <1>1, <1>4, <2>7, <2>8, NestedSame
  <2>10. Waiting(stack') = Waiting(Below)
    BY <2>7, <2>8, WaitsSame
  <2>11. (Top'.at = "op") = FALSE
    <3>1. Top' = f
      BY <2>2, <2>7 DEF Top
    <3>2. f.at # "op"
      BY <1>1, <2>2, <2>6 DEF Alike2
    <3> QED
      BY <3>1, <3>2
  <2> QED
    BY <1>3, <2>9, <2>10, <2>11 DEF NestInv, Nested, BracketsAre
<1> QED
  BY <1>5, <1>6

(* The process exits.                                                       *)
LEMMA StopNests ==
  ASSUME NEW how \in {"fatal", "crash"}, Stop(how)
  PROVE  NestInv'
<1>1. stack' = <<>> /\ status' \in {"fatal", "crash"}
  BY DEF Stop
<1> QED
  BY <1>1, NestedNone DEF NestInv, Nested
-----------------------------------------------------------------------------
(* What each function does to the calls                                     *)

(* Where a call is.                                                         *)
Placed(f, proc, at, i) == f.proc = proc /\ f.at = at /\ f.i = i

(* The frames the functions go on as.                                       *)
LEMMA Places ==
  ASSUME NEW m, Fits(Top, m)
  PROVE  /\ \A point : IsFrame(At(point)) /\ Placed(At(point), Top.proc, point, Top.i)
         /\ IsFrame(NextItem) /\ Placed(NextItem, Top.proc, Top.at, Top.i + 1)
         /\ \A proc, at : IsFrame(Frame(proc, at)) /\ Placed(Frame(proc, at), proc, at, 1)
<1>1. ASSUME NEW point
      PROVE  IsFrame(At(point)) /\ Placed(At(point), Top.proc, point, Top.i)
  BY FieldChanged DEF At, Fits, IsFrame, Placed
<1>2. IsFrame(NextItem) /\ Placed(NextItem, Top.proc, Top.at, Top.i + 1)
  BY FieldChanged DEF NextItem, Fits, IsFrame, Placed
<1>3. ASSUME NEW proc, NEW at
      PROVE  IsFrame(Frame(proc, at)) /\ Placed(Frame(proc, at), proc, at, 1)
  BY DEF Frame, IsFrame, Placed
<1> QED
  BY <1>1, <1>2, <1>3

(* What else a frame holds does not matter to where it is.                  *)
LEMMA PlacedStill ==
  ASSUME NEW f, IsFrame(f), NEW x
  PROVE  /\ Placed([f EXCEPT !.kids = x], f.proc, f.at, f.i)
         /\ Placed([f EXCEPT !.op = x], f.proc, f.at, f.i)
         /\ Placed([f EXCEPT !.at = x], f.proc, x, f.i)
  BY FieldChanged DEF Placed

(* The functions of statements are the lowest.                              *)
LEMMA LayerRanks ==
  /\ \A p \in Procs : p \notin ExprProc => Rank[p] \in 7 .. 8
  /\ \A p \in ExprProc : Rank[p] \in 9 .. 19 /\ p \in Procs
<1>1. Procs = {"exprstmt", "decl"} \cup DOMAIN Statement \cup Calling
              \cup {"stmt", "unary", "primary", "block"}
  BY ScriptDomain DEF Procs, Calling
<1>2. \A p \in Procs : p \notin ExprProc =>
        p \in {"exprstmt", "decl", "stmt", "block"} \cup DOMAIN Statement
  BY <1>1 DEF ExprProc
<1>3. \A p \in ExprProc : p \in Procs
  BY <1>1 DEF ExprProc
<1>4. \A p \in ExprProc :
        p \in {"expr", "assign", "cond", "logic", "bitwise", "relational", "binary", "binary2",
               "postfix", "unary", "primary"}
  BY CalleeDomain DEF ExprProc
<1> QED
  BY <1>2, <1>3, <1>4, Ranks

(* Without a token, a call goes on as high as it was.                       *)
LEMMA QuietGoes ==
  ASSUME ParserInv, NEW m, Fits(Top, m), Quiet, Top.at # "op",
         NEW f, f.at # "op", f.proc \in ExprProc <=> Top.proc \in ExprProc,
         Rank[f.proc] = Rank[Top.proc], Awaits(f) = Awaits(Top)
  PROVE  OnTo(f)
<1>1. Turns(Awaits(f), f.at = "op")
  <2>1. Turns(Awaits(Top), Top.at = "op") /\ (Top.at = "op") = FALSE /\ (f.at = "op") = FALSE
    BY TurnQuiet
  <2>2. (Top.at = "op") = (f.at = "op")
    BY <2>1
  <2> QED
    BY <2>1, <2>2, Zenon
<1>2. 11 * Len(given) + Height(Top) <= 11 * Len(given') + Height(f)
  <2>1. Len(given) \in Nat /\ Len(given') = Len(given) /\ Rank[Top.proc] \in Nat
    <3>1. Top.proc \in Procs
      BY DEF Fits
    <3>2. Rank[Top.proc] \in 7 .. 19
      BY <3>1, Ranks, Zenon
    <3>3. Rank[Top.proc] \in Nat
      BY <3>2
    <3>4. Len(given) \in Nat
      BY GivenFacts
    <3>5. Len(given') = Len(given)
      BY DEF Quiet
    <3> QED
      BY <3>3, <3>4, <3>5
  <2>2. Height(Top) = Height(f) /\ Height(f) \in Nat
    BY <2>1 DEF Height
  <2> QED
    BY <2>1, <2>2
<1> QED
  BY <1>1, <1>2 DEF OnTo

(* With a token, it goes on anywhere in its layer.                          *)
LEMMA TakenGoes ==
  ASSUME ParserInv, NEW m, Fits(Top, m), NEW k, Takes(k), Top.at # "op",
         NEW f, f.proc \in Procs, f.at # "op", f.proc \in ExprProc <=> Top.proc \in ExprProc,
         Turns(Awaits(f), FALSE)
  PROVE  OnTo(f)
<1>1. Turns(Awaits(f), f.at = "op")
  <2>1. (f.at = "op") = FALSE
    OBVIOUS
  <2> QED
    BY <2>1, Zenon
<1>2. 11 * Len(given) + Height(Top) <= 11 * Len(given') + Height(f)
  <2>1. Len(given) \in Nat /\ Len(given') = Len(given) + 1 /\ Top.proc \in Procs
    BY GivenFacts DEF Takes, Fits
  <2>2. Height(Top) = Rank[Top.proc] /\ Height(f) = Rank[f.proc]
    BY DEF Height
  <2>3. CASE Top.proc \in ExprProc
    <3>1. Rank[Top.proc] \in 9 .. 19 /\ Rank[f.proc] \in 9 .. 19
      BY <2>3, LayerRanks
    <3>2. Height(Top) \in Nat /\ Height(f) \in Nat /\ Height(Top) <= Height(f) + 11
      BY <2>2, <3>1
    <3> QED
      BY <2>1, <3>2
  <2>4. CASE Top.proc \notin ExprProc
    <3>1. Rank[Top.proc] \in 7 .. 8 /\ Rank[f.proc] \in 7 .. 8
      BY <2>1, <2>4, LayerRanks
    <3> QED
      BY <2>1, <2>2, <3>1
  <2> QED
    BY <2>3, <2>4
<1> QED
  BY <1>1, <1>2 DEF OnTo

(* Without a token, a call calls what is higher.                            *)
LEMMA QuietCalls ==
  ASSUME ParserInv, NEW m, Fits(Top, m), Quiet, Top.at # "op", NEW proc \in Startable,
         proc \in ExprProc \/ Top.proc \notin ExprProc,
         Rank[proc] \in Nat, Rank[Top.proc] < Rank[proc]
  PROVE  Into(proc)
<1>1. Len(given) \in Nat /\ Len(given') = Len(given)
  BY GivenFacts DEF Quiet
<1>2. Height(Top) = Rank[Top.proc] /\ Rank[Top.proc] \in Nat
  BY Ranks DEF Height, Fits
<1> QED
  BY <1>1, <1>2 DEF Into

(* With a token, it calls what is not eleven below.                         *)
LEMMA TakenCalls ==
  ASSUME ParserInv, NEW m, Fits(Top, m), NEW k, Takes(k), NEW proc \in Startable,
         proc \in ExprProc \/ Top.proc \notin ExprProc,
         Rank[proc] \in Nat, Rank[Top.proc] < Rank[proc] + 11
  PROVE  Into(proc)
<1>1. Len(given) \in Nat /\ Len(given') = Len(given) + 1
  BY GivenFacts DEF Takes
<1>2. Rank[Top.proc] \in Nat
  <2>1. Top.proc \in Procs
    BY DEF Fits
  <2>2. Rank[Top.proc] \in 7 .. 19
    BY <2>1, Ranks, Zenon
  <2> QED
    BY <2>2
<1>3. Height(Top) \in Nat /\ Height(Top) <= Rank[Top.proc]
  BY <1>2 DEF Height
<1> QED
  BY <1>1, <1>2, <1>3 DEF Into

(* The four things a step does to the calls.                                *)
LEMMA NestMoves ==
  /\ \A f : OnTo(f) /\ Become(f) => NestMove
  /\ \A f, proc : OnTo(f) /\ f.at # "op" /\ Into(proc) /\ Call(proc, f) => NestMove
  /\ \A node : Turns(<<>>, FALSE) /\ Return(node) => NestMove
  /\ Stop("fatal") \/ Stop("crash") => NestMove
  BY DEF NestMove

(* A call that waits for nothing returns without a token.                   *)
LEMMA QuietReturns ==
  ASSUME Quiet, Top.at # "op", Awaits(Top) = <<>>, NEW node, Return(node)
  PROVE  NestMove
<1>1. Turns(Awaits(Top), Top.at = "op") /\ (Top.at = "op") = FALSE
  BY TurnQuiet
<1>2. Turns(<<>>, FALSE)
  BY <1>1
<1> QED
  BY <1>2, NestMoves

(* A sequence that calls for no statement and no declaration.               *)
CallsNone(s) == Len(s) \in Nat /\ \A i \in 1 .. Len(s) : s[i] \notin {"stmt", "decl"}

(* One or two other items are such a sequence.                              *)
LEMMA CallsNoneOf ==
  LET OK(x) == x \notin {"stmt", "decl"}
  IN  /\ \A a : OK(a) => CallsNone(<<a>>)
      /\ \A a, b : OK(a) /\ OK(b) => CallsNone(<<a, b>>)
  BY DEF CallsNone

(* Only the statements with a keyword call for one.                         *)
LEMMA ScriptCalls ==
  \A p \in DOMAIN Script : \A i \in 1 .. Len(Script[p]) :
    Script[p][i] \in {"stmt", "decl"} => p \in DOMAIN Statement
<1>1. Script["exprstmt"] = <<"expr", ";?">> /\ Script["decl"] = <<";">>
  BY StatementDomain, Zenon DEF Script
<1>2. CallsNone(Script["exprstmt"]) /\ CallsNone(Script["decl"])
  BY <1>1, CallsNoneOf, Zenon
<1>3. \A p \in DOMAIN Script : p \notin DOMAIN Statement => p = "exprstmt" \/ p = "decl"
  BY ScriptDomain
<1>4. \A p \in DOMAIN Script : p \notin DOMAIN Statement => CallsNone(Script[p])
  BY <1>2, <1>3, Zenon
<1> QED
  BY <1>4 DEF CallsNone

(* The names of statements, and what no token is called.                    *)
LEMMA StatementNames ==
  /\ \A p \in DOMAIN Statement : p \in Procs /\ p \notin ExprProc \cup {"block", "decl", "stmt", "exprstmt"}
  /\ {"stmt", "exprstmt", "decl", "block"} \subseteq Procs
  /\ \A p \in {"stmt", "exprstmt", "decl", "block"} : p \notin ExprProc
  /\ ExprProc \subseteq Procs
  /\ \A p \in DOMAIN Script : p \notin ExprProc \cup {"stmt", "block"}
<1>1. ExprProc = {"expr", "assign", "cond", "logic", "bitwise", "relational", "binary", "binary2",
                  "postfix", "unary", "primary"}
  BY CalleeDomain DEF ExprProc
<1>2. \A p \in DOMAIN Statement : p \notin ExprProc \cup {"block", "decl", "stmt", "exprstmt"}
  BY <1>1, StatementDomain
<1>3. \A p \in {"stmt", "exprstmt", "decl", "block"} : p \notin ExprProc
  BY <1>1
<1>4. \A p \in DOMAIN Script : p \notin ExprProc \cup {"stmt", "block"}
  BY <1>2, <1>3, ScriptDomain
<1>5. "stmt" \in Procs
  BY DEF Procs
<1> QED
  BY <1>2, <1>3, <1>4, <1>5, ProcNames, LayerRanks

(* A keyword or the end of a statement is no bracket.                       *)
LEMMA PlainKinds ==
  /\ \A k \in Keywords : Plain(k)
  /\ \A k \in UnaryOps \cup {".", "->", ";", "num"} : Plain(k)
  /\ \A p \in Levels : \A k \in Ops[p] : Plain(k) /\ k # "null"
  /\ DOMAIN Statement \subseteq Keywords /\ TypeSpecs \subseteq Keywords
<1>1. \A k \in Keywords : Plain(k)
  BY DEF Keywords, TypeSpecs, Plain, AssignOps, Opening
<1>2. \A k \in UnaryOps \cup {".", "->", ";", "num"} : Plain(k)
  BY DEF UnaryOps, Plain, AssignOps, Opening
<1>3. \A p \in Levels : \A k \in Ops[p] :
        k \in {",", "||", "&&", "!", "|", "&", "~", "<<", ">>", "==", "!=", "<", ">", "<=", ">=",
               "+", "-", "*", "/", "%"}
  <2> TAKE p \in Levels
  <2>1. /\ Ops["expr"] = {","} /\ Ops["logic"] = {"||", "&&", "!"}
        /\ Ops["bitwise"] = {"|", "&", "~", "<<", ">>"}
        /\ Ops["relational"] = {"==", "!=", "<", ">", "<=", ">="}
        /\ Ops["binary"] = {"+", "-"} /\ Ops["binary2"] = {"*", "/", "%"}
    BY DEF Ops
  <2> QED
    BY <2>1, LevelDomain
<1>4. \A k \in {",", "||", "&&", "!", "|", "&", "~", "<<", ">>", "==", "!=", "<", ">", "<=", ">=",
                "+", "-", "*", "/", "%"} : Plain(k) /\ k # "null"
  BY DEF Plain, AssignOps, Opening
<1>5. DOMAIN Statement \subseteq Keywords
  BY StatementDomain DEF Keywords, TypeSpecs
<1>6. TypeSpecs \subseteq Keywords
  BY DEF Keywords
<1> QED
  BY <1>1, <1>2, <1>3, <1>4, <1>5, <1>6

(* parse_stmt becomes a block, a statement, or an expression statement.     *)
LEMMA LookStmtNests ==
  ASSUME ParserInv, NEW m, Fits(Top, m), LookStmt
  PROVE  NestMove
<1>1. Top.proc = "stmt" /\ Top.at = "look" /\ Top.proc \notin ExprProc
  BY StatementNames DEF LookStmt, Looked, Looks
<1>2. Awaits(Top) = <<>>
  BY <1>1, AwaitsOf
<1>3. CASE Look = "{" /\ Eat(cache) /\ Become(Frame("block", "look"))
  <2> DEFINE f == Frame("block", "look")
  <2>1. f.proc = "block" /\ f.at = "look"
    BY Places DEF Placed
  <2> HIDE DEF f
  <2>2. Awaits(f) = <<"{">>
    BY <2>1, AwaitsOf
  <2>3. Takes("{")
    BY <1>3, LookTaken DEF Eat
  <2>4. Turns(<<"{">>, FALSE)
    BY <1>1, <1>2, <2>3, TurnOpen DEF Opening
  <2>5. OnTo(f)
    BY <1>1, <2>1, <2>2, <2>3, <2>4, StatementNames, TakenGoes
  <2> QED
    BY <1>3, <2>5, NestMoves DEF f
<1>4. CASE Look \in DOMAIN Statement /\ Eat(cache) /\ Become(Frame(Look, "script"))
  <2> DEFINE f == Frame(Look, "script")
  <2>1. f.proc = Look /\ f.at = "script" /\ f.i = 1
    BY Places DEF Placed
  <2> HIDE DEF f
  <2>2. f.proc \in DOMAIN Script /\ f.proc \in Procs /\ f.proc \notin ExprProc
    <3>1. Look \in DOMAIN Script
      BY <1>4, ScriptDomain
    <3>2. Look \in Procs /\ Look \notin ExprProc
      BY <1>4, StatementNames
    <3> QED
      BY <2>1, <3>1, <3>2
  <2>3. Awaits(f) = <<>>
    <3>1. Awaits(f) = ParenWait(f.proc, 1)
      BY <2>1, <2>2, AwaitsOf
    <3> QED
      BY <2>2, <3>1, WaitSteps
  <2>4. Look # "null" /\ Plain(Look)
    BY <1>4, PlainKinds, StatementDomain
  <2>5. Takes(Look)
    BY <1>4, <2>4, LookTaken DEF Eat
  <2>6. Turns(<<>>, FALSE)
    BY <1>1, <1>2, <2>4, <2>5, TurnPlain
  <2>7. OnTo(f)
    BY <1>1, <2>1, <2>2, <2>3, <2>5, <2>6, TakenGoes
  <2> QED
    BY <1>4, <2>7, NestMoves DEF f
<1>5. CASE Return(NULL) /\ UNCHANGED streamVars
  BY <1>1, <1>2, <1>5, SameQuiet, QuietReturns
<1>6. CASE Become(Frame("exprstmt", "script")) /\ UNCHANGED streamVars
  <2> DEFINE f == Frame("exprstmt", "script")
  <2>1. f.proc = "exprstmt" /\ f.at = "script" /\ f.i = 1
    BY Places DEF Placed
  <2> HIDE DEF f
  <2>2. "exprstmt" \in DOMAIN Script /\ f.proc \notin ExprProc
    BY <2>1, ScriptDomain, StatementNames
  <2>3. Awaits(f) = <<>>
    BY <2>1, <2>2, AwaitsOf, WaitSteps
  <2>4. OnTo(f)
    BY <1>1, <1>2, <1>6, <2>1, <2>2, <2>3, SameQuiet, Ranks, QuietGoes
  <2> QED
    BY <1>6, <2>4, NestMoves DEF f
<1> QED
  BY <1>3, <1>4, <1>5, <1>6, Zenon DEF LookStmt

(* The loop of a block ends at its brace, or tries a declaration.           *)
LEMMA LookBlockNests ==
  ASSUME ParserInv, NEW m, Fits(Top, m), LookBlock
  PROVE  NestMove
<1>1. Top.proc = "block" /\ Top.at = "look" /\ Top.proc \notin ExprProc
  BY StatementNames DEF LookBlock, Looked, Looks
<1>2. Awaits(Top) = <<"{">>
  BY <1>1, AwaitsOf
<1>3. CASE Look = "}" /\ Eat(cache) /\ Return(Node("BLOCK", 0, Top.kids))
  <2>1. Takes("}")
    BY <1>3, LookTaken DEF Eat
  <2>2. Turns(<<>>, FALSE)
    <3>1. "{" \in Opening /\ <<"{", "}">> \in Pairs
      BY DEF Opening, Pairs
    <3> QED
      BY <1>1, <1>2, <2>1, <3>1, TurnClose
  <2> QED
    BY <1>3, <2>2, NestMoves
<1>4. CASE Call("decl", At("decl")) /\ UNCHANGED streamVars
  <2> DEFINE f == At("decl")
  <2>1. f.proc = "block" /\ f.at = "decl"
    BY <1>1, Places DEF Placed
  <2> HIDE DEF f
  <2>2. Awaits(f) = <<"{">>
    BY <2>1, AwaitsOf
  <2>3. OnTo(f)
    BY <1>1, <1>2, <1>4, <2>1, <2>2, SameQuiet, QuietGoes
  <2>4. Into("decl")
    BY <1>1, <1>4, SameQuiet, Ranks, QuietCalls DEF Startable
  <2> QED
    BY <1>4, <2>1, <2>3, <2>4, NestMoves DEF f
<1> QED
  BY <1>3, <1>4, NestMoves, Zenon DEF LookBlock

(* A block links what it got, or tries a statement.                         *)
LEMMA BlockNests ==
  ASSUME ParserInv, NEW m, Fits(Top, m), Block
  PROVE  NestMove
<1>1. /\ Top.proc = "block" /\ Top.at \in {"decl", "stmt"} /\ Top.proc \notin ExprProc
      /\ UNCHANGED streamVars
  BY StatementNames DEF Block
<1>2. Awaits(Top) = <<"{">> /\ Top.at # "op" /\ Quiet
  BY <1>1, AwaitsOf, SameQuiet
<1>3. /\ IsFrame(At("look")) /\ IsFrame(At("stmt"))
      /\ Placed(At("look"), "block", "look", Top.i) /\ Placed(At("stmt"), "block", "stmt", Top.i)
  BY <1>1, Places
<1>4. CASE \E kids : Become([At("look") EXCEPT !.kids = kids])
  <2>1. PICK kids : Become([At("look") EXCEPT !.kids = kids])
    BY <1>4
  <2> DEFINE f == [At("look") EXCEPT !.kids = kids]
  <2>2. f.proc = "block" /\ f.at = "look"
    BY <1>3, PlacedStill DEF Placed
  <2> HIDE DEF f
  <2>3. Awaits(f) = <<"{">>
    BY <2>2, AwaitsOf
  <2>4. OnTo(f)
    BY <1>1, <1>2, <2>2, <2>3, QuietGoes
  <2> QED
    BY <2>1, <2>4, NestMoves DEF f
<1>5. CASE \E kids : Call("stmt", [At("stmt") EXCEPT !.kids = kids])
  <2>1. PICK kids : Call("stmt", [At("stmt") EXCEPT !.kids = kids])
    BY <1>5
  <2> DEFINE f == [At("stmt") EXCEPT !.kids = kids]
  <2>2. f.proc = "block" /\ f.at = "stmt"
    BY <1>3, PlacedStill DEF Placed
  <2> HIDE DEF f
  <2>3. Awaits(f) = <<"{">>
    BY <2>2, AwaitsOf
  <2>4. OnTo(f)
    BY <1>1, <1>2, <2>2, <2>3, QuietGoes
  <2>5. Into("stmt")
    <3>1. "stmt" \in Startable /\ Rank["stmt"] = 8 /\ Rank["block"] = 7
      BY Ranks DEF Startable
    <3>2. Rank[Top.proc] = 7
      BY <1>1, <3>1, Zenon
    <3>3. Rank["stmt"] \in Nat /\ Rank[Top.proc] < Rank["stmt"]
      BY <3>1, <3>2
    <3> QED
      BY <1>1, <1>2, <3>1, <3>3, QuietCalls
  <2> QED
    BY <2>1, <2>2, <2>4, <2>5, NestMoves DEF f
<1> QED
  BY <1>4, <1>5, NestMoves, Zenon DEF Block, InvalidItem

(* A declaration has its type specifier.                                    *)
LEMMA LookDeclNests ==
  ASSUME ParserInv, NEW m, Fits(Top, m), LookDecl
  PROVE  NestMove
<1>1. Top.proc = "decl" /\ Top.at = "look" /\ Top.proc \notin ExprProc /\ "decl" \in DOMAIN Script
  BY StatementNames, ScriptDomain DEF LookDecl, Looked, Looks
<1>2. Awaits(Top) = <<>>
  <2>1. Len(Script["decl"]) = 1
    BY StatementDomain DEF Script
  <2>2. Top.i = 1 \/ Top.i = Len(Script["decl"]) + 1
    BY <1>1, <2>1 DEF Fits
  <2>3. ParenWait("decl", Top.i) = <<>>
    BY <1>1, <2>2, WaitSteps
  <2> QED
    BY <1>1, <2>3, AwaitsOf
<1>3. CASE Look \in TypeSpecs /\ Eat(cache) /\ Become([Frame("decl", "script") EXCEPT !.op = cache])
  <2> DEFINE f == [Frame("decl", "script") EXCEPT !.op = cache]
  <2>1. f.proc = "decl" /\ f.at = "script" /\ f.i = 1
    BY Places, PlacedStill DEF Placed
  <2> HIDE DEF f
  <2>2. Awaits(f) = <<>>
    BY <1>1, <2>1, AwaitsOf, WaitSteps
  <2>3. Look # "null" /\ Plain(Look)
    BY <1>3, PlainKinds DEF TypeSpecs
  <2>4. Takes(Look)
    BY <1>3, <2>3, LookTaken DEF Eat
  <2>5. Turns(<<>>, FALSE)
    BY <1>1, <1>2, <2>3, <2>4, TurnPlain
  <2>6. OnTo(f)
    BY <1>1, <2>1, <2>2, <2>4, <2>5, StatementNames, TakenGoes
  <2> QED
    BY <1>3, <2>6, NestMoves DEF f
<1>4. CASE Return(NULL) /\ UNCHANGED streamVars
  BY <1>1, <1>2, <1>4, SameQuiet, QuietReturns
<1> QED
  BY <1>3, <1>4, Zenon DEF LookDecl

(* What a statement may be made of.                                         *)
Items == {"(", ")", ":", ";", ";?", "expr", "orexpr", "stmt", "decl", "need", "else?", "while!",
          "label"}
MadeOf(s) == Len(s) \in Nat /\ \A i \in 1 .. Len(s) : s[i] \in Items

(* A sequence of items is made of items.                                    *)
LEMMA MadeOfItems ==
  /\ \A a \in Items : MadeOf(<<a>>)
  /\ \A a, b \in Items : MadeOf(<<a, b>>)
  /\ \A a, b, c \in Items : MadeOf(<<a, b, c>>)
  /\ \A a, b, c, d \in Items : MadeOf(<<a, b, c, d>>)
  /\ \A a, b, c, d, e, f \in Items : MadeOf(<<a, b, c, d, e, f>>)
  /\ \A a, b, c, d, e, f, g \in Items : MadeOf(<<a, b, c, d, e, f, g>>)
  /\ \A a, b, c, d, e, f, g, h, i \in Items : MadeOf(<<a, b, c, d, e, f, g, h, i>>)
  BY DEF MadeOf

(* The statements are made of items.                                        *)
LEMMA ScriptMadeOf == \A p \in DOMAIN Script : MadeOf(Script[p])
<1>1. /\ Script["exprstmt"] = <<"expr", ";?">> /\ Script["decl"] = <<";">>
      /\ \A p \in DOMAIN Statement : Script[p] = Statement[p]
  BY StatementDomain DEF Script
<1>2. /\ "(" \in Items /\ ")" \in Items /\ ":" \in Items /\ ";" \in Items /\ ";?" \in Items
      /\ "expr" \in Items /\ "orexpr" \in Items /\ "stmt" \in Items /\ "decl" \in Items
      /\ "need" \in Items /\ "else?" \in Items /\ "while!" \in Items /\ "label" \in Items
  BY Zenon DEF Items
<1>3. MadeOf(Script["exprstmt"]) /\ MadeOf(Script["decl"])
  <2>1. MadeOf(<<"expr", ";?">>) /\ MadeOf(<<";">>)
    BY <1>2, MadeOfItems, Zenon
  <2> QED
    BY <1>1, <2>1, Zenon
<1>4. /\ MadeOf(Statement["case"]) /\ MadeOf(Statement["default"]) /\ MadeOf(Statement["break"])
      /\ MadeOf(Statement["continue"]) /\ MadeOf(Statement["goto"]) /\ MadeOf(Statement["return"])
  BY <1>2, MadeOfItems, Zenon DEF Statement
<1>5. MadeOf(Statement["switch"]) /\ MadeOf(Statement["while"])
  BY <1>2, MadeOfItems, Zenon DEF Statement
<1>6. MadeOf(Statement["if"])
  BY <1>2, MadeOfItems, Zenon DEF Statement
<1>7. MadeOf(Statement["do"])
  BY <1>2, MadeOfItems, Zenon DEF Statement
<1>8. MadeOf(Statement["for"])
  BY <1>2, MadeOfItems, Zenon DEF Statement, ForParts
<1>9. \A p \in DOMAIN Statement : MadeOf(Statement[p])
  BY <1>4, <1>5, <1>6, <1>7, <1>8, StatementDomain
<1> QED
  BY <1>1, <1>3, <1>9, ScriptDomain

(* What a statement waits for, and what it waits for after its next item.   *)
LEMMA ItemWaits ==
  ASSUME NEW m, Fits(Top, m), InScript, NEW f, Placed(f, Top.proc, Top.at, Top.i + 1)
  PROVE  /\ Top.proc \in DOMAIN Script /\ Top.at = "script" /\ Top.proc \notin ExprProc
         /\ f.proc = Top.proc /\ f.at = "script" /\ f.proc \in Procs
         /\ Item = "(" => Awaits(Top) = <<>> /\ Awaits(f) = <<"(">>
         /\ Item = ")" => Awaits(Top) = <<"(">> /\ Awaits(f) = <<>>
         /\ Item \notin {"(", ")", "over"} => Awaits(f) = Awaits(Top)
         /\ Item = "over" => Awaits(Top) = <<>>
         /\ Item # "over" => Top.i \in 1 .. Len(Script[Top.proc]) /\ Item = Script[Top.proc][Top.i]
<1>1. Top.proc \in DOMAIN Script /\ Top.at = "script" /\ Top.i \in 1 .. Len(Script[Top.proc]) + 1
  BY DEF Fits, MayBeAt, InScript
<1>2. Top.proc \notin ExprProc /\ Len(Script[Top.proc]) \in Nat /\ Top.proc \in Procs
  BY <1>1, StatementNames, ScriptItems DEF Fits
<1>3. f.proc = Top.proc /\ f.at = "script" /\ f.i = Top.i + 1
  BY <1>1 DEF Placed
<1>4. Awaits(Top) = ParenWait(Top.proc, Top.i) /\ Awaits(f) = ParenWait(Top.proc, Top.i + 1)
  BY <1>1, <1>3, AwaitsOf
<1>5. CASE Over
  <2>1. Top.i = Len(Script[Top.proc]) + 1 /\ Item = "over"
    BY <1>1, <1>2, <1>5 DEF Over, Item
  <2>2. Awaits(Top) = <<>>
    BY <1>1, <1>4, <2>1, WaitSteps
  <2> QED
    BY <1>1, <1>2, <1>3, <2>1, <2>2
<1>6. CASE ~ Over
  <2>1. Top.i \in 1 .. Len(Script[Top.proc]) /\ Item = Script[Top.proc][Top.i]
    BY <1>1, <1>2, <1>6 DEF Over, Item
  <2>2. /\ Item = "(" => Awaits(Top) = <<>> /\ Awaits(f) = <<"(">>
        /\ Item = ")" => Awaits(Top) = <<"(">> /\ Awaits(f) = <<>>
        /\ Item \notin {"(", ")"} => Awaits(f) = Awaits(Top)
    BY <1>1, <1>4, <2>1, WaitSteps
  <2>3. Item # "over"
    BY <1>1, <2>1, ScriptMadeOf DEF MadeOf, Items
  <2> QED
    BY <1>1, <1>2, <1>3, <2>1, <2>2, <2>3
<1> QED
  BY <1>5, <1>6

(* A required token is there or the parser stops.                           *)
LEMMA ExpectNests ==
  ASSUME ParserInv, NEW m, Fits(Top, m), Expect
  PROVE  NestMove
<1> DEFINE f == NextItem
           k == IF Item = ";?" THEN ";" ELSE Item
<1>1. InScript /\ Item \in {"(", ")", ":", ";", ";?"}
  BY Zenon DEF Expect
<1>2. PICK t : Eat(t) /\ Expected(k, t)
  BY Zenon DEF Expect
<1>3. Placed(f, Top.proc, Top.at, Top.i + 1)
  BY Places
<1> HIDE DEF f
<1>4. /\ Top.at = "script" /\ Top.proc \notin ExprProc
      /\ f.proc = Top.proc /\ f.at = "script" /\ f.proc \in Procs
      /\ Item = "(" => Awaits(Top) = <<>> /\ Awaits(f) = <<"(">>
      /\ Item = ")" => Awaits(Top) = <<"(">> /\ Awaits(f) = <<>>
      /\ Item \notin {"(", ")", "over"} => Awaits(f) = Awaits(Top)
  BY <1>1, <1>3, ItemWaits
<1>5. k \in {"(", ")", ":", ";"} /\ k # "null"
  BY <1>1
<1>6. CASE GotKind(t) = k
  <2>1. t # 0 /\ read'[t].kind = k
    BY <1>5, <1>6 DEF GotKind
  <2>2. Takes(k)
    <3>1. Take(t)
      BY <1>2 DEF Eat
    <3> QED
      BY <2>1, <3>1, TakeKinds
  <2>3. Turns(Awaits(f), FALSE)
    <3>1. CASE Item = "("
      <4>1. k = "(" /\ "(" \in Opening
        BY <3>1 DEF Opening
      <4>2. Turns(<<"(">>, FALSE)
        BY <1>4, <2>2, <3>1, <4>1, TurnOpen
      <4> QED
        BY <1>4, <3>1, <4>2
    <3>2. CASE Item = ")"
      <4>1. k = ")" /\ "(" \in Opening /\ <<"(", ")">> \in Pairs
        BY <3>2 DEF Opening, Pairs
      <4>2. Turns(<<>>, FALSE)
        BY <1>4, <2>2, <3>2, <4>1, TurnClose
      <4> QED
        BY <1>4, <3>2, <4>2
    <3>3. CASE Item \in {":", ";", ";?"}
      <4>1. k = ":" \/ Plain(k)
        BY <3>3, PlainKinds
      <4>2. Turns(Awaits(Top), FALSE)
        BY <1>4, <2>2, <4>1, TurnPlain
      <4> QED
        BY <1>4, <3>3, <4>2
    <3> QED
      BY <1>1, <3>1, <3>2, <3>3
  <2>4. OnTo(f)
    BY <1>4, <2>2, <2>3, TakenGoes
  <2>5. Become(f)
    BY <1>2, <1>6 DEF Expected, f
  <2> QED
    BY <2>4, <2>5, NestMoves
<1>7. CASE GotKind(t) # k
  BY <1>2, <1>7, NestMoves DEF Expected
<1> QED
  BY <1>6, <1>7

(* A statement does what its next item says.                                *)
LEMMA PerformNests ==
  ASSUME ParserInv, NEW m, Fits(Top, m), Perform
  PROVE  NestMove
<1>1. InScript /\ Quiet
  BY SameQuiet, Zenon DEF Perform
<1>2. /\ IsFrame(NextItem) /\ Placed(NextItem, Top.proc, Top.at, Top.i + 1)
      /\ Placed(At("look"), Top.proc, "look", Top.i)
  BY Places
<1>3. /\ Top.proc \in DOMAIN Script /\ Top.at = "script" /\ Top.proc \notin ExprProc
      /\ Item = "over" => Awaits(Top) = <<>>
      /\ Item # "over" => Top.i \in 1 .. Len(Script[Top.proc]) /\ Item = Script[Top.proc][Top.i]
  BY <1>1, <1>2, ItemWaits
<1>4. ASSUME NEW f, Placed(f, Top.proc, Top.at, Top.i + 1), Item \notin {"(", ")", "over"}
      PROVE  OnTo(f) /\ f.at # "op"
  <2>1. f.proc = Top.proc /\ f.at = "script" /\ Awaits(f) = Awaits(Top)
    BY <1>1, <1>4, ItemWaits
  <2> QED
    BY <1>1, <1>3, <2>1, QuietGoes
<1>5. Item \in {"expr", "orexpr"} => Into("expr")
  <2>1. "expr" \in Startable /\ "expr" \in ExprProc
    BY CalleeDomain DEF Startable, ExprProc
  <2>2. Rank[Top.proc] \in 7 .. 8 /\ Rank["expr"] = 9
    BY <1>3, LayerRanks, Ranks DEF Fits
  <2>3. Rank["expr"] \in Nat /\ Rank[Top.proc] < Rank["expr"] /\ Top.at # "op"
    BY <1>3, <2>2
  <2> QED
    BY <1>1, <2>1, <2>3, QuietCalls
<1>6. ASSUME NEW p \in {"stmt", "decl"}, Item = p
      PROVE  Into(p)
  <2>1. p \in Startable /\ Rank[p] = 8
    BY Ranks DEF Startable
  <2>2. Top.proc \in DOMAIN Statement
    BY <1>3, <1>6, ScriptCalls
  <2>3. Rank[Top.proc] = 7
    BY <2>2, Ranks
  <2>4. Rank[p] \in Nat /\ Rank[Top.proc] < Rank[p] /\ Top.at # "op"
    BY <1>3, <2>1, <2>3
  <2> QED
    BY <1>1, <1>3, <2>1, <2>4, QuietCalls
<1>7. CASE Item \in {"expr", "stmt", "decl"} /\ Call(Item, NextItem)
  <2>1. Into(Item)
    BY <1>5, <1>6, <1>7
  <2>2. OnTo(NextItem) /\ NextItem.at # "op"
    BY <1>2, <1>4, <1>7
  <2> QED
    BY <1>7, <2>1, <2>2, NestMoves
<1>8. CASE Item \in {"need", "orexpr", ";?"} /\ Become(NextItem)
  BY <1>2, <1>4, <1>8, NestMoves
<1>9. CASE Item = "orexpr" /\ Call("expr", [NextItem EXCEPT !.kids = <<>>])
  <2> DEFINE f == [NextItem EXCEPT !.kids = <<>>]
  <2>1. Placed(f, NextItem.proc, NextItem.at, NextItem.i)
    BY <1>2, PlacedStill
  <2>2. Placed(f, Top.proc, Top.at, Top.i + 1)
    BY <1>2, <2>1 DEF Placed
  <2>3. OnTo(f) /\ f.at # "op"
    BY <1>4, <1>9, <2>2
  <2> HIDE DEF f
  <2> QED
    BY <1>5, <1>9, <2>3, NestMoves DEF f
<1>10. CASE Item = "else?" /\ Become([Top EXCEPT !.at = "look"])
  <2>1. Become(At("look"))
    BY <1>10 DEF At
  <2>2. At("look").proc = Top.proc /\ At("look").at = "look" /\ At("look").i = Top.i
    BY <1>2 DEF Placed
  <2>3. Awaits(At("look")) = Awaits(Top)
    <3>1. Awaits(At("look")) = ParenWait(Top.proc, Top.i)
      <4>1. Awaits(At("look")) = ParenWait(At("look").proc, At("look").i)
        BY <1>3, <2>2, AwaitsOf
      <4> QED
        BY <2>2, <4>1, Zenon
    <3> QED
      BY <1>3, <3>1, AwaitsOf
  <2>4. OnTo(At("look"))
    BY <1>1, <1>3, <2>2, <2>3, QuietGoes
  <2> QED
    BY <2>1, <2>4, NestMoves
<1>11. CASE Item = "over" /\ \E node : Return(node)
  BY <1>1, <1>3, <1>11, QuietReturns
<1>12. \/ Item \in {"expr", "stmt", "decl"} /\ Call(Item, NextItem)
       \/ Item \in {"need", "orexpr", ";?"} /\ Become(NextItem)
       \/ Stop("fatal")
       \/ Item = "orexpr" /\ Call("expr", [NextItem EXCEPT !.kids = <<>>])
       \/ Item = "else?" /\ Become([Top EXCEPT !.at = "look"])
       \/ Item = "over" /\ \E node : Return(node)
  BY Zenon DEF Perform
<1> QED
  BY <1>7, <1>8, <1>9, <1>10, <1>11, <1>12, NestMoves

(* An if goes on after its last item.                                       *)
LEMMA LookElseNests ==
  ASSUME ParserInv, NEW m, Fits(Top, m), LookElse
  PROVE  NestMove
<1> DEFINE f == [NextItem EXCEPT !.at = "script"]
<1>1. Top.proc = "if" /\ Top.at = "look" /\ "if" \in DOMAIN Script /\ "if" \in DOMAIN Statement
  BY ScriptDomain, StatementDomain DEF LookElse, Looked, Looks
<1>2. Top.i = 7 /\ Top.proc \notin ExprProc /\ Top.proc \in Procs /\ Rank["if"] = 7
  BY <1>1, StatementNames, Ranks DEF Fits, MayBeAt
<1>3. f.proc = "if" /\ f.at = "script" /\ f.i = 8
  <2>1. IsFrame(NextItem) /\ Placed(NextItem, Top.proc, Top.at, Top.i + 1)
    BY Places
  <2>2. Placed(f, NextItem.proc, "script", NextItem.i)
    BY <2>1, PlacedStill
  <2> QED
    BY <1>1, <1>2, <2>1, <2>2 DEF Placed
<1> HIDE DEF f
<1>4. Awaits(Top) = <<>> /\ Awaits(f) = <<>>
  <2>1. ParenWait("if", 8) = <<>>
    <3>1. Len(Script["if"]) + 1 = 8
      BY ScriptItems
    <3>2. ParenWait("if", Len(Script["if"]) + 1) = <<>>
      BY <1>1, WaitSteps
    <3> QED
      BY <3>1, <3>2
  <2>2. Script["if"][7] = "else?"
    <3>1. Script["if"] = Statement["if"]
      BY <1>1 DEF Script
    <3>2. Statement["if"] = <<"(", "expr", "need", ")", "stmt", "need", "else?">>
      BY Zenon DEF Statement
    <3> QED
      BY <3>1, <3>2
  <2>3. 7 \in 1 .. Len(Script["if"]) /\ Script["if"][7] \notin {"(", ")"}
    BY <2>2, ScriptItems
  <2>4. ParenWait("if", 7 + 1) = ParenWait("if", 7)
    BY <1>1, <2>3, WaitSteps
  <2>5. ParenWait("if", 7) = <<>>
    BY <2>1, <2>4
  <2>6. Awaits(Top) = ParenWait("if", 7) /\ Awaits(f) = ParenWait("if", 8)
    BY <1>1, <1>2, <1>3, AwaitsOf
  <2> QED
    BY <2>1, <2>5, <2>6
<1>5. CASE Look # "null" /\ Else(cache) /\ Eat(cache) /\ Call("stmt", f)
  <2>1. Look = "else"
    BY <1>5 DEF Look, Else
  <2>2. Takes("else") /\ Plain("else")
    BY <1>5, <2>1, LookTaken, PlainKinds DEF Eat, Keywords
  <2>3. Turns(<<>>, FALSE)
    BY <1>1, <1>4, <2>2, TurnPlain
  <2>4. OnTo(f)
    BY <1>1, <1>2, <1>3, <1>4, <2>2, <2>3, TakenGoes
  <2>5. Into("stmt")
    <3>1. "stmt" \in Startable /\ Rank["stmt"] = 8
      BY Ranks DEF Startable
    <3>2. Rank["stmt"] \in Nat /\ Rank[Top.proc] < Rank["stmt"] + 11
      BY <1>1, <1>2, <3>1
    <3> QED
      BY <1>2, <2>2, <3>1, <3>2, TakenCalls
  <2> QED
    BY <1>3, <1>5, <2>4, <2>5, NestMoves
<1>6. CASE Become(f) /\ UNCHANGED streamVars
  <2>1. OnTo(f)
    BY <1>1, <1>2, <1>3, <1>4, <1>6, SameQuiet, QuietGoes
  <2> QED
    BY <1>6, <2>1, NestMoves
<1> QED
  BY <1>5, <1>6, NestMoves, Zenon DEF LookElse, f

(* The while of a do is there or the parser stops.                          *)
LEMMA GetKeywordNests ==
  ASSUME ParserInv, NEW m, Fits(Top, m), GetKeyword
  PROVE  NestMove
<1> DEFINE f == NextItem
<1>1. PICK t : /\ InScript /\ Get(t)
               /\ \/ Stop("crash") \/ Stop("fatal")
                  \/ t # 0 /\ Item = "while!" /\ GotKind(t) = "while" /\ Become(f)
  BY Zenon DEF GetKeyword
<1>2. CASE t # 0 /\ Item = "while!" /\ GotKind(t) = "while" /\ Become(f)
  <2>1. Placed(f, Top.proc, Top.at, Top.i + 1)
    BY Places
  <2> HIDE DEF f
  <2>2. /\ Top.at = "script" /\ Top.proc \notin ExprProc
        /\ f.proc = Top.proc /\ f.at = "script" /\ f.proc \in Procs
        /\ Awaits(f) = Awaits(Top)
    BY <1>1, <1>2, <2>1, ItemWaits
  <2>3. Take(t) /\ read'[t].kind = "while"
    BY <1>1, <1>2 DEF Get, GotKind
  <2>4. Takes("while")
    BY <1>2, <2>3, TakeKinds
  <2>5. Plain("while")
    BY PlainKinds DEF Keywords
  <2>6. Turns(Awaits(Top), FALSE)
    BY <2>2, <2>4, <2>5, TurnPlain
  <2>7. OnTo(f)
    BY <2>2, <2>4, <2>6, TakenGoes
  <2> QED
    BY <1>2, <2>7, NestMoves
<1> QED
  BY <1>1, <1>2, NestMoves

(* The functions of expressions, by their heights.                          *)
LEMMA ExprNames ==
  /\ ExprProc = {"expr", "assign", "cond", "logic", "bitwise", "relational", "binary", "binary2",
                 "postfix", "unary", "primary"}
  /\ \A p \in Calling : Callee[p] \in ExprProc /\ Rank[p] < Rank[Callee[p]]
  /\ \A p \in Levels : Operand[p] \in ExprProc /\ p \in ExprProc /\ Rank[p] < Rank[Operand[p]] + 11
  /\ ExprProc \subseteq Startable
<1>1. ExprProc = {"expr", "assign", "cond", "logic", "bitwise", "relational", "binary", "binary2",
                  "postfix", "unary", "primary"}
  BY CalleeDomain DEF ExprProc
<1>2. /\ Callee["expr"] = "assign" /\ Callee["assign"] = "cond" /\ Callee["cond"] = "logic"
      /\ Callee["logic"] = "bitwise" /\ Callee["bitwise"] = "relational"
      /\ Callee["relational"] = "binary" /\ Callee["binary"] = "binary2"
      /\ Callee["binary2"] = "unary" /\ Callee["postfix"] = "primary"
  BY DEF Callee
<1>3. ASSUME NEW p \in Calling
      PROVE  Callee[p] \in ExprProc /\ Rank[p] < Rank[Callee[p]]
  <2>1. \/ p = "expr" \/ p = "assign" \/ p = "cond" \/ p = "logic" \/ p = "bitwise"
        \/ p = "relational" \/ p = "binary" \/ p = "binary2" \/ p = "postfix"
    BY CalleeDomain
  <2> QED
    BY <1>1, <1>2, <2>1, Ranks
<1>4. /\ Operand["expr"] = "assign" /\ Operand["logic"] = "bitwise"
      /\ Operand["bitwise"] = "relational" /\ Operand["relational"] = "binary"
      /\ Operand["binary"] = "binary2" /\ Operand["binary2"] = "unary"
  BY DEF Operand
<1>5. ASSUME NEW p \in Levels
      PROVE  Operand[p] \in ExprProc /\ p \in ExprProc /\ Rank[p] < Rank[Operand[p]] + 11
  <2>1. \/ p = "expr" \/ p = "logic" \/ p = "bitwise" \/ p = "relational" \/ p = "binary"
        \/ p = "binary2"
    BY LevelDomain
  <2> QED
    BY <1>1, <1>4, <2>1, Ranks
<1>6. ExprProc \subseteq Startable
  BY <1>1, CalleeDomain DEF Startable
<1> QED
  BY <1>1, <1>3, <1>5, <1>6

(* A call of an expression that is not at a bracket waits for nothing.      *)
LEMMA ExprWaits ==
  ASSUME NEW f, f.proc \in ExprProc, f.at # "close"
  PROVE  Awaits(f) = <<>>
  BY AwaitsOf

(* A call of an expression takes a token and calls another one.             *)
LEMMA ExprCalls ==
  ASSUME ParserInv, NEW m, Fits(Top, m), NEW k, Takes(k), Top.proc \in ExprProc, Top.at # "op",
         NEW f, f.proc \in ExprProc, f.at # "op", Turns(Awaits(f), FALSE),
         NEW proc \in ExprProc, Rank[Top.proc] < Rank[proc] + 11, Call(proc, f)
  PROVE  NestMove
<1>1. OnTo(f)
  BY LayerRanks, TakenGoes
<1>2. Into(proc)
  BY LayerRanks, ExprNames, TakenCalls
<1> QED
  BY <1>1, <1>2, NestMoves

(* A level calls the next one.                                              *)
LEMMA CallFirstNests ==
  ASSUME ParserInv, NEW m, Fits(Top, m), CallFirst
  PROVE  NestMove
<1> DEFINE f == At("look")
<1>1. Top.at = "call" /\ Call(Callee[Top.proc], f) /\ Quiet
  BY SameQuiet DEF CallFirst
<1>2. Top.proc \in Calling /\ Top.proc \in ExprProc
  BY <1>1 DEF Fits, MayBeAt, ExprProc
<1>3. f.proc = Top.proc /\ f.at = "look"
  BY Places DEF Placed
<1> HIDE DEF f
<1>4. Awaits(f) = <<>> /\ Awaits(Top) = <<>>
  BY <1>1, <1>2, <1>3, ExprWaits
<1>5. OnTo(f)
  BY <1>1, <1>2, <1>3, <1>4, QuietGoes
<1>6. Into(Callee[Top.proc])
  <2>1. PICK proc \in ExprProc : proc = Callee[Top.proc] /\ Rank[Top.proc] < Rank[proc]
    BY <1>2, ExprNames
  <2>2. Into(proc)
    BY <1>1, <1>2, <2>1, ExprNames, LayerRanks, QuietCalls
  <2> QED
    BY <2>1, <2>2
<1> QED
  BY <1>1, <1>3, <1>5, <1>6, NestMoves

(* A level takes an operator and calls its operand.                         *)
LEMMA LookLevelNests ==
  ASSUME ParserInv, NEW m, Fits(Top, m), LookLevel
  PROVE  NestMove
<1> DEFINE f == [At("build") EXCEPT !.op = cache]
<1>1. Top.at = "look" /\ Top.proc \in Levels /\ Top.proc \in ExprProc
  BY ExprNames DEF LookLevel, Looked, Looks
<1>2. Awaits(Top) = <<>>
  BY <1>1, ExprWaits
<1>3. CASE Look \in Ops[Top.proc] /\ Get(cache) /\ Call(Operand[Top.proc], f)
  <2>1. IsFrame(At("build")) /\ Placed(At("build"), Top.proc, "build", Top.i)
    BY Places
  <2>2. f.proc = Top.proc /\ f.at = "build"
    BY <2>1, PlacedStill DEF Placed
  <2> HIDE DEF f
  <2>3. Awaits(f) = <<>>
    BY <1>1, <2>2, ExprWaits
  <2>4. Plain(Look)
    BY <1>1, <1>3, PlainKinds
  <2>5. Look # "null"
    <3>1. \A k \in Ops[Top.proc] : k # "null"
      BY <1>1, PlainKinds
    <3> QED
      BY <1>3, <3>1
  <2>6. Takes(Look)
    BY <1>3, <2>5, LookTaken DEF Get
  <2>7. Turns(<<>>, FALSE)
    BY <1>1, <1>2, <2>4, <2>6, TurnPlain
  <2>8. PICK proc \in ExprProc : proc = Operand[Top.proc] /\ Rank[Top.proc] < Rank[proc] + 11
    BY <1>1, ExprNames
  <2>9. Call(proc, f)
    BY <1>3, <2>8
  <2> QED
    BY <1>1, <2>2, <2>3, <2>6, <2>7, <2>8, <2>9, ExprCalls
<1>4. CASE Return(LastKid) /\ UNCHANGED streamVars
  BY <1>1, <1>2, <1>4, SameQuiet, QuietReturns
<1> QED
  BY <1>3, <1>4, Zenon DEF LookLevel

(* A level goes on with its node; the others return it.                     *)
LEMMA BuildNests ==
  ASSUME ParserInv, NEW m, Fits(Top, m), Build
  PROVE  NestMove
<1>1. Top.at = "build" /\ Top.proc \in Levels \cup {"assign", "cond", "unary"} /\ Quiet
  BY SameQuiet DEF Build, Fits, MayBeAt
<1>2. Top.proc \in ExprProc
  BY <1>1, ExprNames
<1>3. Awaits(Top) = <<>>
  BY <1>1, <1>2, ExprWaits
<1>4. CASE Top.proc \in Levels
  <2>1. Top.proc \notin {"assign", "cond", "unary"}
    BY <1>4, LevelDomain, Zenon
  <2>2. PICK kids : Become([Frame(Top.proc, "look") EXCEPT !.kids = kids])
    BY <1>4, <2>1, Zenon DEF Build
  <2> DEFINE f == [Frame(Top.proc, "look") EXCEPT !.kids = kids]
  <2>3. IsFrame(Frame(Top.proc, "look")) /\ Placed(Frame(Top.proc, "look"), Top.proc, "look", 1)
    BY Places
  <2>4. f.proc = Top.proc /\ f.at = "look"
    BY <2>3, PlacedStill DEF Placed
  <2> HIDE DEF f
  <2>5. Awaits(f) = <<>>
    BY <1>2, <2>4, ExprWaits
  <2>6. OnTo(f)
    BY <1>1, <1>3, <2>4, <2>5, QuietGoes
  <2> QED
    BY <2>2, <2>6, NestMoves DEF f
<1>5. CASE Top.proc \in {"assign", "cond", "unary"}
  <2>1. Top.proc \notin Levels
    BY <1>5, LevelDomain, Zenon
  <2>2. \E node : Return(node)
    BY <1>5, <2>1, Zenon DEF Build
  <2> QED
    BY <1>1, <1>3, <2>2, QuietReturns
<1> QED
  BY <1>1, <1>4, <1>5

(* An assignment eats its operator.                                         *)
LEMMA LookAssignNests ==
  ASSUME ParserInv, NEW m, Fits(Top, m), LookAssign
  PROVE  NestMove
<1> DEFINE f == At("op")
<1>1. Top.at = "look" /\ Top.proc = "assign" /\ Top.proc \in ExprProc
  BY ExprNames DEF LookAssign, Looked, Looks
<1>2. Awaits(Top) = <<>>
  BY <1>1, ExprWaits
<1>3. CASE Look \in AssignOps /\ Eat(cache) /\ Become(f)
  <2>1. f.proc = "assign" /\ f.at = "op"
    BY <1>1, Places DEF Placed
  <2> HIDE DEF f
  <2>2. Awaits(f) = <<>>
    BY <1>1, <2>1, ExprWaits
  <2>3. Takes(Look)
    BY <1>3, LookTaken DEF Eat, AssignOps
  <2>4. Turns(Awaits(Top), TRUE)
    BY <1>1, <1>3, <2>3, TurnAssign
  <2>5. (f.at = "op") = TRUE
    BY <2>1
  <2>6. Turns(Awaits(f), f.at = "op")
    BY <1>2, <2>2, <2>4, <2>5, Zenon
  <2>7. 11 * Len(given) + Height(Top) <= 11 * Len(given') + Height(f)
    <3>1. Height(f) = 0 /\ Height(Top) = 10
      BY <1>1, <2>1, Ranks DEF Height
    <3>2. Len(given) \in Nat /\ Len(given') = Len(given) + 1
      BY <2>3, GivenFacts DEF Takes
    <3> QED
      BY <3>1, <3>2
  <2>8. OnTo(f)
    BY <1>1, <2>1, <2>6, <2>7 DEF OnTo
  <2> QED
    BY <1>3, <2>8, NestMoves
<1>4. CASE Return(LastKid) /\ UNCHANGED streamVars
  BY <1>1, <1>2, <1>4, SameQuiet, QuietReturns
<1> QED
  BY <1>3, <1>4, Zenon DEF LookAssign

(* The token after the operator is taken for it, whatever it is.            *)
LEMMA AssignOpNests ==
  ASSUME ParserInv, NEW m, Fits(Top, m), AssignOp
  PROVE  NestMove
<1>1. PICK t : /\ Top.at = "op" /\ Take(t)
               /\ Call("assign", [At("build") EXCEPT !.op = t])
  BY DEF AssignOp, Get
<1> DEFINE f == [At("build") EXCEPT !.op = t]
<1>2. Top.proc = "assign" /\ Top.proc \in ExprProc /\ "assign" \in ExprProc
  BY <1>1, ExprNames DEF Fits, MayBeAt
<1>3. IsFrame(At("build")) /\ Placed(At("build"), Top.proc, "build", Top.i)
  BY Places
<1>4. f.proc = "assign" /\ f.at = "build"
  BY <1>2, <1>3, PlacedStill DEF Placed
<1>5. Call("assign", f)
  BY <1>1
<1> HIDE DEF f
<1>6. Awaits(f) = <<>> /\ Awaits(Top) = <<>>
  BY <1>1, <1>2, <1>4, ExprWaits
<1>7. Turns(Awaits(Top), FALSE) /\ (Len(given') = Len(given) \/ Len(given') = Len(given) + 1)
  <2>1. CASE sources = <<>> /\ Quiet
    BY <2>1, TurnAtEnd DEF Quiet
  <2>2. CASE Takes(read'[t].kind)
    <3>1. Turns(Awaits(Top), FALSE)
      BY <1>1, <2>2, TurnSkip
    <3> QED
      BY <2>2, <3>1 DEF Takes
  <2> QED
    BY <1>1, <2>1, <2>2, TakeKinds
<1>8. Height(Top) = 0 /\ Height(f) = 10 /\ Len(given) \in Nat
  BY <1>1, <1>4, Ranks, GivenFacts DEF Height
<1>9. OnTo(f)
  <2>1. (f.at = "op") = FALSE
    BY <1>4
  <2>2. Turns(Awaits(f), f.at = "op")
    BY <1>6, <1>7, <2>1, Zenon
  <2>3. 11 * Len(given) + Height(Top) <= 11 * Len(given') + Height(f)
    BY <1>7, <1>8
  <2> QED
    BY <1>2, <1>4, <2>2, <2>3 DEF OnTo
<1>10. Into("assign")
  <2>1. "assign" \in Startable /\ Rank["assign"] = 10
    BY <1>2, ExprNames, Ranks
  <2>2. 11 * Len(given) + Height(Top) + 1 <= 11 * Len(given') + Rank["assign"]
    BY <1>7, <1>8, <2>1
  <2> QED
    BY <1>2, <2>1, <2>2 DEF Into
<1> QED
  BY <1>4, <1>5, <1>9, <1>10, NestMoves

(* A conditional waits for its colon.                                       *)
LEMMA LookCondNests ==
  ASSUME ParserInv, NEW m, Fits(Top, m), LookCond
  PROVE  NestMove
<1> DEFINE f == At("close")
<1>1. Top.at = "look" /\ Top.proc = "cond" /\ Top.proc \in ExprProc /\ "expr" \in ExprProc
  BY ExprNames DEF LookCond, Looked, Looks
<1>2. Awaits(Top) = <<>>
  BY <1>1, ExprWaits
<1>3. CASE Look = "?" /\ Eat(cache) /\ Call("expr", f)
  <2>1. f.proc = "cond" /\ f.at = "close"
    BY <1>1, Places DEF Placed
  <2> HIDE DEF f
  <2>2. Awaits(f) = <<"?">>
    BY <2>1, AwaitsOf
  <2>3. Takes("?") /\ "?" \in Opening
    BY <1>3, LookTaken DEF Eat, Opening
  <2>4. Turns(<<"?">>, FALSE)
    BY <1>1, <1>2, <2>3, TurnOpen
  <2>5. Rank[Top.proc] < Rank["expr"] + 11
    BY <1>1, Ranks
  <2> QED
    BY <1>1, <1>3, <2>1, <2>2, <2>3, <2>4, <2>5, ExprCalls
<1>4. CASE Return(LastKid) /\ UNCHANGED streamVars
  BY <1>1, <1>2, <1>4, SameQuiet, QuietReturns
<1> QED
  BY <1>3, <1>4, Zenon DEF LookCond

(* A unary operator is kept; else a postfix expression follows.             *)
LEMMA LookUnaryNests ==
  ASSUME ParserInv, NEW m, Fits(Top, m), LookUnary
  PROVE  NestMove
<1>1. Top.at = "look" /\ Top.proc = "unary" /\ Top.proc \in ExprProc /\ "postfix" \in ExprProc
  BY ExprNames DEF LookUnary, Looked, Looks
<1>2. Awaits(Top) = <<>>
  BY <1>1, ExprWaits
<1>3. CASE Return(Uninit) /\ UNCHANGED streamVars
  BY <1>1, <1>2, <1>3, SameQuiet, QuietReturns
<1>4. CASE Look \in UnaryOps /\ Get(cache) /\ Call("unary", [At("build") EXCEPT !.op = cache])
  <2> DEFINE f == [At("build") EXCEPT !.op = cache]
  <2>1. IsFrame(At("build")) /\ Placed(At("build"), Top.proc, "build", Top.i)
    BY Places
  <2>2. f.proc = "unary" /\ f.at = "build"
    BY <1>1, <2>1, PlacedStill DEF Placed
  <2>3. Call("unary", f)
    BY <1>4
  <2> HIDE DEF f
  <2>4. Awaits(f) = <<>>
    BY <1>1, <2>2, ExprWaits
  <2>5. Plain(Look) /\ Look # "null"
    BY <1>4, PlainKinds DEF UnaryOps
  <2>6. Takes(Look)
    BY <1>4, <2>5, LookTaken DEF Get
  <2>7. Turns(<<>>, FALSE)
    BY <1>1, <1>2, <2>5, <2>6, TurnPlain
  <2>8. Rank[Top.proc] < Rank["unary"] + 11
    BY <1>1, Ranks
  <2> QED
    BY <1>1, <2>2, <2>3, <2>4, <2>6, <2>7, <2>8, ExprCalls
<1>5. CASE Call("postfix", At("pass")) /\ UNCHANGED streamVars
  <2> DEFINE f == At("pass")
  <2>1. f.proc = "unary" /\ f.at = "pass"
    BY <1>1, Places DEF Placed
  <2> HIDE DEF f
  <2>2. Awaits(f) = <<>>
    BY <1>1, <2>1, ExprWaits
  <2>3. OnTo(f)
    BY <1>1, <1>2, <1>5, <2>1, <2>2, SameQuiet, QuietGoes
  <2>4. Into("postfix")
    BY <1>1, <1>5, SameQuiet, ExprNames, Ranks, QuietCalls
  <2> QED
    BY <1>5, <2>1, <2>3, <2>4, NestMoves DEF f
<1> QED
  BY <1>3, <1>4, <1>5, Zenon DEF LookUnary

(* What it was called for is returned.                                      *)
LEMMA PassPostfixNests ==
  ASSUME ParserInv, NEW m, Fits(Top, m), PassPostfix
  PROVE  NestMove
<1>1. Top.at = "pass" /\ Return(LastKid) /\ Quiet
  BY SameQuiet DEF PassPostfix
<1>2. Top.proc = "unary" /\ "unary" \in ExprProc
  BY <1>1, ExprNames DEF Fits, MayBeAt
<1> QED
  BY <1>1, <1>2, ExprWaits, QuietReturns

(* A subscript waits to be closed; a member and an increment are taken.     *)
LEMMA LookPostfixNests ==
  ASSUME ParserInv, NEW m, Fits(Top, m), LookPostfix
  PROVE  NestMove
<1>1. /\ Top.at = "look" /\ Top.proc = "postfix" /\ Top.proc \in ExprProc
      /\ "expr" \in ExprProc /\ "primary" \in ExprProc
  BY ExprNames DEF LookPostfix, Looked, Looks
<1>2. Awaits(Top) = <<>>
  BY <1>1, ExprWaits
<1>3. ASSUME NEW point
      PROVE  /\ [At(point) EXCEPT !.op = cache].proc = "postfix"
             /\ [At(point) EXCEPT !.op = cache].at = point
  <2>1. IsFrame(At(point)) /\ Placed(At(point), Top.proc, point, Top.i)
    BY Places
  <2> QED
    BY <1>1, <2>1, PlacedStill DEF Placed
<1>4. CASE Look = "[" /\ Get(cache) /\ Call("expr", [At("close") EXCEPT !.op = cache])
  <2> DEFINE f == [At("close") EXCEPT !.op = cache]
  <2>1. f.proc = "postfix" /\ f.at = "close" /\ Call("expr", f)
    BY <1>3, <1>4
  <2> HIDE DEF f
  <2>2. Awaits(f) = <<"[">>
    BY <2>1, AwaitsOf
  <2>3. Takes("[") /\ "[" \in Opening
    BY <1>4, LookTaken DEF Get, Opening
  <2>4. Turns(<<"[">>, FALSE)
    BY <1>1, <1>2, <2>3, TurnOpen
  <2>5. Rank[Top.proc] < Rank["expr"] + 11
    BY <1>1, Ranks
  <2> QED
    BY <1>1, <2>1, <2>2, <2>3, <2>4, <2>5, ExprCalls
<1>5. CASE Look \in {".", "->"} /\ Get(cache) /\ Call("primary", [At("member") EXCEPT !.op = cache])
  <2> DEFINE f == [At("member") EXCEPT !.op = cache]
  <2>1. f.proc = "postfix" /\ f.at = "member" /\ Call("primary", f)
    BY <1>3, <1>5
  <2> HIDE DEF f
  <2>2. Awaits(f) = <<>>
    BY <1>1, <2>1, ExprWaits
  <2>3. Plain(Look) /\ Look # "null"
    BY <1>5, PlainKinds
  <2>4. Takes(Look)
    BY <1>5, <2>3, LookTaken DEF Get
  <2>5. Turns(<<>>, FALSE)
    BY <1>1, <1>2, <2>3, <2>4, TurnPlain
  <2>6. Rank[Top.proc] < Rank["primary"] + 11
    BY <1>1, Ranks
  <2> QED
    BY <1>1, <2>1, <2>2, <2>4, <2>5, <2>6, ExprCalls
<1>6. CASE Look \in {"++", "--"} /\ Get(cache) /\ \E node : Return(node)
  <2>1. Plain(Look) /\ Look # "null"
    BY <1>6, PlainKinds DEF UnaryOps
  <2>2. Takes(Look)
    BY <1>6, <2>1, LookTaken DEF Get
  <2>3. Turns(<<>>, FALSE)
    BY <1>1, <1>2, <2>1, <2>2, TurnPlain
  <2> QED
    BY <1>6, <2>3, NestMoves
<1>7. CASE Return(LastKid) /\ UNCHANGED streamVars
  BY <1>1, <1>2, <1>7, SameQuiet, QuietReturns
<1> QED
  BY <1>4, <1>5, <1>6, <1>7, Zenon DEF LookPostfix

(* A parenthesis waits to be closed.                                        *)
LEMMA LookPrimaryNests ==
  ASSUME ParserInv, NEW m, Fits(Top, m), LookPrimary
  PROVE  NestMove
<1>1. Top.at = "look" /\ Top.proc = "primary" /\ Top.proc \in ExprProc /\ "expr" \in ExprProc
  BY ExprNames DEF LookPrimary, Looked, Looks
<1>2. Awaits(Top) = <<>>
  BY <1>1, ExprWaits
<1>3. CASE Look = "num" /\ Get(cache) /\ \E node : Return(node)
  <2>1. Plain("num")
    BY PlainKinds
  <2>2. Takes("num")
    BY <1>3, LookTaken DEF Get
  <2>3. Turns(<<>>, FALSE)
    BY <1>1, <1>2, <2>1, <2>2, TurnPlain
  <2> QED
    BY <1>3, <2>3, NestMoves
<1>4. CASE Look = "(" /\ Eat(cache) /\ Call("expr", At("close"))
  <2> DEFINE f == At("close")
  <2>1. f.proc = "primary" /\ f.at = "close"
    BY <1>1, Places DEF Placed
  <2>2. Call("expr", f)
    BY <1>4
  <2> HIDE DEF f
  <2>3. Awaits(f) = <<"(">>
    BY <2>1, AwaitsOf
  <2>4. Takes("(") /\ "(" \in Opening
    BY <1>4, LookTaken DEF Eat, Opening
  <2>5. Turns(<<"(">>, FALSE)
    BY <1>1, <1>2, <2>4, TurnOpen
  <2>6. Rank[Top.proc] < Rank["expr"] + 11
    BY <1>1, Ranks
  <2> QED
    BY <1>1, <2>1, <2>2, <2>3, <2>4, <2>5, <2>6, ExprCalls
<1>5. CASE UNCHANGED streamVars /\ \E node : Return(node)
  BY <1>1, <1>2, <1>5, SameQuiet, QuietReturns
<1> QED
  BY <1>3, <1>4, <1>5, NestMoves, Zenon DEF LookPrimary

(* A closed bracket ends its call, or the middle of a conditional.          *)
LEMMA CloseNests ==
  ASSUME ParserInv, NEW m, Fits(Top, m), Close
  PROVE  NestMove
<1>1. PICK t : /\ Top.at = "close" /\ Take(t)
               /\ \/ GotKind(t) = Closing[Top.proc] /\ Closed
                  \/ Stop("crash") \/ Stop("fatal")
  BY Zenon DEF Close, Eat
<1>2. \/ Top.proc = "postfix" /\ Closing[Top.proc] = "]" /\ Awaits(Top) = <<"[">>
      \/ Top.proc = "primary" /\ Closing[Top.proc] = ")" /\ Awaits(Top) = <<"(">>
      \/ Top.proc = "cond" /\ Closing[Top.proc] = ":" /\ Awaits(Top) = <<"?">>
  <2>1. Top.proc = "postfix" \/ Top.proc = "primary" \/ Top.proc = "cond"
    BY <1>1 DEF Fits, MayBeAt
  <2>2. Closing["postfix"] = "]" /\ Closing["primary"] = ")" /\ Closing["cond"] = ":"
    BY DEF Closing
  <2> QED
    BY <1>1, <2>1, <2>2, AwaitsOf
<1>3. CASE GotKind(t) = Closing[Top.proc] /\ Closed
  <2>1. PICK b, k : /\ GotKind(t) = k /\ k # "null" /\ b \in Opening /\ <<b, k>> \in Pairs
                    /\ Awaits(Top) = <<b>>
    BY <1>2, <1>3 DEF Opening, Pairs
  <2>2. Takes(k)
    <3>1. t # 0 /\ read'[t].kind = k
      BY <2>1 DEF GotKind
    <3> QED
      BY <1>1, <3>1, TakeKinds
  <2>3. Turns(<<>>, FALSE)
    BY <1>1, <2>1, <2>2, TurnClose
  <2>4. CASE Top.proc = "postfix"
    <3>1. Return(Node("POSTFIX", Top.op, Top.kids))
      BY <1>3, <2>4, Zenon DEF Closed
    <3> QED
      BY <2>3, <3>1, NestMoves
  <2>5. CASE Top.proc = "primary"
    <3>1. Return(Parenthesised(LastKid))
      BY <1>3, <2>5, Zenon DEF Closed
    <3> QED
      BY <2>3, <3>1, NestMoves
  <2>6. CASE Top.proc = "cond"
    <3> DEFINE f == At("build")
    <3>1. Call("cond", f)
      BY <1>3, <2>6, Zenon DEF Closed
    <3>2. f.proc = "cond" /\ f.at = "build"
      BY <2>6, Places DEF Placed
    <3> HIDE DEF f
    <3>3. Top.proc \in ExprProc /\ "cond" \in ExprProc
      BY <2>6, ExprNames
    <3>4. Awaits(f) = <<>>
      BY <3>2, <3>3, ExprWaits
    <3>5. Rank[Top.proc] < Rank["cond"] + 11
      BY <2>6, Ranks
    <3> QED
      BY <1>1, <2>2, <2>3, <3>1, <3>2, <3>3, <3>4, <3>5, ExprCalls
  <2> QED
    BY <1>2, <2>4, <2>5, <2>6
<1> QED
  BY <1>1, <1>3, NestMoves

(* A member access returns or ends the parser.                              *)
LEMMA MemberNests ==
  ASSUME ParserInv, NEW m, Fits(Top, m), Member
  PROVE  NestMove
<1>1. Top.at = "member" /\ Quiet
  BY SameQuiet DEF Member
<1>2. Awaits(Top) = <<>>
  <2>1. Top.proc = "postfix" /\ "postfix" \in ExprProc
    BY <1>1, ExprNames DEF Fits, MayBeAt
  <2> QED
    BY <1>1, <2>1, ExprWaits
<1>3. (\E node : Return(node)) \/ Stop("fatal") \/ Stop("crash")
  BY Zenon DEF Member
<1> QED
  BY <1>1, <1>2, <1>3, QuietReturns, NestMoves
-----------------------------------------------------------------------------
(* The parser                                                               *)

(* Each of the four moves keeps the invariant.                              *)
LEMMA MoveNests ==
  ASSUME ParserInv, StackInv, StackInv', NestInv, stack # <<>>, NestMove,
         NEW m \in Nat, m = Len(read'), Len(read) <= m,
         NEW h \in Nat, h = Len(given'), Len(given) <= h
  PROVE  NestInv'
<1>1. ASSUME NEW f, OnTo(f), Become(f)
      PROVE  NestInv'
  BY <1>1, BecomeNests
<1>2. ASSUME NEW f, NEW proc, OnTo(f), f.at # "op", Into(proc), Call(proc, f)
      PROVE  NestInv'
  BY <1>2, CallNests
<1>3. ASSUME NEW node, Turns(<<>>, FALSE), Return(node)
      PROVE  NestInv'
  BY <1>3, ReturnNests
<1>4. ASSUME NEW how \in {"fatal", "crash"}, Stop(how)
      PROVE  NestInv'
  BY <1>4, StopNests
<1> QED
  BY <1>1, <1>2, <1>3, <1>4, Zenon DEF NestMove

(* Every step of the parser but a lookahead is such a move.                 *)
LEMMA NextNests ==
  ASSUME ParserInv, StackInv, Next
  PROVE  LookAhead \/ NestMove
<1>1. stack # <<>> /\ Len(read) \in Nat
  <2>1. stack # <<>>
    BY Zenon DEF Next, LookAhead, LookStmt, LookBlock, Block, LookDecl, Expect, Perform, LookElse,
                 GetKeyword, CallFirst, LookLevel, Build, LookAssign, AssignOp, LookCond, LookUnary,
                 PassPostfix, LookPostfix, LookPrimary, Close, Member, Looked, Looks, InScript
  <2> QED
    BY <2>1, GivenFacts
<1>2. PICK m \in Nat : Fits(Top, m)
  <2>1. PICK m \in Nat : m = Len(read)
    BY <1>1
  <2> QED
    BY <1>1, <2>1, BelowFits DEF StackInv
<1>3. CASE LookStmt \/ LookBlock \/ Block \/ LookDecl \/ Expect \/ Perform \/ LookElse \/ GetKeyword
  BY <1>2, <1>3, LookStmtNests, LookBlockNests, BlockNests, LookDeclNests, ExpectNests,
     PerformNests, LookElseNests, GetKeywordNests
<1>4. CASE CallFirst \/ LookLevel \/ Build \/ LookAssign \/ AssignOp \/ LookCond
  BY <1>2, <1>4, CallFirstNests, LookLevelNests, BuildNests, LookAssignNests, AssignOpNests,
     LookCondNests
<1>5. CASE LookUnary \/ PassPostfix \/ LookPostfix \/ LookPrimary \/ Close \/ Member
  BY <1>2, <1>5, LookUnaryNests, PassPostfixNests, LookPostfixNests, LookPrimaryNests, CloseNests, MemberNests
<1> QED
  BY <1>3, <1>4, <1>5, Zenon DEF Next

(* A step that leaves the calls as they are and hands out nothing.          *)
LEMMA QuietNests ==
  ASSUME ParserInv, NestInv, UNCHANGED parser, Quiet
  PROVE  NestInv'
<1>1. stack' = stack /\ status' = status /\ Top' = Top
  BY DEF parser, Top
<1>2. GivenKinds' = GivenKinds /\ Len(given') = Len(given) /\ (sources = <<>> => sources' = <<>>)
  BY DEF Quiet
<1>3. Layered(stack') /\ Settled(stack') /\ Low(stack', Len(given'))
  BY <1>1, <1>2 DEF NestInv
<1>4. status' \in {"run", "done"} => Brackets(GivenKinds').open = Waiting(stack')
  BY <1>1, <1>2 DEF NestInv
<1>5. status' = "run" /\ sources' # <<>> => Brackets(GivenKinds').skip = (Top'.at = "op")
  BY <1>1, <1>2 DEF NestInv
<1> QED
  BY <1>3, <1>4, <1>5 DEF NestInv

(* At most one token is handed out at a time.                               *)
LEMMA GivenGrows ==
  ASSUME ParserInv, LexerCall
  PROVE  Len(given') = Len(given) \/ Len(given') = Len(given) + 1
<1>1. CASE \E t \in NextToken : Get(t) \/ Eat(t)
  <2>1. PICK t : Take(t)
    BY <1>1 DEF Get, Eat
  <2> QED
    BY <2>1, TakeKinds DEF Quiet, Takes
<1>2. CASE UNCHANGED streamVars \/ Peek
  BY <1>2, SameQuiet, PeekQuiet DEF Quiet
<1> QED
  BY <1>1, <1>2 DEF LexerCall

(* The parser begins with one call and no token.                            *)
LEMMA NestInit == Init => NestInv
<1> SUFFICES ASSUME Init PROVE NestInv
  OBVIOUS
<1> DEFINE c == Start("stmt")
<1>1. "stmt" \in Startable
  BY DEF Startable
<1>2. c.proc = "stmt" /\ c.at # "op" /\ Height(c) = 8 /\ Awaits(c) = <<>> /\ Fits(c, 0)
  BY <1>1, StartNests, StartFits, Ranks
<1>3. stack = Append(<<>>, c) /\ Len(stack) = 1 /\ stack[1] = c /\ Top = c
  BY DEF Init, Top
<1>4. Len(given) = 0 /\ GivenKinds = <<>> /\ status = "run"
  BY DEF Init, GivenKinds
<1> HIDE DEF c
<1>5. "stmt" \notin ExprProc
  BY StatementNames
<1>6. Layered(stack) /\ Settled(stack) /\ Low(stack, Len(given))
  <2>1. \A j \in 1 .. Len(stack) : j = 1 /\ stack[j] = c
    BY <1>3
  <2>2. Layered(stack)
    BY <1>2, <1>5, <2>1 DEF Layered
  <2>3. Settled(stack)
    BY <1>3 DEF Settled
  <2>4. Low(stack, Len(given))
    BY <1>2, <1>4, <2>1 DEF Low
  <2> QED
    BY <2>2, <2>3, <2>4
<1>7. Waiting(stack) = <<>>
  <2>1. StackFits(<<>>, 0)
    BY DEF StackFits
  <2>2. Waiting(Append(<<>>, c)) = Waiting(<<>>) \o Awaits(c)
    BY <1>2, <2>1, WaitsLonger
  <2>3. Waiting(Append(<<>>, c)) = <<>> \o <<>>
    BY <1>2, <2>2, NestedNone, Zenon
  <2> QED
    BY <1>3, <2>3
<1>8. Brackets(GivenKinds).open = <<>> /\ Brackets(GivenKinds).skip = FALSE
  BY <1>4, BracketsEmpty DEF Nothing
<1>9. (Top.at = "op") = FALSE
  BY <1>2, <1>3
<1> QED
  BY <1>6, <1>7, <1>8, <1>9 DEF NestInv

(* Every step keeps the invariant.                                          *)
LEMMA NestStep == ParserInv /\ StackInv /\ NestInv /\ [Next]_vars => NestInv'
<1> SUFFICES ASSUME ParserInv, StackInv, NestInv, [Next]_vars PROVE NestInv'
  OBVIOUS
<1>1. ParserInv' /\ StackInv'
  BY ParserNextInv, StackNextInv
<1>2. CASE UNCHANGED vars
  BY <1>2, SameQuiet, QuietNests DEF vars, parser
<1>3. CASE LookAhead
  BY <1>3, PeekQuiet, QuietNests DEF LookAhead
<1>4. CASE Next /\ NestMove
  <2>1. LexerCall /\ stack # <<>>
    <3>1. LexerCall
      BY ParserStep, <1>4 DEF ParserInv
    <3>2. PICK m : m = Len(read') /\ m \in Nat
      BY <3>1, LexerFacts
    <3> QED
      BY <1>4, <3>1, <3>2, NextMoves
  <2>2. PICK m \in Nat : m = Len(read') /\ Len(read) <= m
    BY <2>1, LexerFacts
  <2>3. PICK h \in Nat : h = Len(given') /\ Len(given) <= h
    <3>1. Len(given) \in Nat
      BY GivenFacts
    <3>2. Len(given') = Len(given) \/ Len(given') = Len(given) + 1
      BY <2>1, GivenGrows
    <3> QED
      BY <3>1, <3>2
  <2> QED
    BY <1>1, <1>4, <2>1, <2>2, <2>3, MoveNests
<1> QED
  BY <1>2, <1>3, <1>4, NextNests

(* The calls in progress nest: statements around expressions, at most eleven*)
(* of them to a token, and waiting for the brackets that are open.          *)
THEOREM Nesting == Spec => []NestInv
  BY ParserInitInv, ParserNextInv, StackInitInv, StackNextInv, NestInit, NestStep, PTL DEF Spec

(* The C stack is at most linear in the tokens handed out, whatever they    *)
(* are: no input of n tokens makes parse_stmt and its callees recurse       *)
(* deeper than eleven calls per token.                                      *)
THEOREM StackStaysLinear == Spec => []StackIsLinear
<1>1. ParserInv /\ StackInv /\ NestInv => StackIsLinear
  <2> SUFFICES ASSUME ParserInv, StackInv, NestInv PROVE StackIsLinear
    OBVIOUS
  <2>1. Len(given) \in Nat /\ Len(stack) \in Nat
    <3>1. stack \in Seq(Range(stack))
      BY DEF StackInv, StackFits
    <3> QED
      BY <3>1, GivenFacts, LenProperties
  <2>2. CASE Len(stack) = 0
    BY <2>1, <2>2 DEF StackIsLinear
  <2>3. CASE Len(stack) # 0
    <3>1. PICK j \in 1 .. Len(stack) : j = Len(stack)
      BY <2>1, <2>3
    <3>2. j + 7 <= 11 * Len(given) + Height(stack[j])
      BY <3>1 DEF NestInv, Low
    <3>3. Height(stack[j]) \in Nat /\ Height(stack[j]) <= 19
      BY <3>1, HeightIn DEF StackInv, StackFits, Fits
    <3> QED
      BY <2>1, <3>1, <3>2, <3>3 DEF StackIsLinear
  <2> QED
    BY <2>2, <2>3
<1> QED
  BY <1>1, ParserInitInv, ParserNextInv, StackInitInv, StackNextInv, Nesting, PTL DEF Spec

(* The calls in progress wait for exactly the brackets that are open, in    *)
(* the order they were opened: what parse_stmt accepts is balanced,         *)
(* whatever its operands look like and whichever error it recovers from.    *)
THEOREM BracketsStayMatched == Spec => []BracketsMatch
<1>1. NestInv => BracketsMatch
  BY DEF NestInv, BracketsMatch, Waiting
<1> QED
  BY <1>1, Nesting, PTL
-----------------------------------------------------------------------------
(* The end of the file                                                      *)

EofIn(kinds) == \E i \in 1 .. Len(kinds) : kinds[i] = EOF

(* A statement that called for an expression, and one that needs a token    *)
(* after it: with the node of the expression it cannot be over yet.         *)
CallsExpr(f) ==
  /\ f.at = "script" /\ f.proc \in DOMAIN Script /\ f.i > 1
  /\ Script[f.proc][f.i - 1] \in {"expr", "orexpr"}
HasKid(f) == f.kids # <<>> /\ ~ IsNull(f.kids[Len(f.kids)])
Owes(f) == HasKid(f) /\ (CallsExpr(f) \/ (f.proc = "if" /\ f.at = "script" /\ f.i = 4))

(* A call the end of the file can no longer please.                         *)
Ending(f) ==
  IF f.proc \in ExprProc
  THEN (f.at = "look" /\ f.proc \in Calling) \/ f.at = "pass" => HasKid(f)
  ELSE Owes(f)

Entered(s) ==
  /\ s # <<>> => s[1].proc \notin ExprProc
  /\ \A j \in 2 .. Len(s) :
       s[j].proc \in ExprProc /\ s[j - 1].proc \notin ExprProc => CallsExpr(s[j - 1])
KidsKept(f) == f.proc # "block" => f.kids \in Seq(Range(f.kids))
Kept(s) == \A j \in 1 .. Len(s) : KidsKept(s[j])

(* There is one source, and nothing comes after its end.                    *)
EofTokens ==
  /\ Len(sources) <= 1
  /\ cache # 0 /\ KindOf(cache) = EOF => sources = <<>>
  /\ EofIn(GivenKinds) => sources = <<>> /\ cache = 0

(* An end of file that was handed out was taken for the operator of an      *)
(* assignment; the innermost call can only fail or return a node to one     *)
(* that still needs a token.                                                *)
EofCalls ==
  /\ Entered(stack) /\ Kept(stack)
  /\ EofIn(GivenKinds) =>
       \/ status \in {"fatal", "crash"}
       \/ status = "run" /\ Ending(Top)

EofInv == EofTokens /\ EofCalls
-----------------------------------------------------------------------------
(* The tokens                                                               *)

(* One more token.                                                          *)
LEMMA EofAppended ==
  ASSUME NEW S, NEW kinds \in Seq(S), NEW k \in S
  PROVE  EofIn(Append(kinds, k)) <=> EofIn(kinds) \/ k = EOF
<1> DEFINE r == Append(kinds, k)
<1>1. /\ Len(kinds) \in Nat /\ Len(r) = Len(kinds) + 1 /\ r[Len(kinds) + 1] = k
      /\ \A i \in 1 .. Len(kinds) : r[i] = kinds[i]
  BY AppendProperties, LenProperties
<1> HIDE DEF r
<1>2. \A i : i \in 1 .. Len(r) <=> i \in 1 .. Len(kinds) \/ i = Len(kinds) + 1
  BY <1>1
<1>3. EofIn(r) <=> EofIn(kinds) \/ k = EOF
  BY <1>1, <1>2 DEF EofIn
<1> QED
  BY <1>3 DEF r

(* Scanning the end of the only source leaves none.                         *)
LEMMA ScanEof ==
  ASSUME ParserInv, Len(sources) <= 1, sources # <<>>, Scan
  PROVE  Len(sources') <= 1 /\ (read'[Len(read) + 1].kind = EOF => sources' = <<>>)
<1>1. PICK k : /\ read' = Append(read, [kind |-> k, source |-> Head(sources)])
               /\ sources' = IF k = EOF THEN Tail(sources) ELSE sources
  BY DEF Scan, Pop
<1>2. /\ sources \in Seq(1 .. registered) /\ Len(sources) \in Nat \ {0} /\ Len(read') = Len(read) + 1
      /\ read' \in Seq(Scanned) /\ Len(read) \in Nat
  <2>1. StreamTypeOK
    BY DEF ParserInv, StreamInv
  <2>2. sources \in Seq(1 .. registered)
    BY <2>1 DEF StreamTypeOK
  <2>3. Len(sources) \in Nat \ {0}
    BY <2>2, EmptySeq
  <2> QED
    BY <2>1, <2>2, <2>3, ScanResult, GivenFacts
<1>3. Len(sources) = 1 /\ Tail(sources) = <<>>
  <2>1. Len(sources) = 1
    <3>1. PICK l \in Nat \ {0} : l = Len(sources) /\ l <= 1
      BY <1>2
    <3> QED
      BY <3>1
  <2>2. Tail(sources) \in Seq(1 .. registered) /\ Len(Tail(sources)) = 0
    BY <1>2, <2>1, HeadTailProperties
  <2> QED
    BY <2>1, <2>2, EmptySeq
<1>4. read'[Len(read) + 1].kind = k
  BY <1>1, GivenFacts
<1> QED
  BY <1>1, <1>3, <1>4

(* A token that is handed out is the end of the file, once and for all, or  *)
(* the end of the file has not been handed out.                             *)
LEMMA TakeEof ==
  ASSUME ParserInv, EofTokens, NEW t, Take(t)
  PROVE  /\ Len(sources') <= 1
         /\ cache' # 0 /\ read'[cache'].kind = EOF => sources' = <<>>
         /\ EofIn(GivenKinds') => sources' = <<>> /\ cache' = 0
         /\ EofIn(GivenKinds') => cache = 0 /\ (t = 0 \/ read'[t].kind = EOF)
<1>1. CASE t = 0 /\ sources = <<>> /\ Quiet /\ UNCHANGED <<sources, cache, read, given>>
  BY <1>1 DEF Quiet, EofTokens, KindOf
<1>2. CASE /\ t # 0 /\ Takes(read'[t].kind)
           /\ cache' = 0 /\ t \in 1 .. Len(read')
           /\ cache # 0 => t = cache /\ UNCHANGED <<sources, read>>
           /\ cache = 0 => Scan /\ t = Len(read) + 1
  <2>1. PICK k : k = read'[t].kind /\ GivenKinds' = Append(GivenKinds, k) /\ sources # <<>>
    BY <1>2 DEF Takes
  <2>2. read' \in Seq(Scanned)
    BY <1>2, <2>1, ScanResult, GivenFacts DEF ParserInv, StreamInv
  <2>3. k \in Kind \cup {EOF}
    <3>1. read'[t] \in Scanned
      BY <1>2, <2>2, ElementOfSeq
    <3> QED
      BY <2>1, <3>1 DEF Scanned
  <2>4. ~ EofIn(GivenKinds)
    BY <2>1 DEF EofTokens
  <2>5. EofIn(GivenKinds') <=> k = EOF
    <3>1. EofIn(Append(GivenKinds, k)) <=> k = EOF
      BY <2>3, <2>4, GivenFacts, EofAppended
    <3> QED
      BY <2>1, <3>1
  <2>6. CASE cache # 0
    <3>1. k = KindOf(cache) /\ sources' = sources
      BY <1>2, <2>1, <2>6 DEF KindOf
    <3>2. k # EOF
      BY <2>1, <2>6, <3>1 DEF EofTokens
    <3> QED
      BY <1>2, <2>5, <3>1, <3>2 DEF EofTokens
  <2>7. CASE cache = 0
    <3>1. Len(sources') <= 1 /\ (k = EOF => sources' = <<>>)
      BY <1>2, <2>1, <2>7, ScanEof DEF EofTokens
    <3> QED
      BY <1>2, <2>1, <2>5, <2>7, <3>1
  <2> QED
    BY <2>6, <2>7
<1> QED
  BY <1>1, <1>2, TakeKinds

(* Every call of the lexer keeps the end of the file last.                  *)
LEMMA EofTokensStep ==
  ASSUME ParserInv, EofTokens, LexerCall
  PROVE  EofTokens'
<1>1. CASE \E t \in NextToken : Get(t) \/ Eat(t)
  <2>1. PICK t : Take(t)
    BY <1>1 DEF Get, Eat
  <2> QED
    BY <2>1, TakeEof DEF EofTokens, KindOf
<1>2. CASE UNCHANGED streamVars
  BY <1>2 DEF EofTokens, GivenKinds, KindOf, streamVars, lexer
<1>3. CASE Peek
  <2>1. sources # <<>> /\ cache = 0 /\ Scan /\ cache' = Len(read) + 1
    BY <1>3 DEF Peek, Fill
  <2>2. Len(sources') <= 1 /\ (read'[Len(read) + 1].kind = EOF => sources' = <<>>)
    BY <2>1, ScanEof DEF EofTokens
  <2>3. ~ EofIn(GivenKinds) /\ GivenKinds' = GivenKinds
    BY <1>3, <2>1, PeekQuiet DEF EofTokens, Quiet
  <2> QED
    BY <2>1, <2>2, <2>3 DEF EofTokens, KindOf
<1> QED
  BY <1>1, <1>2, <1>3 DEF LexerCall

(* A parser begins with one source and no token.                            *)
LEMMA EofTokensInit == Init => EofTokens
<1> SUFFICES ASSUME Init PROVE EofTokens
  OBVIOUS
<1>1. Len(sources) = 1 /\ cache = 0 /\ Len(GivenKinds) = 0
  BY DEF Init, GivenKinds
<1>2. ~ EofIn(GivenKinds)
  BY <1>1 DEF EofIn
<1> QED
  BY <1>1, <1>2 DEF EofTokens
-----------------------------------------------------------------------------
(* The calls                                                                *)

(* The innermost call goes on as f, in its layer.                           *)
Sound(f) == (f.proc \in ExprProc <=> Top.proc \in ExprProc) /\ KidsKept(f)

(* What a step may do to the calls: once the end of the file was handed     *)
(* out, only what leaves the innermost call one that cannot be pleased.     *)
EofMove ==
  \/ \E f : Sound(f) /\ Become(f) /\ (EofIn(GivenKinds') => Ending(f))
  \/ \E f, proc :
       /\ Sound(f) /\ proc \in Startable /\ Call(proc, f)
       /\ proc \in ExprProc /\ f.proc \notin ExprProc => CallsExpr(f)
       /\ EofIn(GivenKinds') => Ending(Start(proc))
  \/ \E node : Return(node) /\ (EofIn(GivenKinds') => Top.proc \in ExprProc /\ ~ IsNull(node))
  \/ \E how \in {"fatal", "crash"} : Stop(how)

(* The stack, call by call.                                                 *)
LEMMA BecomeStack ==
  ASSUME StackInv, Len(read) \in Nat, stack # <<>>, NEW f, Become(f)
  PROVE  \E n \in Nat \ {0} :
           /\ Len(stack) = n /\ Top = stack[n]
           /\ Len(stack') = n /\ stack'[n] = f /\ Top' = f /\ status' = status
           /\ \A i \in 1 .. n - 1 : stack'[i] = stack[i]
<1>1. PICK m \in Nat : m = Len(read)
  OBVIOUS
<1>2. /\ Below \in Seq(Range(Below)) /\ Len(Below) \in Nat /\ Len(stack) = Len(Below) + 1
      /\ stack = Append(Below, Top)
  BY <1>1, StackSplit DEF StackInv
<1>3. stack' = Append(Below, f) /\ status' = status
  BY DEF Become
<1>4. /\ Len(stack') = Len(Below) + 1 /\ stack'[Len(Below) + 1] = f
      /\ \A i \in 1 .. Len(Below) : stack'[i] = Below[i]
  BY <1>2, <1>3, Appended
<1>5. /\ stack[Len(Below) + 1] = Top /\ \A i \in 1 .. Len(Below) : stack[i] = Below[i]
  BY <1>2, Appended
<1>6. Top' = f
  BY <1>4 DEF Top
<1> QED
  BY <1>2, <1>3, <1>4, <1>5, <1>6

(* A call adds one.                                                         *)
LEMMA CallStack ==
  ASSUME StackInv, Len(read) \in Nat, stack # <<>>, NEW f, NEW proc, Call(proc, f)
  PROVE  \E n \in Nat \ {0} :
           /\ Len(stack) = n /\ Top = stack[n]
           /\ Len(stack') = n + 1 /\ stack'[n] = f /\ stack'[n + 1] = Start(proc)
           /\ Top' = Start(proc) /\ status' = status
           /\ \A i \in 1 .. n - 1 : stack'[i] = stack[i]
<1> DEFINE c == Start(proc)
           s == Append(Below, f)
<1>1. PICK m \in Nat : m = Len(read)
  OBVIOUS
<1>2. /\ Below \in Seq(Range(Below)) /\ Len(Below) \in Nat /\ Len(stack) = Len(Below) + 1
      /\ stack = Append(Below, Top)
  BY <1>1, StackSplit DEF StackInv
<1>3. /\ s \in Seq(Range(s)) /\ Len(s) = Len(Below) + 1 /\ s[Len(Below) + 1] = f
      /\ \A i \in 1 .. Len(Below) : s[i] = Below[i]
  <2>1. Below \in Seq(Range(Below) \cup {f}) /\ f \in Range(Below) \cup {f}
    BY <1>2, SeqMonotonic
  <2>2. s \in Seq(Range(Below) \cup {f})
    BY <2>1, AppendProperties
  <2> QED
    BY <1>2, <2>2, SeqOfRange, Appended
<1>4. stack' = Append(s, c) /\ status' = status
  <2>1. Below \in Seq(Range(Below) \cup {f, c})
    BY <1>2, SeqMonotonic
  <2>2. Below \o <<f, c>> = Append(Append(Below, f), c)
    BY <2>1
  <2> QED
    BY <2>2 DEF Call
<1> HIDE DEF s, c
<1>5. /\ Len(stack') = Len(s) + 1 /\ stack'[Len(s) + 1] = c
      /\ \A i \in 1 .. Len(s) : stack'[i] = s[i]
  BY <1>3, <1>4, Appended
<1>6. /\ stack[Len(Below) + 1] = Top /\ \A i \in 1 .. Len(Below) : stack[i] = Below[i]
  BY <1>2, Appended
<1>7. Top' = c
  BY <1>5 DEF Top
<1>8. \A i \in 1 .. Len(Below) : i \in 1 .. Len(s)
  BY <1>2, <1>3
<1>9. stack'[Len(Below) + 1] = f /\ \A i \in 1 .. Len(Below) : stack'[i] = stack[i]
  <2>1. Len(Below) + 1 \in 1 .. Len(s)
    BY <1>2, <1>3
  <2> QED
    BY <1>3, <1>5, <1>6, <1>8, <2>1
<1>10. PICK n \in Nat \ {0} : n = Len(Below) + 1 /\ n - 1 = Len(Below)
  BY <1>2
<1> QED
  BY <1>2, <1>3, <1>4, <1>5, <1>6, <1>7, <1>9, <1>10 DEF c

(* A return takes one away and leaves the caller a node.                    *)
LEMMA ReturnStack ==
  ASSUME StackInv, Len(read) \in Nat, stack # <<>>, NEW node, Return(node)
  PROVE  \E n \in Nat :
           /\ Len(stack) = n + 1 /\ Top = stack[n + 1]
           /\ n = 0 => stack' = <<>> /\ status' = "done" /\ tree' = node
           /\ n > 0 =>
                /\ Len(stack') = n /\ status' = status /\ Top' = stack'[n]
                /\ stack'[n].proc = stack[n].proc /\ stack'[n].at = stack[n].at
                /\ stack'[n].i = stack[n].i /\ stack'[n].kids = Append(stack[n].kids, node)
                /\ stack'[n].op = stack[n].op
                /\ \A i \in 1 .. n - 1 : stack'[i] = stack[i]
<1>1. PICK m \in Nat : m = Len(read)
  OBVIOUS
<1>2. /\ Below \in Seq(Range(Below)) /\ Len(Below) \in Nat /\ Len(stack) = Len(Below) + 1
      /\ stack = Append(Below, Top) /\ StackFits(Below, m)
  BY <1>1, StackSplit DEF StackInv
<1>3. /\ stack[Len(Below) + 1] = Top /\ \A i \in 1 .. Len(Below) : stack[i] = Below[i]
  BY <1>2, Appended
<1>4. CASE Below = <<>>
  <2>1. Len(Below) = 0 /\ stack' = <<>> /\ status' = "done" /\ tree' = node
    BY <1>4, EmptySeq DEF Return
  <2>2. PICK n \in Nat : n = 0
    OBVIOUS
  <2> QED
    BY <1>2, <1>3, <2>1, <2>2
<1>5. CASE Below # <<>>
  <2> DEFINE n == Len(Below)
             f == [Below[n] EXCEPT !.kids = Append(Below[n].kids, node)]
  <2>1. stack' = [Below EXCEPT ![n] = f] /\ status' = status
    BY <1>5 DEF Return
  <2>2. n \in 1 .. n /\ n > 0
    <3>1. n \in Nat \ {0}
      BY <1>2, <1>5, EmptySeq
    <3> QED
      BY <3>1
  <2>3. Below \in Seq(Range(Below) \cup {f}) /\ f \in Range(Below) \cup {f}
    BY <1>2, SeqMonotonic
  <2>4. Fits(Below[n], m)
    BY <1>2, <2>2 DEF StackFits
  <2>5. f = [proc |-> Below[n].proc, at |-> Below[n].at, i |-> Below[n].i,
             kids |-> Append(Below[n].kids, node), op |-> Below[n].op]
    BY <2>4, FieldChanged DEF Fits
  <2>6. /\ f.proc = Below[n].proc /\ f.at = Below[n].at /\ f.i = Below[n].i
        /\ f.kids = Append(Below[n].kids, node) /\ f.op = Below[n].op
    BY <2>5
  <2> HIDE DEF f
  <2>7. Len(stack') = n /\ \A j \in 1 .. n : stack'[j] = IF j = n THEN f ELSE Below[j]
    BY <2>1, <2>2, <2>3, ExceptSeq
  <2>8. stack'[n] = f
    BY <2>2, <2>7
  <2>9. \A i \in 1 .. n - 1 : stack'[i] = stack[i]
    <3> TAKE i \in 1 .. n - 1
    <3>1. i \in 1 .. n /\ i # n
      BY <1>2
    <3> QED
      BY <1>3, <2>7, <3>1
  <2>10. Top' = stack'[n]
    BY <2>7 DEF Top
  <2>11. stack[n + 1] = Top /\ stack[n] = Below[n]
    BY <1>3, <2>2
  <2>12. /\ stack'[n].proc = stack[n].proc /\ stack'[n].at = stack[n].at
         /\ stack'[n].i = stack[n].i /\ stack'[n].kids = Append(stack[n].kids, node)
         /\ stack'[n].op = stack[n].op
    BY <2>6, <2>8, <2>11
  <2>13. n \in Nat /\ Len(stack) = n + 1 /\ status' = status
    BY <1>2, <2>1
  <2> HIDE DEF n
  <2> QED
    BY <2>2, <2>7, <2>9, <2>10, <2>11, <2>12, <2>13
<1> QED
  BY <1>4, <1>5

(* What is known of the innermost call.                                     *)
LEMMA TopKept ==
  ASSUME ParserInv, StackInv, EofInv, stack # <<>>
  PROVE  /\ KidsKept(Top) /\ status = "run" /\ Len(read) \in Nat
         /\ EofIn(GivenKinds) => Ending(Top) /\ cache = 0 /\ sources = <<>> /\ Look = "null"
<1>1. Len(stack) \in 1 .. Len(stack) /\ Len(read) \in Nat
  <2>1. stack \in Seq(Range(stack))
    BY DEF StackInv, StackFits
  <2>2. Len(stack) \in Nat \ {0}
    BY <2>1, EmptySeq
  <2> QED
    BY <2>2, GivenFacts
<1>2. KidsKept(Top)
  BY <1>1 DEF EofInv, EofCalls, Kept, Top
<1> QED
  BY <1>1, <1>2 DEF EofInv, EofCalls, EofTokens, StackInv, Look

(* The innermost call goes on.                                              *)
LEMMA BecomeEof ==
  ASSUME ParserInv, StackInv, EofInv, stack # <<>>,
         NEW f, Sound(f), Become(f), EofIn(GivenKinds') => Ending(f)
  PROVE  EofCalls'
<1>1. PICK n \in Nat \ {0} :
        /\ Len(stack) = n /\ Top = stack[n]
        /\ Len(stack') = n /\ stack'[n] = f /\ Top' = f /\ status' = status
        /\ \A i \in 1 .. n - 1 : stack'[i] = stack[i]
  BY TopKept, BecomeStack
<1>2. Entered(stack) /\ Kept(stack) /\ status = "run"
  BY TopKept DEF EofInv, EofCalls
<1>3. \A i \in 1 .. n : stack'[i].proc \in ExprProc <=> stack[i].proc \in ExprProc
  <2> TAKE i \in 1 .. n
  <2>1. i = n \/ i \in 1 .. n - 1
    OBVIOUS
  <2> QED
    BY <1>1, <2>1 DEF Sound
<1>4. Entered(stack')
  <2>1. stack'[1].proc \notin ExprProc
    BY <1>1, <1>2, <1>3 DEF Entered
  <2>2. ASSUME NEW j \in 2 .. n, stack'[j].proc \in ExprProc, stack'[j - 1].proc \notin ExprProc
        PROVE  CallsExpr(stack'[j - 1])
    <3>1. j \in 1 .. n /\ j - 1 \in 1 .. n - 1 /\ j - 1 \in 1 .. n
      OBVIOUS
    <3>2. stack[j].proc \in ExprProc /\ stack[j - 1].proc \notin ExprProc
      BY <1>3, <2>2, <3>1
    <3>3. CallsExpr(stack[j - 1])
      BY <1>1, <1>2, <3>2 DEF Entered
    <3> QED
      BY <1>1, <3>1, <3>3
  <2> QED
    BY <1>1, <2>1, <2>2 DEF Entered
<1>5. Kept(stack')
  <2>1. ASSUME NEW j \in 1 .. n PROVE KidsKept(stack'[j])
    <3>1. CASE j = n
      BY <1>1, <3>1 DEF Sound
    <3>2. CASE j \in 1 .. n - 1
      BY <1>1, <1>2, <3>2 DEF Kept
    <3> QED
      BY <3>1, <3>2
  <2> QED
    BY <1>1, <2>1 DEF Kept
<1> QED
  BY <1>1, <1>2, <1>4, <1>5 DEF EofCalls

(* The innermost call goes on and calls.                                    *)
LEMMA CallEof ==
  ASSUME ParserInv, StackInv, EofInv, stack # <<>>,
         NEW f, NEW proc \in Startable, Sound(f), Call(proc, f),
         proc \in ExprProc /\ f.proc \notin ExprProc => CallsExpr(f),
         EofIn(GivenKinds') => Ending(Start(proc))
  PROVE  EofCalls'
<1> DEFINE c == Start(proc)
<1>1. PICK n \in Nat \ {0} :
        /\ Len(stack) = n /\ Top = stack[n]
        /\ Len(stack') = n + 1 /\ stack'[n] = f /\ stack'[n + 1] = c
        /\ Top' = c /\ status' = status
        /\ \A i \in 1 .. n - 1 : stack'[i] = stack[i]
  BY TopKept, CallStack
<1>2. Entered(stack) /\ Kept(stack) /\ status = "run"
  BY TopKept DEF EofInv, EofCalls
<1>3. c.proc = proc /\ KidsKept(c)
  <2>1. c.proc = proc /\ c.kids = <<>>
    BY DEF Start, Frame
  <2> QED
    BY <2>1, EmptySeq DEF KidsKept
<1> HIDE DEF c
<1>4. \A i \in 1 .. n : stack'[i].proc \in ExprProc <=> stack[i].proc \in ExprProc
  <2> TAKE i \in 1 .. n
  <2>1. i = n \/ i \in 1 .. n - 1
    OBVIOUS
  <2> QED
    BY <1>1, <2>1 DEF Sound
<1>5. Entered(stack')
  <2>1. stack'[1].proc \notin ExprProc
    BY <1>1, <1>2, <1>4 DEF Entered
  <2>2. ASSUME NEW j \in 2 .. n + 1, stack'[j].proc \in ExprProc, stack'[j - 1].proc \notin ExprProc
        PROVE  CallsExpr(stack'[j - 1])
    <3>1. CASE j = n + 1
      BY <1>1, <1>3, <2>2, <3>1
    <3>2. CASE j # n + 1
      <4>1. j \in 1 .. n /\ j - 1 \in 1 .. n - 1 /\ j - 1 \in 1 .. n /\ j \in 2 .. n
        BY <3>2
      <4>2. stack[j].proc \in ExprProc /\ stack[j - 1].proc \notin ExprProc
        BY <1>4, <2>2, <4>1
      <4>3. CallsExpr(stack[j - 1])
        BY <1>1, <1>2, <4>1, <4>2 DEF Entered
      <4> QED
        BY <1>1, <4>1, <4>3
    <3> QED
      BY <3>1, <3>2
  <2> QED
    BY <1>1, <2>1, <2>2 DEF Entered
<1>6. Kept(stack')
  <2>1. ASSUME NEW j \in 1 .. n + 1 PROVE KidsKept(stack'[j])
    <3>1. CASE j = n
      BY <1>1, <3>1 DEF Sound
    <3>2. CASE j \in 1 .. n - 1
      BY <1>1, <1>2, <3>2 DEF Kept
    <3>3. CASE j = n + 1
      BY <1>1, <1>3, <3>3
    <3> QED
      BY <3>1, <3>2, <3>3
  <2> QED
    BY <1>1, <2>1 DEF Kept
<1> QED
  BY <1>1, <1>2, <1>5, <1>6 DEF EofCalls, c

(* The innermost call returns: after the end of the file, it is one of an   *)
(* expression, and the call that gets its node still needs a token.         *)
LEMMA ReturnEof ==
  ASSUME ParserInv, StackInv, EofInv, stack # <<>>,
         NEW node, Return(node), EofIn(GivenKinds') => Top.proc \in ExprProc /\ ~ IsNull(node)
  PROVE  EofCalls'
<1>1. PICK n \in Nat :
        /\ Len(stack) = n + 1 /\ Top = stack[n + 1]
        /\ n = 0 => stack' = <<>> /\ status' = "done"
        /\ n > 0 =>
             /\ Len(stack') = n /\ status' = status /\ Top' = stack'[n]
             /\ stack'[n].proc = stack[n].proc /\ stack'[n].at = stack[n].at
             /\ stack'[n].i = stack[n].i /\ stack'[n].kids = Append(stack[n].kids, node)
             /\ \A i \in 1 .. n - 1 : stack'[i] = stack[i]
  BY TopKept, ReturnStack
<1>2. Entered(stack) /\ Kept(stack) /\ status = "run"
  BY TopKept DEF EofInv, EofCalls
<1>3. CASE n = 0
  <2>1. Top.proc \notin ExprProc
    BY <1>1, <1>2, <1>3 DEF Entered
  <2>2. Entered(stack') /\ Kept(stack')
    <3>1. stack' = <<>> /\ Len(stack') = 0
      BY <1>1, <1>3
    <3> QED
      BY <3>1 DEF Entered, Kept
  <2> QED
    BY <2>1, <2>2 DEF EofCalls
<1>4. CASE n > 0
  <2> DEFINE c == stack[n]
             d == stack'[n]
  <2>1. d.proc = c.proc /\ d.at = c.at /\ d.i = c.i /\ d.kids = Append(c.kids, node)
    BY <1>1, <1>4
  <2>2. n \in 1 .. n + 1 /\ n + 1 \in 2 .. n + 1
    BY <1>4
  <2>3. KidsKept(c) /\ (Top.proc \in ExprProc /\ c.proc \notin ExprProc => CallsExpr(c))
    BY <1>1, <1>2, <2>2 DEF Kept, Entered
  <2> HIDE DEF c, d
  <2>4. CallsExpr(c) => CallsExpr(d)
    BY <2>1 DEF CallsExpr
  <2>5. ASSUME c.proc # "block" PROVE KidsKept(d)
    <3>1. c.kids \in Seq(Range(c.kids) \cup {node}) /\ node \in Range(c.kids) \cup {node}
      BY <2>3, <2>5, SeqMonotonic DEF KidsKept
    <3>2. /\ d.kids \in Seq(Range(c.kids) \cup {node}) /\ Len(d.kids) = Len(c.kids) + 1
          /\ d.kids[Len(d.kids)] = node /\ Len(c.kids) \in Nat
      BY <2>1, <3>1, AppendProperties, LenProperties
    <3> QED
      BY <3>2, SeqOfRange DEF KidsKept
  <2>6. ASSUME c.proc = "block" PROVE KidsKept(d)
    BY <2>1, <2>6 DEF KidsKept
  <2>7. KidsKept(d)
    BY <2>5, <2>6
  <2>8. EofIn(GivenKinds') => Ending(d)
    <3> SUFFICES ASSUME EofIn(GivenKinds') PROVE Ending(d)
      OBVIOUS
    <3>1. Top.proc \in ExprProc /\ ~ IsNull(node)
      OBVIOUS
    <3>2. c.proc # "block"
      BY <2>3, <3>1, StatementNames DEF CallsExpr
    <3>3. HasKid(d)
      <4>1. c.kids \in Seq(Range(c.kids) \cup {node}) /\ node \in Range(c.kids) \cup {node}
        BY <2>3, <3>2, SeqMonotonic DEF KidsKept
      <4>2. /\ d.kids \in Seq(Range(c.kids) \cup {node}) /\ Len(d.kids) = Len(c.kids) + 1
            /\ d.kids[Len(d.kids)] = node /\ Len(c.kids) \in Nat
        BY <2>1, <4>1, AppendProperties, LenProperties
      <4>3. d.kids # <<>>
        BY <4>2, EmptySeq
      <4> QED
        BY <3>1, <4>2, <4>3 DEF HasKid
    <3>4. d.proc \notin ExprProc => CallsExpr(d)
      BY <2>1, <2>3, <2>4, <3>1
    <3> QED
      BY <3>3, <3>4 DEF Ending, Owes
  <2>9. Entered(stack')
    <3>1. stack'[1].proc \notin ExprProc
      <4>1. stack[1].proc \notin ExprProc
        BY <1>1, <1>2 DEF Entered
      <4>2. CASE n = 1
        BY <2>1, <4>1, <4>2 DEF c, d
      <4>3. CASE n # 1
        <5>1. 1 \in 1 .. n - 1
          BY <1>4, <4>3
        <5> QED
          BY <1>1, <1>4, <4>1, <5>1
      <4> QED
        BY <4>2, <4>3
    <3>2. ASSUME NEW j \in 2 .. n, stack'[j].proc \in ExprProc, stack'[j - 1].proc \notin ExprProc
          PROVE  CallsExpr(stack'[j - 1])
      <4>1. j - 1 \in 1 .. n - 1 /\ j \in 2 .. n + 1 /\ (j = n \/ j \in 1 .. n - 1)
        OBVIOUS
      <4>2. stack'[j - 1] = stack[j - 1]
        BY <1>1, <1>4, <4>1
      <4>3. stack[j].proc \in ExprProc
        BY <1>1, <1>4, <2>1, <3>2, <4>1 DEF c, d
      <4>4. CallsExpr(stack[j - 1])
        BY <1>1, <1>2, <3>2, <4>1, <4>2, <4>3 DEF Entered
      <4> QED
        BY <4>2, <4>4
    <3> QED
      BY <1>1, <1>4, <3>1, <3>2 DEF Entered
  <2>10. Kept(stack')
    <3>1. ASSUME NEW j \in 1 .. n PROVE KidsKept(stack'[j])
      <4>1. CASE j = n
        BY <2>7, <4>1 DEF d
      <4>2. CASE j \in 1 .. n - 1
        <5>1. j \in 1 .. n + 1
          BY <4>2
        <5> QED
          BY <1>1, <1>2, <1>4, <4>2, <5>1 DEF Kept
      <4> QED
        BY <4>1, <4>2
    <3> QED
      BY <1>1, <1>4, <3>1 DEF Kept
  <2>11. status' = "run" /\ Top' = d
    BY <1>1, <1>2, <1>4 DEF d
  <2> QED
    BY <2>8, <2>9, <2>10, <2>11 DEF EofCalls
<1> QED
  BY <1>3, <1>4

(* The process exits.                                                       *)
LEMMA StopEof ==
  ASSUME NEW how \in {"fatal", "crash"}, Stop(how)
  PROVE  EofCalls'
<1>1. stack' = <<>> /\ Len(stack') = 0 /\ status' = how
  BY DEF Stop
<1>2. Entered(stack') /\ Kept(stack')
  BY <1>1 DEF Entered, Kept
<1> QED
  BY <1>1, <1>2 DEF EofCalls

(* Each of them keeps the invariant of the calls.                           *)
LEMMA MoveEof ==
  ASSUME ParserInv, StackInv, EofInv, stack # <<>>, EofMove
  PROVE  EofCalls'
  BY BecomeEof, CallEof, ReturnEof, StopEof, Zenon DEF EofMove
-----------------------------------------------------------------------------
(* What each function does to the calls                                     *)

(* The five things a step does to the calls.                                *)
LEMMA EofMoves ==
  /\ \A f : Sound(f) /\ Become(f) /\ (EofIn(GivenKinds') => Ending(f)) => EofMove
  /\ \A f, proc :
       /\ Sound(f) /\ proc \in Startable /\ Call(proc, f)
       /\ proc \in ExprProc /\ f.proc \notin ExprProc => CallsExpr(f)
       /\ EofIn(GivenKinds') => Ending(Start(proc))
       => EofMove
  /\ \A node : Return(node) /\ (EofIn(GivenKinds') => Top.proc \in ExprProc /\ ~ IsNull(node)) => EofMove
  /\ Stop("fatal") \/ Stop("crash") => EofMove
  BY DEF EofMove

(* The frames the innermost call goes on as keep its nodes and its layer.   *)
LEMMA SoundFrames ==
  ASSUME NEW m, Fits(Top, m), KidsKept(Top)
  PROVE  /\ \A point : Sound(At(point)) /\ \A x : Sound([At(point) EXCEPT !.op = x])
         /\ Sound(NextItem) /\ Sound([NextItem EXCEPT !.at = "script"])
         /\ NextItem.kids = Top.kids
<1>1. ASSUME NEW f, f.proc = Top.proc, f.kids = Top.kids
      PROVE  Sound(f)
  BY <1>1 DEF Sound, KidsKept
<1>2. ASSUME NEW point
      PROVE  Sound(At(point)) /\ \A x : Sound([At(point) EXCEPT !.op = x])
  <2>1. IsFrame(At(point)) /\ At(point).proc = Top.proc /\ At(point).kids = Top.kids
    BY FieldChanged DEF At, Fits, IsFrame
  <2>2. ASSUME NEW x
        PROVE  /\ [At(point) EXCEPT !.op = x].proc = Top.proc
               /\ [At(point) EXCEPT !.op = x].kids = Top.kids
    BY <2>1, FieldChanged
  <2> QED
    BY <1>1, <2>1, <2>2
<1>3. IsFrame(NextItem) /\ NextItem.proc = Top.proc /\ NextItem.kids = Top.kids
  BY FieldChanged DEF NextItem, Fits, IsFrame
<1>4. /\ [NextItem EXCEPT !.at = "script"].proc = Top.proc
      /\ [NextItem EXCEPT !.at = "script"].kids = Top.kids
  BY <1>3, FieldChanged
<1> QED
  BY <1>1, <1>2, <1>3, <1>4

(* A frame without nodes keeps them.                                        *)
LEMMA FreshSound ==
  ASSUME NEW f, f.proc \in ExprProc <=> Top.proc \in ExprProc, f.kids = <<>> \/ f.proc = "block"
  PROVE  Sound(f)
  BY EmptySeq DEF Sound, KidsKept

(* The lookahead that is taken is not the end of the file.                  *)
LEMMA LookNoEof ==
  ASSUME ParserInv, EofInv, Take(cache), Look # "null"
  PROVE  ~ EofIn(GivenKinds')
<1>1. cache # 0
  BY DEF Look
<1>2. EofIn(GivenKinds') => cache = 0
  BY TakeEof DEF EofInv
<1> QED
  BY <1>1, <1>2

(* A token that is asked for by name is not the end of the file.            *)
LEMMA NamedNoEof ==
  ASSUME ParserInv, EofInv, NEW t, Take(t), GotKind(t) \notin {"null", EOF}
  PROVE  ~ EofIn(GivenKinds')
<1>1. EofIn(GivenKinds') => t = 0 \/ read'[t].kind = EOF
  BY TakeEof DEF EofInv
<1> QED
  BY <1>1 DEF GotKind

(* A function that does not call the lexer hands out nothing.               *)
LEMMA SameEof == UNCHANGED streamVars => GivenKinds' = GivenKinds
  BY SameQuiet DEF Quiet

(* After the end of the file no statement looks ahead.                      *)
LEMMA StatementNoEof ==
  ASSUME ParserInv, StackInv, EofInv, stack # <<>>, Top.proc \notin ExprProc,
         Top.at # "script"
  PROVE  ~ EofIn(GivenKinds)
  BY TopKept DEF Ending, Owes, CallsExpr

(* parse_stmt becomes a block, a statement, or an expression statement.     *)
LEMMA LookStmtEof ==
  ASSUME ParserInv, StackInv, EofInv, stack # <<>>, NEW m, Fits(Top, m), LookStmt
  PROVE  EofMove
<1>1. Top.proc = "stmt" /\ Top.at = "look" /\ Top.proc \notin ExprProc
  BY StatementNames DEF LookStmt, Looked, Looks
<1>2. ~ EofIn(GivenKinds')
  <2>1. CASE Look # "null" /\ Take(cache)
    BY <2>1, LookNoEof
  <2>2. CASE UNCHANGED streamVars
    BY <1>1, <2>2, SameEof, StatementNoEof
  <2>3. \A k \in {"{"} \cup DOMAIN Statement : k # "null"
    BY StatementDomain
  <2>4. UNCHANGED streamVars \/ (Look \in {"{"} \cup DOMAIN Statement /\ Take(cache))
    BY Zenon DEF LookStmt, Eat
  <2> QED
    BY <2>1, <2>2, <2>3, <2>4
<1>3. ASSUME NEW p \in {"block", "exprstmt"} \cup DOMAIN Statement, NEW at
      PROVE  Sound(Frame(p, at))
  <2>1. Frame(p, at).proc = p /\ Frame(p, at).kids = <<>>
    BY DEF Frame
  <2>2. p \notin ExprProc
    BY StatementNames
  <2> QED
    BY <1>1, <2>1, <2>2, FreshSound
<1>4. \/ \E p \in {"block", "exprstmt"} \cup DOMAIN Statement : \E at : Become(Frame(p, at))
      \/ \E node : Return(node)
  BY DEF LookStmt
<1> QED
  BY <1>2, <1>3, <1>4, EofMoves

(* The loop of a block ends, fails or tries a declaration.                  *)
LEMMA LookBlockEof ==
  ASSUME ParserInv, StackInv, EofInv, stack # <<>>, NEW m, Fits(Top, m), LookBlock
  PROVE  EofMove
<1>1. Top.proc = "block" /\ Top.at = "look" /\ Top.proc \notin ExprProc /\ "decl" \notin ExprProc
  BY StatementNames DEF LookBlock, Looked, Looks
<1>2. ~ EofIn(GivenKinds')
  <2>1. CASE Look # "null" /\ Take(cache)
    BY <2>1, LookNoEof
  <2>2. CASE UNCHANGED streamVars
    BY <1>1, <2>2, SameEof, StatementNoEof
  <2>3. UNCHANGED streamVars \/ (Look = "}" /\ Take(cache))
    BY Zenon DEF LookBlock, Eat
  <2> QED
    BY <2>1, <2>2, <2>3
<1>3. Sound(At("decl")) /\ "decl" \in Startable
  BY TopKept, SoundFrames DEF Startable
<1>4. (\E node : Return(node)) \/ Stop("fatal") \/ Call("decl", At("decl"))
  BY Zenon DEF LookBlock
<1> QED
  BY <1>1, <1>2, <1>3, <1>4, EofMoves

(* A block links what it got, or tries a statement.                         *)
LEMMA BlockEof ==
  ASSUME ParserInv, StackInv, EofInv, stack # <<>>, NEW m, Fits(Top, m), Block
  PROVE  EofMove
<1>1. /\ Top.proc = "block" /\ Top.at \in {"decl", "stmt"} /\ Top.proc \notin ExprProc
      /\ UNCHANGED streamVars /\ "stmt" \notin ExprProc /\ "stmt" \in Startable
  BY StatementNames DEF Block, Startable
<1>2. ~ EofIn(GivenKinds')
  BY <1>1, SameEof, StatementNoEof
<1>3. ASSUME NEW point, NEW kids
      PROVE  Sound([At(point) EXCEPT !.kids = kids])
  <2>1. IsFrame(At(point)) /\ At(point).proc = "block"
    BY <1>1, Places DEF Placed
  <2>2. [At(point) EXCEPT !.kids = kids].proc = "block"
    BY <2>1, FieldChanged
  <2> QED
    BY <1>1, <2>2, FreshSound
<1>4. \/ \E kids : Become([At("look") EXCEPT !.kids = kids])
      \/ \E kids : Call("stmt", [At("stmt") EXCEPT !.kids = kids])
      \/ Stop("fatal")
  BY Zenon DEF Block, InvalidItem
<1> QED
  BY <1>1, <1>2, <1>3, <1>4, EofMoves

(* A declaration has its type specifier.                                    *)
LEMMA LookDeclEof ==
  ASSUME ParserInv, StackInv, EofInv, stack # <<>>, NEW m, Fits(Top, m), LookDecl
  PROVE  EofMove
<1>1. Top.proc = "decl" /\ Top.at = "look" /\ Top.proc \notin ExprProc
  BY StatementNames DEF LookDecl, Looked, Looks
<1>2. ~ EofIn(GivenKinds')
  <2>1. CASE Look # "null" /\ Take(cache)
    BY <2>1, LookNoEof
  <2>2. CASE UNCHANGED streamVars
    BY <1>1, <2>2, SameEof, StatementNoEof
  <2>3. UNCHANGED streamVars \/ (Look \in TypeSpecs /\ Take(cache))
    BY DEF LookDecl, Eat
  <2>4. \A k \in TypeSpecs : k # "null"
    BY DEF TypeSpecs
  <2> QED
    BY <2>1, <2>2, <2>3, <2>4
<1>3. Sound([Frame("decl", "script") EXCEPT !.op = cache])
  <2> DEFINE f == [Frame("decl", "script") EXCEPT !.op = cache]
  <2>1. IsFrame(Frame("decl", "script"))
    BY Places
  <2>2. Frame("decl", "script").kids = <<>> /\ Frame("decl", "script").proc = "decl"
    BY DEF Frame
  <2>3. f.kids = <<>> /\ f.proc = "decl"
    BY <2>1, <2>2, FieldChanged
  <2> QED
    BY <1>1, <2>3, FreshSound
<1>4. Become([Frame("decl", "script") EXCEPT !.op = cache]) \/ \E node : Return(node)
  BY DEF LookDecl
<1> QED
  BY <1>2, <1>3, <1>4, EofMoves

(* An if goes on after its last item.                                       *)
LEMMA LookElseEof ==
  ASSUME ParserInv, StackInv, EofInv, stack # <<>>, NEW m, Fits(Top, m), LookElse
  PROVE  EofMove
<1>1. Top.proc = "if" /\ Top.at = "look" /\ "if" \in DOMAIN Statement
  BY StatementDomain DEF LookElse, Looked, Looks
<1>2. Top.proc \notin ExprProc /\ "stmt" \notin ExprProc /\ "stmt" \in Startable
  BY <1>1, StatementNames DEF Startable
<1>3. ~ EofIn(GivenKinds')
  <2>1. CASE Look # "null" /\ Take(cache)
    BY <2>1, LookNoEof
  <2>2. CASE UNCHANGED streamVars
    BY <1>1, <1>2, <2>2, SameEof, StatementNoEof
  <2> QED
    BY <2>1, <2>2 DEF LookElse, Eat
<1>4. Sound([NextItem EXCEPT !.at = "script"])
  BY TopKept, SoundFrames
<1>5. \/ Call("stmt", [NextItem EXCEPT !.at = "script"])
      \/ Stop("crash")
      \/ Become([NextItem EXCEPT !.at = "script"])
  BY DEF LookElse
<1> QED
  BY <1>2, <1>3, <1>4, <1>5, EofMoves

(* A required token is there or the parser stops.                           *)
LEMMA ExpectEof ==
  ASSUME ParserInv, StackInv, EofInv, stack # <<>>, NEW m, Fits(Top, m), Expect
  PROVE  EofMove
<1> DEFINE k == IF Item = ";?" THEN ";" ELSE Item
<1>1. Item \in {"(", ")", ":", ";", ";?"}
  BY Zenon DEF Expect
<1>2. PICK t : Eat(t) /\ Expected(k, t)
  BY Zenon DEF Expect
<1>3. k \notin {"null", EOF}
  BY <1>1, ParserAssumption
<1> HIDE DEF k
<1>4. CASE GotKind(t) = k
  <2>1. ~ EofIn(GivenKinds')
    BY <1>2, <1>3, <1>4, NamedNoEof DEF Eat
  <2>2. Become(NextItem) /\ Sound(NextItem)
    BY <1>2, <1>4, TopKept, SoundFrames DEF Expected
  <2> QED
    BY <2>1, <2>2, EofMoves
<1>5. CASE GotKind(t) # k
  BY <1>2, <1>5, EofMoves DEF Expected
<1> QED
  BY <1>4, <1>5

(* The while of a do is there or the parser stops.                          *)
LEMMA GetKeywordEof ==
  ASSUME ParserInv, StackInv, EofInv, stack # <<>>, NEW m, Fits(Top, m), GetKeyword
  PROVE  EofMove
<1>1. PICK t : /\ Take(t)
               /\ \/ Stop("crash") \/ Stop("fatal")
                  \/ GotKind(t) = "while" /\ Become(NextItem)
  BY Zenon DEF GetKeyword, Get
<1>2. CASE GotKind(t) = "while" /\ Become(NextItem)
  <2>1. ~ EofIn(GivenKinds')
    BY <1>1, <1>2, ParserAssumption, NamedNoEof
  <2>2. Sound(NextItem)
    BY TopKept, SoundFrames
  <2> QED
    BY <1>2, <2>1, <2>2, EofMoves
<1> QED
  BY <1>1, <1>2, EofMoves
-----------------------------------------------------------------------------
(* The statements                                                           *)

IsExpr(x) == x \in {"expr", "orexpr"}
Ends(x) == x \in {")", ":", ";", ";?"}

(* What comes after an expression is a token.                               *)
Follows(s) ==
  Len(s) \in Nat /\ \A i \in 1 .. Len(s) : IsExpr(s[i]) => i < Len(s) /\ Ends(s[i + 1])

(* The sequences of which that is so.                                       *)
LEMMA FollowsIn ==
  LET Pair(x, y) == IsExpr(x) => Ends(y)
  IN  /\ \A a : ~ IsExpr(a) => Follows(<<a>>)
      /\ \A a, b : Pair(a, b) /\ ~ IsExpr(b) => Follows(<<a, b>>)
      /\ \A a, b, c : Pair(a, b) /\ Pair(b, c) /\ ~ IsExpr(c) => Follows(<<a, b, c>>)
      /\ \A a, b, c, d : Pair(a, b) /\ Pair(b, c) /\ Pair(c, d) /\ ~ IsExpr(d) =>
           Follows(<<a, b, c, d>>)
      /\ \A a, b, c, d, e, f :
           /\ Pair(a, b) /\ Pair(b, c) /\ Pair(c, d) /\ Pair(d, e) /\ Pair(e, f) /\ ~ IsExpr(f)
           => Follows(<<a, b, c, d, e, f>>)
      /\ \A a, b, c, d, e, f, g, h, i :
           /\ Pair(a, b) /\ Pair(b, c) /\ Pair(c, d) /\ Pair(d, e) /\ Pair(e, f) /\ Pair(f, g)
           /\ Pair(g, h) /\ Pair(h, i) /\ ~ IsExpr(i)
           => Follows(<<a, b, c, d, e, f, g, h, i>>)
  BY DEF Follows

(* Only the condition of an if is looked at before its parenthesis.         *)
LEMMA ScriptFollows ==
  /\ \A p \in DOMAIN Script : p # "if" => Follows(Script[p])
  /\ \A i \in 1 .. Len(Script["if"]) : IsExpr(Script["if"][i]) => i = 2
  /\ Script["if"][3] = "need" /\ Script["if"][4] = ")" /\ "if" \in DOMAIN Script
  /\ Len(Script["if"]) = 7
<1>1. /\ Script["exprstmt"] = <<"expr", ";?">> /\ Script["decl"] = <<";">>
      /\ \A p \in DOMAIN Statement : Script[p] = Statement[p]
  BY StatementDomain DEF Script
<1>2. /\ IsExpr("expr") /\ IsExpr("orexpr") /\ Ends(")") /\ Ends(":") /\ Ends(";") /\ Ends(";?")
      /\ \A x \in {"(", ")", ":", ";", ";?", "stmt", "decl", "need", "else?", "while!", "label"} :
           ~ IsExpr(x)
  BY DEF IsExpr, Ends
<1>3. /\ ~ IsExpr("(") /\ ~ IsExpr(")") /\ ~ IsExpr(":") /\ ~ IsExpr(";") /\ ~ IsExpr(";?")
      /\ ~ IsExpr("stmt") /\ ~ IsExpr("decl") /\ ~ IsExpr("need") /\ ~ IsExpr("else?")
      /\ ~ IsExpr("while!") /\ ~ IsExpr("label")
  BY <1>2
<1>4. Follows(Script["exprstmt"]) /\ Follows(Script["decl"])
  <2>1. Follows(<<"expr", ";?">>) /\ Follows(<<";">>)
    BY <1>2, <1>3, FollowsIn, Zenon
  <2> QED
    BY <1>1, <2>1, Zenon
<1>5. Follows(Statement["case"])
  BY <1>2, <1>3, FollowsIn, Zenon DEF Statement
<1>6. Follows(Statement["default"]) /\ Follows(Statement["return"])
  BY <1>2, <1>3, FollowsIn, Zenon DEF Statement
<1>7. Follows(Statement["break"]) /\ Follows(Statement["continue"]) /\ Follows(Statement["goto"])
  BY <1>3, FollowsIn, Zenon DEF Statement
<1>8. Follows(Statement["switch"]) /\ Follows(Statement["while"])
  BY <1>2, <1>3, FollowsIn, Zenon DEF Statement
<1>9. Follows(Statement["do"])
  BY <1>2, <1>3, FollowsIn, Zenon DEF Statement
<1>10. Follows(Statement["for"])
  BY <1>2, <1>3, FollowsIn, Zenon DEF Statement, ForParts
<1>11. \A p \in DOMAIN Script : p # "if" => Follows(Script[p])
  BY <1>1, <1>4, <1>5, <1>6, <1>7, <1>8, <1>9, <1>10, StatementDomain, ScriptDomain
<1>12. \A a, b, c, d, e, f, g :
         ~ IsExpr(a) /\ ~ IsExpr(c) /\ ~ IsExpr(d) /\ ~ IsExpr(e) /\ ~ IsExpr(f) /\ ~ IsExpr(g) =>
           /\ \A i \in 1 .. Len(<<a, b, c, d, e, f, g>>) :
                IsExpr(<<a, b, c, d, e, f, g>>[i]) => i = 2
           /\ <<a, b, c, d, e, f, g>>[3] = c /\ <<a, b, c, d, e, f, g>>[4] = d
           /\ Len(<<a, b, c, d, e, f, g>>) = 7
  OBVIOUS
<1>13. "if" \in DOMAIN Statement /\ "if" \in DOMAIN Script
  BY StatementDomain, ScriptDomain
<1>14. Script["if"] = <<"(", "expr", "need", ")", "stmt", "need", "else?">>
  <2>1. Statement["if"] = <<"(", "expr", "need", ")", "stmt", "need", "else?">>
    BY Zenon DEF Statement
  <2> QED
    BY <1>1, <1>13, <2>1
<1> DEFINE s == <<"(", "expr", "need", ")", "stmt", "need", "else?">>
<1>15. /\ \A i \in 1 .. Len(s) : IsExpr(s[i]) => i = 2
       /\ s[3] = "need" /\ s[4] = ")" /\ Len(s) = 7
  BY <1>3, <1>12, Zenon
<1> QED
  BY <1>11, <1>13, <1>14, <1>15, Zenon

(* A statement that owes a token comes to one before it is over.            *)
LEMMA OwesEnds ==
  ASSUME NEW m, Fits(Top, m), InScript, Owes(Top)
  PROVE  Ends(Item) \/ (Item = "need" /\ Top.proc = "if" /\ Top.i = 3)
<1>1. Top.proc \in DOMAIN Script /\ Top.at = "script" /\ Top.i \in 1 .. Len(Script[Top.proc]) + 1
  BY DEF Fits, MayBeAt, InScript
<1>2. Len(Script[Top.proc]) \in Nat
  BY <1>1, ScriptItems
<1>3. CASE CallsExpr(Top)
  <2>1. Top.i - 1 \in 1 .. Len(Script[Top.proc]) /\ Top.i - 1 + 1 = Top.i /\ Top.i > 1
    BY <1>1, <1>2, <1>3 DEF CallsExpr
  <2>2. IsExpr(Script[Top.proc][Top.i - 1])
    BY <1>3 DEF CallsExpr, IsExpr
  <2>3. CASE Top.proc = "if"
    <3>1. Top.i - 1 = 2 /\ Top.i = 3
      BY <2>1, <2>2, <2>3, ScriptFollows
    <3>2. ~ Over /\ Item = "need"
      BY <2>3, <3>1, ScriptFollows DEF Over, Item
    <3> QED
      BY <2>3, <3>1, <3>2
  <2>4. CASE Top.proc # "if"
    <3>1. Top.i - 1 < Len(Script[Top.proc]) /\ Ends(Script[Top.proc][Top.i - 1 + 1])
      BY <1>1, <2>1, <2>2, <2>4, ScriptFollows DEF Follows
    <3>2. ~ Over
      BY <1>2, <2>1, <3>1 DEF Over
    <3> QED
      BY <2>1, <3>1, <3>2 DEF Item
  <2> QED
    BY <2>3, <2>4
<1>4. CASE Top.proc = "if" /\ Top.i = 4
  <2>1. ~ Over /\ Item = ")"
    BY <1>4, ScriptFollows DEF Over, Item
  <2> QED
    BY <2>1 DEF Ends
<1> QED
  BY <1>3, <1>4 DEF Owes

(* A statement does what its next item says.                                *)
LEMMA PerformEof ==
  ASSUME ParserInv, StackInv, EofInv, stack # <<>>, NEW m, Fits(Top, m), Perform
  PROVE  EofMove
<1>1. InScript /\ GivenKinds' = GivenKinds
  BY SameEof, Zenon DEF Perform
<1>2. /\ IsFrame(NextItem) /\ Placed(NextItem, Top.proc, Top.at, Top.i + 1)
      /\ Sound(NextItem) /\ Sound(At("look")) /\ NextItem.kids = Top.kids
  BY Places, TopKept, SoundFrames
<1>3. /\ Top.proc \in DOMAIN Script /\ Top.at = "script" /\ Top.proc \notin ExprProc
      /\ Item # "over" => Top.i \in 1 .. Len(Script[Top.proc]) /\ Item = Script[Top.proc][Top.i]
  BY <1>1, <1>2, ItemWaits
<1>4. EofIn(GivenKinds) => Owes(Top) /\ (Ends(Item) \/ (Item = "need" /\ Top.proc = "if" /\ Top.i = 3))
  BY <1>1, <1>3, TopKept, OwesEnds DEF Ending
<1>5. ASSUME NEW f, Placed(f, Top.proc, Top.at, Top.i + 1), Item \in {"expr", "orexpr"}
      PROVE  CallsExpr(f)
  <2>1. Top.i \in 1 .. Len(Script[Top.proc]) /\ Item = Script[Top.proc][Top.i]
    BY <1>3, <1>5
  <2>2. f.proc = Top.proc /\ f.at = "script" /\ f.i = Top.i + 1
    BY <1>3, <1>5 DEF Placed
  <2>3. f.i > 1 /\ f.i - 1 = Top.i
    BY <2>1, <2>2
  <2> QED
    BY <1>3, <1>5, <2>1, <2>2, <2>3 DEF CallsExpr
<1>6. "expr" \in Startable /\ "stmt" \in Startable /\ "decl" \in Startable
  BY CalleeDomain DEF Startable
<1>7. "stmt" \notin ExprProc /\ "decl" \notin ExprProc
  BY StatementNames
<1>8. CASE Item \in {"expr", "stmt", "decl"} /\ Call(Item, NextItem)
  <2>1. ~ EofIn(GivenKinds')
    BY <1>1, <1>4, <1>8 DEF Ends
  <2>2. CASE Item = "expr"
    BY <1>2, <1>5, <1>6, <1>8, <2>1, <2>2, EofMoves
  <2>3. CASE Item = "stmt"
    BY <1>2, <1>6, <1>7, <1>8, <2>1, <2>3, EofMoves
  <2>4. CASE Item = "decl"
    BY <1>2, <1>6, <1>7, <1>8, <2>1, <2>4, EofMoves
  <2> QED
    BY <1>8, <2>2, <2>3, <2>4
<1>9. CASE Item = "need" /\ Become(NextItem)
  <2>1. EofIn(GivenKinds') => Ending(NextItem)
    <3> SUFFICES ASSUME EofIn(GivenKinds') PROVE Ending(NextItem)
      OBVIOUS
    <3>1. HasKid(Top) /\ Top.proc = "if" /\ Top.i = 3
      BY <1>1, <1>4, <1>9 DEF Owes, Ends
    <3>2. HasKid(NextItem)
      BY <1>2, <3>1 DEF HasKid
    <3>3. NextItem.proc = "if" /\ NextItem.at = "script" /\ NextItem.i = 4
      BY <1>2, <1>3, <3>1 DEF Placed
    <3>4. NextItem.proc \notin ExprProc
      BY <1>3, <3>1, <3>3
    <3> QED
      BY <3>2, <3>3, <3>4 DEF Ending, Owes
  <2> QED
    BY <1>2, <1>9, <2>1, EofMoves
<1>10. CASE Item = "orexpr" /\ Become(NextItem)
  <2>1. ~ EofIn(GivenKinds')
    BY <1>1, <1>4, <1>10 DEF Ends
  <2> QED
    BY <1>2, <1>10, <2>1, EofMoves
<1>11. CASE Item = ";?" /\ IsNull(LastKid) /\ Become(NextItem)
  <2>1. ~ EofIn(GivenKinds')
    BY <1>1, <1>4, <1>11 DEF Owes, HasKid, LastKid
  <2> QED
    BY <1>2, <1>11, <2>1, EofMoves
<1>12. CASE Item = "orexpr" /\ Call("expr", [NextItem EXCEPT !.kids = <<>>])
  <2> DEFINE f == [NextItem EXCEPT !.kids = <<>>]
  <2>1. Placed(f, NextItem.proc, NextItem.at, NextItem.i)
    BY <1>2, PlacedStill
  <2>2. Placed(f, Top.proc, Top.at, Top.i + 1)
    BY <1>2, <2>1 DEF Placed
  <2>3. f.kids = <<>>
    BY <1>2, FieldChanged
  <2>4. ~ EofIn(GivenKinds')
    BY <1>1, <1>4, <1>12 DEF Ends
  <2>5. CallsExpr(f)
    BY <1>5, <1>12, <2>2
  <2>6. f.proc = Top.proc
    BY <2>2 DEF Placed
  <2>7. Call("expr", f)
    BY <1>12
  <2> HIDE DEF f
  <2>8. Sound(f)
    BY <2>3, <2>6, FreshSound
  <2> QED
    BY <1>6, <2>4, <2>5, <2>7, <2>8, EofMoves
<1>13. CASE Item = "else?" /\ Become([Top EXCEPT !.at = "look"])
  <2>1. ~ EofIn(GivenKinds')
    BY <1>1, <1>4, <1>13 DEF Ends
  <2>2. Become(At("look"))
    BY <1>13 DEF At
  <2> QED
    BY <1>2, <2>1, <2>2, EofMoves
<1>14. CASE Item = "over" /\ \E node : Return(node)
  <2>1. ~ EofIn(GivenKinds')
    BY <1>1, <1>4, <1>14 DEF Ends
  <2> QED
    BY <1>14, <2>1, EofMoves
<1>15. \/ Item \in {"expr", "stmt", "decl"} /\ Call(Item, NextItem)
       \/ Item = "need" /\ Become(NextItem)
       \/ Item = "orexpr" /\ Become(NextItem)
       \/ Item = ";?" /\ IsNull(LastKid) /\ Become(NextItem)
       \/ Stop("fatal")
       \/ Item = "orexpr" /\ Call("expr", [NextItem EXCEPT !.kids = <<>>])
       \/ Item = "else?" /\ Become([Top EXCEPT !.at = "look"])
       \/ Item = "over" /\ \E node : Return(node)
  BY Zenon DEF Perform
<1> QED
  BY <1>8, <1>9, <1>10, <1>11, <1>12, <1>13, <1>14, <1>15, EofMoves
-----------------------------------------------------------------------------
(* Expressions                                                              *)

(* A function of an expression that begins looks at nothing it has not.     *)
LEMMA StartEnds ==
  ASSUME NEW proc \in ExprProc
  PROVE  Ending(Start(proc)) /\ Start(proc).proc = proc /\ Start(proc).kids = <<>>
<1>1. /\ Start(proc).proc = proc /\ Start(proc).kids = <<>>
      /\ Start(proc).at = IF proc \in Calling THEN "call" ELSE "look"
  BY DEF Start, Frame, Calling
<1> QED
  BY <1>1 DEF Ending

(* A call of an expression may call another one.                            *)
LEMMA ExprCallEof ==
  ASSUME Top.proc \in ExprProc, NEW f, Sound(f), NEW proc \in ExprProc, Call(proc, f)
  PROVE  EofMove
<1>1. proc \in Startable /\ f.proc \in ExprProc
  BY ExprNames DEF Sound
<1> QED
  BY <1>1, StartEnds, EofMoves

(* It may return a node, and what it was given after a lookahead.           *)
LEMMA ExprReturnEof ==
  ASSUME ParserInv, StackInv, EofInv, stack # <<>>, Top.proc \in ExprProc
  PROVE  /\ \A node : ~ IsNull(node) /\ Return(node) => EofMove
         /\ (Top.at = "look" /\ Top.proc \in Calling) \/ Top.at = "pass" =>
              (UNCHANGED streamVars /\ Return(LastKid) => EofMove)
<1>1. \A node : ~ IsNull(node) /\ Return(node) => EofMove
  BY EofMoves
<1>2. ASSUME (Top.at = "look" /\ Top.proc \in Calling) \/ Top.at = "pass",
             UNCHANGED streamVars, Return(LastKid)
      PROVE  EofMove
  <2>1. EofIn(GivenKinds') => Ending(Top)
    BY <1>2, SameEof, TopKept
  <2>2. EofIn(GivenKinds') => ~ IsNull(LastKid)
    BY <1>2, <2>1 DEF Ending, HasKid, LastKid
  <2> QED
    BY <1>2, <2>2, EofMoves
<1> QED
  BY <1>1, <1>2

(* The nodes that are built are not NULL.                                   *)
LEMMA NodesThere ==
  /\ \A kind, op, kids : kind # "NULL" => ~ IsNull(Node(kind, op, kids))
  /\ ~ IsNull(Uninit)
  BY DEF IsNull, Node, Uninit

(* A level calls the next one.                                              *)
LEMMA CallFirstEof ==
  ASSUME ParserInv, StackInv, EofInv, stack # <<>>, NEW m, Fits(Top, m), CallFirst
  PROVE  EofMove
<1>1. Top.proc \in Calling /\ Top.proc \in ExprProc /\ Call(Callee[Top.proc], At("look"))
  BY DEF CallFirst, Fits, MayBeAt, ExprProc
<1>2. PICK proc \in ExprProc : proc = Callee[Top.proc]
  BY <1>1, ExprNames
<1> QED
  BY <1>1, <1>2, TopKept, SoundFrames, ExprCallEof

(* A level takes an operator and calls its operand.                         *)
LEMMA LookLevelEof ==
  ASSUME ParserInv, StackInv, EofInv, stack # <<>>, NEW m, Fits(Top, m), LookLevel
  PROVE  EofMove
<1>1. /\ Top.at = "look" /\ Top.proc \in Levels /\ Top.proc \in ExprProc
      /\ Operand[Top.proc] \in ExprProc
  BY ExprNames DEF LookLevel, Looked, Looks
<1>2. Top.proc \in Calling
  BY <1>1, LevelDomain, CalleeDomain
<1>3. \/ Call(Operand[Top.proc], [At("build") EXCEPT !.op = cache])
      \/ Return(LastKid) /\ UNCHANGED streamVars
  BY DEF LookLevel
<1>4. Sound([At("build") EXCEPT !.op = cache])
  BY TopKept, SoundFrames
<1> QED
  BY <1>1, <1>2, <1>3, <1>4, ExprCallEof, ExprReturnEof

(* A level goes on with its node; the others return it.                     *)
LEMMA BuildEof ==
  ASSUME ParserInv, StackInv, EofInv, stack # <<>>, NEW m, Fits(Top, m), Build
  PROVE  EofMove
<1>1. Top.proc \in Levels \cup {"assign", "cond", "unary"} /\ Top.proc \in ExprProc
  BY ExprNames DEF Build, Fits, MayBeAt
<1>2. CASE Top.proc \in Levels
  <2> DEFINE node == Node("BINARY", Top.op, Top.kids)
             f == [Frame(Top.proc, "look") EXCEPT !.kids = <<node>>]
  <2>1. Top.proc \notin {"assign", "cond", "unary"}
    BY <1>2, LevelDomain, Zenon
  <2>2. Become(f)
    BY <1>2, <2>1, Zenon DEF Build
  <2>3. IsFrame(Frame(Top.proc, "look")) /\ Frame(Top.proc, "look").proc = Top.proc
    BY Places DEF Placed
  <2>4. f.proc = Top.proc /\ f.kids = <<node>>
    BY <2>3, FieldChanged
  <2>5. ~ IsNull(node)
    BY NodesThere
  <2> HIDE DEF node, f
  <2>6. /\ <<node>> \in Seq({node}) /\ Len(<<node>>) = 1 /\ <<node>>[1] = node
        /\ <<node>> # <<>>
    OBVIOUS
  <2>7. Sound(f)
    BY <2>4, <2>6, SeqOfRange DEF Sound, KidsKept
  <2>8. HasKid(f)
    BY <2>4, <2>5, <2>6 DEF HasKid
  <2>9. Ending(f)
    BY <1>1, <2>4, <2>8 DEF Ending
  <2> QED
    BY <2>2, <2>7, <2>9, EofMoves
<1>3. CASE Top.proc \in {"assign", "cond", "unary"}
  <2>1. Top.proc \notin Levels
    BY <1>3, LevelDomain, Zenon
  <2>2. \/ Return(Node("ASSIGN", Top.op, Top.kids))
        \/ Return(Node("TERNARY", 0, Top.kids))
        \/ Return(Node("UNARY", Top.op, Top.kids))
    BY <1>3, <2>1, Zenon DEF Build
  <2> QED
    BY <1>1, <2>2, NodesThere, ExprReturnEof
<1> QED
  BY <1>1, <1>2, <1>3

(* An assignment eats its operator.                                         *)
LEMMA LookAssignEof ==
  ASSUME ParserInv, StackInv, EofInv, stack # <<>>, NEW m, Fits(Top, m), LookAssign
  PROVE  EofMove
<1>1. Top.at = "look" /\ Top.proc = "assign" /\ Top.proc \in ExprProc /\ Top.proc \in Calling
  BY ExprNames, CalleeDomain DEF LookAssign, Looked, Looks
<1>2. CASE Look \in AssignOps /\ Eat(cache) /\ Become(At("op"))
  <2>1. ~ EofIn(GivenKinds')
    BY <1>2, LookNoEof DEF Eat, AssignOps
  <2> QED
    BY <1>2, <2>1, TopKept, SoundFrames, EofMoves
<1>3. CASE Return(LastKid) /\ UNCHANGED streamVars
  BY <1>1, <1>3, ExprReturnEof
<1> QED
  BY <1>2, <1>3, Zenon DEF LookAssign

(* The token after the operator is taken for it, even the end of the file.  *)
LEMMA AssignOpEof ==
  ASSUME ParserInv, StackInv, EofInv, stack # <<>>, NEW m, Fits(Top, m), AssignOp
  PROVE  EofMove
<1>1. PICK t : Call("assign", [At("build") EXCEPT !.op = t])
  BY DEF AssignOp
<1>2. Top.proc = "assign" /\ Top.proc \in ExprProc /\ "assign" \in ExprProc
  BY ExprNames DEF AssignOp, Fits, MayBeAt
<1>3. Sound([At("build") EXCEPT !.op = t])
  BY TopKept, SoundFrames
<1> QED
  BY <1>1, <1>2, <1>3, ExprCallEof

(* A conditional waits for its colon.                                       *)
LEMMA LookCondEof ==
  ASSUME ParserInv, StackInv, EofInv, stack # <<>>, NEW m, Fits(Top, m), LookCond
  PROVE  EofMove
<1>1. /\ Top.at = "look" /\ Top.proc = "cond" /\ Top.proc \in ExprProc /\ Top.proc \in Calling
      /\ "expr" \in ExprProc
  BY ExprNames, CalleeDomain DEF LookCond, Looked, Looks
<1>2. Call("expr", At("close")) \/ (Return(LastKid) /\ UNCHANGED streamVars)
  BY Zenon DEF LookCond
<1> QED
  BY <1>1, <1>2, TopKept, SoundFrames, ExprCallEof, ExprReturnEof

(* A unary operator is kept; else a postfix expression follows.             *)
LEMMA LookUnaryEof ==
  ASSUME ParserInv, StackInv, EofInv, stack # <<>>, NEW m, Fits(Top, m), LookUnary
  PROVE  EofMove
<1>1. Top.proc \in ExprProc /\ "unary" \in ExprProc /\ "postfix" \in ExprProc
  BY ExprNames DEF LookUnary
<1>2. \/ Return(Uninit)
      \/ Call("unary", [At("build") EXCEPT !.op = cache])
      \/ Call("postfix", At("pass"))
  BY Zenon DEF LookUnary
<1>3. CASE Call("postfix", At("pass"))
  <2>1. Sound(At("pass"))
    BY TopKept, SoundFrames
  <2> QED
    BY <1>1, <1>3, <2>1, ExprCallEof
<1>4. CASE Call("unary", [At("build") EXCEPT !.op = cache])
  <2>1. Sound([At("build") EXCEPT !.op = cache])
    BY TopKept, SoundFrames
  <2> QED
    BY <1>1, <1>4, <2>1, ExprCallEof
<1>5. CASE Return(Uninit)
  BY <1>1, <1>5, NodesThere, ExprReturnEof
<1> QED
  BY <1>2, <1>3, <1>4, <1>5

(* What it was called for is returned.                                      *)
LEMMA PassPostfixEof ==
  ASSUME ParserInv, StackInv, EofInv, stack # <<>>, NEW m, Fits(Top, m), PassPostfix
  PROVE  EofMove
<1>1. Top.at = "pass" /\ Return(LastKid) /\ UNCHANGED streamVars
  BY DEF PassPostfix
<1>2. Top.proc \in ExprProc
  BY <1>1, ExprNames DEF Fits, MayBeAt
<1> QED
  BY <1>1, <1>2, ExprReturnEof

(* A subscript waits to be closed; a member and an increment are taken.     *)
LEMMA LookPostfixEof ==
  ASSUME ParserInv, StackInv, EofInv, stack # <<>>, NEW m, Fits(Top, m), LookPostfix
  PROVE  EofMove
<1>1. /\ Top.at = "look" /\ Top.proc = "postfix" /\ Top.proc \in ExprProc /\ Top.proc \in Calling
      /\ "expr" \in ExprProc /\ "primary" \in ExprProc
  BY ExprNames, CalleeDomain DEF LookPostfix, Looked, Looks
<1>2. \/ Call("expr", [At("close") EXCEPT !.op = cache])
      \/ Call("primary", [At("member") EXCEPT !.op = cache])
      \/ Return(Node("POSTFIX", cache, Top.kids))
      \/ Return(LastKid) /\ UNCHANGED streamVars
  BY Zenon DEF LookPostfix
<1>3. Sound([At("close") EXCEPT !.op = cache]) /\ Sound([At("member") EXCEPT !.op = cache])
  BY TopKept, SoundFrames
<1>4. CASE Call("expr", [At("close") EXCEPT !.op = cache])
  BY <1>1, <1>3, <1>4, ExprCallEof
<1>5. CASE Call("primary", [At("member") EXCEPT !.op = cache])
  BY <1>1, <1>3, <1>5, ExprCallEof
<1>6. CASE Return(Node("POSTFIX", cache, Top.kids))
  BY <1>1, <1>6, NodesThere, ExprReturnEof
<1>7. CASE Return(LastKid) /\ UNCHANGED streamVars
  BY <1>1, <1>7, ExprReturnEof
<1> QED
  BY <1>2, <1>4, <1>5, <1>6, <1>7

(* Without a token a primary expression is a node no path assigned.         *)
LEMMA LookPrimaryEof ==
  ASSUME ParserInv, StackInv, EofInv, stack # <<>>, NEW m, Fits(Top, m), LookPrimary
  PROVE  EofMove
<1>1. Top.proc = "primary" /\ Top.proc \in ExprProc /\ "expr" \in ExprProc
  BY ExprNames DEF LookPrimary
<1>2. \/ Stop("fatal")
      \/ Return(Node("CONST", cache, <<>>))
      \/ Call("expr", At("close"))
      \/ UNCHANGED streamVars /\ Return(IF Look = "null" THEN Uninit ELSE NULL)
  BY Zenon DEF LookPrimary
<1>3. CASE UNCHANGED streamVars /\ Return(IF Look = "null" THEN Uninit ELSE NULL)
  <2> DEFINE node == IF Look = "null" THEN Uninit ELSE NULL
  <2>1. EofIn(GivenKinds') => Look = "null"
    BY <1>3, SameEof, TopKept
  <2>2. EofIn(GivenKinds') => ~ IsNull(node)
    BY <2>1, NodesThere
  <2>3. Return(node)
    BY <1>3
  <2> HIDE DEF node
  <2> QED
    BY <1>1, <2>2, <2>3, EofMoves
<1>4. CASE Return(Node("CONST", cache, <<>>))
  BY <1>1, <1>4, NodesThere, ExprReturnEof
<1>5. CASE Call("expr", At("close"))
  BY <1>1, <1>5, TopKept, SoundFrames, ExprCallEof
<1> QED
  BY <1>2, <1>3, <1>4, <1>5, EofMoves

(* A closed bracket ends its call, or the middle of a conditional.          *)
LEMMA CloseEof ==
  ASSUME ParserInv, StackInv, EofInv, stack # <<>>, NEW m, Fits(Top, m), Close
  PROVE  EofMove
<1>1. PICK t : /\ Top.at = "close" /\ Take(t)
               /\ \/ GotKind(t) = Closing[Top.proc] /\ Closed
                  \/ Stop("crash") \/ Stop("fatal")
  BY Zenon DEF Close, Eat
<1>2. /\ Top.proc = "postfix" \/ Top.proc = "primary" \/ Top.proc = "cond"
      /\ Top.proc \in ExprProc /\ "cond" \in ExprProc
  BY <1>1, ExprNames DEF Fits, MayBeAt
<1>3. CASE GotKind(t) = Closing[Top.proc] /\ Closed
  <2>1. \/ Return(Node("POSTFIX", Top.op, Top.kids))
        \/ Return(Parenthesised(LastKid))
        \/ Call("cond", At("build"))
    BY <1>2, <1>3, Zenon DEF Closed
  <2>2. Closing["postfix"] = "]" /\ Closing["primary"] = ")" /\ Closing["cond"] = ":"
    BY DEF Closing
  <2>3. GotKind(t) \notin {"null", EOF}
    BY <1>2, <1>3, <2>2, ParserAssumption
  <2>4. ~ EofIn(GivenKinds')
    BY <1>1, <2>3, NamedNoEof
  <2> QED
    BY <1>2, <2>1, <2>4, TopKept, SoundFrames, ExprCallEof, EofMoves
<1> QED
  BY <1>1, <1>3, EofMoves

(* A member access returns or ends the parser.                              *)
LEMMA MemberEof ==
  ASSUME ParserInv, StackInv, EofInv, stack # <<>>, NEW m, Fits(Top, m), Member
  PROVE  EofMove
<1>1. Top.proc \in ExprProc
  BY ExprNames DEF Member, Fits, MayBeAt
<1>2. Return(Node("ACCESS", Top.op, Top.kids)) \/ Stop("fatal") \/ Stop("crash")
  BY Zenon DEF Member
<1> QED
  BY <1>1, <1>2, NodesThere, ExprReturnEof, EofMoves
-----------------------------------------------------------------------------
(* The parser                                                               *)

(* Every step of the parser but a lookahead is such a move.                 *)
LEMMA NextEof ==
  ASSUME ParserInv, StackInv, EofInv, Next
  PROVE  stack # <<>> /\ (LookAhead \/ EofMove)
<1>1. stack # <<>>
  BY Zenon DEF Next, LookAhead, LookStmt, LookBlock, Block, LookDecl, Expect, Perform, LookElse,
               GetKeyword, CallFirst, LookLevel, Build, LookAssign, AssignOp, LookCond, LookUnary,
               PassPostfix, LookPostfix, LookPrimary, Close, Member, Looked, Looks, InScript
<1>2. PICK m \in Nat : Fits(Top, m)
  <2>1. PICK m \in Nat : m = Len(read)
    BY GivenFacts
  <2> QED
    BY <1>1, <2>1, BelowFits DEF StackInv
<1>3. CASE LookStmt \/ LookBlock \/ Block \/ LookDecl \/ Expect \/ Perform \/ LookElse \/ GetKeyword
  BY <1>1, <1>2, <1>3, LookStmtEof, LookBlockEof, BlockEof, LookDeclEof, ExpectEof, PerformEof,
     LookElseEof, GetKeywordEof
<1>4. CASE CallFirst \/ LookLevel \/ Build \/ LookAssign \/ AssignOp \/ LookCond
  BY <1>1, <1>2, <1>4, CallFirstEof, LookLevelEof, BuildEof, LookAssignEof, AssignOpEof, LookCondEof
<1>5. CASE LookUnary \/ PassPostfix \/ LookPostfix \/ LookPrimary \/ Close \/ Member
  BY <1>1, <1>2, <1>5, LookUnaryEof, PassPostfixEof, LookPostfixEof, LookPrimaryEof, CloseEof, MemberEof
<1> QED
  BY <1>1, <1>3, <1>4, <1>5, Zenon DEF Next

(* The parser begins with one call, without a node.                         *)
LEMMA EofInit == Init => EofInv
<1> SUFFICES ASSUME Init PROVE EofInv
  OBVIOUS
<1> DEFINE c == Start("stmt")
<1>1. c.proc = "stmt" /\ c.kids = <<>> /\ "stmt" \notin ExprProc
  BY StatementNames DEF Start, Frame
<1>2. stack = <<c>>
  BY DEF Init
<1> HIDE DEF c
<1>3. Len(stack) = 1 /\ stack[1] = c
  BY <1>2
<1>4. Entered(stack)
  BY <1>1, <1>3 DEF Entered
<1>5. Kept(stack)
  <2>1. KidsKept(c)
    BY <1>1, EmptySeq DEF KidsKept
  <2>2. \A j \in 1 .. Len(stack) : stack[j] = c
    BY <1>3
  <2> QED
    BY <2>1, <2>2 DEF Kept
<1>6. ~ EofIn(GivenKinds)
  <2>1. Len(GivenKinds) = 0
    BY DEF Init, GivenKinds
  <2> QED
    BY <2>1 DEF EofIn
<1> QED
  BY <1>4, <1>5, <1>6, EofTokensInit DEF EofInv, EofCalls

(* Every step keeps the invariant.                                          *)
LEMMA EofStep == ParserInv /\ StackInv /\ EofInv /\ [Next]_vars => EofInv'
<1> SUFFICES ASSUME ParserInv, StackInv, EofInv, [Next]_vars PROVE EofInv'
  OBVIOUS
<1>1. EofTokens'
  <2>1. LexerCall
    BY ParserStep DEF ParserInv
  <2> QED
    BY <2>1, EofTokensStep DEF EofInv
<1> SUFFICES EofCalls'
  BY <1>1 DEF EofInv
<1>2. ASSUME UNCHANGED parser, GivenKinds' = GivenKinds
      PROVE  EofCalls'
  <2>1. stack' = stack /\ status' = status /\ Top' = Top
    BY <1>2 DEF parser, Top
  <2> QED
    BY <1>2, <2>1 DEF EofInv, EofCalls
<1>3. CASE UNCHANGED vars
  BY <1>2, <1>3, SameEof DEF vars, parser
<1>4. CASE LookAhead
  BY <1>2, <1>4, PeekQuiet DEF LookAhead, Quiet
<1>5. CASE stack # <<>> /\ EofMove
  BY <1>5, MoveEof
<1> QED
  BY <1>3, <1>4, <1>5, NextEof

(* After the end of the file was handed out, which only the operator of an  *)
(* assignment can be mistaken for, the calls in progress need one more      *)
(* token, and there is none.                                                *)
THEOREM NothingPleasesTheEnd == Spec => []EofInv
  BY ParserInitInv, ParserNextInv, StackInitInv, StackNextInv, EofInit, EofStep, PTL DEF Spec

(* No statement is accepted of which the end of the file was taken for a    *)
(* token, whatever the input: parse_stmt returns without it.                *)
THEOREM AcceptsBeforeEof == Spec => []EndsBeforeEof
<1>1. ParserInv /\ EofInv => EndsBeforeEof
  <2> SUFFICES ASSUME ParserInv, EofInv, status = "done", NEW i \in DOMAIN given
               PROVE  KindOf(given[i]) # EOF
    BY DEF EndsBeforeEof
  <2>1. ~ EofIn(GivenKinds)
    BY DEF EofInv, EofCalls
  <2>2. i \in 1 .. Len(GivenKinds) /\ GivenKinds[i] = KindOf(given[i])
    <3>1. DOMAIN given = 1 .. Len(given) /\ Len(GivenKinds) = Len(given)
      BY GivenFacts, LenProperties
    <3> QED
      BY <3>1 DEF GivenKinds
  <2> QED
    BY <2>1, <2>2 DEF EofIn
<1> QED
  BY <1>1, ParserInitInv, ParserNextInv, NothingPleasesTheEnd, PTL DEF Spec
=============================================================================
