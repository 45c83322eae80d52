-------------------------- MODULE TokenStreamProofs -------------------------
(***************************************************************************)
(* For every number of sources and tokens: src/lexer.c hands out each      *)
(* token once, in the order of the source, and every token it made is      *)
(* owned by exactly one of its cache, its caller and nobody.               *)
(***************************************************************************)
EXTENDS TokenStream, SequenceTheorems, TLAPS

StreamInv == StreamTypeOK /\ InOrder /\ Accounted

Scanned == [kind : Kind \cup {EOF}, source : 1 .. registered]

(* A lexer that was just created satisfies the invariant. *)
LEMMA StreamInitInv == StreamInit => StreamInv
  BY DEF StreamInit, StreamInv, StreamTypeOK, InOrder, Accounted, Token

(* Scanning adds one token, of an open source, and closes at most that one. *)
LEMMA ScanResult ==
  ASSUME StreamTypeOK, sources # <<>>, Scan
  PROVE  /\ read' \in Seq(Scanned)
         /\ Len(read') = Len(read) + 1
         /\ sources' \in Seq(1 .. registered)
<1>1. Head(sources) \in 1 .. registered /\ Tail(sources) \in Seq(1 .. registered)
  BY DEF StreamTypeOK
<1>2. PICK k \in Kind \cup {EOF} : /\ read' = Append(read, [kind |-> k, source |-> Head(sources)])
                                   /\ Pop(k)
  BY DEF Scan
<1>3. [kind |-> k, source |-> Head(sources)] \in Scanned
  BY <1>1 DEF Scanned
<1>4. read \in Seq(Scanned)
  BY DEF StreamTypeOK, Scanned
<1>5. read' \in Seq(Scanned) /\ Len(read') = Len(read) + 1
  BY <1>2, <1>3, <1>4
<1>6. sources' \in Seq(1 .. registered)
  BY <1>1, <1>2 DEF Pop, StreamTypeOK
<1> QED
  BY <1>5, <1>6

(* lexer_get returns NULL and does nothing, or the next token in order: the *)
(* cached one or a new one.                                                 *)
LEMMA TakeResult ==
  ASSUME StreamInv, alive, NEW t, Take(t)
  PROVE  /\ UNCHANGED <<registered, alive>>
         /\ sources' \in Seq(1 .. registered)
         /\ read' \in Seq(Scanned)
         /\ \/ t = 0 /\ UNCHANGED <<cache, read, given>>
            \/ /\ t = Len(given) + 1 /\ given' = Append(given, t)
               /\ cache' = 0 /\ Len(read') = t /\ Len(read') >= Len(read)
<1>0. /\ read \in Seq(Scanned) /\ sources \in Seq(1 .. registered)
      /\ Len(read) \in Nat /\ Len(given) \in Nat /\ StreamTypeOK
      /\ Len(read) = Len(given) + (IF cache = 0 THEN 0 ELSE 1)
      /\ cache # 0 => cache = Len(read)
  BY DEF StreamInv, StreamTypeOK, Scanned, InOrder
<1>1. UNCHANGED <<registered, alive>>
  BY DEF Take
<1>2. CASE sources = <<>> /\ t = 0 /\ UNCHANGED <<sources, cache, read, given>>
  BY <1>0, <1>1, <1>2
<1>3. CASE /\ sources # <<>> /\ cache # 0 /\ TakeCached(t)
           /\ given' = Append(given, t) /\ UNCHANGED <<sources, read>>
  BY <1>0, <1>1, <1>3 DEF TakeCached
<1>4. CASE /\ sources # <<>> /\ cache = 0 /\ Scan /\ t = Len(read) + 1
           /\ given' = Append(given, t) /\ UNCHANGED cache
  <2>1. /\ read' \in Seq(Scanned) /\ Len(read') = Len(read) + 1
        /\ sources' \in Seq(1 .. registered)
    BY <1>0, <1>4, ScanResult
  <2> QED
    BY <1>0, <1>1, <1>4, <2>1
<1> QED
  BY <1>2, <1>3, <1>4 DEF Take

(* A token that was handed out is the caller's or freed at once: the        *)
(* invariant survives lexer_get, lexer_eat and lexer_advance.               *)
LEMMA HandOutInv ==
  ASSUME StreamInv, alive, NEW t, Take(t),
         \/ held' = held \cup Some(t) /\ UNCHANGED freed
         \/ freed' = freed \cup Some(t) /\ UNCHANGED held
  PROVE  StreamInv'
<1>1. /\ UNCHANGED <<registered, alive>> /\ sources' \in Seq(1 .. registered)
      /\ read' \in Seq(Scanned)
      /\ \/ t = 0 /\ UNCHANGED <<cache, read, given>>
         \/ /\ t = Len(given) + 1 /\ given' = Append(given, t)
            /\ cache' = 0 /\ Len(read') = t /\ Len(read') >= Len(read)
  BY TakeResult
<1>a. /\ registered \in Nat /\ given \in Seq(1 .. Len(read)) /\ Len(read) \in Nat
      /\ held \subseteq 1 .. Len(read) /\ freed \subseteq 1 .. Len(read)
      /\ cache \in 0 .. Len(read) /\ alive \in BOOLEAN
  BY DEF StreamInv, StreamTypeOK, Token
<1>b. /\ \A i \in 1 .. Len(given) : given[i] = i
      /\ Len(read) = Len(given) + (IF cache = 0 THEN 0 ELSE 1)
      /\ cache # 0 => cache = Len(read)
  BY DEF StreamInv, InOrder
<1>c. /\ held \cap freed = {} /\ cache \notin held \cup freed
      /\ held \cup freed = 1 .. Len(given)
  BY DEF StreamInv, Accounted
<1>2. /\ registered \in Nat /\ given \in Seq(1 .. Len(read)) /\ Len(read) \in Nat
      /\ held \subseteq 1 .. Len(read) /\ freed \subseteq 1 .. Len(read)
      /\ cache \in 0 .. Len(read) /\ alive \in BOOLEAN
      /\ \A i \in 1 .. Len(given) : given[i] = i
      /\ held \cap freed = {} /\ cache \notin held \cup freed
      /\ held \cup freed = 1 .. Len(given)
      /\ Len(read) = Len(given) + (IF cache = 0 THEN 0 ELSE 1)
      /\ cache # 0 => cache = Len(read)
  BY <1>a, <1>b, <1>c
<1>3. CASE t = 0 /\ UNCHANGED <<cache, read, given>>
  <2>1. UNCHANGED <<held, freed>>
    BY <1>3 DEF Some
  <2>2. StreamTypeOK'
    BY <1>1, <1>2, <1>3, <2>1 DEF StreamTypeOK, Token, Scanned
  <2> QED
    BY <1>1, <1>2, <1>3, <2>1, <2>2 DEF StreamInv, InOrder, Accounted
<1>4. CASE /\ t = Len(given) + 1 /\ given' = Append(given, t)
           /\ cache' = 0 /\ Len(read') = t /\ Len(read') >= Len(read)
  <2>1. /\ Len(given) \in Nat /\ Len(given') = t /\ t \in Nat \ {0} /\ Some(t) = {t}
        /\ given' \in Seq(1 .. t)
    <3>1. Len(given) \in Nat /\ t \in Nat \ {0} /\ Some(t) = {t} /\ Len(read) <= t
      BY <1>2, <1>4 DEF Some
    <3>2. given \in Seq(1 .. t)
      BY <1>2, <3>1
    <3> QED
      BY <1>4, <3>1, <3>2
  <2>2. \A i \in 1 .. Len(given') : given'[i] = i
    BY <1>2, <1>4, <2>1
  <2>3. /\ held' \cup freed' = 1 .. Len(given') /\ held' \cap freed' = {}
        /\ 0 \notin held' \cup freed'
    BY <1>2, <1>4, <2>1
  <2>4. StreamTypeOK'
    BY <1>1, <1>2, <1>4, <2>1, <2>3 DEF StreamTypeOK, Token, Scanned
  <2>5. InOrder'
    BY <1>1, <1>4, <2>1, <2>2 DEF InOrder
  <2>6. Accounted'
    BY <1>1, <1>4, <2>3 DEF Accounted
  <2> QED
    BY <2>4, <2>5, <2>6 DEF StreamInv
<1> QED
  BY <1>1, <1>3, <1>4

(* lexer_peek scans one token ahead and keeps it in the cache.              *)
LEMMA PeekInv == StreamInv /\ alive /\ Peek => StreamInv'
<1> SUFFICES ASSUME StreamInv, alive, Peek PROVE StreamInv'
  OBVIOUS
<1>1. /\ read' \in Seq(Scanned) /\ Len(read') = Len(read) + 1
      /\ sources' \in Seq(1 .. registered)
  BY ScanResult DEF Peek, Fill, StreamInv
<1>2. /\ cache = 0 /\ cache' = Len(read) + 1
      /\ UNCHANGED <<registered, given, alive, held, freed>>
  BY DEF Peek, Fill
<1>3. /\ registered \in Nat /\ given \in Seq(1 .. Len(read)) /\ Len(read) \in Nat
      /\ held \subseteq 1 .. Len(read) /\ freed \subseteq 1 .. Len(read)
      /\ Len(given) = Len(read) /\ alive \in BOOLEAN
  BY <1>2 DEF StreamInv, StreamTypeOK, InOrder, Token
<1>4. given' \in Seq(1 .. Len(read'))
  BY <1>1, <1>2, <1>3
<1>5. StreamTypeOK'
  BY <1>1, <1>2, <1>3, <1>4 DEF StreamTypeOK, Token, Scanned
<1>6. InOrder'
  BY <1>1, <1>2, <1>3 DEF InOrder, StreamInv
<1>7. Accounted'
  BY <1>1, <1>2, <1>3 DEF Accounted, StreamInv
<1> QED
  BY <1>5, <1>6, <1>7 DEF StreamInv

(* lexer_register touches no token.                                         *)
LEMMA RegisterInv == StreamInv /\ Register => StreamInv'
<1> SUFFICES ASSUME StreamInv, Register PROVE StreamInv'
  OBVIOUS
<1>1. /\ registered' = registered + 1 /\ sources' = <<registered'>> \o sources
      /\ UNCHANGED <<cache, read, given, alive, held, freed>>
  BY DEF Register
<1>2. /\ registered \in Nat /\ sources \in Seq(1 .. registered)
      /\ read \in Seq([kind : Kind \cup {EOF}, source : 1 .. registered])
  BY DEF StreamInv, StreamTypeOK
<1>3. 1 .. registered \subseteq 1 .. registered' /\ registered' \in 1 .. registered'
  BY <1>1, <1>2
<1>4. sources \in Seq(1 .. registered') /\ <<registered'>> \in Seq(1 .. registered')
  BY <1>2, <1>3
<1>5. sources' \in Seq(1 .. registered')
  BY <1>1, <1>4
<1>6. read' \in Seq([kind : Kind \cup {EOF}, source : 1 .. registered'])
  <2> DEFINE Old == [kind : Kind \cup {EOF}, source : 1 .. registered]
             New == [kind : Kind \cup {EOF}, source : 1 .. registered']
  <2>1. Old \subseteq New
    BY <1>3
  <2>2. read \in Seq(Old)
    BY <1>2
  <2> HIDE DEF Old, New
  <2>3. Seq(Old) \subseteq Seq(New)
    BY <2>1, SeqMonotonic
  <2>4. read' \in Seq(New)
    BY <1>1, <2>2, <2>3
  <2> QED
    BY <2>4 DEF New
<1>7. StreamTypeOK'
  BY <1>1, <1>2, <1>5, <1>6 DEF StreamInv, StreamTypeOK, Token
<1> QED
  BY <1>1, <1>7 DEF StreamInv, InOrder, Accounted

(* lexer_destroy frees the cached token, which nobody else has.             *)
LEMMA DestroyStreamInv == StreamInv /\ Destroy => StreamInv'
<1> SUFFICES ASSUME StreamInv, Destroy PROVE StreamInv'
  OBVIOUS
<1>0. /\ cache' = 0 /\ sources' = <<>> /\ alive' = FALSE
      /\ freed' = freed \cup Some(cache) /\ UNCHANGED <<registered, read, given, held>>
  BY DEF Destroy
<1>1. StreamTypeOK'
  <2>1. freed' \subseteq 1 .. Len(read)
    BY <1>0 DEF StreamInv, StreamTypeOK, Token, Some
  <2>2. /\ registered' \in Nat /\ given' \in Seq(1 .. Len(read)) /\ held' \subseteq 1 .. Len(read)
        /\ read' \in Seq([kind : Kind \cup {EOF}, source : 1 .. registered'])
    BY <1>0 DEF StreamInv, StreamTypeOK, Token
  <2>3. sources' \in Seq(1 .. registered') /\ cache' \in (1 .. Len(read)) \cup {0}
    BY <1>0
  <2>4. alive' \in BOOLEAN
    BY <1>0
  <2> QED
    BY <1>0, <2>1, <2>2, <2>3, <2>4 DEF StreamTypeOK, Token
<1>2. InOrder'
  BY DEF StreamInv, InOrder, Destroy
<1>3. Accounted'
  BY DEF StreamInv, StreamTypeOK, Accounted, Destroy, Some, Token
<1> QED
  BY <1>1, <1>2, <1>3 DEF StreamInv

(* A caller frees only what it holds.                                       *)
LEMMA FreeInv ==
  ASSUME StreamInv, NEW t \in held, Free(t)
  PROVE  StreamInv'
<1>1. StreamTypeOK'
  BY DEF StreamInv, StreamTypeOK, Free, Token, lexer
<1>2. InOrder'
  BY DEF StreamInv, InOrder, Free, lexer
<1>3. Accounted'
  BY DEF StreamInv, Accounted, Free, lexer
<1> QED
  BY <1>1, <1>2, <1>3 DEF StreamInv

(* Every call of the lexer, and every free of its caller, keeps the         *)
(* invariant.                                                               *)
LEMMA StreamNextInv == StreamInv /\ [StreamNext]_streamVars => StreamInv'
<1> SUFFICES ASSUME StreamInv, [StreamNext]_streamVars PROVE StreamInv'
  OBVIOUS
<1>1. CASE alive /\ Register
  BY <1>1, RegisterInv
<1>2. CASE alive /\ Peek
  BY <1>2, PeekInv
<1>3. CASE alive /\ \E t \in {cache, Len(read) + 1, 0} : Get(t) \/ Eat(t)
  <2>1. PICK t : Get(t) \/ Eat(t)
    BY <1>3
  <2>2. /\ Take(t)
        /\ \/ held' = held \cup Some(t) /\ UNCHANGED freed
           \/ freed' = freed \cup Some(t) /\ UNCHANGED held
    BY <2>1 DEF Get, Eat
  <2> QED
    BY <1>3, <2>2, HandOutInv
<1>4. CASE alive /\ Destroy
  BY <1>4, DestroyStreamInv
<1>5. CASE \E t \in held : Free(t)
  BY <1>5, FreeInv
<1>6. CASE UNCHANGED streamVars
  BY <1>6 DEF streamVars, lexer, StreamInv, StreamTypeOK, InOrder, Accounted, Token
<1> QED
  BY <1>1, <1>2, <1>3, <1>4, <1>5, <1>6 DEF StreamNext

(* The invariant holds in every state of every lexer.                       *)
THEOREM StreamInvariance == StreamSpec => []StreamInv
  BY StreamInitInv, StreamNextInv, PTL DEF StreamSpec

(* The variables of src/lexer.c keep their types.                           *)
THEOREM StreamTypes == StreamSpec => []StreamTypeOK
<1>1. StreamInv => StreamTypeOK
  BY DEF StreamInv
<1> QED
  BY <1>1, StreamInvariance, PTL

(* lexer_peek loses, repeats and reorders no token.                         *)
THEOREM TokensInOrder == StreamSpec => []InOrder
<1>1. StreamInv => InOrder
  BY DEF StreamInv
<1> QED
  BY <1>1, StreamInvariance, PTL

(* Every token has one owner until it is freed, once.                       *)
THEOREM TokensAccounted == StreamSpec => []Accounted
<1>1. StreamInv => Accounted
  BY DEF StreamInv
<1> QED
  BY <1>1, StreamInvariance, PTL
-----------------------------------------------------------------------------
(* Sources                                                                  *)

Open(s) == \E i \in 1 .. Len(sources) : sources[i] = s

(* The stack holds the sources in the order of their registration.          *)
Stacked == \A i, j \in 1 .. Len(sources) : i < j => sources[j] < sources[i]

SourceInv == StreamInv /\ Stacked /\ EndsOnce /\ OnlyEofOutlives

(* What EndsOnce says, source by source.                                    *)
Ended(s) == \E t \in EofsOf(s) : \A u \in Token : read[u].source = s => u <= t

(* A scan adds a token of the top source, which it closes if that is EOF,   *)
(* and leaves the others as they are.                                       *)
LEMMA ScanTop ==
  ASSUME SourceInv, sources # <<>>, Scan, NEW new, new = Len(read) + 1
  PROVE  /\ Open(sources[1]) /\ new \in Nat /\ Token' = Token \cup {new} /\ new \notin Token
         /\ \A t \in Token : t < new /\ read'[t] = read[t]
         /\ read'[new].source = sources[1]
         /\ KindOf(new)' = EOF => \A s : Open(s)' <=> Open(s) /\ s # sources[1]
         /\ KindOf(new)' # EOF => sources' = sources
         /\ Stacked'
<1>1. /\ sources \in Seq(1 .. registered) /\ registered \in Nat /\ Len(read) \in Nat
      /\ read \in Seq(Scanned)
  BY DEF SourceInv, StreamInv, StreamTypeOK, Scanned
<1>2. /\ Len(sources) \in Nat \ {0} /\ Head(sources) = sources[1]
      /\ \A i \in 1 .. Len(sources) : sources[i] \in 1 .. registered
      /\ Tail(sources) \in Seq(1 .. registered) /\ Len(Tail(sources)) = Len(sources) - 1
      /\ \A i \in 1 .. Len(sources) - 1 : Tail(sources)[i] = sources[i + 1]
  <2>1. Len(sources) \in Nat \ {0}
    BY <1>1, EmptySeq
  <2> QED
    BY <1>1, <2>1, HeadTailProperties, ElementOfSeq
<1>3. PICK k \in Kind \cup {EOF} : /\ read' = Append(read, [kind |-> k, source |-> Head(sources)])
                                   /\ Pop(k)
  BY DEF Scan
<1>4. /\ Len(read') = new /\ read'[new] = [kind |-> k, source |-> sources[1]]
      /\ \A t \in Token : read'[t] = read[t]
  <2> DEFINE tok == [kind |-> k, source |-> Head(sources)]
  <2>1. tok \in Scanned
    BY <1>2, <1>3 DEF Scanned
  <2>2. read' = Append(read, tok)
    BY <1>3
  <2>3. tok = [kind |-> k, source |-> sources[1]]
    BY <1>2
  <2> HIDE DEF tok
  <2>4. Len(read') = new /\ read'[new] = tok /\ \A t \in 1 .. Len(read) : read'[t] = read[t]
    BY <1>1, <2>1, <2>2, AppendProperties
  <2> QED
    BY <2>3, <2>4 DEF Token
<1>5. /\ new \in Nat /\ Token' = Token \cup {new} /\ new \notin Token /\ \A t \in Token : t < new
  BY <1>1, <1>4 DEF Token
<1>6. read'[new].source = sources[1] /\ KindOf(new)' = k
  BY <1>4 DEF KindOf
<1>7. Open(sources[1])
  BY <1>2 DEF Open
<1>8. CASE k = EOF
  <2>1. sources' = Tail(sources)
    BY <1>3, <1>8 DEF Pop
  <2>2. ASSUME NEW s PROVE Open(s)' <=> Open(s) /\ s # sources[1]
    <3>1. ASSUME NEW i \in 1 .. Len(sources) - 1, Tail(sources)[i] = s
          PROVE  Open(s) /\ s # sources[1]
      <4>1. i + 1 \in 1 .. Len(sources) /\ 1 \in 1 .. Len(sources) /\ 1 < i + 1 /\ sources[i + 1] = s
        BY <1>2, <3>1
      <4>2. s < sources[1] /\ s \in Nat /\ sources[1] \in Nat
        BY <1>1, <1>2, <4>1 DEF SourceInv, Stacked
      <4> QED
        BY <4>1, <4>2 DEF Open
    <3>2. ASSUME NEW i \in 1 .. Len(sources), sources[i] = s, s # sources[1]
          PROVE  \E j \in 1 .. Len(sources) - 1 : Tail(sources)[j] = s
      <4>1. i - 1 \in 1 .. Len(sources) - 1 /\ (i - 1) + 1 = i
        BY <1>2, <3>2
      <4>2. Tail(sources)[i - 1] = sources[(i - 1) + 1]
        BY <1>2, <4>1
      <4> QED
        BY <3>2, <4>1, <4>2
    <3>3. Open(s)' <=> \E i \in 1 .. Len(sources) - 1 : Tail(sources)[i] = s
      BY <1>2, <2>1 DEF Open
    <3> QED
      BY <3>1, <3>2, <3>3 DEF Open
  <2>3. Stacked'
    <3>1. ASSUME NEW i \in 1 .. Len(sources) - 1, NEW j \in 1 .. Len(sources) - 1, i < j
          PROVE  Tail(sources)[j] < Tail(sources)[i]
      <4>1. /\ i + 1 \in 1 .. Len(sources) /\ j + 1 \in 1 .. Len(sources) /\ i + 1 < j + 1
        BY <1>2, <3>1
      <4>2. sources[j + 1] < sources[i + 1]
        BY <4>1 DEF SourceInv, Stacked
      <4> QED
        BY <1>2, <4>2
    <3> QED
      BY <1>2, <2>1, <3>1 DEF Stacked
  <2> QED
    BY <1>4, <1>5, <1>6, <1>7, <1>8, <2>2, <2>3
<1>9. CASE k # EOF
  <2>1. sources' = sources
    BY <1>3, <1>9 DEF Pop
  <2>2. Stacked'
    BY <2>1 DEF SourceInv, Stacked
  <2> QED
    BY <1>4, <1>5, <1>6, <1>7, <1>9, <2>1, <2>2
<1> QED
  BY <1>8, <1>9

(* The end of a source is scanned when it is closed, and only then.         *)
LEMMA ScanEnds ==
  ASSUME SourceInv, alive, sources # <<>>, Scan, UNCHANGED registered
  PROVE  EndsOnce'
<1> PICK new : new = Len(read) + 1
  OBVIOUS
<1> PICK top : top = sources[1]
  OBVIOUS
<1>1. /\ Open(top) /\ new \in Nat /\ Token' = Token \cup {new} /\ new \notin Token
      /\ \A t \in Token : t < new /\ read'[t] = read[t]
      /\ read'[new].source = top
      /\ KindOf(new)' = EOF => \A s : Open(s)' <=> Open(s) /\ s # top
      /\ KindOf(new)' # EOF => sources' = sources
  BY ScanTop
<1>2. \A s \in 1 .. registered : IF Open(s) THEN EofsOf(s) = {} ELSE Ended(s)
  BY DEF SourceInv, EndsOnce, Open, Ended
<1>3. \A t \in Token : KindOf(t)' = KindOf(t) /\ read'[t].source = read[t].source
  BY <1>1 DEF KindOf
<1>4. ASSUME NEW s, s # top PROVE EofsOf(s)' = EofsOf(s) /\ (Ended(s) => Ended(s)')
  <2>1. EofsOf(s)' = EofsOf(s)
    BY <1>1, <1>3, <1>4 DEF EofsOf
  <2>2. ASSUME NEW t \in EofsOf(s), \A u \in Token : read[u].source = s => u <= t
        PROVE  \A u \in Token' : read'[u].source = s => u <= t
    BY <1>1, <1>3, <1>4, <2>2
  <2> QED
    BY <2>1, <2>2 DEF Ended
<1>5. ASSUME NEW s \in 1 .. registered
      PROVE  IF Open(s)' THEN EofsOf(s)' = {} ELSE Ended(s)'
  <2>1. CASE KindOf(new)' = EOF /\ s = top
    <3>1. ~ Open(s)'
      BY <1>1, <2>1
    <3>2. new \in EofsOf(s)'
      BY <1>1, <2>1 DEF EofsOf
    <3>3. \A u \in Token' : u <= new
      <4>1. ASSUME NEW u \in Token' PROVE u <= new
        <5>1. u \in Nat /\ (u = new \/ u < new)
          BY <1>1 DEF Token
        <5> QED
          BY <1>1, <5>1
      <4> QED
        BY <4>1
    <3> QED
      BY <3>1, <3>2, <3>3 DEF Ended
  <2>2. CASE KindOf(new)' = EOF /\ s # top
    BY <1>1, <1>2, <1>4, <2>2
  <2>3. CASE KindOf(new)' # EOF
    <3>1. Open(s)' <=> Open(s)
      BY <1>1, <2>3 DEF Open
    <3>2. CASE s = top
      <4>1. EofsOf(s) = {}
        BY <1>1, <1>2, <3>2
      <4>2. EofsOf(s)' = {}
        BY <1>1, <1>3, <2>3, <4>1 DEF EofsOf
      <4> QED
        BY <1>1, <3>1, <3>2, <4>2
    <3>3. CASE s # top
      BY <1>2, <1>4, <3>1, <3>3
    <3> QED
      BY <3>2, <3>3
  <2> QED
    BY <2>1, <2>2, <2>3
<1> QED
  BY <1>5 DEF EndsOnce, Open, Ended

(* A token that is scanned into the cache is EOF or its source is open.     *)
LEMMA FillOutlives ==
  ASSUME SourceInv, sources # <<>>, Scan, cache' = Len(read) + 1
  PROVE  OnlyEofOutlives'
<1> PICK new : new = Len(read) + 1
  OBVIOUS
<1>1. /\ Open(sources[1]) /\ read'[new].source = sources[1]
      /\ KindOf(new)' # EOF => sources' = sources
  BY ScanTop
<1>2. cache' = new
  OBVIOUS
<1>3. KindOf(cache)' = KindOf(new)'
  BY <1>2 DEF KindOf
<1>4. read'[cache'].source = sources[1]
  BY <1>1, <1>2
<1> QED
  BY <1>1, <1>3, <1>4 DEF OnlyEofOutlives, Open

(* A source that is registered is open and has no token.                    *)
LEMMA RegisterEnds ==
  ASSUME SourceInv, Register
  PROVE  Stacked' /\ EndsOnce' /\ OnlyEofOutlives'
<1> DEFINE new == registered + 1
<1>1. /\ registered' = new /\ sources' = <<new>> \o sources
      /\ UNCHANGED <<cache, read, given, alive, held, freed>>
  BY DEF Register
<1>2. /\ registered \in Nat /\ sources \in Seq(1 .. registered) /\ Len(sources) \in Nat
      /\ \A i \in 1 .. Len(sources) : sources[i] \in 1 .. registered
      /\ \A t \in Token : read[t].source \in 1 .. registered
  <2>1. registered \in Nat /\ sources \in Seq(1 .. registered) /\ read \in Seq(Scanned)
    BY DEF SourceInv, StreamInv, StreamTypeOK, Scanned
  <2>2. \A t \in Token : read[t] \in Scanned
    BY <2>1, ElementOfSeq DEF Token
  <2> QED
    BY <2>1, <2>2, ElementOfSeq DEF Scanned
<1>3. /\ Len(sources') = Len(sources) + 1 /\ sources'[1] = new
      /\ \A i \in 2 .. Len(sources) + 1 : sources'[i] = sources[i - 1]
  <2> DEFINE alone == <<new>>
  <2>1. /\ alone \in Seq(1 .. new) /\ Len(alone) = 1 /\ alone[1] = new
        /\ sources \in Seq(1 .. new) /\ sources' = alone \o sources
    <3>1. 1 .. registered \subseteq 1 .. new
      BY <1>2
    <3>2. sources \in Seq(1 .. new)
      BY <1>2, <3>1, SeqMonotonic
    <3> QED
      BY <1>1, <1>2, <3>2
  <2> HIDE DEF alone, new
  <2>2. /\ Len(sources') = Len(alone) + Len(sources)
        /\ \A i \in 1 .. Len(alone) + Len(sources) :
             sources'[i] = IF i <= Len(alone) THEN alone[i] ELSE sources[i - Len(alone)]
    BY <2>1, ConcatProperties
  <2> QED
    BY <1>2, <2>1, <2>2
<1> HIDE DEF new
<1>4. \A s : Open(s)' <=> s = new \/ Open(s)
  <2>1. ASSUME NEW i \in 1 .. Len(sources) PROVE i + 1 \in 1 .. Len(sources') /\ sources'[i + 1] = sources[i]
    <3>1. i + 1 \in 2 .. Len(sources) + 1 /\ (i + 1) - 1 = i
      BY <1>2
    <3>2. sources'[i + 1] = sources[(i + 1) - 1]
      BY <1>3, <3>1
    <3> QED
      BY <1>2, <1>3, <3>1, <3>2
  <2>2. ASSUME NEW i \in 1 .. Len(sources'), i # 1 PROVE i - 1 \in 1 .. Len(sources) /\ sources'[i] = sources[i - 1]
    BY <1>2, <1>3, <2>2
  <2>3. 1 \in 1 .. Len(sources')
    BY <1>2, <1>3
  <2>4. ASSUME NEW s, s = new \/ Open(s) PROVE Open(s)'
    BY <1>3, <2>1, <2>3, <2>4 DEF Open
  <2>5. ASSUME NEW s, Open(s)' PROVE s = new \/ Open(s)
    BY <1>3, <2>2, <2>5 DEF Open
  <2> QED
    BY <2>4, <2>5
<1>5. Stacked'
  <2> SUFFICES ASSUME NEW i \in 1 .. Len(sources) + 1, NEW j \in 1 .. Len(sources) + 1, i < j
               PROVE  sources'[j] < sources'[i]
    BY <1>3 DEF Stacked
  <2>1. j - 1 \in 1 .. Len(sources) /\ sources'[j] = sources[j - 1]
    BY <1>2, <1>3
  <2>2. CASE i = 1
    BY <1>2, <1>3, <2>1, <2>2 DEF new
  <2>3. CASE i # 1
    <3>1. i - 1 \in 1 .. Len(sources) /\ i - 1 < j - 1 /\ sources'[i] = sources[i - 1]
      BY <1>2, <1>3, <2>3
    <3> QED
      BY <2>1, <3>1 DEF SourceInv, Stacked
  <2> QED
    BY <2>2, <2>3
<1>6. \A s : EofsOf(s)' = EofsOf(s) /\ (Ended(s)' <=> Ended(s))
  BY <1>1 DEF EofsOf, Ended, Token, KindOf
<1>7. EndsOnce'
  <2> SUFFICES ASSUME alive, NEW s \in 1 .. new
               PROVE  IF Open(s)' THEN EofsOf(s)' = {} ELSE Ended(s)'
    BY <1>1 DEF EndsOnce, Open, Ended
  <2>1. CASE s = new
    <3>1. \A t \in Token : read[t].source # new
      BY <1>2 DEF new
    <3> QED
      BY <1>4, <1>6, <2>1, <3>1 DEF EofsOf
  <2>2. CASE s # new
    <3>1. s \in 1 .. registered
      BY <1>2, <2>2 DEF new
    <3>2. IF Open(s) THEN EofsOf(s) = {} ELSE Ended(s)
      BY <3>1 DEF SourceInv, EndsOnce, Open, Ended
    <3> QED
      BY <1>4, <1>6, <2>2, <3>2
  <2> QED
    BY <2>1, <2>2
<1>8. OnlyEofOutlives'
  <2>1. cache # 0 /\ KindOf(cache) # EOF => Open(read[cache].source)
    BY DEF SourceInv, OnlyEofOutlives, Open
  <2>2. cache' = cache /\ KindOf(cache)' = KindOf(cache) /\ read' = read
    BY <1>1 DEF KindOf
  <2>3. cache' # 0 /\ KindOf(cache)' # EOF => Open(read[cache].source)'
    BY <1>4, <2>1, <2>2
  <2> QED
    BY <2>2, <2>3 DEF OnlyEofOutlives, Open
<1> QED
  BY <1>5, <1>7, <1>8

(* Every call keeps the sources in order and ends each one once.            *)
LEMMA SourceStep == SourceInv /\ [StreamNext]_streamVars => Stacked' /\ EndsOnce' /\ OnlyEofOutlives'
<1> SUFFICES ASSUME SourceInv, [StreamNext]_streamVars
             PROVE  Stacked' /\ EndsOnce' /\ OnlyEofOutlives'
  OBVIOUS
<1>1. CASE alive /\ Register
  BY <1>1, RegisterEnds
<1>2. CASE alive /\ Peek
  <2>1. sources # <<>> /\ Scan /\ cache' = Len(read) + 1 /\ registered' = registered
    BY <1>2 DEF Peek, Fill
  <2>2. Stacked'
    BY <2>1, ScanTop
  <2> QED
    BY <1>2, <2>1, <2>2, ScanEnds, FillOutlives
<1>3. ASSUME NEW t, Take(t), alive PROVE Stacked' /\ EndsOnce' /\ OnlyEofOutlives'
  <2>1. CASE UNCHANGED <<sources, cache, read, registered, alive>>
    BY <2>1 DEF SourceInv, Stacked, EndsOnce, OnlyEofOutlives, EofsOf, Token, KindOf
  <2>2. CASE UNCHANGED <<sources, read, registered, alive>> /\ cache' = 0
    BY <2>2 DEF SourceInv, Stacked, EndsOnce, OnlyEofOutlives, EofsOf, Token, KindOf
  <2>3. CASE sources # <<>> /\ Scan /\ cache' = 0 /\ registered' = registered
    <3>1. Stacked'
      BY <2>3, ScanTop
    <3>2. OnlyEofOutlives'
      BY <2>3 DEF OnlyEofOutlives
    <3> QED
      BY <1>3, <2>3, <3>1, <3>2, ScanEnds
  <2> QED
    BY <1>3, <2>1, <2>2, <2>3 DEF Take, TakeCached
<1>4. CASE alive /\ \E t \in {cache, Len(read) + 1, 0} : Get(t) \/ Eat(t)
  BY <1>3, <1>4 DEF Get, Eat
<1>5. CASE alive /\ Destroy
  <2>1. sources' = <<>> /\ cache' = 0 /\ alive' = FALSE
    BY <1>5 DEF Destroy
  <2>2. Len(sources') = 0
    BY <2>1, EmptySeq
  <2> QED
    BY <2>1, <2>2 DEF Stacked, EndsOnce, OnlyEofOutlives
<1>6. CASE UNCHANGED lexer
  BY <1>6 DEF lexer, SourceInv, Stacked, EndsOnce, OnlyEofOutlives, EofsOf, Token, KindOf
<1>7. CASE \E t \in held : Free(t)
  BY <1>6, <1>7 DEF Free
<1>8. CASE UNCHANGED streamVars
  BY <1>6, <1>8 DEF streamVars
<1> QED
  BY <1>1, <1>2, <1>4, <1>5, <1>7, <1>8 DEF StreamNext

(* The sources are closed in the order of the stack, in every lexer.        *)
THEOREM SourceInvariance == StreamSpec => []SourceInv
<1>1. StreamInit => SourceInv
  <2> SUFFICES ASSUME StreamInit PROVE SourceInv
    OBVIOUS
  <2>1. Stacked /\ EndsOnce /\ OnlyEofOutlives
    <3>1. sources = <<>> /\ Len(<<>>) = 0 /\ registered = 0 /\ cache = 0
      BY EmptySeq DEF StreamInit
    <3> QED
      BY <3>1 DEF Stacked, EndsOnce, OnlyEofOutlives
  <2> QED
    BY <2>1, StreamInitInv DEF SourceInv
<1>2. SourceInv /\ [StreamNext]_streamVars => SourceInv'
  BY SourceStep, StreamNextInv DEF SourceInv
<1> QED
  BY <1>1, <1>2, PTL DEF StreamSpec

(* Each source ends once, and nothing of it is scanned later.               *)
THEOREM SourcesEndOnce == StreamSpec => []EndsOnce
<1>1. SourceInv => EndsOnce
  BY DEF SourceInv
<1> QED
  BY <1>1, SourceInvariance, PTL

(* Only an EOF stays in the cache after its source is gone.                 *)
THEOREM EofOutlives == StreamSpec => []OnlyEofOutlives
<1>1. SourceInv => OnlyEofOutlives
  BY DEF SourceInv
<1> QED
  BY <1>1, SourceInvariance, PTL
=============================================================================
