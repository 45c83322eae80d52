---------------------------- MODULE SymtabProofs ----------------------------
(***************************************************************************)
(* Symtab for every set of symbols and names and any number of scopes: its *)
(* types, the chain of scopes, what is freed, and that it implements       *)
(* ScopeStack.                                                             *)
(***************************************************************************)
EXTENDS Symtab, SequenceTheorems, WellFoundedInduction, TLAPS

Ran(s) == {s[i] : i \in DOMAIN s}

(* The scopes of the path are entered from the outside in.                  *)
Rising == \A i, j \in DOMAIN path : i < j => path[i] < path[j]

(* A lookup under way is at a scope of the path, or past the last, and has  *)
(* not found the name in those further in.                                  *)
At(i) == IF i = 0 THEN 0 ELSE path[i]
Finding ==
  find.name # Null =>
    /\ status = "open"
    /\ \E i \in 0 .. Len(path) :
         /\ find.at = At(i)
         /\ \A j \in i + 1 .. Len(path) : ~Has(lookup[path[j]], find.name)

(* Nothing is freed before the destruction; only the tag scope and the      *)
(* global one are in no other.                                              *)
NotYet == status # "destroyed" => doomed = <<>> /\ freed = <<>>
Roots == \A s \in Scope : upref[s] = 0 <=> s \in {tag, global}

(* A list of inner scopes names each once, and none that is being freed.    *)
Gone == Ran(doomed) \cup Ran(freed)
Linked ==
  \A p \in Scope :
    /\ \A i, j \in DOMAIN subscope[p] : subscope[p][i] = subscope[p][j] => i = j
    /\ \A i \in DOMAIN subscope[p] : upref[subscope[p][i]] = p /\ subscope[p][i] \notin Gone

(* Every other scope is in the list of the one around it.                   *)
Reached ==
  \A s \in Scope :
     \/ s \in Gone
     \/ upref[s] # 0 /\ s \in Ran(subscope[upref[s]])
     \/ upref[s] = 0 /\ status # "destroyed"

(* The calls of scope_destroy go from a scope to one in it.                 *)
Descending ==
  /\ \A i, j \in DOMAIN doomed : doomed[i] = doomed[j] => i = j
  /\ Ran(doomed) \cap Ran(freed) = {}
  /\ doomed # <<>> => doomed[1] = global
  /\ \A i \in 2 .. Len(doomed) : doomed[i] = tag \/ upref[doomed[i]] = doomed[i - 1]

FreedInward ==
  /\ \A i, j \in DOMAIN freed : freed[i] = freed[j] => i = j
  /\ \A i \in DOMAIN freed : \A s \in Scope :
       upref[s] = freed[i] => \E j \in 1 .. i - 1 : freed[j] = s

Forest == NotYet /\ Roots /\ Linked /\ Reached /\ Descending /\ FreedInward

Inv == TypeOK /\ ChainIsPath /\ Rising /\ Finding /\ Forest
-----------------------------------------------------------------------------
(* A sequence without its last element.                                     *)
LEMMA WithoutLast ==
  ASSUME NEW S, NEW s \in Seq(S), s # <<>>
  PROVE  /\ Len(s) \in Nat \ {0} /\ s[Len(s)] \in S
         /\ SubSeq(s, 1, Len(s) - 1) \in Seq(S)
         /\ Len(SubSeq(s, 1, Len(s) - 1)) = Len(s) - 1
         /\ \A i \in 1 .. Len(s) - 1 : SubSeq(s, 1, Len(s) - 1)[i] = s[i]
<1>1. Len(s) \in Nat \ {0}
  BY EmptySeq
<1> DEFINE n == Len(s) - 1
<1>2. n \in Int /\ n = Len(s) - 1 /\ 1 \in Int
  BY <1>1
<1>3. \A i \in 1 .. n : s[i] \in S
  BY <1>1, ElementOfSeq
<1> HIDE DEF n
<1>4. /\ SubSeq(s, 1, n) \in Seq(S)
      /\ Len(SubSeq(s, 1, n)) = IF 1 <= n THEN n - 1 + 1 ELSE 0
      /\ \A i \in 1 .. n - 1 + 1 : SubSeq(s, 1, n)[i] = s[1 + i - 1]
  BY <1>2, <1>3, SubSeqProperties
<1>5. Len(SubSeq(s, 1, n)) = n /\ \A i \in 1 .. n : SubSeq(s, 1, n)[i] = s[i]
  BY <1>1, <1>2, <1>4
<1> QED
  BY <1>1, <1>4, <1>5, ElementOfSeq DEF n

(* What the types say of the sequences.                                     *)
LEMMA Types ==
  ASSUME TypeOK
  PROVE  /\ Len(upref) \in Nat /\ Len(upref) >= 2
         /\ Scope = 1 .. Len(upref)
         /\ upref \in [Scope -> Nat]
         /\ Len(subscope) = Len(upref) /\ subscope \in [Scope -> Seq(Scope)]
         /\ Len(lookup) = Len(upref) /\ lookup \in [Scope -> SUBSET Symbol]
         /\ Len(path) \in Nat /\ path \in [1 .. Len(path) -> Scope]
         /\ Len(doomed) \in Nat /\ doomed \in [1 .. Len(doomed) -> Scope]
         /\ Len(freed) \in Nat /\ freed \in [1 .. Len(freed) -> Scope]
<1>1. /\ Len(upref) \in Nat /\ Len(upref) >= 2
      /\ Scope = 1 .. Len(upref) /\ upref \in [Scope -> Nat]
  BY LenProperties DEF TypeOK, Scope
<1>2. Len(subscope) = Len(upref) /\ subscope \in [Scope -> Seq(Scope)]
  <2>1. subscope \in Seq(Seq(Scope)) /\ DOMAIN subscope = Scope
    BY DEF TypeOK
  <2>2. /\ Len(subscope) \in Nat
        /\ subscope \in [1 .. Len(subscope) -> Seq(Scope)]
        /\ DOMAIN subscope = 1 .. Len(subscope)
    BY <2>1, LenProperties
  <2> QED
    BY <1>1, <2>1, <2>2
<1>3. Len(lookup) = Len(upref) /\ lookup \in [Scope -> SUBSET Symbol]
  <2>1. lookup \in Seq(SUBSET Symbol) /\ DOMAIN lookup = Scope
    BY DEF TypeOK
  <2>2. /\ Len(lookup) \in Nat
        /\ lookup \in [1 .. Len(lookup) -> SUBSET Symbol]
        /\ DOMAIN lookup = 1 .. Len(lookup)
    BY <2>1, LenProperties
  <2> QED
    BY <1>1, <2>1, <2>2
<1>4. ASSUME NEW s \in Seq(Scope)
      PROVE  Len(s) \in Nat /\ s \in [1 .. Len(s) -> Scope]
  BY LenProperties
<1> QED
  BY <1>1, <1>2, <1>3, <1>4 DEF TypeOK

(* Entering a scope adds one, in the current one, and changes no other.     *)
LEMMA EnterAdds ==
  ASSUME TypeOK, Enter, NEW new, new = Len(upref) + 1
  PROVE  /\ current \in Scope /\ new \in Nat /\ new \notin Scope
         /\ upref' \in Seq(Nat) /\ Len(upref') = new /\ Scope' = Scope \cup {new}
         /\ upref'[new] = current /\ \A s \in Scope : upref'[s] = upref[s]
         /\ subscope' \in Seq(Seq(Scope')) /\ DOMAIN subscope' = Scope'
         /\ subscope'[new] = <<>>
         /\ subscope'[current] = <<new>> \o subscope[current]
         /\ \A s \in Scope \ {current} : subscope'[s] = subscope[s]
         /\ lookup' \in Seq(SUBSET Symbol) /\ DOMAIN lookup' = Scope'
         /\ lookup'[new] = {} /\ \A s \in Scope : lookup'[s] = lookup[s]
         /\ path' \in Seq(Scope') /\ Len(path') = Len(path) + 1
         /\ path'[Len(path) + 1] = new /\ \A i \in 1 .. Len(path) : path'[i] = path[i]
<1>1. /\ current \in Scope /\ new \in Nat /\ new \notin Scope
      /\ Scope = 1 .. Len(upref) /\ Len(upref) \in Nat
  <2>1. Scope = 1 .. Len(upref) /\ Len(upref) \in Nat
    BY Types
  <2>2. current \in Scope
    BY DEF TypeOK, Enter
  <2> QED
    BY <2>1, <2>2
<1>2. /\ upref' \in Seq(Nat) /\ Len(upref') = new /\ Scope' = Scope \cup {new}
      /\ upref'[new] = current /\ \A s \in Scope : upref'[s] = upref[s]
  <2>1. upref \in Seq(Nat) /\ current \in Nat /\ upref' = Append(upref, current)
    BY <1>1 DEF TypeOK, Enter, Around
  <2>2. /\ upref' \in Seq(Nat) /\ Len(upref') = Len(upref) + 1
        /\ \A i \in 1 .. Len(upref) : upref'[i] = upref[i]
        /\ upref'[Len(upref) + 1] = current
    BY <2>1, AppendProperties
  <2>3. DOMAIN upref' = 1 .. Len(upref')
    BY <2>2, LenProperties
  <2> QED
    BY <1>1, <2>2, <2>3 DEF Scope
<1>3. /\ lookup' \in Seq(SUBSET Symbol) /\ DOMAIN lookup' = Scope'
      /\ lookup'[new] = {} /\ \A s \in Scope : lookup'[s] = lookup[s]
  <2>1. lookup \in Seq(SUBSET Symbol) /\ lookup' = Append(lookup, {}) /\ Len(lookup) = Len(upref)
    <3>1. Len(lookup) = Len(upref)
      BY Types
    <3> QED
      BY <3>1 DEF TypeOK, Enter
  <2>2. /\ lookup' \in Seq(SUBSET Symbol) /\ Len(lookup') = Len(lookup) + 1
        /\ \A i \in 1 .. Len(lookup) : lookup'[i] = lookup[i]
        /\ lookup'[Len(lookup) + 1] = {}
    BY <2>1, AppendProperties, {} \in SUBSET Symbol
  <2>3. DOMAIN lookup' = 1 .. Len(lookup')
    BY <2>2, LenProperties
  <2> QED
    BY <1>1, <1>2, <2>1, <2>2, <2>3
<1>4. /\ path' \in Seq(Scope') /\ Len(path') = Len(path) + 1
      /\ path'[Len(path) + 1] = new /\ \A i \in 1 .. Len(path) : path'[i] = path[i]
  <2>1. path' = Append(path, new) /\ path \in Seq(Scope)
    BY DEF TypeOK, Enter
  <2>2. path \in Seq(Scope') /\ new \in Scope'
    BY <1>2, <2>1, SeqMonotonic
  <2> QED
    BY <2>1, <2>2, AppendProperties
<1>5. /\ subscope' \in Seq(Seq(Scope')) /\ DOMAIN subscope' = Scope'
      /\ subscope'[new] = <<>>
      /\ subscope'[current] = <<new>> \o subscope[current]
      /\ \A s \in Scope \ {current} : subscope'[s] = subscope[s]
  <2> DEFINE longer == <<new>> \o subscope[current]
             lists == [subscope EXCEPT ![current] = longer]
  <2>1. subscope' = Append(lists, <<>>)
    BY DEF Enter
  <2>2. Seq(Scope) \subseteq Seq(Scope')
    BY <1>2, SeqMonotonic
  <2>3. subscope \in Seq(Seq(Scope'))
    <3>1. subscope \in Seq(Seq(Scope))
      BY DEF TypeOK
    <3> QED
      BY <2>2, <3>1, SeqMonotonic
  <2>4. longer \in Seq(Scope')
    <3>1. subscope[current] \in Seq(Scope')
      BY <1>1, <2>2, Types
    <3>2. <<new>> \in Seq(Scope')
      BY <1>2
    <3> QED
      BY <3>1, <3>2, ConcatProperties
  <2>5. current \in 1 .. Len(subscope) /\ Len(subscope) = Len(upref)
    BY <1>1, Types
  <2> HIDE DEF longer
  <2>6. /\ lists \in Seq(Seq(Scope')) /\ Len(lists) = Len(subscope)
        /\ \A j \in 1 .. Len(subscope) : lists[j] = IF j = current THEN longer ELSE subscope[j]
    BY <2>3, <2>4, <2>5, ExceptSeq
  <2>7. <<>> \in Seq(Scope')
    BY EmptySeq
  <2> HIDE DEF lists
  <2>8. /\ subscope' \in Seq(Seq(Scope')) /\ Len(subscope') = Len(lists) + 1
        /\ \A i \in 1 .. Len(lists) : subscope'[i] = lists[i]
        /\ subscope'[Len(lists) + 1] = <<>>
    BY <2>1, <2>6, <2>7, AppendProperties
  <2>9. DOMAIN subscope' = 1 .. Len(subscope')
    BY <2>8, LenProperties
  <2>10. DOMAIN subscope' = Scope' /\ subscope'[new] = <<>>
    <3>1. Len(subscope') = new /\ Len(lists) + 1 = new
      BY <1>1, <2>5, <2>6, <2>8
    <3>2. Scope' = 1 .. new
      BY <1>1, <1>2
    <3> QED
      BY <2>8, <2>9, <3>1, <3>2
  <2>11. subscope'[current] = longer /\ \A s \in Scope \ {current} : subscope'[s] = subscope[s]
    BY <1>1, <2>5, <2>6, <2>8
  <2> QED
    BY <2>8, <2>10, <2>11 DEF longer
<1> QED
  BY <1>1, <1>2, <1>3, <1>4, <1>5

(* Leaving drops the last scope of the path.                                *)
LEMMA LeaveDrops ==
  ASSUME TypeOK, ChainIsPath, Leave
  PROVE  /\ Len(path) \in Nat \ {0} /\ current = path[Len(path)]
         /\ path' \in Seq(Scope) /\ Len(path') = Len(path) - 1
         /\ \A i \in 1 .. Len(path) - 1 : path'[i] = path[i]
<1>1. path \in Seq(Scope) /\ path # <<>> /\ current = path[Len(path)]
  BY DEF TypeOK, ChainIsPath, Leave
<1>2. path' = SubSeq(path, 1, Len(path) - 1)
  BY DEF Leave
<1> QED
  BY <1>1, <1>2, WithoutLast

(* A call of scope_destroy calls itself for the first scope inside.         *)
LEMMA DestroyEnters ==
  ASSUME TypeOK, ScopeDestroy, Inside # <<>>
  PROVE  /\ Len(doomed) \in Nat \ {0} /\ Doomed = doomed[Len(doomed)] /\ Doomed \in Scope
         /\ subscope[Doomed] \in Seq(Scope) /\ Len(subscope[Doomed]) \in Nat \ {0}
         /\ subscope[Doomed][1] \in Scope
         /\ subscope' \in Seq(Seq(Scope)) /\ DOMAIN subscope' = Scope
         /\ Len(subscope'[Doomed]) = Len(subscope[Doomed]) - 1
         /\ \A i \in 1 .. Len(subscope[Doomed]) - 1 : subscope'[Doomed][i] = subscope[Doomed][i + 1]
         /\ \A s \in Scope \ {Doomed} : subscope'[s] = subscope[s]
         /\ doomed' \in Seq(Scope) /\ Len(doomed') = Len(doomed) + 1
         /\ doomed'[Len(doomed) + 1] = subscope[Doomed][1]
         /\ \A i \in 1 .. Len(doomed) : doomed'[i] = doomed[i]
         /\ freed' = freed
<1>1. Len(doomed) \in Nat \ {0} /\ Doomed = doomed[Len(doomed)] /\ Doomed \in Scope
  <2>1. doomed \in Seq(Scope) /\ doomed # <<>>
    BY DEF TypeOK, ScopeDestroy
  <2>2. Len(doomed) \in Nat \ {0}
    BY <2>1, EmptySeq
  <2> QED
    BY <2>1, <2>2, ElementOfSeq DEF Doomed
<1> DEFINE list == subscope[Doomed]
<1>2. list \in Seq(Scope) /\ list # <<>> /\ Len(list) \in Nat \ {0} /\ list[1] \in Scope
  <2>1. list \in Seq(Scope) /\ list # <<>>
    BY <1>1, Types DEF Inside
  <2>2. Len(list) \in Nat \ {0}
    BY <2>1, EmptySeq
  <2> HIDE DEF list
  <2> QED
    BY <2>1, <2>2, ElementOfSeq
<1>3. /\ subscope' = [subscope EXCEPT ![Doomed] = Tail(list)]
      /\ doomed' = Append(doomed, Head(list)) /\ freed' = freed
  BY DEF ScopeDestroy, Inside
<1>4. /\ Tail(list) \in Seq(Scope) /\ Len(Tail(list)) = Len(list) - 1
      /\ \A i \in 1 .. Len(list) - 1 : Tail(list)[i] = list[i + 1]
  <2> HIDE DEF list
  <2> QED
    BY <1>2, HeadTailProperties
<1>5. Head(list) = list[1]
  BY <1>2
<1>6. /\ subscope' \in Seq(Seq(Scope)) /\ Len(subscope') = Len(subscope)
      /\ \A j \in 1 .. Len(subscope) : subscope'[j] = IF j = Doomed THEN Tail(list) ELSE subscope[j]
  <2>1. subscope \in Seq(Seq(Scope)) /\ Doomed \in 1 .. Len(subscope)
    <3>1. Doomed \in 1 .. Len(subscope)
      BY <1>1, Types
    <3> QED
      BY <3>1 DEF TypeOK
  <2> HIDE DEF list
  <2> QED
    BY <1>3, <1>4, <2>1, ExceptSeq
<1>7. Scope = 1 .. Len(subscope)
  BY Types
<1>8. DOMAIN subscope' = 1 .. Len(subscope')
  BY <1>6, LenProperties
<1>9. /\ doomed' \in Seq(Scope) /\ Len(doomed') = Len(doomed) + 1
      /\ doomed'[Len(doomed) + 1] = list[1]
      /\ \A i \in 1 .. Len(doomed) : doomed'[i] = doomed[i]
  <2>1. doomed \in Seq(Scope)
    BY DEF TypeOK
  <2> HIDE DEF list
  <2> QED
    BY <1>2, <1>3, <1>5, <2>1, AppendProperties
<1> QED
  BY <1>1, <1>2, <1>3, <1>4, <1>6, <1>7, <1>8, <1>9

(* It frees its own scope when nothing is inside any more.                  *)
LEMMA DestroyFrees ==
  ASSUME TypeOK, ScopeDestroy, Inside = <<>>
  PROVE  /\ Len(doomed) \in Nat \ {0} /\ Doomed = doomed[Len(doomed)] /\ Doomed \in Scope
         /\ subscope[Doomed] = <<>> /\ subscope' = subscope
         /\ doomed' \in Seq(Scope) /\ Len(doomed') = Len(doomed) - 1
         /\ \A i \in 1 .. Len(doomed) - 1 : doomed'[i] = doomed[i]
         /\ freed' \in Seq(Scope) /\ Len(freed') = Len(freed) + 1
         /\ freed'[Len(freed) + 1] = Doomed
         /\ \A i \in 1 .. Len(freed) : freed'[i] = freed[i]
<1>1. doomed \in Seq(Scope) /\ doomed # <<>> /\ freed \in Seq(Scope)
  BY DEF TypeOK, ScopeDestroy
<1>2. Len(doomed) \in Nat \ {0}
  BY <1>1, EmptySeq
<1>3. Doomed = doomed[Len(doomed)] /\ \A i \in 1 .. Len(doomed) : doomed[i] \in Scope
  BY <1>1, ElementOfSeq DEF Doomed
<1>4. /\ doomed' = SubSeq(doomed, 1, Len(doomed) - 1) /\ freed' = Append(freed, Doomed)
      /\ subscope[Doomed] = <<>> /\ subscope' = subscope
  BY DEF ScopeDestroy, Callers, Inside
<1>5. /\ doomed' \in Seq(Scope) /\ Len(doomed') = Len(doomed) - 1
      /\ \A i \in 1 .. Len(doomed) - 1 : doomed'[i] = doomed[i]
  BY <1>1, <1>4, WithoutLast
<1>6. /\ freed' \in Seq(Scope) /\ Len(freed') = Len(freed) + 1
      /\ freed'[Len(freed) + 1] = Doomed
      /\ \A i \in 1 .. Len(freed) : freed'[i] = freed[i]
  BY <1>1, <1>2, <1>3, <1>4, AppendProperties
<1> QED
  BY <1>2, <1>3, <1>4, <1>5, <1>6

(* A change of the symbols of the current scope.                            *)
LEMMA LookupChanges ==
  ASSUME TypeOK, current \in Scope, NEW e, e \in SUBSET Symbol
  PROVE  /\ [lookup EXCEPT ![current] = e] \in Seq(SUBSET Symbol)
         /\ DOMAIN [lookup EXCEPT ![current] = e] = Scope
         /\ \A s \in Scope : [lookup EXCEPT ![current] = e][s] = IF s = current THEN e ELSE lookup[s]
<1>1. Len(lookup) \in Nat /\ Scope = 1 .. Len(lookup) /\ lookup \in [Scope -> SUBSET Symbol]
  BY Types
<1>2. lookup \in Seq(SUBSET Symbol)
  BY DEF TypeOK
<1> QED
  BY <1>1, <1>2, ExceptSeq
-----------------------------------------------------------------------------
(* Types                                                                    *)

(* The types hold at the start. *)
LEMMA TypeInit == Init => TypeOK
<1> SUFFICES ASSUME Init PROVE TypeOK
  OBVIOUS
<1>1. upref \in Seq(Nat) /\ Len(upref) = 2 /\ Scope = 1 .. 2 /\ \A s \in Scope : upref[s] = 0
  BY DEF Init, Scope
<1>2. subscope \in Seq(Seq(Scope)) /\ DOMAIN subscope = Scope
  <2>1. <<>> \in Seq(Scope)
    BY EmptySeq
  <2> QED
    BY <1>1, <2>1 DEF Init
<1>3. lookup \in Seq(SUBSET Symbol) /\ DOMAIN lookup = Scope
  <2>1. {} \in SUBSET Symbol /\ lookup = <<{}, {}>>
    BY DEF Init
  <2>2. lookup \in Seq(SUBSET Symbol)
    BY <2>1
  <2> QED
    BY <1>1, <2>1, <2>2
<1>4. current \in Scope /\ path \in Seq(Scope) /\ doomed \in Seq(Scope) /\ freed \in Seq(Scope)
  BY <1>1 DEF Init, global
<1> QED
  BY <1>1, <1>2, <1>3, <1>4 DEF TypeOK, Init, NoFind

(* Entering keeps the types. *)
LEMMA EnterTypes == TypeOK /\ Enter => TypeOK'
<1> SUFFICES ASSUME TypeOK, Enter PROVE TypeOK'
  OBVIOUS
<1> DEFINE new == Len(upref) + 1
<1>1. new = Len(upref) + 1
  OBVIOUS
<1> HIDE DEF new
<1>2. /\ current \in Scope /\ new \in Nat /\ new \notin Scope
      /\ upref' \in Seq(Nat) /\ Len(upref') = new /\ Scope' = Scope \cup {new}
      /\ upref'[new] = current /\ \A s \in Scope : upref'[s] = upref[s]
      /\ subscope' \in Seq(Seq(Scope')) /\ DOMAIN subscope' = Scope'
      /\ lookup' \in Seq(SUBSET Symbol) /\ DOMAIN lookup' = Scope'
      /\ path' \in Seq(Scope')
  BY <1>1, EnterAdds
<1>3. Len(upref) \in Nat /\ Len(upref) >= 2 /\ Scope = 1 .. Len(upref)
  BY Types
<1>4. \A s \in Scope' : upref'[s] < s
  <2>1. \A s \in Scope : upref[s] < s
    BY DEF TypeOK
  <2>2. current < new
    BY <1>1, <1>2, <1>3
  <2> QED
    BY <1>2, <2>1, <2>2
<1>5. /\ current' = new
      /\ scopeOf' = scopeOf /\ find' = find /\ answer' = answer
      /\ doomed' = doomed /\ freed' = freed /\ status' = status
  BY <1>1 DEF Enter, ends
<1>6. doomed' \in Seq(Scope') /\ freed' \in Seq(Scope')
  BY <1>2, <1>5, SeqMonotonic DEF TypeOK
<1>7. Scope \cup {0} \subseteq Scope' \cup {0} /\ current' \in Scope'
  BY <1>2, <1>5
<1>8. scopeOf' \in [Symbol -> Scope' \cup {0}]
  BY <1>5, <1>7 DEF TypeOK
<1>9. find' \in [name : Name \cup {Null}, at : Scope' \cup {0}]
  BY <1>5, <1>7 DEF TypeOK
<1> QED
  BY <1>1, <1>2, <1>3, <1>4, <1>5, <1>6, <1>7, <1>8, <1>9 DEF TypeOK

(* Every step keeps the types. *)
LEMMA TypeStep == TypeOK /\ ChainIsPath /\ [Next]_vars => TypeOK'
<1> SUFFICES ASSUME TypeOK, ChainIsPath, [Next]_vars PROVE TypeOK'
  OBVIOUS
<1>1. CASE Enter
  BY <1>1, EnterTypes
<1>2. CASE Leave
  <2>1. path' \in Seq(Scope)
    BY <1>2, LeaveDrops
  <2>2. upref[current] \in Scope \cup {0}
    <3>1. current \in Scope /\ upref[current] < current
      BY <1>2 DEF TypeOK, Leave
    <3>2. Scope = 1 .. Len(upref) /\ Len(upref) \in Nat /\ upref \in [Scope -> Nat]
      BY Types
    <3> QED
      BY <3>1, <3>2
  <2> QED
    BY <1>2, <2>1, <2>2 DEF TypeOK, Leave, tree, ends, Scope
<1>3. ASSUME NEW v \in Symbol, Install(v) PROVE TypeOK'
  <2>1. current \in Scope /\ lookup[current] \in SUBSET Symbol
    BY <1>3, Types DEF TypeOK, Install
  <2>2. Added(lookup[current], v) \in SUBSET Symbol
    BY <2>1 DEF Added
  <2>3. lookup' \in Seq(SUBSET Symbol) /\ DOMAIN lookup' = Scope
    <3>1. CASE lookup' = [lookup EXCEPT ![current] = Added(@, v)]
      BY <2>1, <2>2, <3>1, LookupChanges
    <3>2. CASE UNCHANGED lookup
      BY <3>2 DEF TypeOK
    <3> QED
      BY <1>3, <3>1, <3>2 DEF Install
  <2> QED
    BY <1>3, <2>1, <2>3 DEF TypeOK, Install, tree, ends, Scope
<1>4. ASSUME NEW v \in Symbol, Remove(v) PROVE TypeOK'
  <2>1. current \in Scope /\ lookup[current] \in SUBSET Symbol
    BY <1>4, Types DEF TypeOK, Remove
  <2>2. Without(lookup[current], NameOf[v]) \in SUBSET Symbol
    BY <2>1 DEF Without
  <2>3. lookup' \in Seq(SUBSET Symbol) /\ DOMAIN lookup' = Scope
    BY <1>4, <2>1, <2>2, LookupChanges DEF Remove
  <2> QED
    BY <1>4, <2>1, <2>3 DEF TypeOK, Remove, tree, ends, Scope
<1>5. CASE ReadNull
  BY <1>5 DEF TypeOK, ReadNull, tree, Scope
<1>6. ASSUME NEW n \in Name, LookUp(n) PROVE TypeOK'
  BY <1>6 DEF TypeOK, LookUp, tree, ends, Scope
<1>7. CASE ScopeLookup
  <2>1. find \in [name : Name \cup {Null}, at : Scope \cup {0}]
    BY DEF TypeOK
  <2>2. NoFind \in [name : Name \cup {Null}, at : Scope \cup {0}]
    BY DEF NoFind
  <2>3. ASSUME find.at # 0 PROVE upref[find.at] \in Scope \cup {0}
    <3>1. find.at \in Scope /\ upref[find.at] < find.at
      BY <2>1, <2>3 DEF TypeOK
    <3>2. Scope = 1 .. Len(upref) /\ Len(upref) \in Nat /\ upref \in [Scope -> Nat]
      BY Types
    <3> QED
      BY <3>1, <3>2
  <2>4. ASSUME NEW v \in Symbol \cup {Null}, Found(v)
        PROVE  /\ find' \in [name : Name \cup {Null}, at : Scope \cup {0}]
               /\ answer' \in [name : Name \cup {Null}, symbol : Symbol \cup {Null}]
    BY <2>1, <2>2, <2>4 DEF Found
  <2>5. ASSUME NEW v, find.at # 0, v \in lookup[find.at] PROVE v \in Symbol
    BY <2>1, <2>5, Types
  <2>6. /\ find' \in [name : Name \cup {Null}, at : Scope \cup {0}]
        /\ answer' \in [name : Name \cup {Null}, symbol : Symbol \cup {Null}]
    <3>1. CASE find.at = 0 /\ Found(Null)
      BY <2>4, <3>1
    <3>2. CASE find.at # 0 /\ \E v \in lookup[find.at] : Found(v)
      BY <2>4, <2>5, <3>2
    <3>3. CASE find.at # 0 /\ Outward /\ UNCHANGED answer
      BY <2>1, <2>3, <3>3 DEF Outward, TypeOK
    <3> QED
      BY <1>7, <3>1, <3>2, <3>3 DEF ScopeLookup
  <2> QED
    BY <1>7, <2>6 DEF TypeOK, ScopeLookup, tree, ends, Scope
<1>8. CASE Destroy
  <2>1. <<global, tag>> \in Seq(Scope)
    BY Types DEF global, tag
  <2> QED
    BY <1>8, <2>1 DEF TypeOK, Destroy, tree, Scope
<1>9. CASE ScopeDestroy
  <2>1. /\ subscope' \in Seq(Seq(Scope)) /\ DOMAIN subscope' = Scope
        /\ doomed' \in Seq(Scope) /\ freed' \in Seq(Scope)
    <3>1. CASE Inside = <<>>
      BY <1>9, <3>1, DestroyFrees DEF TypeOK
    <3>2. CASE Inside # <<>>
      BY <1>9, <3>2, DestroyEnters DEF TypeOK
    <3> QED
      BY <3>1, <3>2
  <2> QED
    BY <1>9, <2>1 DEF TypeOK, ScopeDestroy, Scope
<1>10. CASE UNCHANGED vars
  BY <1>10 DEF TypeOK, vars, tree, ends, Scope
<1> QED
  BY <1>1, <1>2, <1>3, <1>4, <1>5, <1>6, <1>7, <1>8, <1>9, <1>10 DEF Next
-----------------------------------------------------------------------------
(* The chain of scopes                                                      *)

Chain == ChainIsPath /\ Rising

(* The chain holds at the start. *)
LEMMA ChainInit == Init => Chain
BY DEF Init, Chain, ChainIsPath, Rising, global

(* Entering puts a scope at the end of the chain. *)
LEMMA EnterChain == TypeOK /\ Chain /\ Enter => Chain'
<1> SUFFICES ASSUME TypeOK, Chain, Enter PROVE Chain'
  OBVIOUS
<1> DEFINE new == Len(upref) + 1
<1>1. new = Len(upref) + 1
  OBVIOUS
<1> HIDE DEF new
<1>2. /\ current \in Scope /\ new \in Nat
      /\ upref'[new] = current /\ \A s \in Scope : upref'[s] = upref[s]
      /\ path' \in Seq(Scope') /\ Len(path') = Len(path) + 1
      /\ path'[Len(path) + 1] = new /\ \A i \in 1 .. Len(path) : path'[i] = path[i]
  BY <1>1, EnterAdds
<1>3. /\ Scope = 1 .. Len(upref) /\ Len(upref) \in Nat
      /\ Len(path) \in Nat /\ path \in [1 .. Len(path) -> Scope] /\ DOMAIN path = 1 .. Len(path)
  BY Types
<1>4. DOMAIN path' = 1 .. Len(path) + 1
  BY <1>2, LenProperties
<1>5. path # <<>> /\ Len(path) >= 1 /\ current = path[Len(path)] /\ path[1] = global
  <2>1. path # <<>> /\ current = path[Len(path)] /\ path[1] = global
    BY <1>2, <1>3 DEF Chain, ChainIsPath, Enter
  <2> QED
    BY <1>3, <2>1, EmptySeq DEF TypeOK
<1>6. path' # <<>> /\ current' = new /\ status' = status
  <2>1. path' # <<>>
    BY <1>2, <1>3, EmptySeq
  <2> QED
    BY <1>1, <2>1 DEF Enter, ends
<1>7. current' = path'[Len(path')] /\ path'[1] = global
  BY <1>2, <1>3, <1>5, <1>6
<1>8. \A i \in DOMAIN path' : upref'[path'[i]] = IF i = 1 THEN 0 ELSE path'[i - 1]
  <2>1. ASSUME NEW i \in 1 .. Len(path)
        PROVE  upref'[path'[i]] = IF i = 1 THEN 0 ELSE path'[i - 1]
    <3>1. path'[i] = path[i] /\ path[i] \in Scope /\ i \in DOMAIN path
      BY <1>2, <1>3
    <3>2. upref'[path'[i]] = upref[path[i]]
      BY <1>2, <3>1
    <3>3. upref[path[i]] = IF i = 1 THEN 0 ELSE path[i - 1]
      BY <3>1 DEF Chain, ChainIsPath
    <3>4. i # 1 => path'[i - 1] = path[i - 1]
      <4>1. i # 1 => i - 1 \in 1 .. Len(path)
        BY <1>3
      <4> QED
        BY <1>2, <4>1
    <3> QED
      BY <3>2, <3>3, <3>4
  <2>2. upref'[path'[Len(path) + 1]] = path'[Len(path)]
    BY <1>2, <1>3, <1>5
  <2> QED
    BY <1>3, <1>4, <1>5, <2>1, <2>2
<1>9. Rising'
  <2>1. \A i \in 1 .. Len(path) : path[i] < new /\ path[i] \in Nat
    BY <1>1, <1>3
  <2> SUFFICES ASSUME NEW i \in DOMAIN path', NEW j \in DOMAIN path', i < j PROVE path'[i] < path'[j]
    BY DEF Rising
  <2>2. CASE j = Len(path) + 1
    BY <1>2, <1>3, <1>4, <2>1, <2>2
  <2>3. CASE j # Len(path) + 1
    <3>1. i \in DOMAIN path /\ j \in DOMAIN path
      BY <1>3, <1>4, <2>3
    <3> QED
      BY <1>2, <1>3, <3>1 DEF Chain, Rising
  <2> QED
    BY <2>2, <2>3
<1>10. status' = "crash" => path' = <<>>
  BY <1>6 DEF Enter, Called
<1> QED
  BY <1>6, <1>7, <1>8, <1>9, <1>10 DEF Chain, ChainIsPath

(* Leaving takes the last one off. *)
LEMMA LeaveChain == TypeOK /\ Chain /\ Leave => Chain'
<1> SUFFICES ASSUME TypeOK, Chain, Leave PROVE Chain'
  OBVIOUS
<1>1. /\ Len(path) \in Nat \ {0} /\ current = path[Len(path)]
      /\ path' \in Seq(Scope) /\ Len(path') = Len(path) - 1
      /\ \A i \in 1 .. Len(path) - 1 : path'[i] = path[i]
  BY LeaveDrops DEF Chain
<1>2. DOMAIN path = 1 .. Len(path) /\ path \in [1 .. Len(path) -> Scope]
  BY Types
<1>3. DOMAIN path' = 1 .. Len(path) - 1
  BY <1>1, LenProperties
<1>4. upref' = upref /\ current' = upref[current] /\ status' = status
  BY DEF Leave, tree, ends
<1>5. \A i \in DOMAIN path : upref[path[i]] = IF i = 1 THEN 0 ELSE path[i - 1]
  BY DEF Chain, ChainIsPath
<1>6. current' = IF Len(path) = 1 THEN 0 ELSE path[Len(path) - 1]
  BY <1>1, <1>2, <1>4, <1>5
<1>7. path' = <<>> <=> Len(path) = 1
  BY <1>1, EmptySeq
<1>8. current' = IF path' = <<>> THEN 0 ELSE path'[Len(path')]
  BY <1>1, <1>6, <1>7
<1>9. path' # <<>> => path'[1] = global
  <2>1. path # <<>> => path[1] = global
    BY DEF Chain, ChainIsPath
  <2>2. path # <<>>
    BY <1>1
  <2> QED
    BY <1>1, <1>7, <2>1, <2>2
<1>10. \A i \in DOMAIN path' : upref'[path'[i]] = IF i = 1 THEN 0 ELSE path'[i - 1]
  BY <1>1, <1>2, <1>3, <1>4, <1>5
<1>11. Rising'
  BY <1>1, <1>2, <1>3 DEF Rising, Chain
<1>12. status' # "crash"
  BY <1>4 DEF Leave, Called
<1> QED
  BY <1>8, <1>9, <1>10, <1>11, <1>12 DEF Chain, ChainIsPath

(* Every step keeps the chain; only entering and leaving touch it. *)
LEMMA ChainStep == TypeOK /\ Chain /\ [Next]_vars => Chain'
<1> SUFFICES ASSUME TypeOK, Chain, [Next]_vars PROVE Chain'
  OBVIOUS
<1>1. CASE Enter
  BY <1>1, EnterChain
<1>2. CASE Leave
  BY <1>2, LeaveChain
<1>3. CASE UNCHANGED <<upref, current, path>> /\ (status' = status \/ status' # "crash")
  BY <1>3 DEF Chain, ChainIsPath, Rising
<1>4. CASE ReadNull
  <2>1. path = <<>>
    <3>1. path # <<>> => path[Len(path)] \in Scope
      BY ElementOfSeq, EmptySeq DEF TypeOK
    <3>2. 0 \notin Scope
      BY Types
    <3> QED
      BY <1>4, <3>1, <3>2 DEF Chain, ChainIsPath, ReadNull
  <2> QED
    BY <1>4, <2>1 DEF Chain, ChainIsPath, Rising, ReadNull, tree
<1> QED
  BY <1>1, <1>2, <1>3, <1>4
     DEF Next, Install, Remove, LookUp, ScopeLookup, Destroy, ScopeDestroy, vars, tree, ends

(* Every step of a lookup goes outwards by one scope of the path. *)
LEMMA FindingStep == TypeOK /\ Chain /\ Finding /\ [Next]_vars => Finding'
<1> SUFFICES ASSUME TypeOK, Chain, Finding, [Next]_vars PROVE Finding'
  OBVIOUS
<1>1. CASE find' = find /\ Called
  BY <1>1 DEF Finding, Called, NoFind
<1>2. ASSUME NEW n \in Name, LookUp(n) PROVE Finding'
  <2>1. Len(path) \in Nat
    BY Types
  <2>2. path = <<>> <=> Len(path) = 0
    BY <2>1, EmptySeq DEF TypeOK
  <2>3. current = At(Len(path))
    BY <2>2 DEF Chain, ChainIsPath, At
  <2>4. /\ status' = "open" /\ path' = path /\ lookup' = lookup
        /\ find'.at = current
    BY <1>2 DEF LookUp, Called, ends
  <2>5. find'.at = At(Len(path)) /\ \A j \in Len(path) + 1 .. Len(path) : FALSE
    BY <2>1, <2>3, <2>4
  <2> QED
    BY <2>1, <2>4, <2>5 DEF Finding, At
<1>3. CASE ScopeLookup
  <2>1. /\ find.name # Null /\ status' = status /\ path' = path /\ lookup' = lookup
    BY <1>3 DEF ScopeLookup, ends
  <2>2. CASE \E v : Found(v)
    BY <2>2 DEF Finding, Found, NoFind
  <2>3. CASE find.at # 0 /\ ~Has(lookup[find.at], find.name) /\ Outward
    <3>1. PICK i \in 0 .. Len(path) :
            /\ find.at = At(i)
            /\ \A j \in i + 1 .. Len(path) : ~Has(lookup[path[j]], find.name)
      BY <2>1 DEF Finding
    <3>2. i \in 1 .. Len(path) /\ Len(path) \in Nat /\ find.at = path[i]
      BY <2>3, <3>1, Types DEF At
    <3>3. find' = [find EXCEPT !.at = upref[path[i]]]
      BY <2>3, <3>2 DEF Outward
    <3>4. find'.name = find.name /\ find'.at = upref[path[i]]
      BY <3>3 DEF TypeOK
    <3>5. upref[path[i]] = At(i - 1)
      <4>1. i \in DOMAIN path
        BY <3>2, Types
      <4> QED
        BY <3>2, <4>1 DEF Chain, ChainIsPath, At
    <3>6. \A j \in i .. Len(path) : ~Has(lookup[path[j]], find.name)
      BY <2>3, <3>1, <3>2
    <3>7. status = "open"
      BY <2>1 DEF Finding
    <3>8. i - 1 \in 0 .. Len(path) /\ (i - 1) + 1 = i
      BY <3>2
    <3> QED
      BY <2>1, <3>4, <3>5, <3>6, <3>7, <3>8 DEF Finding, At
  <2> QED
    BY <1>3, <2>2, <2>3 DEF ScopeLookup
<1>4. CASE UNCHANGED <<find, status, path, lookup>>
  BY <1>4 DEF Finding, At
<1> QED
  BY <1>1, <1>2, <1>3, <1>4
     DEF Next, Enter, Leave, Install, Remove, ReadNull, Destroy, ScopeDestroy, vars, tree, ends
-----------------------------------------------------------------------------
(* What is freed                                                            *)

(* A root is in no scope, every other scope is in one.                      *)
LEMMA Around0 ==
  ASSUME TypeOK, NEW s \in Scope
  PROVE  upref[s] \in Scope \cup {0} /\ 0 \notin Scope /\ tag \in Scope /\ global \in Scope
<1>1. Scope = 1 .. Len(upref) /\ Len(upref) \in Nat /\ Len(upref) >= 2 /\ upref \in [Scope -> Nat]
  BY Types
<1>2. upref[s] < s
  BY DEF TypeOK
<1> QED
  BY <1>1, <1>2 DEF tag, global

(* Nothing is freed and nothing entered but the roots at the start.         *)
LEMMA ForestInit == Init => Forest
<1> SUFFICES ASSUME Init PROVE Forest
  OBVIOUS
<1>1. /\ Scope = 1 .. 2 /\ \A s \in Scope : upref[s] = 0
      /\ doomed = <<>> /\ freed = <<>> /\ status = "open"
  BY DEF Init, Scope
<1>2. \A p \in Scope : subscope[p] = <<>>
  BY <1>1 DEF Init
<1>3. Linked
  BY <1>2 DEF Linked
<1>4. Descending /\ FreedInward
  <2>1. Ran(doomed) = {} /\ DOMAIN doomed = {} /\ DOMAIN freed = {} /\ Len(doomed) = 0
    BY <1>1, EmptySeq DEF Ran
  <2> QED
    BY <1>1, <2>1 DEF Descending, FreedInward
<1> QED
  BY <1>1, <1>3, <1>4 DEF Forest, NotYet, Roots, Reached, tag, global

(* A scope entered is first in the list of the current one.                 *)
LEMMA EnterForest == TypeOK /\ Forest /\ Enter => Forest'
<1> SUFFICES ASSUME TypeOK, Forest, Enter PROVE Forest'
  OBVIOUS
<1> DEFINE new == Len(upref) + 1
<1>1. new = Len(upref) + 1
  OBVIOUS
<1> HIDE DEF new
<1>2. /\ current \in Scope /\ new \in Nat /\ new \notin Scope /\ Scope' = Scope \cup {new}
      /\ upref'[new] = current /\ \A s \in Scope : upref'[s] = upref[s]
      /\ subscope'[new] = <<>> /\ subscope'[current] = <<new>> \o subscope[current]
      /\ \A s \in Scope \ {current} : subscope'[s] = subscope[s]
  BY <1>1, EnterAdds
<1>3. /\ doomed = <<>> /\ freed = <<>> /\ status' = status /\ status # "destroyed"
      /\ doomed' = doomed /\ freed' = freed
  BY DEF Forest, NotYet, Enter, Called, ends
<1>4. Gone' = {}
  <2>1. Ran(<<>>) = {}
    BY DEF Ran
  <2> QED
    BY <1>3, <2>1 DEF Gone, Ran
<1> DEFINE old == subscope[current]
           list == <<new>> \o old
<1>5. /\ old \in Seq(Scope) /\ Len(old) \in Nat /\ DOMAIN old = 1 .. Len(old)
      /\ \A i \in DOMAIN old : old[i] \in Scope
  <2>1. old \in Seq(Scope)
    BY <1>2, Types
  <2> HIDE DEF old
  <2> QED
    BY <2>1, LenProperties, ElementOfSeq
<1>6. /\ DOMAIN list = 1 .. Len(old) + 1
      /\ list[1] = new /\ \A i \in 2 .. Len(old) + 1 : list[i] = old[i - 1]
  <2> HIDE DEF old
  <2> DEFINE alone == <<new>>
  <2>1. alone \in Seq(Scope') /\ old \in Seq(Scope') /\ Len(alone) = 1 /\ alone[1] = new
    BY <1>2, <1>5, SeqMonotonic
  <2> HIDE DEF alone
  <2>2. /\ alone \o old \in Seq(Scope') /\ Len(alone \o old) = Len(alone) + Len(old)
        /\ \A i \in 1 .. Len(alone) + Len(old) :
             (alone \o old)[i] = IF i <= Len(alone) THEN alone[i] ELSE old[i - Len(alone)]
    <3>1. alone \in Seq(Scope') /\ old \in Seq(Scope')
      BY <2>1
    <3> QED
      BY <3>1, ConcatProperties
  <2>3. DOMAIN (alone \o old) = 1 .. Len(alone \o old)
    BY <2>2, LenProperties
  <2> QED
    BY <1>5, <2>1, <2>2, <2>3 DEF alone
<1> HIDE DEF old, list
<1>7. subscope'[current] = list
  BY <1>2 DEF list, old
<1>8. /\ \A i, j \in DOMAIN old : old[i] = old[j] => i = j
      /\ \A i \in DOMAIN old : upref[old[i]] = current
  BY <1>2 DEF old, Forest, Linked
<1>9. /\ \A i, j \in DOMAIN list : list[i] = list[j] => i = j
      /\ \A i \in DOMAIN list : upref'[list[i]] = current
  <2>1. \A i \in 2 .. Len(old) + 1 : i - 1 \in DOMAIN old /\ list[i] = old[i - 1] /\ list[i] \in Scope
    BY <1>5, <1>6
  <2>2. ASSUME NEW i \in DOMAIN list PROVE i = 1 \/ i \in 2 .. Len(old) + 1
    BY <1>5, <1>6
  <2>3. ASSUME NEW i \in DOMAIN list PROVE upref'[list[i]] = current
    <3>1. CASE i = 1
      BY <1>2, <1>6, <3>1
    <3>2. CASE i \in 2 .. Len(old) + 1
      BY <1>2, <1>8, <2>1, <3>2
    <3> QED
      BY <2>2, <3>1, <3>2
  <2>4. ASSUME NEW i \in DOMAIN list, NEW j \in DOMAIN list, list[i] = list[j] PROVE i = j
    <3>1. CASE i = 1 \/ j = 1
      BY <1>2, <1>6, <2>1, <2>2, <2>4, <3>1
    <3>2. CASE i \in 2 .. Len(old) + 1 /\ j \in 2 .. Len(old) + 1
      <4>1. i - 1 = j - 1
        BY <1>8, <2>1, <2>4, <3>2
      <4> QED
        BY <1>5, <3>2, <4>1
    <3> QED
      BY <2>2, <3>1, <3>2
  <2> QED
    BY <2>3, <2>4
<1>10. Linked'
  <2> SUFFICES ASSUME NEW p \in Scope'
               PROVE  /\ \A i, j \in DOMAIN subscope'[p] : subscope'[p][i] = subscope'[p][j] => i = j
                      /\ \A i \in DOMAIN subscope'[p] : upref'[subscope'[p][i]] = p
    BY <1>4 DEF Linked
  <2>1. CASE p = current
    BY <1>7, <1>9, <2>1
  <2>2. CASE p = new
    BY <1>2, <2>2
  <2>3. CASE p \in Scope \ {current}
    <3>1. subscope'[p] = subscope[p]
      BY <1>2, <2>3
    <3>2. \A i \in DOMAIN subscope[p] : subscope[p][i] \in Scope
      BY <2>3, Types, LenProperties, ElementOfSeq
    <3> QED
      BY <1>2, <2>3, <3>1, <3>2 DEF Forest, Linked
  <2> QED
    BY <1>2, <2>1, <2>2, <2>3
<1>11. Reached'
  <2> SUFFICES ASSUME NEW s \in Scope', upref'[s] # 0
               PROVE  s \in Ran(subscope'[upref'[s]])
    BY <1>3 DEF Reached, Ran
  <2>1. CASE s = new
    <3>1. 1 \in DOMAIN list /\ list[1] = s
      BY <1>5, <1>6, <2>1
    <3>2. subscope'[upref'[s]] = list
      BY <1>2, <1>7, <2>1
    <3> QED
      BY <3>1, <3>2 DEF Ran
  <2>2. CASE s \in Scope
    <3>1. upref'[s] = upref[s] /\ upref[s] \in Scope
      BY <1>2, <2>2, Around0
    <3>2. Gone = {}
      BY <1>3 DEF Gone, Ran
    <3>3. s \in Ran(subscope[upref[s]])
      BY <2>2, <3>1, <3>2 DEF Forest, Reached
    <3>4. CASE upref[s] = current
      <4>1. PICK i \in DOMAIN old : old[i] = s
        BY <3>3, <3>4 DEF Ran, old
      <4>2. i + 1 \in DOMAIN list /\ list[i + 1] = s
        BY <1>5, <1>6, <4>1
      <4> QED
        BY <1>7, <3>1, <3>4, <4>2 DEF Ran
    <3>5. CASE upref[s] # current
      BY <1>2, <3>1, <3>3, <3>5
    <3> QED
      BY <3>4, <3>5
  <2> QED
    BY <1>2, <2>1, <2>2
<1>12. Roots'
  <2>1. tag \in Scope /\ global \in Scope /\ 0 \notin Scope
    BY <1>2, Around0
  <2> QED
    BY <1>2, <2>1 DEF Forest, Roots
<1>13. NotYet' /\ Descending' /\ FreedInward'
  <2>1. DOMAIN doomed' = {} /\ DOMAIN freed' = {} /\ doomed' = <<>> /\ freed' = <<>> /\ Len(doomed') = 0
    BY <1>3, EmptySeq
  <2> QED
    BY <1>3, <2>1 DEF NotYet, Descending, FreedInward, Ran
<1> QED
  BY <1>10, <1>11, <1>12, <1>13 DEF Forest

(* The destruction starts with the tag scope, called from the global one.   *)
LEMMA DestroyForest == TypeOK /\ Forest /\ Destroy => Forest'
<1> SUFFICES ASSUME TypeOK, Forest, Destroy PROVE Forest'
  OBVIOUS
<1>1. /\ doomed = <<>> /\ freed = <<>> /\ freed' = freed /\ status' = "destroyed"
      /\ upref' = upref /\ subscope' = subscope /\ Scope' = Scope
      /\ doomed' = <<global, tag>>
  BY DEF Destroy, Called, Forest, NotYet, tree, Scope
<1>2. /\ DOMAIN doomed' = 1 .. 2 /\ Len(doomed') = 2 /\ doomed'[1] = global /\ doomed'[2] = tag
      /\ DOMAIN freed' = {} /\ Gone' = {global, tag} /\ Ran(freed') = {}
  <2>1. DOMAIN doomed' = 1 .. 2 /\ Len(doomed') = 2 /\ doomed'[1] = global /\ doomed'[2] = tag
    BY <1>1
  <2>2. DOMAIN freed' = {} /\ Ran(freed') = {}
    BY <1>1 DEF Ran
  <2>3. Ran(doomed') = {global, tag}
    BY <2>1 DEF Ran
  <2> QED
    BY <2>1, <2>2, <2>3 DEF Gone
<1>3. Roots'
  BY <1>1 DEF Forest, Roots
<1>4. Linked'
  <2> SUFFICES ASSUME NEW p \in Scope, NEW i \in DOMAIN subscope[p]
               PROVE  subscope[p][i] \notin {global, tag}
    BY <1>1, <1>2 DEF Forest, Linked
  <2>1. subscope[p][i] \in Scope
    BY Types, LenProperties, ElementOfSeq
  <2>2. upref[subscope[p][i]] = p /\ p # 0
    BY Around0 DEF Forest, Linked
  <2> QED
    BY <2>1, <2>2 DEF Forest, Roots
<1>5. Reached'
  <2> SUFFICES ASSUME NEW s \in Scope, s \notin {global, tag}
               PROVE  upref[s] # 0 /\ s \in Ran(subscope[upref[s]])
    BY <1>1, <1>2 DEF Reached, Ran
  <2>1. Gone = {}
    BY <1>1 DEF Gone, Ran
  <2>2. upref[s] # 0
    BY DEF Forest, Roots
  <2> QED
    BY <2>1, <2>2 DEF Forest, Reached
<1>6. NotYet' /\ Descending' /\ FreedInward'
  BY <1>1, <1>2 DEF NotYet, Descending, FreedInward, tag, global
<1> QED
  BY <1>3, <1>4, <1>5, <1>6 DEF Forest

(* A call goes on to a scope of its list.                                   *)
LEMMA PushForest == TypeOK /\ Forest /\ ScopeDestroy /\ Inside # <<>> => Forest'
<1> SUFFICES ASSUME TypeOK, Forest, ScopeDestroy, Inside # <<>> PROVE Forest'
  OBVIOUS
<1> DEFINE n == Len(doomed)
           list == subscope[Doomed]
           rest == subscope'[Doomed]
           x == list[1]
<1>1. /\ n \in Nat \ {0} /\ Doomed = doomed[n] /\ Doomed \in Scope
      /\ list \in Seq(Scope) /\ Len(list) \in Nat \ {0} /\ x \in Scope
      /\ Len(rest) = Len(list) - 1 /\ \A i \in 1 .. Len(list) - 1 : rest[i] = list[i + 1]
      /\ \A s \in Scope \ {Doomed} : subscope'[s] = subscope[s]
      /\ Len(doomed') = n + 1 /\ doomed'[n + 1] = x
      /\ \A i \in 1 .. n : doomed'[i] = doomed[i]
      /\ freed' = freed
  BY DestroyEnters
<1>2. /\ subscope' \in Seq(Seq(Scope)) /\ DOMAIN subscope' = Scope /\ doomed' \in Seq(Scope)
  BY DestroyEnters
<1>3. upref' = upref /\ Scope' = Scope /\ status' = status
  BY DEF ScopeDestroy, Scope
<1>4. /\ DOMAIN list = 1 .. Len(list) /\ DOMAIN rest = 1 .. Len(list) - 1
      /\ DOMAIN doomed = 1 .. n /\ DOMAIN doomed' = 1 .. n + 1
  <2>1. rest \in Seq(Scope)
    <3>1. subscope' \in [DOMAIN subscope' -> Seq(Scope)]
      BY <1>2, LenProperties
    <3> QED
      BY <1>1, <1>2, <3>1
  <2>2. DOMAIN rest = 1 .. Len(rest) /\ DOMAIN list = 1 .. Len(list)
    BY <1>1, <2>1, LenProperties
  <2>3. DOMAIN doomed' = 1 .. Len(doomed') /\ DOMAIN doomed = 1 .. n
    BY <1>2, LenProperties DEF TypeOK
  <2> QED
    BY <1>1, <2>2, <2>3
<1>5. /\ \A i, j \in DOMAIN list : list[i] = list[j] => i = j
      /\ \A i \in DOMAIN list : upref[list[i]] = Doomed /\ list[i] \notin Gone
  BY <1>1 DEF Forest, Linked
<1> HIDE DEF n, list, rest, x
<1>6. x = list[1] /\ 1 \in DOMAIN list /\ upref[x] = Doomed /\ x \notin Gone
  BY <1>1, <1>4, <1>5 DEF x
<1>7. Ran(doomed') = Ran(doomed) \cup {x} /\ Gone' = Gone \cup {x}
  <2>1. Ran(doomed') = Ran(doomed) \cup {x}
    <3>1. \A y : y \in Ran(doomed') <=> \E i \in 1 .. n + 1 : doomed'[i] = y
      BY <1>4 DEF Ran
    <3>2. \A y : y \in Ran(doomed) <=> \E i \in 1 .. n : doomed[i] = y
      BY <1>4 DEF Ran
    <3> QED
      BY <1>1, <3>1, <3>2
  <2>2. Gone' = Ran(doomed') \cup Ran(freed')
    BY DEF Gone, Ran
  <2>3. Ran(freed') = Ran(freed)
    BY <1>1
  <2> QED
    BY <2>1, <2>2, <2>3 DEF Gone
<1>8. Linked'
  <2> SUFFICES ASSUME NEW p \in Scope
               PROVE  /\ \A i, j \in DOMAIN subscope'[p] : subscope'[p][i] = subscope'[p][j] => i = j
                      /\ \A i \in DOMAIN subscope'[p] :
                           upref[subscope'[p][i]] = p /\ subscope'[p][i] \notin Gone \cup {x}
    BY <1>3, <1>7 DEF Linked
  <2>1. CASE p = Doomed
    <3>1. subscope'[p] = rest
      BY <2>1 DEF rest
    <3>2. \A i \in DOMAIN rest : i + 1 \in DOMAIN list /\ rest[i] = list[i + 1] /\ i + 1 # 1
      BY <1>1, <1>4
    <3>3. \A i, j \in DOMAIN rest : rest[i] = rest[j] => i = j
      BY <1>1, <1>4, <1>5, <3>2
    <3>4. \A i \in DOMAIN rest : upref[rest[i]] = Doomed /\ rest[i] \notin Gone \cup {x}
      BY <1>5, <1>6, <3>2
    <3> QED
      BY <2>1, <3>1, <3>3, <3>4
  <2>2. CASE p # Doomed
    <3>1. subscope'[p] = subscope[p]
      BY <1>1, <2>2
    <3>2. /\ \A i, j \in DOMAIN subscope[p] : subscope[p][i] = subscope[p][j] => i = j
          /\ \A i \in DOMAIN subscope[p] : upref[subscope[p][i]] = p /\ subscope[p][i] \notin Gone
      BY DEF Forest, Linked
    <3> QED
      BY <1>6, <2>2, <3>1, <3>2
  <2> QED
    BY <2>1, <2>2
<1>9. Reached'
  <2>1. ASSUME NEW s \in Scope, s \notin Gone \cup {x}, upref[s] # 0, s \in Ran(subscope[upref[s]])
        PROVE  s \in Ran(subscope'[upref[s]])
    <3>1. CASE upref[s] = Doomed
      <4>1. PICK i \in DOMAIN list : list[i] = s
        BY <2>1, <3>1 DEF Ran, list
      <4>2. i # 1
        BY <1>6, <2>1, <4>1
      <4>3. i - 1 \in DOMAIN rest /\ rest[i - 1] = s
        BY <1>1, <1>4, <4>1, <4>2
      <4> QED
        BY <3>1, <4>3 DEF Ran, rest
    <3>2. CASE upref[s] # Doomed
      <4>1. upref[s] \in Scope
        BY <2>1, Around0
      <4> QED
        BY <1>1, <2>1, <3>2, <4>1
    <3> QED
      BY <3>1, <3>2
  <2>2. \A s \in Scope :
          \/ s \in Gone
          \/ upref[s] # 0 /\ s \in Ran(subscope[upref[s]])
          \/ upref[s] = 0 /\ status # "destroyed"
    BY DEF Forest, Reached
  <2>3. \A s \in Scope :
          \/ s \in Gone \cup {x}
          \/ upref[s] # 0 /\ s \in Ran(subscope'[upref[s]])
          \/ upref[s] = 0 /\ status # "destroyed"
    BY <2>1, <2>2
  <2> QED
    BY <1>3, <1>7, <2>3 DEF Reached, Ran
<1>10. Descending'
  <2>1. \A i, j \in DOMAIN doomed' : doomed'[i] = doomed'[j] => i = j
    <3>1. \A i \in 1 .. n : doomed[i] # x
      BY <1>4, <1>6 DEF Gone, Ran
    <3>2. \A i, j \in 1 .. n : doomed[i] = doomed[j] => i = j
      BY <1>4 DEF Forest, Descending
    <3> QED
      BY <1>1, <1>4, <3>1, <3>2
  <2>2. Ran(doomed') \cap Ran(freed') = {}
    BY <1>1, <1>6, <1>7 DEF Gone, Forest, Descending
  <2>3. doomed'[1] = global
    <3>1. doomed # <<>>
      BY DEF ScopeDestroy
    <3> QED
      BY <1>1, <3>1 DEF Forest, Descending
  <2>4. \A i \in 2 .. Len(doomed') : doomed'[i] = tag \/ upref'[doomed'[i]] = doomed'[i - 1]
    <3>1. \A i \in 2 .. n : doomed[i] = tag \/ upref[doomed[i]] = doomed[i - 1]
      BY DEF Forest, Descending, n
    <3>2. upref[doomed'[n + 1]] = doomed'[n]
      BY <1>1, <1>6
    <3>3. ASSUME NEW i \in 2 .. n + 1
          PROVE  doomed'[i] = tag \/ upref[doomed'[i]] = doomed'[i - 1]
      <4>1. CASE i = n + 1
        BY <1>1, <3>2, <4>1
      <4>2. CASE i # n + 1
        BY <1>1, <3>1, <4>2
      <4> QED
        BY <4>1, <4>2
    <3> QED
      BY <1>1, <1>3, <3>3
  <2> QED
    BY <2>1, <2>2, <2>3, <2>4 DEF Descending
<1>11. NotYet' /\ Roots' /\ FreedInward'
  <2>1. status = "destroyed"
    BY DEF Forest, NotYet, ScopeDestroy
  <2> QED
    BY <1>1, <1>3, <2>1 DEF Forest, NotYet, Roots, FreedInward
<1> QED
  BY <1>8, <1>9, <1>10, <1>11 DEF Forest

(* A call frees its scope, after those in it.                               *)
LEMMA PopForest == TypeOK /\ Forest /\ ScopeDestroy /\ Inside = <<>> => Forest'
<1> SUFFICES ASSUME TypeOK, Forest, ScopeDestroy, Inside = <<>> PROVE Forest'
  OBVIOUS
<1> DEFINE n == Len(doomed)
           m == Len(freed)
           x == Doomed
<1>1. /\ n \in Nat \ {0} /\ x = doomed[n] /\ x \in Scope
      /\ subscope[x] = <<>> /\ subscope' = subscope
      /\ Len(doomed') = n - 1 /\ \A i \in 1 .. n - 1 : doomed'[i] = doomed[i]
      /\ Len(freed') = m + 1 /\ freed'[m + 1] = x
      /\ \A i \in 1 .. m : freed'[i] = freed[i]
  BY DestroyFrees
<1>2. doomed' \in Seq(Scope) /\ freed' \in Seq(Scope)
  BY DestroyFrees
<1>3. upref' = upref /\ Scope' = Scope /\ status' = status
  BY DEF ScopeDestroy, Scope
<1>4. /\ DOMAIN doomed = 1 .. n /\ DOMAIN doomed' = 1 .. n - 1
      /\ DOMAIN freed = 1 .. m /\ DOMAIN freed' = 1 .. m + 1 /\ m \in Nat
  <2>1. DOMAIN doomed' = 1 .. Len(doomed') /\ DOMAIN freed' = 1 .. Len(freed')
    BY <1>2, LenProperties
  <2>2. DOMAIN doomed = 1 .. n /\ DOMAIN freed = 1 .. m /\ m \in Nat
    BY Types
  <2> QED
    BY <1>1, <2>1, <2>2
<1> HIDE DEF n, m, x
<1>5. doomed # <<>> /\ doomed[1] = global
  BY DEF ScopeDestroy, Forest, Descending
<1>6. /\ \A i, j \in 1 .. n : doomed[i] = doomed[j] => i = j
      /\ \A i \in 1 .. n, j \in 1 .. m : doomed[i] # freed[j]
      /\ \A i \in 2 .. n : doomed[i] = tag \/ upref[doomed[i]] = doomed[i - 1]
  <2>1. \A i, j \in 1 .. n : doomed[i] = doomed[j] => i = j
    BY <1>4 DEF Forest, Descending
  <2>2. \A i \in 1 .. n, j \in 1 .. m : doomed[i] # freed[j]
    <3>1. Ran(doomed) \cap Ran(freed) = {}
      BY DEF Forest, Descending
    <3>2. ASSUME NEW i \in 1 .. n, NEW j \in 1 .. m PROVE doomed[i] \in Ran(doomed) /\ freed[j] \in Ran(freed)
      BY <1>4 DEF Ran
    <3> QED
      BY <3>1, <3>2
  <2> QED
    BY <2>1, <2>2 DEF Forest, Descending, n
<1>7. Ran(doomed) = Ran(doomed') \cup {x} /\ Ran(freed') = Ran(freed) \cup {x}
  <2>1. /\ \A y : y \in Ran(doomed') <=> \E i \in 1 .. n - 1 : doomed'[i] = y
        /\ \A y : y \in Ran(doomed) <=> \E i \in 1 .. n : doomed[i] = y
        /\ \A y : y \in Ran(freed') <=> \E i \in 1 .. m + 1 : freed'[i] = y
        /\ \A y : y \in Ran(freed) <=> \E i \in 1 .. m : freed[i] = y
    BY <1>4 DEF Ran
  <2>2. Ran(doomed) = Ran(doomed') \cup {x}
    BY <1>1, <2>1
  <2>3. Ran(freed') = Ran(freed) \cup {x}
    BY <1>1, <1>4, <2>1
  <2> QED
    BY <2>2, <2>3
<1>8. Gone' = Gone
  <2>1. Gone' = Ran(doomed') \cup Ran(freed')
    BY DEF Gone, Ran
  <2> QED
    BY <1>7, <2>1 DEF Gone
<1>9. Linked' /\ Reached' /\ Roots'
  <2>1. Linked'
    BY <1>1, <1>3, <1>8 DEF Forest, Linked
  <2>2. Reached'
    <3>1. \A s \in Scope : upref[s] # 0 /\ s \in Ran(subscope[upref[s]])
                            => upref'[s] # 0 /\ s \in Ran(subscope'[upref'[s]])
      BY <1>1, <1>3
    <3> QED
      BY <1>3, <1>8, <3>1 DEF Forest, Reached, Ran
  <2> QED
    BY <1>3, <2>1, <2>2 DEF Forest, Roots
<1>10. Descending'
  <2>1. \A i, j \in DOMAIN doomed' : doomed'[i] = doomed'[j] => i = j
    BY <1>1, <1>4, <1>6
  <2>2. Ran(doomed') \cap Ran(freed') = {}
    <3>1. ASSUME NEW y, y \in Ran(doomed') PROVE y \notin Ran(freed')
      <4>1. PICK i \in 1 .. n - 1 : doomed'[i] = y
        BY <1>4, <3>1 DEF Ran
      <4>2. doomed[i] = y /\ i \in 1 .. n /\ n \in 1 .. n /\ i # n
        BY <1>1, <4>1
      <4>3. y # x
        BY <1>1, <1>6, <4>2
      <4>4. y \notin Ran(freed)
        BY <1>4, <1>6, <4>2 DEF Ran
      <4> QED
        BY <1>7, <4>3, <4>4
    <3> QED
      BY <3>1
  <2>3. doomed' # <<>> => doomed'[1] = global
    <3>1. doomed' # <<>> => 1 \in 1 .. n - 1
      BY <1>1, <1>2, EmptySeq
    <3> QED
      BY <1>1, <1>5, <3>1
  <2>4. \A i \in 2 .. n - 1 : doomed'[i] = tag \/ upref[doomed'[i]] = doomed'[i - 1]
    BY <1>1, <1>6
  <2> QED
    BY <1>1, <1>3, <2>1, <2>2, <2>3, <2>4 DEF Descending
<1>11. ASSUME NEW s \in Scope, upref[s] = x PROVE \E j \in 1 .. m : freed[j] = s
  <2>1. upref[s] # 0
    BY <1>1, <1>11, Around0
  <2>2. s \in Gone
    <3>1. s \notin Ran(subscope[upref[s]])
      BY <1>1, <1>11 DEF Ran
    <3> QED
      BY <2>1, <3>1 DEF Forest, Reached
  <2>3. s \notin Ran(doomed)
    <3> SUFFICES ASSUME NEW k \in 1 .. n, doomed[k] = s PROVE FALSE
      BY <1>4 DEF Ran
    <3>1. s # tag /\ s # global
      BY <2>1 DEF Forest, Roots
    <3>2. k \in 2 .. n
      BY <1>1, <1>5, <3>1
    <3>3. doomed[k - 1] = doomed[n] /\ k - 1 \in 1 .. n /\ n \in 1 .. n
      BY <1>1, <1>6, <1>11, <3>1, <3>2
    <3>4. k - 1 = n
      BY <1>6, <3>3
    <3> QED
      BY <1>1, <3>2, <3>4
  <2> QED
    BY <1>4, <2>2, <2>3 DEF Gone, Ran
<1>12. FreedInward'
  <2>1. /\ \A i, j \in 1 .. m : freed[i] = freed[j] => i = j
        /\ \A i \in 1 .. m : \A s \in Scope :
             upref[s] = freed[i] => \E j \in 1 .. i - 1 : freed[j] = s
    BY <1>4 DEF Forest, FreedInward
  <2>2. \A i \in 1 .. m : freed[i] # x
    BY <1>1, <1>6
  <2>3. \A i, j \in 1 .. m + 1 : freed'[i] = freed'[j] => i = j
    BY <1>1, <1>4, <2>1, <2>2
  <2>4. ASSUME NEW i \in 1 .. m + 1, NEW s \in Scope, upref[s] = freed'[i]
        PROVE  \E j \in 1 .. i - 1 : freed'[j] = s
    <3>1. CASE i = m + 1
      <4>1. PICK j \in 1 .. m : freed[j] = s
        BY <1>1, <1>11, <2>4, <3>1
      <4> QED
        BY <1>1, <1>4, <3>1, <4>1
    <3>2. CASE i \in 1 .. m
      <4>1. PICK j \in 1 .. i - 1 : freed[j] = s
        BY <1>1, <2>1, <2>4, <3>2
      <4>2. j \in 1 .. m
        BY <1>4, <3>2, <4>1
      <4> QED
        BY <1>1, <4>1, <4>2
    <3> QED
      BY <1>4, <3>1, <3>2
  <2> QED
    BY <1>3, <1>4, <2>3, <2>4 DEF FreedInward
<1>13. NotYet'
  BY <1>3, <1>5 DEF Forest, NotYet
<1> QED
  BY <1>9, <1>10, <1>12, <1>13 DEF Forest

(* Every step keeps the forest.                                             *)
LEMMA ForestStep == TypeOK /\ Forest /\ [Next]_vars => Forest'
<1> SUFFICES ASSUME TypeOK, Forest, [Next]_vars PROVE Forest'
  OBVIOUS
<1>1. CASE Enter
  BY <1>1, EnterForest
<1>2. CASE Destroy
  BY <1>2, DestroyForest
<1>3. CASE ScopeDestroy
  BY <1>3, PushForest, PopForest
<1> DEFINE Same == /\ UNCHANGED <<upref, subscope, doomed, freed>>
                   /\ \/ status' = status
                      \/ status = "open" /\ status' = "crash"
<1>4. CASE Same
  <2>1. /\ upref' = upref /\ subscope' = subscope /\ doomed' = doomed /\ freed' = freed
        /\ Scope' = Scope /\ (status' = "destroyed" <=> status = "destroyed")
    BY <1>4 DEF Scope
  <2>2. Gone' = Gone
    BY <2>1 DEF Gone, Ran
  <2>3. Linked' /\ Roots' /\ FreedInward' /\ NotYet'
    BY <2>1, <2>2 DEF Forest, Linked, Roots, FreedInward, NotYet
  <2>4. Reached'
    <3>1. \A s \in Scope : s \in Ran(subscope[upref[s]]) => s \in Ran(subscope'[upref'[s]])
      BY <2>1
    <3> QED
      BY <2>1, <2>2, <3>1 DEF Forest, Reached, Ran
  <2>5. Descending'
    BY <2>1 DEF Forest, Descending, Ran
  <2> QED
    BY <2>3, <2>4, <2>5 DEF Forest
<1>5. ReadNull => Same
  BY DEF ReadNull, Called, tree
<1>6. ScopeLookup \/ Leave \/ UNCHANGED vars => Same
  BY DEF ScopeLookup, Leave, vars, tree, ends
<1>7. \A v \in Symbol : Install(v) \/ Remove(v) => Same
  BY DEF Install, Remove, tree, ends
<1>8. \A n \in Name : LookUp(n) => Same
  BY DEF LookUp, tree, ends
<1> HIDE DEF Same
<1> QED
  BY <1>1, <1>2, <1>3, <1>4, <1>5, <1>6, <1>7, <1>8 DEF Next

(* When no call is under way, every scope was freed: the one first created  *)
(* of those that were not is in one that was.                               *)
LEMMA AllFreed ==
  ASSUME TypeOK, Forest, status = "destroyed", doomed = <<>>, NEW s \in Scope
  PROVE  s \in Ran(freed)
<1> DEFINE left == Scope \ Ran(freed)
<1>1. SUFFICES ASSUME left # {} PROVE FALSE
  OBVIOUS
<1>2. Scope = 1 .. Len(upref) /\ Len(upref) \in Nat
  BY Types
<1>3. PICK first \in left : \A r \in left : ~ (r < first)
  <2>1. left \subseteq Nat
    BY <1>2
  <2> HIDE DEF left
  <2>2. PICK first \in left : \A r \in left : ~ (<<r, first>> \in OpToRel(<, Nat))
    BY <1>1, <2>1, NatLessThanWellFounded, WFMin
  <2> QED
    BY <2>1, <2>2 DEF OpToRel
<1>4. Gone = Ran(freed)
  BY DEF Gone, Ran
<1>5. upref[first] # 0 /\ upref[first] < first /\ upref[first] \in Scope
  <2>1. upref[first] # 0
    BY <1>4 DEF Forest, Reached
  <2> QED
    BY <2>1, Around0 DEF TypeOK
<1>6. upref[first] \in Ran(freed)
  BY <1>3, <1>5
<1>7. PICK i \in DOMAIN freed : freed[i] = upref[first]
  BY <1>6 DEF Ran
<1>8. PICK j \in 1 .. i - 1 : freed[j] = first
  BY <1>7 DEF Forest, FreedInward
<1>9. j \in DOMAIN freed
  <2>1. DOMAIN freed = 1 .. Len(freed) /\ Len(freed) \in Nat
    BY Types
  <2> QED
    BY <1>7, <1>8, <2>1
<1> QED
  BY <1>8, <1>9 DEF Ran
-----------------------------------------------------------------------------

(* What the refinement rests on holds in every reachable state.             *)
THEOREM Invariance == Spec => []Inv
<1>1. Init => Inv
  BY TypeInit, ChainInit, ForestInit DEF Inv, Chain, Finding, Init, NoFind
<1>2. Inv /\ [Next]_vars => Inv'
  BY TypeStep, ChainStep, FindingStep, ForestStep DEF Inv, Chain
<1> QED
  BY <1>1, <1>2, PTL DEF Spec

(* The variables of a symbol table keep their types. *)
THEOREM SymtabTypes == Spec => []TypeOK
<1>1. Inv => TypeOK
  BY DEF Inv
<1> QED
  BY <1>1, Invariance, PTL

(* The current scope, its upref and so on are the scopes entered and not    *)
(* left, up to the global one, however many there are.                      *)
THEOREM ChainCorrect == Spec => []ChainIsPath
<1>1. Inv => ChainIsPath
  BY DEF Inv
<1> QED
  BY <1>1, Invariance, PTL

(* A table that is destroyed frees every scope ever entered, each once and  *)
(* after the scopes in it, however they were entered and left.              *)
THEOREM DestroyedWhole == Spec => []FreedOnce
<1>1. Inv => FreedOnce
  <2> SUFFICES ASSUME Inv PROVE FreedOnce
    OBVIOUS
  <2>1. FreedInward /\ (freed # <<>> => status = "destroyed")
    BY DEF Inv, Forest, NotYet
  <2>2. ASSUME status = "destroyed", doomed = <<>>, NEW s \in Scope
        PROVE  \E i \in DOMAIN freed : freed[i] = s
    <3>1. s \in Ran(freed)
      BY <2>2, AllFreed DEF Inv
    <3> QED
      BY <3>1 DEF Ran
  <2> QED
    BY <2>1, <2>2 DEF FreedOnce, FreedInward
<1> QED
  BY <1>1, Invariance, PTL
-----------------------------------------------------------------------------
(* The stack of environments                                                *)

Env == IF status = "destroyed" THEN <<>> ELSE [i \in DOMAIN path |-> lookup[path[i]]]

(* The symbols along a path of scopes. *)
LEMMA Along ==
  ASSUME NEW S, NEW p, p \in Seq(S), NEW l, l \in Seq(SUBSET Symbol), DOMAIN l = S,
         NEW e, e = [i \in DOMAIN p |-> l[p[i]]]
  PROVE  /\ Len(p) \in Nat /\ e \in Seq(SUBSET Symbol) /\ Len(e) = Len(p)
         /\ \A i \in 1 .. Len(p) : e[i] = l[p[i]]
<1>1. /\ Len(p) \in Nat /\ DOMAIN p = 1 .. Len(p)
      /\ \A i \in 1 .. Len(p) : p[i] \in S
      /\ \A s \in S : l[s] \in SUBSET Symbol
  BY LenProperties, ElementOfSeq
<1>2. e = [i \in 1 .. Len(p) |-> l[p[i]]]
  BY <1>1
<1>3. e \in [1 .. Len(p) -> SUBSET Symbol]
  BY <1>1, <1>2
<1>4. e \in Seq(SUBSET Symbol)
  BY <1>1, <1>3, SeqDef
<1>5. DOMAIN e = 1 .. Len(p) /\ Len(e) \in Nat /\ DOMAIN e = 1 .. Len(e)
  BY <1>3, <1>4, LenProperties
<1> QED
  BY <1>1, <1>2, <1>4, <1>5

(* The stack has the symbols of the scopes of the path, *)
LEMMA EnvIs ==
  ASSUME TypeOK, status # "destroyed"
  PROVE  /\ Len(path) \in Nat /\ Env \in Seq(SUBSET Symbol) /\ Len(Env) = Len(path)
         /\ \A i \in 1 .. Len(path) : Env[i] = lookup[path[i]]
<1>1. /\ path \in Seq(Scope) /\ lookup \in Seq(SUBSET Symbol) /\ DOMAIN lookup = Scope
      /\ Env = [i \in DOMAIN path |-> lookup[path[i]]]
  BY DEF TypeOK, Env
<1> HIDE DEF Env
<1> QED
  BY <1>1, Along

(* also after a step. *)
LEMMA EnvBecomes ==
  ASSUME TypeOK', status' # "destroyed"
  PROVE  /\ Len(path') \in Nat /\ Env' \in Seq(SUBSET Symbol) /\ Len(Env') = Len(path')
         /\ \A i \in 1 .. Len(path') : Env'[i] = lookup'[path'[i]]
<1>1. /\ path' \in Seq(Scope') /\ lookup' \in Seq(SUBSET Symbol) /\ DOMAIN lookup' = Scope'
      /\ Env' = [i \in DOMAIN path' |-> lookup'[path'[i]]]
  BY DEF TypeOK, Env
<1>2. PICK S, p, l, e : S = Scope' /\ p = path' /\ l = lookup' /\ e = Env'
  OBVIOUS
<1>3. /\ p \in Seq(S) /\ l \in Seq(SUBSET Symbol) /\ DOMAIN l = S
      /\ e = [i \in DOMAIN p |-> l[p[i]]]
  BY <1>1, <1>2
<1>4. /\ Len(p) \in Nat /\ e \in Seq(SUBSET Symbol) /\ Len(e) = Len(p)
      /\ \A i \in 1 .. Len(p) : e[i] = l[p[i]]
  BY <1>3, Along
<1> QED
  BY <1>2, <1>4

(* A step that touches neither the path nor the symbols in it is invisible. *)
LEMMA Unseen ==
  ASSUME UNCHANGED <<path, lookup, answer>>,
         status' = status \/ (status # "destroyed" /\ status' # "destroyed")
  PROVE  UNCHANGED SS!vars
BY DEF SS!vars

(* A fresh table is one empty environment. *)
LEMMA InitRefines == Init => SS!Init
<1> SUFFICES ASSUME Init PROVE SS!Init
  OBVIOUS
<1>1. TypeOK
  BY TypeInit
<1>2. status # "destroyed" /\ path = <<global>> /\ lookup[global] = {} /\ global = 2
  BY DEF Init, global
<1>3. Len(path) = 1 /\ path[1] = global
  BY <1>2
<1>4. Env \in Seq(SUBSET Symbol) /\ Len(Env) = 1 /\ Env[1] = {}
  BY <1>1, <1>2, <1>3, EnvIs
<1>5. Env = <<{}>>
  BY <1>4
<1> QED
  BY <1>5 DEF SS!Init, SS!Nothing, SS!Answer, Init, Env

(* Entering a scope adds an empty environment. *)
LEMMA EnterRefines == Inv /\ Enter => SS!Enter
<1> SUFFICES ASSUME Inv, Enter PROVE SS!Enter
  OBVIOUS
<1>1. TypeOK /\ TypeOK' /\ status # "destroyed" /\ status' # "destroyed"
  BY EnterTypes DEF Inv, Enter, Called, ends
<1>2. /\ Len(path) \in Nat /\ Env \in Seq(SUBSET Symbol) /\ Len(Env) = Len(path)
      /\ \A i \in 1 .. Len(path) : Env[i] = lookup[path[i]]
  BY <1>1, EnvIs
<1>3. /\ Env' \in Seq(SUBSET Symbol) /\ Len(Env') = Len(path')
      /\ \A i \in 1 .. Len(path') : Env'[i] = lookup'[path'[i]]
  BY <1>1, EnvBecomes
<1> DEFINE new == Len(upref) + 1
<1>4. new = Len(upref) + 1
  OBVIOUS
<1> HIDE DEF new
<1>5. /\ lookup'[new] = {} /\ \A s \in Scope : lookup'[s] = lookup[s]
      /\ Len(path') = Len(path) + 1
      /\ path'[Len(path) + 1] = new /\ \A i \in 1 .. Len(path) : path'[i] = path[i]
  BY <1>1, <1>4, EnterAdds
<1>6. \A i \in 1 .. Len(path) : path[i] \in Scope
  BY <1>1, Types
<1>7. \A i \in 1 .. Len(path) : Env'[i] = Env[i]
  BY <1>2, <1>3, <1>5, <1>6
<1>8. Env'[Len(path) + 1] = {}
  BY <1>2, <1>3, <1>5
<1>9. Env' = Append(Env, {})
  <2> PICK after : after = Env'
    OBVIOUS
  <2>1. /\ Append(Env, {}) \in Seq(SUBSET Symbol)
        /\ Len(Append(Env, {})) = Len(Env) + 1
        /\ \A i \in 1 .. Len(Env) : Append(Env, {})[i] = Env[i]
        /\ Append(Env, {})[Len(Env) + 1] = {}
    BY <1>2, AppendProperties, {} \in SUBSET Symbol
  <2>2. after \in Seq(SUBSET Symbol) /\ Len(after) = Len(Append(Env, {}))
    BY <1>2, <1>3, <1>5, <2>1
  <2>3. \A i \in 1 .. Len(after) : after[i] = Append(Env, {})[i]
    BY <1>2, <1>7, <1>8, <2>1, <2>2
  <2> QED
    BY <2>1, <2>2, <2>3, SeqEqual
<1>10. Env # <<>>
  <2>1. path # <<>>
    BY DEF Inv, ChainIsPath, Enter
  <2> QED
    BY <1>1, <1>2, <2>1, EmptySeq DEF TypeOK
<1> QED
  BY <1>9, <1>10 DEF SS!Enter, Env, Enter

(* Leaving one takes the last away. *)
LEMMA LeaveRefines == Inv /\ Leave => SS!Leave
<1> SUFFICES ASSUME Inv, Leave PROVE SS!Leave
  OBVIOUS
<1>1. TypeOK /\ TypeOK' /\ status # "destroyed" /\ status' # "destroyed"
  BY TypeStep DEF Inv, Leave, Called, ends, Next
<1>2. /\ Env \in Seq(SUBSET Symbol) /\ Len(Env) = Len(path)
      /\ \A i \in 1 .. Len(path) : Env[i] = lookup[path[i]]
  BY <1>1, EnvIs
<1>3. /\ Env' \in Seq(SUBSET Symbol) /\ Len(Env') = Len(path')
      /\ \A i \in 1 .. Len(path') : Env'[i] = lookup'[path'[i]]
  BY <1>1, EnvBecomes
<1>4. /\ Len(path) \in Nat \ {0} /\ Len(path') = Len(path) - 1 /\ lookup' = lookup
      /\ \A i \in 1 .. Len(path) - 1 : path'[i] = path[i]
  BY LeaveDrops DEF Inv, Leave
<1>5. Env # <<>>
  BY <1>2, <1>4, EmptySeq
<1>6. Env' = SubSeq(Env, 1, Len(Env) - 1)
  <2> PICK after : after = Env'
    OBVIOUS
  <2>1. /\ SubSeq(Env, 1, Len(Env) - 1) \in Seq(SUBSET Symbol)
        /\ Len(SubSeq(Env, 1, Len(Env) - 1)) = Len(Env) - 1
        /\ \A i \in 1 .. Len(Env) - 1 : SubSeq(Env, 1, Len(Env) - 1)[i] = Env[i]
    BY <1>2, <1>5, WithoutLast
  <2>2. /\ after \in Seq(SUBSET Symbol) /\ Len(after) = Len(Env) - 1
        /\ \A i \in 1 .. Len(Env) - 1 : after[i] = Env[i]
    BY <1>2, <1>3, <1>4
  <2> QED
    BY <2>1, <2>2, SeqEqual
<1> QED
  BY <1>5, <1>6 DEF SS!Leave, SS!Top, Env, Leave

(* A change of the current scope is one of the last environment: no other   *)
(* scope of the path is the current one.                                    *)
LEMMA ChangeIsLast ==
  ASSUME Inv, TypeOK', current # 0, status # "destroyed", status' # "destroyed", path' = path,
         NEW e, e \in SUBSET Symbol, lookup' = [lookup EXCEPT ![current] = e]
  PROVE  /\ Env # <<>> /\ Env[Len(Env)] = lookup[current]
         /\ Env' = [Env EXCEPT ![Len(Env)] = e]
<1>1. /\ Len(path) \in Nat /\ Env \in Seq(SUBSET Symbol) /\ Len(Env) = Len(path)
      /\ \A i \in 1 .. Len(path) : Env[i] = lookup[path[i]]
  BY EnvIs DEF Inv
<1>2. /\ Env' \in Seq(SUBSET Symbol) /\ Len(Env') = Len(path)
      /\ \A i \in 1 .. Len(path) : Env'[i] = lookup'[path[i]]
  BY EnvBecomes
<1>3. path # <<>> /\ current = path[Len(path)] /\ path \in Seq(Scope)
  BY DEF Inv, ChainIsPath, TypeOK
<1>4. Len(path) \in Nat \ {0} /\ \A i \in 1 .. Len(path) : path[i] \in Scope
  BY <1>3, EmptySeq, ElementOfSeq
<1>5. Env # <<>> /\ Env[Len(Env)] = lookup[current]
  BY <1>1, <1>3, <1>4, EmptySeq
<1>6. \A s \in Scope : lookup'[s] = IF s = current THEN e ELSE lookup[s]
  BY <1>3, <1>4, LookupChanges DEF Inv
<1>7. \A i \in 1 .. Len(path) - 1 : path[i] # current
  <2> SUFFICES ASSUME NEW i \in 1 .. Len(path) - 1 PROVE path[i] < path[Len(path)] /\ path[i] \in Nat
    BY <1>3, <1>4, Types DEF Inv
  <2>1. i \in DOMAIN path /\ Len(path) \in DOMAIN path /\ i < Len(path)
    BY <1>4, Types DEF Inv
  <2>2. path[i] < path[Len(path)]
    BY <2>1 DEF Inv, Rising
  <2> QED
    BY <1>4, <2>1, <2>2, Types DEF Inv
<1>8. \A i \in 1 .. Len(Env) : Env'[i] = IF i = Len(Env) THEN e ELSE Env[i]
  BY <1>1, <1>2, <1>3, <1>4, <1>6, <1>7
<1>9. Env' = [Env EXCEPT ![Len(Env)] = e]
  <2> PICK after : after = Env'
    OBVIOUS
  <2>1. /\ [Env EXCEPT ![Len(Env)] = e] \in Seq(SUBSET Symbol)
        /\ Len([Env EXCEPT ![Len(Env)] = e]) = Len(Env)
        /\ \A i \in 1 .. Len(Env) : [Env EXCEPT ![Len(Env)] = e][i] = IF i = Len(Env) THEN e ELSE Env[i]
    <3>1. Len(Env) \in 1 .. Len(Env)
      BY <1>1, <1>4
    <3> HIDE DEF Env
    <3> QED
      BY <1>1, <3>1, ExceptSeq
  <2>2. /\ after \in Seq(SUBSET Symbol) /\ Len(after) = Len(Env)
        /\ \A i \in 1 .. Len(Env) : after[i] = IF i = Len(Env) THEN e ELSE Env[i]
    BY <1>1, <1>2, <1>8
  <2> PICK changed : changed = [Env EXCEPT ![Len(Env)] = e]
    OBVIOUS
  <2>3. after = changed
    <3>1. /\ changed \in Seq(SUBSET Symbol) /\ Len(changed) = Len(Env)
          /\ \A i \in 1 .. Len(Env) : changed[i] = IF i = Len(Env) THEN e ELSE Env[i]
      BY <2>1
    <3>2. Len(changed) = Len(after) /\ \A i \in 1 .. Len(changed) : changed[i] = after[i]
      BY <2>2, <3>1
    <3> QED
      BY <2>2, <3>1, <3>2, SeqEqual
  <2> QED
    BY <2>3
<1> QED
  BY <1>5, <1>9

(* Installing and removing change the last environment alike; an            *)
(* installation that fails changes none.                                    *)
LEMMA InstallRefines ==
  ASSUME Inv, NEW v \in Symbol, Install(v)
  PROVE  SS!Install(v) \/ UNCHANGED SS!vars
<1> DEFINE e == Added(lookup[current], v)
<1>1. TypeOK' /\ status # "destroyed" /\ status' # "destroyed" /\ current # 0 /\ path' = path
  BY TypeStep DEF Inv, Install, Called, ends, Next
<1>2. lookup[current] \in SUBSET Symbol
  BY <1>1, Types DEF Inv, TypeOK
<1>3. CASE UNCHANGED lookup
  <2>1. Env' = Env /\ answer' = answer
    BY <1>1, <1>3 DEF Env, Install
  <2> QED
    BY <2>1 DEF SS!vars, Env
<1> SUFFICES ASSUME lookup' = [lookup EXCEPT ![current] = Added(@, v)] PROVE SS!Install(v)
  BY <1>3 DEF Install
<1>4. e \in SUBSET Symbol /\ lookup' = [lookup EXCEPT ![current] = e]
  BY <1>2 DEF Added
<1> HIDE DEF e
<1>5. Env # <<>> /\ Env[Len(Env)] = lookup[current] /\ Env' = [Env EXCEPT ![Len(Env)] = e]
  BY <1>1, <1>4, ChangeIsLast
<1>6. e = SS!Added(Env[Len(Env)], v)
  BY <1>5 DEF e, Added, SS!Added, Has, SS!Has
<1>7. Env' = [Env EXCEPT ![Len(Env)] = SS!Added(Env[Len(Env)], v)]
  BY <1>5, <1>6
<1> QED
  BY <1>5, <1>7 DEF SS!Install, SS!Top, Env, Install

(* As for InstallRefines. *)
LEMMA RemoveRefines == ASSUME Inv, NEW v \in Symbol, Remove(v) PROVE SS!Remove(NameOf[v])
<1> DEFINE e == Without(lookup[current], NameOf[v])
<1>1. TypeOK' /\ status # "destroyed" /\ status' # "destroyed" /\ current # 0 /\ path' = path
  BY TypeStep DEF Inv, Remove, Called, ends, Next
<1>2. lookup[current] \in SUBSET Symbol
  BY <1>1, Types DEF Inv, TypeOK
<1>3. e \in SUBSET Symbol /\ lookup' = [lookup EXCEPT ![current] = e]
  BY <1>2 DEF Without, Remove
<1> HIDE DEF e
<1>4. Env # <<>> /\ Env[Len(Env)] = lookup[current] /\ Env' = [Env EXCEPT ![Len(Env)] = e]
  BY <1>1, <1>3, ChangeIsLast
<1>5. e = SS!Without(Env[Len(Env)], NameOf[v])
  BY <1>4 DEF e, Without, SS!Without
<1>6. Env' = [Env EXCEPT ![Len(Env)] = SS!Without(Env[Len(Env)], NameOf[v])]
  BY <1>4, <1>5
<1> QED
  BY <1>4, <1>6 DEF SS!Remove, SS!Top, Env, Remove

(* A lookup answers in one step, and walks unseen. *)
LEMMA LookupRefines ==
  ASSUME Inv, ScopeLookup
  PROVE  find.name \in Name /\ (SS!Lookup(find.name) \/ UNCHANGED SS!vars)
<1>1. /\ find.name \in Name /\ status' = status /\ path' = path /\ lookup' = lookup
      /\ status = "open"
  BY DEF Inv, TypeOK, Finding, ScopeLookup, ends
<1>2. Env' = Env
  BY <1>1 DEF Env
<1>3. PICK i \in 0 .. Len(path) :
        /\ find.at = At(i)
        /\ \A j \in i + 1 .. Len(path) : ~Has(lookup[path[j]], find.name)
  BY DEF Inv, Finding, ScopeLookup
<1>4. /\ Len(path) \in Nat /\ Len(Env) = Len(path)
      /\ \A j \in 1 .. Len(path) : Env[j] = lookup[path[j]]
  BY <1>1, EnvIs DEF Inv
<1>5. \A j \in i + 1 .. Len(Env) : ~SS!Has(Env[j], find.name)
  <2> SUFFICES ASSUME NEW j \in i + 1 .. Len(Env) PROVE ~SS!Has(Env[j], find.name)
    OBVIOUS
  <2>1. Env[j] = lookup[path[j]] /\ ~Has(lookup[path[j]], find.name)
    BY <1>3, <1>4
  <2> QED
    BY <2>1 DEF Has, SS!Has
<1>6. CASE find.at = 0 /\ Found(Null)
  <2>1. i = 0
    <3>1. 0 \notin Scope /\ path \in [1 .. Len(path) -> Scope] /\ TypeOK
      <4>1. TypeOK
        BY DEF Inv
      <4> QED
        BY <4>1, Types
    <3>2. i # 0 => i \in 1 .. Len(path)
      BY <1>4
    <3> HIDE DEF Scope
    <3>3. i # 0 => path[i] # 0
      BY <3>1, <3>2
    <3> QED
      BY <1>3, <1>6, <3>3 DEF At
  <2>2. answer' = SS!Answer(find.name, Null)
    BY <1>6 DEF Found, SS!Answer
  <2>3. \A j \in 1 .. Len(Env) : ~SS!Has(Env[j], find.name)
    BY <1>5, <2>1
  <2> QED
    BY <1>1, <1>2, <2>2, <2>3 DEF SS!Lookup, SS!Top, Env
<1>7. ASSUME find.at # 0, NEW v \in lookup[find.at], <<find.name, NameOf[v]>> \in Extends, Found(v)
      PROVE  SS!Lookup(find.name)
  <2>1. i \in 1 .. Len(Env) /\ Env[i] = lookup[find.at]
    BY <1>3, <1>4, <1>7 DEF At
  <2>2. answer' = SS!Answer(find.name, v) /\ v \in Env[i]
    BY <1>7, <2>1 DEF Found, SS!Answer
  <2>3. \E n \in 1 .. Len(Env) :
          /\ \A j \in n + 1 .. Len(Env) : ~SS!Has(Env[j], find.name)
          /\ \E w \in Env[n] : <<find.name, NameOf[w]>> \in Extends /\ answer' = SS!Answer(find.name, w)
    BY <1>5, <1>7, <2>1, <2>2
  <2> QED
    BY <1>2, <2>3 DEF SS!Lookup, SS!Top, Env
<1>8. CASE UNCHANGED answer
  BY <1>1, <1>8, Unseen
<1> QED
  BY <1>1, <1>6, <1>7, <1>8 DEF ScopeLookup

(* Every step is one of the stack of environments, or unseen. *)
LEMMA StepRefines == Inv /\ [Next]_vars => [SS!Next]_(SS!vars)
<1> SUFFICES ASSUME Inv, [Next]_vars PROVE SS!Next \/ UNCHANGED SS!vars
  OBVIOUS
<1>1. CASE Enter
  BY <1>1, EnterRefines DEF SS!Next
<1>2. CASE Leave
  BY <1>2, LeaveRefines DEF SS!Next
<1>3. ASSUME NEW v \in Symbol, Install(v) PROVE SS!Next \/ UNCHANGED SS!vars
  BY <1>3, InstallRefines DEF SS!Next
<1>4. ASSUME NEW v \in Symbol, Remove(v) PROVE SS!Next
  BY <1>4, RemoveRefines, SymbolAssumption DEF SS!Next
<1>5. CASE ReadNull
  BY <1>5, Unseen DEF ReadNull, Called
<1>6. ASSUME NEW n \in Name, LookUp(n) PROVE UNCHANGED SS!vars
  BY <1>6, Unseen DEF LookUp, ends
<1>7. CASE ScopeLookup
  BY <1>7, LookupRefines DEF SS!Next
<1>8. CASE Destroy
  <2>1. Env' = <<>> /\ answer' = answer
    BY <1>8 DEF Destroy, Env
  <2> QED
    BY <2>1 DEF SS!Next, SS!Destroy, Env
<1>9. CASE ScopeDestroy
  BY <1>9, Unseen DEF ScopeDestroy
<1>10. CASE UNCHANGED vars
  BY <1>10, Unseen DEF vars, ends
<1> QED
  BY <1>1, <1>2, <1>3, <1>4, <1>5, <1>6, <1>7, <1>8, <1>9, <1>10 DEF Next

(* The table behaves as a stack of environments: each call has its effect   *)
(* in one step, and a lookup finds what searching the stack would find.     *)
THEOREM Refinement == Spec => ImplementsScopes
<1> USE InitRefines, StepRefines
<1> QED
  BY Invariance, PTL DEF Spec, SS!Spec, ImplementsScopes
=============================================================================
