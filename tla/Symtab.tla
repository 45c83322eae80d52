------------------------------- MODULE Symtab -------------------------------
(***************************************************************************)
(* src/symbol.c: scopes linked upwards by upref and downwards by subscope. *)
(* A scope is named by its number in the order of their creation; 1 is the *)
(* tag scope, 2 the global one, 0 is NULL.  The hash map of a scope is the *)
(* set of its symbols with AssocMap's promises: the first symbol of a name *)
(* stays, and a lookup may answer with a longer name.  scope_lookup and    *)
(* scope_destroy call themselves; a call is a step.                        *)
(***************************************************************************)
EXTENDS Integers, Sequences

CONSTANTS
  Symbol,
  Name, NameOf, \* the identifiers, and the one of each symbol
  Extends,      \* <<n, m>> \in Extends: n is a prefix of m (reflexive)
  Null,         \* no symbol, no name
  MaxScopes     \* bound: scopes created

ASSUME SymbolAssumption ==
  /\ NameOf \in [Symbol -> Name]
  /\ \A n \in Name : <<n, n>> \in Extends
  /\ Null \notin Name /\ Null \notin Symbol

VARIABLES
  upref, subscope, lookup, \* of each scope: the one around it, those in it, its symbols
  current,                 \* table->current
  scopeOf,                 \* symbol->scope
  find,                    \* scope_lookup in progress: the name and the scope it is at
  answer,                  \* what the last lookup answered, and for which name
  doomed,                  \* the calls of scope_destroy in progress
  freed,                   \* the scopes freed, in order
  status,                  \* "open", "destroyed" or "crash" (current is NULL and read)
  path                     \* not in the code: the scopes entered and not left

tree == <<upref, subscope>>
ends == <<doomed, freed, status>>
vars == <<tree, lookup, current, scopeOf, find, answer, ends, path>>

tag == 1
global == 2
Scope == DOMAIN upref
NoFind == [name |-> Null, at |-> 0]

Has(symbols, n) == \E v \in symbols : NameOf[v] = n
Added(symbols, v) == IF Has(symbols, NameOf[v]) THEN symbols ELSE symbols \cup {v}
Without(symbols, n) == {v \in symbols : NameOf[v] # n}

Init ==
  /\ upref = <<0, 0>> /\ subscope = <<<<>>, <<>>>>
  /\ lookup = <<{}, {}>>
  /\ current = global
  /\ scopeOf = [v \in Symbol |-> 0]
  /\ find = NoFind
  /\ answer = [name |-> Null, symbol |-> Null]
  /\ doomed = <<>> /\ freed = <<>>
  /\ status = "open"
  /\ path = <<global>>

Called == status = "open" /\ find = NoFind /\ doomed = <<>>
-----------------------------------------------------------------------------
(* A new scope is first in the list of the current one, and becomes it.     *)
(* Mutant: every scope is around by the global one only.                    *)
AroundGlobal == global
Around == current

Enter ==
  /\ Called /\ current # 0
  /\ Len(upref) < MaxScopes
  /\ upref' = Append(upref, Around)
  /\ subscope' = Append([subscope EXCEPT ![current] = <<Len(upref) + 1>> \o @], <<>>)
  /\ lookup' = Append(lookup, {})
  /\ current' = Len(upref) + 1
  /\ path' = Append(path, Len(upref) + 1)
  /\ UNCHANGED <<scopeOf, find, answer, ends>>

(* Leaving the global scope makes current NULL.                             *)
Leave ==
  /\ Called /\ current # 0
  /\ current' = upref[current]
  /\ path' = SubSeq(path, 1, Len(path) - 1)
  /\ UNCHANGED <<tree, lookup, scopeOf, find, answer, ends>>

(* The symbol gets the scope whether or not the scope keeps it, which it    *)
(* does not when its map is full.                                           *)
Install(v) ==
  /\ Called /\ current # 0
  /\ scopeOf' = [scopeOf EXCEPT ![v] = current]
  /\ \/ lookup' = [lookup EXCEPT ![current] = Added(@, v)]
     \/ UNCHANGED lookup
  /\ UNCHANGED <<tree, current, find, answer, ends, path>>

(* By name: the symbol removed need not be the one given.                   *)
Remove(v) ==
  /\ Called /\ current # 0
  /\ lookup' = [lookup EXCEPT ![current] = Without(@, NameOf[v])]
  /\ UNCHANGED <<tree, current, scopeOf, find, answer, ends, path>>

(* Any of the four reads through current.                                   *)
ReadNull ==
  /\ Called /\ current = 0
  /\ status' = "crash"
  /\ UNCHANGED <<tree, lookup, current, scopeOf, find, answer, doomed, freed, path>>
-----------------------------------------------------------------------------
LookUp(n) ==
  /\ Called
  /\ find' = [name |-> n, at |-> current]
  /\ UNCHANGED <<tree, lookup, current, scopeOf, answer, ends, path>>

Found(v) == answer' = [name |-> find.name, symbol |-> v] /\ find' = NoFind

(* The scope around is asked next.  Mutant: the global scope is.            *)
OutwardGlobal == find' = [find EXCEPT !.at = IF @ = global THEN 0 ELSE global]
Outward == find' = [find EXCEPT !.at = upref[@]]

ScopeLookup ==
  /\ find.name # Null
  /\ \/ /\ find.at = 0
        /\ Found(Null)
     \/ /\ find.at # 0
        /\ \E v \in lookup[find.at] : <<find.name, NameOf[v]>> \in Extends /\ Found(v)
     \/ /\ find.at # 0
        /\ ~Has(lookup[find.at], find.name)
        /\ Outward
        /\ UNCHANGED answer
  /\ UNCHANGED <<tree, lookup, current, scopeOf, ends, path>>
-----------------------------------------------------------------------------
Destroy ==
  /\ Called
  /\ status' = "destroyed"
  /\ doomed' = <<global, tag>>
  /\ UNCHANGED <<tree, lookup, current, scopeOf, find, answer, freed, path>>

Doomed == doomed[Len(doomed)]
Callers == SubSeq(doomed, 1, Len(doomed) - 1)

(* Mutant: the scopes inside stay.                                          *)
InsideNone == <<>>
Inside == subscope[Doomed]

ScopeDestroy ==
  /\ doomed # <<>>
  /\ \/ /\ Inside # <<>>
        /\ subscope' = [subscope EXCEPT ![Doomed] = Tail(@)]
        /\ doomed' = Append(doomed, Head(Inside))
        /\ UNCHANGED freed
     \/ /\ Inside = <<>>
        /\ freed' = Append(freed, Doomed)
        /\ doomed' = Callers
        /\ UNCHANGED subscope
  /\ UNCHANGED <<upref, lookup, current, scopeOf, find, answer, status, path>>

Next ==
  \/ Enter \/ Leave \/ ReadNull \/ ScopeLookup \/ Destroy \/ ScopeDestroy
  \/ \E v \in Symbol : Install(v) \/ Remove(v)
  \/ \E n \in Name : LookUp(n)

Spec == Init /\ [][Next]_vars
-----------------------------------------------------------------------------
(* Type correctness; every scope has its fields, and a lookup is at a scope *)
(* or past the last.                                                        *)
TypeOK ==
  /\ upref \in Seq(Nat) /\ Len(upref) >= 2
  /\ \A s \in Scope : upref[s] < s
  /\ subscope \in Seq(Seq(Scope)) /\ DOMAIN subscope = Scope
  /\ lookup \in Seq(SUBSET Symbol) /\ DOMAIN lookup = Scope
  /\ current \in Scope \cup {0}
  /\ scopeOf \in [Symbol -> Scope \cup {0}]
  /\ find \in [name : Name \cup {Null}, at : Scope \cup {0}]
  /\ answer \in [name : Name \cup {Null}, symbol : Symbol \cup {Null}]
  /\ doomed \in Seq(Scope) /\ freed \in Seq(Scope)
  /\ status \in {"open", "destroyed", "crash"}
  /\ path \in Seq(Scope)

(* The uprefs from the current scope are the scopes entered and not left,   *)
(* the last one first, up to the global one, however scopes were entered    *)
(* and left; NULL is read only when more scopes were left than entered.     *)
ChainIsPath ==
  /\ current = IF path = <<>> THEN 0 ELSE path[Len(path)]
  /\ path # <<>> => path[1] = global
  /\ \A i \in DOMAIN path : upref[path[i]] = IF i = 1 THEN 0 ELSE path[i - 1]
  /\ status = "crash" => path = <<>>

(* Destroying the table frees every scope ever entered, each once and after *)
(* the scopes inside it, and none before.                                   *)
FreedOnce ==
  /\ \A i, j \in DOMAIN freed : freed[i] = freed[j] => i = j
  /\ \A i \in DOMAIN freed : \A s \in Scope :
       upref[s] = freed[i] => \E j \in 1 .. i - 1 : freed[j] = s
  /\ freed # <<>> => status = "destroyed"
  /\ status = "destroyed" /\ doomed = <<>> => \A s \in Scope : \E i \in DOMAIN freed : freed[i] = s

SS == INSTANCE ScopeStack WITH
  env <- IF status = "destroyed" THEN <<>> ELSE [i \in DOMAIN path |-> lookup[path[i]]]

(* The table is a stack of environments; a lookup answers as if it searched *)
(* the stack from the top at once.                                          *)
ImplementsScopes == SS!Spec
=============================================================================
