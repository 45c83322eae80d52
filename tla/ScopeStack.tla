----------------------------- MODULE ScopeStack -----------------------------
(***************************************************************************)
(* What a client of include/qcc/symbol.h may rely on: a stack of           *)
(* environments, the current one last.  The first symbol installed under a *)
(* name stays; installing may fail, which changes nothing (AssocMap's      *)
(* InsertFails).  A lookup answers from an environment no further out than *)
(* the innermost one that has the name, and NULL only if none has; the     *)
(* answer may have a longer name, which is all AssocMap promises.          *)
(***************************************************************************)
EXTENDS Sequences, Integers

CONSTANTS
  Symbol,
  Name, NameOf, \* the identifiers, and the one of each symbol
  Extends,      \* <<n, m>> \in Extends: n is a prefix of m (reflexive)
  Null

VARIABLES
  env,          \* the symbols of each open scope
  answer        \* what the last lookup answered, and for which name

Has(symbols, n) == \E v \in symbols : NameOf[v] = n
Added(symbols, v) == IF Has(symbols, NameOf[v]) THEN symbols ELSE symbols \cup {v}
Without(symbols, n) == {v \in symbols : NameOf[v] # n}
Answer(n, v) == [name |-> n, symbol |-> v]
Nothing == Answer(Null, Null)

Top == Len(env)

Init == env = <<{}>> /\ answer = Nothing

Enter == env # <<>> /\ env' = Append(env, {}) /\ UNCHANGED answer
Leave == env # <<>> /\ env' = SubSeq(env, 1, Top - 1) /\ UNCHANGED answer

Install(v) ==
  /\ env # <<>>
  /\ env' = [env EXCEPT ![Top] = Added(@, v)]
  /\ UNCHANGED answer

Remove(n) ==
  /\ env # <<>>
  /\ env' = [env EXCEPT ![Top] = Without(@, n)]
  /\ UNCHANGED answer

Lookup(n) ==
  /\ \/ \E i \in 1 .. Top :
          /\ \A j \in i + 1 .. Top : ~Has(env[j], n)
          /\ \E v \in env[i] : <<n, NameOf[v]>> \in Extends /\ answer' = Answer(n, v)
     \/ /\ \A j \in 1 .. Top : ~Has(env[j], n)
        /\ answer' = Answer(n, Null)
  /\ UNCHANGED env

Destroy == env' = <<>> /\ UNCHANGED answer

Next ==
  \/ Enter \/ Leave \/ Destroy
  \/ \E v \in Symbol : Install(v)
  \/ \E n \in Name : Remove(n) \/ Lookup(n)

vars == <<env, answer>>

Spec == Init /\ [][Next]_vars
=============================================================================
