------------------------------ MODULE AssocMap ------------------------------
(***************************************************************************)
(* What a client of include/qcc/hashmap.h may rely on: a set of entries,   *)
(* at most one per key, that insertions extend, removals shrink and        *)
(* nothing else changes.  The first insertion of a key wins.               *)
(*                                                                         *)
(* The lookup is weaker than the header suggests.  hashmap_nretrieve       *)
(* compares with strncmp over the length of the key asked for, so it may   *)
(* answer with the entry of a LONGER key.  What does hold is: a stored key *)
(* is never answered with null, and an answer extends the key asked for.   *)
(* When no key is a proper prefix of another this is an exact lookup.      *)
(***************************************************************************)
CONSTANTS
  Key,        \* the keys, C strings compared with strcmp
  Value,      \* the values, opaque pointers
  Extends,    \* <<k, l>> \in Extends: k is a prefix of l (reflexive)
  NoKey       \* stands for the key of a call that has none

VARIABLES
  store,      \* the entries of the map
  answer      \* what the last call returned

Entry == [key : Key, value : Value]

Ops == {"none", "insert", "remove", "retrieve", "enumerate", "grow"}

Answer(op, k, ok, found) ==
  [op |-> op, key |-> k, ok |-> ok, found |-> found]

Stored(k) == \E e \in store : e.key = k

Init ==
  /\ store = {}
  /\ answer = Answer("none", NoKey, TRUE, {})

(* A new key is added; the entry of a stored key is kept as it is.          *)
Insert(k, v) ==
  /\ store' = IF Stored(k) THEN store
              ELSE store \cup {[key |-> k, value |-> v]}
  /\ answer' = Answer("insert", k, TRUE, {})

(* The table has reached its limit.                                         *)
InsertFails(k) ==
  /\ answer' = Answer("insert", k, FALSE, {})
  /\ UNCHANGED store

Remove(k) ==
  /\ store' = {e \in store : e.key # k}
  /\ answer' = Answer("remove", k, Stored(k), {})

Retrieve(k) ==
  /\ \/ \E e \in store : /\ <<k, e.key>> \in Extends
                         /\ answer' = Answer("retrieve", k, TRUE, {e})
     \/ /\ ~ Stored(k)
        /\ answer' = Answer("retrieve", k, FALSE, {})
  /\ UNCHANGED store

Enumerate ==
  /\ answer' = Answer("enumerate", NoKey, TRUE, store)
  /\ UNCHANGED store

(* Growing moves the entries to a larger table or refuses: same entries.    *)
Grow ==
  /\ \E ok \in BOOLEAN : answer' = Answer("grow", NoKey, ok, {})
  /\ UNCHANGED store

Destroy ==
  /\ store' = {}
  /\ answer' = Answer("none", NoKey, TRUE, {})

Next ==
  \/ \E k \in Key, v \in Value : Insert(k, v)
  \/ \E k \in Key : InsertFails(k) \/ Remove(k) \/ Retrieve(k)
  \/ Enumerate
  \/ Grow
  \/ Destroy

vars == <<store, answer>>

Spec == Init /\ [][Next]_vars
=============================================================================
