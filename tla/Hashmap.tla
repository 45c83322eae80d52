------------------------------ MODULE Hashmap -------------------------------
(***************************************************************************)
(* src/hashmap.c: open addressing with linear probing and tombstones.      *)
(*                                                                         *)
(* A slot of entries is Empty (key NULL), Tomb (key HASHMAP_TOMB) or holds *)
(* an entry.  Every call is a probe loop, and every turn of a loop is a    *)
(* step here, so that a call that never returns is a behaviour of the      *)
(* model.  hashmap_grow re-inserts the entries of the old table one by one *)
(* through a nested hashmap_insert, whose probe loop is pc = "rehash".     *)
(*                                                                         *)
(* Strings are abstracted to keys with their 64-bit FNV hash (Hash) and    *)
(* the relation "is a prefix of" (Extends), which is all strcmp, strncmp   *)
(* and the probe order tell apart.                                         *)
(***************************************************************************)
EXTENDS Integers, FiniteSets

CONSTANTS
  Key, Value,
  Extends,       \* <<k, l>> \in Extends: k is a prefix of l (reflexive)
  Hash,          \* the hash of a key, before the reduction to a slot
  Default,       \* HASHMAP_DEFAULT, the capacity of a new table
  Limit,         \* HASHMAP_LIMIT, the largest capacity
  Empty, Tomb,   \* the two slot contents that are not an entry
  NoKey, NoValue \* the arguments of a call that has none

Entry == [key : Key, value : Value]

ASSUME KeyAssumption ==
  /\ Hash \in [Key -> Nat]
  /\ Extends \subseteq Key \X Key
  /\ \A k \in Key : <<k, k>> \in Extends
  /\ NoKey \notin Key /\ NoValue \notin Value

ASSUME SlotAssumption == Empty \notin Entry /\ Tomb \notin Entry /\ Empty # Tomb

ASSUME CapacityAssumption == Default \in Nat \ {0} /\ Limit \in Nat

VARIABLES
  entries,    \* the slots of the table, a function on 0 .. capacity-1
  in_use,     \* slots that are not Empty: tombstones count
  capacity,
  pc,         \* where the running call is
  key, value, \* the arguments of the running call
  index,      \* the slot its probe loop looks at
  old,        \* hashmap_grow: the table being left (tmp.entries)
  next,       \* hashmap_grow: the next slot of old to move (i)
  ret         \* what the last call returned

vars == <<entries, in_use, capacity, pc, key, value, index, old, next, ret>>
table == <<entries, in_use, capacity>>
growth == <<old, next>>

NoIndex == -1  \* the -1 of an int result, the null of an Entry* result

Slots(t) == DOMAIN t
IsActive(slot) == slot \notin {Empty, Tomb}
Home(k, c) == Hash[k] % c
SuccNoWrap(i) == i + 1  \* mutant
SuccClamps(i) == IF i + 1 = capacity THEN i ELSE i + 1  \* mutant
Succ(i) == (i + 1) % capacity
Blank(c) == [i \in 0 .. c - 1 |-> Empty]
NoTable == Blank(0)

GrowableStrictly == 2 * capacity < Limit  \* mutant
Growable == 2 * capacity <= Limit

FullLate == in_use > capacity  \* mutant
Full == in_use >= capacity

(* strcmp: the slot holds k itself.  strncmp over strlen(k): it holds k or  *)
(* a key that k is a prefix of.                                             *)
Holds(slot, k) == IsActive(slot) /\ slot.key = k
Matches(slot, k) == IsActive(slot) /\ <<k, slot.key>> \in Extends

(* The entries a table contains, in no particular order.                    *)
Contents(t) == {t[i] : i \in {j \in Slots(t) : IsActive(t[j])}}

Result(op, k, i, found) == [op |-> op, key |-> k, index |-> i, found |-> found]

(* A call is over: its frame is dropped and its result is visible.          *)
Return(op, i, found) ==
  /\ ret' = Result(op, key, i, found)
  /\ pc' = "idle"
  /\ key' = NoKey /\ value' = NoValue /\ index' = 0

Init ==
  /\ entries = Blank(Default)
  /\ in_use = 0
  /\ capacity = Default
  /\ pc = "idle"
  /\ key = NoKey /\ value = NoValue
  /\ index = 0
  /\ old = NoTable /\ next = 0
  /\ ret = Result("none", NoKey, 0, {})
-----------------------------------------------------------------------------
(* hashmap_grow                                                             *)

(* The table is replaced by a blank one of twice the capacity.  Mutant: the *)
(* count of slots in use is kept.                                           *)
RenewKeepsCount == entries' = Blank(2 * capacity) /\ UNCHANGED in_use
Renew == entries' = Blank(2 * capacity) /\ in_use' = 0

StartGrow ==
  /\ Growable
  /\ old' = entries /\ next' = 0
  /\ Renew
  /\ capacity' = 2 * capacity
  /\ pc' = "grow"

(* One turn of the loop over the old table.  A live entry is handed to the  *)
(* nested hashmap_insert.  Were the new table full the nested call would    *)
(* grow in turn; the guard ~ Full leaves that out, and a state that needed  *)
(* it would be a deadlock of the model.                                     *)
GrowStep ==
  /\ pc = "grow"
  /\ next \in Slots(old)
  /\ \/ /\ ~ IsActive(old[next])
        /\ next' = next + 1
        /\ UNCHANGED <<pc, index>>
     \/ /\ IsActive(old[next])
        /\ ~ Full
        /\ pc' = "rehash"
        /\ index' = Home(old[next].key, capacity)
        /\ UNCHANGED next
  /\ UNCHANGED <<table, key, value, old, ret>>

(* The probe loop of hashmap_insert, shared by the call and the nested one.  *)
(* It stops at an Empty slot, which takes the entry, or at the slot of the  *)
(* key, which is kept.  Tombstones are walked over, never reused.           *)
LandsOnPrefix(k) == entries[index] = Empty \/ Matches(entries[index], k)  \* mutant
Lands(k) == entries[index] = Empty \/ Holds(entries[index], k)

(* Mutant: the entry of a stored key is overwritten.                        *)
PutOverwrites(k, v) ==
  /\ entries' = [entries EXCEPT ![index] = [key |-> k, value |-> v]]
  /\ in_use' = IF entries[index] = Empty THEN in_use + 1 ELSE in_use

Put(k, v) ==
  IF entries[index] = Empty
  THEN /\ entries' = [entries EXCEPT ![index] = [key |-> k, value |-> v]]
       /\ in_use' = in_use + 1
  ELSE UNCHANGED <<entries, in_use>>

(* One turn of the nested insert's loop; when it lands, i moves on.         *)
Rehash ==
  /\ pc = "rehash"
  /\ \/ /\ Lands(old[next].key)
        /\ Put(old[next].key, old[next].value)
        /\ next' = next + 1
        /\ pc' = "grow" /\ index' = 0
     \/ /\ ~ Lands(old[next].key)
        /\ index' = Succ(index)
        /\ UNCHANGED <<entries, in_use, next, pc>>
  /\ UNCHANGED <<capacity, key, value, old, ret>>

(* The interrupted insert goes on, with the slot the key has in the new     *)
(* table.  Mutant: with the slot it had in the old one.                     *)
ResumeStale == pc' = "insert" /\ index' = Home(key, Cardinality(Slots(old)))
Resume == pc' = "insert" /\ index' = Home(key, capacity)

(* The old table is freed.                                                  *)
EndGrow ==
  /\ pc = "grow"
  /\ next \notin Slots(old)
  /\ old' = NoTable /\ next' = 0
  /\ \/ /\ key = NoKey
        /\ Return("grow", capacity, {})
     \/ /\ key # NoKey
        /\ Resume
        /\ UNCHANGED <<key, value, ret>>
  /\ UNCHANGED table

(* hashmap_grow called on its own.                                          *)
Grow ==
  /\ pc = "idle"
  /\ \/ /\ StartGrow
        /\ UNCHANGED <<key, value, index, ret>>
     \/ /\ ~ Growable
        /\ Return("grow", NoIndex, {})
        /\ UNCHANGED <<table, growth>>
-----------------------------------------------------------------------------
(* hashmap_insert                                                           *)

Insert(k, v) ==
  /\ pc = "idle"
  /\ \/ /\ ~ Full
        /\ pc' = "insert"
        /\ key' = k /\ value' = v
        /\ index' = Home(k, capacity)
        /\ UNCHANGED <<table, growth, ret>>
     \/ /\ Full
        /\ StartGrow
        /\ key' = k /\ value' = v
        /\ UNCHANGED <<index, ret>>
     \/ /\ Full
        /\ ~ Growable
        /\ ret' = Result("insert", k, NoIndex, {})
        /\ UNCHANGED <<table, growth, pc, key, value, index>>

(* One turn of the loop: the result is the slot of the key, old or new.     *)
InsertProbe ==
  /\ pc = "insert"
  /\ \/ /\ Lands(key)
        /\ Put(key, value)
        /\ Return("insert", index, {})
     \/ /\ ~ Lands(key)
        /\ index' = Succ(index)
        /\ UNCHANGED <<entries, in_use, pc, key, value, ret>>
  /\ UNCHANGED <<capacity, growth>>
-----------------------------------------------------------------------------
(* hashmap_remove, hashmap_retrieve, hashmap_enumerate                      *)

Lookup(op, k) ==
  /\ pc = "idle"
  /\ pc' = op
  /\ key' = k
  /\ index' = Home(k, capacity)
  /\ UNCHANGED <<table, value, growth, ret>>

Remove(k) == Lookup("remove", k)
Retrieve(k) == Lookup("retrieve", k)

(* The slot becomes a tombstone and stays in use.  Mutants: it is emptied;  *)
(* it is no longer counted.                                                 *)
EvictEmpties == entries' = [entries EXCEPT ![index] = Empty] /\ in_use' = in_use - 1
EvictUncounts == entries' = [entries EXCEPT ![index] = Tomb] /\ in_use' = in_use - 1
Evict == entries' = [entries EXCEPT ![index] = Tomb] /\ UNCHANGED in_use

RemoveProbe ==
  /\ pc = "remove"
  /\ \/ /\ entries[index] = Empty
        /\ Return("remove", NoIndex, {})
        /\ UNCHANGED <<entries, in_use>>
     \/ /\ Holds(entries[index], key)
        /\ Evict
        /\ Return("remove", index, {})
     \/ /\ ~ Lands(key)
        /\ index' = Succ(index)
        /\ UNCHANGED <<entries, in_use, pc, key, value, ret>>
  /\ UNCHANGED <<capacity, growth>>

RetrieveProbe ==
  /\ pc = "retrieve"
  /\ \/ /\ entries[index] = Empty
        /\ Return("retrieve", NoIndex, {})
     \/ /\ Matches(entries[index], key)
        /\ Return("retrieve", index, {entries[index]})
     \/ /\ entries[index] # Empty
        /\ ~ Matches(entries[index], key)
        /\ index' = Succ(index)
        /\ UNCHANGED <<pc, key, value, ret>>
  /\ UNCHANGED <<table, growth>>

Enumerate ==
  /\ pc = "idle"
  /\ Return("enumerate", 0, IF in_use > 0 THEN Contents(entries) ELSE {})
  /\ UNCHANGED <<table, growth>>
-----------------------------------------------------------------------------
(* hashmap_destroy frees the table; hashmap_create makes a new one.         *)

Destroy ==
  /\ pc = "idle"
  /\ pc' = "destroyed"
  /\ ret' = Result("none", NoKey, 0, {})
  /\ UNCHANGED <<table, key, value, index, growth>>

Create ==
  /\ pc = "destroyed"
  /\ entries' = Blank(Default)
  /\ in_use' = 0
  /\ capacity' = Default
  /\ pc' = "idle"
  /\ UNCHANGED <<key, value, index, growth, ret>>

Call ==
  \/ \E k \in Key, v \in Value : Insert(k, v)
  \/ \E k \in Key : Remove(k) \/ Retrieve(k)
  \/ Enumerate
  \/ Grow
  \/ Destroy
  \/ Create

(* The turns of the loops: a call in progress is the only thing that runs.  *)
Step == GrowStep \/ Rehash \/ EndGrow \/ InsertProbe \/ RemoveProbe \/ RetrieveProbe

Next == Call \/ Step

Spec == Init /\ [][Next]_vars

(* The caller may stop calling, but a loop that can turn again does.        *)
FairSpec == Spec /\ WF_vars(Step)
-----------------------------------------------------------------------------
(* Type correctness.  An index is a slot of the current table, the old      *)
(* table exists only while it is being left and is half as large, and the   *)
(* arguments are those of a call in progress.                               *)
TypeOK ==
  /\ capacity \in Nat \ {0}
  /\ entries \in [0 .. capacity - 1 -> Entry \cup {Empty, Tomb}]
  /\ in_use \in Nat
  /\ pc \in {"idle", "insert", "remove", "retrieve", "grow", "rehash", "destroyed"}
  /\ key \in Key \cup {NoKey}
  /\ value \in Value \cup {NoValue}
  /\ index \in 0 .. capacity - 1
  /\ next \in Nat
  /\ ret \in [op : {"none", "insert", "remove", "retrieve", "enumerate", "grow"},
             key : Key \cup {NoKey}, index : Int, found : SUBSET Entry]
  /\ IF pc \in {"grow", "rehash"}
     THEN \E c \in 1 .. capacity : /\ capacity = 2 * c
                               /\ old \in [0 .. c - 1 -> Entry \cup {Empty, Tomb}]
     ELSE old = NoTable
  /\ pc \in {"idle", "destroyed"} => key = NoKey /\ value = NoValue /\ index = 0
  /\ pc \in {"insert", "remove", "retrieve"} => key \in Key
  /\ pc \in {"insert", "grow", "rehash"} /\ key \in Key => value \in Value
  /\ pc = "destroyed" => ret.op = "none"

InUse(t) == {i \in Slots(t) : t[i] # Empty}

(* in_use, which decides when to grow, counts the slots that can no longer  *)
(* stop a probe: entries and tombstones, also across a growth.              *)
UsedCount == in_use = Cardinality(InUse(entries))

(* A key sits in one slot at most: a tombstone on the way does not make an  *)
(* insertion miss the entry behind it.                                      *)
DistinctKeys(t) ==
  \A i, j \in Slots(t) :
    IsActive(t[i]) /\ IsActive(t[j]) /\ t[i].key = t[j].key => i = j

UniqueKeys == DistinctKeys(entries)

(* The slots a probe that starts at h passes before it gets to i.           *)
OnPath(h, i, j) == IF h <= i THEN h <= j /\ j < i ELSE h <= j \/ j < i

(* The probe for a stored key meets no Empty slot before it gets there,     *)
(* whatever was removed since the key was inserted.                         *)
Chained(t, c) ==
  \A i, j \in Slots(t) :
    IsActive(t[i]) /\ OnPath(Home(t[i].key, c), i, j) => t[j] # Empty

ProbeChain == Chained(entries, capacity)

(* An insertion only ever walks a table that has an Empty slot to stop at,  *)
(* the nested insertions of a growth included.                              *)
RoomToInsert ==
  pc \in {"insert", "rehash"} => \E i \in Slots(entries) : entries[i] = Empty

(* What the running probe has passed: neither an Empty slot, where it would *)
(* have stopped, nor the slot of the key it is for.                         *)
Target == IF pc = "rehash" THEN old[next].key ELSE key

Passed(t, c, k, i) ==
  \A j \in Slots(t) :
    OnPath(Home(k, c), i, j) => t[j] # Empty /\ ~ Holds(t[j], k)

ProbedSlots ==
  pc \in {"insert", "remove", "retrieve", "rehash"} =>
    Passed(entries, capacity, Target, index)

(* A growth under way has moved exactly the entries of the slots it is      *)
(* done with, left the tombstones behind, and used no more slots than it    *)
(* has gone through: the nested insertion never finds the new table full.   *)
Moved == [i \in 0 .. next - 1 |-> old[i]]

GrowthMoves ==
  pc \in {"grow", "rehash"} =>
    /\ 2 * next <= capacity
    /\ pc = "rehash" => next \in Slots(old) /\ IsActive(old[next])
    /\ DistinctKeys(old)
    /\ Contents(entries) = Contents(Moved)
    /\ Tomb \notin {entries[i] : i \in Slots(entries)}
    /\ in_use <= next

(* -1 from hashmap_insert means that every slot of a table that may not     *)
(* grow any more is in use, by an entry or by a tombstone.                  *)
FailsOnlyAtLimit ==
  pc = "idle" /\ ret.op = "insert" /\ ret.index = NoIndex =>
    InUse(entries) = Slots(entries) /\ 2 * capacity > Limit

(* Any other result of hashmap_insert is the slot the key is in.            *)
IndexIsOfKey ==
  pc = "idle" /\ ret.op = "insert" /\ ret.index # NoIndex =>
    ret.index \in Slots(entries) /\ Holds(entries[ret.index], ret.key)

(* A slot that was in use stays in use as long as the table lives: only a   *)
(* growth, which changes the capacity, gets rid of tombstones.              *)
SlotsOnlyFill ==
  [][pc # "destroyed" /\ capacity' = capacity => InUse(entries) \subseteq InUse(entries)']_vars

(* The map this table stands for.  Until a growth is over it is what the    *)
(* old table contains.                                                      *)
Store ==
  CASE pc = "destroyed" -> {}
    [] pc \in {"grow", "rehash"} -> Contents(old)
    [] OTHER -> Contents(entries)

AM == INSTANCE AssocMap WITH
        store <- Store,
        answer <- [op |-> ret.op, key |-> ret.key,
                   ok |-> ret.index # NoIndex, found |-> ret.found]

(* Every call does to the map what AssocMap says, in one step of its loop;  *)
(* every other step, all of a growth included, leaves the map alone.        *)
ImplementsMap == AM!Spec

(* Under fairness an insertion returns, growth or not.                      *)
InsertReturns == pc \in {"insert", "grow", "rehash"} ~> pc = "idle"

(* So do removal and lookup as long as the table has an Empty slot.         *)
LookupReturns ==
  /\ pc \in {"remove", "retrieve"}
  /\ \E i \in Slots(entries) : entries[i] = Empty
  ~> pc = "idle"
-----------------------------------------------------------------------------
(* What the comment at src/hashmap.c:133 promises, "null for error, no      *)
(* entry found", and the code does not keep.                                *)

(* A lookup returns.  The probe stops at the key or at an Empty slot, and a *)
(* full table, which is a table an insertion may leave, has neither.        *)
RetrieveReturns == pc = "retrieve" ~> pc = "idle"
=============================================================================
