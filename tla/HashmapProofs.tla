--------------------------- MODULE HashmapProofs ----------------------------
(***************************************************************************)
(* Proofs about Hashmap for every set of keys and values, every hash       *)
(* function and every choice of HASHMAP_DEFAULT and HASHMAP_LIMIT: the     *)
(* invariants of the table, and that it implements the map of AssocMap.    *)
(***************************************************************************)
EXTENDS Hashmap, FiniteSetTheorems, TLAPS

Slot == Entry \cup {Empty, Tomb}
Table(c) == [0 .. c - 1 -> Slot]

(* RoomToInsert as the code decides it: by the count.                       *)
InsertCounted == pc = "insert" => in_use < capacity

(* The inductive invariant.                                                 *)
Inv ==
  /\ TypeOK
  /\ UsedCount
  /\ UniqueKeys
  /\ ProbeChain
  /\ ProbedSlots
  /\ GrowthMoves
  /\ InsertCounted
-----------------------------------------------------------------------------
(* Slots and probe paths                                                    *)

(* The home slot of a key is a slot (hashmap_hash reduces modulo size). *)
LEMMA HomeIsSlot ==
  ASSUME NEW k \in Key, NEW c \in Nat \ {0}
  PROVE  Home(k, c) \in 0 .. c - 1
<1>1. Hash[k] \in Nat
  BY KeyAssumption
<1> QED
  BY <1>1 DEF Home

(* The next slot of a probe is a slot, the first one after the last. *)
LEMMA SuccIsNext ==
  ASSUME capacity \in Nat \ {0}, NEW i \in 0 .. capacity - 1
  PROVE  Succ(i) = IF i + 1 = capacity THEN 0 ELSE i + 1
<1>1. CASE i + 1 = capacity
  BY <1>1 DEF Succ
<1>2. CASE i + 1 < capacity
  BY <1>2 DEF Succ
<1> QED
  BY <1>1, <1>2

(* Advancing a probe by one slot adds that slot to its path, no other.      *)
LEMMA PathStep ==
  ASSUME NEW c \in Nat \ {0}, NEW h \in 0 .. c - 1, NEW i \in 0 .. c - 1,
         NEW j \in 0 .. c - 1,
         OnPath(h, IF i + 1 = c THEN 0 ELSE i + 1, j)
  PROVE  OnPath(h, i, j) \/ j = i
BY DEF OnPath

(* Of two slots, a probe meets one before the other.                        *)
LEMMA PathTotal ==
  ASSUME NEW h \in Int, NEW i \in Int, NEW j \in Int, i # j
  PROVE  OnPath(h, i, j) \/ OnPath(h, j, i)
BY DEF OnPath

(* A probe that has not started has passed nothing.                         *)
LEMMA PathEmpty ==
  ASSUME NEW c \in Nat \ {0}, NEW t \in Table(c), NEW k \in Key
  PROVE  Passed(t, c, k, Home(k, c))
<1>1. Home(k, c) \in 0 .. c - 1
  BY HomeIsSlot
<1>2. \A j \in 0 .. c - 1 : ~ OnPath(Home(k, c), Home(k, c), j)
  BY <1>1 DEF OnPath
<1> QED
  BY <1>2 DEF Passed, Slots, Table

(* A probe goes on past a slot that is in use by something else.            *)
LEMMA PassedStep ==
  ASSUME capacity \in Nat \ {0}, entries \in Table(capacity),
         NEW k \in Key, index \in 0 .. capacity - 1,
         Passed(entries, capacity, k, index), ~ Lands(k)
  PROVE  /\ Succ(index) \in 0 .. capacity - 1
         /\ Passed(entries, capacity, k, Succ(index))
<1>1. Succ(index) = IF index + 1 = capacity THEN 0 ELSE index + 1
  BY SuccIsNext
<1>2. Home(k, capacity) \in 0 .. capacity - 1
  BY HomeIsSlot
<1>3. ASSUME NEW j \in Slots(entries), OnPath(Home(k, capacity), Succ(index), j)
      PROVE  entries[j] # Empty /\ ~ Holds(entries[j], k)
  <2>1. j \in 0 .. capacity - 1
    BY <1>3 DEF Slots, Table
  <2>2. OnPath(Home(k, capacity), index, j) \/ j = index
    BY <1>1, <1>2, <1>3, <2>1, PathStep
  <2> QED
    BY <1>3, <2>2 DEF Passed, Lands
<1> QED
  BY <1>1, <1>3 DEF Passed
-----------------------------------------------------------------------------
(* Tables                                                                   *)

(* A blank table (calloc) has no slot in use, no entry, no broken chain. *)
LEMMA BlankTable ==
  ASSUME NEW c \in Nat
  PROVE  /\ Blank(c) \in Table(c)
         /\ DistinctKeys(Blank(c))
         /\ Chained(Blank(c), c)
         /\ Contents(Blank(c)) = {}
         /\ Cardinality(InUse(Blank(c))) = 0
<1>1. InUse(Blank(c)) = {}
  BY DEF InUse, Blank, Slots
<1>2. Contents(Blank(c)) = {}
  BY DEF Contents, Blank, Slots, IsActive
<1> QED
  BY <1>1, <1>2, FS_EmptySet
     DEF Blank, Table, Slot, DistinctKeys, Chained, Slots, IsActive

(* The slots in use of a table are finitely many, at most its capacity. *)
LEMMA InUseFinite ==
  ASSUME NEW c \in Nat, NEW t \in Table(c)
  PROVE  /\ IsFiniteSet(InUse(t))
         /\ Cardinality(InUse(t)) \in Nat
         /\ Cardinality(InUse(t)) <= c
         /\ Cardinality(InUse(t)) = c => InUse(t) = 0 .. c - 1
<1>1. InUse(t) \in SUBSET (0 .. c - 1)
  BY DEF InUse, Slots, Table
<1>2. /\ IsFiniteSet(0 .. c - 1)
      /\ Cardinality(0 .. c - 1) = c
  BY FS_Interval
<1> QED
  BY <1>1, <1>2, FS_Subset, FS_CardinalityType

(* A probe that comes to an Empty slot has passed every slot its key could  *)
(* be in.                                                                   *)
LEMMA AbsentKey ==
  ASSUME capacity \in Nat \ {0}, entries \in Table(capacity),
         index \in 0 .. capacity - 1, ProbeChain,
         NEW k \in Key, entries[index] = Empty, Passed(entries, capacity, k, index)
  PROVE  \A j \in 0 .. capacity - 1 : ~ Holds(entries[j], k)
<1> SUFFICES ASSUME NEW j \in 0 .. capacity - 1, Holds(entries[j], k)
             PROVE  FALSE
  OBVIOUS
<1>1. Slots(entries) = 0 .. capacity - 1
  BY DEF Slots, Table
<1>2. index # j
  BY DEF Holds, IsActive
<1>3. ~ OnPath(Home(k, capacity), j, index)
  BY <1>1 DEF ProbeChain, Chained, Holds
<1>4. Home(k, capacity) \in 0 .. capacity - 1
  BY HomeIsSlot
<1>5. OnPath(Home(k, capacity), index, j)
  BY <1>2, <1>3, <1>4, PathTotal
<1> QED
  BY <1>1, <1>5 DEF Passed

(* A new entry in the Empty slot where the probe for its key ended.         *)
LEMMA PutKeeps ==
  ASSUME capacity \in Nat \ {0}, entries \in Table(capacity),
         index \in 0 .. capacity - 1, in_use \in Nat,
         UsedCount, UniqueKeys, ProbeChain,
         NEW k \in Key, NEW v \in Value, entries[index] = Empty,
         Passed(entries, capacity, k, index),
         Put(k, v), capacity' = capacity
  PROVE  /\ entries' \in Table(capacity)
         /\ in_use' = in_use + 1
         /\ UsedCount'
         /\ UniqueKeys'
         /\ ProbeChain'
         /\ Contents(entries') = Contents(entries) \cup {[key |-> k, value |-> v]}
         /\ \A e \in Contents(entries) : e.key # k
         /\ \A i \in 0 .. capacity - 1 : entries[i] # Tomb => entries'[i] # Tomb
<1> DEFINE e == [key |-> k, value |-> v]
           S == 0 .. capacity - 1
<1>1. e \in Entry /\ e.key = k /\ e # Empty /\ e # Tomb
  BY SlotAssumption DEF Entry
<1>2. /\ entries' = [entries EXCEPT ![index] = e] /\ in_use' = in_use + 1
  BY DEF Put
<1>3. /\ entries' \in Table(capacity)
      /\ entries'[index] = e
      /\ \A j \in S : j # index => entries'[j] = entries[j]
  BY <1>1, <1>2 DEF Table, Slot
<1>4. Slots(entries) = S /\ Slots(entries') = S
  BY <1>3 DEF Slots, Table
<1>5. \A j \in S : ~ Holds(entries[j], k)
  BY AbsentKey
<1>6. UniqueKeys'
  BY <1>1, <1>3, <1>4, <1>5 DEF UniqueKeys, DistinctKeys, Holds
<1>7. ProbeChain'
  <2> SUFFICES ASSUME NEW i \in S, NEW j \in S, IsActive(entries'[i]),
                      OnPath(Home(entries'[i].key, capacity), i, j)
               PROVE  entries'[j] # Empty
    BY <1>4 DEF ProbeChain, Chained
  <2>1. CASE j = index
    BY <2>1, <1>1, <1>3
  <2>2. CASE j # index /\ i = index
    BY <2>2, <1>1, <1>3, <1>4 DEF Passed
  <2>3. CASE j # index /\ i # index
    BY <2>3, <1>3, <1>4 DEF ProbeChain, Chained
  <2> QED
    BY <2>1, <2>2, <2>3
<1>8. Contents(entries') = Contents(entries) \cup {e}
  <2>1. IsActive(entries'[index]) /\ ~ IsActive(entries[index])
    BY <1>1, <1>3 DEF IsActive
  <2> QED
    BY <2>1, <1>3, <1>4 DEF Contents
<1>9. \A x \in Contents(entries) : x.key # k
  BY <1>4, <1>5 DEF Contents, Holds
<1>10. UsedCount'
  <2>1. InUse(entries') = InUse(entries) \cup {index} /\ index \notin InUse(entries)
    BY <1>1, <1>3, <1>4 DEF InUse
  <2>2. Cardinality(InUse(entries')) = Cardinality(InUse(entries)) + 1
    BY <2>1, InUseFinite, FS_AddElement
  <2> QED
    BY <2>2, <1>2 DEF UsedCount
<1>11. \A i \in S : entries[i] # Tomb => entries'[i] # Tomb
  BY <1>1, <1>3
<1> QED
  BY <1>2, <1>3, <1>6, <1>7, <1>8, <1>9, <1>10, <1>11

(* A tombstone in the slot of an entry.                                     *)
LEMMA EvictKeeps ==
  ASSUME capacity \in Nat \ {0}, entries \in Table(capacity),
         index \in 0 .. capacity - 1,
         UsedCount, UniqueKeys, ProbeChain,
         NEW k \in Key, Holds(entries[index], k),
         entries' = [entries EXCEPT ![index] = Tomb],
         UNCHANGED <<in_use, capacity>>
  PROVE  /\ entries' \in Table(capacity)
         /\ UsedCount'
         /\ UniqueKeys'
         /\ ProbeChain'
         /\ Contents(entries') = {e \in Contents(entries) : e.key # k}
<1> DEFINE S == 0 .. capacity - 1
<1>1. /\ entries' \in Table(capacity) /\ entries'[index] = Tomb
      /\ \A j \in S : j # index => entries'[j] = entries[j]
  BY DEF Table, Slot
<1>2. Slots(entries) = S /\ Slots(entries') = S
  BY <1>1 DEF Slots, Table
<1>3. UniqueKeys'
  BY <1>1, <1>2 DEF UniqueKeys, DistinctKeys, IsActive
<1>4. ProbeChain'
  BY <1>1, <1>2, SlotAssumption DEF ProbeChain, Chained, IsActive
<1>5. Contents(entries') = {e \in Contents(entries) : e.key # k}
  BY <1>1, <1>2 DEF Contents, IsActive, UniqueKeys, DistinctKeys, Holds
<1>6. UsedCount'
  <2>1. InUse(entries') = InUse(entries)
    BY <1>1, <1>2, SlotAssumption DEF InUse, Holds, IsActive
  <2> QED
    BY <2>1 DEF UsedCount
<1> QED
  BY <1>1, <1>3, <1>4, <1>5, <1>6
-----------------------------------------------------------------------------
(* The invariant is inductive: one lemma per action                         *)

(* What a table contains are entries. *)
LEMMA ContentsType ==
  ASSUME NEW c \in Nat, NEW t \in Table(c)
  PROVE  Contents(t) \in SUBSET Entry
BY DEF Contents, Slots, Table, Slot, IsActive

(* The table hashmap_create makes satisfies the invariant. *)
LEMMA InitInv == Init => Inv
<1> SUFFICES ASSUME Init PROVE Inv
  OBVIOUS
<1>1. Default \in Nat \ {0}
  BY CapacityAssumption
<1>2. TypeOK
  BY <1>1, BlankTable DEF Init, TypeOK, Table, Slot, Result
<1>3. UsedCount /\ UniqueKeys /\ ProbeChain
  BY <1>1, BlankTable DEF Init, UsedCount, UniqueKeys, ProbeChain
<1> QED
  BY <1>2, <1>3 DEF Init, Inv, ProbedSlots, GrowthMoves, InsertCounted

(* What the lemmas below need of the type invariant.                        *)
LEMMA Types ==
  ASSUME TypeOK
  PROVE  /\ capacity \in Nat \ {0}
         /\ entries \in Table(capacity)
         /\ index \in 0 .. capacity - 1
         /\ in_use \in Nat
BY DEF TypeOK, Table, Slot

(* The first part of hashmap_grow keeps the invariant. *)
LEMMA StartGrowInv ==
  ASSUME Inv, pc = "idle", StartGrow, UNCHANGED <<index, ret>>,
         \/ UNCHANGED <<key, value>>
         \/ key' \in Key /\ value' \in Value
  PROVE  Inv'
<1> DEFINE c == 2 * capacity
<1>1. capacity \in Nat \ {0} /\ entries \in Table(capacity) /\ c \in Nat \ {0}
  BY Types DEF Inv
<1>2. /\ capacity' = c /\ entries' = Blank(c) /\ in_use' = 0
      /\ old' = entries /\ next' = 0 /\ pc' = "grow"
  BY DEF StartGrow, Renew
<1>3. TypeOK'
  <2>1. entries' \in [0 .. c - 1 -> Entry \cup {Empty, Tomb}]
    BY <1>1, <1>2, BlankTable DEF Table, Slot
  <2>2. capacity \in 1 .. c /\ old' \in [0 .. capacity - 1 -> Entry \cup {Empty, Tomb}]
    BY <1>1, <1>2 DEF Table, Slot
  <2>3. \E d \in 1 .. capacity' : /\ capacity' = 2 * d
                                  /\ old' \in [0 .. d - 1 -> Entry \cup {Empty, Tomb}]
    BY <1>2, <2>2
  <2>4. index' = 0 /\ 0 \in 0 .. c - 1
    BY <1>1 DEF Inv, TypeOK
  <2>5. key' \in Key \cup {NoKey} /\ value' \in Value \cup {NoValue}
    BY DEF Inv, TypeOK
  <2>6. key' \in Key => value' \in Value
    BY KeyAssumption DEF Inv, TypeOK
  <2>7. ret' \in [op : {"none", "insert", "remove", "retrieve", "enumerate", "grow"},
                  key : Key \cup {NoKey}, index : Int, found : SUBSET Entry]
    BY DEF Inv, TypeOK
  <2> QED
    BY <1>1, <1>2, <2>1, <2>3, <2>4, <2>5, <2>6, <2>7 DEF TypeOK
<1>4. UsedCount' /\ UniqueKeys' /\ ProbeChain'
  BY <1>1, <1>2, BlankTable DEF UsedCount, UniqueKeys, ProbeChain
<1>5. GrowthMoves'
  <2>1. Contents(Moved') = {}
    BY <1>2 DEF Contents, Slots, Moved
  <2>2. Contents(entries') = {} /\ Tomb \notin {entries'[i] : i \in Slots(entries')}
    BY <1>1, <1>2, BlankTable, SlotAssumption DEF Blank, Slots
  <2>3. DistinctKeys(old')
    BY <1>2 DEF Inv, UniqueKeys
  <2> QED
    BY <1>1, <1>2, <2>1, <2>2, <2>3, 2 * next' <= capacity' DEF GrowthMoves
<1> QED
  BY <1>2, <1>3, <1>4, <1>5 DEF Inv, ProbedSlots, InsertCounted

(* A step that leaves the table alone and comes to rest.                    *)
LEMMA ReturnInv ==
  ASSUME Inv, pc \notin {"grow", "rehash"}, UNCHANGED <<table, growth>>,
         NEW op \in {"insert", "remove", "retrieve", "enumerate", "grow"},
         NEW i \in Int, NEW found \in SUBSET Entry, Return(op, i, found)
  PROVE  Inv'
<1>1. TypeOK'
  BY DEF Inv, TypeOK, Return, Result, table, growth
<1> QED
  BY <1>1 DEF Inv, UsedCount, UniqueKeys, ProbeChain, ProbedSlots, GrowthMoves,
              InsertCounted, Return, table, growth

(* hashmap_grow called on its own keeps the invariant. *)
LEMMA GrowInv == Inv /\ Grow => Inv'
<1> SUFFICES ASSUME Inv, Grow PROVE Inv'
  OBVIOUS
<1>1. CASE StartGrow /\ UNCHANGED <<key, value, index, ret>>
  BY <1>1, StartGrowInv DEF Grow
<1>2. CASE Return("grow", NoIndex, {}) /\ UNCHANGED <<table, growth>>
  BY <1>2, ReturnInv DEF Grow, NoIndex
<1> QED
  BY <1>1, <1>2 DEF Grow

(* A probe begins at the home slot of its key.                              *)
LEMMA StartProbeInv ==
  ASSUME Inv, pc = "idle", NEW k \in Key, UNCHANGED <<table, growth, ret>>,
         key' = k, index' = Home(k, capacity),
         \/ pc' \in {"remove", "retrieve"} /\ value' = value
         \/ pc' = "insert" /\ value' \in Value /\ in_use < capacity
  PROVE  Inv'
<1>1. capacity \in Nat \ {0} /\ entries \in Table(capacity)
  BY Types DEF Inv
<1>2. index' \in 0 .. capacity - 1
  BY <1>1, HomeIsSlot
<1>3. TypeOK'
  BY <1>2 DEF Inv, TypeOK, table, growth
<1>4. ProbedSlots'
  BY <1>1, PathEmpty DEF ProbedSlots, Target, table
<1> QED
  BY <1>3, <1>4 DEF Inv, UsedCount, UniqueKeys, ProbeChain, GrowthMoves,
                    InsertCounted, table

(* The call of hashmap_insert keeps the invariant, growing or not. *)
LEMMA InsertInv ==
  ASSUME Inv, NEW k \in Key, NEW v \in Value, Insert(k, v)
  PROVE  Inv'
<1> USE DEF Insert
<1>1. CASE ~ Full /\ pc' = "insert"
  <2>1. in_use < capacity
    BY <1>1, Types DEF Full, Inv
  <2> QED
    BY <1>1, <2>1, StartProbeInv DEF Full
<1>2. CASE Full /\ StartGrow
  BY <1>2, StartGrowInv DEF StartGrow
<1>3. CASE UNCHANGED <<table, growth, pc, key, value, index>>
  <2>1. ret' = Result("insert", k, NoIndex, {}) /\ pc' = "idle"
    BY <1>3 DEF StartGrow
  <2>2. TypeOK'
    BY <1>3, <2>1 DEF Inv, TypeOK, Result, NoIndex, table, growth
  <2> QED
    BY <1>3, <2>1, <2>2 DEF Inv, UsedCount, UniqueKeys, ProbeChain, ProbedSlots,
                            GrowthMoves, InsertCounted, table, growth
<1> QED
  BY <1>1, <1>2, <1>3

(* The call of a removal or a lookup keeps the invariant. *)
LEMMA LookupInv ==
  ASSUME Inv, NEW k \in Key, NEW op \in {"remove", "retrieve"}, Lookup(op, k)
  PROVE  Inv'
BY StartProbeInv DEF Lookup

(* A turn of a probe loop that does not end it.                             *)
LEMMA WalkInv ==
  ASSUME Inv, pc \in {"insert", "remove", "retrieve", "rehash"}, ~ Lands(Target),
         index' = Succ(index), UNCHANGED <<table, pc, key, value, growth, ret>>
  PROVE  Inv'
<1>1. /\ capacity \in Nat \ {0} /\ entries \in Table(capacity)
      /\ index \in 0 .. capacity - 1
  BY Types DEF Inv
<1>2. Target \in Key
  <2>1. CASE pc = "rehash"
    <3>1. IsActive(old[next]) /\ next \in Slots(old)
      BY <2>1 DEF Inv, GrowthMoves
    <3>2. PICK c \in 1 .. capacity : old \in [0 .. c - 1 -> Slot]
      BY <2>1 DEF Inv, TypeOK, Slot
    <3>3. old[next] \in Entry
      BY <3>1, <3>2 DEF IsActive, Slots, Slot
    <3> QED
      BY <2>1, <3>3 DEF Target, Entry
  <2>2. CASE pc # "rehash"
    BY <2>2 DEF Inv, TypeOK, Target
  <2> QED
    BY <2>1, <2>2
<1>3. Passed(entries, capacity, Target, index)
  BY DEF Inv, ProbedSlots
<1>4. index' \in 0 .. capacity - 1 /\ Passed(entries, capacity, Target, index')
  BY <1>1, <1>2, <1>3, PassedStep
<1>5. TypeOK'
  BY <1>4 DEF Inv, TypeOK, table, growth
<1>6. ProbedSlots'
  <2>1. Target' = Target
    BY DEF Target, growth
  <2> QED
    BY <1>4, <2>1 DEF ProbedSlots, table
<1>7. GrowthMoves'
  <2>1. Moved' = Moved
    BY DEF Moved, growth
  <2> QED
    BY <2>1 DEF Inv, GrowthMoves, table, growth
<1> QED
  BY <1>5, <1>6, <1>7 DEF Inv, UsedCount, UniqueKeys, ProbeChain, InsertCounted, table

(* The insertion lands: at an Empty slot, which takes the entry, or at the  *)
(* slot the key has already.                                                *)
LEMMA InsertProbeInv == Inv /\ InsertProbe => Inv'
<1> SUFFICES ASSUME Inv, InsertProbe PROVE Inv'
  OBVIOUS
<1> USE DEF InsertProbe
<1>1. CASE ~ Lands(key)
  BY <1>1, WalkInv DEF Target, growth, table
<1>2. CASE Lands(key) /\ entries[index] # Empty
  BY <1>2, ReturnInv DEF Put, TypeOK, Inv, table
<1>3. CASE Lands(key) /\ entries[index] = Empty
  <2>1. /\ capacity \in Nat \ {0} /\ entries \in Table(capacity)
        /\ index \in 0 .. capacity - 1 /\ in_use \in Nat
        /\ key \in Key /\ value \in Value
    BY Types DEF Inv, TypeOK
  <2>2. Passed(entries, capacity, key, index)
    BY DEF Inv, ProbedSlots, Target
  <2>3. /\ entries' = [entries EXCEPT ![index] = [key |-> key, value |-> value]]
        /\ in_use' = in_use + 1 /\ capacity' = capacity
        /\ pc' = "idle" /\ key' = NoKey /\ value' = NoValue /\ index' = 0
        /\ ret' = Result("insert", key, index, {}) /\ UNCHANGED growth
    BY <1>3 DEF Put, Return
  <2>4. entries' \in Table(capacity) /\ UsedCount' /\ UniqueKeys' /\ ProbeChain'
    BY <1>3, <2>1, <2>2, <2>3, PutKeeps DEF Inv
  <2>5. TypeOK'
    BY <2>1, <2>3, <2>4 DEF Inv, TypeOK, Table, Slot, Result, growth
  <2> QED
    BY <2>3, <2>4, <2>5 DEF Inv, ProbedSlots, GrowthMoves, InsertCounted
<1> QED
  BY <1>1, <1>2, <1>3

(* A turn of the loop of hashmap_remove keeps the invariant. *)
LEMMA RemoveProbeInv == Inv /\ RemoveProbe => Inv'
<1> SUFFICES ASSUME Inv, RemoveProbe PROVE Inv'
  OBVIOUS
<1> USE DEF RemoveProbe
<1>1. CASE ~ Lands(key)
  BY <1>1, WalkInv DEF Target, growth, table, Lands
<1>2. CASE entries[index] = Empty
  BY <1>2, ReturnInv DEF Holds, IsActive, Lands, NoIndex, table
<1>3. CASE Holds(entries[index], key)
  <2>1. /\ capacity \in Nat \ {0} /\ entries \in Table(capacity)
        /\ index \in 0 .. capacity - 1 /\ in_use \in Nat /\ key \in Key
    BY Types DEF Inv, TypeOK
  <2>2. /\ entries' = [entries EXCEPT ![index] = Tomb]
        /\ in_use' = in_use /\ capacity' = capacity
        /\ pc' = "idle" /\ key' = NoKey /\ value' = NoValue /\ index' = 0
        /\ ret' = Result("remove", key, index, {}) /\ UNCHANGED growth
    BY <1>3 DEF Evict, Return, Holds, IsActive, Lands
  <2>3. entries' \in Table(capacity) /\ UsedCount' /\ UniqueKeys' /\ ProbeChain'
    BY <1>3, <2>1, <2>2, EvictKeeps DEF Inv
  <2>4. TypeOK'
    BY <2>1, <2>2, <2>3 DEF Inv, TypeOK, Table, Slot, Result, growth
  <2> QED
    BY <2>2, <2>3, <2>4 DEF Inv, ProbedSlots, GrowthMoves, InsertCounted
<1> QED
  BY <1>1, <1>2, <1>3 DEF Lands

(* A turn of the loop of hashmap_nretrieve keeps the invariant. *)
LEMMA RetrieveProbeInv == Inv /\ RetrieveProbe => Inv'
<1> SUFFICES ASSUME Inv, RetrieveProbe PROVE Inv'
  OBVIOUS
<1> USE DEF RetrieveProbe
<1>1. /\ capacity \in Nat \ {0} /\ entries \in Table(capacity)
      /\ index \in 0 .. capacity - 1 /\ key \in Key
  BY Types DEF Inv, TypeOK
<1>2. CASE entries[index] = Empty
  BY <1>2, ReturnInv, SlotAssumption DEF Matches, IsActive, NoIndex
<1>3. CASE Matches(entries[index], key)
  <2>1. entries[index] \in Entry
    BY <1>1, <1>3 DEF Matches, IsActive, Table, Slot
  <2> QED
    BY <1>1, <1>3, <2>1, ReturnInv DEF Matches, IsActive
<1>4. CASE entries[index] # Empty /\ ~ Matches(entries[index], key)
  <2>1. ~ Lands(key)
    BY <1>1, <1>4, KeyAssumption DEF Lands, Holds, Matches
  <2> QED
    BY <1>4, <2>1, WalkInv DEF Target, growth, table
<1> QED
  BY <1>2, <1>3, <1>4

(* hashmap_enumerate keeps the invariant. *)
LEMMA EnumerateInv == Inv /\ Enumerate => Inv'
<1> SUFFICES ASSUME Inv, Enumerate PROVE Inv'
  OBVIOUS
<1>1. (IF in_use > 0 THEN Contents(entries) ELSE {}) \in SUBSET Entry
  BY Types, ContentsType DEF Inv
<1> QED
  BY <1>1, ReturnInv DEF Enumerate

(* hashmap_destroy keeps the invariant. *)
LEMMA DestroyInv == Inv /\ Destroy => Inv'
<1> SUFFICES ASSUME Inv, Destroy PROVE Inv'
  OBVIOUS
<1>1. TypeOK'
  BY DEF Destroy, Inv, TypeOK, Result, table, growth
<1> QED
  BY <1>1 DEF Destroy, Inv, UsedCount, UniqueKeys, ProbeChain, ProbedSlots,
              GrowthMoves, InsertCounted, table

(* A new table satisfies the invariant. *)
LEMMA CreateInv == Inv /\ Create => Inv'
<1> SUFFICES ASSUME Inv, Create PROVE Inv'
  OBVIOUS
<1>1. Default \in Nat \ {0}
  BY CapacityAssumption
<1>2. TypeOK'
  BY <1>1, BlankTable DEF Create, Inv, TypeOK, Table, Slot, growth
<1>3. UsedCount' /\ UniqueKeys' /\ ProbeChain'
  BY <1>1, BlankTable DEF Create, UsedCount, UniqueKeys, ProbeChain
<1> QED
  BY <1>2, <1>3 DEF Create, Inv, ProbedSlots, GrowthMoves, InsertCounted

(* What holds of the old table while a growth is under way.                 *)
LEMMA GrowthTypes ==
  ASSUME Inv, pc \in {"grow", "rehash"}
  PROVE  /\ \E c \in 1 .. capacity : capacity = 2 * c /\ old \in Table(c)
         /\ next \in Nat /\ 2 * next <= capacity
         /\ in_use < capacity
<1>1. \E c \in 1 .. capacity : capacity = 2 * c /\ old \in Table(c)
  BY DEF Inv, TypeOK, Table, Slot
<1>2. next \in Nat /\ in_use \in Nat /\ capacity \in Nat \ {0}
  BY DEF Inv, TypeOK
<1>3. 2 * next <= capacity /\ in_use <= next
  BY DEF Inv, GrowthMoves
<1> QED
  BY <1>1, <1>2, <1>3

(* One more slot of the old table is done with.                             *)
LEMMA MovedNext ==
  ASSUME next \in Nat, next' = next + 1, old' = old
  PROVE  /\ IsActive(old[next]) => Contents(Moved') = Contents(Moved) \cup {old[next]}
         /\ ~ IsActive(old[next]) => Contents(Moved') = Contents(Moved)
<1> DEFINE A(n) == {j \in 0 .. n - 1 : IsActive(old[j])}
<1>1. Contents(Moved) = {old[i] : i \in A(next)}
  BY DEF Contents, Moved, Slots
<1>2. Contents(Moved') = {old[i] : i \in A(next + 1)}
  BY DEF Contents, Moved, Slots
<1>3. CASE IsActive(old[next])
  <2>1. A(next + 1) = A(next) \cup {next}
    BY <1>3
  <2> QED
    BY <1>1, <1>2, <1>3, <2>1
<1>4. CASE ~ IsActive(old[next])
  <2>1. A(next + 1) = A(next)
    BY <1>4
  <2> QED
    BY <1>1, <1>2, <1>4, <2>1
<1> QED
  BY <1>3, <1>4

(* A turn of the loop of hashmap_grow keeps the invariant. *)
LEMMA GrowStepInv == Inv /\ GrowStep => Inv'
<1> SUFFICES ASSUME Inv, GrowStep PROVE Inv'
  OBVIOUS
<1> USE DEF GrowStep
<1>1. PICK c \in 1 .. capacity : capacity = 2 * c /\ old \in Table(c)
  BY GrowthTypes
<1>2. /\ capacity \in Nat \ {0} /\ entries \in Table(capacity)
      /\ next \in 0 .. c - 1 /\ in_use \in Nat
  BY <1>1, Types, GrowthTypes DEF Inv, Slots, Table
<1>3. UsedCount' /\ UniqueKeys' /\ ProbeChain'
  BY DEF Inv, UsedCount, UniqueKeys, ProbeChain, table
<1>4. CASE ~ IsActive(old[next]) /\ next' = next + 1 /\ UNCHANGED <<pc, index>>
  <2>1. TypeOK'
    BY <1>2, <1>4 DEF Inv, TypeOK, table
  <2>2. Contents(Moved') = Contents(Moved)
    BY <1>2, <1>4, MovedNext
  <2>3. 2 * next' <= capacity /\ in_use <= next'
    BY <1>1, <1>2, <1>4 DEF Inv, GrowthMoves
  <2>4. GrowthMoves'
    BY <1>4, <2>2, <2>3 DEF Inv, GrowthMoves, table
  <2> QED
    BY <1>3, <1>4, <2>1, <2>4 DEF Inv, ProbedSlots, InsertCounted
<1>5. CASE /\ IsActive(old[next]) /\ pc' = "rehash" /\ next' = next
           /\ index' = Home(old[next].key, capacity)
  <2>1. old[next].key \in Key
    BY <1>1, <1>2, <1>5 DEF Table, Slot, Entry, IsActive
  <2>2. index' \in 0 .. capacity - 1 /\ Passed(entries, capacity, old[next].key, index')
    BY <1>2, <1>5, <2>1, HomeIsSlot, PathEmpty
  <2>3. TypeOK'
    BY <1>5, <2>2 DEF Inv, TypeOK, table
  <2>4. ProbedSlots'
    BY <1>5, <2>2 DEF ProbedSlots, Target, table
  <2>5. GrowthMoves'
    <3>1. Moved' = Moved
      BY <1>5 DEF Moved
    <3> QED
      BY <1>5, <3>1 DEF Inv, GrowthMoves, table
  <2> QED
    BY <1>3, <1>5, <2>3, <2>4, <2>5 DEF Inv, InsertCounted
<1> QED
  BY <1>4, <1>5

(* The entry being moved is not in the new table yet: the old table has its *)
(* key in one slot only.                                                    *)
LEMMA RehashIsNew ==
  ASSUME Inv, pc = "rehash"
  PROVE  /\ old[next] \in Entry
         /\ \A i \in 0 .. capacity - 1 : ~ Holds(entries[i], old[next].key)
<1>1. PICK c \in 1 .. capacity : capacity = 2 * c /\ old \in Table(c)
  BY GrowthTypes
<1>2. /\ entries \in Table(capacity) /\ next \in 0 .. c - 1 /\ IsActive(old[next])
      /\ DistinctKeys(old) /\ Contents(entries) = Contents(Moved)
  BY <1>1, Types DEF Inv, GrowthMoves, Slots, Table
<1>3. old[next] \in Entry
  BY <1>1, <1>2 DEF Table, Slot, IsActive
<1>4. ASSUME NEW i \in 0 .. capacity - 1, Holds(entries[i], old[next].key)
      PROVE  FALSE
  <2>1. entries[i] \in Contents(Moved)
    <3>1. entries[i] \in Contents(entries)
      BY <1>2, <1>4 DEF Contents, Holds, Slots, Table
    <3> QED
      BY <1>2, <3>1
  <2>2. PICK j \in 0 .. next - 1 : IsActive(old[j]) /\ entries[i] = old[j]
    BY <2>1 DEF Contents, Moved, Slots
  <2>3. j \in 0 .. c - 1 /\ j # next
    BY <1>2, <2>2
  <2> QED
    BY <1>1, <1>2, <1>4, <2>2, <2>3 DEF DistinctKeys, Holds, Slots, Table
<1> QED
  BY <1>3, <1>4

(* The nested insertion lands.                                              *)
LEMMA RehashLands ==
  ASSUME Inv, Rehash, Lands(old[next].key)
  PROVE  /\ Inv'
         /\ pc' = "grow"
<1> DEFINE k == old[next].key
           v == old[next].value
<1>1. PICK c \in 1 .. capacity : capacity = 2 * c /\ old \in Table(c)
  BY GrowthTypes DEF Rehash
<1>2. /\ capacity \in Nat \ {0} /\ entries \in Table(capacity)
      /\ index \in 0 .. capacity - 1 /\ in_use \in Nat
      /\ next \in 0 .. c - 1 /\ IsActive(old[next]) /\ in_use <= next
      /\ DistinctKeys(old) /\ Contents(entries) = Contents(Moved)
      /\ Tomb \notin {entries[i] : i \in Slots(entries)}
  BY <1>1, Types DEF Inv, GrowthMoves, Slots, Table, Rehash
<1>3. old[next] \in Entry /\ k \in Key /\ v \in Value
      /\ old[next] = [key |-> k, value |-> v]
  BY RehashIsNew DEF Entry, Rehash
<1>4. entries[index] = Empty
  BY <1>2, RehashIsNew DEF Lands, Rehash
<1>5. /\ Put(k, v) /\ next' = next + 1 /\ pc' = "grow" /\ index' = 0
      /\ UNCHANGED <<capacity, key, value, old, ret>>
  BY DEF Rehash
<1>6. Passed(entries, capacity, k, index)
  BY DEF Inv, ProbedSlots, Target, Rehash
<1>7. /\ entries' \in Table(capacity)
      /\ in_use' = in_use + 1
      /\ UsedCount' /\ UniqueKeys' /\ ProbeChain'
      /\ Contents(entries') = Contents(entries) \cup {old[next]}
      /\ \A i \in 0 .. capacity - 1 : entries[i] # Tomb => entries'[i] # Tomb
  BY <1>2, <1>3, <1>4, <1>5, <1>6, PutKeeps DEF Inv
<1>8. TypeOK'
  BY <1>2, <1>5, <1>7 DEF Inv, TypeOK, Table, Slot, Rehash
<1>9. GrowthMoves'
  <2>1. Contents(Moved') = Contents(Moved) \cup {old[next]}
    BY <1>2, <1>5, MovedNext
  <2>2. Contents(entries') = Contents(Moved')
    BY <1>2, <1>7, <2>1
  <2>3. 2 * next' <= capacity /\ in_use' <= next'
    BY <1>1, <1>2, <1>5, <1>7
  <2>4. Tomb \notin {entries'[i] : i \in Slots(entries')}
    BY <1>2, <1>7 DEF Slots, Table
  <2> QED
    BY <1>2, <1>5, <2>2, <2>3, <2>4 DEF GrowthMoves
<1> QED
  BY <1>5, <1>7, <1>8, <1>9 DEF Inv, ProbedSlots, InsertCounted

(* A turn of the nested insertion's loop keeps the invariant. *)
LEMMA RehashInv == Inv /\ Rehash => Inv'
<1> SUFFICES ASSUME Inv, Rehash PROVE Inv'
  OBVIOUS
<1>1. CASE Lands(old[next].key)
  BY <1>1, RehashLands
<1>2. CASE ~ Lands(old[next].key)
  BY <1>2, WalkInv DEF Rehash, Target, growth, table
<1> QED
  BY <1>1, <1>2

(* The end of hashmap_grow keeps the invariant. *)
LEMMA EndGrowInv == Inv /\ EndGrow => Inv'
<1> SUFFICES ASSUME Inv, EndGrow PROVE Inv'
  OBVIOUS
<1> USE DEF EndGrow
<1>1. /\ capacity \in Nat \ {0} /\ entries \in Table(capacity)
      /\ in_use < capacity
  BY Types, GrowthTypes DEF Inv
<1>2. UsedCount' /\ UniqueKeys' /\ ProbeChain'
  BY DEF Inv, UsedCount, UniqueKeys, ProbeChain, table
<1>3. CASE Return("grow", capacity, {})
  <2>1. TypeOK'
    BY <1>1, <1>3 DEF Inv, TypeOK, Return, Result, table
  <2> QED
    BY <1>2, <1>3, <2>1 DEF Inv, Return, ProbedSlots, GrowthMoves, InsertCounted
<1>4. CASE key # NoKey /\ Resume /\ UNCHANGED <<key, value, ret>>
  <2>1. key \in Key /\ value \in Value
    BY <1>4 DEF Inv, TypeOK
  <2>2. index' \in 0 .. capacity - 1 /\ Passed(entries, capacity, key, index')
    BY <1>1, <1>4, <2>1, HomeIsSlot, PathEmpty DEF Resume
  <2>3. TypeOK'
    BY <1>1, <1>4, <2>1, <2>2 DEF Inv, TypeOK, Resume, table
  <2>4. ProbedSlots'
    BY <1>4, <2>2 DEF ProbedSlots, Target, Resume, table
  <2> QED
    BY <1>1, <1>2, <1>4, <2>3, <2>4 DEF Inv, GrowthMoves, InsertCounted, Resume, table
<1> QED
  BY <1>3, <1>4
-----------------------------------------------------------------------------
(* The theorems                                                             *)

(* The invariant depends on nothing but the state. *)
LEMMA StutterInv == Inv /\ UNCHANGED vars => Inv'
BY DEF vars, Inv, TypeOK, UsedCount, UniqueKeys, ProbeChain, ProbedSlots, Target,
       GrowthMoves, Moved, InsertCounted

(* Every step of every call keeps the invariant. *)
LEMMA NextInv == Inv /\ [Next]_vars => Inv'
<1> SUFFICES ASSUME Inv, [Next]_vars PROVE Inv'
  OBVIOUS
<1>1. CASE Call
  <2>1. CASE \E k \in Key, v \in Value : Insert(k, v)
    BY <2>1, InsertInv
  <2>2. CASE \E k \in Key : Remove(k) \/ Retrieve(k)
    BY <2>2, LookupInv DEF Remove, Retrieve
  <2> QED
    BY <1>1, <2>1, <2>2, EnumerateInv, GrowInv, DestroyInv, CreateInv DEF Call
<1>2. CASE Step
  BY <1>2, GrowStepInv, RehashInv, EndGrowInv, InsertProbeInv, RemoveProbeInv,
     RetrieveProbeInv DEF Step
<1> QED
  BY <1>1, <1>2, StutterInv DEF Next

(* The invariant holds in every state of every table, at every point of every call. *)
THEOREM Invariance == Spec => []Inv
BY InitInv, NextInv, PTL DEF Spec

(* Every variable keeps its type through every call and every growth.       *)
THEOREM TypeCorrect == Spec => []TypeOK
<1>1. Inv => TypeOK
  BY DEF Inv
<1> QED
  BY <1>1, Invariance, PTL

(* in_use counts the entries and the tombstones, whatever was inserted,     *)
(* removed or moved.                                                        *)
THEOREM CountCorrect == Spec => []UsedCount
<1>1. Inv => UsedCount
  BY DEF Inv
<1> QED
  BY <1>1, Invariance, PTL

(* No key is ever in two slots.                                             *)
THEOREM KeysUnique == Spec => []UniqueKeys
<1>1. Inv => UniqueKeys
  BY DEF Inv
<1> QED
  BY <1>1, Invariance, PTL

(* No removal ever hides an entry from the probe for its key.               *)
THEOREM ChainsUnbroken == Spec => []ProbeChain
<1>1. Inv => ProbeChain
  BY DEF Inv
<1> QED
  BY <1>1, Invariance, PTL

(* A probe has passed neither an Empty slot nor its key.                    *)
THEOREM ProbesExact == Spec => []ProbedSlots
<1>1. Inv => ProbedSlots
  BY DEF Inv
<1> QED
  BY <1>1, Invariance, PTL

(* A growth loses no entry and never fills the new table.                   *)
THEOREM GrowthExact == Spec => []GrowthMoves
<1>1. Inv => GrowthMoves
  BY DEF Inv
<1> QED
  BY <1>1, Invariance, PTL

(* A table with fewer slots in use than slots has an Empty one. *)
LEMMA FreeSlot ==
  ASSUME Inv, in_use < capacity
  PROVE  \E i \in Slots(entries) : entries[i] = Empty
<1>1. capacity \in Nat \ {0} /\ entries \in Table(capacity) /\ in_use = Cardinality(InUse(entries))
  BY Types DEF Inv, UsedCount
<1>2. SUFFICES ASSUME \A i \in Slots(entries) : entries[i] # Empty PROVE FALSE
  OBVIOUS
<1>3. InUse(entries) = 0 .. capacity - 1
  BY <1>1, <1>2 DEF InUse, Slots, Table
<1>4. Cardinality(0 .. capacity - 1) = capacity
  BY <1>1, FS_Interval
<1> QED
  BY <1>1, <1>3, <1>4

(* An insertion, nested or not, always has a slot to stop at.               *)
THEOREM InsertHasRoom == Spec => []RoomToInsert
<1>1. Inv => RoomToInsert
  <2> SUFFICES ASSUME Inv, pc \in {"insert", "rehash"} PROVE in_use < capacity
    BY FreeSlot DEF RoomToInsert
  <2> QED
    BY GrowthTypes DEF Inv, InsertCounted
<1> QED
  BY <1>1, Invariance, PTL
-----------------------------------------------------------------------------
(* What the results of hashmap_insert mean                                  *)

Results == FailsOnlyAtLimit /\ IndexIsOfKey

(* A step that is not the end of an insertion.                              *)
LEMMA OtherResult ==
  ASSUME pc' # "idle" \/ ret'.op # "insert"
  PROVE  Results'
BY DEF Results, FailsOnlyAtLimit, IndexIsOfKey

(* The call of hashmap_insert, when it returns at once, reports a full table. *)
LEMMA InsertResult ==
  ASSUME Inv, NEW k \in Key, NEW v \in Value, Insert(k, v)
  PROVE  Results'
<1>1. CASE pc' # "idle"
  BY <1>1, OtherResult
<1>2. CASE pc' = "idle"
  <2>1. /\ Full /\ ~ Growable /\ ret' = Result("insert", k, NoIndex, {})
        /\ UNCHANGED <<entries, capacity>>
    BY <1>2 DEF Insert, StartGrow, table
  <2>2. capacity \in Nat \ {0} /\ entries \in Table(capacity)
        /\ in_use = Cardinality(InUse(entries)) /\ in_use \in Nat
    BY Types DEF Inv, UsedCount
  <2>3. InUse(entries) = Slots(entries)
    <3>1. Cardinality(InUse(entries)) = capacity
      BY <2>1, <2>2, InUseFinite DEF Full
    <3> QED
      BY <2>2, <3>1, InUseFinite DEF Slots, Table
  <2>4. Limit \in Nat /\ ~ (2 * capacity <= Limit)
    BY <2>1, CapacityAssumption DEF Growable
  <2> QED
    BY <2>1, <2>2, <2>3, <2>4 DEF Results, FailsOnlyAtLimit, IndexIsOfKey, Result
<1> QED
  BY <1>1, <1>2

(* The result of hashmap_insert is the slot that holds the key. *)
LEMMA InsertProbeResult ==
  ASSUME Inv, InsertProbe
  PROVE  Results'
<1>1. CASE Lands(key)
  <2>1. /\ capacity \in Nat \ {0} /\ entries \in Table(capacity)
        /\ index \in 0 .. capacity - 1 /\ key \in Key /\ value \in Value
    BY Types DEF Inv, TypeOK, InsertProbe
  <2>2. ret' = Result("insert", key, index, {}) /\ Put(key, value)
    BY <1>1 DEF InsertProbe, Return
  <2>3. index # NoIndex
    BY <2>1 DEF NoIndex
  <2>4. index \in Slots(entries') /\ Holds(entries'[index], key)
    <3>1. [key |-> key, value |-> value] \in Entry
      BY <2>1 DEF Entry
    <3>2. CASE entries[index] = Empty
      BY <2>1, <2>2, <3>1, <3>2, SlotAssumption DEF Put, Holds, IsActive, Slots, Table
    <3>3. CASE entries[index] # Empty
      BY <1>1, <2>1, <2>2, <3>3 DEF Put, Lands, Slots, Table
    <3> QED
      BY <3>2, <3>3
  <2> QED
    BY <2>2, <2>3, <2>4 DEF Results, FailsOnlyAtLimit, IndexIsOfKey, Result
<1>2. CASE ~ Lands(key)
  BY <1>2, OtherResult DEF InsertProbe
<1> QED
  BY <1>1, <1>2

(* Every step keeps what is known of the last result. *)
LEMMA NextResults == Inv /\ Results /\ [Next]_vars => Results'
<1> SUFFICES ASSUME Inv, Results, [Next]_vars PROVE Results'
  OBVIOUS
<1>1. CASE \E k \in Key, v \in Value : Insert(k, v)
  BY <1>1, InsertResult
<1>2. CASE \E k \in Key : Remove(k) \/ Retrieve(k)
  BY <1>2, OtherResult DEF Remove, Retrieve, Lookup
<1>3. CASE Enumerate
  BY <1>3, OtherResult DEF Enumerate, Return, Result
<1>4. CASE Grow
  BY <1>4, OtherResult DEF Grow, StartGrow, Return, Result
<1>5. CASE Destroy
  BY <1>5, OtherResult DEF Destroy
<1>6. CASE Create
  BY <1>6, OtherResult DEF Create, Inv, TypeOK
<1>7. CASE GrowStep
  BY <1>7, OtherResult DEF GrowStep
<1>8. CASE Rehash
  BY <1>8, OtherResult DEF Rehash
<1>9. CASE EndGrow
  BY <1>9, OtherResult DEF EndGrow, Return, Result, Resume
<1>10. CASE InsertProbe
  BY <1>10, InsertProbeResult
<1>11. CASE RemoveProbe
  BY <1>11, OtherResult DEF RemoveProbe, Return, Result
<1>12. CASE RetrieveProbe
  BY <1>12, OtherResult DEF RetrieveProbe, Return, Result
<1>13. CASE UNCHANGED vars
  BY <1>13 DEF Results, FailsOnlyAtLimit, IndexIsOfKey, vars
<1> QED
  BY <1>1, <1>2, <1>3, <1>4, <1>5, <1>6, <1>7, <1>8, <1>9, <1>10, <1>11, <1>12, <1>13
     DEF Next, Call, Step

(* What is known of the last result holds in every state. *)
LEMMA ResultsCorrect == Spec => []Results
<1>1. Init => Results
  BY DEF Init, Results, FailsOnlyAtLimit, IndexIsOfKey, Result
<1> QED
  BY <1>1, NextResults, Invariance, PTL DEF Spec

(* hashmap_insert fails on a table that is full at its limit, only then.    *)
THEOREM FailureMeansLimit == Spec => []FailsOnlyAtLimit
<1>1. Results => FailsOnlyAtLimit
  BY DEF Results
<1> QED
  BY <1>1, ResultsCorrect, PTL

(* What it returns otherwise is the slot of the key.                        *)
THEOREM IndexCorrect == Spec => []IndexIsOfKey
<1>1. Results => IndexIsOfKey
  BY DEF Results
<1> QED
  BY <1>1, ResultsCorrect, PTL
-----------------------------------------------------------------------------
(* The hash table implements the map of AssocMap, for every value of the   *)
(* constants, and no slot in use becomes free before the table grows.      *)
USE DEF AM!vars

(* How a step looks from outside: same map, same answer.                    *)
LEMMA Stutter ==
  ASSUME Store' = Store, ret' = ret
  PROVE  UNCHANGED AM!vars
OBVIOUS

(* The answer AssocMap sees, of the result of a call.                       *)
Seen == [op |-> ret.op, key |-> ret.key, ok |-> ret.index # NoIndex, found |-> ret.found]

(* The answer of the map is the result the call returned. *)
LEMMA AnswerSeen ==
  ASSUME NEW op, NEW k, NEW i, NEW found, NEW ok \in BOOLEAN,
         ret' = Result(op, k, i, found), ok <=> (i # NoIndex)
  PROVE  Seen' = AM!Answer(op, k, ok, found)
<1>1. ret'.op = op /\ ret'.key = k /\ ret'.index = i /\ ret'.found = found
  BY DEF Result
<1>2. (ret'.index # NoIndex) = ok
  BY <1>1
<1> QED
  BY <1>1, <1>2 DEF Seen, AM!Answer

(* A call succeeds when its index is not -1. *)
LEMMA SuccessSeen ==
  ASSUME NEW op, NEW k, NEW found, ret' = Result(op, k, 0, found)
  PROVE  Seen' = AM!Answer(op, k, TRUE, found)
<1>1. ret'.op = op /\ ret'.key = k /\ ret'.index = 0 /\ ret'.found = found
  BY DEF Result
<1>2. (ret'.index # NoIndex) = TRUE
  BY <1>1 DEF NoIndex
<1> QED
  BY <1>1, <1>2 DEF Seen, AM!Answer

(* An empty table stands for an empty map. *)
LEMMA InitRefines == Init => AM!Init
<1> SUFFICES ASSUME Init PROVE AM!Init
  OBVIOUS
<1>1. Default \in Nat
  BY CapacityAssumption
<1>2. Store = {}
  BY <1>1, BlankTable DEF Init, Store
<1>3. ret.op = "none" /\ ret.key = NoKey /\ ret.index = 0 /\ ret.found = {}
  BY DEF Init, Result
<1>4. (ret.index # NoIndex) = TRUE
  BY <1>3 DEF NoIndex
<1> QED
  BY <1>2, <1>3, <1>4 DEF AM!Init, AM!Answer

(* The call of hashmap_insert inserts nothing yet, or fails. *)
LEMMA InsertRefines ==
  ASSUME Inv, NEW k \in Key, NEW v \in Value, Insert(k, v)
  PROVE  AM!InsertFails(k) \/ UNCHANGED AM!vars
<1> USE DEF Insert
<1>1. CASE ~ Full /\ pc' = "insert" /\ UNCHANGED <<table, ret>>
  <2>1. Store' = Store
    BY <1>1 DEF Store, table
  <2> QED
    BY <1>1, <2>1, Stutter
<1>2. CASE Full /\ StartGrow /\ UNCHANGED ret
  <2>1. Store' = Store
    BY <1>2 DEF Store, StartGrow
  <2> QED
    BY <1>2, <2>1, Stutter
<1>3. CASE /\ ret' = Result("insert", k, NoIndex, {})
           /\ UNCHANGED <<table, growth, pc>>
  <2>1. Store' = Store
    BY <1>3 DEF Store, table, growth
  <2> QED
    BY <1>3, <2>1 DEF AM!InsertFails, AM!Answer, Result
<1> QED
  BY <1>1, <1>2, <1>3

(* What the end of a probe says about the table, as long as no growth is    *)
(* under way.                                                               *)
LEMMA ProbeEnds ==
  ASSUME Inv, pc \in {"insert", "remove", "retrieve"}
  PROVE  /\ Store = Contents(entries)
         /\ capacity \in Nat \ {0} /\ entries \in Table(capacity)
         /\ index \in 0 .. capacity - 1 /\ index # NoIndex
         /\ in_use \in Nat /\ key \in Key
         /\ Passed(entries, capacity, key, index)
         /\ entries[index] = Empty => ~ AM!Stored(key)
         /\ Holds(entries[index], key) => AM!Stored(key)
<1>1. /\ Store = Contents(entries)
      /\ capacity \in Nat \ {0} /\ entries \in Table(capacity)
      /\ index \in 0 .. capacity - 1 /\ index # NoIndex
      /\ in_use \in Nat /\ key \in Key
  BY Types DEF Inv, TypeOK, Store, NoIndex
<1>2. Passed(entries, capacity, key, index)
  BY DEF Inv, ProbedSlots, Target
<1>3. ASSUME entries[index] = Empty PROVE ~ AM!Stored(key)
  <2>1. \A j \in 0 .. capacity - 1 : ~ Holds(entries[j], key)
    BY <1>1, <1>2, <1>3, AbsentKey DEF Inv
  <2> QED
    BY <1>1, <2>1 DEF AM!Stored, Contents, Holds, Slots, Table
<1>4. ASSUME Holds(entries[index], key) PROVE AM!Stored(key)
  <2>1. entries[index] \in Contents(entries)
    BY <1>1, <1>4 DEF Contents, Holds, Slots, Table
  <2> QED
    BY <1>1, <1>4, <2>1 DEF AM!Stored, Holds
<1> QED
  BY <1>1, <1>2, <1>3, <1>4

(* The last turn of hashmap_insert is the insertion of the map. *)
LEMMA InsertProbeRefines ==
  ASSUME Inv, InsertProbe
  PROVE  AM!Insert(key, value) \/ UNCHANGED AM!vars
<1>1. CASE ~ Lands(key)
  <2>1. Store' = Store /\ ret' = ret
    BY <1>1 DEF InsertProbe, Store
  <2> QED
    BY <2>1, Stutter
<1>2. CASE Lands(key)
  <2>1. /\ Put(key, value) /\ capacity' = capacity /\ pc' = "idle"
        /\ ret' = Result("insert", key, index, {})
    BY <1>2 DEF InsertProbe, Return
  <2>2. Store' = Contents(entries')
    BY <2>1 DEF Store
  <2>3. value \in Value
    BY DEF Inv, TypeOK, InsertProbe
  <2>4. Store' = IF AM!Stored(key) THEN Store
                 ELSE Store \cup {[key |-> key, value |-> value]}
    <3>1. CASE entries[index] = Empty
      <4>1. Contents(entries') = Contents(entries) \cup {[key |-> key, value |-> value]}
        BY <2>1, <2>3, <3>1, ProbeEnds, PutKeeps DEF Inv, InsertProbe
      <4> QED
        BY <2>2, <3>1, <4>1, ProbeEnds DEF InsertProbe
    <3>2. CASE entries[index] # Empty
      <4>1. entries' = entries /\ Holds(entries[index], key)
        BY <1>2, <2>1, <3>2 DEF Put, Lands
      <4> QED
        BY <2>2, <4>1, ProbeEnds DEF InsertProbe
    <3> QED
      BY <3>1, <3>2
  <2>5. AM!Insert(key, value)
    BY <2>1, <2>4, ProbeEnds DEF AM!Insert, AM!Answer, Result, InsertProbe
  <2> QED
    BY <2>5
<1> QED
  BY <1>1, <1>2

(* The last turn of hashmap_remove is the removal of the map. *)
LEMMA RemoveProbeRefines ==
  ASSUME Inv, RemoveProbe
  PROVE  AM!Remove(key) \/ UNCHANGED AM!vars
<1>1. pc = "remove"
  BY DEF RemoveProbe
<1>2. CASE ~ Lands(key)
  <2>1. Store' = Store /\ ret' = ret
    BY <1>1, <1>2 DEF RemoveProbe, Store, Lands
  <2> QED
    BY <2>1, Stutter
<1>3. CASE entries[index] = Empty
  <2>1. /\ entries' = entries /\ pc' = "idle"
        /\ ret' = Result("remove", key, NoIndex, {})
    BY <1>3 DEF RemoveProbe, Return, Lands, Holds, IsActive
  <2>2. Store' = Store /\ ~ AM!Stored(key)
    BY <1>1, <1>3, <2>1, ProbeEnds DEF Store
  <2>3. Store' = {e \in Store : e.key # key}
    BY <2>2 DEF AM!Stored
  <2> QED
    <3>1. Seen' = AM!Answer("remove", key, AM!Stored(key), {})
      BY <2>1, <2>2, AnswerSeen DEF AM!Stored
    <3> QED
      BY <2>3, <3>1 DEF AM!Remove, Seen
<1>4. CASE Holds(entries[index], key)
  <2>1. /\ entries' = [entries EXCEPT ![index] = Tomb] /\ pc' = "idle"
        /\ UNCHANGED <<in_use, capacity>>
        /\ ret' = Result("remove", key, index, {})
    BY <1>4 DEF RemoveProbe, Return, Lands, Evict, Holds, IsActive
  <2>2. Contents(entries') = {e \in Contents(entries) : e.key # key}
    BY <1>1, <1>4, <2>1, ProbeEnds, EvictKeeps DEF Inv
  <2>3. Store' = {e \in Store : e.key # key}
    BY <1>1, <2>1, <2>2 DEF Store
  <2>4. AM!Stored(key) /\ index # NoIndex
    BY <1>1, <1>4, ProbeEnds
  <2> QED
    <3>1. Seen' = AM!Answer("remove", key, AM!Stored(key), {})
      BY <2>1, <2>4, AnswerSeen DEF AM!Stored
    <3> QED
      BY <2>3, <3>1 DEF AM!Remove, Seen
<1> QED
  BY <1>2, <1>3, <1>4 DEF Lands

(* The last turn of hashmap_nretrieve is the lookup of the map. *)
LEMMA RetrieveProbeRefines ==
  ASSUME Inv, RetrieveProbe
  PROVE  AM!Retrieve(key) \/ UNCHANGED AM!vars
<1>1. pc = "retrieve" /\ entries' = entries
  BY DEF RetrieveProbe, table
<1>2. CASE entries[index] = Empty
  <2>1. pc' = "idle" /\ ret' = Result("retrieve", key, NoIndex, {})
    BY <1>2 DEF RetrieveProbe, Return, Matches, IsActive
  <2>2. Store' = Store /\ ~ AM!Stored(key)
    BY <1>1, <1>2, <2>1, ProbeEnds DEF Store
  <2> QED
    BY <2>1, <2>2 DEF AM!Retrieve, AM!Answer, Result
<1>3. CASE Matches(entries[index], key)
  <2>1. pc' = "idle" /\ ret' = Result("retrieve", key, index, {entries[index]})
    BY <1>3 DEF RetrieveProbe, Return, Matches, IsActive
  <2>2. Store' = Store
    BY <1>1, <2>1 DEF Store
  <2>3. entries[index] \in Store /\ <<key, entries[index].key>> \in Extends
    <3>1. entries[index] \in Contents(entries)
      BY <1>1, <1>3, ProbeEnds DEF Contents, Matches, Slots, Table
    <3> QED
      BY <1>1, <1>3, <3>1, ProbeEnds DEF Matches
  <2>4. index # NoIndex
    BY <1>1, ProbeEnds
  <2> QED
    BY <2>1, <2>2, <2>3, <2>4 DEF AM!Retrieve, AM!Answer, Result
<1>4. CASE entries[index] # Empty /\ ~ Matches(entries[index], key)
  <2>1. Store' = Store /\ ret' = ret
    BY <1>1, <1>4 DEF RetrieveProbe, Store
  <2> QED
    BY <2>1, Stutter
<1> QED
  BY <1>2, <1>3, <1>4 DEF RetrieveProbe

(* hashmap_enumerate lists the entries of the map. *)
LEMMA EnumerateRefines ==
  ASSUME Inv, Enumerate
  PROVE  AM!Enumerate
<1>1. capacity \in Nat \ {0} /\ entries \in Table(capacity)
  BY Types DEF Inv
<1>2. pc = "idle" /\ pc' = "idle" /\ entries' = entries /\ key = NoKey
  BY DEF Enumerate, Return, table, Inv, TypeOK
<1>3. Store' = Store /\ Store = Contents(entries)
  BY <1>2 DEF Store
<1>4. in_use = 0 => Contents(entries) = {}
  <2> SUFFICES ASSUME in_use = 0 PROVE Contents(entries) = {}
    OBVIOUS
  <2>1. InUse(entries) = {}
    BY <1>1, InUseFinite, FS_EmptySet DEF Inv, UsedCount
  <2> QED
    BY <2>1 DEF InUse, Contents, IsActive
<1>5. in_use \in Nat
  BY DEF Inv, TypeOK
<1>6. ret' = Result("enumerate", NoKey, 0, Store)
  BY <1>2, <1>3, <1>4, <1>5 DEF Enumerate, Return
<1>7. Seen' = AM!Answer("enumerate", NoKey, TRUE, Store)
  BY <1>6, SuccessSeen
<1> QED
  BY <1>3, <1>7 DEF AM!Enumerate, Seen

(* hashmap_grow, when it starts or refuses, leaves the map alone. *)
LEMMA GrowRefines ==
  ASSUME Inv, Grow
  PROVE  AM!Grow \/ UNCHANGED AM!vars
<1>1. pc = "idle" /\ key = NoKey
  BY DEF Grow, Inv, TypeOK
<1>2. CASE StartGrow /\ UNCHANGED ret
  <2>1. Store' = Store
    BY <1>1, <1>2 DEF Store, StartGrow
  <2> QED
    BY <1>2, <2>1, Stutter
<1>3. CASE Return("grow", NoIndex, {}) /\ UNCHANGED table
  <2>1. Store' = Store
    BY <1>1, <1>3 DEF Store, Return, table
  <2> QED
    BY <1>1, <1>3, <2>1 DEF AM!Grow, AM!Answer, Return, Result
<1> QED
  BY <1>2, <1>3 DEF Grow

(* The loop of hashmap_grow leaves the map alone. *)
LEMMA GrowStepRefines ==
  ASSUME GrowStep
  PROVE  UNCHANGED AM!vars
<1>1. Store' = Store /\ ret' = ret
  BY DEF GrowStep, Store
<1> QED
  BY <1>1, Stutter

(* The nested insertions leave the map alone. *)
LEMMA RehashRefines ==
  ASSUME Rehash
  PROVE  UNCHANGED AM!vars
<1>1. Store' = Store /\ ret' = ret
  BY DEF Rehash, Store
<1> QED
  BY <1>1, Stutter

(* The new table has taken over the contents of the old one.                *)
LEMMA EndGrowRefines ==
  ASSUME Inv, EndGrow
  PROVE  AM!Grow \/ UNCHANGED AM!vars
<1>1. PICK c \in 1 .. capacity : capacity = 2 * c /\ old \in Table(c)
  BY GrowthTypes DEF EndGrow
<1>2. next = c
  BY <1>1, GrowthTypes DEF EndGrow, Slots, Table
<1>3. Moved = old
  BY <1>1, <1>2 DEF Moved, Table
<1>4. Store = Contents(entries)
  BY <1>3 DEF Store, EndGrow, Inv, GrowthMoves
<1>5. Store' = Store
  BY <1>4 DEF EndGrow, Return, Resume, Store, table
<1>6. CASE key = NoKey /\ Return("grow", capacity, {})
  <2>1. capacity # NoIndex
    BY DEF Inv, TypeOK, NoIndex
  <2> QED
    BY <1>5, <1>6, <2>1 DEF AM!Grow, AM!Answer, Return, Result
<1>7. CASE UNCHANGED ret
  BY <1>5, <1>7, Stutter
<1> QED
  BY <1>6, <1>7 DEF EndGrow

(* hashmap_destroy empties the map. *)
LEMMA DestroyRefines ==
  ASSUME Destroy
  PROVE  AM!Destroy
<1>1. Store' = {}
  BY DEF Destroy, Store
<1>2. Seen' = AM!Answer("none", NoKey, TRUE, {})
  BY SuccessSeen DEF Destroy
<1> QED
  BY <1>1, <1>2 DEF AM!Destroy, Seen

(* A new table stands for the empty map again. *)
LEMMA CreateRefines ==
  ASSUME Create
  PROVE  UNCHANGED AM!vars
<1>1. Default \in Nat
  BY CapacityAssumption
<1>2. Store' = Store
  BY <1>1, BlankTable DEF Create, Store
<1> QED
  BY <1>2, Stutter DEF Create

(* Every step of a table is a step of the map or leaves it alone. *)
LEMMA NextRefines == Inv /\ [Next]_vars => [AM!Next]_AM!vars
<1> SUFFICES ASSUME Inv, [Next]_vars PROVE AM!Next \/ UNCHANGED AM!vars
  OBVIOUS
<1> USE DEF AM!Next
<1>1. CASE \E k \in Key, v \in Value : Insert(k, v)
  BY <1>1, InsertRefines
<1>2. CASE \E k \in Key : Remove(k) \/ Retrieve(k)
  <2>1. Store' = Store /\ ret' = ret
    BY <1>2 DEF Remove, Retrieve, Lookup, Store, table
  <2> QED
    BY <2>1, Stutter
<1>3. CASE InsertProbe
  <2>1. key \in Key /\ value \in Value
    BY <1>3 DEF InsertProbe, Inv, TypeOK
  <2> QED
    BY <1>3, <2>1, InsertProbeRefines
<1>4. CASE RemoveProbe
  <2>1. key \in Key
    BY <1>4 DEF RemoveProbe, Inv, TypeOK
  <2> QED
    BY <1>4, <2>1, RemoveProbeRefines
<1>5. CASE RetrieveProbe
  <2>1. key \in Key
    BY <1>5 DEF RetrieveProbe, Inv, TypeOK
  <2> QED
    BY <1>5, <2>1, RetrieveProbeRefines
<1>6. CASE UNCHANGED vars
  <2>1. Store' = Store /\ ret' = ret
    BY <1>6 DEF vars, Store
  <2> QED
    BY <2>1, Stutter
<1> QED
  BY <1>1, <1>2, <1>3, <1>4, <1>5, <1>6, EnumerateRefines, GrowRefines, GrowStepRefines,
     RehashRefines, EndGrowRefines, DestroyRefines, CreateRefines
     DEF Next, Call, Step

(* src/hashmap.c implements the map: every behaviour of the table is one of *)
(* AssocMap, an insertion, removal or lookup taking effect when its probe   *)
(* ends, and a growth changing nothing.                                     *)
THEOREM Refinement == Spec => ImplementsMap
BY InitRefines, NextRefines, Invariance, PTL DEF Spec, ImplementsMap, AM!Spec
-----------------------------------------------------------------------------
(* As long as the capacity stays, the slots in use stay in use.             *)
LEMMA NextFills ==
  ASSUME Inv, [Next]_vars, pc # "destroyed", capacity' = capacity
  PROVE  InUse(entries) \subseteq InUse(entries')
<1>1. CASE UNCHANGED entries
  BY <1>1
<1>2. CASE StartGrow
  BY <1>2 DEF StartGrow, Inv, TypeOK
<1>3. ASSUME NEW k, NEW v, Put(k, v), [key |-> k, value |-> v] \in Entry
      PROVE  InUse(entries) \subseteq InUse(entries')
  BY <1>3, Types, SlotAssumption DEF Put, InUse, Slots, Table, Inv
<1>4. CASE InsertProbe
  <2>1. [key |-> key, value |-> value] \in Entry
    BY <1>4 DEF InsertProbe, Inv, TypeOK, Entry
  <2> QED
    BY <1>1, <1>3, <1>4, <2>1 DEF InsertProbe
<1>5. CASE Rehash
  <2>1. [key |-> old[next].key, value |-> old[next].value] \in Entry
    BY <1>5, RehashIsNew DEF Rehash, Entry
  <2> QED
    BY <1>1, <1>3, <1>5, <2>1 DEF Rehash
<1>6. CASE RemoveProbe
  <2>1. CASE Holds(entries[index], key) /\ Evict
    BY <2>1, Types, SlotAssumption DEF Evict, InUse, Slots, Table, Inv
  <2> QED
    BY <1>1, <1>6, <2>1 DEF RemoveProbe
<1> QED
  BY <1>1, <1>2, <1>4, <1>5, <1>6
     DEF Next, Call, Step, Insert, Remove, Retrieve, Lookup, Enumerate, Grow, Destroy,
         Create, GrowStep, EndGrow, RetrieveProbe, table, vars

(* Only a growth gives slots back.                                          *)
THEOREM SlotsFill == Spec => SlotsOnlyFill
<1>1. Inv /\ [Next]_vars =>
        [pc # "destroyed" /\ capacity' = capacity =>
           InUse(entries) \subseteq InUse(entries)']_vars
  BY NextFills
<1> QED
  BY <1>1, Invariance, PTL DEF Spec, SlotsOnlyFill
=============================================================================
