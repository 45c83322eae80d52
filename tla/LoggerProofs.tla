---------------------------- MODULE LoggerProofs ----------------------------
(***************************************************************************)
(* Logger for every set of handles and any number of sinks: which sink     *)
(* gets a message, and which one a handle reaches.                         *)
(***************************************************************************)
EXTENDS Logger, SequenceTheorems, WellFoundedInduction, TLAPS

Types ==
  /\ level \in Seq(Level) /\ named \in Seq(Handle) /\ Len(named) = Len(level)
  /\ freed \subseteq Sink
  /\ sinks \in Seq(Nat)

(* The list holds the sinks in use, the last one registered first; before   *)
(* the initialisation and after the destruction there is no list.           *)
Behind == 1 .. Len(sinks) - 1
Listed ==
  /\ \A s : s \in Live <=> \E i \in Behind : sinks[i] = s
  /\ \A i, j \in Behind : i < j => sinks[j] < sinks[i]
  /\ status = "on" => sinks # <<>>
  /\ status \in {"off", "destroyed"} => sinks = <<>>

(* A handle is entered with the first sink of those registered under it; a  *)
(* full map may lack one.                                                   *)
Labelled ==
  /\ \A e \in handles :
       /\ e.value \in Live /\ named[e.value] = e.key
       /\ \A r \in Live : named[r] = e.key => e.value <= r
  /\ ~ Full => \A s \in Live : Known(named[s])

IInv == Types /\ Listed /\ Labelled /\ Delivered
-----------------------------------------------------------------------------
(* What the types say of the sequences.                                     *)
LEMMA Sequences ==
  ASSUME Types
  PROVE  /\ Len(level) \in Nat /\ Sink = 1 .. Len(level) /\ level \in [Sink -> Level]
         /\ named \in [Sink -> Handle]
         /\ Len(sinks) \in Nat /\ \A i \in 1 .. Len(sinks) : sinks[i] \in Nat
<1>1. Len(level) \in Nat /\ Sink = 1 .. Len(level) /\ level \in [Sink -> Level]
  BY LenProperties DEF Types, Sink
<1>2. named \in [Sink -> Handle]
  <2>1. named \in [1 .. Len(named) -> Handle]
    BY LenProperties DEF Types
  <2> QED
    BY <1>1, <2>1 DEF Types
<1>3. Len(sinks) \in Nat /\ \A i \in 1 .. Len(sinks) : sinks[i] \in Nat
  BY LenProperties DEF Types
<1> QED
  BY <1>1, <1>2, <1>3

(* A set of indices that is not empty has a least one.                      *)
LEMMA LeastIndex ==
  ASSUME NEW I, I \subseteq Nat, I # {}
  PROVE  \E i \in I : \A j \in I : i <= j
<1>1. PICK i \in I : \A j \in I : ~ (<<j, i>> \in OpToRel(<, Nat))
  BY NatLessThanWellFounded, WFMin
<1>2. \A j \in I : ~ (j < i)
  BY <1>1 DEF OpToRel
<1>3. ASSUME NEW j \in I PROVE i <= j
  <2>1. i \in Nat /\ j \in Nat /\ ~ (j < i)
    BY <1>2
  <2> QED
    BY <2>1
<1> QED
  BY <1>3

(* The writer of a message is the last one registered of those that take it. *)
LEMMA WriterIsLatest ==
  ASSUME Types, Listed, NEW l \in Level,
         NEW takers, takers = {s \in Live : l >= level[s]}
  PROVE  Writer(l) = IF takers = {} THEN 0 ELSE CHOOSE s \in takers : \A r \in takers : r <= s
<1>1. \A s : s \in takers <=> \E i \in Asked(l) : sinks[i] = s
  BY DEF Listed, Asked, Behind
<1>2. Asked(l) \subseteq Behind /\ Behind \subseteq Nat
  BY Sequences DEF Asked, Behind
<1>3. CASE Asked(l) = {}
  <2>1. takers = {}
    BY <1>1, <1>3
  <2> QED
    BY <1>3, <2>1 DEF Writer
<1>4. CASE Asked(l) # {}
  <2>1. PICK i \in Asked(l) : \A j \in Asked(l) : i <= j
    BY <1>2, <1>4, LeastIndex
  <2>2. (CHOOSE k \in Asked(l) : \A j \in Asked(l) : k <= j) = i
    <3>1. ASSUME NEW k \in Asked(l), \A j \in Asked(l) : k <= j PROVE k = i
      <4>1. i \in Nat /\ k \in Nat
        BY <1>2
      <4> QED
        BY <2>1, <3>1, <4>1
    <3> QED
      BY <2>1, <3>1
  <2>3. sinks[i] \in takers /\ takers \subseteq Nat
    <3>1. sinks[i] \in takers
      BY <1>1, <2>1
    <3>2. takers \subseteq Nat
      BY Sequences DEF Live
    <3> QED
      BY <3>1, <3>2
  <2>4. ASSUME NEW r \in takers PROVE r <= sinks[i]
    <3>1. PICK j \in Asked(l) : sinks[j] = r
      BY <1>1, <2>4
    <3>2. i = j \/ i < j
      <4>1. i \in Nat /\ j \in Nat /\ i <= j
        BY <1>2, <2>1
      <4> QED
        BY <4>1
    <3>3. i < j => sinks[j] < sinks[i]
      BY <1>2, <2>1, <3>1 DEF Listed
    <3> QED
      BY <2>3, <3>1, <3>2, <3>3
  <2>5. (CHOOSE s \in takers : \A r \in takers : r <= s) = sinks[i]
    <3>1. \A s \in takers : (\A r \in takers : r <= s) => s = sinks[i]
      BY <2>3, <2>4
    <3> QED
      BY <2>3, <2>4, <3>1
  <2> QED
    BY <1>4, <2>2, <2>3, <2>5 DEF Writer
<1> QED
  BY <1>3, <1>4
-----------------------------------------------------------------------------
(* A sink that is registered is first in the list, and the last its handle  *)
(* would reach.                                                             *)
LEMMA RegisterKeeps ==
  ASSUME IInv, NEW h \in Handle, NEW l \in Level, Register(h, l), status = "on"
  PROVE  Types' /\ Listed' /\ Labelled'
<1> DEFINE s == Len(level) + 1
<1>1. /\ Len(level) \in Nat /\ Sink = 1 .. Len(level) /\ level \in [Sink -> Level]
      /\ named \in [Sink -> Handle]
      /\ Len(sinks) \in Nat /\ \A i \in 1 .. Len(sinks) : sinks[i] \in Nat
  BY Sequences DEF IInv
<1>2. /\ level' \in Seq(Level) /\ Len(level') = s
      /\ DOMAIN level' = 1 .. s /\ \A i \in Sink : level'[i] = level[i]
  <2>1. level \in Seq(Level) /\ level' = Append(level, l)
    BY DEF IInv, Types, Register
  <2>2. /\ level' \in Seq(Level) /\ Len(level') = s
        /\ \A i \in 1 .. Len(level) : level'[i] = level[i]
    BY <2>1, AppendProperties
  <2> QED
    BY <1>1, <2>2, LenProperties
<1>3. /\ named' \in Seq(Handle) /\ Len(named') = s
      /\ named'[s] = h /\ \A i \in Sink : named'[i] = named[i]
  <2>1. named \in Seq(Handle) /\ named' = Append(named, h) /\ Len(named) = Len(level)
    BY DEF IInv, Types, Register
  <2> QED
    BY <1>1, <2>1, AppendProperties
<1>4. Sink' = Sink \cup {s} /\ freed' = freed /\ status' = status /\ s \notin Sink
  BY <1>1, <1>2 DEF Sink, Register
<1>5. Live' = Live \cup {s} /\ s \notin Live
  BY <1>4 DEF Live, IInv, Types
<1>6. /\ sinks' \in Seq(Nat) /\ Len(sinks') = Len(sinks) + 1
      /\ sinks'[1] = s /\ \A i \in 2 .. Len(sinks) + 1 : sinks'[i] = sinks[i - 1]
  <2> DEFINE alone == <<s>>
  <2>1. sinks \in Seq(Nat) /\ sinks' = alone \o sinks
    BY <1>1, <1>2 DEF IInv, Types, Register, Push
  <2>2. alone \in Seq(Nat) /\ Len(alone) = 1 /\ alone[1] = s
    BY <1>1
  <2> HIDE DEF alone
  <2>3. /\ alone \o sinks \in Seq(Nat) /\ Len(alone \o sinks) = Len(alone) + Len(sinks)
        /\ \A i \in 1 .. Len(alone) + Len(sinks) :
             (alone \o sinks)[i] = IF i <= Len(alone) THEN alone[i] ELSE sinks[i - Len(alone)]
    BY <2>1, <2>2, ConcatProperties
  <2> QED
    BY <1>1, <2>1, <2>2, <2>3
<1>7. Types'
  BY <1>2, <1>3, <1>4, <1>6 DEF IInv, Types
<1> HIDE DEF s
<1>8. sinks # <<>> /\ Len(sinks) \in Nat \ {0}
  <2>1. sinks # <<>>
    BY DEF IInv, Listed
  <2> QED
    BY <1>1, <2>1, EmptySeq DEF IInv, Types
<1>9. Behind' = 1 .. Len(sinks) /\ Behind = 1 .. Len(sinks) - 1
  BY <1>1, <1>6 DEF Behind
<1>10. ASSUME NEW i \in Behind', i # 1 PROVE i - 1 \in Behind /\ sinks'[i] = sinks[i - 1]
  <2>1. i \in 2 .. Len(sinks) + 1 /\ i - 1 \in 1 .. Len(sinks) - 1
    BY <1>8, <1>9, <1>10
  <2> QED
    BY <1>6, <1>9, <2>1
<1>11. ASSUME NEW i \in Behind PROVE i + 1 \in Behind' /\ sinks'[i + 1] = sinks[i]
  <2>1. i + 1 \in 2 .. Len(sinks) + 1 /\ i + 1 \in 1 .. Len(sinks) /\ (i + 1) - 1 = i
    BY <1>8, <1>9
  <2>2. sinks'[i + 1] = sinks[(i + 1) - 1]
    BY <1>6, <2>1
  <2> QED
    BY <1>9, <2>1, <2>2
<1>12. 1 \in Behind'
  BY <1>8, <1>9
<1>13. \A r : r \in Live' <=> \E i \in Behind' : sinks'[i] = r
  <2>1. \A r : r \in Live <=> \E i \in Behind : sinks[i] = r
    BY DEF IInv, Listed
  <2>2. ASSUME NEW r \in Live' PROVE \E i \in Behind' : sinks'[i] = r
    <3>1. CASE r = s
      BY <1>6, <1>12, <3>1
    <3>2. CASE r \in Live
      BY <1>11, <2>1, <3>2
    <3> QED
      BY <1>5, <3>1, <3>2
  <2>3. ASSUME NEW i \in Behind' PROVE sinks'[i] \in Live'
    <3>1. CASE i = 1
      BY <1>5, <1>6, <3>1
    <3>2. CASE i # 1
      BY <1>5, <1>10, <2>1, <3>2
    <3> QED
      BY <3>1, <3>2
  <2> QED
    BY <2>2, <2>3
<1>14. ASSUME NEW i \in Behind', NEW j \in Behind', i < j PROVE sinks'[j] < sinks'[i]
  <2>1. j # 1 /\ j - 1 \in Behind /\ sinks'[j] = sinks[j - 1]
    BY <1>9, <1>10, <1>14
  <2>2. CASE i = 1
    <3>1. sinks[j - 1] \in Sink
      BY <2>1 DEF IInv, Listed, Live
    <3> QED
      BY <1>1, <1>6, <2>1, <2>2, <3>1 DEF s
  <2>3. CASE i # 1
    <3>1. i - 1 \in Behind /\ sinks'[i] = sinks[i - 1] /\ i - 1 < j - 1
      BY <1>9, <1>10, <1>14, <2>3
    <3> QED
      BY <2>1, <3>1 DEF IInv, Listed
  <2> QED
    BY <2>2, <2>3
<1>15. Listed'
  <2>1. sinks' # <<>>
    BY <1>6, <1>8, EmptySeq
  <2> QED
    BY <1>4, <1>13, <1>14, <2>1 DEF Listed
<1>16. Labelled'
  <2>1. handles' = IF Known(h) \/ Full THEN handles ELSE handles \cup {[key |-> h, value |-> s]}
    BY <1>2 DEF Register, Relabel, s
  <2>2. \A r \in Live : r \in Sink /\ r < s /\ named'[r] = named[r]
    BY <1>1, <1>3 DEF Live, s
  <2>3. ASSUME NEW e \in handles
        PROVE  /\ e.value \in Live' /\ named'[e.value] = e.key
               /\ \A r \in Live' : named'[r] = e.key => e.value <= r
    <3>1. /\ e.value \in Live /\ named[e.value] = e.key
          /\ \A r \in Live : named[r] = e.key => e.value <= r
      BY DEF IInv, Labelled
    <3>2. e.value <= s
      BY <1>1, <2>2, <3>1 DEF s
    <3> QED
      BY <1>5, <2>2, <3>1, <3>2
  <2>4. ASSUME ~ Known(h), ~ Full PROVE \A r \in Live : named[r] # h
    BY <2>4 DEF IInv, Labelled
  <2>5. ASSUME NEW e \in handles', e \notin handles
        PROVE  /\ e.value \in Live' /\ named'[e.value] = e.key
               /\ \A r \in Live' : named'[r] = e.key => e.value <= r
    <3>1. ~ Known(h) /\ ~ Full /\ e.value = s /\ e.key = h
      BY <2>1, <2>5
    <3>2. \A r \in Live : named'[r] # h
      BY <2>2, <2>4, <3>1
    <3>3. s <= s
      BY <1>1 DEF s
    <3> QED
      BY <1>3, <1>5, <3>1, <3>2, <3>3
  <2>6. ASSUME ~ Full PROVE \A r \in Live' : \E e \in handles' : e.key = named'[r]
    <3>1. handles \subseteq handles' /\ \E e \in handles' : e.key = h
      <4>1. CASE Known(h)
        BY <2>1, <4>1 DEF Known
      <4>2. CASE ~ Known(h)
        <5> DEFINE new == [key |-> h, value |-> s]
        <5>1. new \in handles' /\ new.key = h /\ handles \subseteq handles'
          BY <2>1, <2>6, <4>2
        <5> HIDE DEF new
        <5> QED
          BY <5>1
      <4> QED
        BY <4>1, <4>2
    <3>2. \A r \in Live : \E e \in handles : e.key = named[r]
      BY <2>6 DEF IInv, Labelled, Known
    <3> QED
      BY <1>3, <1>5, <2>2, <3>1, <3>2
  <2>7. Full => Full'
    BY <2>1 DEF Full
  <2> QED
    BY <2>3, <2>5, <2>6, <2>7 DEF Labelled, Known
<1> QED
  BY <1>7, <1>15, <1>16

(* Initialising and destroying leave no sink in use.                        *)
LEMMA NoneLeft ==
  ASSUME IInv, LoggerInit \/ LoggerDestroy
  PROVE  Types' /\ Listed' /\ Labelled'
<1>1. /\ level' = level /\ named' = named /\ Sink' = Sink /\ handles' = {}
      /\ \/ sinks' = <<>> /\ status' \in {"off", "destroyed"}
         \/ sinks' = <<0>> /\ status' = "on"
  <2>1. CASE LoggerInit
    BY <2>1 DEF LoggerInit, Sink
  <2>2. CASE LoggerDestroy
    BY <2>2 DEF LoggerDestroy, Sink
  <2> QED
    BY <2>1, <2>2
<1>2. Len(sinks') \in {0, 1} /\ sinks' \in Seq(Nat) /\ Behind' = {}
  <2> PICK after : after = sinks'
    OBVIOUS
  <2>3. Len(after) \in {0, 1} /\ after \in Seq(Nat)
    <3>1. <<>> \in Seq(Nat) /\ Len(<<>>) = 0
      BY EmptySeq
    <3>2. <<0>> \in Seq(Nat) /\ Len(<<0>>) = 1
      OBVIOUS
    <3>3. after = <<>> \/ after = <<0>>
      BY <1>1
    <3> QED
      BY <3>1, <3>2, <3>3
  <2>4. \A i : i \notin 1 .. Len(after) - 1
    <3>1. CASE Len(after) = 0
      BY <3>1
    <3>2. CASE Len(after) = 1
      BY <3>2
    <3> QED
      BY <2>3, <3>1, <3>2
  <2> QED
    BY <2>3, <2>4 DEF Behind
<1>3. freed' \subseteq Sink /\ Live' = {}
  <2>1. freed \subseteq Sink
    BY DEF IInv, Types
  <2>2. CASE LoggerInit
    <3>1. freed' = freed /\ sinks = <<>>
      BY <2>2 DEF LoggerInit, IInv, Listed
    <3>2. Behind = {}
      BY <3>1, EmptySeq DEF Behind
    <3>3. Live = {}
      BY <3>2 DEF IInv, Listed
    <3> QED
      BY <1>1, <2>1, <3>1, <3>3 DEF Live
  <2>3. CASE LoggerDestroy
    <3>1. freed' = freed \cup {sinks[i] : i \in Behind}
      BY <2>3 DEF LoggerDestroy, Behind
    <3>2. {sinks[i] : i \in Behind} = Live
      BY DEF IInv, Listed
    <3> QED
      BY <1>1, <2>1, <3>1, <3>2 DEF Live
  <2> QED
    BY <2>2, <2>3
<1>4. Types'
  BY <1>1, <1>2, <1>3 DEF IInv, Types
<1>5. Listed'
  <2>1. status' = "on" => sinks' # <<>>
    <3>1. Len(<<0>>) = 1 /\ Len(<<>>) = 0
      BY EmptySeq
    <3> QED
      BY <1>1, <3>1
  <2>2. status' \in {"off", "destroyed"} => sinks' = <<>>
    BY <1>1
  <2> QED
    BY <1>2, <1>3, <2>1, <2>2 DEF Listed
<1> QED
  BY <1>1, <1>3, <1>4, <1>5 DEF Labelled

(* No other call changes what the list and the map hold.                    *)
LEMMA OthersKeep ==
  ASSUME IInv,
         UNCHANGED <<handles, sinks, freed, named>>,
         level' = level \/ \E s \in Sink, l \in Level : level' = [level EXCEPT ![s] = l],
         status' = status \/ status' \in {"crash", "stuck", "exited"}
  PROVE  Types' /\ Listed' /\ Labelled'
<1>1. level' \in Seq(Level) /\ Len(level') = Len(level)
  <2>1. level \in Seq(Level)
    BY DEF IInv, Types
  <2>2. ASSUME NEW s \in Sink, NEW l \in Level, level' = [level EXCEPT ![s] = l]
        PROVE  level' \in Seq(Level) /\ Len(level') = Len(level)
    <3>1. s \in 1 .. Len(level)
      BY Sequences DEF IInv
    <3> QED
      BY <2>1, <2>2, <3>1, ExceptSeq
  <2> QED
    BY <2>1, <2>2
<1>2. Sink' = Sink /\ Live' = Live
  <2>1. Sink' = Sink
    BY <1>1, Sequences, LenProperties DEF IInv, Sink
  <2> QED
    BY <2>1 DEF Live
<1>3. Types'
  BY <1>1, <1>2 DEF IInv, Types
<1>4. Listed'
  BY <1>2 DEF IInv, Listed, Behind
<1>5. Labelled'
  BY <1>2 DEF IInv, Labelled, Known, Full
<1> QED
  BY <1>3, <1>4, <1>5

(* Messages are delivered after every call.                                 *)
LEMMA DeliveredStep == IInv /\ Next => Delivered'
<1> SUFFICES ASSUME IInv, Next PROVE Delivered'
  OBVIOUS
<1>1. CASE LoggerInit
  BY <1>1 DEF LoggerInit, NoCall, Delivered
<1>2. CASE LoggerDestroy
  <2>1. Live' = {} \/ status' = "off"
    <3>1. {sinks[i] : i \in Behind} = Live
      BY DEF IInv, Listed
    <3>2. freed' = freed \cup {sinks[i] : i \in Behind} /\ Sink' = Sink
      BY <1>2 DEF LoggerDestroy, Behind, Sink
    <3> QED
      BY <3>1, <3>2 DEF Live
  <2> QED
    BY <1>2, <2>1 DEF LoggerDestroy, NoCall, Delivered
<1>3. ASSUME NEW l \in Level, Log(l) PROVE Delivered'
  <2>1. /\ call'.op = "log" /\ call'.level = l /\ call'.result = Writer(l)
        /\ level' = level /\ freed' = freed /\ status' # "destroyed"
    BY <1>3 DEF Log
  <2>2. Live' = Live
    BY <2>1 DEF Live, Sink
  <2>3. PICK takers : takers = {s \in Live : l >= level[s]}
    OBVIOUS
  <2>4. Writer(l) = IF takers = {} THEN 0 ELSE CHOOSE s \in takers : \A r \in takers : r <= s
    BY <2>3, WriterIsLatest DEF IInv
  <2>5. {s \in Live' : call'.level >= level'[s]} = takers
    BY <2>1, <2>2, <2>3
  <2> QED
    BY <2>1, <2>4, <2>5 DEF Delivered
<1>4. ASSUME NEW h \in Handle, NEW l \in Level, Register(h, l) \/ SetLevel(h, l) PROVE Delivered'
  <2>1. call'.op # "log" /\ status' # "destroyed"
    BY <1>4 DEF Register, SetLevel, Missing, store
  <2> QED
    BY <2>1 DEF Delivered
<1>5. ASSUME NEW h \in Handle, GetLevel(h) PROVE Delivered'
  <2>1. call'.op # "log" /\ status' # "destroyed"
    BY <1>5 DEF GetLevel, Missing, store
  <2> QED
    BY <2>1 DEF Delivered
<1> QED
  BY <1>1, <1>2, <1>3, <1>4, <1>5 DEF Next

(* Every call keeps the list and the map.                                   *)
LEMMA StoreStep == IInv /\ Next => Types' /\ Listed' /\ Labelled'
<1> SUFFICES ASSUME IInv, Next PROVE Types' /\ Listed' /\ Labelled'
  OBVIOUS
<1>1. CASE LoggerInit \/ LoggerDestroy
  BY <1>1, NoneLeft
<1> DEFINE Same ==
      /\ UNCHANGED <<handles, sinks, freed, named>>
      /\ level' = level \/ \E s \in Sink, l \in Level : level' = [level EXCEPT ![s] = l]
      /\ status' = status \/ status' \in {"crash", "stuck", "exited"}
<1>2. Same => Types' /\ Listed' /\ Labelled'
  BY OthersKeep
<1>3. ASSUME NEW l \in Level, Log(l) PROVE Same
  BY <1>3 DEF Log
<1>4. ASSUME NEW h \in Handle, NEW l \in Level, SetLevel(h, l) PROVE Same
  BY <1>4 DEF SetLevel, Missing, store
<1>5. ASSUME NEW h \in Handle, GetLevel(h) PROVE Same
  BY <1>5 DEF GetLevel, Missing, store
<1>6. ASSUME NEW h \in Handle, NEW l \in Level, Register(h, l)
      PROVE  Types' /\ Listed' /\ Labelled'
  <2>1. CASE status = "on"
    BY <1>6, <2>1, RegisterKeeps
  <2>2. CASE status # "on"
    <3>1. Same
      BY <1>6, <2>2 DEF Register
    <3> QED
      BY <1>2, <3>1
  <2> QED
    BY <2>1, <2>2
<1> HIDE DEF Same
<1> QED
  BY <1>1, <1>2, <1>3, <1>4, <1>5, <1>6 DEF Next
-----------------------------------------------------------------------------
(* The list holds the sinks in use in order, the map the first of each      *)
(* handle, and the message last logged was delivered.                       *)
THEOREM LoggerInvariance == Spec => []IInv
<1>1. Init => IInv
  <2> SUFFICES ASSUME Init PROVE IInv
    OBVIOUS
  <2>1. /\ level = <<>> /\ named = <<>> /\ sinks = <<>> /\ handles = {} /\ freed = {}
        /\ status = "off" /\ call = NoCall
    BY DEF Init
  <2>2. Types
    BY <2>1, EmptySeq DEF Types
  <2>3. Live = {} /\ Behind = {}
    BY <2>1, EmptySeq DEF Live, Sink, Behind
  <2> QED
    BY <2>1, <2>2, <2>3 DEF IInv, Listed, Labelled, Delivered, NoCall
<1>2. IInv /\ [Next]_vars => IInv'
  <2> SUFFICES ASSUME IInv, [Next]_vars PROVE IInv'
    OBVIOUS
  <2>1. CASE Next
    BY <2>1, StoreStep, DeliveredStep DEF IInv
  <2>2. CASE UNCHANGED vars
    BY <2>2 DEF IInv, Types, Listed, Labelled, Delivered, Behind, Known, Full, Live, Sink, vars
  <2> QED
    BY <2>1, <2>2
<1> QED
  BY <1>1, <1>2, PTL DEF Spec

(* A message is written by the sink registered last of those that take its  *)
(* level, and by none only if none takes it; a destroyed logger has none.   *)
THEOREM DeliveredAlways == Spec => []Delivered
<1>1. IInv => Delivered
  BY DEF IInv
<1> QED
  BY <1>1, LoggerInvariance, PTL

(* Setting a level through a handle changes the first sink registered under *)
(* it or under a longer one, and reads NULL only if there is none.          *)
THEOREM FirstReached == Spec => HandlesReachFirst
<1> DEFINE Reaches ==
      /\ \A s \in Sink :
           level'[s] # level[s] =>
             /\ <<call'.handle, named[s]>> \in Extends
             /\ \A r \in Live : r < s => named[r] # named[s]
      /\ status' = "crash" => \A s \in Live : named[s] # call'.handle
<1>1. IInv /\ [Next]_vars => Reaches \/ UNCHANGED vars
  <2> SUFFICES ASSUME IInv, Next PROVE Reaches
    OBVIOUS
  <2>1. /\ Len(level) \in Nat /\ Sink = 1 .. Len(level) /\ level \in [Sink -> Level]
    BY Sequences DEF IInv
  <2>2. Labelled
    BY DEF IInv
  <2>3. ASSUME NEW h, Missing(h), call'.handle = h PROVE Reaches
    BY <2>2, <2>3 DEF Missing, Labelled
  <2>4. CASE LoggerInit \/ LoggerDestroy \/ \E l \in Level : Log(l)
    BY <2>4 DEF LoggerInit, LoggerDestroy, Log
  <2>5. ASSUME NEW h \in Handle, NEW l \in Level, Register(h, l) PROVE Reaches
    <3>1. CASE level' = Append(level, l) /\ status' = "on"
      <4>1. \A s \in Sink : level'[s] = level[s]
        BY <2>1, <3>1, AppendProperties DEF IInv, Types
      <4> QED
        BY <3>1, <4>1
    <3>2. CASE level' = level /\ status' = "off"
      BY <3>2
    <3> QED
      BY <2>5, <3>1, <3>2 DEF Register
  <2>6. ASSUME NEW h \in Handle, NEW l \in Level, SetLevel(h, l) PROVE Reaches
    <3>1. call'.handle = h
      BY <2>6 DEF SetLevel
    <3>2. ASSUME NEW t \in Sink, Retrieved(h, t), level' = [level EXCEPT ![t] = l], status' = "on"
          PROVE  Reaches
      <4>1. \A s \in Sink : level'[s] # level[s] => s = t
        BY <2>1, <3>2
      <4>2. PICK e \in handles : <<h, e.key>> \in Extends /\ t = e.value
        BY <3>2 DEF Retrieved
      <4>3. /\ t \in Live /\ named[t] = e.key
            /\ \A r \in Live : named[r] = e.key => t <= r
        BY <2>2, <4>2 DEF Labelled
      <4>4. \A r \in Live : r < t => named[r] # named[t]
        <5>1. Live \subseteq Nat
          BY <2>1 DEF Live
        <5> QED
          BY <4>3, <5>1
      <4> QED
        BY <3>1, <3>2, <4>1, <4>2, <4>3, <4>4
    <3>3. CASE UNCHANGED store /\ status = "off"
      BY <3>3 DEF store
    <3> QED
      BY <2>3, <2>6, <3>1, <3>2, <3>3 DEF SetLevel
  <2>7. ASSUME NEW h \in Handle, GetLevel(h) PROVE Reaches
    <3>1. CASE UNCHANGED store /\ status \in {"on", "off"}
      BY <3>1 DEF store
    <3>2. CASE Missing(h) /\ call'.handle = h
      BY <2>3, <3>2
    <3> QED
      BY <2>7, <3>1, <3>2 DEF GetLevel
  <2> QED
    BY <2>4, <2>5, <2>6, <2>7 DEF Next
<1> QED
  BY <1>1, LoggerInvariance, PTL DEF Spec, HandlesReachFirst
=============================================================================
