------------------------------- MODULE Logger -------------------------------
(***************************************************************************)
(* src/logger.c: the sinks of g_logger, their list, which ends in an entry *)
(* without a sink, and the hash map of their handles, with AssocMap's      *)
(* promises: a handle keeps its first sink, and a longer handle may answer *)
(* for a shorter one.  A full map refuses a handle, and looks for one it   *)
(* does not hold for ever.  A sink is named by its number in the order of  *)
(* registration, 0 is NULL.  Formatting is left out.                       *)
(***************************************************************************)
EXTENDS Integers, Sequences, FiniteSets

CONSTANTS
  Handle,
  Extends, \* <<h, k>> \in Extends: h is a prefix of k (reflexive)
  MaxHandles, \* HASHMAP_LIMIT, the most handles the map takes
  Null,    \* stands for the handle or level of a call that has none
  MaxSinks \* bound: sinks registered

LOG_SILENT == 0
LOG_FATAL == 4
Level == LOG_SILENT .. LOG_FATAL

VARIABLES
  status,  \* "off", "on", "destroyed", "exited" (logger_fatal), "crash" or "stuck"
  handles, \* the entries of the hash map
  sinks,   \* the list, its last entry included
  level,   \* of each sink
  freed,   \* the sinks freed
  call,    \* the last call: its level, its handle, what it returned
  named    \* not in the code: the handle of each sink

vars == <<status, handles, sinks, level, freed, call, named>>
store == <<status, handles, sinks, level, freed, named>>

Sink == DOMAIN level
NoCall == [op |-> "none", level |-> Null, handle |-> Null, result |-> 0]

Init ==
  /\ status = "off"
  /\ handles = {} /\ sinks = <<>> /\ level = <<>>
  /\ freed = {}
  /\ call = NoCall
  /\ named = <<>>

(* logger_init, also after a destruction.                                   *)
LoggerInit ==
  /\ status \in {"off", "destroyed"}
  /\ status' = "on"
  /\ handles' = {} /\ sinks' = <<0>>
  /\ call' = NoCall
  /\ UNCHANGED <<level, freed, named>>

(* hashmap_insert, whose failure is ignored, and list_fpush.  Mutants: the  *)
(* handle gets the new sink; the sink goes behind the first entry.          *)
Known(h) == \E e \in handles : e.key = h
Full == Cardinality(handles) >= MaxHandles
RelabelLatest(h, s) ==
  handles' = {e \in handles : e.key # h} \cup {[key |-> h, value |-> s]}
Relabel(h, s) ==
  handles' = IF Known(h) \/ Full THEN handles ELSE handles \cup {[key |-> h, value |-> s]}
PushSecond(s) == sinks' = <<Head(sinks), s>> \o Tail(sinks)
Push(s) == sinks' = <<s>> \o sinks

Register(h, l) ==
  /\ \/ /\ status = "on" /\ Len(level) < MaxSinks
        /\ level' = Append(level, l)
        /\ named' = Append(named, h)
        /\ Relabel(h, Len(level'))
        /\ Push(Len(level'))
     \/ /\ status = "off"
        /\ UNCHANGED <<handles, sinks, level, named>>
  /\ call' = [op |-> "register", level |-> l, handle |-> h, result |-> 0]
  /\ UNCHANGED <<status, freed>>

(* hashmap_retrieve(...)->value: NULL is read for a handle it cannot find,  *)
(* and a full map has no empty slot to end the search at.                   *)
Retrieved(h, s) == \E e \in handles : <<h, e.key>> \in Extends /\ s = e.value
Missing(h) ==
  /\ status = "on" /\ ~Known(h)
  /\ status' = IF Full THEN "stuck" ELSE "crash"
  /\ UNCHANGED <<handles, sinks, level, freed, named>>

SetLevel(h, l) ==
  /\ call' = [op |-> "setlevel", level |-> l, handle |-> h, result |-> 0]
  /\ \/ /\ status = "on"
        /\ \E s \in Sink : Retrieved(h, s) /\ level' = [level EXCEPT ![s] = l]
        /\ UNCHANGED <<status, handles, sinks, freed, named>>
     \/ Missing(h)
     \/ status = "off" /\ UNCHANGED store

GetLevel(h) ==
  \/ /\ status = "on"
     /\ \E s \in Sink :
          /\ Retrieved(h, s)
          /\ call' = [op |-> "getlevel", level |-> Null, handle |-> h, result |-> level[s]]
     /\ UNCHANGED store
  \/ /\ Missing(h)
     /\ call' = [op |-> "getlevel", level |-> Null, handle |-> h, result |-> -1]
  \/ /\ status = "off"
     /\ call' = [op |-> "getlevel", level |-> Null, handle |-> h, result |-> -1]
     /\ UNCHANGED store

(* logger_internal, as each of the wrappers calls it: the first sink in the *)
(* list that takes the level writes the message; the entry without a        *)
(* successor is not asked.  logger_fatal exits.                             *)
Asked(l) == {i \in 1 .. Len(sinks) - 1 : l >= level[sinks[i]]}
Writer(l) ==
  IF Asked(l) = {} THEN 0
  ELSE sinks[CHOOSE i \in Asked(l) : \A j \in Asked(l) : i <= j]

Log(l) ==
  /\ status \in {"off", "on"}
  /\ call' = [op |-> "log", level |-> l, handle |-> Null, result |-> Writer(l)]
  /\ status' = IF l = LOG_FATAL THEN "exited" ELSE status
  /\ UNCHANGED <<handles, sinks, level, freed, named>>

LoggerDestroy ==
  /\ status \in {"off", "on"}
  /\ status' = IF status = "on" THEN "destroyed" ELSE "off"
  /\ freed' = freed \cup {sinks[i] : i \in 1 .. Len(sinks) - 1}
  /\ handles' = {} /\ sinks' = <<>>
  /\ call' = NoCall
  /\ UNCHANGED <<level, named>>

Next ==
  \/ LoggerInit \/ LoggerDestroy
  \/ \E h \in Handle, l \in Level : Register(h, l) \/ SetLevel(h, l)
  \/ \E h \in Handle : GetLevel(h)
  \/ \E l \in Level : Log(l)

Spec == Init /\ [][Next]_vars
-----------------------------------------------------------------------------
Live == Sink \ freed

(* A message is written once, by the sink registered last of those that     *)
(* take its level, and is lost only if no sink takes it; sinks of a logger  *)
(* that was destroyed get nothing, and all of them are freed.               *)
Delivered ==
  /\ call.op = "log" =>
       LET takers == {s \in Live : call.level >= level[s]}
       IN  call.result = IF takers = {} THEN 0 ELSE CHOOSE s \in takers : \A r \in takers : r <= s
  /\ status = "destroyed" => Live = {}

(* A handle reaches the first sink registered under it or under a longer    *)
(* handle, never a later one, whose level stays as it was registered, also  *)
(* when the map has refused handles.  NULL is read only for a handle no     *)
(* sink was registered under.                                               *)
HandlesReachFirst ==
  [][/\ \A s \in Sink :
          level'[s] # level[s] =>
            /\ <<call'.handle, named[s]>> \in Extends
            /\ \A r \in Live : r < s => named[r] # named[s]
     /\ status' = "crash" => \A s \in Live : named[s] # call'.handle]_vars
=============================================================================
