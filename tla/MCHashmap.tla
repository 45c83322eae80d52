----------------------------- MODULE MCHashmap ------------------------------
(***************************************************************************)
(* Small instances of Hashmap.  A new table has two slots and may grow     *)
(* once, to four, so that an insertion can find the table full both below  *)
(* and at the limit.  The hashes make keys collide and probes wrap around: *)
(* every key but k4 starts at the last slot of the first table, k2 and k3  *)
(* also at the last slot of the second.                                    *)
(***************************************************************************)
EXTENDS Hashmap, TLC

CONSTANTS k1, k2, k3, k4

MCHash == (k1 :> 1) @@ (k2 :> 3) @@ (k3 :> 7) @@ (k4 :> 4)
MCKey3 == {k1, k2, k3}
MCHash3 == [k \in MCKey3 |-> MCHash[k]]

(* k3 and k1 are prefixes of k2.                                            *)
MCExtends == {<<k, k>> : k \in Key} \cup {<<k3, k2>>, <<k1, k2>>}
=============================================================================
