------------------------------ MODULE MCLogger ------------------------------
(***************************************************************************)
(* Small instances of Logger: three sinks for three handles, so that two   *)
(* share one, one handle is a prefix of another, and the map holds two.    *)
(***************************************************************************)
EXTENDS Logger

MCExtends == {<<h, h>> : h \in Handle} \cup {<<"def", "default">>}
=============================================================================
