--------------------------- MODULE MCKeywordTable ---------------------------
(***************************************************************************)
(* The table of the program: 32 slots growing to 64, at most 2^13.  It is  *)
(* asked for the keywords, all their prefixes and a few other names; no    *)
(* other identifier begins a keyword.                                      *)
(***************************************************************************)
EXTENDS KeywordTable

MCIdentifiers ==
  UNION {Prefixes(k) : k \in Keywords} \cup {"ix", "main", "ab", "cas_", "xor", "k", "y"}
=============================================================================
