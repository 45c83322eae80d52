---------------------------- MODULE TokenStream -----------------------------
(***************************************************************************)
(* src/lexer.c, public part: the stack of sources, the one-token cache of  *)
(* lexer_peek, and who owns a token.                                       *)
(*                                                                         *)
(* A token is named by the order it is scanned in: token t is the t-th one *)
(* lexer_internal made, 0 is NULL.  Scanning is abstracted to its outcome, *)
(* a token of some kind or EOF; a source may end anywhere, so the token    *)
(* sequences of all source texts are covered.                              *)
(***************************************************************************)
EXTENDS Naturals, Sequences

CONSTANTS
  Kind,      \* the token kinds a source may hold
  EOF,       \* TOKEN_EOF
  MaxSource, \* bound: sources registered
  Bound(_)   \* bound: the token sequences scanned before only EOF is left

ASSUME StreamAssumption == EOF \notin Kind /\ MaxSource \in Nat

VARIABLES
  sources,    \* the stack of open sources, the current one first
  registered, \* how many sources were registered; each is named by its number
  cache,      \* the token lexer_peek keeps, 0 if none
  read,       \* every token scanned so far: its kind and its source
  given,      \* the tokens handed out, in order
  held,       \* handed out by lexer_get, for the caller to free
  freed,      \* freed, by the lexer or by the caller
  alive       \* before lexer_destroy

lexer == <<sources, registered, cache, read, given, alive>>
streamVars == <<lexer, held, freed>>

KindOf(t) == read[t].kind
(* The token t, unless NULL.                                                *)
Some(t) == {t} \ {0}

StreamInit ==
  /\ sources = <<>> /\ registered = 0
  /\ cache = 0
  /\ read = <<>> /\ given = <<>>
  /\ held = {} /\ freed = {}
  /\ alive = TRUE
-----------------------------------------------------------------------------
(* lexer_internal on the top source.  At its end the source is popped and   *)
(* destroyed.  Mutants: it stays on the stack; it is popped with any token. *)
PopNever(k) == sources' = sources
PopEager(k) == sources' = Tail(sources)
Pop(k) == sources' = IF k = EOF THEN Tail(sources) ELSE sources

Scan ==
  \E k \in Kind \cup {EOF} :
    /\ read' = Append(read, [kind |-> k, source |-> Head(sources)])
    /\ k = EOF \/ Bound(read')
    /\ Pop(k)

(* lexer_get hands out t.  Without a source it is NULL, whatever the cache  *)
(* holds.  Mutant: the token stays in the cache.                            *)
TakeCachedKeeps(t) == t = cache /\ UNCHANGED cache
TakeCached(t) == t = cache /\ cache' = 0

Take(t) ==
  /\ \/ /\ sources = <<>>
        /\ t = 0
        /\ UNCHANGED <<sources, cache, read, given>>
     \/ /\ sources # <<>> /\ cache # 0
        /\ TakeCached(t)
        /\ given' = Append(given, t)
        /\ UNCHANGED <<sources, read>>
     \/ /\ sources # <<>> /\ cache = 0
        /\ Scan
        /\ t = Len(read) + 1
        /\ given' = Append(given, t)
        /\ UNCHANGED cache
  /\ UNCHANGED <<registered, alive>>

(* lexer_peek with an empty cache.  Mutant: it scans over a full one too.   *)
FillAlways == sources # <<>> /\ Scan /\ cache' = Len(read) + 1
Fill == sources # <<>> /\ cache = 0 /\ Scan /\ cache' = Len(read) + 1

Peek ==
  /\ Fill
  /\ UNCHANGED <<registered, given, alive, held, freed>>

(* lexer_get: the token is the caller's.  Mutant: it is freed as well.      *)
GetFrees(t) ==
  /\ Take(t)
  /\ freed' = freed \cup Some(t)
  /\ UNCHANGED held

Get(t) ==
  /\ Take(t)
  /\ held' = held \cup Some(t)
  /\ UNCHANGED freed

(* lexer_eat and lexer_advance: the token is freed at once.  The second     *)
(* also returns its kind, or -1 if it is NULL.  Mutant: it is not freed.    *)
EatKeeps(t) ==
  /\ Take(t)
  /\ held' = held \cup Some(t)
  /\ UNCHANGED freed

Eat(t) ==
  /\ Take(t)
  /\ freed' = freed \cup Some(t)
  /\ UNCHANGED held

(* lexer_register: the new source is read before the ones below it.         *)
Register ==
  /\ registered < MaxSource
  /\ registered' = registered + 1
  /\ sources' = <<registered'>> \o sources
  /\ UNCHANGED <<cache, read, given, alive, held, freed>>

(* The caller frees a token it got.                                         *)
Free(t) ==
  /\ t \in held
  /\ held' = held \ {t}
  /\ freed' = freed \cup {t}
  /\ UNCHANGED lexer

(* lexer_destroy: the cached token and the sources go; what the caller      *)
(* holds stays its own.                                                     *)
Destroy ==
  /\ alive' = FALSE
  /\ freed' = freed \cup Some(cache)
  /\ cache' = 0
  /\ sources' = <<>>
  /\ UNCHANGED <<registered, read, given, held>>

StreamNext ==
  \/ /\ alive
     /\ \/ Register
        \/ Peek
        \/ \E t \in {cache, Len(read) + 1, 0} : Get(t) \/ Eat(t)
        \/ Destroy
  \/ \E t \in held : Free(t)

StreamSpec == StreamInit /\ [][StreamNext]_streamVars
-----------------------------------------------------------------------------
Token == 1 .. Len(read)

(* Type correctness: sources are named by their numbers, tokens by theirs.  *)
StreamTypeOK ==
  /\ registered \in Nat
  /\ sources \in Seq(1 .. registered)
  /\ read \in Seq([kind : Kind \cup {EOF}, source : 1 .. registered])
  /\ cache \in Token \cup {0}
  /\ given \in Seq(Token)
  /\ held \subseteq Token /\ freed \subseteq Token
  /\ alive \in BOOLEAN

(* Tokens are handed out in the order they are scanned, each once, and the  *)
(* only one scanned ahead is in the cache: lookahead loses, repeats and     *)
(* reorders nothing, also when a source is registered or ends in between.   *)
InOrder ==
  /\ \A i \in 1 .. Len(given) : given[i] = i
  /\ alive => Len(read) = Len(given) + (IF cache = 0 THEN 0 ELSE 1)
  /\ cache # 0 => cache = Len(read)

(* Every token handed out is the caller's or freed, never both, and the     *)
(* cached one is neither: no token leaks in the lexer or is freed twice.    *)
Accounted ==
  /\ held \cap freed = {}
  /\ cache \notin held \cup freed
  /\ alive => held \cup freed = 1 .. Len(given)

(* A cached token whose source is gone, whose text is therefore freed, is   *)
(* an EOF; a token that still stands for text is never left behind when     *)
(* the last source ends.                                                    *)
OnlyEofOutlives ==
  cache # 0 /\ KindOf(cache) # EOF =>
    \E i \in 1 .. Len(sources) : sources[i] = read[cache].source

EofsOf(s) == {t \in Token : KindOf(t) = EOF /\ read[t].source = s}

(* Each source ends once: it has left the stack when its EOF was scanned,   *)
(* nothing of it is scanned later, and no other source ends in its stead.   *)
EndsOnce ==
  alive =>
    \A s \in 1 .. registered :
      IF \E i \in 1 .. Len(sources) : sources[i] = s
      THEN EofsOf(s) = {}
      ELSE \E t \in EofsOf(s) : \A u \in Token : read[u].source = s => u <= t
=============================================================================
