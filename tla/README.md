# A verification of qcc

qcc is the front end of a small C compiler. This directory holds TLA+ models of
its parts, TLC configurations that check them on small instances, and proofs,
checked by TLAPS, of theorems that hold for every value of the constants. The
models are written from the source; where a comment, a header or a diagnostic
says something else than the code does, the model has what the code does and a
run shows the difference.

Paths below are relative to the repository: `src/parser.c`, `include/qcc/ast.h`.

## 1. The system

`main` creates one `Unit`, registers one file with it and compiles it. The
program is sequential: no threads, no signals, nothing written that outlives
the process. What is hard in it is not concurrency but

- state machines driven by arbitrary sequences of calls (the hash map, the
  lexer's sources and cache, the scopes);
- loops that must end for every state and every input;
- recursion over a token stream in which a lookahead, a freed token or the end
  of the file may be met anywhere;
- who owns a token, a node or a symbol, in a program without a convention for it.

| Part | State | Operations | What makes it correct | Status |
|---|---|---|---|---|
| hash map, `src/hashmap.c` | slots, `in_use`, `capacity` | create, insert, remove, retrieve, enumerate, grow, destroy | it behaves as a map; every call returns; growth loses and doubles nothing | modelled, proved |
| token stream, public part of `src/lexer.c` | stack of sources, one-token cache | register, get, peek, eat, advance, destroy | tokens come in order, each once; each is freed once; each source ends once | modelled, proved |
| scanner, the static part of `src/lexer.c`, `src/token.c` | cursor, line | skip, directive, number, identifier, operator | every source is cut into the longest tokens of their sorts, with exceptions that are named; lines are counted; it comes to an end | modelled but for uncalled functions |
| keyword table, `src/keyword.c` | a hash map of 36 entries | filled once, looked up | exactly the keywords are found | modelled |
| parser, `src/parser.c` | the C stack, the tree | the `parse_*` functions | the tree is the one the grammar gives; what is refused is no sentence of what is implemented of it; no token is lost; it comes to an end | modelled, proved in part |
| symbol table, `src/symbol.c` | tree of scopes, the current one | enter, leave, install, remove, lookup, destroy | the innermost visible symbol is found; every scope is freed once | modelled, proved |
| syntax tree, `src/ast.c` | the tree | dump, destroy | every node and token is freed once; dump reads only what is there | modelled, proved in part |
| unit, `src/unit.c`, `src/main.c` | one of each part | create, register, compile, destroy | no part is used after it is destroyed | modelled, proved in part |
| logger, `src/logger.c` | sinks, handles | init, register, get and set level, log, destroy | a message reaches the sink it is for; a handle reaches its sink | modelled, proved |
| list, `src/list.c` | linked list | push, pop, top, indexed access | - | push, pop, top and length are sequences in the models; indexed access has no caller |
| source, `src/source.c` | file contents, cursor | create, fill, destroy | - | its cursor in `Scanner`, a missing file in `Unit`; reading is input |
| types, `src/type.c` | constants | predicates | - | not modelled: no state |
| preprocessor, `src/preprocess.c`, `src/macro.c` | - | an empty function | - | nothing to model but that it does nothing |
| back end (`cfg`, `codegen`, `dataflow`, `optimize`, `semantics`, `ssa`, `llir`, `x86_*`, ...) | - | - | - | empty files |

Who calls whom: `main` -> unit -> parser -> lexer -> scanner -> source; the
lexer owns the keyword table, which is a hash map, as are the scopes of the
symbol table and the handles of the logger. The parser asks the symbol table
for identifiers, but no code installs one, so every identifier is undeclared.
Tokens are created by the scanner, cached by the lexer, and handed to the
parser, which frees some, hangs others into the tree and forgets a few.

## 2. The plan

1. `AssocMap`, `Hashmap`, `MCHashmap`: the map as a promise and as a table. Done.
2. `HashmapProofs`: every safety property of the table and the refinement, for
   all constants. Done.
3. `TokenStream`, `MCTokenStream`, `TokenStreamProofs`. Done.
4. `Parser`, which extends `TokenStream`; `ParserGrammar`, the reference it is
   checked against; `MCParser`. Done.
5. `ParserProofs`: every step of the parser is a step of `TokenStream`, so that
   its theorems hold for the parser's use of it; the parser's type invariant,
   and where it reads NULL. `ParserNestingProofs`: how deep the calls are and
   which brackets they wait for, and what the end of the file does to them. Done.
6. `KeywordTable`: the real keywords with the real hash (64-bit FNV-1a, modulo
   the limit), for TLC only; which identifiers are taken for keywords. Done.
7. `Scanner`, `ScannerProofs`: characters to tokens; it implements the
   `TokenStream` of one source, so that what is checked and proved there holds
   for real texts. Done.
8. `ScopeStack`, `Symtab`, `SymtabProofs`: scopes over the promises of
   `AssocMap`, shown to implement a stack of environments. Done.
9. `Unit`, `UnitLeaks`, `UnitProofs`: dump and destroy over the parser's trees,
   and the order in which a unit is taken down; who frees what. Done.
10. `Logger`, `LoggerProofs`. Done.

What composes what: `Parser` extends `TokenStream`; `ParserGrammar` and `Unit`
extend `Parser`, `UnitLeaks` extends both; `KeywordTable` extends `Hashmap`;
`Scanner` instantiates `TokenStream`, `Hashmap` instantiates `AssocMap` and
`Symtab` instantiates `ScopeStack`, each with a refinement mapping.

Left to do: what section 6 lists as only model-checked.

## 3. The modules

### AssocMap and Hashmap

`AssocMap` is what a user of `include/qcc/hashmap.h` may rely on: a set of
entries with distinct keys. Inserting a stored key keeps the old entry, an
insertion may fail and then changes nothing, growth is invisible, and a lookup
may answer with an entry whose key the key asked for is a prefix of: that is
what `strncmp` in `hashmap_nretrieve` makes of it.

`Hashmap` is `src/hashmap.c` with one step per turn of a loop.

| Model | Code |
|---|---|
| `entries`, `in_use`, `capacity` | `struct hashmap`; a slot is `Empty` (null key), `Tomb` (`HASHMAP_TOMB`) or an entry |
| `pc`, `key`, `value`, `index` | the running call, its arguments, its `index` |
| `old`, `next` | `tmp.entries` and `i` of `hashmap_grow` |
| `Insert`, `InsertProbe` | `hashmap_insert` to its loop, and a turn of it |
| `StartGrow`, `GrowStep`, `Rehash`, `EndGrow` | `hashmap_grow`: its start, a turn of its loop, a turn of the loop of the nested `hashmap_insert`, its end |
| `Remove`, `RemoveProbe`, `Retrieve`, `RetrieveProbe` | `hashmap_remove`, `hashmap_retrieve` and `hashmap_nretrieve` |
| `Enumerate`, `Grow`, `Destroy`, `Create` | the functions of that name |

`Hash` is a constant, any function from keys to naturals, and `Extends` any
reflexive relation "is a prefix of"; `HASHMAP_DEFAULT` and `HASHMAP_LIMIT` are
the constants `Default` and `Limit`. Calls with a null map return at once and
are left out. Pointers into the table (`hashmap_retrieve`, `hashmap_enumerate`)
are entries by value: that growth leaves them dangling is a hazard no property
covers. The nested insertion's own growth is left out under the guard `~ Full`
of `GrowStep`; that it is never needed is the invariant `GrowthMoves`, and a
state that needed it would be a deadlock, which the run looks for.

### TokenStream

The public functions of `src/lexer.c`. A token is named by the order in which
it was scanned, 0 is NULL. Scanning is abstracted to its outcome: a token of
any kind, or the end of the source, at any time, so all texts are covered.

| Model | Code |
|---|---|
| `sources`, `cache` | the fields of `struct lexer` |
| `Take` | `lexer_get`, which `lexer_peek`, `lexer_eat` and `lexer_advance` call |
| `Get`, `Eat`, `Peek`, `Register`, `Destroy` | `lexer_get`; `lexer_eat` and `lexer_advance`; a `lexer_peek` that has to scan; `lexer_register`; `lexer_destroy` |
| `Free` | a caller's `free` of a token it got |
| `read`, `given`, `held`, `freed` | not in the code: what was scanned and handed out, and who owns it |

A `lexer_peek` that finds the cache full, or no source, changes nothing and is
no step. The bounds are `MaxSource`, the number of files registered, and
`Bound`, a predicate on the tokens scanned: where it fails only EOF is left. The
theorems hold for every value of both.

### Parser and ParserGrammar

`Parser` extends `TokenStream` with `src/parser.c`. The C stack is the variable
`stack`: one frame per `parse_*` call with the point it is at, the nodes its
callees returned and the operator token it holds. Every call of the lexer is
part of a step, in the order of the code; a step that needs a lookahead is
preceded by `LookAhead` (the `Peek` of `TokenStream`) unless the cache is full.

- The statements are a table, `Statement`: for each keyword the sequence of
  calls (`expr`, `stmt`, `decl`), required tokens (`lexer_advance(...) != ...`)
  and checks, in order. `Expect`, `Perform`, `LookElse` and `GetKeyword` carry
  it out.
- The five levels of binary operators and the comma are one loop, `LookLevel`,
  with their operators in `Ops` and their operands in `Operand`.
- `LookAssign`, `AssignOp`, `LookCond`, `LookUnary`, `LookPostfix`,
  `LookPrimary`, `Close`, `Member` are the rest of the expression functions.
  `parse_unary_expr` stays on the stack while `parse_postfix_expr` runs, and
  returns what that did (`PassPostfix`), so that there is a frame for each call.
- `status` is `fatal` after `logger_fatal` and `crash` after a read through
  NULL; the process is gone in both.

Tokens are named by their spelling; `num` is any constant and `id` any
identifier. A node is a record of its kind, its operator token, its children in
the order they were parsed, and `next`. An unsupported construct is modelled as
what the code does with it. Reads of freed tokens in diagnostics (`tok->line`
after `lexer_eat`) only choose the number printed and are left out.

C leaves the order open in which the members of an initializer list are
evaluated, and nodes are built with such lists (`.e.op = lexer_get(...)`,
`.e.rhs = parse_...(...)`, for example at line 582). The model takes them in
the order they are written, as gcc does.

`ParserGrammar` is the reference: the derivation trees of a token sequence,
computed bottom up from the grammar in the comments of `src/parser.c`, with C's
associativity and the strengths of operators that the layers of the file have.
It shares with the parser the form of a node and the sets of type specifiers
and assignment operators, and nothing else. Its operators are recursive, so it
is for TLC only and no module with proofs uses it.

The comments list more than the code implements. What the code refuses, or reads
as something else, is not in the reference: identifiers (396) and `goto` (340),
as no name is ever declared; string literals (398); calls (458; the code has a
TODO at 483) and member access (459-460, whose member is looked up as a
variable); casts and `sizeof` (515-517) and `!` (519); `^` (553); assignments
(688). A `for` that begins with a declaration is in it as the code reads it: the
declaration has its own semicolon (14) and another one follows, so that `for (int
; ; )`, which the comment at 271 calls for, is refused. One postfix operator is
taken although 455 allows any number: `NoSentenceLost` reads the grammar with one,
the other properties with any number.

### KeywordTable

`KeywordTable` extends `Hashmap` with what `lexer_create` and the scanner do
with one: the 36 names of `src/keyword.c` are inserted in their order (`Load`),
and identifiers are looked up (`LookUp`). Nothing is abstracted: the hash is
64-bit FNV-1a of the characters. The capacity is a power of two of at most
2^13, so the hash is computed modulo 2^13, for bits above never come down in a
multiplication or an exclusive or. The hash uses `Bitwise`, so the module is
for TLC only.

### Scanner

`lexer_internal` over the characters of one source. A text is a sequence of
characters, and the character at its end is NUL; the kind of an operator and of a
keyword is its spelling.

| Model | Code |
|---|---|
| `text`, `cursor`, `line` | the fields of `struct source` |
| `Get` | `lexer_get` up to the first character; NUL is the EOF, and the source is popped |
| `Skip`, `Directive` | a turn of the loop of `lexer_skip`; a turn of the loop over directives |
| `Integer`, `Float` | `lexer_numconst`; `Strtol` and `Strtod` are where the functions of that name stop |
| `Identifier` | `lexer_identifier` and the lookup of the keyword |
| `OpSep` | `lexer_opsep`, its branches as the table `Second` of what may follow a character |
| `tokens` | the tokens returned, by kind, place, length and line |

The lookup of an identifier answers as `KeywordTable` shows it to: a keyword
with itself; a prefix of one perhaps with that keyword (`Kinds`). `Scanner`
implements the `TokenStream` of one source (`ImplementsStream`): what is checked
and proved there of abstract tokens holds for the tokens of real texts. The
functions for character constants, strings and comments are called by nobody;
the character that begins one is a character no token begins with.

### ScopeStack and Symtab

`ScopeStack` is what a user of `include/qcc/symbol.h` may rely on: a stack of
environments, of which each keeps the first symbol of a name, and lookups from
the top down. An answer may have a longer name than the one asked for, as
`AssocMap` promises no more.

An installation may fail, at the limit of the hash map, and changes nothing.

`Symtab` is `src/symbol.c`: scopes with the link to the one around (`upref`)
and the list of those inside (`subscope`), which is what a scope is freed by.

| Model | Code |
|---|---|
| `Enter`, `Leave`, `Install`, `Remove` | `symtab_enter`, `symtab_leave`, `symtab_install`, `symtab_remove`; with the current scope NULL they are `ReadNull` |
| `LookUp`, `ScopeLookup` | a caller that asks `scope_lookup` for the current scope; a call of that function, which calls itself and is held in `find` |
| `Destroy`, `ScopeDestroy` | `symtab_destroy`; a step of the recursive `scope_destroy`, whose calls in progress are `doomed` |
| `path`, `freed` | not in the code: the scopes entered and not left, those freed, in order |

A scope that is left stays in the tree; it is found no longer and freed in the
end. `MaxScopes` bounds the scopes a run creates; the theorems hold for any.

### Unit

`Unit` extends `Parser`, and so `TokenStream`, with `main`: `UnitCreate`,
`UnitRegister` (the file may not open), `UnitCompile` (the steps of the parser),
`AstDump`, `UnitDestroy`, `AstDestroy`. The recursion of `ast_dump` and
`ast_destroy` is the list `visit` of the calls still to be made; a call is a
step. `Dumped` and `Destroyed` are the nodes each goes on to, which are not the
same: the dump shows the parts of loops and blocks, the destruction leaves them.
`UnitLeaks` adds `DestroyedExactly`, which recurses over trees and is for TLC
only.

### Logger

`src/logger.c`: `sinks` is the list, whose last entry has no sink; `handles` is
the hash map, with what `AssocMap` promises; `level` has the level of each sink,
named by its number. `Log` is every wrapper of `logger_internal`; which sink
writes is `Writer`. The hash map of handles and the list disagree when a handle
is registered twice: the map keeps the first sink, the list has both. They also
disagree when the map is at its limit (`MaxHandles`): `logger_register` ignores
that the insertion failed, the sink writes, but a lookup of its handle, unless a
longer one answers, never returns (status "stuck"), as the table has no empty
slot. A call after the destruction reads freed memory and is left out, but for
`LoggerInit`; `MaxSinks` bounds a run.

## 4. The runs

| Run | Question | Instance |
|---|---|---|
| `MCHashmap` | Do slots, count and probe paths stay consistent, does the table implement the map, do calls return? | 4 keys that collide and wrap, two prefixes, 2 values, 2 slots growing to 4; 293 thousand states |
| `MCKeywordTable` | Is every keyword found? | the program's table: 36 keywords, all their prefixes and other names; 836 states |
| `MCTokenStream` | Are tokens handed out in order, owned once, and sources ended once? | 2 sources, 4 tokens besides the ends; 8 thousand states |
| `MCScanner` | Are texts cut into the right tokens, on the right lines, to their end? | seven alphabets of characters, 2 to 5 long; 184 thousand states |
| `MCParserExpressions` | Are expressions parsed as the grammar says, and who owns their tokens? | four alphabets, 4 to 10 tokens; 775 thousand states |
| `MCParserStatements` | Are statements, does the parser come to an end, and what happens at the end of the file? | five alphabets, 4 to 13 tokens; 541 thousand states |
| `MCSymtab` | Is the innermost symbol found, and is every scope freed once? | 3 symbols, 2 names, one a prefix of the other, 2 scopes besides the global and the tag scope; 2.6 million states |
| `MCUnit` | Does a part of the program use what another has freed, and what is never freed? | six alphabets, 5 to 11 tokens; 2.4 million states |
| `MCLogger` | Which sink gets a message, which one does a handle reach? | 3 sinks, 3 handles, one a prefix of another, of which the map takes 2, 5 levels; 291 thousand states |

**MCHashmap.** `TypeOK`; `UsedCount`, `UniqueKeys`, `ProbeChain`: the
representation; `RoomToInsert`, `GrowthMoves`: the loops, among them the nested
one of a growth; `FailsOnlyAtLimit`: the results; `ImplementsMap`: the
refinement; `InsertReturns`, `LookupReturns`: the loops end. One growth is
enough: the second one starts from the same kind of state. With four keys in a
table that ends at four slots, it is filled by keys, by tombstones and by any
mixture, below the limit and at it. Hashes are chosen so that all probes of the
small table but one begin at its last slot and wrap.

**MCKeywordTable.** `KeywordsFound`. This is no small instance but the table of
the program; it grows once, from 32 to 64 slots, while it is filled. Which
identifiers besides the keywords are answered is `OnlyKeywordsTaken`, below.

**MCTokenStream.** `InOrder`, `Accounted`, `OnlyEofOutlives`, `EndsOnce`. Two
sources give every order of registering, peeking, reading and ending; four
tokens are enough for the cache to be filled and emptied in each. `StreamTypeOK`
is part of the parser's `TypeOK` and checked with that.

**MCScanner.** `TokensPlaced`: between two tokens there is only white space, and
a token has its line; `MaximalMunch`: a word, an operator or a number is the
longest that begins there; `ImplementsStream`: the refinement; `ReachesEnd`:
asking for tokens leads to the EOF but for the two cases the code has none for.
What is longest is said of the text, not of the scanner: `Operators` is the list
of `token.h`, and `IsInteger` and `IsFloating` are the constants of C without
suffix. Two things are excepted from it by name, because the scanner does not
recognise them: the ellipsis (section 5), and the floats of `FloatMissed`, at
whose beginning it takes an integer instead, for `lexer_isfloat` asks whether
`strtol` found anything but zero and whether a point or a `p` follows: `0.5` is
`0` and `.5`, `1e5` is `1` and `e5`, and `018.5` is `01` and `8.5`. The
alphabets are those of numbers (with every base, fraction, exponent and suffix,
four or five characters being enough for each pair of a number and what follows
it), of operators (four characters hold the longest one and what follows; two
hold every pair of any two), of white space and comments, of words, and of
characters that begin no token.

**MCParserExpressions.** `TreesOfGrammar`: a statement of the grammar gets the
tree of the grammar and a complete tree is one of the grammar, and so is one
that lacks only its last statement, when that is filled in; `NoSentenceLost`:
the parser refuses only where no statement goes on that is made of the
productions the code implements; section 3 lists those it does not; `OwnedOnce`
and `NothingLost`: the tree and the calls in progress refer to each token once,
in source order, to no freed one, and every token handed out is referred to or
freed; `StackIsLinear`: the depth of the recursion is at most eleven calls per
token, and eleven for the first operand. `Sorts` in `MCParser` are the
alphabets: three operators of different strength (two in a row decide how they
group), conditionals up to the length at which they nest on each side, brackets,
and, shorter, every token an expression can meet, the broken cases included.

**MCParserStatements.** `TreesOfGrammar` and `NoSentenceLost` for statements;
`TakesAll`: the lookahead after an `if` is decided rightly; `BracketsMatch`: the
calls in progress wait for exactly the open brackets, so what is accepted is
balanced; `CrashesAtEnd`: only the end of the input makes the parser read NULL;
`EndsBeforeEof`: where the end of the file is taken for a token, the parse comes
to an error later on; `Terminates`. It is not that the end of the file is an
error everywhere: a statement missing there is accepted (section 5).
The alphabets: `if` and `else` up to thirteen tokens, which two nested `if`s
with one `else` need; blocks with declarations and `for`; a whole `for` with a
declaration, as the code wants it; every other statement; and a small one of
everything that loops.

`MCBound` of `MCParser` lets a run scan all token sequences that are of one of
its `Sorts`, an alphabet and a length; the shorter the length, the more kinds.
In all of them the end of the file may come after any token.

**MCSymtab.** `ChainIsPath`, `FreedOnce` and the refinement `ImplementsScopes`.
Two scopes besides the global one can be one in the other, side by side, or
entered again after the first was left; two symbols of one name hide or
duplicate each other, the third has a longer name.

**MCUnit.** `TouchesHeld`: a dump or destruction only meets tokens still held,
and the dump ends early at a declaration only; `PlainFreed`: a program without the
statements and the member access whose parts `ast_destroy` leaves loses no token
at all; `DestroyedExactly`: the tokens of
a finished program that are never freed are exactly those below the statements
`ast_destroy` does not descend into. An alphabet for each kind of statement; the
eleven tokens are a `for` inside a block with a statement after it, whose `next`
is both its body and the rest of the block.

**MCLogger.** `Delivered` and `HandlesReachFirst`. Three sinks are the fewest of
which two share a handle and a third answers to a prefix, and one more than the
map takes handles.

**Fairness.** Weak fairness of the steps of a running call of the hash map, of
the parser's next step and of the scanner's: the program is one thread that does
nothing else, a call once made is carried on, and the parser goes on asking for
tokens. Nothing is assumed of the caller of the hash map.

**Deadlock** is checked for the hash map, whose caller can always go on. The
others stop: a lexer or a table is destroyed, a process exits.

## 5. Where the code and what is said of it differ

Three have a run that fails, whose trace shows the difference.

| Run | Said | Done |
|---|---|---|
| `MCHashmapLoop` | `hashmap.c:133`: null for an absent key | the lookup of an absent key in a table without an empty slot never returns |
| `MCKeywordTaken` | `lexer.c:462`: keyword tokens for keywords | an identifier that is a prefix of a keyword may become that keyword: `i` is read as `if` |
| `MCParserAssign` | `parser.c:688` | the operator is eaten and the token after it becomes the operator |

Others were met and are in the models as the code has them:

- *Lexer.* `lexer_eat` does not empty a cache that holds the EOF of the last
  source (`lexer.h:34`). Comments are never skipped, a `!` alone is a `~`,
  `\r\n` counts two lines, a float has line 0. A float that is `0` before its
  point, that has an exponent but no point, or that begins like an octal number
  (`0.5`, `1e5`, `018.5`) is cut in two, and the ellipsis of `token.h:85` in
  three: nothing makes that token. A character no token begins with
  ends the file; a `#` is never got past; a fraction that is zero, `.0`, makes
  `lexer_get` read NULL.
- *Parser.* A NULL token is reported by reading its line (lines 246, 344, 477,
  672). Only one postfix operator is taken (455), and no call (458; the code has
  a TODO for it). A missing operand is accepted (514, 551). A missing statement
  is accepted too, at the end of the file and before a token no statement begins
  with: `parse_stmt` answers NULL, which its callers (161, 178, 191, 213, 234,
  311) do not look at. So `while (1)`, `case 1:` and `if (1) 1; else` are
  programs, as is an empty file. A block overwrites the body of a `for` in it,
  as both are `next` (114, 310). A member is parsed with `parse_primary_expr`
  (491), so that an identifier, which 459 calls for, is undeclared. A `for` with
  a declaration needs three semicolons (53, 288, 297), where the comment at 271
  has two. `^`, listed at line 553, is refused and `~` accepted between two
  operands (626; the alphabets of the runs leave it out there). `|`, `&`, `<<`
  and `>>` have one strength, weaker than the comparisons, unlike in C.
- *Tree.* `ast.h` says that the tree is destroyed recursively; loops, blocks,
  cases, returns and switches are freed without what hangs on them. The name
  `ast_dump` has for a declaration is NULL.
- *Symbols.* A symbol installed twice refers to the scope it is not kept in.
  `symbol_create` returns no value.
- *Logger and main.* A level set through an unknown handle reads NULL, and never
  returns once the map of handles is full. When the
  file cannot be opened, `main` returns and destroys nothing.

## 6. The proofs

TLAPS checks each of these for all values of the constants that satisfy the
named assumptions of the modules.

**Hashmap** (`KeyAssumption`, `SlotAssumption`, `CapacityAssumption`). The
inductive invariant `Inv` is the conjunction of `TypeOK`, `UsedCount`,
`UniqueKeys`, `ProbeChain`, `ProbedSlots`, `GrowthMoves` and `InsertCounted`.
`InsertCounted` is `RoomToInsert` as the code decides it, by `in_use`; the run
checks it by the slots. `ProbedSlots` is proved only, and so are two
consequences, `IndexIsOfKey` and `SlotsOnlyFill`. None is inductive alone:

- an insertion keeps `UniqueKeys` because the key would have been met on the
  way (`ProbedSlots`, which says what was passed, and `ProbeChain`, which says
  where the key would be);
- it keeps `ProbeChain` because everything it passed was not empty;
- an insertion finds an empty slot (`RoomToInsert`) because `UsedCount` ties
  the count that was compared with the capacity to the slots, and, for the
  nested one, because `GrowthMoves` bounds what a growth has moved by half the
  new table;
- a growth ends with the entries it began with because `GrowthMoves` says so of
  every prefix of the old table.

`HashmapProofs` proves this invariant step by step and derives each safety
property of the run from it. Its second half proves that `Hashmap` implements
`AssocMap`: every step is one step of the map or a stutter, growth being all
stutter, and that slots only fill.

**TokenStream** (`StreamAssumption`). `StreamInv` is `StreamTypeOK`, `InOrder`
and `Accounted`. They need each other: a token handed out is new to `held` and
`freed` because it is one more than those handed out before (`InOrder`), which
`Accounted` says are exactly the owned ones. Nothing in the invariant bounds
the number of sources or tokens. `SourceInv` adds `EndsOnce` and
`OnlyEofOutlives`, and what they need, `Stacked`: the stack holds the sources in
the order of their registration, so that the one that is popped is on it once.

**Parser** (`StreamAssumption`; `ParserAssumption`: TOKEN_EOF is none of the six
tokens the parser asks for by name, which have kinds of their own in
`include/qcc/token.h`; `NullAssumption`: "null", which the model writes for the
kind of no token, is the kind of none). `ParserStep` in `ParserProofs`: a step
of the parser is at most one call of the lexer, and never `lexer_register` or
`lexer_destroy`. So the parser only does what `TokenStream` allows its caller
(`ParserCallsLexer`), and the invariant of the token stream holds of the tokens
of every parse (`ParserTokens`). What becomes of a token the parser holds, in
the tree or outside it, is shown below with the program that frees it.

`TypeOK` is not inductive: whether the next step of a call is defined depends on
where the call may be. `StackInv` adds it (`MayBeAt`): a
level builds only after it took an operator, only the calls that opened a
bracket wait for one, an `if` looks for its `else` as its last item. Each
function is then shown to leave a stack of such frames, by one of four moves of
the C stack (a call, a return, a point further, an exit) and for every depth.
With it, `CrashesOnlyAtEnd` goes through the four functions that read a token
they may not have: the `if`, the keywords of `do` and `goto`, and the closing
brackets read NULL only once the last source is gone; the fourth, the member
access, is excluded by the premise that the input holds no `.` or `->`.

`StackIsLinear` and `BracketsMatch` speak of all the calls at once, and so does
their invariant, `NestInv` in `ParserNestingProofs`. Each function has a rank
(`Rank`): 7 and 8 for those of statements, 9 to 19 for those of expressions, one
higher than its caller along `Callee`. `Low`: the j-th call is at most 11 per
token, plus its rank, from the bottom. A call that takes no token calls what is
higher; one that takes a token has eleven more to spend, which is what the way
back from `parse_primary_expr` to `parse_expr` costs, and a statement is only
ever called from a statement (`Layered`), so that the bound holds however they
alternate. An assignment that has eaten its operator (`at = "op"`) counts from
0, for it takes one more token before it calls.

For `BracketsMatch`, what a call waits for is a function of its own frame
(`Awaits`), so a step has to show only what it does to the innermost one:
`Turns` relates what that waits for before and after to the one token taken,
over `Bracket`, the reference that reads the tokens without the parser. Statements
wait where their script passed `(` and not `)`, which is shown of every entry of
the table `Statement`. The token after an assignment operator, which the parser
takes for the operator whatever it is, is the reference's `skip`; the invariant
ties it to `at = "op"` of the innermost call. That the recursive definitions
`Brackets` and `FlattenSeq` are the functions they define over sequences of every
length is proved first (`AfterDefined`, `FlatDefined`).

`EndsBeforeEof` says that no statement is accepted once the end of the file was
taken for a token, and nothing of one that is only looked at. It is false of
single steps: the end of the file can be handed out, as the operator of an
assignment (`1 =` and no more), and the parse goes on with NULL for every
lookahead. `EofInv` in `ParserNestingProofs` says why it must fail all the same.
Below the innermost call of an expression is a statement that called for one
(`Entered`), and what follows an expression in every statement of the table is a
token that `lexer_advance` must return (`ScriptFollows`), for an `if` after a
test for NULL. All the calls of expressions in progress return nodes, never
NULL, as they find no lookahead (`Ending`): `parse_unary_expr` answers with
memory no path assigned. So the statement comes to its token with a node, which
is what an expression statement needs to ask for one too, and there is none
(`Owes`).

**Unit** (the assumptions of the parser). `TouchesHeld` and `PlainFreed` are about
what the program does last, and rest on all it did before. `UnitProofs` follows
the tokens: `OwnInv` says who has each token that `lexer_get` returned while the
program is parsed, `UnitInv` adds the two walks over the tree.

- A tree has no size to do induction on. So `Owns`, that a tree owns a set of
  tokens, is stated with a set of trees that is closed under the parts of a tree:
  in each of them every token is that of its node or of one of its parts (`Good`),
  and no token is in two (`Shares`). Such sets are joined when the parser makes a
  node of nodes (`OwnsMade`) and taken apart when `ast_destroy` goes on to the
  parts (`OwnsParts`). A `next` shares the tokens of the tree it hangs in, for it
  names what is a child as well, and `ast_destroy` does not follow it.
- `Parted` says the same of the C stack: each call has the tokens of the nodes its
  callees returned and of the operator it took, every token held is some call's,
  and none is two calls'. How many nodes a call has is fixed by where it is
  (`Enough`), without which the parts it builds its node of would not be there.
  Each function is shown to take one of the four moves of the stack with its
  tokens in tow (`OwnMove`).
- Two things may go wrong, and each has a premise. A statement, or a member
  access, that drops a token leaves nothing to claim: the claim that none is
  missing is made of inputs without `LeftTokens` (`Lossless`). A node that no
  path assigned is ruled out as long as the end of the file was not handed out
  (`Ruled`), and `EofInv` says that a parse that ends well never handed it out.
- Then `ast_dump` reads the operators of nodes that own them, and changes nothing.
  The destruction keeps the calls of `ast_destroy` still to be made apart in the
  same way (`Frees`): each owns its tokens, so what it frees is held, and no later
  call frees it again. When none is left, a program without `LeftTokens` holds
  nothing.

`UnitUsesLexer`: the steps of the program are steps of `TokenStream`, its own
frees and the destruction of the lexer included, so that what holds of the token
stream holds of `main`. `TokensOwned` is what a proof can say of `OwnedOnce` and
`NothingLost`: that the tokens are in source order, and which ones are missing
below a statement, stays with TLC.

**Scanner** (`TextAssumption`: a text is a sequence of characters;
`WordAssumption`: a keyword is one too, and begins as an identifier does, which
every one of `src/keyword.c` does). `ScanInv` is `Types`, `Reached`,
`TokensPlaced` and `MaximalMunch`. `Reached` ties the cursor and the line to the
last token: what lies between them is white space, or the suffix of a float, and
the line is that of the cursor. It is kept because what a token holds ends no
line, which is shown of each sort of token from where its run of characters ends
(`RunEnds`, for any set of characters without NUL). Where `strtol` and `strtod`
stop is shown case by case (`IntegerEnds`, `FloatEnds`). That no longer number
begins there (`IntegerLongest`, `FloatLongest`) follows from the character the
scanner stopped at: a number that went further would hold it, where its form
allows it only in the cases of `FloatMissed`. That no operator of
`include/qcc/token.h` but the ellipsis is longer than the one taken is shown of
their shapes (`OperatorShape`), and that what is taken is one of them of the
branches of `lexer_opsep` (`OperatorSpelled`). A token that is given is a `Get`
of `TokenStream`, and every other step a stutter but for `Register` (`Streams`).
So the sequences of tokens of every text are among those that `TokenStream`, and
the parser over it, take for granted.

**Symtab** (`SymbolAssumption`). `Inv` is `TypeOK`, `ChainIsPath`, `Rising`,
`Finding` and `Forest`. A scope entered is new, so the path rises (`Rising`) and
no scope is on it twice: this is why installing in the current scope changes one
environment of the stack, or none if the map is full. `Finding` says how far a
lookup under way has come on the path and what it did not find, so that the step
which answers is the one step of `ScopeStack` (`Refinement`); the calls before
it are stutters.

`FreedOnce` needs to know the tree. `Forest` says that each list of inner scopes
names each once and none that is being freed (`Linked`); that every scope is in
the list of the one around it until it is gone (`Reached`); that the calls in
progress go from a scope to one in it (`Descending`); and that what is freed was
freed after what is in it (`FreedInward`). When the last call returns, a scope
that is not freed would be in the list of the one around it, which is not freed
either, for a scope is freed with an empty list; but a scope around is older, so
the oldest of them has none around it and is the global or the tag scope, which
the calls began with.

**Logger** (no assumption). `IInv` is `Types`, `Listed`, `Labelled` and
`Delivered`. `Listed`: the list without its last entry holds the sinks in use,
the latest first; so the first that takes a message is the latest that does
(`DeliveredAlways`). `Labelled`: the map has every handle that was registered
unless it is full, with its first sink, and a full map changes no more; so a
level set through one changes that of no later sink (`FirstReached`).

**Only model-checked**, and why:

- liveness, which needs fairness and ENABLED: `InsertReturns`, `LookupReturns`,
  `Terminates`, `ReachesEnd`;
- what is stated with recursive definitions, over the grammar, the tree or the
  calls: `TreesOfGrammar`, `NoSentenceLost`, `OwnedOnce`, `NothingLost`,
  `TakesAll`, `DestroyedExactly`;
- `KeywordsFound`, which is about one table and one hash, and is checked for it
  in full.

## 7. What is not modelled

- `lexer_charconst`, `lexer_strconst` and `lexer_comment`, which nothing calls;
  the values of numbers and the names of identifiers; `token.c`'s printing.
- Reading a file (`src/source.c`): its text is input.
- `list_insert`, `list_remove` and `list_retrieve`, which nothing calls.
- `src/type.c`: constants and one-line predicates without state. The type names
  of a scope (`typeref`), which nothing reads.
- Pointers into a hash map after it has grown; calls of the logger after its
  destruction and a second initialisation of a running one.
- The preprocessor, which is an empty function, and the back end, whose files
  are empty.

Allocation never fails in the models, as the code never checks it.
