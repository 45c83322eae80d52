-------------------------------- MODULE Unit ---------------------------------
(***************************************************************************)
(* src/unit.c, src/main.c and src/ast.c: a unit is created, a file is      *)
(* registered, parsed, its tree dumped, and everything is destroyed: the   *)
(* symbol table, the lexer, the parser, then the tree.  ast_dump and       *)
(* ast_destroy call themselves for the nodes below; a call is a step.      *)
(***************************************************************************)
EXTENDS Parser

VARIABLES
  phase, \* where main is; "crash" when NULL is read
  visit  \* the calls of ast_dump or ast_destroy to be made, the next one last

unitVars == <<vars, phase, visit>>

(* A call for a node; rest is what its next leads to if it is in a block.   *)
Entry(node) == [node |-> node, rest |-> <<>>]
First(items) == IF items = <<>> THEN <<>> ELSE <<[node |-> Head(items), rest |-> Tail(items)]>>
NextOf(e) ==
  CASE e.node.next = <<>> -> <<>>
    [] e.node.next = <<Sibling>> -> First(e.rest)
    [] OTHER -> <<Entry(e.node.next[1])>>
Kids(node) == [i \in DOMAIN node.kids |-> Entry(node.kids[i])]

Operators == {"ASSIGN", "BINARY", "UNARY", "POSTFIX"}
Conditionals == {"TERNARY", "if"}
Loops == {"while", "do", "for"}

UnitInit ==
  /\ StreamInit
  /\ stack = <<>> /\ status = "new" /\ tree = NULL
  /\ phase = "create" /\ visit = <<>>

(* unit_create makes the lexer, the symbol table and the parser.            *)
UnitCreate ==
  /\ phase = "create"
  /\ phase' = "register"
  /\ UNCHANGED <<vars, visit>>

(* unit_register.  When the file cannot be opened, main returns and         *)
(* destroys nothing.                                                        *)
UnitRegister ==
  /\ phase = "register"
  /\ \/ /\ Register
        /\ stack' = <<Start("stmt")>> /\ status' = "run"
        /\ phase' = "compile"
        /\ UNCHANGED tree
     \/ /\ phase' = "returned"
        /\ UNCHANGED vars
  /\ UNCHANGED visit

(* unit_compile.  logger_fatal ends the process, nothing being destroyed.   *)
UnitCompile ==
  /\ phase = "compile"
  /\ \/ /\ Next
        /\ UNCHANGED <<phase, visit>>
     \/ /\ status = "done"
        /\ phase' = "dump"
        /\ visit' = <<Entry(tree)>>
        /\ UNCHANGED vars

Call1 == visit[Len(visit)]
Rest == SubSeq(visit, 1, Len(visit) - 1)

(* The nodes ast_dump goes on to.  Of a loop and of a block the next one is *)
(* shown as if it were below.                                               *)
Dumped(e) ==
  CASE e.node.kind \in Operators \cup Conditionals -> Kids(e.node)
    [] e.node.kind \in Loops -> Kids(e.node) \o NextOf(e)
    [] e.node.kind = "BLOCK" -> First(e.node.kids) \o NextOf(e)
    [] OTHER -> <<>>

(* There is no name for a declaration: puts(NULL).                          *)
AstDump ==
  /\ phase = "dump"
  /\ \/ /\ visit = <<>>
        /\ phase' = "destroy"
        /\ UNCHANGED visit
     \/ /\ visit # <<>>
        /\ IF Call1.node.kind \in {"DECL", "uninit"}
           THEN phase' = "crash" /\ UNCHANGED visit
           ELSE visit' = Rest \o Reverse(Dumped(Call1)) /\ UNCHANGED phase
  /\ UNCHANGED vars

(* unit_destroy up to the tree.                                             *)
UnitDestroy ==
  /\ phase = "destroy"
  /\ Destroy
  /\ phase' = "free"
  /\ visit' = <<Entry(tree)>>
  /\ UNCHANGED parser

(* The nodes ast_destroy goes on to; all others are freed alone.  Mutant:   *)
(* conditionals are freed alone too.                                        *)
DestroyedOperators(node) == IF node.kind \in Operators THEN Kids(node) ELSE <<>>
Destroyed(node) ==
  IF node.kind \in Operators \cup Conditionals THEN Kids(node) ELSE <<>>

(* The token ast_destroy frees with a node.                                 *)
OwnToken(node) == IF node.kind \in Operators \cup {"CONST"} THEN Some(node.op) ELSE {}

AstDestroy ==
  /\ phase = "free"
  /\ \/ /\ visit = <<>>
        /\ phase' = "over"
        /\ UNCHANGED <<held, freed, visit>>
     \/ /\ visit # <<>>
        /\ visit' = Rest \o Reverse(Destroyed(Call1.node))
        /\ freed' = freed \cup OwnToken(Call1.node)
        /\ held' = held \ OwnToken(Call1.node)
        /\ UNCHANGED phase
  /\ UNCHANGED <<lexer, parser>>

UnitNext ==
  UnitCreate \/ UnitRegister \/ UnitCompile \/ AstDump \/ UnitDestroy \/ AstDestroy

UnitSpec == UnitInit /\ [][UnitNext]_unitVars
-----------------------------------------------------------------------------
(* Whatever token a dump reads or a destruction frees is still held: the    *)
(* parser, the lexer and the tree never free one twice or too early.  A     *)
(* dump ends early at a declaration only.                                   *)
TouchesHeld ==
  /\ phase \in {"dump", "free"} /\ visit # <<>> => OwnToken(Call1.node) \subseteq held
  /\ phase = "crash" => Call1.node.kind = "DECL"

(* The statements and the operator whose parts ast_destroy leaves, and the  *)
(* tokens they begin with or stand at.                                      *)
Left == Loops \cup {"BLOCK", "switch", "case", "default", "return", "ACCESS"}
LeftTokens == Loops \cup {"{", "switch", "case", "default", "return", ".", "->"}

(* Where no such token was read, everything is freed: no token of an        *)
(* expression, of conditionals in one another or of an if is lost on the    *)
(* way from lexer_get through the parser and the tree.                      *)
PlainFreed ==
  phase = "over" /\ (\A i \in DOMAIN given : KindOf(given[i]) \notin LeftTokens) => held = {}
=============================================================================
