------------------------------- MODULE Parser -------------------------------
(***************************************************************************)
(* src/parser.c: recursive descent over the token stream of one source.    *)
(*                                                                         *)
(* The C stack is stack: one frame per parse_* call, the innermost last.   *)
(* A frame has the name of its function, the point it is at, the nodes its *)
(* callees returned so far, and the operator token it got.  Every call of  *)
(* the lexer is a step or part of one, in the order the code makes them.   *)
(* Tokens are named by their spelling, "num" and "id" standing for any     *)
(* constant and any identifier.  No declaration ever installs a symbol, so *)
(* scope_lookup finds nothing.                                             *)
(***************************************************************************)
EXTENDS TokenStream, SequencesExt

VARIABLES
  stack,
  status, \* "run", "done", "fatal" (logger_fatal) or "crash" (NULL is read)
  tree    \* what the outermost parse_stmt returned

parser == <<stack, status, tree>>
vars == <<streamVars, parser>>

TypeSpecs == {"typedef", "extern", "static", "auto", "register", "void", "char", "short",
  "int", "long", "float", "double", "signed", "unsigned", "struct", "union", "enum"}
Keywords == TypeSpecs \cup {"if", "else", "case", "default", "switch", "while", "do", "for",
  "break", "continue", "goto", "return", "const", "volatile", "inline", "restrict", "_Bool",
  "_Complex", "_Imaginary"}

UnaryOps == {"++", "--", "&", "*", "+", "-", "~"}
AssignOps == {"=", "+=", "-=", "*=", "/=", "%=", "&=", "|=", "^=", "<<=", ">>="}

(* TOKEN_EOF is none of the tokens that the parser asks for by name.        *)
ASSUME ParserAssumption == EOF \notin {"(", ")", "]", ":", ";", "while"}

(* "null" stands for the token that is not there: no token has that kind.   *)
ASSUME NullAssumption == "null" \notin Kind \cup {EOF}

(* The functions that loop over the operators of a level, and what they     *)
(* loop over.  ~ is TOKEN_BNOT, ! is TOKEN_LNOT.  Mutant: * binds less than *)
(* +.                                                                       *)
OpsSwapped ==
  [expr |-> {","}, logic |-> {"||", "&&", "!"}, bitwise |-> {"|", "&", "~", "<<", ">>"},
   relational |-> {"==", "!=", "<", ">", "<=", ">="}, binary |-> {"*", "/", "%"},
   binary2 |-> {"+", "-"}]
Ops ==
  [expr |-> {","}, logic |-> {"||", "&&", "!"}, bitwise |-> {"|", "&", "~", "<<", ">>"},
   relational |-> {"==", "!=", "<", ">", "<=", ">="}, binary |-> {"+", "-"},
   binary2 |-> {"*", "/", "%"}]

(* The function that parses what is right of such an operator.  Mutant: the *)
(* level of + and - parses it itself, so that they group to the right.      *)
OperandRightDeep ==
  [expr |-> "assign", logic |-> "bitwise", bitwise |-> "relational",
   relational |-> "binary", binary |-> "binary", binary2 |-> "unary"]
Operand ==
  [expr |-> "assign", logic |-> "bitwise", bitwise |-> "relational",
   relational |-> "binary", binary |-> "binary2", binary2 |-> "unary"]

(* The function another one calls first of all.  Mutant: left recursion.    *)
CalleeItself ==
  [expr |-> "assign", assign |-> "cond", cond |-> "logic", logic |-> "bitwise",
   bitwise |-> "relational", relational |-> "binary", binary |-> "binary",
   binary2 |-> "unary", postfix |-> "primary"]
Callee ==
  [expr |-> "assign", assign |-> "cond", cond |-> "logic", logic |-> "bitwise",
   bitwise |-> "relational", relational |-> "binary", binary |-> "binary2",
   binary2 |-> "unary", postfix |-> "primary"]

Levels == DOMAIN Ops
-----------------------------------------------------------------------------
(* Nodes.  next is Node.next; paren is not in the code, it remembers that   *)
(* the node came out of parentheses.                                        *)
Node(kind, op, kids) ==
  [kind |-> kind, op |-> op, kids |-> kids, next |-> <<>>, paren |-> FALSE]

NULL == Node("NULL", 0, <<>>)
IsNull(node) == node.kind = "NULL"
Uninit == Node("uninit", 0, <<>>)  \* the value of a node no path assigned
Sibling == Node("sibling", 0, <<>>)

(* A statement list is linked through Node.next, which is also where        *)
(* parse_stmt keeps the body of a for.  Mutant: the list keeps its head's   *)
(* next only.                                                               *)
LinkHead(list, stmt) ==
  IF list = <<>> THEN <<stmt>>
  ELSE Append([list EXCEPT ![1].next = <<Sibling>>], stmt)
Link(list, stmt) ==
  IF list = <<>> THEN <<stmt>>
  ELSE Append([list EXCEPT ![Len(list)].next = <<Sibling>>], stmt)
-----------------------------------------------------------------------------
(* Frames                                                                   *)

Frame(proc, at) == [proc |-> proc, at |-> at, i |-> 1, kids |-> <<>>, op |-> 0]

(* A function begins with a lookahead or with the call of another one.      *)
Start(proc) == Frame(proc, IF proc \in DOMAIN Callee THEN "call" ELSE "look")

Top == stack[Len(stack)]
Below == SubSeq(stack, 1, Len(stack) - 1)

Become(f) == stack' = Append(Below, f) /\ UNCHANGED <<status, tree>>
At(point) == [Top EXCEPT !.at = point]
Call(proc, f) == stack' = Below \o <<f, Start(proc)>> /\ UNCHANGED <<status, tree>>

Return(node) ==
  IF Below = <<>>
  THEN stack' = <<>> /\ tree' = node /\ status' = "done"
  ELSE LET caller == Below[Len(Below)]
       IN  /\ stack' = [Below EXCEPT ![Len(Below)].kids = Append(caller.kids, node)]
           /\ UNCHANGED <<status, tree>>

(* logger_fatal exits, a crash does too.  Mutant: logger_fatal returns.     *)
StopReturns(how) == status' = how /\ UNCHANGED <<stack, tree>>
Stop(how) == stack' = <<>> /\ status' = how /\ UNCHANGED tree

LastKid == Top.kids[Len(Top.kids)]

(* lexer_peek as the step finds it: the lookahead, or NULL for good.        *)
Looks ==
  /\ stack # <<>>
  /\ Top.at = "look"
LookedEmpty == Looks  \* mutant: peek does not fill the cache
Looked == Looks /\ (cache # 0 \/ sources = <<>>)
Look == IF cache = 0 THEN "null" ELSE KindOf(cache)

(* The token the next lexer_get returns, and its kind.                      *)
NextToken == {cache, Len(read) + 1, 0}
GotKind(t) == IF t = 0 THEN "null" ELSE read'[t].kind

Init ==
  /\ sources = <<1>> /\ registered = 1
  /\ cache = 0 /\ read = <<>> /\ given = <<>>
  /\ held = {} /\ freed = {}
  /\ alive = TRUE
  /\ stack = <<Start("stmt")>>
  /\ status = "run"
  /\ tree = NULL

LookAhead == Looks /\ Peek /\ UNCHANGED parser
-----------------------------------------------------------------------------
(* Statements.  What parse_stmt does after the keyword, in order: a call, a *)
(* token that lexer_advance must return, or one of the checks below.        *)
(* Mutant: a for needs its first clause.                                    *)
ForPartsNeeded ==
  <<"(", "decl", "orexpr", "need", ";", "expr", ";", "expr", ")", "stmt">>
ForParts == <<"(", "decl", "orexpr", ";", "expr", ";", "expr", ")", "stmt">>

Statement ==
  [if |-> <<"(", "expr", "need", ")", "stmt", "need", "else?">>,
   case |-> <<"expr", ":", "stmt">>,
   default |-> <<":", "stmt">>,
   switch |-> <<"(", "expr", ")", "stmt">>,
   while |-> <<"(", "expr", ")", "stmt">>,
   do |-> <<"stmt", "while!", "(", "expr", ")", ";">>,
   for |-> ForParts,
   break |-> <<";">>,
   continue |-> <<";">>,
   goto |-> <<"label">>,
   return |-> <<"expr", ";">>]

Script ==
  [p \in {"exprstmt", "decl"} \cup DOMAIN Statement |->
     CASE p = "exprstmt" -> <<"expr", ";?">>
       [] p = "decl" -> <<";">>
       [] OTHER -> Statement[p]]

InScript == stack # <<>> /\ Top.at = "script"
Over == Top.i > Len(Script[Top.proc])
Item == IF Over THEN "over" ELSE Script[Top.proc][Top.i]
NextItem == [Top EXCEPT !.i = @ + 1]

LookStmt ==
  /\ Looked /\ Top.proc = "stmt"
  /\ \/ /\ Look = "{"
        /\ Eat(cache)
        /\ Become(Frame("block", "look"))
     \/ /\ Look \in DOMAIN Statement
        /\ Eat(cache)
        /\ Become(Frame(Look, "script"))
     \/ /\ Look \in {"null"} \cup (Keywords \ DOMAIN Statement)
        /\ Return(NULL)
        /\ UNCHANGED streamVars
     \/ /\ Look \notin {"null", "{"} \cup Keywords
        /\ Become(Frame("exprstmt", "script"))
        /\ UNCHANGED streamVars

(* The loop of a block: a declaration, else a statement, else an error.     *)
LookBlock ==
  /\ Looked /\ Top.proc = "block"
  /\ \/ /\ Look = "}"
        /\ Eat(cache)
        /\ Return(Node("BLOCK", 0, Top.kids))
     \/ /\ Look # "}"
        /\ IF Look = "null" THEN Stop("fatal") ELSE Call("decl", At("decl"))
        /\ UNCHANGED streamVars

(* Neither a declaration nor a statement.  Mutant: it is passed over.       *)
InvalidItemIgnored == Become([At("look") EXCEPT !.kids = Front(@)])
InvalidItem == Stop("fatal")

Block ==
  /\ stack # <<>> /\ Top.proc = "block" /\ Top.at \in {"decl", "stmt"}
  /\ \/ /\ ~IsNull(LastKid)
        /\ Become([At("look") EXCEPT !.kids = Link(Front(@), LastKid)])
     \/ /\ IsNull(LastKid) /\ Top.at = "decl"
        /\ Call("stmt", [At("stmt") EXCEPT !.kids = Front(@)])
     \/ /\ IsNull(LastKid) /\ Top.at = "stmt"
        /\ InvalidItem
  /\ UNCHANGED streamVars

LookDecl ==
  /\ Looked /\ Top.proc = "decl"
  /\ \/ /\ Look \in TypeSpecs
        /\ Eat(cache)
        /\ Become([Frame("decl", "script") EXCEPT !.op = cache])
     \/ /\ Look \notin TypeSpecs
        /\ Return(NULL)
        /\ UNCHANGED streamVars

(* if (lexer_advance(lexer) != kind) logger_fatal(...)  Mutants: no check;  *)
(* the end of the file will do.                                             *)
ExpectedAny(kind, t) == Become(NextItem)
ExpectedOrEnd(kind, t) ==
  IF GotKind(t) \in {kind, EOF} THEN Become(NextItem) ELSE Stop("fatal")
Expected(kind, t) ==
  IF GotKind(t) = kind THEN Become(NextItem) ELSE Stop("fatal")

Expect ==
  /\ InScript
  /\ \/ Item \in {"(", ")", ":", ";"}
     \/ Item = ";?" /\ ~IsNull(LastKid)
  /\ \E t \in NextToken :
       Eat(t) /\ Expected(IF Item = ";?" THEN ";" ELSE Item, t)

(* A statement node: the body of a for goes to next.                        *)
StatementNode(proc, kids) ==
  IF proc = "for"
  THEN [Node(proc, 0, SubSeq(kids, 1, 3)) EXCEPT !.next = <<kids[4]>>]
  ELSE Node(proc, 0, kids)

Perform ==
  /\ InScript
  /\ \/ /\ Item \in {"expr", "stmt", "decl"}
        /\ Call(Item, NextItem)
     \/ /\ Item = "need"
        /\ IF IsNull(LastKid) THEN Stop("fatal") ELSE Become(NextItem)
     \/ /\ Item = "orexpr"
        /\ IF IsNull(LastKid) THEN Call("expr", [NextItem EXCEPT !.kids = <<>>])
           ELSE Become(NextItem)
     \/ /\ Item = ";?" /\ IsNull(LastKid)
        /\ Become(NextItem)
     \/ /\ Item = "else?"
        /\ Become([Top EXCEPT !.at = "look"])
     \/ /\ Item = "over"
        /\ CASE Top.proc = "exprstmt" -> Return(LastKid)
             [] Top.proc = "decl" -> Return(Node("DECL", Top.op, <<>>))
             [] OTHER -> Return(StatementNode(Top.proc, Top.kids))
  /\ UNCHANGED streamVars

(* The lookahead after the first branch of an if is read unchecked.         *)
(* Mutant: else is not looked for.                                          *)
ElseNever(t) == FALSE
Else(t) == KindOf(t) = "else"

LookElse ==
  /\ Looked /\ Top.proc = "if"
  /\ \/ /\ Look # "null" /\ Else(cache)
        /\ Eat(cache)
        /\ Call("stmt", [NextItem EXCEPT !.at = "script"])
     \/ /\ Look = "null" \/ ~Else(cache)
        /\ IF Look = "null" THEN Stop("crash")
           ELSE Become([NextItem EXCEPT !.at = "script"])
        /\ UNCHANGED streamVars

(* The while of a do, and the label of a goto.  The line in the diagnostic  *)
(* is read from the token it complains about, NULL or not.                  *)
GetKeyword ==
  /\ InScript /\ Item \in {"while!", "label"}
  /\ \E t \in NextToken :
       /\ Get(t)
       /\ IF t = 0 THEN Stop("crash")
          ELSE IF Item = "while!" /\ GotKind(t) = "while" THEN Become(NextItem)
          ELSE Stop("fatal")
-----------------------------------------------------------------------------
(* Expressions                                                              *)

CallFirst ==
  /\ stack # <<>> /\ Top.at = "call"
  /\ Call(Callee[Top.proc], At("look"))
  /\ UNCHANGED streamVars

(* The loops: { operator operand }                                          *)
LookLevel ==
  /\ Looked /\ Top.proc \in Levels
  /\ \/ /\ Look \in Ops[Top.proc]
        /\ Get(cache)
        /\ Call(Operand[Top.proc], [At("build") EXCEPT !.op = cache])
     \/ /\ Look \notin Ops[Top.proc]
        /\ Return(LastKid)
        /\ UNCHANGED streamVars

(* A node over what the callees returned.  A loop goes on with it.          *)
Build ==
  /\ stack # <<>> /\ Top.at = "build"
  /\ CASE Top.proc \in Levels ->
            Become([Frame(Top.proc, "look") EXCEPT
                      !.kids = <<Node("BINARY", Top.op, Top.kids)>>])
       [] Top.proc = "assign" -> Return(Node("ASSIGN", Top.op, Top.kids))
       [] Top.proc = "cond" -> Return(Node("TERNARY", 0, Top.kids))
       [] Top.proc = "unary" -> Return(Node("UNARY", Top.op, Top.kids))
  /\ UNCHANGED streamVars

(* The operator is eaten, and the token after it is taken for it.           *)
LookAssign ==
  /\ Looked /\ Top.proc = "assign"
  /\ \/ /\ Look \in AssignOps
        /\ Eat(cache)
        /\ Become(At("op"))
     \/ /\ Look \notin AssignOps
        /\ Return(LastKid)
        /\ UNCHANGED streamVars

AssignOp ==
  /\ stack # <<>> /\ Top.at = "op"
  /\ \E t \in NextToken :
       Get(t) /\ Call("assign", [At("build") EXCEPT !.op = t])

LookCond ==
  /\ Looked /\ Top.proc = "cond"
  /\ \/ /\ Look = "?"
        /\ Eat(cache)
        /\ Call("expr", At("close"))
     \/ /\ Look # "?"
        /\ Return(LastKid)
        /\ UNCHANGED streamVars

LookUnary ==
  /\ Looked /\ Top.proc = "unary"
  /\ \/ /\ Look = "null"
        /\ Return(Uninit)
        /\ UNCHANGED streamVars
     \/ /\ Look \in UnaryOps
        /\ Get(cache)
        /\ Call("unary", [At("build") EXCEPT !.op = cache])
     \/ /\ Look \notin {"null"} \cup UnaryOps
        /\ Call("postfix", At("pass"))
        /\ UNCHANGED streamVars

(* parse_unary_expr returns what parse_postfix_expr did.                    *)
PassPostfix ==
  /\ stack # <<>> /\ Top.at = "pass"
  /\ Return(LastKid)
  /\ UNCHANGED streamVars

LookPostfix ==
  /\ Looked /\ Top.proc = "postfix"
  /\ \/ /\ Look = "["
        /\ Get(cache)
        /\ Call("expr", [At("close") EXCEPT !.op = cache])
     \/ /\ Look \in {".", "->"}
        /\ Get(cache)
        /\ Call("primary", [At("member") EXCEPT !.op = cache])
     \/ /\ Look \in {"++", "--"}
        /\ Get(cache)
        /\ Return(Node("POSTFIX", cache, Top.kids))
     \/ /\ Look \notin {"[", ".", "->", "++", "--"}
        /\ Return(LastKid)
        /\ UNCHANGED streamVars

LookPrimary ==
  /\ Looked /\ Top.proc = "primary"
  /\ \/ /\ Look = "id"
        /\ Get(cache)
        /\ Stop("fatal")
     \/ /\ Look = "num"
        /\ Get(cache)
        /\ Return(Node("CONST", cache, <<>>))
     \/ /\ Look = "("
        /\ Eat(cache)
        /\ Call("expr", At("close"))
     \/ /\ Look \notin {"id", "num", "("}
        /\ Return(IF Look = "null" THEN Uninit ELSE NULL)
        /\ UNCHANGED streamVars

(* The closing token of a subscript, of a pair of parentheses and of the    *)
(* middle of a conditional.  The line in the diagnostic is read from the    *)
(* token that is missing, but for the parenthesis, where it is the opening  *)
(* one's.  lexer_get and free are what lexer_eat does.  Mutant: the test of *)
(* the parenthesis copied to the conditional.                               *)
ClosingCopied == [postfix |-> "]", primary |-> ")", cond |-> ")"]
Closing == [postfix |-> "]", primary |-> ")", cond |-> ":"]

Parenthesised(node) == [node EXCEPT !.paren = TRUE]

(* Mutant: no conditional after the colon of one.                           *)
ClosedOnce ==
  CASE Top.proc = "postfix" -> Return(Node("POSTFIX", Top.op, Top.kids))
    [] Top.proc = "primary" -> Return(Parenthesised(LastKid))
    [] Top.proc = "cond" -> Call("logic", At("build"))

Closed ==
  CASE Top.proc = "postfix" -> Return(Node("POSTFIX", Top.op, Top.kids))
    [] Top.proc = "primary" -> Return(Parenthesised(LastKid))
    [] Top.proc = "cond" -> Call("cond", At("build"))

Close ==
  /\ stack # <<>> /\ Top.at = "close"
  /\ \E t \in NextToken :
       /\ Eat(t)
       /\ IF GotKind(t) = Closing[Top.proc] THEN Closed
          ELSE IF t = 0 /\ Top.proc # "primary" THEN Stop("crash")
          ELSE Stop("fatal")

(* node->e.rhs->e.op->kind of a member access: the union is read as an      *)
(* operator node whatever the right-hand side is.  For a constant e.op is   *)
(* its type, for a conditional its condition; neither is an identifier.     *)
Unreadable(node) ==
  \/ node.kind \in {"NULL", "uninit"}
  \/ node.kind = "TERNARY" /\ IsNull(node.kids[1])

Member ==
  /\ stack # <<>> /\ Top.at = "member"
  /\ CASE Unreadable(LastKid) -> Stop("crash")
       [] LastKid.kind = "ASSIGN" /\ KindOf(LastKid.op) = "id" ->
            Return(Node("ACCESS", Top.op, Top.kids))
       [] OTHER -> Stop("fatal")
  /\ UNCHANGED streamVars

Next ==
  \/ LookAhead \/ LookStmt \/ LookBlock \/ Block \/ LookDecl \/ Expect \/ Perform
  \/ LookElse \/ GetKeyword \/ CallFirst \/ LookLevel \/ Build \/ LookAssign \/ AssignOp
  \/ LookCond \/ LookUnary \/ PassPostfix \/ LookPostfix \/ LookPrimary \/ Close
  \/ Member

Spec == Init /\ [][Next]_vars

(* Nothing but the parser runs, and it does run.                            *)
FairSpec == Spec /\ WF_vars(Next)
-----------------------------------------------------------------------------
Points == {"look", "script", "call", "build", "op", "close", "pass", "member", "decl", "stmt"}
Procs ==
  DOMAIN Script \cup DOMAIN Callee \cup {"stmt", "unary", "primary", "block"}

(* Type correctness; a call is in progress exactly while the parser runs.   *)
TypeOK ==
  /\ StreamTypeOK
  /\ status \in {"run", "done", "fatal", "crash"}
  /\ status = "run" <=> stack # <<>>
  /\ \A n \in DOMAIN stack :
       LET f == stack[n]
       IN  /\ f.proc \in Procs /\ f.at \in Points
           /\ f.op \in Token \cup {0}
           /\ f.proc \in DOMAIN Script => f.i \in 1 .. Len(Script[f.proc]) + 1

(* The brackets of a sequence of token kinds that are still open, ? and :   *)
(* being a pair too.  A closing one that does not match the last stays.     *)
(* What is taken for the operator of an assignment counts for nothing.      *)
Opening == {"(", "[", "{", "?"}
Pairs == {<<"(", ")">>, <<"[", "]">>, <<"{", "}">>, <<"?", ":">>}

Bracket(acc, k) ==
  IF acc.skip THEN [acc EXCEPT !.skip = FALSE]
  ELSE IF k \in AssignOps THEN [acc EXCEPT !.skip = TRUE]
  ELSE IF acc.open # <<>> /\ <<acc.open[Len(acc.open)], k>> \in Pairs
  THEN [acc EXCEPT !.open = Front(@)]
  ELSE IF k \in Opening \cup {")", "]", "}"} THEN [acc EXCEPT !.open = Append(@, k)]
  ELSE acc

Brackets(kinds) ==
  LET after[n \in 0 .. Len(kinds)] ==
        IF n = 0 THEN [open |-> <<>>, skip |-> FALSE] ELSE Bracket(after[n - 1], kinds[n])
  IN  after[Len(kinds)]

GivenKinds == [i \in DOMAIN given |-> KindOf(given[i])]

(* The bracket a call waits to see closed.                                  *)
Awaits(f) ==
  CASE f.at = "close" -> [postfix |-> <<"[">>, primary |-> <<"(">>, cond |-> <<"?">>][f.proc]
    [] f.proc = "block" -> <<"{">>
    [] f.proc \in DOMAIN Script ->
         LET Passed(item) == \E j \in 1 .. f.i - 1 : Script[f.proc][j] = item
         IN  IF Passed("(") /\ ~Passed(")") THEN <<"(">> ELSE <<>>
    [] OTHER -> <<>>

(* The calls in progress wait for exactly the brackets that are open, in    *)
(* the order they were opened; so a statement that is accepted is balanced, *)
(* whatever its operands look like and whichever error it recovers from.    *)
BracketsMatch ==
  status \in {"run", "done"} =>
    Brackets(GivenKinds).open = FlattenSeq([n \in DOMAIN stack |-> Awaits(stack[n])])

(* The C stack is at most linear in the tokens handed out: at most eleven   *)
(* calls per token, which is what a parenthesis costs (parse_primary_expr   *)
(* back to parse_primary_expr), and as many for the first operand.          *)
StackIsLinear == Len(stack) <= 11 * (Len(given) + 1) + 1

(* In a statement without member access, NULL is read only when the input   *)
(* has ended: no token, whatever it is, makes the parser fail other than by *)
(* its diagnostics.                                                         *)
CrashesAtEnd == status = "crash" => sources = <<>>

(* The end of the file is looked at, but never part of what is accepted:    *)
(* where it is taken for a token, as the operator of an assignment or by    *)
(* lexer_advance, the parse comes to a diagnostic or reads NULL later on.   *)
(* A statement that is missing at the end of the file is accepted all the   *)
(* same, for parse_stmt only looks at the token there.                      *)
EndsBeforeEof == status = "done" => \A i \in DOMAIN given : KindOf(given[i]) # EOF

(* Every input is either accepted or refused.                               *)
Terminates == <>(status # "run")
=============================================================================
