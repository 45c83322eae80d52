---------------------------- MODULE ParserProofs ----------------------------
(***************************************************************************)
(* For every input: whatever src/parser.c does to its tokens it does       *)
(* through the calls of src/lexer.c, so what TokenStreamProofs proves of   *)
(* the lexer holds of the parser's tokens; and its calls in progress are   *)
(* each at a point its function has, with an operator token that exists,   *)
(* for every depth of nesting.                                             *)
(***************************************************************************)
EXTENDS Parser, TokenStreamProofs

(* What a step may do to the tokens: nothing, or one call of the lexer,     *)
(* which is no lexer_register and no lexer_destroy.                         *)
LexerCall ==
  \/ UNCHANGED streamVars
  \/ Peek
  \/ \E t \in NextToken : Get(t) \/ Eat(t)

(* The lookahead is a token that lexer_get may return next.                 *)
LEMMA CacheIsNext == cache \in NextToken
  BY DEF NextToken

(* No function of the statement layer touches a token other than by a call. *)
LEMMA StatementSteps ==
  ASSUME \/ LookAhead \/ LookStmt \/ LookBlock \/ Block \/ LookDecl \/ Expect
         \/ Perform \/ LookElse \/ GetKeyword
  PROVE  LexerCall
<1>1. CASE LookAhead
  BY <1>1, CacheIsNext DEF LookAhead, LexerCall
<1>2. CASE LookStmt
  BY <1>2, CacheIsNext DEF LookStmt, LexerCall
<1>3. CASE LookBlock
  BY <1>3, CacheIsNext DEF LookBlock, LexerCall
<1>4. CASE Block
  BY <1>4 DEF Block, LexerCall
<1>5. CASE LookDecl
  BY <1>5, CacheIsNext DEF LookDecl, LexerCall
<1>6. CASE Expect
  BY <1>6, CacheIsNext DEF Expect, LexerCall
<1>7. CASE Perform
  BY <1>7 DEF Perform, LexerCall
<1>8. CASE LookElse
  BY <1>8, CacheIsNext DEF LookElse, LexerCall
<1>9. CASE GetKeyword
  BY <1>9, CacheIsNext DEF GetKeyword, LexerCall
<1> QED
  BY <1>1, <1>2, <1>3, <1>4, <1>5, <1>6, <1>7, <1>8, <1>9

(* Nor does one of the expression layer.                                    *)
LEMMA ExpressionSteps ==
  ASSUME \/ CallFirst \/ LookLevel \/ Build \/ LookAssign \/ AssignOp \/ LookCond
         \/ LookUnary \/ PassPostfix \/ LookPostfix \/ LookPrimary \/ Close \/ Member
  PROVE  LexerCall
<1>1. CASE CallFirst \/ Build \/ PassPostfix \/ Member
  BY <1>1 DEF CallFirst, Build, PassPostfix, Member, LexerCall
<1>2. CASE LookLevel
  BY <1>2, CacheIsNext DEF LookLevel, LexerCall
<1>3. CASE LookAssign
  BY <1>3, CacheIsNext DEF LookAssign, LexerCall
<1>4. CASE AssignOp
  BY <1>4, CacheIsNext DEF AssignOp, LexerCall
<1>5. CASE LookCond
  BY <1>5, CacheIsNext DEF LookCond, LexerCall
<1>6. CASE LookUnary
  BY <1>6, CacheIsNext DEF LookUnary, LexerCall
<1>7. CASE LookPostfix
  BY <1>7, CacheIsNext DEF LookPostfix, LexerCall
<1>8. CASE LookPrimary
  BY <1>8, CacheIsNext DEF LookPrimary, LexerCall
<1>9. CASE Close
  BY <1>9, CacheIsNext DEF Close, LexerCall
<1> QED
  BY <1>1, <1>2, <1>3, <1>4, <1>5, <1>6, <1>7, <1>8, <1>9

(* A step of the parser is at most one call of the lexer: it never takes    *)
(* two tokens at once, frees one it was not given, or drops the cache.      *)
LEMMA ParserStep == alive /\ [Next]_vars => LexerCall /\ alive'
<1> SUFFICES ASSUME alive, [Next]_vars PROVE LexerCall /\ alive'
  OBVIOUS
<1>1. LexerCall
  <2>1. CASE UNCHANGED vars
    BY <2>1 DEF vars, LexerCall
  <2>2. CASE Next
    BY <2>2, StatementSteps, ExpressionSteps DEF Next
  <2> QED
    BY <2>1, <2>2
<1>2. alive'
  BY <1>1 DEF LexerCall, Peek, Get, Eat, Take, streamVars, lexer
<1> QED
  BY <1>1, <1>2

(* Such a call is a step of the token stream.                               *)
LEMMA CallIsStreamStep == alive /\ LexerCall => [StreamNext]_streamVars
  BY DEF LexerCall, StreamNext, NextToken

(* A lexer with one source, of which nothing was read yet, and a parser     *)
(* that never destroys it.                                                  *)
ParserInv == StreamInv /\ alive

(* The parser begins with such a lexer.                                    *)
LEMMA ParserInitInv == Init => ParserInv
<1> SUFFICES ASSUME Init PROVE ParserInv
  OBVIOUS
<1>1. StreamTypeOK
  BY DEF Init, StreamTypeOK, Token
<1>2. InOrder /\ Accounted /\ alive
  BY DEF Init, InOrder, Accounted
<1> QED
  BY <1>1, <1>2 DEF ParserInv, StreamInv

(* Every step keeps the invariant of the token stream.                      *)
LEMMA ParserNextInv == ParserInv /\ [Next]_vars => ParserInv'
  BY ParserStep, CallIsStreamStep, StreamNextInv DEF ParserInv

(* The parser's tokens come to it in source order, each once, and each is   *)
(* the parser's to free or freed: src/lexer.c keeps its promise for every   *)
(* input and every way the parser fails.                                    *)
THEOREM ParserTokens == Spec => [](InOrder /\ Accounted)
<1>1. ParserInv => InOrder /\ Accounted
  BY DEF ParserInv, StreamInv
<1> QED
  BY <1>1, ParserInitInv, ParserNextInv, PTL DEF Spec

(* The parser is a caller of the lexer like any other: what it does to the  *)
(* tokens is what TokenStream lets a caller do.                             *)
THEOREM ParserCallsLexer == Spec => [][StreamNext]_streamVars
<1>1. ParserInv /\ [Next]_vars => [StreamNext]_streamVars
  BY ParserStep, CallIsStreamStep DEF ParserInv
<1> QED
  BY <1>1, ParserInitInv, ParserNextInv, PTL DEF Spec
-----------------------------------------------------------------------------
(* The calls in progress                                                    *)

Calling == DOMAIN Callee

(* What a function may be called as: the functions themselves, unlike the   *)
(* frames that parse_stmt becomes.                                          *)
Startable == Calling \cup {"stmt", "decl", "unary", "primary"}

(* The input may hold a member access.                                      *)
MayAccess == \E k \in {".", "->"} : k \in Kind \cup {EOF}

(* The points a function may be at; i is how far its statement is.          *)
MayBeAt(proc, i, point) ==
  /\ point \in Points
  /\ point = "call" => proc \in Calling
  /\ point = "build" => proc \in Levels \cup {"assign", "cond", "unary"}
  /\ point = "op" => proc = "assign"
  /\ point = "close" => proc \in {"postfix", "primary", "cond"}
  /\ point = "script" => proc \in DOMAIN Script
  /\ point = "look" /\ proc = "if" => i = 7
  /\ point = "pass" => proc = "unary"
  /\ point = "member" => proc = "postfix" /\ MayAccess

IsFrame(f) == f = [proc |-> f.proc, at |-> f.at, i |-> f.i, kids |-> f.kids, op |-> f.op]

(* A frame of a call, when n tokens have been scanned.                      *)
Fits(f, n) ==
  /\ IsFrame(f)
  /\ f.proc \in Procs
  /\ f.op \in 0 .. n
  /\ f.proc \in DOMAIN Script => f.i \in 1 .. Len(Script[f.proc]) + 1
  /\ MayBeAt(f.proc, f.i, f.at)

StackFits(s, n) ==
  /\ s \in Seq(Range(s))
  /\ \A k \in 1 .. Len(s) : Fits(s[k], n)
-----------------------------------------------------------------------------
(* The tables                                                               *)

(* The statements that have a table.                                        *)
LEMMA StatementDomain ==
  DOMAIN Statement = {"if", "case", "default", "switch", "while", "do", "for", "break",
                      "continue", "goto", "return"}
  BY DEF Statement

(* The tables, with those of expression statements and declarations.        *)
LEMMA ScriptDomain == DOMAIN Script = {"exprstmt", "decl"} \cup DOMAIN Statement
  BY DEF Script

(* The functions that begin with a call of another one.                     *)
LEMMA CalleeDomain ==
  Calling = {"expr", "assign", "cond", "logic", "bitwise", "relational", "binary", "binary2",
             "postfix"}
  BY DEF Calling, Callee

(* The functions that loop over operators.                                  *)
LEMMA LevelDomain ==
  Levels = {"expr", "logic", "bitwise", "relational", "binary", "binary2"}
  BY DEF Levels, Ops

(* A function calls functions.                                              *)
LEMMA CalleesStart ==
  /\ \A p \in Calling : Callee[p] \in Startable
  /\ \A p \in Levels : Operand[p] \in Startable
<1>1. \A p \in Calling : Callee[p] \in Startable
  BY CalleeDomain DEF Callee, Startable
<1>2. \A p \in Levels : Operand[p] \in Startable
  BY LevelDomain, CalleeDomain DEF Operand, Startable
<1> QED
  BY <1>1, <1>2

(* A sequence of up to nine items, none of which looks for an else.         *)
LooksForNoElse(s) == Len(s) \in Nat /\ \A i \in 1 .. Len(s) : s[i] # "else?"

(* A table none of whose items is one has none.                             *)
LEMMA NoElseIn ==
  LET OK(x) == x # "else?"
  IN  /\ \A a : OK(a) => LooksForNoElse(<<a>>)
      /\ \A a, b : OK(a) /\ OK(b) => LooksForNoElse(<<a, b>>)
      /\ \A a, b, c : OK(a) /\ OK(b) /\ OK(c) => LooksForNoElse(<<a, b, c>>)
      /\ \A a, b, c, d : OK(a) /\ OK(b) /\ OK(c) /\ OK(d) => LooksForNoElse(<<a, b, c, d>>)
      /\ \A a, b, c, d, e, f :
           OK(a) /\ OK(b) /\ OK(c) /\ OK(d) /\ OK(e) /\ OK(f) =>
             LooksForNoElse(<<a, b, c, d, e, f>>)
      /\ \A a, b, c, d, e, f, g, h, i :
           OK(a) /\ OK(b) /\ OK(c) /\ OK(d) /\ OK(e) /\ OK(f) /\ OK(g) /\ OK(h) /\ OK(i) =>
             LooksForNoElse(<<a, b, c, d, e, f, g, h, i>>)
  BY DEF LooksForNoElse

(* Only an if looks for an else, at its end.                                *)
LEMMA ScriptItems ==
  /\ \A p \in DOMAIN Script : Len(Script[p]) \in Nat
  /\ \A p \in DOMAIN Script : \A i \in 1 .. Len(Script[p]) :
       Script[p][i] = "else?" => p = "if" /\ i = 7
  /\ Len(Script["if"]) = 7
<1>1. /\ Script["exprstmt"] = <<"expr", ";?">> /\ Script["decl"] = <<";">>
      /\ \A p \in DOMAIN Statement : Script[p] = Statement[p]
  BY StatementDomain DEF Script
<1>2. LooksForNoElse(Script["exprstmt"]) /\ LooksForNoElse(Script["decl"])
  BY <1>1, NoElseIn, Zenon
<1>3. /\ LooksForNoElse(Statement["case"]) /\ LooksForNoElse(Statement["default"])
      /\ LooksForNoElse(Statement["switch"]) /\ LooksForNoElse(Statement["while"])
  BY NoElseIn, Zenon DEF Statement
<1>4. LooksForNoElse(Statement["do"]) /\ LooksForNoElse(Statement["for"])
  BY NoElseIn, Zenon DEF Statement, ForParts
<1>5. /\ LooksForNoElse(Statement["break"]) /\ LooksForNoElse(Statement["continue"])
      /\ LooksForNoElse(Statement["goto"]) /\ LooksForNoElse(Statement["return"])
  BY NoElseIn, Zenon DEF Statement
<1>6. Statement["if"] = <<"(", "expr", "need", ")", "stmt", "need", "else?">>
  BY Zenon DEF Statement
<1>7. /\ Len(Statement["if"]) = 7
      /\ \A i \in 1 .. Len(Statement["if"]) : Statement["if"][i] = "else?" => i = 7
  BY <1>6
<1>8. \A p \in DOMAIN Script : p # "if" => LooksForNoElse(Script[p])
  BY <1>1, <1>2, <1>3, <1>4, <1>5, ScriptDomain, StatementDomain
<1>9. Script["if"] = Statement["if"]
  BY <1>1, StatementDomain
<1>10. \A p \in DOMAIN Script : Len(Script[p]) \in Nat
  BY <1>7, <1>8, <1>9 DEF LooksForNoElse
<1>11. ASSUME NEW p \in DOMAIN Script, NEW i \in 1 .. Len(Script[p]), Script[p][i] = "else?"
       PROVE  p = "if" /\ i = 7
  BY <1>7, <1>8, <1>9, <1>11 DEF LooksForNoElse
<1> QED
  BY <1>7, <1>9, <1>10, <1>11
-----------------------------------------------------------------------------
(* The stack                                                                *)

(* Tokens are only added.                                                   *)
LEMMA FitsLater ==
  ASSUME NEW n \in Nat, NEW m \in Nat, n <= m, NEW f, Fits(f, n)
  PROVE  Fits(f, m)
  BY DEF Fits

(* A frame with one field changed.                                          *)
LEMMA FieldChanged ==
  ASSUME NEW f, IsFrame(f), NEW x
  PROVE  /\ [f EXCEPT !.at = x] = [proc |-> f.proc, at |-> x, i |-> f.i, kids |-> f.kids, op |-> f.op]
         /\ [f EXCEPT !.i = x] = [proc |-> f.proc, at |-> f.at, i |-> x, kids |-> f.kids, op |-> f.op]
         /\ [f EXCEPT !.kids = x] = [proc |-> f.proc, at |-> f.at, i |-> f.i, kids |-> x, op |-> f.op]
         /\ [f EXCEPT !.op = x] = [proc |-> f.proc, at |-> f.at, i |-> f.i, kids |-> f.kids, op |-> x]
  BY DEF IsFrame

(* What a frame holds as nodes does not matter to where it is.              *)
LEMMA KidsFit ==
  ASSUME NEW n \in Nat, NEW f, Fits(f, n), NEW kids
  PROVE  Fits([f EXCEPT !.kids = kids], n)
<1> DEFINE g == [f EXCEPT !.kids = kids]
<1>1. g = [proc |-> f.proc, at |-> f.at, i |-> f.i, kids |-> kids, op |-> f.op]
  BY FieldChanged DEF Fits
<1>2. IsFrame(g) /\ g.proc = f.proc /\ g.at = f.at /\ g.i = f.i /\ g.op = f.op
  BY <1>1 DEF IsFrame
<1> HIDE DEF g
<1>3. Fits(g, n)
  BY <1>2 DEF Fits
<1> QED
  BY <1>3 DEF g

(* One more frame.                                                          *)
LEMMA PushFits ==
  ASSUME NEW n \in Nat, NEW s, StackFits(s, n), NEW f, Fits(f, n)
  PROVE  /\ StackFits(Append(s, f), n)
         /\ Append(s, f) # <<>>
<1> DEFINE S == Range(s) \cup {f}
           r == Append(s, f)
<1>1. s \in Seq(Range(s)) /\ \A k \in 1 .. Len(s) : Fits(s[k], n)
  BY DEF StackFits
<1>2. s \in Seq(S) /\ f \in S
  BY <1>1, SeqMonotonic
<1> HIDE DEF S
<1>3. /\ r \in Seq(S) /\ r # <<>> /\ Len(s) \in Nat
      /\ Len(r) = Len(s) + 1
      /\ \A i \in 1 .. Len(s) : r[i] = s[i]
      /\ r[Len(s) + 1] = f
  BY <1>2, AppendProperties, LenProperties
<1> HIDE DEF r
<1>4. r \in Seq(Range(r))
  BY <1>3, SeqOfRange
<1>5. \A k \in 1 .. Len(r) : Fits(r[k], n)
  <2> TAKE k \in 1 .. Len(r)
  <2>1. CASE k = Len(s) + 1
    BY <1>3, <2>1
  <2>2. CASE k # Len(s) + 1
    <3>1. k \in 1 .. Len(s)
      BY <1>3, <2>2
    <3> QED
      BY <1>1, <1>3, <3>1
  <2> QED
    BY <2>1, <2>2
<1>6. StackFits(r, n)
  BY <1>4, <1>5 DEF StackFits
<1> QED
  BY <1>3, <1>6 DEF r

(* The calls below the innermost one, and the innermost one.                *)
LEMMA BelowFits ==
  ASSUME NEW n \in Nat, StackFits(stack, n), stack # <<>>
  PROVE  StackFits(Below, n) /\ Fits(Top, n)
<1>1. stack \in Seq(Range(stack)) /\ \A k \in 1 .. Len(stack) : Fits(stack[k], n)
  BY DEF StackFits
<1>2. Len(stack) \in Nat \ {0}
  BY <1>1, EmptySeq
<1>3. \A k \in 1 .. Len(stack) - 1 : stack[k] \in Range(stack)
  BY <1>1, <1>2, ElementOfSeq
<1>4. /\ Below \in Seq(Range(stack))
      /\ Len(Below) = IF 1 <= Len(stack) - 1 THEN Len(stack) - 1 - 1 + 1 ELSE 0
      /\ \A i \in 1 .. Len(stack) - 1 - 1 + 1 : Below[i] = stack[1 + i - 1]
  BY <1>2, <1>3, SubSeqProperties DEF Below
<1>5. Len(Below) = Len(stack) - 1 /\ \A i \in 1 .. Len(Below) : Below[i] = stack[i]
  <2>1. Len(Below) = Len(stack) - 1
    <3>1. Len(Below) = IF 1 <= Len(stack) - 1 THEN Len(stack) - 1 - 1 + 1 ELSE 0
      BY <1>4
    <3>2. \A l \in Nat \ {0} : (IF 1 <= l - 1 THEN l - 1 - 1 + 1 ELSE 0) = l - 1
      OBVIOUS
    <3> QED
      BY <1>2, <3>1, <3>2
  <2>2. ASSUME NEW i \in 1 .. Len(Below)
        PROVE  Below[i] = stack[i]
    <3>1. i \in 1 .. Len(stack) - 1 - 1 + 1 /\ 1 + i - 1 = i
      BY <1>2, <2>1
    <3> QED
      BY <1>4, <3>1
  <2> QED
    BY <2>1, <2>2
<1>6. Below \in Seq(Range(Below))
  BY <1>4, SeqOfRange
<1>7. \A k \in 1 .. Len(Below) : Fits(Below[k], n)
  BY <1>1, <1>2, <1>5
<1>8. Fits(Top, n)
  BY <1>1, <1>2 DEF Top
<1> QED
  BY <1>6, <1>7, <1>8 DEF StackFits

(* An innermost frame goes on to where it fits.                             *)
LEMMA BecomeFits ==
  ASSUME NEW n \in Nat, NEW m \in Nat, n <= m, StackFits(stack, n), stack # <<>>,
         NEW f, Fits(f, m), Become(f)
  PROVE  StackFits(stack', m) /\ stack' # <<>> /\ status' = status
<1>1. StackFits(Below, m)
  BY BelowFits, FitsLater DEF StackFits
<1> QED
  BY <1>1, PushFits DEF Become

(* A call: the caller goes on to where it fits, the callee begins.          *)
LEMMA StartFits ==
  ASSUME NEW n \in Nat, NEW proc \in Startable
  PROVE  Fits(Start(proc), n)
<1> DEFINE f == Start(proc)
<1>1. f = Frame(proc, IF proc \in Calling THEN "call" ELSE "look")
  BY DEF Start, Calling
<1>2. /\ IsFrame(f)
      /\ f.proc = proc /\ f.i = 1 /\ f.op = 0
      /\ f.at = IF proc \in Calling THEN "call" ELSE "look"
  BY <1>1 DEF Frame, IsFrame
<1>3. proc \in Procs /\ proc # "if"
  BY CalleeDomain, ScriptDomain DEF Startable, Procs, Calling
<1>4. proc \in DOMAIN Script => 1 \in 1 .. Len(Script[proc]) + 1
  BY ScriptItems
<1> HIDE DEF f
<1>5. MayBeAt(proc, 1, f.at)
  BY <1>2, <1>3 DEF MayBeAt, Points
<1>6. Fits(f, n)
  BY <1>2, <1>3, <1>4, <1>5 DEF Fits
<1> QED
  BY <1>6 DEF f

(* The stack after it.                                                      *)
LEMMA CallFits ==
  ASSUME NEW n \in Nat, NEW m \in Nat, n <= m, StackFits(stack, n), stack # <<>>,
         NEW f, Fits(f, m), NEW proc \in Startable, Call(proc, f)
  PROVE  StackFits(stack', m) /\ stack' # <<>> /\ status' = status
<1>1. StackFits(Below, m)
  BY BelowFits, FitsLater DEF StackFits
<1>2. Below \in Seq(Range(Below) \cup {f, Start(proc)})
  BY <1>1, SeqMonotonic DEF StackFits
<1>3. Below \o <<f, Start(proc)>> = Append(Append(Below, f), Start(proc))
  BY <1>2
<1>4. StackFits(Append(Append(Below, f), Start(proc)), m)
  BY <1>1, PushFits, StartFits
<1>5. Append(Append(Below, f), Start(proc)) # <<>>
  BY <1>1, PushFits, StartFits
<1> QED
  BY <1>3, <1>4, <1>5 DEF Call

(* A return: the caller, if any, has one more node.                         *)
LEMMA ReturnFits ==
  ASSUME NEW n \in Nat, NEW m \in Nat, n <= m, StackFits(stack, n), stack # <<>>,
         NEW node, Return(node)
  PROVE  /\ StackFits(stack', m)
         /\ \/ stack' # <<>> /\ status' = status
            \/ stack' = <<>> /\ status' = "done"
<1>1. StackFits(Below, m)
  BY BelowFits, FitsLater DEF StackFits
<1>2. CASE Below = <<>>
  <2>1. stack' = <<>> /\ status' = "done"
    BY <1>2 DEF Return
  <2>2. StackFits(<<>>, m)
    BY <1>1, <1>2
  <2> QED
    BY <2>1, <2>2
<1>3. CASE Below # <<>>
  <2> DEFINE l == Len(Below)
             f == [Below[l] EXCEPT !.kids = Append(Below[l].kids, node)]
             S == Range(Below) \cup {f}
  <2>1. Below \in Seq(Range(Below)) /\ \A k \in 1 .. l : Fits(Below[k], m)
    BY <1>1 DEF StackFits
  <2>2. l \in Nat \ {0} /\ l \in 1 .. l
    BY <1>3, <2>1, EmptySeq
  <2>3. /\ stack' = [Below EXCEPT ![l] = f]
        /\ status' = status
    BY <1>3 DEF Return
  <2>4. Fits(f, m)
    <3>1. Fits(Below[l], m)
      BY <2>1, <2>2
    <3> QED
      BY <3>1, KidsFit
  <2>5. Below \in Seq(S) /\ f \in S
    BY <2>1, SeqMonotonic
  <2> HIDE DEF S, f
  <2>6. /\ stack' \in Seq(S) /\ Len(stack') = l
        /\ \A j \in 1 .. l : stack'[j] = IF j = l THEN f ELSE Below[j]
    BY <2>2, <2>3, <2>5, ExceptSeq
  <2>7. stack' \in Seq(Range(stack')) /\ stack' # <<>>
    BY <2>2, <2>6, SeqOfRange, EmptySeq
  <2>8. \A k \in 1 .. Len(stack') : Fits(stack'[k], m)
    BY <2>1, <2>4, <2>6
  <2> QED
    BY <2>3, <2>7, <2>8 DEF StackFits
<1> QED
  BY <1>2, <1>3

(* The process exits.                                                       *)
LEMMA StopFits ==
  ASSUME NEW m \in Nat, NEW how, Stop(how)
  PROVE  StackFits(stack', m) /\ stack' = <<>> /\ status' = how
<1>1. <<>> \in Seq(Range(<<>>)) /\ Len(<<>>) = 0
  BY EmptySeq
<1>2. StackFits(<<>>, m)
  BY <1>1 DEF StackFits
<1> QED
  BY <1>2 DEF Stop
-----------------------------------------------------------------------------
(* The functions                                                            *)

(* Calls are in progress exactly while the parser runs, each where it may   *)
(* be.                                                                      *)
StackInv ==
  /\ StackFits(stack, Len(read))
  /\ status \in {"run", "done", "fatal", "crash"}
  /\ status = "run" <=> stack # <<>>

(* What a step may do to the stack, when m tokens have been scanned.        *)
StackMove(m) ==
  \/ \E f : Fits(f, m) /\ Become(f)
  \/ \E f : Fits(f, m) /\ \E proc \in Startable : Call(proc, f)
  \/ \E node : Return(node)
  \/ \E how \in {"fatal", "crash"} : Stop(how)

(* Each of them leaves a stack of frames that fit.                          *)
LEMMA MoveInv ==
  ASSUME NEW n \in Nat, NEW m \in Nat, n <= m, Len(read) = n, Len(read') = m,
         StackInv, stack # <<>>, StackMove(m)
  PROVE  StackInv'
<1>1. CASE \E f : Fits(f, m) /\ Become(f)
  BY <1>1, BecomeFits DEF StackInv
<1>2. CASE \E f : Fits(f, m) /\ \E proc \in Startable : Call(proc, f)
  BY <1>2, CallFits DEF StackInv
<1>3. CASE \E node : Return(node)
  BY <1>3, ReturnFits DEF StackInv
<1>4. CASE \E how \in {"fatal", "crash"} : Stop(how)
  BY <1>4, StopFits DEF StackInv
<1> QED
  BY <1>1, <1>2, <1>3, <1>4 DEF StackMove

(* A function that becomes another, or begins.                              *)
LEMMA FrameFits ==
  ASSUME NEW m \in Nat, NEW proc \in Procs, NEW at, MayBeAt(proc, 1, at)
  PROVE  Fits(Frame(proc, at), m)
<1> DEFINE f == Frame(proc, at)
<1>1. IsFrame(f) /\ f.proc = proc /\ f.at = at /\ f.i = 1 /\ f.op = 0
  BY DEF Frame, IsFrame
<1>2. proc \in DOMAIN Script => 1 \in 1 .. Len(Script[proc]) + 1
  BY ScriptItems
<1> HIDE DEF f
<1>3. Fits(f, m)
  BY <1>1, <1>2 DEF Fits
<1> QED
  BY <1>3 DEF f

(* A function that goes on to another point, with another operator.         *)
LEMMA AtFits ==
  ASSUME NEW m \in Nat, Fits(Top, m), NEW point, MayBeAt(Top.proc, Top.i, point)
  PROVE  Fits(At(point), m)
<1> DEFINE f == At(point)
<1>1. f = [proc |-> Top.proc, at |-> point, i |-> Top.i, kids |-> Top.kids, op |-> Top.op]
  BY FieldChanged DEF Fits, At
<1>2. /\ IsFrame(f) /\ f.proc = Top.proc /\ f.at = point /\ f.i = Top.i /\ f.op = Top.op
  BY <1>1 DEF IsFrame
<1> HIDE DEF f
<1>3. Fits(f, m)
  BY <1>2 DEF Fits
<1> QED
  BY <1>3 DEF f

(* A function that got its operator.                                        *)
LEMMA OpFits ==
  ASSUME NEW m \in Nat, NEW f, Fits(f, m), NEW op \in 0 .. m
  PROVE  Fits([f EXCEPT !.op = op], m)
<1> DEFINE g == [f EXCEPT !.op = op]
<1>1. g = [proc |-> f.proc, at |-> f.at, i |-> f.i, kids |-> f.kids, op |-> op]
  BY FieldChanged DEF Fits
<1>2. IsFrame(g) /\ g.proc = f.proc /\ g.at = f.at /\ g.i = f.i /\ g.op = op
  BY <1>1 DEF IsFrame
<1> HIDE DEF g
<1>3. Fits(g, m)
  BY <1>2 DEF Fits
<1> QED
  BY <1>3 DEF g

(* A statement that goes on to its next item.                               *)
LEMMA NextItemFits ==
  ASSUME NEW m \in Nat, Fits(Top, m), Top.proc \in DOMAIN Script, ~Over
  PROVE  /\ Top.at = "script" => Fits(NextItem, m)
         /\ Fits([NextItem EXCEPT !.at = "script"], m)
<1> DEFINE f == NextItem
           g == [f EXCEPT !.at = "script"]
<1>1. f = [proc |-> Top.proc, at |-> Top.at, i |-> Top.i + 1, kids |-> Top.kids, op |-> Top.op]
  BY FieldChanged DEF Fits, NextItem
<1>2. IsFrame(f) /\ f.proc = Top.proc /\ f.at = Top.at /\ f.i = Top.i + 1 /\ f.op = Top.op
  BY <1>1 DEF IsFrame
<1>3. g = [proc |-> f.proc, at |-> "script", i |-> f.i, kids |-> f.kids, op |-> f.op]
  BY <1>2, FieldChanged
<1>4. IsFrame(g) /\ g.proc = f.proc /\ g.at = "script" /\ g.i = f.i /\ g.op = f.op
  BY <1>3 DEF IsFrame
<1> HIDE DEF f, g
<1>5. Top.i + 1 \in 1 .. Len(Script[Top.proc]) + 1
  BY ScriptItems DEF Fits, Over
<1>6. MayBeAt(Top.proc, Top.i + 1, "script")
  BY DEF MayBeAt, Points
<1>7. Top.at = "script" => Fits(f, m)
  BY <1>2, <1>5, <1>6 DEF Fits
<1>8. Fits(g, m)
  BY <1>2, <1>4, <1>5, <1>6 DEF Fits
<1> QED
  BY <1>7, <1>8 DEF f, g

(* The four things a step does to the stack.                                *)
LEMMA Moves ==
  ASSUME NEW m
  PROVE  /\ \A f : Fits(f, m) /\ Become(f) => StackMove(m)
         /\ \A f, proc : Fits(f, m) /\ proc \in Startable /\ Call(proc, f) => StackMove(m)
         /\ \A node : Return(node) => StackMove(m)
         /\ Stop("fatal") \/ Stop("crash") => StackMove(m)
  BY DEF StackMove

(* What parse_stmt and parse_unary_expr become are functions.               *)
LEMMA ProcNames ==
  /\ {"block", "exprstmt", "decl", "postfix"} \subseteq Procs
  /\ DOMAIN Statement \subseteq Procs
  BY ScriptDomain, CalleeDomain DEF Procs, Calling

(* parse_stmt becomes a block, a statement, or an expression statement.     *)
LEMMA LookStmtMove == \A m \in Nat : LookStmt => StackMove(m)
<1> SUFFICES ASSUME NEW m \in Nat, LookStmt PROVE StackMove(m)
  OBVIOUS
<1>1. \/ Become(Frame("block", "look"))
      \/ Look \in DOMAIN Statement /\ Become(Frame(Look, "script"))
      \/ Return(NULL)
      \/ Become(Frame("exprstmt", "script"))
  BY Zenon DEF LookStmt
<1>2. MayBeAt("block", 1, "look") /\ MayBeAt("exprstmt", 1, "script")
  BY ScriptDomain DEF MayBeAt, Points
<1>3. \A p \in DOMAIN Statement : MayBeAt(p, 1, "script")
  BY ScriptDomain DEF MayBeAt, Points
<1> QED
  BY <1>1, <1>2, <1>3, ProcNames, FrameFits, Moves

(* The loop of a block ends, fails or tries a declaration.                  *)
LEMMA LookBlockMove == \A m \in Nat : Fits(Top, m) /\ LookBlock => StackMove(m)
<1> SUFFICES ASSUME NEW m \in Nat, Fits(Top, m), LookBlock PROVE StackMove(m)
  OBVIOUS
<1>1. \/ \E node : Return(node)
      \/ Stop("fatal")
      \/ Top.proc = "block" /\ Call("decl", At("decl"))
  BY Zenon DEF LookBlock
<1>2. MayBeAt("block", Top.i, "decl") /\ "decl" \in Startable
  BY DEF MayBeAt, Points, Startable
<1> QED
  BY <1>1, <1>2, AtFits, Moves

(* A block links what it got, or tries a statement.                         *)
LEMMA BlockMove == \A m \in Nat : Fits(Top, m) /\ Block => StackMove(m)
<1> SUFFICES ASSUME NEW m \in Nat, Fits(Top, m), Block PROVE StackMove(m)
  OBVIOUS
<1>1. /\ Top.proc = "block"
      /\ \/ \E kids : Become([At("look") EXCEPT !.kids = kids])
         \/ \E kids : Call("stmt", [At("stmt") EXCEPT !.kids = kids])
         \/ Stop("fatal")
  BY Zenon DEF Block, InvalidItem
<1>2. MayBeAt("block", Top.i, "look") /\ MayBeAt("block", Top.i, "stmt") /\ "stmt" \in Startable
  BY DEF MayBeAt, Points, Startable
<1>3. Fits(At("look"), m) /\ Fits(At("stmt"), m)
  BY <1>1, <1>2, AtFits
<1> QED
  BY <1>1, <1>2, <1>3, KidsFit, Moves

(* A declaration has its type specifier.                                    *)
LEMMA LookDeclMove == \A m \in Nat : cache \in 0 .. m /\ LookDecl => StackMove(m)
<1> SUFFICES ASSUME NEW m \in Nat, cache \in 0 .. m, LookDecl PROVE StackMove(m)
  OBVIOUS
<1>1. Become([Frame("decl", "script") EXCEPT !.op = cache]) \/ Return(NULL)
  BY DEF LookDecl
<1>2. MayBeAt("decl", 1, "script")
  BY ScriptDomain DEF MayBeAt, Points
<1> QED
  BY <1>1, <1>2, ProcNames, FrameFits, OpFits, Moves

(* A statement has an item to go on with, or it is over.                    *)
LEMMA ItemFits ==
  ASSUME NEW m \in Nat, Fits(Top, m), InScript
  PROVE  /\ Top.proc \in DOMAIN Script
         /\ Item # "over" => Fits(NextItem, m) /\ Fits([NextItem EXCEPT !.at = "script"], m)
         /\ Item = "else?" => Top.proc = "if" /\ Top.i = 7
<1>1. Top.proc \in DOMAIN Script /\ Top.at = "script" /\ Top.i \in 1 .. Len(Script[Top.proc]) + 1
  BY DEF Fits, MayBeAt, InScript
<1>2. Item # "over" => ~Over
  BY DEF Item
<1>3. Item = "else?" => Top.i \in 1 .. Len(Script[Top.proc]) /\ Script[Top.proc][Top.i] = "else?"
  BY <1>1, ScriptItems DEF Item, Over
<1> QED
  BY <1>1, <1>2, <1>3, NextItemFits, ScriptItems

(* A required token is there or the parser stops.                           *)
LEMMA ExpectMove == \A m \in Nat : Fits(Top, m) /\ Expect => StackMove(m)
<1> SUFFICES ASSUME NEW m \in Nat, Fits(Top, m), Expect PROVE StackMove(m)
  OBVIOUS
<1>1. InScript /\ Item # "over"
  BY Zenon DEF Expect
<1>2. Become(NextItem) \/ Stop("fatal")
  BY Zenon DEF Expect, Expected
<1> QED
  BY <1>1, <1>2, ItemFits, Moves

(* A statement does what its next item says.                                *)
LEMMA PerformMove == \A m \in Nat : Fits(Top, m) /\ Perform => StackMove(m)
<1> SUFFICES ASSUME NEW m \in Nat, Fits(Top, m), Perform PROVE StackMove(m)
  OBVIOUS
<1>0. InScript
  BY Zenon DEF Perform
<1>1. \/ Item \in {"expr", "stmt", "decl"} /\ Call(Item, NextItem)
      \/ Item # "over" /\ (Stop("fatal") \/ Become(NextItem))
      \/ Item # "over" /\ Call("expr", [NextItem EXCEPT !.kids = <<>>])
      \/ Item = "else?" /\ Become([Top EXCEPT !.at = "look"])
      \/ \E node : Return(node)
  BY Zenon DEF Perform
<1>2. {"expr", "stmt", "decl"} \subseteq Startable
  BY CalleeDomain DEF Startable
<1>3. CASE Item \in {"expr", "stmt", "decl"} /\ Call(Item, NextItem)
  <2>1. Item # "over"
    BY <1>3
  <2> QED
    BY <1>0, <1>2, <1>3, <2>1, ItemFits, Moves
<1>4. CASE Item # "over" /\ (Stop("fatal") \/ Become(NextItem))
  BY <1>0, <1>4, ItemFits, Moves
<1>5. CASE Item # "over" /\ Call("expr", [NextItem EXCEPT !.kids = <<>>])
  BY <1>0, <1>2, <1>5, ItemFits, KidsFit, Moves
<1>6. CASE Item = "else?" /\ Become([Top EXCEPT !.at = "look"])
  <2>1. MayBeAt(Top.proc, Top.i, "look")
    BY <1>0, <1>6, ItemFits DEF MayBeAt, Points
  <2> QED
    BY <1>6, <2>1, AtFits, Moves DEF At
<1> QED
  BY <1>1, <1>3, <1>4, <1>5, <1>6, Moves

(* An if goes on after its last item.                                       *)
LEMMA LookElseMove == \A m \in Nat : Fits(Top, m) /\ LookElse => StackMove(m)
<1> SUFFICES ASSUME NEW m \in Nat, Fits(Top, m), LookElse PROVE StackMove(m)
  OBVIOUS
<1>1. \/ Call("stmt", [NextItem EXCEPT !.at = "script"])
      \/ Stop("crash")
      \/ Become([NextItem EXCEPT !.at = "script"])
  BY DEF LookElse
<1>2. Top.proc = "if" /\ Top.at = "look"
  BY DEF LookElse, Looked, Looks
<1>3. Top.i = 7 /\ Top.proc \in DOMAIN Script
  BY <1>2, ScriptDomain, StatementDomain DEF Fits, MayBeAt
<1>4. ~Over
  BY <1>2, <1>3, ScriptItems DEF Over
<1> QED
  BY <1>1, <1>3, <1>4, NextItemFits, Moves DEF Startable

(* The while of a do is there or the parser stops.                          *)
LEMMA GetKeywordMove == \A m \in Nat : Fits(Top, m) /\ GetKeyword => StackMove(m)
<1> SUFFICES ASSUME NEW m \in Nat, Fits(Top, m), GetKeyword PROVE StackMove(m)
  OBVIOUS
<1>1. /\ InScript /\ Item # "over"
      /\ Stop("crash") \/ Become(NextItem) \/ Stop("fatal")
  BY DEF GetKeyword
<1> QED
  BY <1>1, ItemFits, Moves

(* What a function called first of all, or an operator's operand, may be.   *)
LEMMA ExpressionNames ==
  /\ \A p \in Calling : p \in Procs /\ p # "if"
  /\ \A p \in Levels : p \in Calling
  /\ {"expr", "assign", "cond", "postfix", "primary", "unary"} \subseteq Startable
<1>1. \A p \in Calling : p \in Procs
  BY DEF Procs, Calling
<1>2. \A p \in Calling : p # "if"
  BY CalleeDomain
<1>3. \A p \in Levels : p \in Calling
  BY CalleeDomain, LevelDomain, Zenon
<1>4. {"expr", "assign", "cond", "postfix", "primary", "unary"} \subseteq Startable
  BY CalleeDomain DEF Startable
<1> QED
  BY <1>1, <1>2, <1>3, <1>4

(* A level calls the next one.                                              *)
LEMMA CallFirstMove == \A m \in Nat : Fits(Top, m) /\ CallFirst => StackMove(m)
<1> SUFFICES ASSUME NEW m \in Nat, Fits(Top, m), CallFirst PROVE StackMove(m)
  OBVIOUS
<1>1. Top.at = "call" /\ Call(Callee[Top.proc], At("look"))
  BY DEF CallFirst
<1>2. Top.proc \in Calling
  BY <1>1 DEF Fits, MayBeAt
<1>3. MayBeAt(Top.proc, Top.i, "look")
  BY <1>2, ExpressionNames DEF MayBeAt, Points
<1> QED
  BY <1>1, <1>2, <1>3, CalleesStart, AtFits, Moves

(* A level takes an operator and calls its operand.                         *)
LEMMA LookLevelMove == \A m \in Nat : Fits(Top, m) /\ cache \in 0 .. m /\ LookLevel => StackMove(m)
<1> SUFFICES ASSUME NEW m \in Nat, Fits(Top, m), cache \in 0 .. m, LookLevel PROVE StackMove(m)
  OBVIOUS
<1>1. /\ Top.proc \in Levels
      /\ \/ Call(Operand[Top.proc], [At("build") EXCEPT !.op = cache])
         \/ Return(LastKid)
  BY DEF LookLevel
<1>2. MayBeAt(Top.proc, Top.i, "build")
  BY <1>1 DEF MayBeAt, Points
<1> QED
  BY <1>1, <1>2, CalleesStart, AtFits, OpFits, Moves

(* A level goes on with its node; the others return it.                     *)
LEMMA BuildMove == \A m \in Nat : Fits(Top, m) /\ Build => StackMove(m)
<1> SUFFICES ASSUME NEW m \in Nat, Fits(Top, m), Build PROVE StackMove(m)
  OBVIOUS
<1>1. Top.at = "build" /\ Top.proc \in Levels \cup {"assign", "cond", "unary"}
  BY DEF Build, Fits, MayBeAt
<1>2. CASE Top.proc \in Levels
  <2>1. Top.proc \notin {"assign", "cond", "unary"}
    BY <1>2, LevelDomain, Zenon
  <2>2. \E kids : Become([Frame(Top.proc, "look") EXCEPT !.kids = kids])
    BY <1>2, <2>1, Zenon DEF Build
  <2>3. MayBeAt(Top.proc, 1, "look") /\ Top.proc \in Procs
    BY <1>2, ExpressionNames DEF MayBeAt, Points
  <2> QED
    BY <2>2, <2>3, FrameFits, KidsFit, Moves
<1>3. CASE Top.proc \in {"assign", "cond", "unary"}
  <2>1. Top.proc \notin Levels
    BY <1>3, LevelDomain, Zenon
  <2>2. \E node : Return(node)
    BY <1>3, <2>1, Zenon DEF Build
  <2> QED
    BY <2>2, Moves
<1> QED
  BY <1>1, <1>2, <1>3

(* An assignment eats its operator.                                         *)
LEMMA LookAssignMove == \A m \in Nat : Fits(Top, m) /\ LookAssign => StackMove(m)
<1> SUFFICES ASSUME NEW m \in Nat, Fits(Top, m), LookAssign PROVE StackMove(m)
  OBVIOUS
<1>1. Top.proc = "assign" /\ (Become(At("op")) \/ Return(LastKid))
  BY DEF LookAssign
<1>2. MayBeAt("assign", Top.i, "op")
  BY DEF MayBeAt, Points
<1> QED
  BY <1>1, <1>2, AtFits, Moves

(* The token after the operator exists.                                     *)
LEMMA AssignOpMove ==
  \A m \in Nat : Fits(Top, m) /\ (\A t : Take(t) => t \in 0 .. m) /\ AssignOp => StackMove(m)
<1> SUFFICES ASSUME NEW m \in Nat, Fits(Top, m), \A t : Take(t) => t \in 0 .. m, AssignOp
             PROVE  StackMove(m)
  OBVIOUS
<1>1. PICK t : /\ Top.at = "op" /\ Take(t)
               /\ Call("assign", [At("build") EXCEPT !.op = t])
  BY DEF AssignOp, Get
<1>2. Top.proc = "assign"
  BY <1>1 DEF Fits, MayBeAt
<1>3. MayBeAt(Top.proc, Top.i, "build")
  BY <1>2 DEF MayBeAt, Points
<1> QED
  BY <1>1, <1>3, ExpressionNames, AtFits, OpFits, Moves

(* A conditional waits for its colon.                                       *)
LEMMA LookCondMove == \A m \in Nat : Fits(Top, m) /\ LookCond => StackMove(m)
<1> SUFFICES ASSUME NEW m \in Nat, Fits(Top, m), LookCond PROVE StackMove(m)
  OBVIOUS
<1>1. Top.proc = "cond" /\ (Call("expr", At("close")) \/ Return(LastKid))
  BY DEF LookCond
<1>2. MayBeAt("cond", Top.i, "close")
  BY DEF MayBeAt, Points
<1> QED
  BY <1>1, <1>2, ExpressionNames, AtFits, Moves

(* A unary operator is kept; else a postfix expression follows.             *)
LEMMA LookUnaryMove == \A m \in Nat : Fits(Top, m) /\ cache \in 0 .. m /\ LookUnary => StackMove(m)
<1> SUFFICES ASSUME NEW m \in Nat, Fits(Top, m), cache \in 0 .. m, LookUnary PROVE StackMove(m)
  OBVIOUS
<1>1. /\ Top.proc = "unary"
      /\ \/ Return(Uninit)
         \/ Call("unary", [At("build") EXCEPT !.op = cache])
         \/ Call("postfix", At("pass"))
  BY DEF LookUnary
<1>2. MayBeAt("unary", Top.i, "build") /\ MayBeAt("unary", Top.i, "pass")
  BY DEF MayBeAt, Points
<1> QED
  BY <1>1, <1>2, ExpressionNames, AtFits, OpFits, Moves

(* What it was called for is returned.                                      *)
LEMMA PassMove == \A m \in Nat : PassPostfix => StackMove(m)
  BY Moves DEF PassPostfix

(* A member access needs its operator in the input.                         *)
LEMMA LookPostfixMove ==
  \A m \in Nat :
    /\ Fits(Top, m) /\ cache \in 0 .. m /\ (cache # 0 => KindOf(cache) \in Kind \cup {EOF})
    /\ LookPostfix
    => StackMove(m)
<1> SUFFICES ASSUME NEW m \in Nat, Fits(Top, m), cache \in 0 .. m,
                    cache # 0 => KindOf(cache) \in Kind \cup {EOF}, LookPostfix
             PROVE  StackMove(m)
  OBVIOUS
<1>1. /\ Top.proc = "postfix"
      /\ \/ Call("expr", [At("close") EXCEPT !.op = cache])
         \/ Look \in {".", "->"} /\ Call("primary", [At("member") EXCEPT !.op = cache])
         \/ \E node : Return(node)
  BY Zenon DEF LookPostfix
<1>2. CASE Call("expr", [At("close") EXCEPT !.op = cache])
  <2>1. MayBeAt("postfix", Top.i, "close")
    BY DEF MayBeAt, Points
  <2> QED
    BY <1>1, <1>2, <2>1, ExpressionNames, AtFits, OpFits, Moves
<1>3. CASE Look \in {".", "->"} /\ Call("primary", [At("member") EXCEPT !.op = cache])
  <2>1. MayAccess
    BY <1>3 DEF Look, MayAccess
  <2>2. MayBeAt("postfix", Top.i, "member")
    BY <2>1 DEF MayBeAt, Points
  <2> QED
    BY <1>1, <1>3, <2>2, ExpressionNames, AtFits, OpFits, Moves
<1> QED
  BY <1>1, <1>2, <1>3, Moves

(* A parenthesis waits to be closed.                                        *)
LEMMA LookPrimaryMove == \A m \in Nat : Fits(Top, m) /\ LookPrimary => StackMove(m)
<1> SUFFICES ASSUME NEW m \in Nat, Fits(Top, m), LookPrimary PROVE StackMove(m)
  OBVIOUS
<1>1. /\ Top.proc = "primary"
      /\ Stop("fatal") \/ Call("expr", At("close")) \/ \E node : Return(node)
  BY Zenon DEF LookPrimary
<1>2. MayBeAt("primary", Top.i, "close")
  BY DEF MayBeAt, Points
<1> QED
  BY <1>1, <1>2, ExpressionNames, AtFits, Moves

(* A closed bracket ends its call, or the middle of a conditional.          *)
LEMMA CloseMove == \A m \in Nat : Fits(Top, m) /\ Close => StackMove(m)
<1> SUFFICES ASSUME NEW m \in Nat, Fits(Top, m), Close PROVE StackMove(m)
  OBVIOUS
<1>1. Top.at = "close" /\ (Closed \/ Stop("crash") \/ Stop("fatal"))
  BY Zenon DEF Close
<1>2. Top.proc \in {"postfix", "primary", "cond"}
  BY <1>1 DEF Fits, MayBeAt
<1>3. Closed => \/ \E node : Return(node)
                \/ Top.proc = "cond" /\ Call("cond", At("build"))
  <2>1. CASE Top.proc = "postfix" /\ Closed
    <3>1. Return(Node("POSTFIX", Top.op, Top.kids))
      BY <2>1, Zenon DEF Closed
    <3> QED
      BY <3>1
  <2>2. CASE Top.proc = "primary" /\ Closed
    <3>1. Return(Parenthesised(LastKid))
      BY <2>2, Zenon DEF Closed
    <3> QED
      BY <3>1
  <2>3. CASE Top.proc = "cond" /\ Closed
    <3>1. Call("cond", At("build"))
      BY <2>3, Zenon DEF Closed
    <3> QED
      BY <2>3, <3>1
  <2> QED
    BY <1>2, <2>1, <2>2, <2>3
<1>4. MayBeAt("cond", Top.i, "build")
  BY DEF MayBeAt, Points
<1> QED
  BY <1>1, <1>3, <1>4, ExpressionNames, AtFits, Moves

(* A member access returns or ends the parser.                              *)
LEMMA MemberMove == \A m \in Nat : Member => StackMove(m)
<1> SUFFICES ASSUME NEW m \in Nat, Member PROVE StackMove(m)
  OBVIOUS
<1>1. (\E node : Return(node)) \/ Stop("fatal") \/ Stop("crash")
  BY Zenon DEF Member
<1> QED
  BY <1>1, Moves
-----------------------------------------------------------------------------
(* The parser                                                               *)

(* What a step of the parser finds and leaves in the lexer.                 *)
LEMMA LexerFacts ==
  ASSUME ParserInv, LexerCall
  PROVE  /\ Len(read) \in Nat /\ Len(read') \in Nat /\ Len(read) <= Len(read')
         /\ cache \in 0 .. Len(read)
         /\ cache # 0 => KindOf(cache) \in Kind \cup {EOF}
         /\ \A t : Take(t) => t \in 0 .. Len(read')
<1>1. /\ Len(read) \in Nat /\ cache \in 0 .. Len(read)
      /\ read \in Seq(Scanned) /\ StreamTypeOK /\ alive
  BY DEF ParserInv, StreamInv, StreamTypeOK, Token, Scanned
<1>2. cache # 0 => KindOf(cache) \in Kind \cup {EOF}
  <2>1. cache # 0 => read[cache] \in Scanned
    BY <1>1, ElementOfSeq
  <2> QED
    BY <2>1 DEF KindOf, Scanned
<1>3. ASSUME NEW t, Take(t)
      PROVE  /\ Len(read') \in Nat /\ Len(read) <= Len(read') /\ t \in 0 .. Len(read')
  <2>1. \/ t = 0 /\ read' = read
        \/ /\ t = Len(given) + 1 /\ Len(read') = t /\ Len(read') >= Len(read)
    <3>1. StreamInv /\ alive
      BY DEF ParserInv
    <3>2. \/ t = 0 /\ UNCHANGED <<cache, read, given>>
          \/ /\ t = Len(given) + 1 /\ given' = Append(given, t)
             /\ cache' = 0 /\ Len(read') = t /\ Len(read') >= Len(read)
      BY <1>3, <3>1, TakeResult
    <3> QED
      BY <3>2
  <2>2. Len(given) \in Nat
    BY DEF ParserInv, StreamInv, StreamTypeOK
  <2> QED
    BY <1>1, <2>1, <2>2
<1>4. /\ Len(read') \in Nat /\ Len(read) <= Len(read')
  <2>1. CASE Peek
    <3>1. Len(read') = Len(read) + 1
      BY <1>1, <2>1, ScanResult DEF Peek, Fill
    <3> QED
      BY <1>1, <3>1
  <2>2. CASE UNCHANGED streamVars
    BY <1>1, <2>2 DEF streamVars, lexer
  <2>3. CASE \E t \in NextToken : Get(t) \/ Eat(t)
    BY <1>3, <2>3 DEF Get, Eat
  <2> QED
    BY <2>1, <2>2, <2>3 DEF LexerCall
<1> QED
  BY <1>1, <1>2, <1>3, <1>4

(* Every step of the parser but a lookahead moves the stack.                *)
LEMMA NextMoves ==
  ASSUME ParserInv, StackInv, Next, NEW m \in Nat, m = Len(read')
  PROVE  /\ stack # <<>>
         /\ UNCHANGED parser \/ StackMove(m)
<1>1. stack # <<>>
  BY DEF Next, LookAhead, LookStmt, LookBlock, Block, LookDecl, Expect, Perform, LookElse,
     GetKeyword, CallFirst, LookLevel, Build, LookAssign, AssignOp, LookCond, LookUnary,
     PassPostfix, LookPostfix, LookPrimary, Close, Member, Looked, Looks, InScript
<1>2. LexerCall
  BY ParserStep DEF ParserInv
<1>3. /\ cache \in 0 .. m /\ (cache # 0 => KindOf(cache) \in Kind \cup {EOF})
      /\ \A t : Take(t) => t \in 0 .. m
      /\ Len(read) \in Nat /\ Len(read) <= m
  BY <1>2, LexerFacts
<1>4. Fits(Top, m)
  BY <1>1, <1>3, BelowFits, FitsLater DEF StackInv
<1>5. CASE LookAhead
  BY <1>1, <1>5 DEF LookAhead
<1>6. CASE LookStmt \/ LookBlock \/ Block \/ LookDecl \/ Expect \/ Perform
  BY <1>1, <1>3, <1>4, <1>6, LookStmtMove, LookBlockMove, BlockMove, LookDeclMove, ExpectMove,
     PerformMove
<1>7. CASE LookElse \/ GetKeyword \/ CallFirst \/ LookLevel \/ Build \/ LookAssign
  BY <1>1, <1>3, <1>4, <1>7, LookElseMove, GetKeywordMove, CallFirstMove, LookLevelMove, BuildMove,
     LookAssignMove
<1>8. CASE AssignOp \/ LookCond \/ LookUnary \/ PassPostfix \/ LookPostfix \/ LookPrimary \/ Close \/ Member
  BY <1>1, <1>3, <1>4, <1>8, AssignOpMove, LookCondMove, LookUnaryMove, PassMove, LookPostfixMove,
     LookPrimaryMove, CloseMove, MemberMove
<1> QED
  BY <1>1, <1>5, <1>6, <1>7, <1>8 DEF Next

(* The parser begins with one call.                                         *)
LEMMA StackInitInv == Init => StackInv
<1> SUFFICES ASSUME Init PROVE StackInv
  OBVIOUS
<1>1. stack = <<Start("stmt")>> /\ Len(read) = 0 /\ status = "run"
  BY DEF Init
<1>2. Fits(Start("stmt"), 0)
  BY StartFits DEF Startable
<1>3. stack \in Seq({Start("stmt")}) /\ Len(stack) = 1 /\ stack[1] = Start("stmt")
  BY <1>1
<1>4. stack \in Seq(Range(stack))
  BY <1>3, SeqOfRange
<1>5. \A k \in 1 .. Len(stack) : Fits(stack[k], 0)
  BY <1>2, <1>3
<1> QED
  BY <1>1, <1>4, <1>5 DEF StackInv, StackFits

(* Every step leaves a stack of frames that fit.                            *)
LEMMA StackNextInv == ParserInv /\ StackInv /\ [Next]_vars => StackInv'
<1> SUFFICES ASSUME ParserInv, StackInv, [Next]_vars PROVE StackInv'
  OBVIOUS
<1>1. /\ Len(read) \in Nat /\ Len(read') \in Nat /\ Len(read) <= Len(read')
  BY ParserStep, LexerFacts DEF ParserInv
<1>2. CASE UNCHANGED parser
  BY <1>1, <1>2, FitsLater DEF parser, StackInv, StackFits
<1>3. CASE Next
  <2>1. PICK n \in Nat, m \in Nat : n = Len(read) /\ m = Len(read') /\ n <= m
    BY <1>1
  <2>2. stack # <<>> /\ (UNCHANGED parser \/ StackMove(m))
    BY <1>3, <2>1, NextMoves
  <2> QED
    BY <1>2, <2>1, <2>2, MoveInv
<1> QED
  BY <1>2, <1>3 DEF vars

(* Type correctness of the parser: calls are in progress exactly while it   *)
(* runs, each at a point its function has, with an operator token that was  *)
(* scanned, and no statement goes on past its last item.                    *)
THEOREM ParserTypes == Spec => []TypeOK
<1>1. ParserInv /\ StackInv => TypeOK
  <2> SUFFICES ASSUME ParserInv, StackInv PROVE TypeOK
    OBVIOUS
  <2>1. /\ stack \in Seq(Range(stack)) /\ \A k \in 1 .. Len(stack) : Fits(stack[k], Len(read))
    BY DEF StackInv, StackFits
  <2>2. DOMAIN stack = 1 .. Len(stack)
    BY <2>1, LenProperties
  <2>3. \A k \in DOMAIN stack :
          LET f == stack[k]
          IN  /\ f.proc \in Procs /\ f.at \in Points
              /\ f.op \in 0 .. Len(read)
              /\ f.proc \in DOMAIN Script => f.i \in 1 .. Len(Script[f.proc]) + 1
    BY <2>1, <2>2 DEF Fits, MayBeAt
  <2>4. Len(read) \in Nat /\ 0 .. Len(read) \subseteq Token \cup {0}
    BY DEF ParserInv, StreamInv, StreamTypeOK, Token
  <2>5. StreamTypeOK
    BY DEF ParserInv, StreamInv
  <2> QED
    BY <2>3, <2>4, <2>5 DEF TypeOK, StackInv
<1> QED
  BY <1>1, ParserInitInv, ParserNextInv, StackInitInv, StackNextInv, PTL DEF Spec
-----------------------------------------------------------------------------
(* Where NULL is read                                                       *)

(* Only logger_fatal, a NULL read and the last return end the parser.       *)
LEMMA Statuses ==
  /\ \A f : Become(f) => status' = status
  /\ \A f, proc : Call(proc, f) => status' = status
  /\ \A node : Return(node) => status' = status \/ status' = "done"
  /\ \A how : Stop(how) => status' = how
  BY DEF Become, Call, Return, Stop

(* The functions that check what they read.                                 *)
LEMMA StatementsDoNotCrash ==
  ASSUME status = "run",
         LookStmt \/ LookBlock \/ Block \/ LookDecl \/ Expect \/ Perform
  PROVE  status' # "crash"
<1>1. CASE LookStmt
  <2>1. (\E f : Become(f)) \/ (\E node : Return(node))
    BY <1>1, Zenon DEF LookStmt
  <2> QED
    BY <2>1, Statuses
<1>2. CASE LookBlock
  <2>1. (\E node : Return(node)) \/ Stop("fatal") \/ (\E f, proc : Call(proc, f))
    BY <1>2, Zenon DEF LookBlock
  <2> QED
    BY <2>1, Statuses
<1>3. CASE Block
  <2>1. (\E f : Become(f)) \/ Stop("fatal") \/ (\E f, proc : Call(proc, f))
    BY <1>3, Zenon DEF Block, InvalidItem
  <2> QED
    BY <2>1, Statuses
<1>4. CASE LookDecl
  <2>1. (\E f : Become(f)) \/ (\E node : Return(node))
    BY <1>4, Zenon DEF LookDecl
  <2> QED
    BY <2>1, Statuses
<1>5. CASE Expect
  <2>1. (\E f : Become(f)) \/ Stop("fatal")
    BY <1>5, Zenon DEF Expect, Expected
  <2> QED
    BY <2>1, Statuses
<1>6. CASE Perform
  <2>1. \/ \E f : Become(f)
        \/ Stop("fatal")
        \/ \E f, proc : Call(proc, f)
        \/ \E node : Return(node)
    BY <1>6, Zenon DEF Perform
  <2> QED
    BY <2>1, Statuses
<1> QED
  BY <1>1, <1>2, <1>3, <1>4, <1>5, <1>6

(* Those of the expression layer.                                           *)
LEMMA ExpressionsDoNotCrash ==
  ASSUME status = "run", NEW m \in Nat, Fits(Top, m),
         \/ CallFirst \/ LookLevel \/ Build \/ LookAssign \/ AssignOp
         \/ LookCond \/ LookUnary \/ PassPostfix \/ LookPostfix \/ LookPrimary
  PROVE  status' # "crash"
<1>1. CASE CallFirst \/ LookLevel \/ LookAssign \/ AssignOp \/ LookCond
  BY <1>1, Statuses DEF CallFirst, LookLevel, LookAssign, AssignOp, LookCond
<1>2. CASE LookUnary \/ PassPostfix \/ LookPostfix \/ LookPrimary
  BY <1>2, Statuses DEF LookUnary, PassPostfix, LookPostfix, LookPrimary
<1>3. CASE Build
  <2>1. Top.proc \in Levels \cup {"assign", "cond", "unary"}
    BY <1>3 DEF Build, Fits, MayBeAt
  <2>2. (\E f : Become(f)) \/ (\E node : Return(node))
    <3>1. CASE Top.proc \in Levels
      <4>1. Top.proc \notin {"assign", "cond", "unary"}
        BY <3>1, LevelDomain, Zenon
      <4> QED
        BY <1>3, <3>1, <4>1, Zenon DEF Build
    <3>2. CASE Top.proc \in {"assign", "cond", "unary"}
      <4>1. Top.proc \notin Levels
        BY <3>2, LevelDomain, Zenon
      <4> QED
        BY <1>3, <3>2, <4>1, Zenon DEF Build
    <3> QED
      BY <2>1, <3>1, <3>2
  <2> QED
    BY <2>2, Statuses
<1> QED
  BY <1>1, <1>2, <1>3

(* lexer_get returns NULL only when no source is left.                      *)
LEMMA NullAtEnd ==
  ASSUME ParserInv, Take(0)
  PROVE  sources' = <<>>
<1>1. Len(read) \in Nat
  BY DEF ParserInv, StreamInv, StreamTypeOK
<1>2. ~(0 = Len(read) + 1)
  BY <1>1
<1> QED
  BY <1>2 DEF Take, TakeCached

(* The functions that read the line of a token they did not get.            *)
LEMMA CrashStep ==
  ASSUME ParserInv, status = "run", NEW m \in Nat, Fits(Top, m), ~MayAccess,
         "null" \notin Kind \cup {EOF},
         cache # 0 => KindOf(cache) \in Kind \cup {EOF},
         LookElse \/ GetKeyword \/ Close \/ Member,
         status' = "crash"
  PROVE  sources' = <<>>
<1>1. CASE LookElse
  <2>1. /\ cache # 0 \/ sources = <<>>
        /\ Look = "null"
        /\ UNCHANGED streamVars
    <3>1. CASE Look = "null" /\ UNCHANGED streamVars
      BY <1>1, <3>1 DEF LookElse, Looked
    <3>2. CASE (\E f : Become(f)) \/ (\E f, proc : Call(proc, f))
      BY <3>2, Statuses
    <3> QED
      BY <1>1, <3>1, <3>2 DEF LookElse
  <2>2. cache = 0
    BY <2>1 DEF Look
  <2> QED
    BY <2>1, <2>2 DEF streamVars, lexer
<1>2. CASE GetKeyword
  <2>1. PICK t : /\ Take(t)
                 /\ \/ t = 0
                    \/ Become(NextItem)
                    \/ Stop("fatal")
    BY <1>2 DEF GetKeyword, Get
  <2> QED
    BY <2>1, Statuses, NullAtEnd
<1>3. CASE Close
  <2>1. PICK t : /\ Take(t)
                 /\ \/ t = 0
                    \/ Closed
                    \/ Stop("fatal")
    BY <1>3, Zenon DEF Close, Eat
  <2>2. Top.proc \in {"postfix", "primary", "cond"}
    BY <1>3 DEF Close, Fits, MayBeAt
  <2>3. Closed => status' # "crash"
    BY <2>2, Statuses DEF Closed
  <2> QED
    BY <2>1, <2>3, Statuses, NullAtEnd
<1>4. CASE Member
  BY <1>4 DEF Member, Fits, MayBeAt
<1> QED
  BY <1>1, <1>2, <1>3, <1>4

(* No other step reads NULL.                                                *)
LEMMA CrashNextInv ==
  ASSUME ~MayAccess, "null" \notin Kind \cup {EOF}
  PROVE  ParserInv /\ StackInv /\ CrashesAtEnd /\ [Next]_vars => CrashesAtEnd'
<1> SUFFICES ASSUME ParserInv, StackInv, CrashesAtEnd, [Next]_vars, status' = "crash"
             PROVE  sources' = <<>>
  BY DEF CrashesAtEnd
<1>1. CASE UNCHANGED vars
  BY <1>1 DEF vars, streamVars, lexer, parser, CrashesAtEnd
<1>2. CASE Next
  <2>1. /\ Len(read) \in Nat
        /\ cache # 0 => KindOf(cache) \in Kind \cup {EOF}
    BY ParserStep, LexerFacts DEF ParserInv
  <2>2. PICK n \in Nat, m \in Nat : n = Len(read) /\ m = Len(read')
    BY <2>1, ParserStep, LexerFacts DEF ParserInv
  <2>3. stack # <<>> /\ status = "run"
    BY <1>2, <2>2, NextMoves DEF StackInv
  <2>4. Fits(Top, n)
    BY <2>2, <2>3, BelowFits DEF StackInv
  <2>5. CASE LookAhead
    BY <2>3, <2>5 DEF LookAhead, parser
  <2> QED
    BY <1>2, <2>1, <2>3, <2>4, <2>5, StatementsDoNotCrash, ExpressionsDoNotCrash, CrashStep
    DEF Next
<1> QED
  BY <1>1, <1>2

(* In an input without member access no token, whatever it is and wherever  *)
(* it comes, makes the parser read through NULL: only the end of the last   *)
(* source does.                                                             *)
THEOREM CrashesOnlyAtEnd ==
  ASSUME ~MayAccess, "null" \notin Kind \cup {EOF}
  PROVE  Spec => []CrashesAtEnd
<1>1. Init => CrashesAtEnd
  BY DEF Init, CrashesAtEnd
<1>2. ParserInv /\ StackInv /\ CrashesAtEnd /\ [Next]_vars => CrashesAtEnd'
  BY CrashNextInv
<1> QED
  BY <1>1, <1>2, ParserInitInv, ParserNextInv, StackInitInv, StackNextInv, PTL DEF Spec
=============================================================================
