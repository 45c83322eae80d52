---------------------------- MODULE ParserGrammar ----------------------------
(***************************************************************************)
(* What the trees of src/parser.c have to be: the grammar its comments     *)
(* give, as far as the code implements it, written as the set of derivation*)
(* trees of a token sequence, with C's associativity and the strength of   *)
(* operators the file's layers have.                                       *)
(*                                                                         *)
(* The comments list more, which the code refuses or reads as something    *)
(* else.  It is left out: identifiers (396) and goto (340), as nothing is  *)
(* ever declared; string literals (398); calls (458) and member accesses   *)
(* (459-460); casts, sizeof (515-517) and ! (519); ^ (553); assignments    *)
(* (688).  A for (271) that begins with a declaration has one semicolon    *)
(* more than the comment gives it, as the code wants.                      *)
(*                                                                         *)
(* For TLC only: the definitions recurse over trees and phrases.           *)
(***************************************************************************)
EXTENDS Parser

(* The binary operators of parser.c:553 but ^, weakest first; a conditional *)
(* expression stands between the comma and them.                            *)
Strength ==
  <<{"||", "&&"}, {"|", "&", "<<", ">>"}, {"==", "!=", "<", ">", "<=", ">="},
    {"+", "-"}, {"*", "/", "%"}>>

(* The unary operators of parser.c:519 but the !.                           *)
PrefixOps == {"++", "--", "&", "*", "+", "-", "~"}

Positions(s, a, b, kinds) == {k \in a .. b : s[k] \in kinds}

(* The phrases that are exactly s[a..b], from those of the shorter spans:   *)
(* rows[n][k] are the phrases of the span of n tokens that begins at k.     *)
(* With loop, postfix operators repeat.                                     *)
Phrases(rows, s, a, b, loop) ==
  LET In(x, y) == rows[y - x + 1][x]
      inner == Positions(s, a + 1, b - 1, UNION {Strength[w] : w \in DOMAIN Strength} \cup {",", "?"})
      Split(ops) == {k \in inner : s[k] \in ops}
      Tree2(k, left, right) == {Node("BINARY", k, <<l, r>>) : l \in left, r \in right}
      primary ==
        IF a = b THEN {Node("CONST", k, <<>>) : k \in Positions(s, a, b, {"num"})}
        ELSE IF a + 1 < b /\ s[a] = "(" /\ s[b] = ")" THEN {Parenthesised(e) : e \in In(a + 1, b - 1).expr}
        ELSE {}
      Base(x, y) == IF loop THEN In(x, y).postfix ELSE In(x, y).primary
      postfix ==
        primary \cup
        (IF a < b /\ s[b] \in {"++", "--"}
         THEN {Node("POSTFIX", b, <<x>>) : x \in Base(a, b - 1)} ELSE {}) \cup
        (IF a < b /\ s[b] = "]"
         THEN UNION {{Node("POSTFIX", k, <<x, e>>) : x \in Base(a, k - 1), e \in In(k + 1, b - 1).expr} :
                       k \in Positions(s, a + 1, b - 2, {"["})}
         ELSE {})
      unary ==
        postfix \cup
        (IF a < b /\ s[a] \in PrefixOps
         THEN {Node("UNARY", a, <<x>>) : x \in In(a + 1, b).unary} ELSE {})
      Level(w, tighter) ==
        tighter \cup
        UNION {Tree2(k, In(a, k - 1).level[w],
                     IF w = Len(Strength) THEN In(k + 1, b).unary ELSE In(k + 1, b).level[w + 1]) :
                 k \in Split(Strength[w])}
      level5 == Level(5, unary)  level4 == Level(4, level5)  level3 == Level(3, level4)
      level2 == Level(2, level3) level1 == Level(1, level2)
      cond ==
        level1 \cup
        UNION {{Node("TERNARY", 0, <<c, x, y>>) :
                  c \in In(a, q - 1).level[1], x \in In(q + 1, k - 1).expr, y \in In(k + 1, b).cond} :
                 <<q, k>> \in {<<q, k>> \in Split({"?"}) \X Positions(s, a + 1, b - 1, {":"}) : q + 1 < k}}
      expr == cond \cup UNION {Tree2(k, In(a, k - 1).expr, In(k + 1, b).cond) : k \in Split({","})}
  IN  [expr |-> expr, cond |-> cond, level |-> <<level1, level2, level3, level4, level5>>,
       unary |-> unary, postfix |-> postfix, primary |-> primary]

(* The rows of all spans, shortest first.  SubSeq makes each a tuple.       *)
Chart(s, loop) ==
  LET rows[n \in 0 .. Len(s)] ==
        IF n = 0 THEN <<>>
        ELSE LET shorter == rows[n - 1]
             IN  Append(shorter,
                        SubSeq([a \in 1 .. Len(s) - n + 1 |-> Phrases(shorter, s, a, a + n - 1, loop)],
                               1, Len(s) - n + 1))
  IN  rows[Len(s)]

Grammar(s, loop) == [s |-> s, loop |-> loop, chart |-> Chart(s, loop)]
-----------------------------------------------------------------------------
(* Statements: what the comment before each case of parse_stmt says, and    *)
(* the order of a node's children.  The clause of a for may be a            *)
(* declaration, which has a semicolon of its own (14), and another follows: *)
(* so the code reads 14 and 271.  A goto never finds its label.             *)
Rules ==
  {<<"if", "(", "Expr", ")", "Stmt">>,
   <<"if", "(", "Expr", ")", "Stmt", "else", "Stmt">>,
   <<"case", "Expr", ":", "Stmt">>,
   <<"default", ":", "Stmt">>,
   <<"switch", "(", "Expr", ")", "Stmt">>,
   <<"while", "(", "Expr", ")", "Stmt">>,
   <<"do", "Stmt", "while", "(", "Expr", ")", ";">>,
   <<"for", "(", "Clause", ";", "OptExpr", ";", "OptExpr", ")", "Stmt">>,
   <<"break", ";">>,
   <<"continue", ";">>,
   <<"return", "OptExpr", ";">>,
   <<"{", "Items", "}">>,
   <<"Expr", ";">>}
RulesAt(k) == {rule \in Rules : rule[1] \in {k, "Expr"}}

Phrase == {"Expr", "OptExpr", "Clause", "Stmt", "Items"}

(* A statement whose last part is an if without else.                       *)
RECURSIVE EndsOpen(_)
EndsOpen(node) ==
  CASE node.kind = "if" -> Len(node.kids) = 2 \/ EndsOpen(Last(node.kids))
    [] node.kind = "for" -> EndsOpen(node.next[1])
    [] node.kind \in {"while", "switch", "case", "default"} -> EndsOpen(Last(node.kids))
    [] OTHER -> FALSE

RuleNode(rule, kids) ==
  CASE rule[1] \in {"{", "Expr"} -> kids[1]
    [] rule[1] = "for" -> [Node("for", 0, SubSeq(kids, 1, 3)) EXCEPT !.next = <<kids[4]>>]
    [] OTHER -> Node(rule[1], 0, kids)

RECURSIVE Matches(_, _, _, _, _), Derived(_, _, _, _)

(* The trees of the phrases of one sort that are exactly s[a..b].           *)
Derived(sort, g, a, b) ==
  LET expr == IF a > b THEN {} ELSE g.chart[b - a + 1][a].expr
      decl == IF b = a + 1 /\ g.s[a] \in TypeSpecs /\ g.s[b] = ";" THEN {Node("DECL", a, <<>>)} ELSE {}
      none == IF a > b THEN {NULL} ELSE {}
      stmt == IF a > b THEN {}
              ELSE UNION {{RuleNode(rule, kids) :
                             kids \in {kids \in Matches(rule, 1, g, a, b) :
                                         Len(kids) = 3 /\ rule[1] = "if" => ~EndsOpen(kids[2])}} :
                            rule \in RulesAt(g.s[a])}
      (* Each item of a block is linked to the next, through the field that *)
      (* holds the body of a for.                                           *)
      Linked(x) == [x EXCEPT !.next = <<Sibling>>]
      Chained(x, rest) == IF rest.kids = <<>> THEN <<x>> ELSE <<Linked(x)>> \o rest.kids
  IN  CASE sort = "Expr" -> expr
        [] sort = "OptExpr" -> none \cup expr
        [] sort = "Decl" -> decl
        [] sort = "Clause" -> none \cup expr \cup decl
        [] sort = "Stmt" -> stmt
        [] sort = "Items" ->
             IF a > b THEN {Node("BLOCK", 0, <<>>)}
             ELSE UNION {{Node("BLOCK", 0, Chained(x, rest)) :
                            x \in Derived("Decl", g, a, k) \cup Derived("Stmt", g, a, k),
                            rest \in Derived("Items", g, k + 1, b)} : k \in a .. b}

(* The children of the parts i.. of a rule over s[a..b].                    *)
Matches(rule, i, g, a, b) ==
  IF i > Len(rule) THEN IF a > b THEN {<<>>} ELSE {}
  ELSE IF rule[i] \notin Phrase
  THEN IF a <= b /\ g.s[a] = rule[i] THEN Matches(rule, i + 1, g, a + 1, b) ELSE {}
  ELSE UNION {{<<x>> \o rest : x \in Derived(rule[i], g, a, k),
                               rest \in Matches(rule, i + 1, g, k + 1, b)} :
                k \in {k \in a - 1 .. b :
                         /\ i < Len(rule) => k < b /\ g.s[k + 1] = rule[i + 1]
                         /\ i = Len(rule) => k = b}}

Derivations(s) == Derived("Stmt", Grammar(s, TRUE), 1, Len(s))
-----------------------------------------------------------------------------
(* Whether some phrase of a sort begins with s[a..], s being all there is.  *)
RECURSIVE BeginsExpr(_, _, _), Begins(_, _, _), BeginsRule(_, _, _, _)

BeginsExpr(sort, g, a) ==
  LET n == Len(g.s)
      Is(x, y) == IF x > y THEN [expr |-> {}, cond |-> {}, level |-> <<{}>>, postfix |-> {}, primary |-> {}]
                  ELSE g.chart[y - x + 1][x]
      Binary(k) == \E w \in DOMAIN Strength : g.s[k] \in Strength[w]
  IN  \/ a > n
      \/ /\ sort = "expr"
         /\ \/ BeginsExpr("cond", g, a)
            \/ \E k \in Positions(g.s, a, n, {","}) :
                 Is(a, k - 1).expr # {} /\ BeginsExpr("cond", g, k + 1)
      \/ /\ sort = "cond"
         /\ \/ BeginsExpr("operands", g, a)
            \/ \E q \in Positions(g.s, a, n, {"?"}) :
                 /\ Is(a, q - 1).level[1] # {}
                 /\ \/ BeginsExpr("expr", g, q + 1)
                    \/ \E k \in Positions(g.s, q, n, {":"}) :
                         Is(q + 1, k - 1).expr # {} /\ BeginsExpr("cond", g, k + 1)
      \/ /\ sort = "operands"
         /\ \/ BeginsExpr("unary", g, a)
            \/ \E k \in a .. n :
                 Binary(k) /\ Is(a, k - 1).level[1] # {} /\ BeginsExpr("unary", g, k + 1)
      \/ /\ sort = "unary"
         /\ \/ Is(a, n).postfix # {}
            \/ g.s[a] \in PrefixOps /\ BeginsExpr("unary", g, a + 1)
            \/ g.s[a] = "(" /\ BeginsExpr("expr", g, a + 1)
            \/ \E k \in Positions(g.s, a, n, {"["}) :
                 (IF g.loop THEN Is(a, k - 1).postfix ELSE Is(a, k - 1).primary) # {} /\ BeginsExpr("expr", g, k + 1)

Begins(sort, g, a) ==
  \/ a > Len(g.s)
  \/ sort \in {"Expr", "OptExpr", "Clause"} /\ BeginsExpr("expr", g, a)
  \/ sort = "Clause" /\ a = Len(g.s) /\ g.s[a] \in TypeSpecs
  \/ sort = "Stmt" /\ \E rule \in RulesAt(g.s[a]) : BeginsRule(rule, 1, g, a)
  \/ /\ sort = "Items"
     /\ \/ Begins("Stmt", g, a)
        \/ a = Len(g.s) /\ g.s[a] \in TypeSpecs
        \/ \E k \in a .. Len(g.s) :
             Derived("Items", g, a, k) # {} /\ Begins("Items", g, k + 1)

BeginsRule(rule, i, g, a) ==
  \/ a > Len(g.s)
  \/ /\ i <= Len(rule)
     /\ IF rule[i] \in Phrase
        THEN \/ Begins(rule[i], g, a)
             \/ \E k \in a - 1 .. Len(g.s) :
                  Derived(rule[i], g, a, k) # {} /\ BeginsRule(rule, i + 1, g, k + 1)
        ELSE g.s[a] = rule[i] /\ BeginsRule(rule, i + 1, g, a + 1)

Kinds(tokens) == [i \in DOMAIN tokens |-> KindOf(tokens[i])]
-----------------------------------------------------------------------------
RECURSIVE Nodes(_), Leaves(_), AllLeaves(_), Pending(_)

Body(node) == IF node.next = <<Sibling>> THEN <<>> ELSE node.next
Nodes(node) == {node} \cup UNION {Nodes(x) : x \in ToSet(node.kids) \cup ToSet(Body(node))}

(* Nothing the grammar requires is missing, and no node is of the sorts the *)
(* grammar above leaves out: an assignment never has its operator, and the  *)
(* right side of a member access is never an identifier.                    *)
Hole(x) == x.kind \in {"NULL", "uninit"}
Optional(node) == IF node.kind \in {"return", "for"} THEN {NULL} ELSE {}
Complete(root) ==
  \A node \in Nodes(root) :
    /\ node.kind \notin {"ASSIGN", "ACCESS"}
    /\ \A x \in ToSet(node.kids) \ Optional(node) : ~Hole(x)
    /\ \A x \in ToSet(Body(node)) : ~Hole(x)

(* The tokens a node and what hangs on it refer to, in source order.        *)
Ref(t) == IF t = 0 THEN <<>> ELSE <<t>>
AllLeaves(nodes) ==
  IF nodes = <<>> THEN <<>> ELSE Leaves(Head(nodes)) \o AllLeaves(Tail(nodes))
Leaves(node) ==
  IF node.kind = "UNARY" \/ node.kids = <<>> THEN Ref(node.op) \o AllLeaves(node.kids)
  ELSE Leaves(Head(node.kids)) \o Ref(node.op) \o AllLeaves(Tail(node.kids) \o Body(node))

(* The same of the calls that have not returned.                            *)
Pending(calls) ==
  IF calls = <<>> THEN <<>>
  ELSE LET f == Head(calls)
           kind == IF f.proc = "unary" THEN "UNARY" ELSE f.proc
       IN  (IF f.proc = "decl" THEN <<>> ELSE Leaves(Node(kind, f.op, f.kids))) \o Pending(Tail(calls))

Refs == Pending(stack) \o Leaves(tree)
(* A statement with another one for its last, which is where a tree ends    *)
(* that misses its last statement.                                          *)
RECURSIVE WithLast(_, _)
WithLast(node, stmt) ==
  CASE node.kind \in {"if", "case", "default", "switch", "while"} ->
         [node EXCEPT !.kids = Append(Front(@), WithLast(Last(@), stmt))]
    [] node.kind = "for" -> [node EXCEPT !.next = <<WithLast(@[1], stmt)>>]
    [] OTHER -> stmt
-----------------------------------------------------------------------------
(* Every statement of the grammar gets the tree the grammar gives it:       *)
(* precedence, left associativity, the reach of conditionals and of         *)
(* parentheses, an else with the nearest if (parse_stmt and parse_*_expr).  *)
(* What parse_stmt returns without a hole in it is such a tree: nothing     *)
(* else is accepted, and nothing after the statement is used up.  The body  *)
(* that ends a statement may be missing, before the end of the file or      *)
(* another token that begins none; then the tree is right up to there: with *)
(* a break for the body it is that of the tokens with "break ;" after them. *)
TreesOfGrammar ==
  status = "done" =>
    LET kinds == Kinds(given)
        trees == Derivations(kinds)
        filled == WithLast(tree, Node("break", 0, <<>>))
    IN  /\ trees \subseteq {tree}
        /\ ~Hole(tree) /\ Complete(tree) => tree \in trees
        /\ tree = WithLast(tree, NULL) /\ Complete(filled) =>
             filled \in Derivations(kinds \o <<"break", ";">>)

(* All tokens but the end of the file.                                      *)
Text == SelectSeq([t \in Token |-> KindOf(t)], LAMBDA k : k # EOF)

Viable(loop) ==
  LET g == Grammar(Text, loop)
  IN  IF Len(Text) < Len(read) THEN Derived("Stmt", g, 1, Len(Text)) # {}
      ELSE Begins("Stmt", g, 1)

(* The parser gives up only where no statement of the grammar above goes    *)
(* on, one postfix operator per operand: at a token none has there, or at   *)
(* the end.  So nothing is refused that is made of what the code implements *)
(* of the grammar; what the header leaves out is, and a second postfix      *)
(* operator (455).                                                          *)
NoSentenceLost == status \in {"fatal", "crash"} => ~Viable(FALSE)

(* A statement is read to its end: the token looked at last, if the parser  *)
(* looked beyond the statement, does not continue it.                       *)
TakesAll == status = "done" /\ Complete(tree) /\ cache # 0 /\ KindOf(cache) # EOF => ~Viable(TRUE)

(* The nodes and the calls in progress refer to the tokens in the order of  *)
(* the source, each token from one place only, and to none that was freed   *)
(* except by a declaration, which keeps the specifier it has eaten.         *)
OwnedOnce ==
  LET refs == Refs
  IN  /\ \A i \in 1 .. Len(refs) - 1 : refs[i] < refs[i + 1]
      /\ \A i \in 1 .. Len(refs) : KindOf(refs[i]) \in TypeSpecs \/ refs[i] \in held

(* In an expression no token is lost either: what lexer_get gave out is in  *)
(* a node or freed.                                                         *)
NothingLost == status \in {"run", "done"} => held = ToSet(Refs)
-----------------------------------------------------------------------------
(* What a comment says and the code does not do.                            *)

(* parser.c:688, "unary-expression assign-operator assignment-expression":  *)
(* the operator of an assignment is an assignment operator.                 *)
AssignOperators ==
  status = "done" => \A node \in Nodes(tree) : node.kind = "ASSIGN" => KindOf(node.op) \in AssignOps
=============================================================================
