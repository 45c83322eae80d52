----------------------------- MODULE UnitProofs ------------------------------
(***************************************************************************)
(* Who has a token, for every input: src/parser.c hangs what lexer_get     *)
(* gave it into one node, or keeps it in one call; src/ast.c reads and     *)
(* frees it from there.  A tree has no size here: that a node owns tokens  *)
(* means that there is a set of trees, closed under the parts of a tree,   *)
(* in which each has its tokens among its node and its parts (Owns).       *)
(***************************************************************************)
EXTENDS Unit, ParserNestingProofs

-----------------------------------------------------------------------------
(* Trees: which tokens belong to which node                                 *)

IsNode(n) ==
  n = [kind |-> n.kind, op |-> n.op, kids |-> n.kids, next |-> n.next, paren |-> n.paren]

(* A tree and tokens that are its own.                                      *)
Owned(x, own) == [node |-> x, own |-> own]

(* The tokens S are those of op and of trees in a row, R[i] those of the    *)
(* i-th, and no token is two's; of the tokens X none is missing.            *)
Shares(kids, op, S, X, R) ==
  /\ kids \in Seq(Range(kids))
  /\ op \subseteq S
  /\ \A i \in 1 .. Len(kids) : R[i] \subseteq S \ op
  /\ \A i, j \in 1 .. Len(kids) : i # j => R[i] \cap R[j] = {}
  /\ \A t \in S \cap X : t \in op \/ \E i \in 1 .. Len(kids) : t \in R[i]

(* What ast_destroy leaves below a node has no parts, unless tokens may be  *)
(* missing; K are the kinds that are ruled out.                             *)
Shape(n, K, X) ==
  /\ IsNode(n) /\ n.kind \notin K
  /\ n.kind \in Operators \cup Conditionals \/ n.kids = <<>> \/ X = {}

Good(T, n, S, K, X) ==
  /\ Shape(n, K, X)
  /\ \E R : /\ Shares(n.kids, OwnToken(n), S, X, R)
            /\ \A i \in 1 .. Len(n.kids) : Owned(n.kids[i], R[i]) \in T
  /\ \/ n.next \in {<<>>, <<Sibling>>}
     \/ \E y, Q : n.next = <<y>> /\ Q \subseteq S /\ Owned(y, Q) \in T

(* The nodes of the tree below x are such nodes: it owns tokens S.          *)
Owns(x, S, K, X) ==
  \E T : Owned(x, S) \in T /\ \A s \in T : Good(T, s.node, s.own, K, X)

(* The two fields.                                                          *)
LEMMA OwnedFields ==
  \A x, S : Owned(x, S).node = x /\ Owned(x, S).own = S
  BY DEF Owned

(* What is true of a tree is true of its parts.                             *)
LEMMA OwnsParts ==
  ASSUME NEW x, NEW S, NEW K, NEW X, Owns(x, S, K, X)
  PROVE  /\ Shape(x, K, X)
         /\ \E R : /\ Shares(x.kids, OwnToken(x), S, X, R)
                   /\ \A i \in 1 .. Len(x.kids) : Owns(x.kids[i], R[i], K, X)
         /\ \/ x.next \in {<<>>, <<Sibling>>}
            \/ \E y, Q : x.next = <<y>> /\ Q \subseteq S /\ Owns(y, Q, K, X)
<1>1. PICK T : Owned(x, S) \in T /\ \A s \in T : Good(T, s.node, s.own, K, X)
  BY DEF Owns
<1>2. Good(T, x, S, K, X)
  BY <1>1, OwnedFields
<1>3. \A y, Q : Owned(y, Q) \in T => Owns(y, Q, K, X)
  BY <1>1 DEF Owns
<1> USE DEF Good
<1>4. Shape(x, K, X)
  BY <1>2
<1>5. PICK R : /\ Shares(x.kids, OwnToken(x), S, X, R)
               /\ \A i \in 1 .. Len(x.kids) : Owned(x.kids[i], R[i]) \in T
  BY <1>2, Zenon
<1>6. \/ x.next \in {<<>>, <<Sibling>>}
      \/ \E y, Q : x.next = <<y>> /\ Q \subseteq S /\ Owned(y, Q) \in T
  BY <1>2, Zenon
<1>7. \A i \in 1 .. Len(x.kids) : Owns(x.kids[i], R[i], K, X)
  BY <1>3, <1>5
<1>8. \/ x.next \in {<<>>, <<Sibling>>}
      \/ \E y, Q : x.next = <<y>> /\ Q \subseteq S /\ Owns(y, Q, K, X)
  BY <1>3, <1>6, Zenon
<1> HIDE DEF Good
<1> QED
  BY <1>4, <1>5, <1>7, <1>8

(* And a node over such trees is one.                                       *)
LEMMA OwnsMade ==
  ASSUME NEW x, NEW S, NEW K, NEW X, NEW R, Shape(x, K, X),
         Shares(x.kids, OwnToken(x), S, X, R),
         \A i \in 1 .. Len(x.kids) : Owns(x.kids[i], R[i], K, X),
         \/ x.next \in {<<>>, <<Sibling>>}
         \/ \E y, Q : x.next = <<y>> /\ Q \subseteq S /\ Owns(y, Q, K, X)
  PROVE  Owns(x, S, K, X)
<1> DEFINE Tree(T) == \A s \in T : Good(T, s.node, s.own, K, X)
           F == [i \in 1 .. Len(x.kids) |-> CHOOSE T : Owned(x.kids[i], R[i]) \in T /\ Tree(T)]
<1>1. \A i \in 1 .. Len(x.kids) : Owned(x.kids[i], R[i]) \in F[i] /\ Tree(F[i])
  BY Zenon DEF Owns
<1>2. \E B : /\ Tree(B)
             /\ \/ x.next \in {<<>>, <<Sibling>>}
                \/ \E y, Q : x.next = <<y>> /\ Q \subseteq S /\ Owned(y, Q) \in B
  <2>1. CASE x.next \in {<<>>, <<Sibling>>}
    <3>1. Tree({})
      OBVIOUS
    <3> HIDE DEF Tree
    <3> QED
      BY <2>1, <3>1
  <2>2. CASE \E y, Q : x.next = <<y>> /\ Q \subseteq S /\ Owns(y, Q, K, X)
    <3>1. PICK y, Q : x.next = <<y>> /\ Q \subseteq S /\ Owns(y, Q, K, X)
      BY <2>2
    <3>2. PICK B : Owned(y, Q) \in B /\ Tree(B)
      BY <3>1 DEF Owns
    <3> HIDE DEF Tree
    <3> QED
      BY <3>1, <3>2
  <2> QED
    BY <2>1, <2>2
<1>3. PICK B : /\ Tree(B)
               /\ \/ x.next \in {<<>>, <<Sibling>>}
                  \/ \E y, Q : x.next = <<y>> /\ Q \subseteq S /\ Owned(y, Q) \in B
  BY <1>2
<1> DEFINE V == UNION {F[i] : i \in 1 .. Len(x.kids)}
           U == {Owned(x, S)} \cup V \cup B
<1> HIDE DEF F
<1>4. \A s : s \in V <=> \E i \in 1 .. Len(x.kids) : s \in F[i]
  BY Zenon
<1> HIDE DEF V
<1>5. /\ \A i \in 1 .. Len(x.kids) : F[i] \subseteq U
      /\ B \subseteq U /\ Owned(x, S) \in U
      /\ \A s \in U : s = Owned(x, S) \/ s \in B \/ s \in V
  BY <1>4
<1> HIDE DEF U
<1>6. ASSUME NEW T, T \subseteq U, NEW n, NEW Q, Good(T, n, Q, K, X)
      PROVE  Good(U, n, Q, K, X)
  BY <1>6, Zenon DEF Good
<1>7. Good(U, x, S, K, X)
  <2>1. \/ x.next \in {<<>>, <<Sibling>>}
        \/ \E y, Q : x.next = <<y>> /\ Q \subseteq S /\ Owned(y, Q) \in U
    BY <1>3, <1>5
  <2>2. \A i \in 1 .. Len(x.kids) : Owned(x.kids[i], R[i]) \in U
    BY <1>1, <1>5
  <2> QED
    BY <2>1, <2>2, Zenon DEF Good
<1>8. ASSUME NEW s \in U PROVE Good(U, s.node, s.own, K, X)
  <2>1. CASE s = Owned(x, S)
    BY <1>7, <2>1, OwnedFields
  <2>2. CASE s \in B
    BY <1>3, <1>5, <1>6, <2>2
  <2>3. CASE \E i \in 1 .. Len(x.kids) : s \in F[i]
    BY <1>1, <1>5, <1>6, <2>3
  <2> QED
    BY <1>4, <1>5, <2>1, <2>2, <2>3
<1> QED
  BY <1>5, <1>8 DEF Owns

(* Less may be ruled out.                                                   *)
LEMMA OwnsLater ==
  ASSUME NEW x, NEW S, NEW K, NEW X, Owns(x, S, K, X),
         NEW L, L \subseteq K, NEW Y, Y \subseteq X
  PROVE  Owns(x, S, L, Y)
<1>1. PICK T : Owned(x, S) \in T /\ \A s \in T : Good(T, s.node, s.own, K, X)
  BY DEF Owns
<1>2. \A n : Shape(n, K, X) => Shape(n, L, Y)
  BY DEF Shape
<1>3. \A kids, op, Q, R : Shares(kids, op, Q, X, R) => Shares(kids, op, Q, Y, R)
  BY DEF Shares
<1>4. \A n, Q : Good(T, n, Q, K, X) => Good(T, n, Q, L, Y)
  BY <1>2, <1>3, Zenon DEF Good
<1> QED
  BY <1>1, <1>4, Zenon DEF Owns

(* A node with one field changed.                                           *)
LEMMA NodeChanged ==
  ASSUME NEW x, IsNode(x), NEW v
  PROVE  /\ [x EXCEPT !.next = v] =
              [kind |-> x.kind, op |-> x.op, kids |-> x.kids, next |-> v, paren |-> x.paren]
         /\ [x EXCEPT !.paren = v] =
              [kind |-> x.kind, op |-> x.op, kids |-> x.kids, next |-> x.next, paren |-> v]
  BY DEF IsNode

(* Where a node stands does not matter.                                     *)
LEMMA OwnsMarked ==
  ASSUME NEW x, NEW S, NEW K, NEW X, Owns(x, S, K, X)
  PROVE  /\ Owns([x EXCEPT !.next = <<Sibling>>], S, K, X)
         /\ Owns(Parenthesised(x), S, K, X)
<1>1. /\ Shape(x, K, X)
      /\ \/ x.next \in {<<>>, <<Sibling>>}
         \/ \E y, Q : x.next = <<y>> /\ Q \subseteq S /\ Owns(y, Q, K, X)
  BY OwnsParts
<1>2. PICK R : /\ Shares(x.kids, OwnToken(x), S, X, R)
               /\ \A i \in 1 .. Len(x.kids) : Owns(x.kids[i], R[i], K, X)
  BY OwnsParts
<1>3. ASSUME NEW z, IsNode(z), z.kind = x.kind, z.op = x.op, z.kids = x.kids,
             z.next \in {x.next, <<Sibling>>}
      PROVE  Owns(z, S, K, X)
  <2>1. Shape(z, K, X)
    BY <1>1, <1>3 DEF Shape
  <2>2. OwnToken(z) = OwnToken(x)
    BY <1>3 DEF OwnToken
  <2>3. \/ z.next \in {<<>>, <<Sibling>>}
        \/ \E y, Q : z.next = <<y>> /\ Q \subseteq S /\ Owns(y, Q, K, X)
    BY <1>1, <1>3, Zenon
  <2>4. /\ Shares(z.kids, OwnToken(z), S, X, R)
        /\ \A i \in 1 .. Len(z.kids) : Owns(z.kids[i], R[i], K, X)
    BY <1>2, <1>3, <2>2
  <2> QED
    BY <2>1, <2>3, <2>4, OwnsMade
<1>4. IsNode(x)
  BY <1>1 DEF Shape
<1>5. /\ [x EXCEPT !.next = <<Sibling>>] =
           [kind |-> x.kind, op |-> x.op, kids |-> x.kids, next |-> <<Sibling>>, paren |-> x.paren]
      /\ Parenthesised(x) =
           [kind |-> x.kind, op |-> x.op, kids |-> x.kids, next |-> x.next, paren |-> TRUE]
  BY <1>4, NodeChanged DEF Parenthesised
<1> DEFINE y == [x EXCEPT !.next = <<Sibling>>]
           z == Parenthesised(x)
<1>6. IsNode(y) /\ y.kind = x.kind /\ y.op = x.op /\ y.kids = x.kids /\ y.next = <<Sibling>>
  BY <1>5 DEF IsNode
<1>7. IsNode(z) /\ z.kind = x.kind /\ z.op = x.op /\ z.kids = x.kids /\ z.next = x.next
  BY <1>5 DEF IsNode
<1> HIDE DEF y, z
<1>8. Owns(y, S, K, X) /\ Owns(z, S, K, X)
  BY <1>3, <1>6, <1>7
<1> QED
  BY <1>8 DEF y, z
-----------------------------------------------------------------------------
(* Trees in a row: what a call has of its callees                           *)

Row(kids, op, S, K, X) ==
  \E R : /\ Shares(kids, op, S, X, R)
         /\ \A i \in 1 .. Len(kids) : Owns(kids[i], R[i], K, X)

(* None yet.                                                                *)
LEMMA RowNone ==
  \A S, X, K : (\A t \in S \cap X : FALSE) => Row(<<>>, {}, S, K, X)
<1> TAKE S, X, K
<1> SUFFICES ASSUME \A t \in S \cap X : FALSE PROVE Row(<<>>, {}, S, K, X)
  OBVIOUS
<1>1. Len(<<>>) = 0 /\ <<>> \in Seq(Range(<<>>))
  BY EmptySeq
<1>2. \A R : Shares(<<>>, {}, S, X, R)
  BY <1>1 DEF Shares
<1> QED
  BY <1>1, <1>2 DEF Row

(* Less may be ruled out.                                                   *)
LEMMA RowLater ==
  ASSUME NEW kids, NEW op, NEW S, NEW K, NEW X, Row(kids, op, S, K, X),
         NEW L, L \subseteq K, NEW Y, Y \subseteq X
  PROVE  Row(kids, op, S, L, Y)
<1>1. \A R : Shares(kids, op, S, X, R) => Shares(kids, op, S, Y, R)
  BY DEF Shares
<1>2. \A x, Q : Owns(x, Q, K, X) => Owns(x, Q, L, Y)
  BY OwnsLater
<1> QED
  BY <1>1, <1>2, Zenon DEF Row

(* A token is got: the operator.                                            *)
LEMMA RowOp ==
  ASSUME NEW kids, NEW S, NEW K, NEW X, Row(kids, {}, S, K, X), NEW G, S \cap G = {}
  PROVE  Row(kids, G, S \cup G, K, X)
<1>1. PICK R : /\ Shares(kids, {}, S, X, R)
               /\ \A i \in 1 .. Len(kids) : Owns(kids[i], R[i], K, X)
  BY DEF Row
<1>2. Shares(kids, G, S \cup G, X, R)
  BY <1>1 DEF Shares
<1> QED
  BY <1>1, <1>2, Zenon DEF Row

(* Tokens may be missing from S.                                            *)
LEMMA RowMore ==
  ASSUME NEW kids, NEW op, NEW S, NEW K, Row(kids, op, S, K, {}), NEW Q, S \subseteq Q,
         NEW o, o \subseteq op
  PROVE  Row(kids, o, Q, K, {})
<1>1. PICK R : /\ Shares(kids, op, S, {}, R)
               /\ \A i \in 1 .. Len(kids) : Owns(kids[i], R[i], K, {})
  BY DEF Row
<1>2. Shares(kids, o, Q, {}, R)
  BY <1>1 DEF Shares
<1> QED
  BY <1>1, <1>2, Zenon DEF Row

(* The same trees, but for where they stand.                                *)
LEMMA RowSame ==
  ASSUME NEW kids, NEW op, NEW S, NEW K, NEW X, Row(kids, op, S, K, X),
         NEW new, new \in Seq(Range(new)), Len(new) = Len(kids),
         \A i \in 1 .. Len(kids) : new[i] \in {kids[i], [kids[i] EXCEPT !.next = <<Sibling>>]}
  PROVE  Row(new, op, S, K, X)
<1>1. PICK R : /\ Shares(kids, op, S, X, R)
               /\ \A i \in 1 .. Len(kids) : Owns(kids[i], R[i], K, X)
  BY DEF Row
<1>2. Shares(new, op, S, X, R)
  BY <1>1 DEF Shares
<1>3. ASSUME NEW i \in 1 .. Len(new) PROVE Owns(new[i], R[i], K, X)
  <2>1. i \in 1 .. Len(kids) /\ Owns(kids[i], R[i], K, X)
    BY <1>1
  <2>2. Owns([kids[i] EXCEPT !.next = <<Sibling>>], R[i], K, X)
    BY <2>1, OwnsMarked
  <2>3. new[i] = kids[i] \/ new[i] = [kids[i] EXCEPT !.next = <<Sibling>>]
    BY <2>1
  <2> QED
    BY <2>1, <2>2, <2>3
<1> QED
  BY <1>2, <1>3 DEF Row

(* The first of them, when tokens may be missing.                           *)
LEMMA RowPrefix ==
  ASSUME NEW kids, NEW op, NEW S, NEW K, Row(kids, op, S, K, {}),
         NEW new, new \in Seq(Range(new)), NEW m \in Nat, m <= Len(kids), Len(new) = m,
         \A i \in 1 .. m : new[i] = kids[i]
  PROVE  Row(new, op, S, K, {})
<1>1. PICK R : /\ Shares(kids, op, S, {}, R)
               /\ \A i \in 1 .. Len(kids) : Owns(kids[i], R[i], K, {})
  BY DEF Row
<1>2. Len(kids) \in Nat
  BY <1>1, LenProperties DEF Shares
<1>3. \A i \in 1 .. Len(new) : i \in 1 .. Len(kids) /\ new[i] = kids[i]
  BY <1>2
<1>4. Shares(new, op, S, {}, R)
  BY <1>1, <1>3 DEF Shares
<1> QED
  BY <1>1, <1>3, <1>4 DEF Row

(* One more tree.                                                           *)
LEMMA RowAppend ==
  ASSUME NEW kids, NEW op, NEW S, NEW K, NEW X, Row(kids, op, S, K, X),
         NEW x, NEW Q, Owns(x, Q, K, X), S \cap Q = {}
  PROVE  Row(Append(kids, x), op, S \cup Q, K, X)
<1>1. PICK R : /\ Shares(kids, op, S, X, R)
               /\ \A i \in 1 .. Len(kids) : Owns(kids[i], R[i], K, X)
  BY DEF Row
<1>2. kids \in Seq(Range(kids))
  BY <1>1 DEF Shares
<1> DEFINE n == Len(kids)
           new == Append(kids, x)
           P == [i \in 1 .. n + 1 |-> IF i = n + 1 THEN Q ELSE R[i]]
<1>3. /\ n \in Nat /\ Len(new) = n + 1 /\ new[n + 1] = x /\ \A i \in 1 .. n : new[i] = kids[i]
      /\ new \in Seq(Range(new))
  <2>1. kids \in Seq(Range(kids) \cup {x}) /\ x \in Range(kids) \cup {x}
    BY <1>2, SeqMonotonic
  <2>2. new \in Seq(Range(kids) \cup {x})
    BY <2>1, AppendProperties
  <2>3. new \in Seq(Range(new))
    BY <2>2, SeqOfRange
  <2> QED
    BY <1>2, <2>3, Appended
<1> HIDE DEF new
<1>4. /\ P[n + 1] = Q /\ \A i \in 1 .. n : P[i] = R[i]
      /\ \A i : i \in 1 .. n + 1 <=> i \in 1 .. n \/ i = n + 1
  BY <1>3
<1> HIDE DEF n, P
<1>5. /\ op \subseteq S /\ \A i \in 1 .. n : R[i] \subseteq S \ op
      /\ \A i, j \in 1 .. n : i # j => R[i] \cap R[j] = {}
      /\ \A t \in S \cap X : t \in op \/ \E i \in 1 .. n : t \in R[i]
  BY <1>1 DEF Shares, n
<1>6. \A i \in 1 .. n + 1 : P[i] \subseteq (S \cup Q) \ op
  <2> TAKE i \in 1 .. n + 1
  <2>1. CASE i = n + 1
    BY <1>4, <1>5, <2>1
  <2>2. CASE i \in 1 .. n
    BY <1>4, <1>5, <2>2
  <2> QED
    BY <1>4, <2>1, <2>2
<1>7. \A i, j \in 1 .. n + 1 : i # j => P[i] \cap P[j] = {}
  <2>1. ASSUME NEW i \in 1 .. n PROVE P[i] \cap P[n + 1] = {}
    BY <1>4, <1>5
  <2>2. ASSUME NEW i \in 1 .. n, NEW j \in 1 .. n, i # j PROVE P[i] \cap P[j] = {}
    BY <1>4, <1>5, <2>2
  <2> QED
    BY <1>4, <2>1, <2>2, Zenon
<1>8. \A t \in (S \cup Q) \cap X : t \in op \/ \E i \in 1 .. n + 1 : t \in P[i]
  <2> TAKE t \in (S \cup Q) \cap X
  <2>1. CASE t \in Q
    BY <1>4, <2>1
  <2>2. CASE t \in S
    <3>1. t \in op \/ \E i \in 1 .. n : t \in P[i]
      BY <1>4, <1>5, <2>2
    <3> QED
      BY <1>4, <3>1
  <2> QED
    BY <2>1, <2>2
<1>9. Shares(new, op, S \cup Q, X, P)
  BY <1>3, <1>5, <1>6, <1>7, <1>8 DEF Shares, n
<1>10. \A i \in 1 .. Len(new) : Owns(new[i], P[i], K, X)
  BY <1>1, <1>3, <1>4 DEF n
<1> QED
  BY <1>9, <1>10 DEF Row, new

(* A tree stands for more tokens than it owns, if they may be missing.      *)
LEMMA OwnsMore ==
  ASSUME NEW x, NEW S, NEW K, NEW X, Owns(x, S, K, X), NEW Q, S \subseteq Q, Q \cap X \subseteq S
  PROVE  Owns(x, Q, K, X)
<1>1. /\ Shape(x, K, X)
      /\ \/ x.next \in {<<>>, <<Sibling>>}
         \/ \E y, P : x.next = <<y>> /\ P \subseteq S /\ Owns(y, P, K, X)
  BY OwnsParts
<1>2. PICK R : /\ Shares(x.kids, OwnToken(x), S, X, R)
               /\ \A i \in 1 .. Len(x.kids) : Owns(x.kids[i], R[i], K, X)
  BY OwnsParts
<1>3. Shares(x.kids, OwnToken(x), Q, X, R)
  BY <1>2 DEF Shares
<1>4. \/ x.next \in {<<>>, <<Sibling>>}
      \/ \E y, P : x.next = <<y>> /\ P \subseteq Q /\ Owns(y, P, K, X)
  BY <1>1, Zenon
<1> QED
  BY <1>1, <1>2, <1>3, <1>4, OwnsMade

(* One of them.                                                             *)
LEMMA RowKid ==
  ASSUME NEW kids, NEW op, NEW S, NEW K, NEW X, Row(kids, op, S, K, X), NEW i \in 1 .. Len(kids),
         X = {} \/ (Len(kids) = 1 /\ op = {})
  PROVE  Owns(kids[i], S, K, X)
<1>1. PICK R : /\ Shares(kids, op, S, X, R)
               /\ \A j \in 1 .. Len(kids) : Owns(kids[j], R[j], K, X)
  BY DEF Row
<1>2. R[i] \subseteq S
  BY <1>1 DEF Shares
<1>3. S \cap X \subseteq R[i]
  <2>1. CASE X = {}
    BY <2>1
  <2>2. CASE Len(kids) = 1 /\ op = {}
    <3>1. \A j \in 1 .. Len(kids) : j = i
      BY <2>2
    <3> QED
      BY <1>1, <2>2, <3>1 DEF Shares
  <2> QED
    BY <2>1, <2>2
<1> QED
  BY <1>1, <1>2, <1>3, OwnsMore

(* A node over them.                                                        *)
LEMMA RowNode ==
  ASSUME NEW kids, NEW op, NEW S, NEW K, NEW X, Row(kids, op, S, K, X), NEW x, IsNode(x),
         x.kids = kids, OwnToken(x) = op, x.kind \notin K,
         x.kind \in Operators \cup Conditionals \/ kids = <<>> \/ X = {},
         \/ x.next \in {<<>>, <<Sibling>>}
         \/ \E y : x.next = <<y>> /\ Owns(y, S, K, X)
  PROVE  Owns(x, S, K, X)
<1>1. PICK R : /\ Shares(kids, op, S, X, R)
               /\ \A j \in 1 .. Len(kids) : Owns(kids[j], R[j], K, X)
  BY DEF Row
<1>2. Shape(x, K, X)
  BY DEF Shape
<1>3. \/ x.next \in {<<>>, <<Sibling>>}
      \/ \E y, Q : x.next = <<y>> /\ Q \subseteq S /\ Owns(y, Q, K, X)
  BY Zenon
<1> QED
  BY <1>1, <1>2, <1>3, OwnsMade
-----------------------------------------------------------------------------
(* The calls in progress: what they own                                     *)

(* The operator token of a call, and the calls of which ast_destroy will    *)
(* leave the parts.                                                         *)
OpOf(f) == IF f.proc = "decl" THEN {} ELSE Some(f.op)
Losing == (DOMAIN Statement \ {"if", "break", "continue", "goto"}) \cup {"block"}

Holds(f, S, K, X) ==
  /\ Row(f.kids, OpOf(f), S, K, X)
  /\ f.proc \in Losing \/ f.at = "member" => X = {}

(* How many nodes a for has at each of its items.                           *)
ForKids == <<0, 0, 1, 1, 1, 2, 2, 3, 3, 4>>

(* How many nodes a call has, with the one of its callee, and when it has   *)
(* an operator.                                                             *)
Enough(f, k) ==
  /\ f.proc \in Calling /\ f.at = "look" => k = 1
  /\ f.at = "call" \/ (f.at = "look" /\ f.proc \in {"unary", "primary", "stmt"}) => k = 0
  /\ f.proc \in {"decl", "break", "continue", "goto"} => k = 0
  /\ f.proc = "primary" /\ f.at = "close" => k = 1
  /\ f.proc = "unary" /\ f.at = "pass" => k = 1
  /\ f.proc = "exprstmt" => k = IF f.i = 1 THEN 0 ELSE 1
  /\ f.proc = "for" => k = ForKids[f.i]
  /\ f.proc = "block" /\ f.at \in {"decl", "stmt"} => k # 0
  /\ f.op # 0 =>
       \/ f.proc = "decl"
       \/ f.at \in {"build", "close", "member"} /\ f.proc \in Levels \cup {"assign", "unary", "postfix"}

(* The tokens H are the calls', and no token is two calls'.                 *)
Parted(s, own, H, K, X) ==
  /\ \A i \in 1 .. Len(s) :
       /\ own[i] \subseteq H /\ Holds(s[i], own[i], K, X)
       /\ Enough(s[i], Len(s[i].kids) + IF i = Len(s) THEN 0 ELSE 1)
  /\ \A i, j \in 1 .. Len(s) : i # j => own[i] \cap own[j] = {}
  /\ \A t \in H : \E i \in 1 .. Len(s) : t \in own[i]

(* The kind that no node has unless the end of the file was handed out, and *)
(* the tokens none of which is missing.                                     *)
Ruled == IF EofIn(GivenKinds) THEN {} ELSE {"uninit"}
PlainIn(kinds) == \A i \in 1 .. Len(kinds) : kinds[i] \notin LeftTokens
Lossless == IF PlainIn(GivenKinds) THEN Nat ELSE {}

(* Without a source the end of the file is in the cache, or was handed out. *)
OwnTokens == sources = <<>> => IF cache = 0 THEN EofIn(GivenKinds) ELSE KindOf(cache) = EOF

(* Every token lexer_get returned is in one node or call; when the parser   *)
(* is done, its tree has them all.                                          *)
OwnCalls ==
  /\ status = "run" => \E own : Parted(stack, own, held, Ruled, Lossless)
  /\ status = "done" => Owns(tree, held, Ruled, Lossless)

OwnInv == OwnTokens /\ OwnCalls
-----------------------------------------------------------------------------
(* What a call of the lexer does                                            *)

(* The token it gave.                                                       *)
New == held' \ held

(* Less and less is ruled out.                                              *)
LEMMA RulesStep ==
  ASSUME ParserInv, LexerCall
  PROVE  Ruled' \subseteq Ruled /\ Lossless' \subseteq Lossless /\ held \subseteq held'
<1>1. held \subseteq held'
  BY DEF LexerCall, Peek, Get, Eat, streamVars
<1>2. GivenKinds' = GivenKinds \/ \E k : GivenKinds' = Append(GivenKinds, k)
  <2>1. CASE UNCHANGED streamVars \/ Peek
    BY <2>1, SameQuiet, PeekQuiet DEF Quiet
  <2>2. CASE \E t \in NextToken : Get(t) \/ Eat(t)
    <3>1. PICK t : Take(t)
      BY <2>2 DEF Get, Eat
    <3> QED
      BY <3>1, TakeKinds DEF Quiet, Takes
  <2> QED
    BY <2>1, <2>2 DEF LexerCall
<1>3. GivenKinds \in Seq(Range(GivenKinds))
  BY GivenFacts, SeqOfRange
<1>4. \A i \in 1 .. Len(GivenKinds) : i \in 1 .. Len(GivenKinds') /\ GivenKinds'[i] = GivenKinds[i]
  <2>1. ASSUME NEW k, GivenKinds' = Append(GivenKinds, k), NEW i \in 1 .. Len(GivenKinds)
        PROVE  i \in 1 .. Len(GivenKinds') /\ GivenKinds'[i] = GivenKinds[i]
    <3>1. /\ Len(GivenKinds) \in Nat /\ Len(GivenKinds') = Len(GivenKinds) + 1
          /\ GivenKinds'[i] = GivenKinds[i]
      BY <1>3, <2>1, Appended
    <3> QED
      BY <3>1
  <2> QED
    BY <1>2, <2>1
<1>5. EofIn(GivenKinds) => EofIn(GivenKinds')
  BY <1>4 DEF EofIn
<1>6. PlainIn(GivenKinds') => PlainIn(GivenKinds)
  BY <1>4 DEF PlainIn
<1>7. Ruled' = (IF EofIn(GivenKinds') THEN {} ELSE {"uninit"})
  BY DEF Ruled
<1>8. Lossless' = (IF PlainIn(GivenKinds') THEN Nat ELSE {})
  BY DEF Lossless
<1> QED
  BY <1>1, <1>5, <1>6, <1>7, <1>8 DEF Ruled, Lossless

(* A token that lexer_get returns was not held.                             *)
LEMMA GotNew ==
  ASSUME ParserInv
  PROVE  /\ \A t : Get(t) => New = Some(t)
         /\ \A t : Eat(t) => New = {}
         /\ UNCHANGED streamVars => New = {}
         /\ Peek => New = {}
<1>1. ASSUME NEW t, Get(t) PROVE New = Some(t)
  <2>1. t = 0 \/ t = Len(given) + 1
    <3>1. ASSUME sources # <<>> /\ ~ (t = 0 /\ UNCHANGED <<cache, read, given>>)
          PROVE  t = Len(given) + 1
      BY <1>1, <3>1, TakeResult DEF ParserInv, Get
    <3>2. Take(t)
      BY <1>1 DEF Get
    <3>3. t = 0 \/ (t # 0 /\ sources # <<>>)
      BY <3>2, TakeKinds DEF Takes
    <3> QED
      BY <3>1, <3>3
  <2>2. held \subseteq 1 .. Len(given) /\ Len(given) \in Nat
    <3>1. Accounted
      BY DEF ParserInv, StreamInv
    <3> QED
      BY <3>1, GivenFacts DEF ParserInv, Accounted
  <2>3. Some(t) \cap held = {}
    BY <2>1, <2>2 DEF Some
  <2>4. held' = held \cup Some(t)
    BY <1>1 DEF Get
  <2> QED
    BY <2>3, <2>4 DEF New
<1> QED
  BY <1>1 DEF New, Eat, Peek, streamVars

(* A token that stands for something ast_destroy will leave.                *)
LEMMA TakenRules ==
  ASSUME ParserInv, NEW t, Take(t), t # 0, read'[t].kind \in LeftTokens
  PROVE  Lossless' = {}
<1>1. GivenKinds' = Append(GivenKinds, read'[t].kind)
  BY TakeKinds DEF Takes
<1>2. GivenKinds \in Seq(Range(GivenKinds))
  BY GivenFacts, SeqOfRange
<1>3. /\ Len(GivenKinds) \in Nat /\ Len(GivenKinds') = Len(GivenKinds) + 1
      /\ GivenKinds'[Len(GivenKinds) + 1] = read'[t].kind
  BY <1>1, <1>2, Appended
<1>4. ~ PlainIn(GivenKinds')
  BY <1>3 DEF PlainIn
<1> QED
  BY <1>4 DEF Lossless

(* The same, of a lookahead that is taken.                                  *)
LEMMA LookRules ==
  ASSUME ParserInv, Take(cache), Look \in LeftTokens
  PROVE  Lossless' = {}
<1>1. cache # 0 /\ Look = KindOf(cache)
  BY DEF Look, LeftTokens, Loops
<1>2. UNCHANGED read
  BY <1>1, TakeKinds
<1> QED
  BY <1>1, <1>2, TakenRules DEF KindOf
-----------------------------------------------------------------------------
(* What a step does to the calls                                            *)

(* The innermost call owns the tokens S.                                    *)
TopHolds(S) ==
  /\ Holds(Top, S, Ruled', Lossless') /\ Enough(Top, Len(Top.kids))
  /\ S \cap New = {} /\ S \subseteq held

(* It goes on, calls, returns or fails, and what the lexer gave it is its   *)
(* own or its callee's.                                                     *)
OwnMove(S) ==
  \/ \E f : /\ Become(f)
            /\ Holds(f, S \cup New, Ruled', Lossless') /\ Enough(f, Len(f.kids))
  \/ \E f, proc :
       /\ Call(proc, f) /\ proc \in Startable
       /\ Holds(f, S \cup New, Ruled', Lossless') /\ Enough(f, Len(f.kids) + 1)
  \/ \E node : Return(node) /\ Owns(node, S \cup New, Ruled', Lossless')
  \/ \E how \in {"fatal", "crash"} : Stop(how)

(* A function that is called owns nothing yet.                              *)
LEMMA StartHolds ==
  ASSUME NEW proc \in Startable, NEW K, NEW X
  PROVE  Holds(Start(proc), {}, K, X) /\ Enough(Start(proc), 0)
<1> DEFINE c == Start(proc)
<1>1. /\ c.proc = proc /\ c.kids = <<>> /\ c.op = 0
      /\ c.at = IF proc \in Calling THEN "call" ELSE "look"
  BY DEF Start, Frame, Calling
<1>2. /\ proc \notin Losing /\ proc \notin {"break", "continue", "goto", "exprstmt", "for", "block"}
      /\ c.at # "member"
  BY <1>1, StatementDomain, CalleeDomain DEF Startable, Losing
<1> HIDE DEF c
<1>3. OpOf(c) = {}
  BY <1>1 DEF OpOf, Some
<1>4. Row(<<>>, {}, {}, K, X)
  BY RowNone
<1>5. Holds(c, {}, K, X)
  BY <1>1, <1>2, <1>3, <1>4 DEF Holds
<1>6. Enough(c, 0)
  BY <1>1, <1>2 DEF Enough
<1> QED
  BY <1>5, <1>6 DEF c

(* What the calls own, under the rules of the next state.                   *)
LEMMA HoldsLater ==
  ASSUME NEW f, NEW S, NEW K, NEW X, Holds(f, S, K, X), NEW L, L \subseteq K, NEW Y, Y \subseteq X
  PROVE  Holds(f, S, L, Y)
<1>1. Row(f.kids, OpOf(f), S, L, Y)
  BY RowLater DEF Holds
<1> QED
  BY <1>1 DEF Holds

(* What the innermost call has.                                             *)
LEMMA PartedTop ==
  ASSUME ParserInv, StackInv, LexerCall, stack # <<>>,
         NEW own, Parted(stack, own, held, Ruled, Lossless)
  PROVE  /\ Len(stack) \in Nat \ {0} /\ Len(read) \in Nat
         /\ Top = stack[Len(stack)] /\ TopHolds(own[Len(stack)])
         /\ \A i \in 1 .. Len(stack) : Holds(stack[i], own[i], Ruled', Lossless')
<1>1. /\ stack \in Seq(Range(stack)) /\ Len(stack) \in Nat \ {0} /\ Top = stack[Len(stack)]
      /\ Len(read) \in Nat
  BY GivenFacts, EmptySeq DEF StackInv, StackFits, Top
<1>2. Ruled' \subseteq Ruled /\ Lossless' \subseteq Lossless
  BY RulesStep
<1>3. \A i \in 1 .. Len(stack) : Holds(stack[i], own[i], Ruled', Lossless')
  BY <1>2, HoldsLater DEF Parted
<1> DEFINE n == Len(stack)
           S == own[n]
<1>4. n \in 1 .. n
  BY <1>1
<1>5. /\ S \subseteq held
      /\ Enough(stack[n], Len(stack[n].kids) + IF n = Len(stack) THEN 0 ELSE 1)
  BY <1>4 DEF Parted
<1>6. Enough(Top, Len(Top.kids))
  <2>1. Len(Top.kids) \in Nat
    <3>1. PICK R : Shares(Top.kids, OpOf(Top), S, Lossless', R)
      BY <1>1, <1>3, <1>4 DEF Holds, Row
    <3> QED
      BY <3>1, LenProperties DEF Shares
  <2>2. Len(Top.kids) + (IF n = Len(stack) THEN 0 ELSE 1) = Len(Top.kids)
    BY <2>1
  <2> QED
    BY <1>1, <1>5, <2>2
<1>7. S \cap New = {}
  BY <1>5 DEF New
<1> QED
  BY <1>1, <1>3, <1>4, <1>5, <1>6, <1>7 DEF TopHolds

(* The number of nodes of a call.                                           *)
LEMMA HoldsKids ==
  ASSUME NEW f, NEW S, NEW K, NEW X, Holds(f, S, K, X)
  PROVE  f.kids \in Seq(Range(f.kids)) /\ Len(f.kids) \in Nat
<1>1. PICK R : Shares(f.kids, OpOf(f), S, X, R)
  BY DEF Holds, Row
<1> QED
  BY <1>1, LenProperties DEF Shares

(* All of the calls.                                                        *)
LEMMA PartedParts ==
  ASSUME ParserInv, StackInv, LexerCall, stack # <<>>,
         NEW own, Parted(stack, own, held, Ruled, Lossless),
         NEW n \in Nat \ {0}, Len(stack) = n
  PROVE  /\ \A i \in 1 .. n : own[i] \subseteq held /\ Holds(stack[i], own[i], Ruled', Lossless')
         /\ \A i \in 1 .. n - 1 : Enough(stack[i], Len(stack[i].kids) + 1)
         /\ \A i, j \in 1 .. n : i # j => own[i] \cap own[j] = {}
         /\ \A t \in held : \E i \in 1 .. n : t \in own[i]
<1>1. \A i \in 1 .. n : Holds(stack[i], own[i], Ruled', Lossless')
  BY PartedTop
<1>2. /\ \A i \in 1 .. n : own[i] \subseteq held
      /\ \A i, j \in 1 .. n : i # j => own[i] \cap own[j] = {}
      /\ \A t \in held : \E i \in 1 .. n : t \in own[i]
  BY DEF Parted
<1>3. \A i \in 1 .. n - 1 : Enough(stack[i], Len(stack[i].kids) + 1)
  <2> TAKE i \in 1 .. n - 1
  <2>1. i \in 1 .. Len(stack) /\ i # Len(stack)
    OBVIOUS
  <2> QED
    BY <2>1 DEF Parted
<1> QED
  BY <1>1, <1>2, <1>3

(* The innermost call goes on.                                              *)
LEMMA BecomeOwns ==
  ASSUME ParserInv, StackInv, LexerCall, stack # <<>>,
         NEW own, Parted(stack, own, held, Ruled, Lossless),
         NEW f, Become(f), Holds(f, own[Len(stack)] \cup New, Ruled', Lossless'),
         Enough(f, Len(f.kids))
  PROVE  \E o : Parted(stack', o, held', Ruled', Lossless')
<1>0. Len(read) \in Nat
  BY PartedTop
<1>1. PICK n \in Nat \ {0} :
        /\ Len(stack) = n /\ Top = stack[n]
        /\ Len(stack') = n /\ stack'[n] = f /\ Top' = f /\ status' = status
        /\ \A i \in 1 .. n - 1 : stack'[i] = stack[i]
  BY <1>0, BecomeStack
<1> DEFINE o == [i \in 1 .. n |-> IF i = n THEN own[n] \cup New ELSE own[i]]
<1>2. /\ o[n] = own[n] \cup New /\ \A i \in 1 .. n - 1 : o[i] = own[i]
      /\ \A i : i \in 1 .. n <=> i \in 1 .. n - 1 \/ i = n
      /\ n \notin 1 .. n - 1
  OBVIOUS
<1> HIDE DEF o
<1>3. held' = held \cup New
  BY RulesStep DEF New
<1>4. /\ \A i \in 1 .. n : own[i] \subseteq held /\ Holds(stack[i], own[i], Ruled', Lossless')
      /\ \A i \in 1 .. n - 1 : Enough(stack[i], Len(stack[i].kids) + 1)
      /\ \A i, j \in 1 .. n : i # j => own[i] \cap own[j] = {}
      /\ \A t \in held : \E i \in 1 .. n : t \in own[i]
  BY <1>1, PartedParts
<1>5. ASSUME NEW i \in 1 .. n
      PROVE  /\ o[i] \subseteq held' /\ Holds(stack'[i], o[i], Ruled', Lossless')
             /\ Enough(stack'[i], Len(stack'[i].kids) + IF i = n THEN 0 ELSE 1)
  <2>1. CASE i = n
    <3>1. Len(f.kids) + (IF i = n THEN 0 ELSE 1) = Len(f.kids)
      BY <2>1, HoldsKids
    <3>2. own[n] \cup New \subseteq held'
      BY <1>2, <1>3, <1>4
    <3> QED
      BY <1>1, <1>2, <2>1, <3>1, <3>2
  <2>2. CASE i \in 1 .. n - 1
    <3>1. i # n
      BY <1>2, <2>2
    <3> QED
      BY <1>1, <1>2, <1>3, <1>4, <2>2, <3>1
  <2> QED
    BY <1>2, <2>1, <2>2
<1>6. \A i, j \in 1 .. n : i # j => o[i] \cap o[j] = {}
  <2>1. ASSUME NEW i \in 1 .. n - 1 PROVE o[i] \cap o[n] = {}
    BY <1>2, <1>4 DEF New
  <2>2. ASSUME NEW i \in 1 .. n - 1, NEW j \in 1 .. n - 1, i # j PROVE o[i] \cap o[j] = {}
    BY <1>2, <1>4, <2>2
  <2> QED
    BY <1>2, <2>1, <2>2, Zenon
<1>7. \A t \in held' : \E i \in 1 .. n : t \in o[i]
  <2> TAKE t \in held'
  <2>1. CASE t \in New
    BY <1>2, <2>1
  <2>2. CASE t \in held
    <3>1. PICK i \in 1 .. n : t \in own[i]
      BY <1>4, <2>2
    <3> QED
      BY <1>2, <3>1
  <2> QED
    BY <1>3, <2>1, <2>2
<1> QED
  BY <1>1, <1>5, <1>6, <1>7 DEF Parted

(* It goes on and calls.                                                    *)
LEMMA CallOwns ==
  ASSUME ParserInv, StackInv, LexerCall, stack # <<>>,
         NEW own, Parted(stack, own, held, Ruled, Lossless),
         NEW f, NEW proc \in Startable, Call(proc, f),
         Holds(f, own[Len(stack)] \cup New, Ruled', Lossless'), Enough(f, Len(f.kids) + 1)
  PROVE  \E o : Parted(stack', o, held', Ruled', Lossless')
<1>0. Len(read) \in Nat
  BY PartedTop
<1> DEFINE c == Start(proc)
<1>1. PICK n \in Nat \ {0} :
        /\ Len(stack) = n /\ Top = stack[n]
        /\ Len(stack') = n + 1 /\ stack'[n] = f /\ stack'[n + 1] = c
        /\ \A i \in 1 .. n - 1 : stack'[i] = stack[i]
  BY <1>0, CallStack
<1>2. Holds(c, {}, Ruled', Lossless') /\ Enough(c, 0) /\ c.kids = <<>>
  <2>1. c.kids = <<>>
    BY DEF Start, Frame
  <2> QED
    BY <2>1, StartHolds
<1> HIDE DEF c
<1> DEFINE o == [i \in 1 .. n + 1 |->
                  IF i = n + 1 THEN {} ELSE IF i = n THEN own[n] \cup New ELSE own[i]]
<1>3. /\ o[n + 1] = {} /\ o[n] = own[n] \cup New /\ \A i \in 1 .. n - 1 : o[i] = own[i]
      /\ \A i : i \in 1 .. n + 1 <=> i \in 1 .. n - 1 \/ i = n \/ i = n + 1
      /\ \A i : i \in 1 .. n <=> i \in 1 .. n - 1 \/ i = n
      /\ n \notin 1 .. n - 1 /\ n + 1 \notin 1 .. n - 1 /\ n # n + 1
  OBVIOUS
<1> HIDE DEF o
<1>4. held' = held \cup New
  BY RulesStep DEF New
<1>5. /\ \A i \in 1 .. n : own[i] \subseteq held /\ Holds(stack[i], own[i], Ruled', Lossless')
      /\ \A i \in 1 .. n - 1 : Enough(stack[i], Len(stack[i].kids) + 1)
      /\ \A i, j \in 1 .. n : i # j => own[i] \cap own[j] = {}
      /\ \A t \in held : \E i \in 1 .. n : t \in own[i]
  BY <1>1, PartedParts
<1>6. ASSUME NEW i \in 1 .. n + 1
      PROVE  /\ o[i] \subseteq held' /\ Holds(stack'[i], o[i], Ruled', Lossless')
             /\ Enough(stack'[i], Len(stack'[i].kids) + IF i = n + 1 THEN 0 ELSE 1)
  <2>1. CASE i = n + 1
    <3>1. Len(c.kids) + (IF i = n + 1 THEN 0 ELSE 1) = 0
      BY <1>2, <2>1
    <3> QED
      BY <1>1, <1>2, <1>3, <2>1, <3>1
  <2>2. CASE i = n
    <3>1. own[n] \cup New \subseteq held'
      BY <1>3, <1>4, <1>5
    <3> QED
      BY <1>1, <1>3, <2>2, <3>1
  <2>3. CASE i \in 1 .. n - 1
    <3>1. i # n + 1
      BY <1>3, <2>3
    <3> QED
      BY <1>1, <1>3, <1>4, <1>5, <2>3, <3>1
  <2> QED
    BY <1>3, <2>1, <2>2, <2>3
<1>7. \A i, j \in 1 .. n + 1 : i # j => o[i] \cap o[j] = {}
  <2>1. ASSUME NEW i \in 1 .. n - 1 PROVE o[i] \cap o[n] = {}
    BY <1>3, <1>5 DEF New
  <2>2. ASSUME NEW i \in 1 .. n - 1, NEW j \in 1 .. n - 1, i # j PROVE o[i] \cap o[j] = {}
    BY <1>3, <1>5, <2>2
  <2>3. \A i : o[i] \cap o[n + 1] = {} /\ o[n + 1] \cap o[i] = {}
    BY <1>3
  <2> QED
    BY <1>3, <2>1, <2>2, <2>3, Zenon
<1>8. \A t \in held' : \E i \in 1 .. n + 1 : t \in o[i]
  <2> TAKE t \in held'
  <2>1. CASE t \in New
    BY <1>3, <2>1
  <2>2. CASE t \in held
    <3>1. PICK i \in 1 .. n : t \in own[i]
      BY <1>5, <2>2
    <3> QED
      BY <1>3, <3>1
  <2> QED
    BY <1>4, <2>1, <2>2
<1> QED
  BY <1>1, <1>6, <1>7, <1>8 DEF Parted

(* What a caller has does not change when it gets a node, but for the node. *)
LEMMA GotNode ==
  ASSUME NEW c, NEW S, NEW K, NEW X, Holds(c, S, K, X), Enough(c, Len(c.kids) + 1),
         NEW node, NEW Q, Owns(node, Q, K, X), S \cap Q = {},
         NEW d, d.proc = c.proc, d.at = c.at, d.i = c.i, d.op = c.op, d.kids = Append(c.kids, node)
  PROVE  Holds(d, S \cup Q, K, X) /\ Enough(d, Len(d.kids))
<1>1. Row(d.kids, OpOf(c), S \cup Q, K, X)
  BY RowAppend DEF Holds
<1>2. OpOf(d) = OpOf(c)
  BY DEF OpOf
<1>3. Len(d.kids) = Len(c.kids) + 1
  BY HoldsKids, Appended
<1>4. Holds(d, S \cup Q, K, X)
  BY <1>1, <1>2 DEF Holds
<1>5. Enough(d, Len(c.kids) + 1)
  BY DEF Enough
<1> QED
  BY <1>3, <1>4, <1>5

(* It returns a node.                                                       *)
LEMMA ReturnOwns ==
  ASSUME ParserInv, StackInv, LexerCall, stack # <<>>,
         NEW own, Parted(stack, own, held, Ruled, Lossless),
         NEW node, Return(node), Owns(node, own[Len(stack)] \cup New, Ruled', Lossless')
  PROVE  \/ stack' = <<>> /\ status' = "done" /\ Owns(tree', held', Ruled', Lossless')
         \/ status' = status /\ \E o : Parted(stack', o, held', Ruled', Lossless')
<1>0. Len(read) \in Nat
  BY PartedTop
<1>1. PICK n \in Nat :
        /\ Len(stack) = n + 1 /\ Top = stack[n + 1]
        /\ n = 0 => stack' = <<>> /\ status' = "done" /\ tree' = node
        /\ n > 0 =>
             /\ Len(stack') = n /\ status' = status
             /\ stack'[n].proc = stack[n].proc /\ stack'[n].at = stack[n].at
             /\ stack'[n].i = stack[n].i /\ stack'[n].kids = Append(stack[n].kids, node)
             /\ stack'[n].op = stack[n].op
             /\ \A i \in 1 .. n - 1 : stack'[i] = stack[i]
  BY <1>0, ReturnStack
<1>2. n + 1 \in Nat \ {0} /\ n + 1 - 1 = n
  OBVIOUS
<1>3. /\ \A i \in 1 .. n + 1 : own[i] \subseteq held /\ Holds(stack[i], own[i], Ruled', Lossless')
      /\ \A i \in 1 .. n : Enough(stack[i], Len(stack[i].kids) + 1)
      /\ \A i, j \in 1 .. n + 1 : i # j => own[i] \cap own[j] = {}
      /\ \A t \in held : \E i \in 1 .. n + 1 : t \in own[i]
  BY <1>1, <1>2, PartedParts
<1>4. held' = held \cup New
  BY RulesStep DEF New
<1>5. CASE n = 0
  <2>1. own[1] = held
    <3>1. \A i \in 1 .. n + 1 : i = 1
      BY <1>5
    <3>2. 1 \in 1 .. n + 1
      BY <1>5
    <3> QED
      BY <1>3, <3>1, <3>2
  <2>2. own[Len(stack)] \cup New = held'
    <3>1. Len(stack) = 1
      BY <1>1, <1>5
    <3> QED
      BY <1>4, <2>1, <3>1
  <2> QED
    BY <1>1, <1>5, <2>2
<1>6. CASE n > 0
  <2> DEFINE o == [i \in 1 .. n |-> IF i = n THEN own[n] \cup (own[n + 1] \cup New) ELSE own[i]]
  <2>1. /\ o[n] = own[n] \cup (own[n + 1] \cup New) /\ \A i \in 1 .. n - 1 : o[i] = own[i]
        /\ \A i : i \in 1 .. n <=> i \in 1 .. n - 1 \/ i = n
        /\ \A i : i \in 1 .. n + 1 <=> i \in 1 .. n - 1 \/ i = n \/ i = n + 1
        /\ n \notin 1 .. n - 1 /\ n + 1 \notin 1 .. n - 1 /\ n # n + 1
    BY <1>6
  <2> HIDE DEF o
  <2>2. own[n] \cap (own[n + 1] \cup New) = {}
    BY <1>3, <2>1 DEF New
  <2>3. Owns(node, own[n + 1] \cup New, Ruled', Lossless')
    BY <1>1
  <2>4. Holds(stack[n], own[n], Ruled', Lossless') /\ Enough(stack[n], Len(stack[n].kids) + 1)
    BY <1>3, <2>1
  <2>5. Holds(stack'[n], o[n], Ruled', Lossless') /\ Enough(stack'[n], Len(stack'[n].kids))
    <3>1. /\ stack'[n].proc = stack[n].proc /\ stack'[n].at = stack[n].at
          /\ stack'[n].i = stack[n].i /\ stack'[n].kids = Append(stack[n].kids, node)
          /\ stack'[n].op = stack[n].op
      BY <1>1, <1>6
    <3>2. /\ Holds(stack'[n], own[n] \cup (own[n + 1] \cup New), Ruled', Lossless')
          /\ Enough(stack'[n], Len(stack'[n].kids))
      BY <2>2, <2>3, <2>4, <3>1, GotNode
    <3> QED
      BY <2>1, <3>2
  <2>6. ASSUME NEW i \in 1 .. n
        PROVE  /\ o[i] \subseteq held' /\ Holds(stack'[i], o[i], Ruled', Lossless')
               /\ Enough(stack'[i], Len(stack'[i].kids) + IF i = n THEN 0 ELSE 1)
    <3>1. CASE i = n
      <4>1. Len(stack'[i].kids) + (IF i = n THEN 0 ELSE 1) = Len(stack'[i].kids)
        BY <2>5, <3>1, HoldsKids
      <4>2. o[n] \subseteq held'
        BY <1>3, <1>4, <2>1
      <4> QED
        BY <2>5, <3>1, <4>1, <4>2
    <3>2. CASE i \in 1 .. n - 1
      <4>1. i # n
        BY <2>1, <3>2
      <4> QED
        BY <1>1, <1>3, <1>4, <1>6, <2>1, <3>2, <4>1
    <3> QED
      BY <2>1, <3>1, <3>2
  <2>7. \A i, j \in 1 .. n : i # j => o[i] \cap o[j] = {}
    <3>1. ASSUME NEW i \in 1 .. n - 1 PROVE o[i] \cap o[n] = {}
      <4>1. /\ own[i] \cap own[n] = {} /\ own[i] \cap own[n + 1] = {} /\ own[i] \subseteq held
        BY <1>3, <2>1
      <4> QED
        BY <2>1, <4>1 DEF New
    <3>2. ASSUME NEW i \in 1 .. n - 1, NEW j \in 1 .. n - 1, i # j PROVE o[i] \cap o[j] = {}
      BY <1>3, <2>1, <3>2
    <3> QED
      BY <2>1, <3>1, <3>2, Zenon
  <2>8. \A t \in held' : \E i \in 1 .. n : t \in o[i]
    <3> TAKE t \in held'
    <3>1. CASE t \in New
      BY <2>1, <3>1
    <3>2. CASE t \in held
      <4>1. PICK i \in 1 .. n + 1 : t \in own[i]
        BY <1>3, <3>2
      <4> QED
        BY <2>1, <4>1
    <3> QED
      BY <1>4, <3>1, <3>2
  <2>9. Len(stack') = n /\ status' = status
    BY <1>1, <1>6
  <2>10. Parted(stack', o, held', Ruled', Lossless')
    BY <2>6, <2>7, <2>8, <2>9 DEF Parted
  <2> QED
    BY <2>9, <2>10
<1> QED
  BY <1>5, <1>6

(* Each of them leaves every token with its owner.                          *)
LEMMA MoveOwns ==
  ASSUME ParserInv, StackInv, LexerCall, stack # <<>>, status = "run",
         NEW own, Parted(stack, own, held, Ruled, Lossless), OwnMove(own[Len(stack)])
  PROVE  OwnCalls'
<1> DEFINE S == own[Len(stack)]
<1>1. ASSUME NEW f, Become(f), Holds(f, S \cup New, Ruled', Lossless'), Enough(f, Len(f.kids))
      PROVE  OwnCalls'
  <2>1. status' = "run" /\ \E o : Parted(stack', o, held', Ruled', Lossless')
    BY <1>1, BecomeOwns DEF Become
  <2> QED
    BY <2>1 DEF OwnCalls
<1>2. ASSUME NEW f, NEW proc \in Startable, Call(proc, f),
             Holds(f, S \cup New, Ruled', Lossless'), Enough(f, Len(f.kids) + 1)
      PROVE  OwnCalls'
  <2>1. status' = "run" /\ \E o : Parted(stack', o, held', Ruled', Lossless')
    BY <1>2, CallOwns DEF Call
  <2> QED
    BY <2>1 DEF OwnCalls
<1>3. ASSUME NEW node, Return(node), Owns(node, S \cup New, Ruled', Lossless')
      PROVE  OwnCalls'
  <2>1. \/ status' = "done" /\ Owns(tree', held', Ruled', Lossless')
        \/ status' = "run" /\ \E o : Parted(stack', o, held', Ruled', Lossless')
    BY <1>3, ReturnOwns
  <2> QED
    BY <2>1 DEF OwnCalls
<1>4. ASSUME NEW how \in {"fatal", "crash"}, Stop(how)
      PROVE  OwnCalls'
  BY <1>4 DEF OwnCalls, Stop
<1> HIDE DEF S
<1>5. OwnMove(S)
  BY DEF S
<1> QED
  BY <1>1, <1>2, <1>3, <1>4, <1>5, Zenon DEF OwnMove
-----------------------------------------------------------------------------
(* What each function does to the calls                                     *)

(* The four things a step does to the calls.                                *)
LEMMA OwnMoves ==
  ASSUME NEW S
  PROVE  /\ \A f : /\ Become(f)
                   /\ Holds(f, S \cup New, Ruled', Lossless') /\ Enough(f, Len(f.kids))
                   => OwnMove(S)
         /\ \A f, proc :
              /\ Call(proc, f) /\ proc \in Startable
              /\ Holds(f, S \cup New, Ruled', Lossless') /\ Enough(f, Len(f.kids) + 1)
              => OwnMove(S)
         /\ \A node : Return(node) /\ Owns(node, S \cup New, Ruled', Lossless') => OwnMove(S)
         /\ Stop("fatal") \/ Stop("crash") => OwnMove(S)
  BY DEF OwnMove

FrameIs(f, proc, at, i, kids, op) ==
  f.proc = proc /\ f.at = at /\ f.i = i /\ f.kids = kids /\ f.op = op

(* The frames the innermost call goes on as.                                *)
LEMMA FrameFields ==
  ASSUME NEW m, Fits(Top, m)
  PROVE  /\ \A p : FrameIs(At(p), Top.proc, p, Top.i, Top.kids, Top.op)
         /\ \A p, x : FrameIs([At(p) EXCEPT !.op = x], Top.proc, p, Top.i, Top.kids, x)
         /\ \A p, x : FrameIs([At(p) EXCEPT !.kids = x], Top.proc, p, Top.i, x, Top.op)
         /\ FrameIs(NextItem, Top.proc, Top.at, Top.i + 1, Top.kids, Top.op)
         /\ \A x : FrameIs([NextItem EXCEPT !.kids = x], Top.proc, Top.at, Top.i + 1, x, Top.op)
         /\ \A x : FrameIs([NextItem EXCEPT !.at = x], Top.proc, x, Top.i + 1, Top.kids, Top.op)
         /\ \A p, at : FrameIs(Frame(p, at), p, at, 1, <<>>, 0)
         /\ FrameIs([Frame("decl", "script") EXCEPT !.op = cache], "decl", "script", 1, <<>>, cache)
         /\ \A x : FrameIs([Frame(Top.proc, "look") EXCEPT !.kids = x], Top.proc, "look", 1, x, 0)
<1>1. ASSUME NEW f, IsFrame(f), NEW x
      PROVE  /\ FrameIs([f EXCEPT !.at = x], f.proc, x, f.i, f.kids, f.op)
             /\ FrameIs([f EXCEPT !.i = x], f.proc, f.at, x, f.kids, f.op)
             /\ FrameIs([f EXCEPT !.kids = x], f.proc, f.at, f.i, x, f.op)
             /\ FrameIs([f EXCEPT !.op = x], f.proc, f.at, f.i, f.kids, x)
  BY <1>1, FieldChanged DEF FrameIs
<1>2. \A proc, at, i, kids, op, f : FrameIs(f, proc, at, i, kids, op) =>
        f.proc = proc /\ f.at = at /\ f.i = i /\ f.kids = kids /\ f.op = op
  BY DEF FrameIs
<1>3. IsFrame(Top)
  BY DEF Fits
<1>4. \A p : IsFrame(At(p)) /\ FrameIs(At(p), Top.proc, p, Top.i, Top.kids, Top.op)
  BY <1>1, <1>3, Places DEF At
<1>5. IsFrame(NextItem) /\ FrameIs(NextItem, Top.proc, Top.at, Top.i + 1, Top.kids, Top.op)
  BY <1>1, <1>3, Places DEF NextItem
<1>6. \A p, at : IsFrame(Frame(p, at)) /\ FrameIs(Frame(p, at), p, at, 1, <<>>, 0)
  BY DEF IsFrame, FrameIs, Frame
<1>7. ASSUME NEW p, NEW x
      PROVE  /\ FrameIs([At(p) EXCEPT !.op = x], Top.proc, p, Top.i, Top.kids, x)
             /\ FrameIs([At(p) EXCEPT !.kids = x], Top.proc, p, Top.i, x, Top.op)
  <2> DEFINE f == At(p)
  <2>1. IsFrame(f) /\ FrameIs(f, Top.proc, p, Top.i, Top.kids, Top.op)
    BY <1>4
  <2> HIDE DEF f
  <2>2. /\ FrameIs([f EXCEPT !.op = x], Top.proc, p, Top.i, Top.kids, x)
        /\ FrameIs([f EXCEPT !.kids = x], Top.proc, p, Top.i, x, Top.op)
    BY FieldChanged, <2>1 DEF FrameIs
  <2> QED
    BY <2>2 DEF f
<1>8. ASSUME NEW x
      PROVE  /\ FrameIs([NextItem EXCEPT !.kids = x], Top.proc, Top.at, Top.i + 1, x, Top.op)
             /\ FrameIs([NextItem EXCEPT !.at = x], Top.proc, x, Top.i + 1, Top.kids, Top.op)
  BY FieldChanged, <1>5 DEF FrameIs
<1>9. ASSUME NEW p, NEW at, NEW x
      PROVE  /\ FrameIs([Frame(p, at) EXCEPT !.kids = x], p, at, 1, x, 0)
             /\ FrameIs([Frame(p, at) EXCEPT !.op = x], p, at, 1, <<>>, x)
  BY FieldChanged, <1>6 DEF FrameIs
<1> QED
  BY <1>4, <1>5, <1>6, <1>7, <1>8, <1>9

(* The innermost call goes on elsewhere with what it has.                   *)
LEMMA SameHolds ==
  ASSUME NEW S, TopHolds(S), New = {}, NEW f, NEW at, NEW i,
         FrameIs(f, Top.proc, at, i, Top.kids, Top.op), at # "member"
  PROVE  Holds(f, S \cup New, Ruled', Lossless')
<1>1. f.proc = Top.proc /\ f.kids = Top.kids /\ f.op = Top.op /\ f.at # "member" /\ S \cup New = S
  BY DEF FrameIs
<1>2. OpOf(f) = OpOf(Top)
  BY <1>1 DEF OpOf
<1> QED
  BY <1>1, <1>2 DEF TopHolds, Holds

(* It has got its operator.                                                 *)
LEMMA GotHolds ==
  ASSUME NEW S, TopHolds(S), NEW t, New = Some(t), Top.op = 0, Top.proc # "decl",
         NEW f, NEW at, NEW i, FrameIs(f, Top.proc, at, i, Top.kids, t),
         at = "member" => Lossless' = {}
  PROVE  Holds(f, S \cup New, Ruled', Lossless')
<1>1. f.proc = Top.proc /\ f.kids = Top.kids /\ f.op = t /\ f.at = at
  BY DEF FrameIs
<1>2. OpOf(f) = New /\ OpOf(Top) = {}
  BY <1>1 DEF OpOf, Some
<1>3. Row(f.kids, New, S \cup New, Ruled', Lossless')
  <2>1. Row(Top.kids, {}, S, Ruled', Lossless') /\ S \cap New = {}
    BY <1>2 DEF TopHolds, Holds
  <2> QED
    BY <1>1, <2>1, RowOp
<1> QED
  BY <1>1, <1>2, <1>3 DEF TopHolds, Holds

(* It has nothing yet, and becomes another one.                             *)
LEMMA FreshHolds ==
  ASSUME NEW S, TopHolds(S), New = {}, Top.kids = <<>>, OpOf(Top) = {},
         NEW f, NEW proc, NEW at, NEW i, NEW op, FrameIs(f, proc, at, i, <<>>, op),
         proc = "decl" \/ op = 0, at # "member", proc \in Losing => Lossless' = {}
  PROVE  Holds(f, S \cup New, Ruled', Lossless')
<1>1. f.proc = proc /\ f.kids = <<>> /\ f.op = op /\ f.at = at /\ S \cup New = S
  BY DEF FrameIs
<1>2. OpOf(f) = {}
  BY <1>1 DEF OpOf, Some
<1> QED
  BY <1>1, <1>2 DEF TopHolds, Holds

(* Its nodes are dropped or linked; some tokens may be missing.             *)
LEMMA LossyHolds ==
  ASSUME NEW S, TopHolds(S), New = {}, Lossless' = {},
         NEW f, NEW at, NEW i, NEW kids, FrameIs(f, Top.proc, at, i, kids, Top.op),
         Row(kids, OpOf(Top), S, Ruled', {})
  PROVE  Holds(f, S \cup New, Ruled', Lossless')
<1>1. f.proc = Top.proc /\ f.kids = kids /\ f.op = Top.op /\ S \cup New = S
  BY DEF FrameIs
<1>2. OpOf(f) = OpOf(Top)
  BY <1>1 DEF OpOf
<1> QED
  BY <1>1, <1>2 DEF Holds

(* What a node is made of.                                                  *)
LEMMA NodeFields ==
  \A kind, op, kids :
    LET x == Node(kind, op, kids)
    IN  IsNode(x) /\ x.kind = kind /\ x.op = op /\ x.kids = kids /\ x.next = <<>>
  BY DEF Node, IsNode

(* Which kinds are never ruled out.                                         *)
LEMMA RuledKinds ==
  /\ Ruled' \subseteq {"uninit"}
  /\ ParserInv /\ Look = "null" /\ OwnTokens /\ Looked /\ UNCHANGED streamVars => Ruled' = {}
<1>1. Ruled' = IF EofIn(GivenKinds') THEN {} ELSE {"uninit"}
  BY DEF Ruled
<1>2. ASSUME ParserInv, Look = "null"
      PROVE  cache = 0
  <2>1. CASE cache # 0
    <3>1. KindOf(cache) \in Kind \cup {EOF}
      <4>1. cache \in 1 .. Len(read) /\ read \in Seq(Scanned)
        BY <1>2, <2>1 DEF ParserInv, StreamInv, StreamTypeOK, Token, Scanned
      <4>2. read[cache] \in Scanned
        BY <4>1
      <4> QED
        BY <4>2 DEF KindOf, Scanned
    <3>2. Look = KindOf(cache)
      BY <2>1 DEF Look
    <3> QED
      BY <1>2, <3>1, <3>2, NullAssumption
  <2> QED
    BY <2>1
<1>3. ASSUME OwnTokens, Looked, UNCHANGED streamVars, cache = 0
      PROVE  EofIn(GivenKinds')
  BY <1>3, SameEof DEF OwnTokens, Looked
<1> QED
  BY <1>1, <1>2, <1>3

(* The last node is what the innermost call returns.                        *)
LEMMA LastOwns ==
  ASSUME NEW S, TopHolds(S), New = {}, Len(Top.kids) = 1, Top.op = 0
  PROVE  Owns(LastKid, S \cup New, Ruled', Lossless')
<1>1. OpOf(Top) = {} /\ S \cup New = S /\ LastKid = Top.kids[1] /\ 1 \in 1 .. Len(Top.kids)
  BY DEF OpOf, Some, LastKid
<1> QED
  BY <1>1, RowKid DEF TopHolds, Holds

(* Or a node over them.                                                     *)
LEMMA OverOwns ==
  ASSUME NEW S, TopHolds(S), New = {}, NEW kind,
         OwnToken(Node(kind, Top.op, Top.kids)) = OpOf(Top), kind # "uninit",
         kind \in Operators \cup Conditionals \/ Top.kids = <<>> \/ Lossless' = {}
  PROVE  Owns(Node(kind, Top.op, Top.kids), S \cup New, Ruled', Lossless')
<1>1. S \cup New = S /\ Row(Top.kids, OpOf(Top), S, Ruled', Lossless')
  BY DEF TopHolds, Holds
<1> DEFINE x == Node(kind, Top.op, Top.kids)
<1>2. IsNode(x) /\ x.kind = kind /\ x.kids = Top.kids /\ x.next = <<>> /\ OwnToken(x) = OpOf(Top)
  BY NodeFields
<1>3. x.kind \notin Ruled'
  BY <1>2, RuledKinds
<1> HIDE DEF x
<1>4. Owns(x, S, Ruled', Lossless')
  BY <1>1, <1>2, <1>3, RowNode
<1> QED
  BY <1>1, <1>4 DEF x

(* Or one without parts.                                                    *)
LEMMA EmptyOwns ==
  ASSUME NEW S, TopHolds(S), New = {}, Top.kids = <<>>, OpOf(Top) = {},
         NEW kind, NEW op, kind \notin Ruled', OwnToken(Node(kind, op, <<>>)) = {}
  PROVE  Owns(Node(kind, op, <<>>), S \cup New, Ruled', Lossless')
<1>1. S \cup New = S /\ Row(<<>>, {}, S, Ruled', Lossless')
  BY DEF TopHolds, Holds
<1> DEFINE x == Node(kind, op, <<>>)
<1>2. IsNode(x) /\ x.kind = kind /\ x.kids = <<>> /\ x.next = <<>> /\ OwnToken(x) = {}
  BY NodeFields
<1> HIDE DEF x
<1>3. Owns(x, S, Ruled', Lossless')
  BY <1>1, <1>2, RowNode
<1> QED
  BY <1>1, <1>3 DEF x

(* An operator node with the token that was just got, or a constant.        *)
LEMMA GotOwns ==
  ASSUME NEW S, TopHolds(S), NEW t, New = Some(t), OpOf(Top) = {}, NEW kind \in {"POSTFIX", "CONST"},
         kind = "CONST" => Top.kids = <<>>
  PROVE  Owns(Node(kind, t, Top.kids), S \cup New, Ruled', Lossless')
<1> DEFINE x == Node(kind, t, Top.kids)
<1>1. /\ IsNode(x) /\ x.kind = kind /\ x.op = t /\ x.kids = Top.kids /\ x.next = <<>>
  BY NodeFields
<1>2. OwnToken(x) = New /\ x.kind \in Operators \cup {"CONST"} /\ x.kind \notin Ruled'
  BY <1>1, RuledKinds DEF OwnToken, Operators
<1> HIDE DEF x
<1>3. Row(Top.kids, New, S \cup New, Ruled', Lossless')
  BY RowOp DEF TopHolds, Holds
<1>4. Owns(x, S \cup New, Ruled', Lossless')
  BY <1>1, <1>2, <1>3, RowNode
<1> QED
  BY <1>4 DEF x
-----------------------------------------------------------------------------
(* Statements                                                               *)

(* A call without a node, in sequence or number.                            *)
LEMMA NoKids ==
  ASSUME NEW S, TopHolds(S), Len(Top.kids) = 0
  PROVE  Top.kids = <<>>
  BY HoldsKids, EmptySeq DEF TopHolds

(* A function that begins to look ahead owns nothing.                       *)
LEMMA LookerFresh ==
  ASSUME NEW S, TopHolds(S), Top.at = "look", Top.proc \in {"unary", "primary", "stmt", "decl"}
  PROVE  Top.kids = <<>> /\ OpOf(Top) = {} /\ (Top.proc # "decl" => Top.op = 0)
<1>1. Len(Top.kids) = 0
  BY DEF TopHolds, Enough
<1>2. Top.proc # "decl" => Top.op = 0
  BY DEF TopHolds, Enough
<1> QED
  BY <1>1, <1>2, NoKids DEF OpOf, Some

(* What parse_stmt becomes.                                                 *)
LEMMA StatementFrames ==
  ASSUME NEW f, NEW proc \in {"block", "exprstmt"} \cup DOMAIN Statement,
         NEW at, at = IF proc = "block" THEN "look" ELSE "script", FrameIs(f, proc, at, 1, <<>>, 0)
  PROVE  Enough(f, Len(f.kids))
<1>1. f.proc = proc /\ f.at = at /\ f.i = 1 /\ f.op = 0 /\ Len(f.kids) = 0
  BY DEF FrameIs
<1>2. proc \notin Calling \cup {"unary", "primary", "stmt"}
  BY StatementDomain, CalleeDomain
<1>3. ForKids[1] = 0
  BY DEF ForKids
<1> QED
  BY <1>1, <1>2, <1>3 DEF Enough

(* The statements whose parts are left are those with the tokens that say   *)
(* so.                                                                      *)
LEMMA LosingTokens ==
  /\ \A k \in DOMAIN Statement : k \in Losing => k \in LeftTokens
  /\ "{" \in LeftTokens /\ "." \in LeftTokens /\ "->" \in LeftTokens
  /\ "exprstmt" \notin Losing /\ "decl" \notin Losing /\ "null" \notin LeftTokens
  BY StatementDomain DEF Losing, LeftTokens, Loops

(* parse_stmt becomes a block, a statement, or an expression statement.     *)
LEMMA LookStmtOwns ==
  ASSUME ParserInv, StackInv, OwnTokens, NEW m, Fits(Top, m), NEW S, TopHolds(S), LookStmt
  PROVE  OwnMove(S)
<1>1. Top.proc = "stmt" /\ Top.at = "look"
  BY DEF LookStmt, Looked, Looks
<1>2. Top.kids = <<>> /\ OpOf(Top) = {}
  BY <1>1, LookerFresh
<1>3. CASE Look = "{" /\ Eat(cache) /\ Become(Frame("block", "look"))
  <2>1. New = {} /\ Lossless' = {}
    BY <1>3, GotNew, LookRules, LosingTokens DEF Eat
  <2>2. FrameIs(Frame("block", "look"), "block", "look", 1, <<>>, 0)
    BY FrameFields
  <2>3. Holds(Frame("block", "look"), S \cup New, Ruled', Lossless')
    BY <1>2, <2>1, <2>2, FreshHolds
  <2>4. Enough(Frame("block", "look"), Len(Frame("block", "look").kids))
    BY <2>2, StatementFrames
  <2> QED
    BY <1>3, <2>3, <2>4, OwnMoves
<1>4. CASE Look \in DOMAIN Statement /\ Eat(cache) /\ Become(Frame(Look, "script"))
  <2> DEFINE f == Frame(Look, "script")
  <2>1. New = {} /\ (Look \in Losing => Lossless' = {})
    BY <1>4, GotNew, LookRules, LosingTokens DEF Eat
  <2>2. FrameIs(f, Look, "script", 1, <<>>, 0)
    BY FrameFields
  <2>3. Look # "block"
    BY <1>4, StatementDomain
  <2>4. Become(f)
    BY <1>4
  <2> HIDE DEF f
  <2>5. Holds(f, S \cup New, Ruled', Lossless')
    BY <1>2, <2>1, <2>2, FreshHolds
  <2>6. Enough(f, Len(f.kids))
    BY <1>4, <2>2, <2>3, StatementFrames
  <2> QED
    BY <2>4, <2>5, <2>6, OwnMoves
<1>5. CASE Return(NULL) /\ UNCHANGED streamVars
  <2>1. New = {} /\ NULL = Node("NULL", 0, <<>>)
    BY <1>5, GotNew DEF NULL
  <2>2. OwnToken(NULL) = {}
    BY <2>1, NodeFields DEF OwnToken, Operators
  <2>3. Owns(NULL, S \cup New, Ruled', Lossless')
    BY <1>2, <2>1, <2>2, RuledKinds, EmptyOwns
  <2> QED
    BY <1>5, <2>3, OwnMoves
<1>6. CASE Become(Frame("exprstmt", "script")) /\ UNCHANGED streamVars
  <2> DEFINE f == Frame("exprstmt", "script")
  <2>1. New = {} /\ FrameIs(f, "exprstmt", "script", 1, <<>>, 0)
    BY <1>6, GotNew, FrameFields
  <2>2. Become(f)
    BY <1>6
  <2> HIDE DEF f
  <2>3. Holds(f, S \cup New, Ruled', Lossless')
    BY <1>2, <2>1, LosingTokens, FreshHolds
  <2>4. Enough(f, Len(f.kids))
    BY <2>1, StatementFrames
  <2> QED
    BY <2>2, <2>3, <2>4, OwnMoves
<1> QED
  BY <1>3, <1>4, <1>5, <1>6, Zenon DEF LookStmt

(* A block ends with its statements, or calls for a declaration.            *)
LEMMA LookBlockOwns ==
  ASSUME ParserInv, StackInv, OwnTokens, NEW m, Fits(Top, m), NEW S, TopHolds(S), LookBlock
  PROVE  OwnMove(S)
<1>1. Top.proc = "block" /\ Top.at = "look"
  BY DEF LookBlock, Looked, Looks
<1>2. Lossless' = {} /\ Top.op = 0
  BY <1>1, LevelDomain DEF TopHolds, Holds, Losing, Enough
<1>3. CASE Eat(cache) /\ Return(Node("BLOCK", 0, Top.kids))
  <2>1. New = {} /\ OpOf(Top) = {}
    BY <1>2, <1>3, GotNew DEF OpOf, Some
  <2>2. OwnToken(Node("BLOCK", Top.op, Top.kids)) = OpOf(Top)
    BY <2>1, NodeFields DEF OwnToken, Operators
  <2>3. Owns(Node("BLOCK", Top.op, Top.kids), S \cup New, Ruled', Lossless')
    BY <1>2, <2>1, <2>2, OverOwns
  <2> QED
    BY <1>2, <1>3, <2>3, OwnMoves
<1>4. CASE Call("decl", At("decl")) /\ UNCHANGED streamVars
  <2> DEFINE f == At("decl")
  <2>1. New = {} /\ FrameIs(f, Top.proc, "decl", Top.i, Top.kids, Top.op) /\ Call("decl", f)
    BY <1>4, GotNew, FrameFields
  <2> HIDE DEF f
  <2>2. Holds(f, S \cup New, Ruled', Lossless')
    BY <2>1, SameHolds
  <2>3. Enough(f, Len(f.kids) + 1)
    <3>1. f.proc = "block" /\ f.at = "decl" /\ f.op = 0 /\ Len(f.kids) + 1 # 0
      BY <1>1, <1>2, <2>1, <2>2, HoldsKids DEF FrameIs
    <3> QED
      BY <3>1, CalleeDomain DEF Enough
  <2> QED
    BY <2>1, <2>2, <2>3, OwnMoves DEF Startable
<1>5. CASE Stop("fatal")
  BY <1>5, OwnMoves
<1> QED
  BY <1>3, <1>4, <1>5, Zenon DEF LookBlock

(* A declaration keeps the token it ate, which is nobody's.                 *)
LEMMA LookDeclOwns ==
  ASSUME ParserInv, StackInv, OwnTokens, NEW m, Fits(Top, m), NEW S, TopHolds(S), LookDecl
  PROVE  OwnMove(S)
<1>1. Top.proc = "decl" /\ Top.at = "look"
  BY DEF LookDecl, Looked, Looks
<1>2. Top.kids = <<>> /\ OpOf(Top) = {}
  BY <1>1, LookerFresh
<1>3. CASE Eat(cache) /\ Become([Frame("decl", "script") EXCEPT !.op = cache])
  <2> DEFINE f == [Frame("decl", "script") EXCEPT !.op = cache]
  <2>1. New = {} /\ FrameIs(f, "decl", "script", 1, <<>>, cache) /\ Become(f)
    BY <1>3, GotNew, FrameFields
  <2> HIDE DEF f
  <2>2. Holds(f, S \cup New, Ruled', Lossless')
    BY <1>2, <2>1, LosingTokens, FreshHolds
  <2>3. Enough(f, Len(f.kids))
    <3>1. f.proc = "decl" /\ f.at = "script" /\ Len(f.kids) = 0
      BY <2>1 DEF FrameIs
    <3> QED
      BY <3>1, CalleeDomain DEF Enough
  <2> QED
    BY <2>1, <2>2, <2>3, OwnMoves
<1>4. CASE Return(NULL) /\ UNCHANGED streamVars
  <2>1. New = {} /\ NULL = Node("NULL", 0, <<>>)
    BY <1>4, GotNew DEF NULL
  <2>2. OwnToken(NULL) = {}
    BY <2>1, NodeFields DEF OwnToken, Operators
  <2>3. Owns(NULL, S \cup New, Ruled', Lossless')
    BY <1>2, <2>1, <2>2, RuledKinds, EmptyOwns
  <2> QED
    BY <1>4, <2>3, OwnMoves
<1> QED
  BY <1>3, <1>4, Zenon DEF LookDecl

(* A block links what it got, or tries a statement instead.                 *)
LEMMA BlockOwns ==
  ASSUME ParserInv, StackInv, OwnTokens, NEW m, Fits(Top, m), NEW S, TopHolds(S), Block
  PROVE  OwnMove(S)
<1>1. Top.proc = "block" /\ Top.at \in {"decl", "stmt"} /\ New = {}
  BY GotNew DEF Block
<1>2. Lossless' = {} /\ Top.op = 0 /\ Len(Top.kids) # 0
  BY <1>1, LevelDomain DEF TopHolds, Holds, Losing, Enough
<1>3. Top.kids \in Seq(Range(Top.kids)) /\ Len(Top.kids) \in Nat /\ Top.kids # <<>>
  BY <1>2, HoldsKids, EmptySeq DEF TopHolds
<1> DEFINE kids == Top.kids
           n == Len(kids)
           start == Front(kids)
<1>4. /\ start \in Seq(Range(kids)) /\ Len(start) = n - 1 /\ \A i \in 1 .. n - 1 : start[i] = kids[i]
      /\ n - 1 \in Nat
  BY <1>2, <1>3 DEF Front
<1>5. Row(kids, OpOf(Top), S, Ruled', {})
  BY <1>2 DEF TopHolds, Holds
<1>6. CASE Become([At("look") EXCEPT !.kids = Link(Front(@), LastKid)])
  <2> DEFINE new == Link(Front(At("look").kids), LastKid)
             f == [At("look") EXCEPT !.kids = new]
  <2>1. At("look").kids = kids
    BY FrameFields DEF FrameIs
  <2>2. /\ new \in Seq(Range(new)) /\ Len(new) = n
        /\ \A i \in 1 .. n : new[i] \in {kids[i], [kids[i] EXCEPT !.next = <<Sibling>>]}
    <3>1. new = Link(start, kids[n])
      BY <2>1 DEF LastKid
    <3> HIDE DEF new, start
    <3>2. CASE start = <<>>
      <4>1. new = <<kids[n]>>
        BY <3>1, <3>2, Zenon DEF Link
      <4>2. n = 1
        BY <1>3, <1>4, <3>2, EmptySeq
      <4>3. new = <<kids[1]>> /\ Len(new) = 1 /\ new[1] = kids[1] /\ new \in Seq({kids[1]})
        BY <4>1, <4>2
      <4>4. new \in Seq(Range(new))
        BY <4>3, SeqOfRange
      <4> HIDE DEF kids, n
      <4> QED
        BY <4>2, <4>3, <4>4
    <3>3. CASE start # <<>>
      <4> DEFINE mark == [start[Len(start)] EXCEPT !.next = <<Sibling>>]
                 linked == [start EXCEPT ![Len(start)] = mark]
      <4>1. new = Append(linked, kids[n])
        BY <3>1, <3>3, Zenon DEF Link
      <4>2. n - 1 \in 1 .. n - 1
        <5>1. n - 1 # 0
          <6>1. start = <<>> <=> Len(start) = 0
            BY <1>4, EmptySeq
          <6> QED
            BY <1>4, <3>3, <6>1
        <5>2. \A d \in Nat : d # 0 => d \in 1 .. d
          OBVIOUS
        <5> QED
          BY <1>4, <5>1, <5>2, Zenon
      <4>3. mark = [kids[n - 1] EXCEPT !.next = <<Sibling>>]
        <5>1. start[n - 1] = kids[n - 1] /\ Len(start) = n - 1
          BY <1>4, <4>2
        <5> QED
          BY <5>1, Zenon
      <4> HIDE DEF mark
      <4>4. /\ linked \in Seq(Range(linked)) /\ Len(linked) = n - 1
            /\ \A i \in 1 .. n - 1 : linked[i] = IF i = n - 1 THEN mark ELSE start[i]
        <5>1. start \in Seq(Range(kids) \cup {mark}) /\ mark \in Range(kids) \cup {mark}
          BY <1>4, SeqMonotonic
        <5>2. linked \in Seq(Range(kids) \cup {mark})
          BY <1>4, <4>2, <5>1, ExceptSeq
        <5>3. /\ Len(linked) = Len(start)
              /\ \A i \in 1 .. Len(start) : linked[i] = IF i = Len(start) THEN mark ELSE start[i]
          BY <1>4, <4>2, <5>1, ExceptSeq
        <5> HIDE DEF linked
        <5> QED
          BY <1>4, <5>2, <5>3, SeqOfRange
      <4> HIDE DEF linked
      <4>5. /\ Len(new) = n - 1 + 1 /\ new[n - 1 + 1] = kids[n]
            /\ \A i \in 1 .. n - 1 : new[i] = linked[i]
        BY <4>1, <4>4, Appended
      <4>6. new \in Seq(Range(new))
        <5>1. new \in Seq(Range(linked) \cup {kids[n]})
          BY <4>1, <4>4, SeqMonotonic, AppendProperties
        <5> QED
          BY <5>1, SeqOfRange
      <4>7. \A i \in 1 .. n - 1 : new[i] \in {kids[i], [kids[i] EXCEPT !.next = <<Sibling>>]}
        BY <1>4, <4>3, <4>4, <4>5
      <4> QED
        BY <1>3, <1>4, <4>5, <4>6, <4>7
    <3> QED
      BY <3>2, <3>3
  <2> HIDE DEF new
  <2>3. FrameIs(f, Top.proc, "look", Top.i, new, Top.op)
    BY FrameFields
  <2>4. Become(f)
    BY <1>6 DEF new
  <2> HIDE DEF f
  <2>5. Row(new, OpOf(Top), S, Ruled', {})
    BY <1>5, <2>2, RowSame
  <2>6. Holds(f, S \cup New, Ruled', Lossless')
    BY <1>1, <1>2, <2>3, <2>5, LossyHolds
  <2>7. Enough(f, Len(f.kids))
    <3>1. f.proc = "block" /\ f.at = "look" /\ f.op = 0
      BY <1>1, <1>2, <2>3 DEF FrameIs
    <3> QED
      BY <3>1, CalleeDomain DEF Enough
  <2> QED
    BY <2>4, <2>6, <2>7, OwnMoves
<1>7. CASE Call("stmt", [At("stmt") EXCEPT !.kids = Front(@)])
  <2> DEFINE f == [At("stmt") EXCEPT !.kids = start]
  <2>1. At("stmt").kids = kids /\ FrameIs(f, Top.proc, "stmt", Top.i, start, Top.op)
    BY FrameFields DEF FrameIs
  <2>2. Call("stmt", f)
    BY <1>7, <2>1
  <2> HIDE DEF f
  <2>3. start \in Seq(Range(start))
    BY <1>4, SeqOfRange
  <2>4. Row(start, OpOf(Top), S, Ruled', {})
    <3> HIDE DEF start
    <3>1. n - 1 <= n
      BY <1>3
    <3> QED
      BY <1>4, <1>5, <2>3, <3>1, RowPrefix
  <2>5. Holds(f, S \cup New, Ruled', Lossless')
    BY <1>1, <1>2, <2>1, <2>4, LossyHolds
  <2>6. Enough(f, Len(f.kids) + 1)
    <3>1. f.proc = "block" /\ f.at = "stmt" /\ f.op = 0 /\ f.kids = start
      BY <1>1, <1>2, <2>1 DEF FrameIs
    <3>2. Len(f.kids) + 1 # 0
      BY <1>4, <3>1
    <3> QED
      BY <3>1, <3>2, CalleeDomain DEF Enough
  <2> QED
    BY <2>2, <2>5, <2>6, OwnMoves DEF Startable
<1>8. CASE Stop("fatal")
  BY <1>8, OwnMoves
<1> QED
  BY <1>6, <1>7, <1>8, Zenon DEF Block, InvalidItem

(* Which items which statement has.                                         *)
MadeIn(s, S) == Len(s) \in Nat /\ \A i \in 1 .. Len(s) : s[i] \in S

(* A sequence that is written out.                                          *)
LEMMA MadeInSet ==
  ASSUME NEW S
  PROVE  /\ \A a \in S : MadeIn(<<a>>, S)
         /\ \A a, b \in S : MadeIn(<<a, b>>, S)
         /\ \A a, b, c \in S : MadeIn(<<a, b, c>>, S)
         /\ \A a, b, c, d \in S : MadeIn(<<a, b, c, d>>, S)
         /\ \A a, b, c, d, e, f \in S : MadeIn(<<a, b, c, d, e, f>>, S)
         /\ \A a, b, c, d, e, f, g \in S : MadeIn(<<a, b, c, d, e, f, g>>, S)
  BY DEF MadeIn

UsualItems == {"(", ")", ":", ";", "expr", "stmt", "need", "else?", "label"}
DoItems == {"stmt", "while!", "(", "expr", ")", ";"}
ShortItems == {";", "label"}
Passing == {"(", ")", ":", ";", ";?", "need", "while!"}

(* What is not among them.                                                  *)
LEMMA ItemKinds ==
  /\ \A x \in UsualItems : x # "while!" /\ x # "orexpr" /\ x # "over"
  /\ \A x \in DoItems : x # "orexpr" /\ x # "over"
  /\ \A x \in ShortItems : x \notin {"expr", "stmt", "decl", "orexpr", "while!", "over"}
<1>1. \A x \in UsualItems : x # "while!" /\ x # "orexpr" /\ x # "over"
  BY Zenon DEF UsualItems
<1>2. \A x \in DoItems : x # "orexpr" /\ x # "over"
  BY Zenon DEF DoItems
<1>3. \A x \in ShortItems : x # "expr" /\ x # "stmt" /\ x # "decl"
  BY Zenon DEF ShortItems
<1>4. \A x \in ShortItems : x # "orexpr" /\ x # "while!" /\ x # "over"
  BY Zenon DEF ShortItems
<1> QED
  BY <1>1, <1>2, <1>3, <1>4

(* What each script is made of.                                             *)
LEMMA ScriptPlans ==
  /\ \A p \in DOMAIN Script : p \notin {"for", "exprstmt", "do"} => MadeIn(Script[p], UsualItems)
  /\ \A p \in {"decl", "break", "continue", "goto"} : MadeIn(Script[p], ShortItems)
  /\ MadeIn(Script["do"], DoItems)
  /\ Script["for"] = ForParts
  /\ Len(Script["exprstmt"]) = 2 /\ Script["exprstmt"][1] = "expr" /\ Script["exprstmt"][2] = ";?"
<1>1. /\ Script["exprstmt"] = <<"expr", ";?">> /\ Script["decl"] = <<";">>
      /\ \A p \in DOMAIN Statement : Script[p] = Statement[p]
  BY StatementDomain DEF Script
<1>2. /\ "(" \in UsualItems /\ ")" \in UsualItems /\ ":" \in UsualItems /\ ";" \in UsualItems
      /\ "expr" \in UsualItems /\ "stmt" \in UsualItems /\ "need" \in UsualItems
      /\ "else?" \in UsualItems /\ "label" \in UsualItems
      /\ ";" \in ShortItems /\ "label" \in ShortItems
      /\ "stmt" \in DoItems /\ "while!" \in DoItems /\ "(" \in DoItems
      /\ "expr" \in DoItems /\ ")" \in DoItems /\ ";" \in DoItems
  BY Zenon DEF UsualItems, ShortItems, DoItems
<1>3. MadeIn(Script["decl"], UsualItems) /\ MadeIn(Script["decl"], ShortItems)
  <2>1. MadeIn(<<";">>, UsualItems) /\ MadeIn(<<";">>, ShortItems)
    BY <1>2, MadeInSet, Zenon
  <2> QED
    BY <1>1, <2>1, Zenon
<1>4. /\ MadeIn(Statement["case"], UsualItems) /\ MadeIn(Statement["default"], UsualItems)
      /\ MadeIn(Statement["return"], UsualItems)
  BY <1>2, MadeInSet, Zenon DEF Statement
<1>5. /\ MadeIn(Statement["break"], UsualItems) /\ MadeIn(Statement["continue"], UsualItems)
      /\ MadeIn(Statement["goto"], UsualItems)
  BY <1>2, MadeInSet, Zenon DEF Statement
<1>6. /\ MadeIn(Statement["break"], ShortItems) /\ MadeIn(Statement["continue"], ShortItems)
      /\ MadeIn(Statement["goto"], ShortItems)
  BY <1>2, MadeInSet, Zenon DEF Statement
<1>7. MadeIn(Statement["switch"], UsualItems) /\ MadeIn(Statement["while"], UsualItems)
  BY <1>2, MadeInSet, Zenon DEF Statement
<1>8. MadeIn(Statement["if"], UsualItems)
  BY <1>2, MadeInSet, Zenon DEF Statement
<1>9. MadeIn(Statement["do"], DoItems)
  BY <1>2, MadeInSet, Zenon DEF Statement
<1>10. Statement["for"] = ForParts
  BY Zenon DEF Statement
<1>11. {"for", "do", "break", "continue", "goto"} \subseteq DOMAIN Statement
  BY StatementDomain
<1>12. \A p \in DOMAIN Statement : p \notin {"for", "do"} => MadeIn(Statement[p], UsualItems)
  BY <1>4, <1>5, <1>7, <1>8, StatementDomain
<1>13. /\ \A p \in DOMAIN Statement : Script[p] = Statement[p]
       /\ \A p \in DOMAIN Script : p \in DOMAIN Statement \/ p = "exprstmt" \/ p = "decl"
  BY <1>1, ScriptDomain, Zenon
<1>14. \A p \in DOMAIN Script : p \notin {"for", "exprstmt", "do"} => MadeIn(Script[p], UsualItems)
  BY <1>3, <1>12, <1>13
<1>15. \A p \in {"decl", "break", "continue", "goto"} : MadeIn(Script[p], ShortItems)
  BY <1>3, <1>6, <1>11, <1>13
<1>16. MadeIn(Script["do"], DoItems) /\ Script["for"] = ForParts
  BY <1>9, <1>10, <1>11, <1>13
<1>17. \A a, b : Len(<<a, b>>) = 2 /\ <<a, b>>[1] = a /\ <<a, b>>[2] = b
  OBVIOUS
<1>18. /\ Len(Script["exprstmt"]) = 2
       /\ Script["exprstmt"][1] = "expr" /\ Script["exprstmt"][2] = ";?"
  <2>1. LET s == <<"expr", ";?">> IN Len(s) = 2 /\ s[1] = "expr" /\ s[2] = ";?"
    BY <1>17, Zenon
  <2> QED
    BY <1>1, <2>1, Zenon
<1> QED
  BY <1>14, <1>15, <1>16, <1>18, Zenon

(* How many nodes a for has after each item.                                *)
LEMMA ForSteps ==
  /\ Len(ForParts) = 9
  /\ \A i \in 1 .. 9 :
       /\ ForParts[i] \in Passing => ForKids[i + 1] = ForKids[i]
       /\ ForParts[i] \in {"decl", "expr", "stmt"} => ForKids[i + 1] = ForKids[i] + 1
       /\ ForParts[i] = "orexpr" => ForKids[i] = 1 /\ ForKids[i + 1] = 1
       /\ ForParts[i] # "while!"
  /\ ForKids[10] = 4
<1>1. /\ ForKids[1] = 0 /\ ForKids[2] = 0 /\ ForKids[3] = 1 /\ ForKids[4] = 1 /\ ForKids[5] = 1
      /\ ForKids[6] = 2 /\ ForKids[7] = 2 /\ ForKids[8] = 3 /\ ForKids[9] = 3 /\ ForKids[10] = 4
  BY DEF ForKids
<1>2. \A a, b, c, d, e, f, g, h, i :
        LET s == <<a, b, c, d, e, f, g, h, i>>
        IN  /\ Len(s) = 9 /\ s[1] = a /\ s[2] = b /\ s[3] = c /\ s[4] = d /\ s[5] = e /\ s[6] = f
            /\ s[7] = g /\ s[8] = h /\ s[9] = i
  OBVIOUS
<1>3. /\ Len(ForParts) = 9
      /\ ForParts[1] = "(" /\ ForParts[2] = "decl" /\ ForParts[3] = "orexpr"
      /\ ForParts[4] = ";" /\ ForParts[5] = "expr" /\ ForParts[6] = ";"
      /\ ForParts[7] = "expr" /\ ForParts[8] = ")" /\ ForParts[9] = "stmt"
  BY <1>2, Zenon DEF ForParts
<1> DEFINE Pass(x) == x \notin {"decl", "expr", "stmt"} /\ x # "orexpr" /\ x # "while!"
           Get1(x) == x \notin Passing /\ x # "orexpr" /\ x # "while!"
<1>4. Pass("(") /\ Pass(")") /\ Pass(";")
  BY Zenon
<1>5. Get1("decl") /\ Get1("expr") /\ Get1("stmt")
  BY Zenon DEF Passing
<1>6. "orexpr" \notin Passing \cup {"decl", "expr", "stmt"} /\ "orexpr" # "while!"
  BY Zenon DEF Passing
<1> HIDE DEF Pass, Get1
<1>7. /\ Pass(ForParts[1]) /\ Get1(ForParts[2]) /\ Pass(ForParts[4]) /\ Get1(ForParts[5])
      /\ Pass(ForParts[6]) /\ Get1(ForParts[7]) /\ Pass(ForParts[8]) /\ Get1(ForParts[9])
  BY <1>3, <1>4, <1>5, Zenon
<1>8. ForParts[3] = "orexpr"
  BY <1>3, Zenon
<1> DEFINE Step(i) ==
             /\ ForParts[i] \in Passing => ForKids[i + 1] = ForKids[i]
             /\ ForParts[i] \in {"decl", "expr", "stmt"} => ForKids[i + 1] = ForKids[i] + 1
             /\ ForParts[i] = "orexpr" => ForKids[i] = 1 /\ ForKids[i + 1] = 1
             /\ ForParts[i] # "while!"
<1>9. Step(1) /\ Step(2) /\ Step(4) /\ Step(5)
  BY <1>1, <1>7 DEF Pass, Get1
<1>10. Step(6) /\ Step(7) /\ Step(8) /\ Step(9)
  BY <1>1, <1>7 DEF Pass, Get1
<1>11. Step(3)
  BY <1>1, <1>6, <1>8
<1>12. \A i \in 1 .. 9 : i \in {1, 2, 3, 4, 5, 6, 7, 8, 9}
  OBVIOUS
<1> HIDE DEF Step
<1>13. \A i \in 1 .. 9 : Step(i)
  BY <1>9, <1>10, <1>11, <1>12
<1> QED
  BY <1>1, <1>3, <1>13, Zenon DEF Step

(* How many nodes a statement has after its next item.                      *)
LEMMA ItemNodes ==
  ASSUME NEW m, Fits(Top, m), InScript, NEW k \in Nat, Enough(Top, k),
         NEW f, NEW kids, FrameIs(f, Top.proc, Top.at, Top.i + 1, kids, Top.op)
  PROVE  /\ Item \in Passing => Enough(f, k)
         /\ Item \in {"expr", "stmt", "decl"} => Enough(f, k + 1)
         /\ Item = "orexpr" => Enough(f, 1) /\ k = 1 /\ Top.proc = "for"
         /\ Item = "while!" => Top.proc = "do"
         /\ Item = "over" =>
              /\ Top.proc = "exprstmt" => k = 1
              /\ Top.proc \in {"decl", "break", "continue", "goto"} => k = 0
              /\ Top.proc = "for" => k = 4
         /\ Top.op # 0 => Top.proc = "decl"
         /\ Top.at = "script" /\ Top.proc \in DOMAIN Script /\ f.proc = Top.proc
<1>1. /\ Top.proc \in DOMAIN Script /\ Top.at = "script" /\ Top.i \in 1 .. Len(Script[Top.proc]) + 1
      /\ Len(Script[Top.proc]) \in Nat
  BY ScriptItems DEF Fits, MayBeAt, InScript
<1>2. f.proc = Top.proc /\ f.at = "script" /\ f.i = Top.i + 1 /\ f.op = Top.op
  BY <1>1 DEF FrameIs
<1>3. /\ Item = "over" => Top.i = Len(Script[Top.proc]) + 1
      /\ Item # "over" => Top.i \in 1 .. Len(Script[Top.proc]) /\ Item = Script[Top.proc][Top.i]
  <2>1. CASE Over
    BY <1>1, <2>1 DEF Over, Item
  <2>2. CASE ~ Over
    <3>1. Top.i \in 1 .. Len(Script[Top.proc]) /\ Item = Script[Top.proc][Top.i]
      BY <1>1, <2>2 DEF Over, Item
    <3>2. Item # "over"
      BY <1>1, <3>1, ScriptMadeOf DEF MadeOf, Items
    <3> QED
      BY <3>1, <3>2
  <2> QED
    BY <2>1, <2>2
<1>4. Top.op # 0 => Top.proc = "decl"
  BY <1>1 DEF Enough
<1>5. Top.proc \notin Calling \cup {"unary", "primary", "stmt", "block"}
  BY <1>1, ScriptDomain, StatementDomain, CalleeDomain
<1>6. \A h : /\ Top.proc \in {"decl", "break", "continue", "goto"} => h = 0
             /\ Top.proc = "exprstmt" => h = 1
             /\ Top.proc = "for" => h = ForKids[Top.i + 1]
             => Enough(f, h)
  <2>1. f.i # 1
    BY <1>1, <1>2
  <2> QED
    BY <1>2, <1>4, <1>5, <2>1 DEF Enough
<1>7. /\ Top.proc \in {"decl", "break", "continue", "goto"} => k = 0
      /\ Top.proc = "exprstmt" => k = IF Top.i = 1 THEN 0 ELSE 1
      /\ Top.proc = "for" => k = ForKids[Top.i]
  BY DEF Enough
<1>8. CASE Top.proc = "for"
  <2>1. Len(Script[Top.proc]) = 9 /\ Script[Top.proc] = ForParts
    BY <1>8, ScriptPlans, ForSteps
  <2>2. CASE Item = "over"
    <3>1. Top.i = 10
      BY <1>3, <2>1, <2>2
    <3>2. k = 4
      BY <1>7, <1>8, <3>1, ForSteps
    <3>3. "over" \notin Passing
      BY Zenon DEF Passing
    <3> QED
      BY <1>1, <1>2, <1>4, <1>8, <2>2, <3>2, <3>3
  <2>3. CASE Item # "over"
    <3>1. Top.i \in 1 .. 9 /\ Item = ForParts[Top.i]
      BY <1>3, <2>1, <2>3
    <3>2. /\ Item \in Passing => ForKids[Top.i + 1] = k
          /\ Item \in {"decl", "expr", "stmt"} => ForKids[Top.i + 1] = k + 1
          /\ Item = "orexpr" => k = 1 /\ ForKids[Top.i + 1] = 1
          /\ Item # "while!"
      BY <1>7, <1>8, <3>1, ForSteps
    <3> QED
      BY <1>1, <1>2, <1>4, <1>6, <1>8, <2>3, <3>2
  <2> QED
    BY <2>2, <2>3
<1>9. CASE Top.proc = "exprstmt"
  <2>1. \/ Top.i = 1 /\ Item = "expr"
        \/ Top.i # 1 /\ Item # "over" /\ Item = ";?"
        \/ Top.i # 1 /\ Item = "over"
    <3> DEFINE s == Script["exprstmt"]
    <3>1. Len(s) = 2 /\ s[1] = "expr" /\ Top.proc = "exprstmt"
      BY <1>9, ScriptPlans, Zenon
    <3>2. s[2] = ";?"
      BY ScriptPlans, Zenon
    <3> HIDE DEF s
    <3>3. CASE Item = "over"
      BY <1>3, <3>1, <3>3 DEF s
    <3>4. CASE Item # "over"
      <4>1. Top.i \in 1 .. 2 /\ Item = s[Top.i]
        BY <1>3, <3>1, <3>4 DEF s
      <4>2. (Item = s[1] /\ Top.i = 1) \/ (Item = s[2] /\ Top.i # 1)
        BY <4>1
      <4> QED
        BY <3>1, <3>2, <3>4, <4>2, Zenon
    <3> QED
      BY <3>3, <3>4, Zenon
  <2>2. Enough(f, 1)
    BY <1>6, <1>9
  <2>3. /\ Top.i = 1 => k = 0
        /\ Top.i # 1 => k = 1
    BY <1>7, <1>9
  <2>4. ";?" # "while!" /\ ";?" \notin {"expr", "stmt", "decl"} /\ ";?" # "orexpr"
    BY Zenon
  <2>5. "expr" # "while!" /\ "expr" \notin Passing /\ "expr" # "orexpr"
    BY Zenon DEF Passing
  <2>6. "over" # "while!" /\ "over" \notin Passing \cup {"expr", "stmt", "decl"} /\ "over" # "orexpr"
    BY Zenon DEF Passing
  <2>7. k + 1 = 1 \/ k # 0
    BY <2>3
  <2>8. /\ Item \in Passing => k = 1
        /\ Item \in {"expr", "stmt", "decl"} => k + 1 = 1
        /\ Item # "orexpr" /\ Item # "while!"
        /\ Item = "over" => k = 1
    <3>1. CASE Top.i = 1 /\ Item = "expr"
      BY <2>3, <2>5, <3>1
    <3>2. CASE Top.i # 1 /\ Item # "over" /\ Item = ";?"
      BY <2>3, <2>4, <3>2, Zenon
    <3>3. CASE Top.i # 1 /\ Item = "over"
      BY <2>3, <2>6, <3>3
    <3> QED
      BY <2>1, <3>1, <3>2, <3>3, Zenon
  <2> QED
    BY <1>1, <1>2, <1>4, <1>9, <2>2, <2>8
<1>10. CASE Top.proc = "do"
  <2>1. Item # "over" => Item \in DoItems
    BY <1>3, <1>10, ScriptPlans DEF MadeIn
  <2>2. Item # "orexpr"
    BY <2>1, ItemKinds
  <2> QED
    BY <1>1, <1>2, <1>4, <1>6, <1>10, <2>2
<1>11. CASE Top.proc \in {"decl", "break", "continue", "goto"}
  <2>1. Item # "over" => Item \in ShortItems
    BY <1>3, <1>11, ScriptPlans DEF MadeIn
  <2>2. Item \notin {"expr", "stmt", "decl", "orexpr", "while!"}
    BY <2>1, ItemKinds
  <2> QED
    BY <1>1, <1>2, <1>4, <1>6, <1>7, <1>11, <2>2
<1>12. CASE Top.proc \notin {"for", "exprstmt", "do", "decl", "break", "continue", "goto"}
  <2>1. Item # "over" => Item \in UsualItems
    BY <1>1, <1>3, <1>12, ScriptPlans DEF MadeIn
  <2>2. Item # "orexpr" /\ Item # "while!"
    BY <2>1, ItemKinds
  <2> QED
    BY <1>1, <1>2, <1>4, <1>6, <1>12, <2>2
<1> QED
  BY <1>8, <1>9, <1>10, <1>11, <1>12

(* A required token is there or the parser stops.                           *)
LEMMA ExpectOwns ==
  ASSUME ParserInv, StackInv, OwnTokens, NEW m, Fits(Top, m), NEW S, TopHolds(S), Expect
  PROVE  OwnMove(S)
<1>1. InScript /\ Item \in Passing /\ (Become(NextItem) \/ Stop("fatal"))
  BY Zenon DEF Expect, Expected, Passing
<1>2. New = {}
  BY GotNew, Zenon DEF Expect
<1>3. FrameIs(NextItem, Top.proc, Top.at, Top.i + 1, Top.kids, Top.op)
  BY FrameFields
<1> DEFINE f == NextItem
<1>4. Len(Top.kids) \in Nat /\ Enough(Top, Len(Top.kids)) /\ f.kids = Top.kids
  BY <1>3, HoldsKids DEF TopHolds, FrameIs
<1> HIDE DEF f
<1>5. Enough(f, Len(f.kids)) /\ Top.at # "member"
  BY <1>1, <1>3, <1>4, ItemNodes DEF f
<1>6. Holds(f, S \cup New, Ruled', Lossless')
  BY <1>2, <1>3, <1>5, SameHolds DEF f
<1> QED
  BY <1>1, <1>5, <1>6, OwnMoves DEF f

(* The other branch of an if.                                               *)
LEMMA LookElseOwns ==
  ASSUME ParserInv, StackInv, OwnTokens, NEW m, Fits(Top, m), NEW S, TopHolds(S), LookElse
  PROVE  OwnMove(S)
<1> DEFINE f == [NextItem EXCEPT !.at = "script"]
<1>1. Top.proc = "if" /\ Top.at = "look"
  BY DEF LookElse, Looked, Looks
<1>2. New = {}
  BY GotNew, Zenon DEF LookElse
<1>3. Call("stmt", f) \/ Stop("crash") \/ Become(f)
  BY Zenon DEF LookElse
<1>4. FrameIs(f, Top.proc, "script", Top.i + 1, Top.kids, Top.op)
  BY FrameFields
<1> HIDE DEF f
<1>5. Top.op = 0
  BY <1>1, LevelDomain DEF TopHolds, Enough
<1>6. \A k : Enough(f, k)
  <2>1. f.proc = "if" /\ f.at = "script" /\ f.op = 0
    BY <1>1, <1>4, <1>5 DEF FrameIs
  <2> QED
    BY <2>1, CalleeDomain DEF Enough
<1>7. Holds(f, S \cup New, Ruled', Lossless')
  BY <1>2, <1>4, SameHolds
<1> QED
  BY <1>3, <1>6, <1>7, OwnMoves DEF Startable

(* The while of a do is in no node.                                         *)
LEMMA GetKeywordOwns ==
  ASSUME ParserInv, StackInv, OwnTokens, NEW m, Fits(Top, m), NEW S, TopHolds(S), GetKeyword
  PROVE  OwnMove(S)
<1>1. InScript /\ (Stop("crash") \/ Stop("fatal") \/ (Item = "while!" /\ Become(NextItem)))
  BY Zenon DEF GetKeyword
<1> DEFINE f == NextItem
<1>2. FrameIs(f, Top.proc, Top.at, Top.i + 1, Top.kids, Top.op)
  BY FrameFields
<1>3. Len(Top.kids) \in Nat /\ Enough(Top, Len(Top.kids)) /\ f.kids = Top.kids
  BY <1>2, HoldsKids DEF TopHolds, FrameIs
<1>4. CASE Item = "while!" /\ Become(f)
  <2> HIDE DEF f
  <2>1. Item \in Passing
    BY <1>4, Zenon DEF Passing
  <2>2. Enough(f, Len(f.kids)) /\ Top.proc = "do" /\ Top.op = 0 /\ f.proc = "do" /\ f.op = 0
    BY <1>1, <1>2, <1>3, <1>4, <2>1, ItemNodes DEF FrameIs
  <2>3. "do" \in Losing
    BY StatementDomain DEF Losing
  <2>4. Lossless' = {} /\ OpOf(Top) = {} /\ OpOf(f) = {}
    BY <2>2, <2>3 DEF TopHolds, Holds, OpOf, Some
  <2>5. Row(f.kids, {}, S, Ruled', {})
    BY <1>3, <2>4 DEF TopHolds, Holds
  <2>6. Row(f.kids, {}, S \cup New, Ruled', {})
    BY <2>5, RowMore
  <2>7. Holds(f, S \cup New, Ruled', Lossless')
    BY <2>4, <2>6 DEF Holds
  <2> QED
    BY <1>4, <2>2, <2>7, OwnMoves
<1> QED
  BY <1>1, <1>4, OwnMoves

(* The node of a for: the fourth tree is its next.                          *)
LEMMA ForOwns ==
  ASSUME NEW S, TopHolds(S), New = {}, Lossless' = {}, OpOf(Top) = {}, Len(Top.kids) = 4
  PROVE  Owns(StatementNode("for", Top.kids), S \cup New, Ruled', Lossless')
<1> DEFINE n == Node("for", 0, SubSeq(Top.kids, 1, 3))
           y == Top.kids[4]
           x == [n EXCEPT !.next = <<y>>]
<1>1. Row(Top.kids, {}, S, Ruled', {}) /\ S \cup New = S
  BY DEF TopHolds, Holds
<1>2. Top.kids \in Seq(Range(Top.kids))
  BY HoldsKids DEF TopHolds
<1>3. /\ SubSeq(Top.kids, 1, 3) \in Seq(Range(Top.kids)) /\ Len(SubSeq(Top.kids, 1, 3)) = 3
      /\ \A i \in 1 .. 3 : SubSeq(Top.kids, 1, 3)[i] = Top.kids[i]
  BY <1>2
<1>4. Row(SubSeq(Top.kids, 1, 3), {}, S, Ruled', {})
  <2> DEFINE s == SubSeq(Top.kids, 1, 3)
  <2>1. s \in Seq(Range(s))
    BY <1>3, SeqOfRange
  <2> HIDE DEF s
  <2>2. 3 \in Nat /\ 3 <= Len(Top.kids)
    OBVIOUS
  <2> QED
    BY <1>1, <1>3, <2>1, <2>2, RowPrefix DEF s
<1>5. Owns(y, S, Ruled', {})
  <2>1. 4 \in 1 .. Len(Top.kids)
    OBVIOUS
  <2> QED
    BY <1>1, <2>1, RowKid
<1>6. IsNode(n) /\ n.kind = "for" /\ n.op = 0 /\ n.kids = SubSeq(Top.kids, 1, 3)
  <2>1. \A kids : LET z == Node("for", 0, kids)
                  IN  IsNode(z) /\ z.kind = "for" /\ z.op = 0 /\ z.kids = kids
    BY NodeFields
  <2> QED
    BY <2>1, Zenon
<1>7. x = [kind |-> n.kind, op |-> n.op, kids |-> n.kids, next |-> <<y>>, paren |-> n.paren]
  BY <1>6, NodeChanged
<1> HIDE DEF n, y
<1>8. IsNode(x) /\ x.kind = "for" /\ x.kids = SubSeq(Top.kids, 1, 3) /\ x.next = <<y>>
  BY <1>6, <1>7 DEF IsNode
<1>9. x = StatementNode("for", Top.kids)
  BY DEF StatementNode, n, y
<1> HIDE DEF x
<1>10. OwnToken(x) = {} /\ x.kind \notin Ruled'
  BY <1>8, RuledKinds DEF OwnToken, Operators
<1>11. Owns(x, S, Ruled', {})
  BY <1>4, <1>5, <1>8, <1>10, RowNode
<1> QED
  BY <1>1, <1>9, <1>11

(* What is done at the end of a statement.                                  *)
LEMMA OverReturns ==
  ASSUME ParserInv, NEW m, Fits(Top, m), NEW S, TopHolds(S), New = {}, InScript, Item = "over",
         NEW node, Return(node),
         \/ Top.proc = "exprstmt" /\ node = LastKid
         \/ Top.proc = "decl" /\ node = Node("DECL", Top.op, <<>>)
         \/ Top.proc \notin {"exprstmt", "decl"} /\ node = StatementNode(Top.proc, Top.kids)
  PROVE  OwnMove(S)
<1> DEFINE n == Len(Top.kids)
<1>1. n \in Nat /\ Enough(Top, n)
  BY HoldsKids DEF TopHolds
<1>2. FrameIs(NextItem, Top.proc, Top.at, Top.i + 1, Top.kids, Top.op)
  BY FrameFields
<1> HIDE DEF n
<1>3. /\ Top.proc = "exprstmt" => n = 1
      /\ Top.proc \in {"decl", "break", "continue", "goto"} => n = 0
      /\ Top.proc = "for" => n = 4
      /\ Top.op # 0 => Top.proc = "decl"
      /\ Top.proc \in DOMAIN Script
  BY <1>1, <1>2, ItemNodes
<1>4. CASE Top.proc = "exprstmt" /\ node = LastKid
  <2>1. Len(Top.kids) = 1 /\ Top.op = 0
    BY <1>3, <1>4 DEF n
  <2> QED
    BY <1>4, <2>1, LastOwns, OwnMoves
<1>5. CASE Top.proc = "decl" /\ node = Node("DECL", Top.op, <<>>)
  <2>1. Top.kids = <<>> /\ OpOf(Top) = {}
    BY <1>3, <1>5, NoKids DEF n, OpOf
  <2>2. OwnToken(node) = {} /\ "DECL" \notin Ruled'
    BY <1>5, NodeFields, RuledKinds DEF OwnToken, Operators
  <2>3. Owns(node, S \cup New, Ruled', Lossless')
    BY <1>5, <2>1, <2>2, EmptyOwns
  <2> QED
    BY <2>3, OwnMoves
<1>6. CASE Top.proc \notin {"exprstmt", "decl"} /\ node = StatementNode(Top.proc, Top.kids)
  <2>1. Top.proc \in DOMAIN Statement /\ Top.op = 0 /\ OpOf(Top) = {}
    BY <1>3, <1>6, ScriptDomain DEF OpOf, Some
  <2>2. Top.proc \in Losing => Lossless' = {}
    BY DEF TopHolds, Holds
  <2>3. CASE Top.proc = "for"
    <3>1. Lossless' = {}
      BY <2>1, <2>2, <2>3 DEF Losing
    <3>2. Len(Top.kids) = 4
      BY <1>3, <2>3 DEF n
    <3> QED
      BY <1>6, <2>1, <2>3, <3>1, <3>2, ForOwns, OwnMoves
  <2>4. CASE Top.proc # "for"
    <3>1. node = Node(Top.proc, Top.op, Top.kids)
      BY <1>6, <2>1, <2>4 DEF StatementNode
    <3>2. OwnToken(node) = OpOf(Top) /\ Top.proc # "uninit"
      <4>1. Top.proc \notin Operators \cup {"CONST", "uninit"}
        BY <2>1, StatementDomain DEF Operators
      <4> QED
        BY <2>1, <3>1, <4>1, NodeFields DEF OwnToken
    <3>3. Top.proc \in Operators \cup Conditionals \/ Top.kids = <<>> \/ Lossless' = {}
      <4>1. CASE Top.proc \in {"break", "continue", "goto"}
        BY <1>3, <4>1, NoKids DEF n
      <4>2. CASE Top.proc \notin {"break", "continue", "goto"}
        BY <2>1, <2>2, <4>2 DEF Losing, Conditionals
      <4> QED
        BY <4>1, <4>2
    <3>4. Owns(node, S \cup New, Ruled', Lossless')
      BY <3>1, <3>2, <3>3, OverOwns
    <3> QED
      BY <3>4, OwnMoves
  <2> QED
    BY <2>3, <2>4
<1> QED
  BY <1>4, <1>5, <1>6

(* A statement does what its next item says.                                *)
LEMMA PerformOwns ==
  ASSUME ParserInv, StackInv, OwnTokens, NEW m \in Nat, Fits(Top, m), NEW S, TopHolds(S), Perform
  PROVE  OwnMove(S)
<1> DEFINE f == NextItem
           g == [NextItem EXCEPT !.kids = <<>>]
           h == At("look")
           n == Len(Top.kids)
<1>1. InScript /\ New = {}
  BY GotNew, Zenon DEF Perform
<1>2. /\ FrameIs(f, Top.proc, Top.at, Top.i + 1, Top.kids, Top.op)
      /\ FrameIs(g, Top.proc, Top.at, Top.i + 1, <<>>, Top.op)
      /\ FrameIs(h, Top.proc, "look", Top.i, Top.kids, Top.op)
  BY FrameFields
<1>3. n \in Nat /\ Enough(Top, n)
  BY HoldsKids DEF TopHolds
<1>4. \/ Item \in {"expr", "stmt", "decl"} /\ Call(Item, f)
      \/ Item \in Passing /\ Become(f)
      \/ Item = "orexpr" /\ Become(f)
      \/ Stop("fatal")
      \/ Item = "orexpr" /\ Call("expr", g)
      \/ Item = "else?" /\ Become(h)
      \/ /\ Item = "over"
         /\ \/ Top.proc = "exprstmt" /\ Return(LastKid)
            \/ Top.proc = "decl" /\ Return(Node("DECL", Top.op, <<>>))
            \/ Top.proc \notin {"exprstmt", "decl"} /\ Return(StatementNode(Top.proc, Top.kids))
  <2>1. \/ Item \in {"expr", "stmt", "decl"} /\ Call(Item, f)
        \/ Item \in Passing /\ Become(f)
        \/ Item = "orexpr" /\ Become(f)
        \/ Stop("fatal")
        \/ Item = "orexpr" /\ Call("expr", g)
        \/ Item = "else?" /\ Become(h)
        \/ /\ Item = "over"
           /\ CASE Top.proc = "exprstmt" -> Return(LastKid)
                [] Top.proc = "decl" -> Return(Node("DECL", Top.op, <<>>))
                [] OTHER -> Return(StatementNode(Top.proc, Top.kids))
    BY Zenon DEF Perform, Passing, At
  <2> HIDE DEF f, g, h
  <2>2. ASSUME CASE Top.proc = "exprstmt" -> Return(LastKid)
                 [] Top.proc = "decl" -> Return(Node("DECL", Top.op, <<>>))
                 [] OTHER -> Return(StatementNode(Top.proc, Top.kids))
        PROVE  \/ Top.proc = "exprstmt" /\ Return(LastKid)
               \/ Top.proc = "decl" /\ Return(Node("DECL", Top.op, <<>>))
               \/ /\ Top.proc \notin {"exprstmt", "decl"}
                  /\ Return(StatementNode(Top.proc, Top.kids))
    BY <2>2
  <2> QED
    BY <2>1, <2>2, Zenon
<1> HIDE DEF f, g, h, n
<1>5. /\ Item \in Passing => Enough(f, n)
      /\ Item \in {"expr", "stmt", "decl"} => Enough(f, n + 1)
      /\ Item = "orexpr" => Enough(f, 1) /\ Enough(g, 1) /\ n = 1 /\ Top.proc = "for"
      /\ Top.op # 0 => Top.proc = "decl"
      /\ Top.at # "member"
  BY <1>1, <1>2, <1>3, ItemNodes
<1>6. f.kids = Top.kids /\ g.kids = <<>> /\ h.kids = Top.kids
  BY <1>2 DEF FrameIs
<1>7. Holds(f, S \cup New, Ruled', Lossless') /\ Holds(h, S \cup New, Ruled', Lossless')
  BY <1>1, <1>2, <1>5, SameHolds
<1>8. CASE Item \in {"expr", "stmt", "decl"} /\ Call(Item, f)
  <2>1. Item \in Startable
    BY <1>8, CalleeDomain DEF Startable
  <2> QED
    BY <1>5, <1>6, <1>7, <1>8, <2>1, OwnMoves DEF n
<1>9. CASE (Item \in Passing \/ Item = "orexpr") /\ Become(f)
  BY <1>5, <1>6, <1>7, <1>9, OwnMoves DEF n
<1>10. CASE Item = "orexpr" /\ Call("expr", g)
  <2>1. "for" \in Losing /\ "expr" \in Startable
    BY StatementDomain, CalleeDomain DEF Losing, Startable
  <2>2. Lossless' = {} /\ OpOf(Top) = {}
    BY <1>5, <1>10, <2>1 DEF TopHolds, Holds, OpOf, Some
  <2>3. Row(<<>>, {}, S, Ruled', {})
    BY RowNone
  <2>4. Holds(g, S \cup New, Ruled', Lossless')
    BY <1>1, <1>2, <2>2, <2>3, LossyHolds
  <2>5. Len(g.kids) + 1 = 1
    BY <1>6
  <2> QED
    BY <1>5, <1>10, <2>1, <2>4, <2>5, OwnMoves
<1>11. CASE Item = "else?" /\ Become(h)
  <2>1. Top.proc = "if"
    BY <1>1, <1>11, ItemFits
  <2>2. h.proc = "if" /\ h.at = "look" /\ h.op = 0
    BY <1>2, <1>5, <2>1 DEF FrameIs
  <2>3. \A k : Enough(h, k)
    BY <2>2, CalleeDomain DEF Enough
  <2> QED
    BY <1>7, <1>11, <2>3, OwnMoves
<1>12. CASE /\ Item = "over"
            /\ \/ Top.proc = "exprstmt" /\ Return(LastKid)
               \/ Top.proc = "decl" /\ Return(Node("DECL", Top.op, <<>>))
               \/ Top.proc \notin {"exprstmt", "decl"} /\ Return(StatementNode(Top.proc, Top.kids))
  BY <1>1, <1>12, OverReturns
<1>13. CASE Stop("fatal")
  BY <1>13, OwnMoves
<1> QED
  BY <1>4, <1>8, <1>9, <1>10, <1>11, <1>12, <1>13, Zenon
-----------------------------------------------------------------------------
(* Expressions                                                              *)

(* What a call of an expression's function has.                             *)
LEMMA ExprEnough ==
  ASSUME NEW f, f.proc \in ExprProc, NEW k
  PROVE  Enough(f, k) <=>
           /\ f.proc \in Calling /\ f.at = "look" => k = 1
           /\ f.at = "call" \/ (f.at = "look" /\ f.proc \in {"unary", "primary"}) => k = 0
           /\ f.proc = "primary" /\ f.at = "close" => k = 1
           /\ f.proc = "unary" /\ f.at = "pass" => k = 1
           /\ f.op # 0 => /\ f.at \in {"build", "close", "member"}
                          /\ f.proc \in Levels \cup {"assign", "unary", "postfix"}
  BY ExprNames DEF Enough

(* What the innermost one has.                                              *)
LEMMA ExprTop ==
  ASSUME NEW S, TopHolds(S), Top.proc \in ExprProc
  PROVE  /\ Len(Top.kids) \in Nat
         /\ Top.proc \in Calling /\ Top.at = "look" => Len(Top.kids) = 1
         /\ Top.at = "call" \/ (Top.at = "look" /\ Top.proc \in {"unary", "primary"}) =>
              Len(Top.kids) = 0 /\ Top.kids = <<>>
         /\ Top.proc = "primary" /\ Top.at = "close" => Len(Top.kids) = 1
         /\ Top.proc = "unary" /\ Top.at = "pass" => Len(Top.kids) = 1
         /\ Top.at \in {"call", "look", "op", "pass"} \/ Top.proc \in {"cond", "primary"} =>
              Top.op = 0 /\ OpOf(Top) = {}
         /\ OpOf(Top) = Some(Top.op)
         /\ Top.proc \notin {"decl"} \cup Losing
<1>1. Enough(Top, Len(Top.kids)) /\ Len(Top.kids) \in Nat
  BY HoldsKids DEF TopHolds
<1>2. /\ Top.proc \in Calling /\ Top.at = "look" => Len(Top.kids) = 1
      /\ Top.at = "call" \/ (Top.at = "look" /\ Top.proc \in {"unary", "primary"}) => Len(Top.kids) = 0
      /\ Top.proc = "primary" /\ Top.at = "close" => Len(Top.kids) = 1
      /\ Top.proc = "unary" /\ Top.at = "pass" => Len(Top.kids) = 1
      /\ Top.op # 0 => /\ Top.at \in {"build", "close", "member"}
                       /\ Top.proc \in Levels \cup {"assign", "unary", "postfix"}
  BY <1>1, ExprEnough
<1>3. Top.proc \notin {"decl"} \cup Losing
  BY ExprNames, StatementDomain DEF Losing
<1>4. Top.at \in {"call", "look", "op", "pass"} \/ Top.proc \in {"cond", "primary"} => Top.op = 0
  BY <1>2, LevelDomain
<1>5. OpOf(Top) = Some(Top.op) /\ (Top.op = 0 => OpOf(Top) = {})
  BY <1>3 DEF OpOf, Some
<1> QED
  BY <1>1, <1>2, <1>3, <1>4, <1>5, NoKids

(* An expression's function calls with what it has.                         *)
LEMMA SameCalls ==
  ASSUME NEW S, TopHolds(S), Top.proc \in ExprProc, New = {}, Top.op = 0,
         NEW at, NEW proc \in Startable, NEW f, FrameIs(f, Top.proc, at, Top.i, Top.kids, Top.op),
         Call(proc, f), at \notin {"call", "member"},
         Top.proc \in Calling /\ at = "look" => Len(Top.kids) = 0,
         Top.proc = "primary" => at = "close" /\ Len(Top.kids) = 0,
         Top.proc = "unary" => at = "pass" /\ Len(Top.kids) = 0
  PROVE  OwnMove(S)
<1>1. Holds(f, S \cup New, Ruled', Lossless')
  BY SameHolds
<1>2. f.proc = Top.proc /\ f.at = at /\ f.op = 0 /\ f.kids = Top.kids
  BY DEF FrameIs
<1>3. /\ f.proc \in Calling /\ f.at = "look" => Len(f.kids) + 1 = 1
      /\ f.proc = "primary" /\ f.at = "close" => Len(f.kids) + 1 = 1
      /\ f.proc = "unary" /\ f.at = "pass" => Len(f.kids) + 1 = 1
  BY <1>2
<1>4. Enough(f, Len(f.kids) + 1)
  <2> DEFINE k == Len(f.kids) + 1
  <2> HIDE DEF k
  <2>1. Enough(f, k)
    BY <1>2, <1>3, ExprEnough DEF k
  <2> QED
    BY <2>1 DEF k
<1> QED
  BY <1>1, <1>4, OwnMoves

(* Or with the operator it has just got.                                    *)
LEMMA GotCalls ==
  ASSUME NEW S, TopHolds(S), Top.proc \in Levels \cup {"assign", "unary", "postfix"},
         NEW t, New = Some(t), Top.op = 0,
         NEW at \in {"build", "close", "member"}, at = "member" => Lossless' = {},
         NEW proc \in Startable, Call(proc, [At(at) EXCEPT !.op = t]), NEW m, Fits(Top, m)
  PROVE  OwnMove(S)
<1> DEFINE f == [At(at) EXCEPT !.op = t]
<1>1. FrameIs(f, Top.proc, at, Top.i, Top.kids, t) /\ Call(proc, f)
  BY FrameFields
<1> HIDE DEF f
<1>2. Top.proc # "decl" /\ Top.proc \in ExprProc /\ Top.proc # "primary"
  BY LevelDomain, ExprNames
<1>3. Holds(f, S \cup New, Ruled', Lossless')
  BY <1>1, <1>2, GotHolds
<1>4. f.proc = Top.proc /\ f.at = at /\ f.op = t
  BY <1>1 DEF FrameIs
<1>5. \A k : Enough(f, k)
  BY <1>2, <1>4, ExprEnough
<1> QED
  BY <1>1, <1>3, <1>5, OwnMoves

(* The one node it has is the result.                                       *)
LEMMA LastReturns ==
  ASSUME NEW S, TopHolds(S), UNCHANGED streamVars, ParserInv, Return(LastKid),
         (Top.proc \in Calling /\ Top.at = "look") \/ (Top.proc = "unary" /\ Top.at = "pass")
  PROVE  OwnMove(S)
<1>1. Top.proc \in ExprProc
  BY DEF ExprProc
<1>2. Len(Top.kids) = 1 /\ Top.op = 0 /\ New = {}
  BY <1>1, ExprTop, GotNew
<1> QED
  BY <1>2, LastOwns, OwnMoves

(* A row of one.                                                            *)
LEMMA RowOne ==
  ASSUME NEW x, NEW S, NEW K, NEW X, Owns(x, S, K, X)
  PROVE  Row(<<x>>, {}, S, K, X)
<1>1. Row(<<>>, {}, {}, K, X)
  BY RowNone
<1>2. Row(Append(<<>>, x), {}, {} \cup S, K, X)
  <2>1. {} \cap S = {}
    OBVIOUS
  <2> QED
    BY <1>1, <2>1, RowAppend
<1>3. Append(<<>>, x) = <<x>> /\ {} \cup S = S
  OBVIOUS
<1> QED
  BY <1>2, <1>3

(* A level calls the next one.                                              *)
LEMMA CallFirstOwns ==
  ASSUME ParserInv, StackInv, OwnTokens, NEW m, Fits(Top, m), NEW S, TopHolds(S), CallFirst
  PROVE  OwnMove(S)
<1>1. /\ Top.at = "call" /\ New = {} /\ Call(Callee[Top.proc], At("look"))
      /\ Top.proc \in Calling
  BY GotNew DEF CallFirst, Fits, MayBeAt
<1>2. Top.proc \in ExprProc /\ Callee[Top.proc] \in Startable /\ Top.proc \notin {"primary", "unary"}
  BY <1>1, CalleesStart, CalleeDomain DEF ExprProc
<1>3. FrameIs(At("look"), Top.proc, "look", Top.i, Top.kids, Top.op)
  BY FrameFields
<1>4. Top.op = 0 /\ Len(Top.kids) = 0
  BY <1>1, <1>2, ExprTop
<1> QED
  BY <1>1, <1>2, <1>3, <1>4, SameCalls

(* A level takes its operator, or returns what it has.                      *)
LEMMA LookLevelOwns ==
  ASSUME ParserInv, StackInv, OwnTokens, NEW m, Fits(Top, m), NEW S, TopHolds(S), LookLevel
  PROVE  OwnMove(S)
<1>1. Top.proc \in Levels /\ Top.at = "look"
  BY DEF LookLevel, Looked, Looks
<1>2. Top.proc \in Calling /\ Top.proc \in ExprProc /\ Operand[Top.proc] \in Startable
  BY <1>1, ExpressionNames, CalleesStart DEF ExprProc
<1>3. CASE Get(cache) /\ Call(Operand[Top.proc], [At("build") EXCEPT !.op = cache])
  <2>1. New = Some(cache) /\ Top.op = 0
    BY <1>1, <1>2, <1>3, GotNew, ExprTop
  <2> QED
    BY <1>1, <1>2, <1>3, <2>1, GotCalls
<1>4. CASE Return(LastKid) /\ UNCHANGED streamVars
  BY <1>1, <1>2, <1>4, LastReturns
<1> QED
  BY <1>3, <1>4, Zenon DEF LookLevel

(* A node over two operands goes on as the left one.                        *)
LEMMA BuildOwns ==
  ASSUME ParserInv, StackInv, OwnTokens, NEW m, Fits(Top, m), NEW S, TopHolds(S), Build
  PROVE  OwnMove(S)
<1>1. /\ Top.at = "build" /\ New = {}
      /\ Top.proc \in Levels \cup {"assign", "cond", "unary"}
  BY GotNew DEF Build, Fits, MayBeAt
<1>2. Top.proc \in ExprProc
  BY <1>1, LevelDomain, ExprNames
<1>3. OpOf(Top) = Some(Top.op) /\ (Top.proc = "cond" => Top.op = 0 /\ OpOf(Top) = {})
  BY <1>2, ExprTop
<1>4. ASSUME NEW kind \in {"BINARY", "ASSIGN", "UNARY"}
      PROVE  Owns(Node(kind, Top.op, Top.kids), S \cup New, Ruled', Lossless')
  <2>1. kind \in Operators /\ kind # "uninit"
    BY DEF Operators
  <2>2. OwnToken(Node(kind, Top.op, Top.kids)) = OpOf(Top)
    BY <1>3, <2>1, NodeFields DEF OwnToken
  <2> QED
    BY <1>1, <2>1, <2>2, OverOwns
<1>5. CASE /\ Top.proc \in Levels
           /\ Become([Frame(Top.proc, "look") EXCEPT !.kids = <<Node("BINARY", Top.op, Top.kids)>>])
  <2> DEFINE x == Node("BINARY", Top.op, Top.kids)
             f == [Frame(Top.proc, "look") EXCEPT !.kids = <<x>>]
  <2>1. Owns(x, S \cup New, Ruled', Lossless')
    BY <1>4
  <2>2. Become(f) /\ FrameIs(f, Top.proc, "look", 1, <<x>>, 0)
    BY <1>5, FrameFields
  <2> HIDE DEF f, x
  <2>3. Row(<<x>>, {}, S \cup New, Ruled', Lossless')
    BY <2>1, RowOne
  <2>4. f.proc = Top.proc /\ f.at = "look" /\ f.op = 0 /\ f.kids = <<x>>
    BY <2>2 DEF FrameIs
  <2>5. OpOf(f) = {} /\ f.proc \notin Losing
    BY <1>2, <2>4, ExprTop DEF OpOf, Some
  <2>6. Holds(f, S \cup New, Ruled', Lossless')
    BY <2>3, <2>4, <2>5 DEF Holds
  <2>7. Len(f.kids) = 1 /\ f.proc \notin {"unary", "primary"}
    BY <1>5, <2>4, LevelDomain
  <2>8. Enough(f, Len(f.kids))
    BY <1>2, <2>4, <2>7, ExprEnough
  <2> QED
    BY <2>2, <2>6, <2>8, OwnMoves
<1>6. CASE Top.proc = "assign" /\ Return(Node("ASSIGN", Top.op, Top.kids))
  BY <1>4, <1>6, OwnMoves
<1>7. CASE Top.proc = "unary" /\ Return(Node("UNARY", Top.op, Top.kids))
  BY <1>4, <1>7, OwnMoves
<1>8. CASE Top.proc = "cond" /\ Return(Node("TERNARY", 0, Top.kids))
  <2>1. Return(Node("TERNARY", Top.op, Top.kids))
    BY <1>3, <1>8
  <2>2. OwnToken(Node("TERNARY", Top.op, Top.kids)) = OpOf(Top)
    BY <1>3, <1>8, NodeFields DEF OwnToken, Operators
  <2>3. Owns(Node("TERNARY", Top.op, Top.kids), S \cup New, Ruled', Lossless')
    BY <1>1, <2>2, OverOwns DEF Conditionals
  <2> QED
    BY <2>1, <2>3, OwnMoves
<1>9. /\ Top.proc \in Levels =>
           Become([Frame(Top.proc, "look") EXCEPT !.kids = <<Node("BINARY", Top.op, Top.kids)>>])
      /\ Top.proc = "assign" => Return(Node("ASSIGN", Top.op, Top.kids))
      /\ Top.proc = "unary" => Return(Node("UNARY", Top.op, Top.kids))
      /\ Top.proc = "cond" => Return(Node("TERNARY", 0, Top.kids))
  <2>1. "assign" \notin Levels /\ "cond" \notin Levels /\ "unary" \notin Levels
    BY LevelDomain
  <2> QED
    BY <2>1 DEF Build
<1> QED
  BY <1>1, <1>5, <1>6, <1>7, <1>8, <1>9

(* The operator of an assignment is eaten and nobody's.                     *)
LEMMA LookAssignOwns ==
  ASSUME ParserInv, StackInv, OwnTokens, NEW m, Fits(Top, m), NEW S, TopHolds(S), LookAssign
  PROVE  OwnMove(S)
<1>1. Top.proc = "assign" /\ Top.at = "look" /\ "assign" \in Calling /\ "assign" \in ExprProc
  BY CalleeDomain DEF LookAssign, Looked, Looks, ExprProc
<1>2. CASE Eat(cache) /\ Become(At("op"))
  <2> DEFINE f == At("op")
  <2>1. New = {} /\ Top.op = 0 /\ Become(f) /\ FrameIs(f, Top.proc, "op", Top.i, Top.kids, Top.op)
    BY <1>1, <1>2, GotNew, ExprTop, FrameFields
  <2> HIDE DEF f
  <2>2. Holds(f, S \cup New, Ruled', Lossless')
    BY <2>1, SameHolds
  <2>3. f.proc = "assign" /\ f.at = "op" /\ f.op = 0
    BY <1>1, <2>1 DEF FrameIs
  <2>4. Enough(f, Len(f.kids))
    BY <1>1, <2>3, ExprEnough
  <2> QED
    BY <2>1, <2>2, <2>4, OwnMoves
<1>3. CASE Return(LastKid) /\ UNCHANGED streamVars
  BY <1>1, <1>3, LastReturns
<1> QED
  BY <1>2, <1>3, Zenon DEF LookAssign

(* What follows an assignment operator is its operator token.               *)
LEMMA AssignOpOwns ==
  ASSUME ParserInv, StackInv, OwnTokens, NEW m, Fits(Top, m), NEW S, TopHolds(S), AssignOp
  PROVE  OwnMove(S)
<1>1. Top.at = "op" /\ Top.proc = "assign"
  BY DEF AssignOp, Fits, MayBeAt
<1>2. PICK t : Get(t) /\ Call("assign", [At("build") EXCEPT !.op = t])
  BY Zenon DEF AssignOp
<1>3. Top.proc \in ExprProc /\ "assign" \in Startable
  BY <1>1, ExprNames
<1>4. New = Some(t) /\ Top.op = 0
  BY <1>1, <1>2, <1>3, GotNew, ExprTop
<1> QED
  BY <1>1, <1>2, <1>3, <1>4, GotCalls

(* So is the question mark.                                                 *)
LEMMA LookCondOwns ==
  ASSUME ParserInv, StackInv, OwnTokens, NEW m, Fits(Top, m), NEW S, TopHolds(S), LookCond
  PROVE  OwnMove(S)
<1>1. Top.proc = "cond" /\ Top.at = "look" /\ "cond" \in Calling /\ "cond" \in ExprProc
  BY CalleeDomain DEF LookCond, Looked, Looks, ExprProc
<1>2. CASE Eat(cache) /\ Call("expr", At("close"))
  <2>1. New = {} /\ Top.op = 0 /\ "expr" \in Startable
    BY <1>1, <1>2, GotNew, ExprTop, ExprNames
  <2>2. FrameIs(At("close"), Top.proc, "close", Top.i, Top.kids, Top.op)
    BY FrameFields
  <2> QED
    BY <1>1, <1>2, <2>1, <2>2, SameCalls
<1>3. CASE Return(LastKid) /\ UNCHANGED streamVars
  BY <1>1, <1>3, LastReturns
<1> QED
  BY <1>2, <1>3, Zenon DEF LookCond

(* The value of a node no path assigned, at the end of the file only.       *)
LEMMA UninitReturns ==
  ASSUME ParserInv, OwnTokens, Looked, NEW S, TopHolds(S), Top.proc \in {"unary", "primary"},
         Look = "null", UNCHANGED streamVars, Return(Uninit)
  PROVE  OwnMove(S)
<1>1. Top.kids = <<>> /\ OpOf(Top) = {}
  BY LookerFresh DEF Looked, Looks
<1>2. Ruled' = {} /\ New = {} /\ Uninit = Node("uninit", 0, <<>>)
  BY RuledKinds, GotNew DEF Uninit
<1>3. OwnToken(Uninit) = {}
  BY <1>2, NodeFields DEF OwnToken, Operators
<1>4. Owns(Uninit, S \cup New, Ruled', Lossless')
  BY <1>1, <1>2, <1>3, EmptyOwns
<1> QED
  BY <1>4, OwnMoves

(* A unary operator is kept; without a token there is no node.              *)
LEMMA LookUnaryOwns ==
  ASSUME ParserInv, StackInv, OwnTokens, NEW m, Fits(Top, m), NEW S, TopHolds(S), LookUnary
  PROVE  OwnMove(S)
<1>1. Top.proc = "unary" /\ Top.at = "look" /\ Looked /\ "unary" \in ExprProc
  BY ExprNames DEF LookUnary, Looked, Looks
<1>2. Top.kids = <<>> /\ OpOf(Top) = {} /\ Top.op = 0
  BY <1>1, LookerFresh
<1>3. CASE Look = "null" /\ Return(Uninit) /\ UNCHANGED streamVars
  BY <1>1, <1>3, UninitReturns
<1>4. CASE Get(cache) /\ Call("unary", [At("build") EXCEPT !.op = cache])
  <2>1. New = Some(cache) /\ "unary" \in Startable
    BY <1>4, GotNew DEF Startable
  <2> QED
    BY <1>1, <1>2, <1>4, <2>1, GotCalls
<1>5. CASE Call("postfix", At("pass")) /\ UNCHANGED streamVars
  <2>1. New = {} /\ "postfix" \in Startable /\ Len(Top.kids) = 0
    BY <1>2, <1>5, GotNew, ExprNames
  <2>2. FrameIs(At("pass"), Top.proc, "pass", Top.i, Top.kids, Top.op)
    BY FrameFields
  <2> QED
    BY <1>1, <1>2, <1>5, <2>1, <2>2, SameCalls
<1> QED
  BY <1>3, <1>4, <1>5, Zenon DEF LookUnary

(* What it was called for is returned.                                      *)
LEMMA PassPostfixOwns ==
  ASSUME ParserInv, NEW m, Fits(Top, m), NEW S, TopHolds(S), PassPostfix
  PROVE  OwnMove(S)
  BY LastReturns DEF PassPostfix, Fits, MayBeAt

(* A subscript, a member and an increment keep their operator.              *)
LEMMA LookPostfixOwns ==
  ASSUME ParserInv, StackInv, OwnTokens, NEW m, Fits(Top, m), NEW S, TopHolds(S), LookPostfix
  PROVE  OwnMove(S)
<1>1. Top.proc = "postfix" /\ Top.at = "look" /\ "postfix" \in Calling /\ "postfix" \in ExprProc
  BY CalleeDomain DEF LookPostfix, Looked, Looks, ExprProc
<1>2. Top.op = 0 /\ OpOf(Top) = {} /\ "expr" \in Startable /\ "primary" \in Startable
  BY <1>1, ExprTop, ExprNames
<1>3. CASE Get(cache) /\ Call("expr", [At("close") EXCEPT !.op = cache])
  <2>1. New = Some(cache)
    BY <1>3, GotNew
  <2> QED
    BY <1>1, <1>2, <1>3, <2>1, GotCalls
<1>4. CASE Look \in {".", "->"} /\ Get(cache) /\ Call("primary", [At("member") EXCEPT !.op = cache])
  <2>1. New = Some(cache) /\ Lossless' = {}
    BY <1>4, GotNew, LookRules, LosingTokens DEF Get
  <2> QED
    BY <1>1, <1>2, <1>4, <2>1, GotCalls
<1>5. CASE Get(cache) /\ Return(Node("POSTFIX", cache, Top.kids))
  <2>1. New = Some(cache)
    BY <1>5, GotNew
  <2> QED
    BY <1>2, <1>5, <2>1, GotOwns, OwnMoves
<1>6. CASE Return(LastKid) /\ UNCHANGED streamVars
  BY <1>1, <1>6, LastReturns
<1> QED
  BY <1>3, <1>4, <1>5, <1>6, Zenon DEF LookPostfix

(* A constant is a node that has its token.                                 *)
LEMMA LookPrimaryOwns ==
  ASSUME ParserInv, StackInv, OwnTokens, NEW m, Fits(Top, m), NEW S, TopHolds(S), LookPrimary
  PROVE  OwnMove(S)
<1>1. Top.proc = "primary" /\ Top.at = "look" /\ Looked /\ "primary" \in ExprProc
  BY ExprNames DEF LookPrimary, Looked, Looks
<1>2. Top.kids = <<>> /\ OpOf(Top) = {} /\ Top.op = 0 /\ Len(Top.kids) = 0
  BY <1>1, LookerFresh
<1>3. CASE Get(cache) /\ Return(Node("CONST", cache, <<>>))
  <2>1. New = Some(cache)
    BY <1>3, GotNew
  <2>2. Owns(Node("CONST", cache, Top.kids), S \cup New, Ruled', Lossless')
    BY <1>2, <2>1, GotOwns
  <2> QED
    BY <1>2, <1>3, <2>2, OwnMoves
<1>4. CASE Eat(cache) /\ Call("expr", At("close"))
  <2>1. New = {} /\ "expr" \in Startable
    BY <1>4, GotNew, ExprNames
  <2>2. FrameIs(At("close"), Top.proc, "close", Top.i, Top.kids, Top.op)
    BY FrameFields
  <2> QED
    BY <1>1, <1>2, <1>4, <2>1, <2>2, SameCalls
<1>5. CASE Return(IF Look = "null" THEN Uninit ELSE NULL) /\ UNCHANGED streamVars
  <2>1. CASE Look = "null"
    BY <1>1, <1>5, <2>1, UninitReturns
  <2>2. CASE Look # "null"
    <3>1. New = {} /\ NULL = Node("NULL", 0, <<>>) /\ Return(NULL)
      BY <1>5, <2>2, GotNew DEF NULL
    <3>2. OwnToken(NULL) = {}
      BY <3>1, NodeFields DEF OwnToken, Operators
    <3>3. Owns(NULL, S \cup New, Ruled', Lossless')
      BY <1>2, <3>1, <3>2, RuledKinds, EmptyOwns
    <3> QED
      BY <3>1, <3>3, OwnMoves
  <2> QED
    BY <2>1, <2>2
<1>6. CASE Stop("fatal")
  BY <1>6, OwnMoves
<1> QED
  BY <1>3, <1>4, <1>5, <1>6, Zenon DEF LookPrimary

(* The closing token of a bracket.                                          *)
LEMMA CloseOwns ==
  ASSUME ParserInv, StackInv, OwnTokens, NEW m, Fits(Top, m), NEW S, TopHolds(S), Close
  PROVE  OwnMove(S)
<1>1. Top.at = "close" /\ Top.proc \in {"postfix", "primary", "cond"} /\ Top.proc \in ExprProc
  BY ExprNames DEF Close, Fits, MayBeAt
<1>2. New = {}
  BY GotNew, Zenon DEF Close
<1>3. Closed \/ Stop("crash") \/ Stop("fatal")
  BY Zenon DEF Close
<1>4. /\ OpOf(Top) = Some(Top.op)
      /\ Top.proc \in {"primary", "cond"} => Top.op = 0
      /\ Top.proc = "primary" => Len(Top.kids) = 1
  BY <1>1, ExprTop
<1>5. CASE Top.proc = "postfix" /\ Return(Node("POSTFIX", Top.op, Top.kids))
  <2>1. OwnToken(Node("POSTFIX", Top.op, Top.kids)) = OpOf(Top) /\ "POSTFIX" \in Operators
    BY <1>4, NodeFields DEF OwnToken, Operators
  <2>2. Owns(Node("POSTFIX", Top.op, Top.kids), S \cup New, Ruled', Lossless')
    BY <1>2, <2>1, OverOwns
  <2> QED
    BY <1>5, <2>2, OwnMoves
<1>6. CASE Top.proc = "primary" /\ Return(Parenthesised(LastKid))
  <2>1. Owns(LastKid, S \cup New, Ruled', Lossless')
    BY <1>2, <1>4, <1>6, LastOwns
  <2>2. Owns(Parenthesised(LastKid), S \cup New, Ruled', Lossless')
    BY <2>1, OwnsMarked
  <2> QED
    BY <1>6, <2>2, OwnMoves
<1>7. CASE Top.proc = "cond" /\ Call("cond", At("build"))
  <2>1. FrameIs(At("build"), Top.proc, "build", Top.i, Top.kids, Top.op) /\ "cond" \in Startable
    BY FrameFields, ExprNames
  <2> QED
    BY <1>1, <1>2, <1>4, <1>7, <2>1, SameCalls
<1>8. Closed => \/ Top.proc = "postfix" /\ Return(Node("POSTFIX", Top.op, Top.kids))
                \/ Top.proc = "primary" /\ Return(Parenthesised(LastKid))
                \/ Top.proc = "cond" /\ Call("cond", At("build"))
  BY <1>1 DEF Closed
<1> QED
  BY <1>3, <1>5, <1>6, <1>7, <1>8, OwnMoves

(* A member access keeps its operator token in no place ast_destroy looks.  *)
LEMMA MemberOwns ==
  ASSUME ParserInv, StackInv, OwnTokens, NEW m, Fits(Top, m), NEW S, TopHolds(S), Member
  PROVE  OwnMove(S)
<1> DEFINE x == Node("ACCESS", Top.op, Top.kids)
<1>1. Top.at = "member" /\ New = {}
  BY GotNew DEF Member
<1>2. Stop("crash") \/ Stop("fatal") \/ Return(x)
  BY Zenon DEF Member
<1>3. Lossless' = {} /\ S \cup New = S
  BY <1>1 DEF TopHolds, Holds
<1>4. Row(Top.kids, {}, S, Ruled', {})
  <2>1. Row(Top.kids, OpOf(Top), S, Ruled', {})
    BY <1>3 DEF TopHolds, Holds
  <2>2. {} \subseteq OpOf(Top) /\ S \subseteq S
    OBVIOUS
  <2> QED
    BY <2>1, <2>2, RowMore
<1>5. IsNode(x) /\ x.kind = "ACCESS" /\ x.kids = Top.kids /\ x.next = <<>> /\ OwnToken(x) = {}
  BY NodeFields DEF OwnToken, Operators
<1>6. x.kind \notin Ruled'
  BY <1>5, RuledKinds
<1> HIDE DEF x
<1>7. Owns(x, S, Ruled', {})
  BY <1>4, <1>5, <1>6, RowNode
<1> QED
  BY <1>2, <1>3, <1>7, OwnMoves
-----------------------------------------------------------------------------
(* The parser                                                               *)

(* The last source goes when its end is scanned.                            *)
LEMMA ScannedEnd ==
  ASSUME ParserInv, sources # <<>>, Scan, sources' = <<>>
  PROVE  read'[Len(read) + 1].kind = EOF
<1>1. PICK k : /\ read' = Append(read, [kind |-> k, source |-> Head(sources)])
               /\ sources' = IF k = EOF THEN Tail(sources) ELSE sources
  BY DEF Scan, Pop
<1>2. read'[Len(read) + 1].kind = k
  BY <1>1, GivenFacts
<1> QED
  BY <1>1, <1>2

(* Without a source the end of the file is ahead or behind.                 *)
LEMMA OwnTokensStep ==
  ASSUME ParserInv, OwnTokens, LexerCall
  PROVE  OwnTokens'
<1>1. CASE \E t \in NextToken : Get(t) \/ Eat(t)
  <2>1. PICK t : Take(t)
    BY <1>1 DEF Get, Eat
  <2>2. CASE t = 0 /\ sources = <<>> /\ Quiet /\ UNCHANGED <<sources, cache, read, given>>
    BY <2>2 DEF Quiet, OwnTokens, KindOf
  <2>3. CASE /\ t # 0 /\ Takes(read'[t].kind) /\ cache' = 0
             /\ cache # 0 => t = cache /\ UNCHANGED <<sources, read>>
             /\ cache = 0 => Scan /\ t = Len(read) + 1
    <3>1. sources # <<>> /\ GivenKinds' = Append(GivenKinds, read'[t].kind)
      BY <2>3 DEF Takes
    <3>2. CASE sources' # <<>>
      BY <3>2 DEF OwnTokens
    <3>3. CASE sources' = <<>>
      <4>1. cache = 0 /\ Scan /\ t = Len(read) + 1
        BY <2>3, <3>1, <3>3
      <4>2. read'[t].kind = EOF
        BY <3>1, <3>3, <4>1, ScannedEnd
      <4>3. EofIn(GivenKinds')
        <5>1. GivenKinds \in Seq(Range(GivenKinds))
          BY GivenFacts, SeqOfRange
        <5>2. /\ Len(GivenKinds) \in Nat /\ Len(GivenKinds') = Len(GivenKinds) + 1
              /\ GivenKinds'[Len(GivenKinds) + 1] = EOF
          BY <3>1, <4>2, <5>1, Appended
        <5> QED
          BY <5>2 DEF EofIn
      <4> QED
        BY <2>3, <4>3 DEF OwnTokens
    <3> QED
      BY <3>2, <3>3
  <2> QED
    BY <2>1, <2>2, <2>3, TakeKinds
<1>2. CASE UNCHANGED streamVars
  BY <1>2 DEF OwnTokens, GivenKinds, KindOf, streamVars, lexer
<1>3. CASE Peek
  <2>1. sources # <<>> /\ Scan /\ cache' = Len(read) + 1 /\ cache' # 0
    BY <1>3, GivenFacts DEF Peek, Fill
  <2>2. sources' = <<>> => read'[cache'].kind = EOF
    BY <2>1, ScannedEnd
  <2> QED
    BY <2>1, <2>2 DEF OwnTokens, KindOf
<1> QED
  BY <1>1, <1>2, <1>3 DEF LexerCall

(* Every step of the parser but a lookahead is such a move.                 *)
LEMMA NextOwns ==
  ASSUME ParserInv, StackInv, OwnTokens, Next
  PROVE  stack # <<>> /\ (LookAhead \/ \A S : TopHolds(S) => OwnMove(S))
<1>1. stack # <<>>
  BY Zenon DEF Next, LookAhead, LookStmt, LookBlock, Block, LookDecl, Expect, Perform, LookElse,
               GetKeyword, CallFirst, LookLevel, Build, LookAssign, AssignOp, LookCond, LookUnary,
               PassPostfix, LookPostfix, LookPrimary, Close, Member, Looked, Looks, InScript
<1>2. PICK m \in Nat : Fits(Top, m)
  <2>1. PICK m \in Nat : m = Len(read)
    BY GivenFacts
  <2> QED
    BY <1>1, <2>1, BelowFits DEF StackInv
<1>3. ASSUME NEW S, TopHolds(S), ~ LookAhead
      PROVE  OwnMove(S)
  <2>1. CASE LookStmt \/ LookBlock \/ Block \/ LookDecl \/ Expect
    BY <1>2, <1>3, <2>1, LookStmtOwns, LookBlockOwns, BlockOwns, LookDeclOwns, ExpectOwns
  <2>2. CASE Perform \/ LookElse \/ GetKeyword \/ CallFirst \/ LookLevel
    BY <1>2, <1>3, <2>2, PerformOwns, LookElseOwns, GetKeywordOwns, CallFirstOwns, LookLevelOwns
  <2>3. CASE Build \/ LookAssign \/ AssignOp \/ LookCond \/ LookUnary
    BY <1>2, <1>3, <2>3, BuildOwns, LookAssignOwns, AssignOpOwns, LookCondOwns, LookUnaryOwns
  <2>4. CASE PassPostfix \/ LookPostfix \/ LookPrimary \/ Close \/ Member
    BY <1>2, <1>3, <2>4, PassPostfixOwns, LookPostfixOwns, LookPrimaryOwns, CloseOwns, MemberOwns
  <2> QED
    BY <1>3, <2>1, <2>2, <2>3, <2>4, Zenon DEF Next
<1> QED
  BY <1>1, <1>3

(* The parser begins with one call, and no token was handed out.            *)
LEMMA OwnBegins ==
  ASSUME sources # <<>>, held = {}, stack = <<Start("stmt")>>, status = "run"
  PROVE  OwnInv
<1> DEFINE c == Start("stmt")
           own == [i \in 1 .. 1 |-> {}]
<1>1. Holds(c, {}, Ruled, Lossless) /\ Enough(c, 0) /\ c.kids = <<>>
  <2>1. c.kids = <<>> /\ "stmt" \in Startable
    BY DEF Start, Frame, Startable
  <2> QED
    BY <2>1, StartHolds
<1>2. stack = <<c>>
  OBVIOUS
<1> HIDE DEF c
<1>3. Len(stack) = 1 /\ stack[1] = c /\ Len(c.kids) = 0
  BY <1>1, <1>2
<1>4. Parted(stack, own, held, Ruled, Lossless)
  <2>1. \A i : i \in 1 .. 1 <=> i = 1
    OBVIOUS
  <2>2. own[1] = {} /\ Len(c.kids) + (IF 1 = 1 THEN 0 ELSE 1) = 0
    BY <1>3
  <2> HIDE DEF own
  <2> QED
    BY <1>1, <1>3, <2>1, <2>2 DEF Parted
<1> QED
  BY <1>4 DEF OwnInv, OwnTokens, OwnCalls

(* So it does in its own specification.                                     *)
LEMMA OwnInit == Init => OwnInv
<1> SUFFICES ASSUME Init PROVE OwnInv
  OBVIOUS
<1>1. sources # <<>> /\ held = {} /\ stack = <<Start("stmt")>> /\ status = "run"
  BY DEF Init
<1> QED
  BY <1>1, OwnBegins

(* Every step keeps the invariant.                                          *)
LEMMA OwnStep == ParserInv /\ StackInv /\ OwnInv /\ [Next]_vars => OwnInv'
<1> SUFFICES ASSUME ParserInv, StackInv, OwnInv, [Next]_vars PROVE OwnInv'
  OBVIOUS
<1>1. LexerCall
  BY ParserStep DEF ParserInv
<1>2. OwnTokens'
  BY <1>1, OwnTokensStep DEF OwnInv
<1> SUFFICES OwnCalls'
  BY <1>2 DEF OwnInv
<1>3. ASSUME UNCHANGED parser, GivenKinds' = GivenKinds, held' = held
      PROVE  OwnCalls'
  <2>1. stack' = stack /\ status' = status /\ tree' = tree
    BY <1>3 DEF parser
  <2>2. Ruled' = Ruled /\ Lossless' = Lossless
    BY <1>3 DEF Ruled, Lossless
  <2> QED
    BY <1>3, <2>1, <2>2 DEF OwnInv, OwnCalls
<1>4. CASE UNCHANGED vars
  BY <1>3, <1>4, SameEof DEF vars, parser, streamVars
<1>5. CASE LookAhead
  BY <1>3, <1>5, PeekQuiet DEF LookAhead, Quiet, Peek
<1>6. CASE stack # <<>> /\ \A S : TopHolds(S) => OwnMove(S)
  <2>1. status = "run"
    BY <1>6 DEF StackInv
  <2>2. PICK own : Parted(stack, own, held, Ruled, Lossless)
    BY <2>1 DEF OwnInv, OwnCalls
  <2>3. OwnMove(own[Len(stack)])
    BY <1>1, <1>6, <2>2, PartedTop
  <2> QED
    BY <1>1, <1>6, <2>1, <2>2, <2>3, MoveOwns
<1> QED
  BY <1>4, <1>5, <1>6, NextOwns DEF OwnInv

(* Every token lexer_get returned is in one call in progress or in one node *)
(* of what the calls returned, and no two have it; in the tree of a         *)
(* statement that was accepted only a statement or a member access may be   *)
(* without one.                                                             *)
THEOREM TokensOwned == Spec => []OwnInv
  BY ParserInitInv, ParserNextInv, StackInitInv, StackNextInv, OwnInit, OwnStep, PTL DEF Spec
-----------------------------------------------------------------------------
(* Dumping a tree                                                           *)

(* A tree whose tokens are all held; a call for it.                         *)
Stands(x) == \E Q : Q \subseteq held /\ Owns(x, Q, {"uninit"}, {})
AllStand(items) == items \in Seq(Range(items)) /\ \A i \in 1 .. Len(items) : Stands(items[i])
Dumps(e) == Stands(e.node) /\ AllStand(e.rest)
AllDump(s) == s \in Seq(Range(s)) /\ \A i \in 1 .. Len(s) : Dumps(s[i])

(* What such a tree has.                                                    *)
LEMMA StandsParts ==
  ASSUME NEW x, Stands(x)
  PROVE  /\ x.kind # "uninit" /\ OwnToken(x) \subseteq held /\ AllStand(x.kids)
         /\ \/ x.next \in {<<>>, <<Sibling>>}
            \/ \E y : x.next = <<y>> /\ Stands(y)
<1>1. PICK Q : Q \subseteq held /\ Owns(x, Q, {"uninit"}, {})
  BY DEF Stands
<1>2. /\ Shape(x, {"uninit"}, {})
      /\ \/ x.next \in {<<>>, <<Sibling>>}
         \/ \E y, P : x.next = <<y>> /\ P \subseteq Q /\ Owns(y, P, {"uninit"}, {})
  BY <1>1, OwnsParts
<1>3. PICK R : /\ Shares(x.kids, OwnToken(x), Q, {}, R)
               /\ \A i \in 1 .. Len(x.kids) : Owns(x.kids[i], R[i], {"uninit"}, {})
  BY <1>1, OwnsParts
<1>4. \A y, P : P \subseteq Q /\ Owns(y, P, {"uninit"}, {}) => Stands(y)
  BY <1>1 DEF Stands
<1>5. x.kind # "uninit"
  BY <1>2 DEF Shape
<1>6. /\ x.kids \in Seq(Range(x.kids)) /\ OwnToken(x) \subseteq Q
      /\ \A i \in 1 .. Len(x.kids) : R[i] \subseteq Q
  BY <1>3 DEF Shares
<1>7. \A i \in 1 .. Len(x.kids) : Stands(x.kids[i])
  BY <1>3, <1>4, <1>6
<1>8. \/ x.next \in {<<>>, <<Sibling>>}
      \/ \E y : x.next = <<y>> /\ Stands(y)
  BY <1>2, <1>4, Zenon
<1> QED
  BY <1>1, <1>5, <1>6, <1>7, <1>8 DEF AllStand

(* No call, and one.                                                        *)
LEMMA DumpsOne ==
  /\ AllDump(<<>>) /\ AllStand(<<>>)
  /\ \A e : Dumps(e) => AllDump(<<e>>)
  /\ \A x : Stands(x) => Dumps(Entry(x)) /\ Entry(x).node = x
<1>1. AllDump(<<>>) /\ AllStand(<<>>)
  BY EmptySeq DEF AllDump, AllStand
<1>2. ASSUME NEW e, Dumps(e) PROVE AllDump(<<e>>)
  <2> DEFINE s == <<e>>
  <2>1. s \in Seq({e}) /\ Len(s) = 1 /\ s[1] = e
    OBVIOUS
  <2> HIDE DEF s
  <2>2. s \in Seq(Range(s)) /\ \A i \in 1 .. Len(s) : s[i] = e
    BY <2>1, SeqOfRange
  <2>3. AllDump(s)
    BY <1>2, <2>2 DEF AllDump
  <2> QED
    BY <2>3 DEF s
<1>3. ASSUME NEW x, Stands(x) PROVE Dumps(Entry(x)) /\ Entry(x).node = x
  <2> DEFINE e == Entry(x)
  <2>1. e.node = x /\ e.rest = <<>>
    BY DEF Entry
  <2> HIDE DEF e
  <2>2. Dumps(e)
    BY <1>1, <1>3, <2>1 DEF Dumps
  <2> QED
    BY <2>1, <2>2 DEF e
<1> QED
  BY <1>1, <1>2, <1>3

(* The first node of a list, which leads to the others.                     *)
LEMMA DumpsFirst ==
  ASSUME NEW items, AllStand(items)
  PROVE  AllDump(First(items))
<1>1. CASE items = <<>>
  BY <1>1, DumpsOne DEF First
<1>2. CASE items # <<>>
  <2> DEFINE e == [node |-> Head(items), rest |-> Tail(items)]
  <2>1. items \in Seq(Range(items)) /\ Len(items) \in Nat \ {0} /\ Head(items) = items[1]
    BY <1>2, EmptySeq DEF AllStand
  <2>2. /\ Tail(items) \in Seq(Range(items)) /\ Len(Tail(items)) = Len(items) - 1
        /\ \A i \in 1 .. Len(Tail(items)) : Tail(items)[i] = items[i + 1]
    BY <1>2, <2>1, HeadTailProperties
  <2>3. Stands(Head(items))
    BY <2>1 DEF AllStand
  <2>4. \A i \in 1 .. Len(Tail(items)) : i + 1 \in 1 .. Len(items)
    BY <2>1, <2>2
  <2>5. AllStand(Tail(items))
    BY <2>2, <2>4, SeqOfRange DEF AllStand
  <2>6. e.node = Head(items) /\ e.rest = Tail(items)
    OBVIOUS
  <2>7. First(items) = <<e>>
    BY <1>2 DEF First
  <2> HIDE DEF e
  <2> QED
    BY <2>3, <2>5, <2>6, <2>7, DumpsOne DEF Dumps
<1> QED
  BY <1>1, <1>2

(* What a node's next leads to.                                             *)
LEMMA DumpsNext ==
  ASSUME NEW e, Dumps(e)
  PROVE  AllDump(NextOf(e))
<1>1. \/ e.node.next \in {<<>>, <<Sibling>>}
      \/ \E y : e.node.next = <<y>> /\ Stands(y)
  BY StandsParts DEF Dumps
<1>2. CASE e.node.next = <<>>
  <2>1. NextOf(e) = <<>>
    BY <1>2 DEF NextOf
  <2> QED
    BY <2>1, DumpsOne
<1>3. CASE e.node.next = <<Sibling>>
  <2>1. e.node.next # <<>>
    BY <1>3
  <2>2. NextOf(e) = First(e.rest)
    BY <1>3, <2>1, Zenon DEF NextOf
  <2> QED
    BY <2>2, DumpsFirst DEF Dumps
<1>4. CASE e.node.next \notin {<<>>, <<Sibling>>}
  <2>1. PICK y : e.node.next = <<y>> /\ Stands(y)
    BY <1>1, <1>4
  <2>2. e.node.next[1] = y
    BY <2>1
  <2>3. NextOf(e) = <<Entry(e.node.next[1])>>
    BY <1>4, Zenon DEF NextOf
  <2> QED
    BY <2>1, <2>2, <2>3, DumpsOne
<1> QED
  BY <1>2, <1>3, <1>4

(* The nodes below one.                                                     *)
LEMMA KidsFacts ==
  ASSUME NEW x, x.kids \in Seq(Range(x.kids))
  PROVE  /\ Len(x.kids) \in Nat /\ Kids(x) \in Seq(Range(Kids(x))) /\ Len(Kids(x)) = Len(x.kids)
         /\ \A i \in 1 .. Len(x.kids) : Kids(x)[i] = Entry(x.kids[i])
<1>1. DOMAIN x.kids = 1 .. Len(x.kids) /\ Len(x.kids) \in Nat
  BY LenProperties
<1> DEFINE s == Kids(x)
<1>2. s = [i \in 1 .. Len(x.kids) |-> Entry(x.kids[i])]
  BY <1>1 DEF Kids
<1> HIDE DEF s
<1> DEFINE S == {Entry(x.kids[i]) : i \in 1 .. Len(x.kids)}
<1>3. s \in [1 .. Len(x.kids) -> S]
  BY <1>2
<1> HIDE DEF S
<1>4. s \in Seq(S) /\ Len(s) = Len(x.kids)
  BY <1>1, <1>3
<1>5. s \in Seq(Range(s))
  BY <1>4, SeqOfRange
<1>6. \A i \in 1 .. Len(x.kids) : s[i] = Entry(x.kids[i])
  BY <1>2
<1> QED
  BY <1>1, <1>4, <1>5, <1>6 DEF s

(* They can be dumped.                                                      *)
LEMMA DumpsKids ==
  ASSUME NEW x, AllStand(x.kids)
  PROVE  AllDump(Kids(x))
<1>1. /\ Len(x.kids) \in Nat /\ Kids(x) \in Seq(Range(Kids(x))) /\ Len(Kids(x)) = Len(x.kids)
      /\ \A i \in 1 .. Len(x.kids) : Kids(x)[i] = Entry(x.kids[i])
  BY KidsFacts DEF AllStand
<1>2. \A i \in 1 .. Len(x.kids) : Dumps(Entry(x.kids[i]))
  BY DumpsOne DEF AllStand
<1> QED
  BY <1>1, <1>2 DEF AllDump

(* Two sequences of calls, the second turned around.                        *)
LEMMA Turned ==
  ASSUME NEW t, t \in Seq(Range(t))
  PROVE  /\ Len(t) \in Nat /\ Reverse(t) \in Seq(Range(t)) /\ Len(Reverse(t)) = Len(t)
         /\ \A i \in 1 .. Len(t) : Len(t) + 1 - i \in 1 .. Len(t) /\ Reverse(t)[i] = t[Len(t) + 1 - i]
<1>1. Len(t) \in Nat
  BY LenProperties
<1> DEFINE r == Reverse(t)
<1>2. r = [i \in 1 .. Len(t) |-> t[(Len(t) - i) + 1]]
  BY DEF Reverse
<1>3. \A i \in 1 .. Len(t) : Len(t) + 1 - i \in 1 .. Len(t) /\ (Len(t) - i) + 1 = Len(t) + 1 - i
  BY <1>1
<1>4. \A i \in 1 .. Len(t) : t[Len(t) + 1 - i] \in Range(t)
  BY <1>3, ElementOfSeq
<1>5. \A i \in 1 .. Len(t) : r[i] = t[Len(t) + 1 - i]
  BY <1>2, <1>3
<1>6. r \in [1 .. Len(t) -> Range(t)]
  BY <1>2, <1>3, <1>4
<1> HIDE DEF r
<1>7. r \in Seq(Range(t)) /\ Len(r) = Len(t)
  BY <1>1, <1>6
<1> QED
  BY <1>1, <1>3, <1>5, <1>7 DEF r

(* One after the other.                                                     *)
LEMMA Joined ==
  ASSUME NEW s, NEW t, s \in Seq(Range(s)), t \in Seq(Range(t))
  PROVE  /\ s \o t \in Seq(Range(s \o t)) /\ Len(s) \in Nat /\ Len(t) \in Nat
         /\ Len(s \o t) = Len(s) + Len(t)
         /\ \A i \in 1 .. Len(s) : (s \o t)[i] = s[i]
         /\ \A i \in 1 .. Len(s) + Len(t) : i \notin 1 .. Len(s) =>
              i - Len(s) \in 1 .. Len(t) /\ (s \o t)[i] = t[i - Len(s)]
<1> DEFINE S == Range(s) \cup Range(t)
           r == s \o t
<1>1. s \in Seq(S) /\ t \in Seq(S)
  BY SeqMonotonic
<1> HIDE DEF S
<1>2. Len(s) \in Nat /\ Len(t) \in Nat
  BY <1>1, LenProperties
<1>3. /\ r \in Seq(S) /\ Len(r) = Len(s) + Len(t)
      /\ \A i \in 1 .. Len(s) + Len(t) : r[i] = IF i <= Len(s) THEN s[i] ELSE t[i - Len(s)]
  BY <1>1, ConcatProperties
<1> HIDE DEF r
<1>4. r \in Seq(Range(r))
  BY <1>3, SeqOfRange
<1>5. \A i \in 1 .. Len(s) : r[i] = s[i]
  BY <1>2, <1>3
<1>6. \A i \in 1 .. Len(s) + Len(t) : i \notin 1 .. Len(s) =>
        i - Len(s) \in 1 .. Len(t) /\ r[i] = t[i - Len(s)]
  BY <1>2, <1>3
<1> QED
  BY <1>2, <1>3, <1>4, <1>5, <1>6 DEF r

(* So of calls that can be made.                                            *)
LEMMA DumpsJoined ==
  ASSUME NEW s, NEW t, AllDump(s), AllDump(t)
  PROVE  AllDump(s \o t) /\ AllDump(Reverse(t))
<1>1. s \in Seq(Range(s)) /\ t \in Seq(Range(t))
  BY DEF AllDump
<1> DEFINE r == s \o t
           u == Reverse(t)
<1>2. /\ r \in Seq(Range(r)) /\ Len(r) = Len(s) + Len(t)
      /\ \A i \in 1 .. Len(s) : r[i] = s[i]
      /\ \A i \in 1 .. Len(s) + Len(t) : i \notin 1 .. Len(s) =>
           i - Len(s) \in 1 .. Len(t) /\ r[i] = t[i - Len(s)]
  BY <1>1, Joined
<1>3. /\ u \in Seq(Range(t)) /\ Len(u) = Len(t)
      /\ \A i \in 1 .. Len(t) : Len(t) + 1 - i \in 1 .. Len(t) /\ u[i] = t[Len(t) + 1 - i]
  BY <1>1, Turned
<1> HIDE DEF r, u
<1>4. AllDump(r)
  BY <1>2, Zenon DEF AllDump
<1>5. AllDump(u)
  BY <1>3, SeqOfRange DEF AllDump
<1> QED
  BY <1>4, <1>5 DEF r, u

(* Whatever a dump goes on to can be dumped.                                *)
LEMMA DumpsOn ==
  ASSUME NEW e, Dumps(e)
  PROVE  AllDump(Dumped(e))
<1>1. AllStand(e.node.kids)
  BY StandsParts DEF Dumps
<1>2. /\ AllDump(Kids(e.node)) /\ AllDump(NextOf(e)) /\ AllDump(First(e.node.kids))
      /\ AllDump(<<>>)
  BY <1>1, DumpsKids, DumpsNext, DumpsFirst, DumpsOne
<1>3. /\ AllDump(Kids(e.node) \o NextOf(e)) /\ AllDump(First(e.node.kids) \o NextOf(e))
  BY <1>2, DumpsJoined
<1>4. \/ Dumped(e) = Kids(e.node) \/ Dumped(e) = Kids(e.node) \o NextOf(e)
      \/ Dumped(e) = First(e.node.kids) \o NextOf(e) \/ Dumped(e) = <<>>
  <2>1. CASE e.node.kind \in Operators \cup Conditionals
    <3>1. e.node.kind \notin Loops /\ e.node.kind # "BLOCK"
      BY <2>1 DEF Operators, Conditionals, Loops
    <3> QED
      BY <2>1, <3>1, Zenon DEF Dumped
  <2>2. CASE e.node.kind \in Loops
    <3>1. e.node.kind \notin Operators \cup Conditionals /\ e.node.kind # "BLOCK"
      BY <2>2 DEF Operators, Conditionals, Loops
    <3> QED
      BY <2>2, <3>1, Zenon DEF Dumped
  <2>3. CASE e.node.kind = "BLOCK"
    <3>1. e.node.kind \notin Operators \cup Conditionals /\ e.node.kind \notin Loops
      BY <2>3 DEF Operators, Conditionals, Loops
    <3> QED
      BY <2>3, <3>1, Zenon DEF Dumped
  <2>4. CASE e.node.kind \notin Operators \cup Conditionals \cup Loops \cup {"BLOCK"}
    BY <2>4, Zenon DEF Dumped
  <2> QED
    BY <2>1, <2>2, <2>3, <2>4
<1> QED
  BY <1>2, <1>3, <1>4
-----------------------------------------------------------------------------
(* Destroying a tree                                                        *)

(* The trees to be destroyed have tokens of H each, none has another's, and *)
(* of the tokens X in H none is missing.                                    *)
Frees(own, v, H, X) ==
  /\ v \in Seq(Range(v))
  /\ \A i \in 1 .. Len(v) : own[i] \subseteq H /\ Owns(v[i].node, own[i], {}, X)
  /\ \A i, j \in 1 .. Len(v) : i # j => own[i] \cap own[j] = {}
  /\ \A t \in H \cap X : \E i \in 1 .. Len(v) : t \in own[i]

(* What ast_destroy goes on to, D, has what the node has beside a token W.  *)
Leaves(D, W, S, X, R) ==
  /\ D \in Seq(Range(D)) /\ W \subseteq S
  /\ \A i \in 1 .. Len(D) : R[i] \subseteq S \ W /\ Owns(D[i].node, R[i], {}, X)
  /\ \A i, j \in 1 .. Len(D) : i # j => R[i] \cap R[j] = {}
  /\ \A t \in S \cap X : t \in W \/ \E i \in 1 .. Len(D) : t \in R[i]

(* So it is.                                                                *)
LEMMA DestroyedKids ==
  ASSUME NEW x, NEW S, NEW X, Owns(x, S, {}, X)
  PROVE  \E R : Leaves(Destroyed(x), OwnToken(x), S, X, R)
<1>1. Shape(x, {}, X)
  BY OwnsParts
<1>2. PICK R : /\ Shares(x.kids, OwnToken(x), S, X, R)
               /\ \A i \in 1 .. Len(x.kids) : Owns(x.kids[i], R[i], {}, X)
  BY OwnsParts
<1>3. /\ x.kids \in Seq(Range(x.kids)) /\ OwnToken(x) \subseteq S
      /\ \A i \in 1 .. Len(x.kids) : R[i] \subseteq S \ OwnToken(x)
      /\ \A i, j \in 1 .. Len(x.kids) : i # j => R[i] \cap R[j] = {}
      /\ \A t \in S \cap X : t \in OwnToken(x) \/ \E i \in 1 .. Len(x.kids) : t \in R[i]
  BY <1>2 DEF Shares
<1>4. CASE x.kind \in Operators \cup Conditionals
  <2>1. Destroyed(x) = Kids(x)
    BY <1>4 DEF Destroyed
  <2>2. /\ Kids(x) \in Seq(Range(Kids(x))) /\ Len(Kids(x)) = Len(x.kids)
        /\ \A i \in 1 .. Len(x.kids) : Kids(x)[i] = Entry(x.kids[i])
    BY <1>3, KidsFacts
  <2> DEFINE D == Destroyed(x)
  <2>3. \A i \in 1 .. Len(x.kids) : Entry(x.kids[i]).node = x.kids[i]
    BY DEF Entry
  <2>4. D \in Seq(Range(D)) /\ Len(D) = Len(x.kids) /\ \A i \in 1 .. Len(D) : D[i].node = x.kids[i]
    BY <2>1, <2>2, <2>3
  <2> HIDE DEF D
  <2>5. \A i \in 1 .. Len(D) :
          R[i] \subseteq S \ OwnToken(x) /\ Owns(D[i].node, R[i], {}, X)
    BY <1>2, <1>3, <2>4
  <2>6. /\ \A i, j \in 1 .. Len(D) : i # j => R[i] \cap R[j] = {}
        /\ \A t \in S \cap X : t \in OwnToken(x) \/ \E i \in 1 .. Len(D) : t \in R[i]
    BY <1>3, <2>4
  <2>7. Leaves(D, OwnToken(x), S, X, R)
    BY <1>3, <2>4, <2>5, <2>6, Zenon DEF Leaves
  <2> QED
    BY <2>7 DEF D
<1>5. CASE x.kind \notin Operators \cup Conditionals
  <2>1. Destroyed(x) = <<>> /\ Len(<<>>) = 0 /\ <<>> \in Seq(Range(<<>>))
    BY <1>5, EmptySeq DEF Destroyed
  <2>2. x.kids = <<>> \/ X = {}
    BY <1>1, <1>5 DEF Shape
  <2>3. \A t \in S \cap X : t \in OwnToken(x)
    BY <1>3, <2>1, <2>2
  <2>4. Leaves(<<>>, OwnToken(x), S, X, R)
    BY <1>3, <2>1, <2>3 DEF Leaves
  <2> QED
    BY <2>1, <2>4
<1> QED
  BY <1>4, <1>5

(* One call of it: the node's token goes, its parts are to be destroyed.    *)
LEMMA FreesOn ==
  ASSUME NEW v, v # <<>>, NEW own, NEW H, NEW X, Frees(own, v, H, X),
         NEW x, x = v[Len(v)].node, NEW rest, rest = SubSeq(v, 1, Len(v) - 1)
  PROVE  /\ OwnToken(x) \subseteq H
         /\ \E o : Frees(o, rest \o Reverse(Destroyed(x)), H \ OwnToken(x), X)
<1>1. PICK n \in Nat \ {0} : Len(v) = n
  BY EmptySeq DEF Frees
<1>2. /\ v \in Seq(Range(v))
      /\ \A i \in 1 .. n : own[i] \subseteq H /\ Owns(v[i].node, own[i], {}, X)
      /\ \A i, j \in 1 .. n : i # j => own[i] \cap own[j] = {}
      /\ \A t \in H \cap X : \E i \in 1 .. n : t \in own[i]
  BY <1>1 DEF Frees
<1>3. n \in 1 .. n /\ n \notin 1 .. n - 1 /\ \A i : i \in 1 .. n <=> i \in 1 .. n - 1 \/ i = n
  BY <1>1
<1> DEFINE D == Destroyed(x)
           W == OwnToken(x)
           S == own[n]
<1>0. PICK R : Leaves(D, W, S, X, R)
  <2>1. Owns(x, S, {}, X)
    BY <1>1, <1>2, <1>3
  <2> QED
    BY <2>1, DestroyedKids
<1> HIDE DEF D, W
<1>4. /\ D \in Seq(Range(D)) /\ W \subseteq S
      /\ \A i \in 1 .. Len(D) : R[i] \subseteq S \ W /\ Owns(D[i].node, R[i], {}, X)
      /\ \A i, j \in 1 .. Len(D) : i # j => R[i] \cap R[j] = {}
      /\ \A t \in S \cap X : t \in W \/ \E i \in 1 .. Len(D) : t \in R[i]
  BY <1>0, Zenon DEF Leaves
<1>5. rest \in Seq(Range(rest)) /\ Len(rest) = n - 1 /\ \A i \in 1 .. n - 1 : rest[i] = v[i]
  <2>1. \A i \in 1 .. n - 1 : v[i] \in Range(v)
    BY <1>1, <1>2, <1>3, ElementOfSeq
  <2>2. /\ rest \in Seq(Range(v)) /\ Len(rest) = IF 1 <= n - 1 THEN n - 1 - 1 + 1 ELSE 0
        /\ \A i \in 1 .. n - 1 - 1 + 1 : rest[i] = v[1 + i - 1]
    BY <1>1, <2>1, SubSeqProperties
  <2>3. Len(rest) = n - 1 /\ \A i \in 1 .. n - 1 : rest[i] = v[i]
    BY <1>1, <2>2
  <2> QED
    BY <2>2, <2>3, SeqOfRange
<1> DEFINE k == Len(D)
           turned == Reverse(D)
           w == rest \o turned
<1>6. /\ k \in Nat /\ turned \in Seq(Range(turned)) /\ Len(turned) = k
      /\ \A i \in 1 .. k : k + 1 - i \in 1 .. k /\ turned[i] = D[k + 1 - i]
  BY <1>4, Turned, SeqOfRange
<1> HIDE DEF turned
<1>7. /\ w \in Seq(Range(w)) /\ Len(w) = n - 1 + k
      /\ \A i \in 1 .. n - 1 : w[i] = rest[i]
      /\ \A i \in 1 .. n - 1 + k : i \notin 1 .. n - 1 =>
           i - (n - 1) \in 1 .. k /\ w[i] = turned[i - (n - 1)]
  <2>1. /\ w \in Seq(Range(w)) /\ Len(w) = Len(rest) + Len(turned)
        /\ \A i \in 1 .. Len(rest) : w[i] = rest[i]
        /\ \A i \in 1 .. Len(rest) + Len(turned) : i \notin 1 .. Len(rest) =>
             i - Len(rest) \in 1 .. Len(turned) /\ w[i] = turned[i - Len(rest)]
    <3>1. rest \in Seq(Range(rest)) /\ turned \in Seq(Range(turned))
      BY <1>5, <1>6
    <3> QED
      BY <3>1, Joined
  <2>2. Len(rest) = n - 1 /\ Len(turned) = k
    BY <1>5, <1>6
  <2> HIDE DEF k, w
  <2> QED
    BY <2>1, <2>2, Zenon
<1> HIDE DEF k, w
<1> PICK m \in Nat : m = n - 1 + k
  BY <1>1, <1>6
<1> DEFINE J == [i \in 1 .. m |-> n + k - i]
           o == [i \in 1 .. m |-> IF i \in 1 .. n - 1 THEN own[i] ELSE R[J[i]]]
           Stay == 1 .. n - 1
           Put == 1 .. m \ Stay
<1>8. \A i \in Put : /\ J[i] \in 1 .. k /\ w[i] = D[J[i]]
                     /\ \A j \in Put : i # j => J[i] # J[j]
  <2> TAKE i \in Put
  <2>1. /\ i \in 1 .. m /\ i \notin 1 .. n - 1 /\ J[i] = n + k - i
        /\ i - (n - 1) \in 1 .. k /\ w[i] = turned[i - (n - 1)]
    BY <1>7
  <2>2. k + 1 - (i - (n - 1)) = J[i]
    BY <1>1, <1>6, <2>1
  <2>3. J[i] \in 1 .. k /\ w[i] = D[J[i]]
    BY <1>6, <2>1, <2>2
  <2>4. \A j \in Put : i # j => J[i] # J[j]
    BY <1>1, <1>6
  <2> QED
    BY <2>3, <2>4
<1>9. \A a \in 1 .. k : \E i \in Put : J[i] = a
  <2> TAKE a \in 1 .. k
  <2>1. n + k - a \in Put /\ n + k - (n + k - a) = a
    BY <1>1, <1>6
  <2>2. J[n + k - a] = a
    BY <2>1
  <2> QED
    BY <2>1, <2>2
<1>10. /\ \A i \in Stay : i \in 1 .. m /\ o[i] = own[i] /\ w[i] = v[i] /\ i \in 1 .. n /\ i # n
       /\ \A i \in Put : o[i] = R[J[i]]
       /\ \A i : i \in 1 .. m <=> i \in Stay \/ i \in Put
       /\ \A i \in Stay : i \notin Put
  BY <1>1, <1>5, <1>6, <1>7
<1>11. \A i : i \in 1 .. n <=> i \in Stay \/ i = n
  BY <1>3
<1> HIDE DEF J, o, Stay, Put
<1>12. W \subseteq H
  BY <1>2, <1>3, <1>4
<1>13. ASSUME NEW i \in 1 .. m
       PROVE  o[i] \subseteq H \ W /\ Owns(w[i].node, o[i], {}, X)
  <2>1. CASE i \in Stay
    <3>1. own[i] \cap S = {} /\ own[i] \subseteq H
      BY <1>2, <1>3, <1>10, <2>1
    <3> QED
      BY <1>2, <1>4, <1>10, <2>1, <3>1
  <2>2. CASE i \in Put
    <3>1. S \subseteq H
      BY <1>2, <1>3
    <3>2. J[i] \in 1 .. k /\ w[i] = D[J[i]] /\ o[i] = R[J[i]]
      BY <1>8, <1>10, <2>2
    <3>3. R[J[i]] \subseteq S \ W /\ Owns(D[J[i]].node, R[J[i]], {}, X)
      BY <1>4, <3>2 DEF k
    <3> QED
      BY <3>1, <3>2, <3>3
  <2> QED
    BY <1>10, <2>1, <2>2
<1>14. \A i, j \in 1 .. m : i # j => o[i] \cap o[j] = {}
  <2>1. ASSUME NEW i \in Stay, NEW j \in Stay, i # j PROVE o[i] \cap o[j] = {}
    BY <1>2, <1>10, <2>1
  <2>2. ASSUME NEW i \in Stay, NEW j \in Put PROVE o[i] \cap o[j] = {}
    <3>1. own[i] \cap S = {}
      BY <1>2, <1>3, <1>10
    <3>2. R[J[j]] \subseteq S
      BY <1>4, <1>8 DEF k
    <3> QED
      BY <1>10, <3>1, <3>2
  <2>3. ASSUME NEW i \in Put, NEW j \in Put, i # j PROVE o[i] \cap o[j] = {}
    <3>1. J[i] \in 1 .. Len(D) /\ J[j] \in 1 .. Len(D) /\ J[i] # J[j]
      BY <1>8, <2>3 DEF k
    <3>2. R[J[i]] \cap R[J[j]] = {}
      BY <1>4, <3>1, Zenon
    <3> QED
      BY <1>10, <3>2
  <2>4. \A i, j : o[i] \cap o[j] = o[j] \cap o[i]
    OBVIOUS
  <2> QED
    BY <1>10, <2>1, <2>2, <2>3, <2>4, Zenon
<1>15. \A t \in (H \ W) \cap X : \E i \in 1 .. m : t \in o[i]
  <2> TAKE t \in (H \ W) \cap X
  <2>1. PICK i \in 1 .. n : t \in own[i]
    BY <1>2
  <2>2. CASE i \in Stay
    BY <1>10, <2>1, <2>2
  <2>3. CASE i = n
    <3>1. PICK a \in 1 .. k : t \in R[a]
      BY <1>4, <2>1, <2>3 DEF k
    <3>2. PICK j \in Put : J[j] = a
      BY <1>9
    <3> QED
      BY <1>10, <3>1, <3>2
  <2> QED
    BY <1>11, <2>1, <2>2, <2>3
<1>16. Frees(o, w, H \ W, X)
  <2>1. Len(w) = m
    BY <1>7
  <2> QED
    BY <1>7, <1>13, <1>14, <1>15, <2>1 DEF Frees
<1> QED
  BY <1>12, <1>16 DEF W, w, turned, D
-----------------------------------------------------------------------------
(* The unit                                                                 *)

(* From phase to phase: a parser that has not begun, the parser's calls,    *)
(* the tree with all that is held, and what is left of it to be destroyed.  *)
UnitPhases ==
  /\ phase \in {"create", "register"} => StreamInit /\ tree = NULL
  /\ phase = "compile" => alive /\ StackInv /\ EofInv /\ OwnInv
  /\ phase \in {"dump", "destroy"} => alive /\ Owns(tree, held, {"uninit"}, Lossless)
  /\ phase = "dump" => AllDump(visit)
  /\ phase = "crash" => Call1.node.kind = "DECL"
  /\ phase = "free" => \E own : Frees(own, visit, held, Lossless)
  /\ phase = "over" => held \cap Lossless = {}
UnitInv == StreamInv /\ UnitPhases

(* Nothing is read between the end of the parser and the end of the unit.   *)
LEMMA LosslessKept == UNCHANGED <<read, given>> => Lossless' = Lossless
  BY DEF Lossless, GivenKinds, KindOf

(* A tree with all that is held.                                            *)
LEMMA TreeStands ==
  ASSUME Owns(tree, held, {"uninit"}, Lossless)
  PROVE  Stands(tree) /\ Owns(tree, held, {}, Lossless)
<1>1. Owns(tree, held, {"uninit"}, {}) /\ Owns(tree, held, {}, Lossless)
  BY OwnsLater
<1> QED
  BY <1>1 DEF Stands

(* unit_register makes the parser what it begins as.                        *)
LEMMA RegisterStarts ==
  ASSUME StreamInit, tree = NULL, UnitRegister, phase' = "compile"
  PROVE  Register /\ Init'
<1>1. Register /\ stack' = <<Start("stmt")>> /\ status' = "run" /\ tree' = NULL
  BY DEF UnitRegister
<1>2. sources' = <<1>> /\ registered' = 1
  <2>1. registered' = 1 /\ sources' = <<1>> \o <<>>
    BY <1>1 DEF Register, StreamInit
  <2>2. <<1>> \o <<>> = <<1>>
    BY ConcatEmptySeq
  <2> QED
    BY <2>1, <2>2
<1>3. cache' = 0 /\ read' = <<>> /\ given' = <<>> /\ held' = {} /\ freed' = {} /\ alive' = TRUE
  BY <1>1 DEF Register, StreamInit
<1> QED
  BY <1>1, <1>2, <1>3 DEF Init

(* The node of a call for it.                                               *)
LEMMA TopDumps ==
  ASSUME AllDump(visit), visit # <<>>
  PROVE  /\ Dumps(Call1) /\ AllDump(Rest)
         /\ AllDump(Rest \o Reverse(Dumped(Call1)))
<1>1. visit \in Seq(Range(visit)) /\ Len(visit) \in Nat \ {0}
  BY EmptySeq DEF AllDump
<1>2. Len(visit) \in 1 .. Len(visit) /\ \A i \in 1 .. Len(visit) - 1 : i \in 1 .. Len(visit)
  BY <1>1
<1>3. Dumps(Call1)
  BY <1>2 DEF AllDump, Call1
<1>4. AllDump(Rest)
  <2>1. \A i \in 1 .. Len(visit) - 1 : visit[i] \in Range(visit)
    BY <1>1, <1>2, ElementOfSeq
  <2>2. /\ Rest \in Seq(Range(visit))
        /\ Len(Rest) = IF 1 <= Len(visit) - 1 THEN Len(visit) - 1 - 1 + 1 ELSE 0
        /\ \A i \in 1 .. Len(visit) - 1 - 1 + 1 : Rest[i] = visit[1 + i - 1]
    BY <1>1, <2>1, SubSeqProperties DEF Rest
  <2>3. Len(Rest) = Len(visit) - 1 /\ \A i \in 1 .. Len(visit) - 1 : Rest[i] = visit[i]
    <3>1. PICK n \in Nat \ {0} : n = Len(visit)
      BY <1>1
    <3>2. (IF 1 <= n - 1 THEN n - 1 - 1 + 1 ELSE 0) = n - 1
      OBVIOUS
    <3>3. \A i \in 1 .. n - 1 : i \in 1 .. n - 1 - 1 + 1 /\ 1 + i - 1 = i
      OBVIOUS
    <3>4. \A i \in 1 .. n - 1 : Rest[i] = visit[i]
      BY <2>2, <3>1, <3>3
    <3> QED
      BY <2>2, <3>1, <3>2, <3>4
  <2> QED
    BY <1>2, <2>2, <2>3, SeqOfRange DEF AllDump
<1> QED
  BY <1>3, <1>4, DumpsOn, DumpsJoined

(* The tree to be destroyed next.                                           *)
LEMMA TopFrees ==
  ASSUME NEW own, Frees(own, visit, held, Lossless), visit # <<>>
  PROVE  /\ OwnToken(Call1.node) \subseteq held
         /\ \E o : Frees(o, Rest \o Reverse(Destroyed(Call1.node)), held \ OwnToken(Call1.node), Lossless)
  BY FreesOn DEF Call1, Rest

(* The unit's tokens are used as src/lexer.c lets its callers: a step of    *)
(* the unit is a call of the lexer, or frees a token that is held.          *)
LEMMA UnitCallsLexer == UnitInv /\ [UnitNext]_unitVars => [StreamNext]_streamVars
<1> SUFFICES ASSUME UnitInv, [UnitNext]_unitVars PROVE [StreamNext]_streamVars
  OBVIOUS
<1>1. CASE UnitRegister
  <2>1. CASE UNCHANGED vars
    BY <2>1 DEF vars
  <2>2. CASE phase = "register" /\ Register
    <3>1. alive
      BY <2>2 DEF UnitInv, UnitPhases, StreamInit
    <3> QED
      BY <2>2, <3>1 DEF StreamNext
  <2> QED
    BY <1>1, <2>1, <2>2 DEF UnitRegister
<1>2. CASE UnitCompile
  <2>1. CASE UNCHANGED vars
    BY <2>1 DEF vars
  <2>2. CASE phase = "compile" /\ Next
    <3>1. alive
      BY <2>2 DEF UnitInv, UnitPhases
    <3> QED
      BY <2>2, <3>1, ParserStep, CallIsStreamStep
  <2> QED
    BY <1>2, <2>1, <2>2 DEF UnitCompile
<1>3. CASE UnitDestroy
  <2>1. alive /\ Destroy
    BY <1>3 DEF UnitDestroy, UnitInv, UnitPhases
  <2> QED
    BY <2>1 DEF StreamNext
<1>4. CASE AstDestroy
  <2>1. CASE visit = <<>> /\ UNCHANGED <<held, freed>> /\ UNCHANGED lexer
    BY <2>1 DEF streamVars
  <2>2. CASE /\ visit # <<>> /\ freed' = freed \cup OwnToken(Call1.node)
             /\ held' = held \ OwnToken(Call1.node) /\ UNCHANGED lexer
    <3>1. OwnToken(Call1.node) \subseteq held
      BY <1>4, <2>2, TopFrees DEF AstDestroy, UnitInv, UnitPhases
    <3>2. CASE OwnToken(Call1.node) = {}
      BY <2>2, <3>2 DEF streamVars
    <3>3. CASE OwnToken(Call1.node) # {}
      <4>1. PICK t : OwnToken(Call1.node) = {t}
        BY <3>3 DEF OwnToken, Some
      <4>2. t \in held /\ Free(t)
        BY <2>2, <3>1, <4>1 DEF Free
      <4> QED
        BY <4>2 DEF StreamNext
    <3> QED
      BY <3>2, <3>3
  <2> QED
    BY <1>4, <2>1, <2>2 DEF AstDestroy
<1>5. CASE UNCHANGED vars
  BY <1>5 DEF vars
<1> QED
  BY <1>1, <1>2, <1>3, <1>4, <1>5 DEF UnitNext, UnitCreate, AstDump, unitVars

(* The beginning of the parser, in the next state.                          *)
LEMMA StartsRight == Init => StackInv /\ EofInv /\ OwnInv /\ alive
  BY StackInitInv, EofInit, OwnInit, ParserInitInv DEF ParserInv

(* Every step keeps the phases in order.                                    *)
LEMMA PhasesStep == UnitInv /\ [UnitNext]_unitVars => UnitPhases'
<1> SUFFICES ASSUME UnitInv, [UnitNext]_unitVars PROVE UnitPhases'
  OBVIOUS
<1>1. CASE UnitCreate
  <2>1. phase' = "register" /\ StreamInit /\ tree = NULL /\ UNCHANGED vars
    BY <1>1 DEF UnitCreate, UnitInv, UnitPhases
  <2>2. StreamInit' /\ tree' = NULL
    BY <2>1 DEF vars, streamVars, lexer, parser, StreamInit, NULL
  <2> QED
    BY <2>1, <2>2 DEF UnitPhases
<1>2. CASE UnitRegister
  <2>1. StreamInit /\ tree = NULL
    BY <1>2 DEF UnitRegister, UnitInv, UnitPhases
  <2>2. CASE phase' = "compile"
    <3>1. Init'
      BY <1>2, <2>1, <2>2, RegisterStarts
    <3>2. StackInv' /\ EofInv' /\ OwnInv' /\ alive'
      BY <3>1, StartsRight, PTL
    <3> QED
      BY <2>2, <3>2 DEF UnitPhases
  <2>3. CASE phase' = "returned"
    BY <2>3 DEF UnitPhases
  <2> QED
    BY <1>2, <2>2, <2>3 DEF UnitRegister
<1>3. CASE UnitCompile
  <2>1. alive /\ StackInv /\ EofInv /\ OwnInv /\ ParserInv
    BY <1>3 DEF UnitCompile, UnitInv, UnitPhases, ParserInv
  <2>2. CASE Next /\ phase' = "compile"
    <3>1. alive' /\ StackInv' /\ EofInv' /\ OwnInv'
      BY <2>1, <2>2, ParserStep, StackNextInv, EofStep, OwnStep
    <3> QED
      BY <2>2, <3>1 DEF UnitPhases
  <2>3. CASE status = "done" /\ phase' = "dump" /\ visit' = <<Entry(tree)>> /\ UNCHANGED vars
    <3>1. Ruled = {"uninit"}
      BY <2>1, <2>3 DEF EofInv, EofCalls, Ruled
    <3>2. Owns(tree, held, {"uninit"}, Lossless)
      BY <2>1, <2>3, <3>1 DEF OwnInv, OwnCalls
    <3>3. AllDump(<<Entry(tree)>>)
      BY <3>2, TreeStands, DumpsOne
    <3>4. /\ tree' = tree /\ held' = held /\ alive' = alive /\ Lossless' = Lossless
          /\ Owns(tree', held', {"uninit"}, Lossless')
      <4>1. UNCHANGED <<tree, held, alive, read, given>>
        BY <2>3 DEF vars, streamVars, lexer, parser
      <4> QED
        BY <3>2, <4>1, LosslessKept
    <3>5. AllDump(visit)'
      BY <2>3, <3>3, <3>4 DEF AllDump, Dumps, AllStand, Stands
    <3> QED
      BY <2>1, <2>3, <3>4, <3>5 DEF UnitPhases
  <2> QED
    BY <1>3, <2>2, <2>3 DEF UnitCompile
<1>4. CASE AstDump
  <2>1. /\ alive /\ Owns(tree, held, {"uninit"}, Lossless) /\ AllDump(visit)
        /\ UNCHANGED <<tree, held, alive, read, given>>
    BY <1>4 DEF AstDump, UnitInv, UnitPhases, vars, streamVars, lexer, parser
  <2>2. alive' /\ Owns(tree', held', {"uninit"}, Lossless')
    BY <2>1, LosslessKept
  <2>3. CASE phase' = "destroy"
    BY <2>2, <2>3 DEF UnitPhases
  <2>4. CASE visit # <<>> /\ Call1.node.kind \in {"DECL", "uninit"} /\ phase' = "crash" /\ UNCHANGED visit
    <3>1. Call1.node.kind # "uninit"
      BY <2>1, <2>4, TopDumps, StandsParts DEF Dumps
    <3>2. Call1'.node.kind = "DECL"
      BY <2>4, <3>1 DEF Call1
    <3> QED
      BY <2>4, <3>2 DEF UnitPhases
  <2>5. CASE visit # <<>> /\ visit' = Rest \o Reverse(Dumped(Call1)) /\ phase' = "dump"
    <3>1. AllDump(visit')
      BY <2>1, <2>5, TopDumps
    <3>2. AllDump(visit)'
      BY <2>1, <3>1 DEF AllDump, Dumps, AllStand, Stands
    <3> QED
      BY <2>2, <2>5, <3>2 DEF UnitPhases
  <2> QED
    BY <1>4, <2>3, <2>4, <2>5 DEF AstDump
<1>5. CASE UnitDestroy
  <2>1. /\ phase' = "free" /\ visit' = <<Entry(tree)>> /\ UNCHANGED <<held, read, given>>
        /\ Owns(tree, held, {}, Lossless)
    BY <1>5, TreeStands DEF UnitDestroy, Destroy, UnitInv, UnitPhases
  <2> DEFINE e == Entry(tree)
             own == [i \in 1 .. 1 |-> held]
  <2>2. e.node = tree
    BY DEF Entry
  <2>3. \A i : i \in 1 .. 1 <=> i = 1
    OBVIOUS
  <2>4. own[1] = held
    OBVIOUS
  <2> HIDE DEF e, own
  <2> DEFINE v == <<e>>
  <2>5. v \in Seq({e}) /\ Len(v) = 1 /\ v[1] = e
    OBVIOUS
  <2>6. visit' = v
    BY <2>1 DEF e
  <2> HIDE DEF v
  <2>7. v \in Seq(Range(v))
    BY <2>5, SeqOfRange
  <2>8. Frees(own, v, held, Lossless)
    BY <2>1, <2>2, <2>3, <2>4, <2>5, <2>7 DEF Frees
  <2>9. \E o : Frees(o, visit', held', Lossless')
    BY <2>1, <2>6, <2>8, LosslessKept
  <2> QED
    BY <2>1, <2>9 DEF UnitPhases
<1>6. CASE AstDestroy
  <2>1. UNCHANGED <<read, given>> /\ Lossless' = Lossless
    BY <1>6, LosslessKept DEF AstDestroy, lexer
  <2>2. PICK own : Frees(own, visit, held, Lossless)
    BY <1>6 DEF AstDestroy, UnitInv, UnitPhases
  <2>3. CASE visit = <<>> /\ phase' = "over" /\ held' = held
    <3>1. \A i \in 1 .. Len(visit) : FALSE
      BY <2>3
    <3>2. held \cap Lossless = {}
      BY <2>2, <3>1 DEF Frees
    <3> QED
      BY <2>1, <2>3, <3>2 DEF UnitPhases
  <2>4. CASE /\ visit # <<>> /\ phase' = "free"
             /\ visit' = Rest \o Reverse(Destroyed(Call1.node))
             /\ held' = held \ OwnToken(Call1.node)
    <3>1. \E o : Frees(o, Rest \o Reverse(Destroyed(Call1.node)), held \ OwnToken(Call1.node), Lossless)
      BY <2>2, <2>4, TopFrees
    <3>2. \E o : Frees(o, visit', held', Lossless')
      BY <2>1, <2>4, <3>1
    <3> QED
      BY <2>4, <3>2 DEF UnitPhases
  <2> QED
    BY <1>6, <2>3, <2>4 DEF AstDestroy
<1>7. CASE UNCHANGED unitVars
  <2>1. UNCHANGED vars /\ phase' = phase /\ visit' = visit
    BY <1>7 DEF unitVars
  <2>2. tree' = tree /\ held' = held /\ alive' = alive /\ Lossless' = Lossless
    <3>1. UNCHANGED <<tree, held, alive, read, given>>
      BY <2>1 DEF vars, streamVars, lexer, parser
    <3> QED
      BY <3>1, LosslessKept
  <2>3. phase \in {"create", "register"} => StreamInit' /\ tree' = NULL
    BY <2>1 DEF UnitInv, UnitPhases, StreamInit, vars, streamVars, lexer, parser
  <2>4. phase = "compile" => alive' /\ StackInv' /\ EofInv' /\ OwnInv'
    BY <2>1, <2>2, StackNextInv, EofStep, OwnStep DEF UnitInv, UnitPhases, ParserInv
  <2>5. phase = "dump" => AllDump(visit)'
    BY <2>1, <2>2 DEF UnitInv, UnitPhases, AllDump, Dumps, AllStand, Stands
  <2>6. phase = "crash" => Call1'.node.kind = "DECL"
    BY <2>1 DEF UnitInv, UnitPhases, Call1
  <2>7. phase = "free" => \E own : Frees(own, visit', held', Lossless')
    BY <2>1, <2>2 DEF UnitInv, UnitPhases
  <2>8. /\ phase \in {"dump", "destroy"} => alive' /\ Owns(tree', held', {"uninit"}, Lossless')
        /\ phase = "over" => held' \cap Lossless' = {}
    BY <2>2 DEF UnitInv, UnitPhases
  <2> QED
    BY <2>1, <2>2, <2>3, <2>4, <2>5, <2>6, <2>7, <2>8 DEF UnitPhases
<1> QED
  BY <1>1, <1>2, <1>3, <1>4, <1>5, <1>6, <1>7 DEF UnitNext

(* A unit begins with nothing.                                              *)
LEMMA UnitInitInv == UnitInit => UnitInv
  BY StreamInitInv DEF UnitInit, UnitInv, UnitPhases

(* Every step keeps the invariant.                                          *)
LEMMA UnitStep == UnitInv /\ [UnitNext]_unitVars => UnitInv'
<1> SUFFICES ASSUME UnitInv, [UnitNext]_unitVars PROVE UnitInv'
  OBVIOUS
<1>1. StreamInv'
  BY UnitCallsLexer, StreamNextInv DEF UnitInv
<1> QED
  BY <1>1, PhasesStep DEF UnitInv

(* From lexer_get to ast_destroy every token is in one call of the parser,  *)
(* or in one node of the tree, or in one part of it still to be destroyed.  *)
THEOREM UnitInvariance == UnitSpec => []UnitInv
  BY UnitInitInv, UnitStep, PTL DEF UnitSpec

(* The whole program, from unit_create to the last ast_destroy, is a caller *)
(* of src/lexer.c that keeps to what the lexer lets it do.                  *)
THEOREM UnitUsesLexer == UnitSpec => StreamSpec
<1>1. UnitInit => StreamInit
  BY DEF UnitInit
<1> QED
  BY <1>1, UnitInvariance, UnitCallsLexer, PTL DEF UnitSpec, StreamSpec

(* unit_destroy frees no token twice or too early, and ast_dump reads none  *)
(* that is gone and no node that no path assigned, whatever was parsed.     *)
THEOREM TouchesWhatIsHeld == UnitSpec => []TouchesHeld
<1>1. UnitInv => TouchesHeld
  <2> SUFFICES ASSUME UnitInv PROVE TouchesHeld
    OBVIOUS
  <2>1. ASSUME phase = "dump", visit # <<>> PROVE OwnToken(Call1.node) \subseteq held
    BY <2>1, TopDumps, StandsParts DEF UnitInv, UnitPhases, Dumps
  <2>2. ASSUME phase = "free", visit # <<>> PROVE OwnToken(Call1.node) \subseteq held
    BY <2>2, TopFrees DEF UnitInv, UnitPhases
  <2> QED
    BY <2>1, <2>2 DEF TouchesHeld, UnitInv, UnitPhases
<1> QED
  BY <1>1, UnitInvariance, PTL

(* Without the statements and the operator whose parts ast_destroy leaves   *)
(* every token is freed, for every expression, however deep.                *)
THEOREM PlainIsFreed == UnitSpec => []PlainFreed
<1>1. UnitInv => PlainFreed
  <2> SUFFICES ASSUME UnitInv, phase = "over",
                      \A i \in DOMAIN given : KindOf(given[i]) \notin LeftTokens
               PROVE  held = {}
    BY DEF PlainFreed
  <2>1. /\ DOMAIN given = 1 .. Len(given) /\ Len(given) \in Nat /\ held \subseteq Nat
    <3>1. given \in Seq(1 .. Len(read)) /\ held \subseteq 1 .. Len(read)
      BY DEF UnitInv, StreamInv, StreamTypeOK, Token
    <3> QED
      BY <3>1, LenProperties
  <2>2. Len(GivenKinds) = Len(given) /\ \A i \in 1 .. Len(given) : GivenKinds[i] = KindOf(given[i])
    BY <2>1 DEF GivenKinds
  <2>3. PlainIn(GivenKinds)
    BY <2>1, <2>2 DEF PlainIn
  <2>4. held \cap Nat = {}
    BY <2>3 DEF UnitInv, UnitPhases, Lossless
  <2> QED
    BY <2>1, <2>4
<1> QED
  BY <1>1, UnitInvariance, PTL
=============================================================================
