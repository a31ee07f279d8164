---------------------------- MODULE SyntaxNodes ----------------------------
(***************************************************************************)
(* The syntax tree (parser/SyntaxNodes.h).  A node is a record: its type,  *)
(* a string (the name, the operator or the raw text it carries), the set   *)
(* of its Boolean members that are true, its children in the order of the  *)
(* members of its class, for an Identifier the position of the token it    *)
(* was made from, which stands for the address of the object, and for a    *)
(* literal the value str_ that the scanner made of its spelling.  An empty *)
(* optional member is Absent; a member that is a list is a List node.      *)
(***************************************************************************)
EXTENDS Sequences, Integers, FiniteSets

Node(type, val, flags, kids) ==
    [type |-> type, val |-> val, flags |-> flags, kids |-> kids, at |-> 0,
     str |-> ""]

Tree(type, kids) == Node(type, "", {}, kids)

Identifier(name, at) == [Node("Identifier", name, {}, <<>>) EXCEPT !.at = at]

Absent == Tree("Absent", <<>>)

List(nodes) == Tree("List", nodes)

Flag(cond, name) == IF cond THEN {name} ELSE {}

\* The same tree without the identity of its identifiers.
RECURSIVE Shape(_)
Shape(node) ==
    [node EXCEPT !.at = 0, !.kids = [i \in DOMAIN node.kids |-> Shape(node.kids[i])]]

\* Every node of a tree, the root included.
RECURSIVE Nodes(_)
Nodes(node) == {node} \cup UNION {Nodes(node.kids[i]) : i \in DOMAIN node.kids}

\* The literals: their type is the member ty of Literal.
Literal(ty, raw) == Node("Literal", raw, {ty}, <<>>)

\* A literal of this spelling whose member str_ is str.
Valued(literal, str) == [literal EXCEPT !.str = str]

FunctionLike == {"FunctionExpression", "FunctionDeclaration", "ArrowFunctionExpression"}
=============================================================================
