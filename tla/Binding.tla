------------------------------- MODULE Binding -------------------------------
(***************************************************************************)
(* Which names of a tree mean the same variable, by the scope rules of     *)
(* ECMAScript modules: var belongs to the function around it, let, const,  *)
(* class and function to the block, parameters to their function.  Bound   *)
(* replaces every name of a variable by the place of its declaration.      *)
(***************************************************************************)
EXTENDS SyntaxNodes, SequencesExt, TLC

Below(path, i) == path \o "." \o ToString(i)

\* One result for every child, one after the other.
Each(Op(_, _), node, path) == FlattenSeq([i \in DOMAIN node.kids |-> Op(node.kids[i], Below(path, i))])

\* Pairs of a name and its place.
RECURSIVE PatternNames(_, _), VarNames(_, _), LexicalNames(_, _)

PatternNames(node, path) ==
    CASE node.type = "Identifier" -> <<<<node.val, path>>>>
      [] node.type \in {"AssignmentPattern", "AssignmentExpression"} -> PatternNames(node.kids[1], Below(path, 1))
      [] node.type = "Property" -> PatternNames(node.kids[2], Below(path, 2))
      [] node.type = "VariableDeclarator" -> PatternNames(node.kids[1], Below(path, 1))
      [] node.type \in {"MemberExpression", "Absent"} -> <<>>
      [] OTHER -> Each(PatternNames, node, path)

VarNames(node, path) ==
    CASE node.type = "VariableDeclaration" /\ node.val = "var" -> Each(PatternNames, node, path)
      [] node.type \in FunctionLike \cup {"ClassExpression", "ClassDeclaration"} -> <<>>
      [] OTHER -> Each(VarNames, node, path)

\* Of a statement, not of those in it.
LexicalNames(node, path) ==
    CASE node.type = "VariableDeclaration" /\ node.val # "var" -> Each(PatternNames, node, path)
      [] node.type \in {"FunctionDeclaration", "ClassDeclaration"} /\ node.kids[1] # Absent ->
           <<<<node.kids[1].val, Below(path, 1)>>>>
      [] node.type \in {"ExportNamedDeclaration", "ExportDefaultDeclaration"} ->
           LexicalNames(node.kids[1], Below(path, 1))
      [] node.type = "ImportDeclaration" -> LexicalNames(node.kids[1], Below(path, 1))
      [] node.type \in {"ImportSpecifier", "ImportDefaultSpecifier", "ImportNamespaceSpecifier"} ->
           <<<<node.kids[1].val, Below(path, 1)>>>>
      [] node.type = "List" -> Each(LexicalNames, node, path)
      [] OTHER -> <<>>

\* The first place counts.
Env(pairs, outer) ==
    LET names == {pairs[i][1] : i \in DOMAIN pairs}
        place(n) == pairs[CHOOSE i \in DOMAIN pairs :
                            pairs[i][1] = n /\ \A k \in 1..(i - 1) : pairs[k][1] # n][2]
    IN [n \in names |-> place(n)] @@ outer

\* The names a node adds for its children.
Adds(node, path, outer) ==
    LET lexical(n, p) == Each(LexicalNames, n, p) IN
    CASE node.type = "Module" -> Env(Each(VarNames, node, path) \o lexical(node, path), outer)
      [] node.type = "BlockStatement" -> Env(lexical(node, path), outer)
      [] node.type \in {"ForStatement", "ForInStatement", "ForOfStatement"} ->
           Env(LexicalNames(node.kids[1], Below(path, 1)), outer)
      [] node.type = "SwitchStatement" ->
           LET cases == node.kids[2].kids
               of(i) == lexical(cases[i].kids[2], Below(Below(Below(path, 2), i), 2))
           IN Env(FlattenSeq([i \in DOMAIN cases |-> of(i)]), outer)
      [] node.type = "CatchClause" -> Env(PatternNames(node.kids[1], Below(path, 1)), outer)
      [] node.type = "ClassExpression" /\ node.kids[1] # Absent ->
           Env(<<<<node.kids[1].val, Below(path, 1)>>>>, outer)
      [] node.type \in FunctionLike ->
           LET n == Len(node.kids)
               own == IF node.type = "FunctionExpression" /\ node.kids[1] # Absent
                      THEN <<<<node.kids[1].val, Below(path, 1)>>>> ELSE <<>>
           IN Env(PatternNames(node.kids[n - 1], Below(path, n - 1))
                    \o VarNames(node.kids[n], Below(path, n)), Env(own, outer))
      [] OTHER -> outer

\* Children that are names, and no references.
IsName(node, i) ==
    CASE node.type = "MemberExpression" -> i = 2 /\ "computed" \notin node.flags
      [] node.type \in {"Property", "MethodDefinition"} -> i = 1 /\ "computed" \notin node.flags
      [] node.type \in {"LabeledStatement", "BreakStatement", "ContinueStatement"} -> i = 1
      [] node.type \in {"ImportSpecifier", "ExportSpecifier"} -> i = 2
      [] node.type = "MetaProperty" -> TRUE
      [] OTHER -> FALSE

\* Children that the scope of the node is not for.
IsOutside(node, i) ==
    \/ node.type = "FunctionDeclaration" /\ i = 1
    \/ node.type = "SwitchStatement" /\ i = 1

RECURSIVE BoundIn(_, _, _)
BoundIn(node, path, env) ==
    LET inner == Adds(node, path, env)
        foreign(i) == node.type = "ExportNamedDeclaration" /\ i = 2 /\ node.kids[3] # Absent
        kid(i) == CASE IsName(node, i) \/ foreign(i) -> Shape(node.kids[i])
                    [] IsOutside(node, i) -> BoundIn(node.kids[i], Below(path, i), env)
                    [] OTHER -> BoundIn(node.kids[i], Below(path, i), inner)
    IN IF node.type = "Identifier"
       THEN IF node.val \in DOMAIN env THEN Node("Bound", env[node.val], {}, <<>>) ELSE Shape(node)
       ELSE [node EXCEPT !.at = 0, !.kids = [i \in DOMAIN node.kids |-> kid(i)]]

Bound(tree) == BoundIn(tree, "", <<>>)
=============================================================================
