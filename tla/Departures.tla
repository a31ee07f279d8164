----------------------------- MODULE Departures -----------------------------
(***************************************************************************)
(* Where the front end is known to depart from the language.  Each         *)
(* predicate names one construct of a tree that Parser.cpp or CodeGen.cpp  *)
(* mistreats; the properties of FrontEnd hold for every tree without them, *)
(* and say in which direction a tree with one may go wrong.                *)
(***************************************************************************)
EXTENDS Grammar, CodeGen, Binding, ConstantFolding

Has(tree, Trait(_)) == \E n \in Nodes(tree) : Trait(n)

IsClass(n) == n.type \in {"ClassExpression", "ClassDeclaration"}

IsAccessor(n) == n.flags \cap {"get", "set"} # {}

IsOperator(n) == n.type = "BinaryExpression" /\ n.val # "**"

-----------------------------------------------------------------------------
(* The parser reads another tree than was written.                         *)

\* a < b + c && d: what follows the tighter operator goes to its right operand.
RisesThenFalls(n) ==
    /\ IsOperator(n) /\ IsOperator(n.kids[1]) /\ IsOperator(n.kids[1].kids[2])
    /\ Level(n.kids[1]) >= Level(n)
    /\ Level(n.kids[1].kids[2]) > Level(n.kids[1])

\* ({ a = c } = b): the default is read and dropped.
ShorthandDefault(n) ==
    /\ n.type = "AssignmentExpression" /\ n.kids[1].type = "ObjectPattern"
    /\ Has(n.kids[1], LAMBDA p : p.type = "Property" /\ "shorthand" \in p.flags
                                 /\ p.kids[2].type = "AssignmentPattern")

\* ({ [a]: b } = c): the new property has the key, but not that it is computed.
ComputedTarget(n) ==
    /\ n.type = "AssignmentExpression" \/ (n.type = "ArrowFunctionExpression" /\ "async" \in n.flags)
    /\ Has(n.kids[1], LAMBDA p : p.type = "Property" /\ "computed" \in p.flags)

MisreadNode(n) == RisesThenFalls(n) \/ ShorthandDefault(n) \/ ComputedTarget(n)

Misread(tree) == Has(tree, MisreadNode)

-----------------------------------------------------------------------------
(* The parser refuses a program.                                           *)

\* The brace read ahead after let or async and put back is counted twice, which shows where
\* a substitution should end.
BraceReadAhead(words) ==
    \E i \in DOMAIN words :
        \/ words[i] = "let" /\ words[i + 1] = "{"
        \/ words[i] = "async" /\ (i = Len(words) \/ words[i + 1] \in {"{", "}"})
BracesMiscounted(n) ==
    /\ n.type = "TemplateLiteral"
    /\ \E i \in DOMAIN n.kids[2].kids : BraceReadAhead(Spell(n.kids[2].kids[i]))

\* Constructs ParseX has no branch for.
RefusedNode(n) ==
    \/ n.type = "BinaryExpression" /\ n.val = "**" /\ n.kids[1].type = "UnaryExpression"
    \/ IsClass(n) /\ n.kids[2].type \notin {"Absent", "Identifier"}
    \/ n.type = "MethodDefinition" /\ n.kids[1].val = "async"
    \/ n.type = "ExportNamedDeclaration" /\ n.kids[1].type = "VariableDeclaration"
         /\ \E i \in DOMAIN n.kids[1].kids : n.kids[1].kids[i].kids[1].type # "Identifier"
    \/ n.type = "ForStatement" /\ n.kids[1].type = "VariableDeclaration" /\ n.kids[1].val # "var"
         /\ \E i \in DOMAIN n.kids[1].kids : n.kids[1].kids[i].kids[2] = Absent
    \/ n.type = "ExportDefaultDeclaration" /\ n.kids[1].type = "AssignmentExpression"
         /\ n.kids[1].kids[1].type \in {"ArrayPattern", "ObjectPattern"}
    \/ BracesMiscounted(n)
    \/ n.type = "YieldExpression" /\ n.kids[1] # Absent
         /\ Head(SpellAt(n.kids[1], 1)) \in {"(", "import"}

\* Every node, each as often as it stands in the tree.
RECURSIVE NodeSeq(_)
NodeSeq(node) == <<node>> \o FlattenSeq([i \in DOMAIN node.kids |-> NodeSeq(node.kids[i])])

Twice(names) == ~IsInjective(names)

Labels(tree) ==
    LET labelled == SelectSeq(NodeSeq(tree), LAMBDA n : n.type = "LabeledStatement")
    IN [i \in DOMAIN labelled |-> labelled[i].kids[1].val]

\* What one node declares.
Declares(n) ==
    LET pairs == CASE n.type = "VariableDeclaration" -> PatternNames(n, "")
                   [] n.type \in FunctionLike \ {"ArrowFunctionExpression"} ->
                        PatternNames(n.kids[1], "") \o PatternNames(n.kids[2], "")
                   [] n.type = "ArrowFunctionExpression" -> PatternNames(n.kids[1], "")
                   [] IsClass(n) \/ n.type = "CatchClause" -> PatternNames(n.kids[1], "")
                   [] n.type = "ImportDeclaration" -> LexicalNames(n, "")
                   [] OTHER -> <<>>
    IN [i \in DOMAIN pairs |-> pairs[i][1]]

Declared(tree) ==
    LET nodes == NodeSeq(tree) IN FlattenSeq([i \in DOMAIN nodes |-> Declares(nodes[i])])

\* Methods, arrow functions and class expressions have no scope for their parameters,
\* variables or name: these belong to the scope around them.
SharesScope(n) ==
    \/ n.type \in {"MethodDefinition", "ArrowFunctionExpression"}
    \/ n.type = "Property" /\ n.flags \cap {"get", "set", "method"} # {}
    \/ n.type = "ClassExpression" /\ n.kids[1] # Absent

\* A label stays in the set once its statement is over.
Refused(tree) ==
    \/ Has(tree, RefusedNode)
    \/ Twice(Labels(tree))
    \/ Has(tree, SharesScope) /\ Twice(Declared(tree))

-----------------------------------------------------------------------------
(* A renamed variable loses a reference, or takes one that is not its own. *)

Mentions(tree, name) ==
    Len(SelectSeq(NodeSeq(tree), LAMBDA n : n.type = "Identifier" /\ n.val = name))

\* Names of a method or an arrow function's body that are also used around it.
Leaks(tree, n) ==
    LET inside == IF n.type = "ArrowFunctionExpression" THEN n.kids[2] ELSE n
        names == Declared(inside)
    IN SharesScope(n) /\ \E i \in DOMAIN names : Mentions(tree, names[i]) # Mentions(n, names[i])

\* { a } takes its value from no scope; { a = b } as a pattern declares nothing.
Shorthand(n) == n.type = "Property" /\ "shorthand" \in n.flags
UnboundShorthand(n) ==
    \/ n.type = "ObjectExpression" /\ Has(n, Shorthand)
    \/ n.type \in {"AssignmentExpression", "ArrowFunctionExpression"} /\ Has(n.kids[1], Shorthand)
    \/ Shorthand(n) /\ n.kids[2].type = "AssignmentPattern"

\* Functions and classes declared in a block are declared in the function around it.
BlockFunction(n) ==
    LET of(list) == \E i \in DOMAIN list.kids :
                        list.kids[i].type \in {"FunctionDeclaration", "ClassDeclaration"}
    IN \/ n.type \notin FunctionLike
            /\ \E i \in DOMAIN n.kids : n.kids[i].type = "BlockStatement" /\ of(n.kids[i])
       \/ n.type = "SwitchCase" /\ of(n.kids[2])

\* The value a switch tests is looked up in the scope of its cases.
SwitchTest(n) ==
    LET names == Declared(n.kids[2])
    IN n.type = "SwitchStatement" /\ \E i \in DOMAIN names : Mentions(n.kids[1], names[i]) > 0

\* Labels, and names exported from other modules, count as references.
NameAsReference(tree, n) ==
    LET names == Declared(tree)
        declared(id) == \E i \in DOMAIN names : names[i] = id.val
    IN \/ n.type = "LabeledStatement" /\ declared(n.kids[1])
       \/ n.type = "ExportNamedDeclaration" /\ n.kids[3] # Absent
            /\ \E i \in DOMAIN n.kids[2].kids : declared(n.kids[2].kids[i].kids[1])

Misbound(tree) ==
    \E n \in Nodes(tree) : \/ Leaks(tree, n) \/ UnboundShorthand(n) \/ BlockFunction(n)
                           \/ SwitchTest(n) \/ NameAsReference(tree, n)

-----------------------------------------------------------------------------
(* The printed text is no program, or another one.                         *)

\* Node types without a function of their own, and what they are in.
Unprinted == {"ClassExpression", "ArrayPattern", "MetaProperty", "Import", "Directive"}

IsArrow(n) == n.type = "ArrowFunctionExpression"

Parenthesised(n) == n.type = "SequenceExpression" \/ (n.type = "BinaryExpression" /\ n.val = "in")

\* An operand is written without the parentheses it needs.
BareOperand(n) ==
    LET first == n.kids[1] IN
    CASE n.type \in {"UnaryExpression", "ConditionalExpression"} -> IsArrow(first)
      [] n.type = "TaggedTemplateExpression" -> Level(first) < 16 /\ ~Parenthesised(first)
      [] n.type = "AwaitExpression" -> Level(first) < 14 /\ ~Parenthesised(first)
      [] n.type = "BinaryExpression" ->
           LET right == n.kids[2]
               same(k) == k.type = "BinaryExpression" /\ k.val # "in"
                            /\ (k.val \in {"&&", "||"}) = (n.val \in {"&&", "||"})
           IN \/ n.val = "**" /\ first.type = "Literal" /\ Negative(first.val)
              \/ n.val = "**" /\ (same(first) \/ same(right)) /\ ~(right.type = "BinaryExpression" /\ right.val = "**")
              \/ same(right) /\ BinaryStrPrecedence(right.val) = BinaryStrPrecedence(n.val)
      [] OTHER -> FALSE

\* Two signs, or two slashes, with no blank between them.
SignOf(n, plus) ==
    \/ n.type = "UnaryExpression" /\ n.val = plus
    \/ n.type = "UpdateExpression" /\ "prefix" \in n.flags /\ First(n.val) = plus
    \/ n.type = "Literal" /\ Negative(n.val) /\ plus = "-"
GluedSigns(n, m) ==
    \/ n.type = "UnaryExpression" /\ \E op \in {"+", "-"} : n.val = op /\ SignOf(n.kids[1], op)
    \/ m /\ n.type = "BinaryExpression" /\ \E op \in {"+", "-"} : n.val = op /\ SignOf(n.kids[2], op)
    \/ m /\ n.type = "BinaryExpression" /\ n.val = "/" /\ First(Head(Spell(n.kids[2]))) = "/"

\* A statement's expression, or an exported one, begins like a declaration or a block.
LooksLikeAnother(n, m) ==
    LET words == Traverse(n.kids[1], m)
        early == words # <<>> /\ (Head(words) \in StatementFirst \ {"{"}
                                   \/ (Len(words) > 2 /\ words[1] = "async" /\ words[3] = "function"))
    IN \/ n.type = "ExpressionStatement" /\ (early \/ (words # <<>> /\ Head(words) = "{"))
       \/ n.type = "ExportDefaultDeclaration" /\ early /\ n.kids[1].type # "FunctionDeclaration"
       \/ IsArrow(n) /\ n.kids[2].type \notin {"BlockStatement", "ObjectExpression"}
            /\ Head(Spell(n.kids[2])) = "{"

\* The brackets around a computed key of a class, a getter or a setter.
BracketsLost(n) ==
    /\ "computed" \in n.flags
    /\ n.type = "MethodDefinition" \/ n.flags \cap {"get", "set"} # {}

\* Minified, a body follows "do" and a statement an exported expression with nothing between.
NothingBetween(n, m) ==
    /\ m
    /\ \/ n.type = "DoWhileStatement" /\ Wordlike(Head(Append(Traverse(n.kids[1], m), ";")))
       \/ n.type = "Module" /\ \E i \in 1..(Len(n.kids) - 1) :
              n.kids[i].type = "ExportDefaultDeclaration"
                /\ n.kids[i].kids[1].type # "FunctionDeclaration"

\* Minified, true is !0 and undefined is void 0, which bind less than the word they replace;
\* and void 0 is no name and no target.
NameVoided(n, m) ==
    /\ m
    /\ LET name(k) == k.type = "Identifier" /\ k.val = "undefined"
           true(k) == k.type = "Literal" /\ k.flags = {"Boolean"}
       IN \/ n.type \in {"MemberExpression", "Property"} /\ \E i \in DOMAIN n.kids : name(n.kids[i])
          \/ n.type \in {"AssignmentExpression", "CallExpression", "NewExpression"} /\ name(n.kids[1])
          \/ n.type = "TaggedTemplateExpression" /\ (name(n.kids[1]) \/ true(n.kids[1]))
          \/ n.type = "BinaryExpression" /\ n.val = "**" /\ (name(n.kids[1]) \/ true(n.kids[1]))

\* What the printer writes that the parser refuses or misreads, x => x and yield (x), and
\* text it does not have: a template's escapes, the first property of {} as a pattern.
LostNode(n, m) ==
    \/ n.type \in Unprinted \/ BareOperand(n) \/ GluedSigns(n, m) \/ LooksLikeAnother(n, m)
    \/ BracketsLost(n) \/ NothingBetween(n, m) \/ NameVoided(n, m)
    \/ IsArrow(n) /\ "async" \notin n.flags /\ Len(n.kids[1].kids) = 1
         /\ n.kids[1].kids[1].type = "Identifier"
    \/ n.type = "YieldExpression" /\ First(Head(Append(Traverse(n.kids[1], m), ";"))) = "("
    \/ n.type = "TemplateElement" /\ n.val = "TE"
    \/ n.type = "ObjectPattern" /\ n.kids = <<>>
    \/ RisesThenFalls(n)

Lost(tree, m) == \E n \in Nodes(tree) : LostNode(n, m)

-----------------------------------------------------------------------------
(* Constants.                                                              *)

Number(n)  == Node("Value", ToString(n), {"int"}, <<>>)
Chars(str) == Node("Value", str, {"str"}, <<>>)
OctalValue == "0o11" :> 9
Numeral(v) == IF v \in Prefixed THEN OctalValue[v]
              ELSE CHOOSE n \in 0..(8 * (IntMax + 1)) : ToString(n) = v
IsNumeral(v) == v \in NumericLiterals \ (OctalLiterals \cup {"1.5"})
NumberOf(node) == CHOOSE n \in (-8 * (IntMax + 1))..(8 * (IntMax + 1)) : ToString(n) = node.val

\* A tree with its constant parts computed as JavaScript does.
RECURSIVE Value(_)
Value(node) ==
    LET kids == [i \in DOMAIN node.kids |-> Value(node.kids[i])]
        all(kind) == \A i \in DOMAIN kids : kids[i].flags = {kind}
        n(i) == NumberOf(kids[i])
    IN CASE node.type = "Literal" /\ IsNumeral(node.val) -> Number(Numeral(node.val))
         [] node.type = "Literal" /\ node.flags = {"String"} -> Chars(TokenValue(node.val))
         [] node.type = "UnaryExpression" /\ node.val = "-" /\ all("int") -> Number(-n(1))
         [] node.type = "BinaryExpression" /\ node.val = "+" /\ all("int") -> Number(n(1) + n(2))
         [] node.type = "BinaryExpression" /\ node.val = "-" /\ all("int") -> Number(n(1) - n(2))
         [] node.type = "BinaryExpression" /\ node.val = "+" /\ all("str") -> Chars(kids[1].val \o kids[2].val)
         [] OTHER -> [node EXCEPT !.kids = kids]

\* A sum of integers outside the range of the code's integers.
Overflows(n) ==
    /\ n.type = "BinaryExpression" /\ Value(n).flags = {"int"}
    /\ ~IsValidResult(NumberOf(Value(n)))

\* The joined string holds what a literal between quotation marks holds only as an escape.
LeftUnescaped(n) ==
    /\ n.type = "BinaryExpression" /\ Value(n).flags = {"str"}
    /\ \E k \in 1..Len(Value(n).val) : SubSeq(Value(n).val, k, k) \in {"\"", "\\"} \cup LineEnds

\* The digits of an octal number, its prefix lost, are added up as decimal ones.
DecimalDigits == "0o11" :> 11
Digits(node) == IF node.type = "Literal" /\ node.val \in Prefixed THEN DecimalDigits[node.val]
                ELSE NumberOf(Value(node))
BaseForgotten(n, wraps) ==
    /\ n.type = "BinaryExpression" /\ Value(n).flags = {"int"}
    /\ LET l == Digits(n.kids[1])
           r == Digits(n.kids[2])
           sum == IF n.val = "+" THEN l + r ELSE l - r
       IN sum # NumberOf(Value(n)) /\ (wraps \/ IsValidResult(sum))

Miscomputed(tree, wraps) ==
    Has(tree, LAMBDA n : LeftUnescaped(n) \/ BaseForgotten(n, wraps) \/ (wraps /\ Overflows(n)))

\* A tree with one thing to fold: no second fault makes good for a first.
OneSum(tree) == Cardinality({n \in Nodes(tree) : n.type = "BinaryExpression"}) = 1
=============================================================================
