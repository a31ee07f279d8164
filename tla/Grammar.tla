------------------------------- MODULE Grammar -------------------------------
(***************************************************************************)
(* What ECMAScript 2017 says of the trees of SyntaxNodes, independently of *)
(* the parser: how a tree is written, with the parentheses its operators   *)
(* ask for and no other, and which names mean the same variable.           *)
(***************************************************************************)
EXTENDS SyntaxNodes, Tokens

\* Binary operators, from those that bind least.
BinaryLevels ==
    << {"||"}, {"&&"}, {"|"}, {"^"}, {"&"}, {"==", "!=", "===", "!=="},
       {"<", ">", "<=", ">=", "instanceof", "in"}, {"<<", ">>", ">>>"}, {"+", "-"},
       {"*", "/", "%"}, {"**"} >>

\* The production an expression belongs to, from comma (0) to primary (17).
RECURSIVE Level(_)
Level(node) ==
    CASE node.type = "SequenceExpression" -> 0
      [] node.type \in {"AssignmentExpression", "ArrowFunctionExpression", "YieldExpression"} -> 1
      [] node.type = "ConditionalExpression" -> 2
      [] node.type = "BinaryExpression" -> 2 + CHOOSE i \in DOMAIN BinaryLevels : node.val \in BinaryLevels[i]
      [] node.type \in {"UnaryExpression", "AwaitExpression"} -> 14
      [] node.type = "UpdateExpression" -> 15
      [] node.type = "CallExpression" -> 16
      [] node.type \in {"MemberExpression", "TaggedTemplateExpression"} ->
           IF Level(node.kids[1]) = 16 THEN 16 ELSE 17
      [] OTHER -> 17

RECURSIVE Spell(_)

SpellAt(node, level) == IF Level(node) < level THEN <<"(">> \o Spell(node) \o <<")">> ELSE Spell(node)

\* An expression that may not begin with some token.
NotFirst(words, first) ==
    IF Head(words) \in first \/ (Len(words) > 1 /\ words[1] = "async" /\ words[2] = "function")
    THEN <<"(">> \o words \o <<")">> ELSE words

StatementFirst == {"{", "function", "class"}

Commas(nodes) ==
    FlattenSeq([i \in DOMAIN nodes |->
        (IF nodes[i] = Absent THEN <<>> ELSE SpellAt(nodes[i], 1))
          \o (IF i < Len(nodes) \/ nodes[i] = Absent THEN <<",">> ELSE <<>>)])

SpellAll(nodes) == FlattenSeq([i \in DOMAIN nodes |-> Spell(nodes[i])])

Maybe(node, words) == IF node = Absent THEN <<>> ELSE words \o Spell(node)

Word(cond, word) == IF cond THEN <<word>> ELSE <<>>

SpellFunction(node) ==
    Word("async" \in node.flags, "async") \o <<"function">> \o Word("generator" \in node.flags, "*")
      \o Spell(node.kids[1]) \o <<"(">> \o Commas(node.kids[2].kids) \o <<")">> \o Spell(node.kids[3])

\* The key and the rest of a method, a getter or a setter.
SpellMember(node, value) ==
    Word("static" \in node.flags, "static") \o Word("get" \in node.flags, "get")
      \o Word("set" \in node.flags, "set") \o Word("async" \in value.flags, "async")
      \o Word("generator" \in value.flags, "*") \o Word("computed" \in node.flags, "[")
      \o SpellAt(node.kids[1], 1) \o Word("computed" \in node.flags, "]")
      \o <<"(">> \o Commas(value.kids[2].kids) \o <<")">> \o Spell(value.kids[3])

SpellProperty(node) ==
    CASE node.flags \cap {"get", "set", "method"} # {} -> SpellMember(node, node.kids[2])
      [] "shorthand" \in node.flags -> Spell(node.kids[2])
      [] OTHER -> Word("computed" \in node.flags, "[") \o SpellAt(node.kids[1], 1)
                    \o Word("computed" \in node.flags, "]") \o <<":">> \o SpellAt(node.kids[2], 1)

SpellTemplate(node) ==
    LET quasis == node.kids[1].kids
        exprs  == node.kids[2].kids
    IN FlattenSeq([i \in DOMAIN quasis |->
         <<quasis[i].val>> \o (IF i \in DOMAIN exprs THEN Spell(exprs[i]) ELSE <<>>)])

SpellBinary(node) ==
    LET l == Level(node) IN
    IF node.val = "**" THEN SpellAt(node.kids[1], 15) \o <<"**">> \o SpellAt(node.kids[2], 13)
    ELSE SpellAt(node.kids[1], l) \o <<node.val>> \o SpellAt(node.kids[2], l + 1)

SpellArrow(node) ==
    LET params == node.kids[1].kids
        body   == node.kids[2]
    IN Word("async" \in node.flags, "async") \o <<"(">> \o Commas(params) \o <<")", "=>">>
         \o (IF body.type = "BlockStatement" THEN Spell(body) ELSE NotFirst(SpellAt(body, 1), {"{"}))

SpellClass(node) ==
    <<"class">> \o Spell(node.kids[1])
      \o (IF node.kids[2] = Absent THEN <<>> ELSE <<"extends">> \o SpellAt(node.kids[2], 16))
      \o Spell(node.kids[3])

SpellExpression(node) ==
    CASE node.type \in {"Identifier", "Literal"} -> <<node.val>>
      [] node.type = "RegexLiteral" -> <<"/", node.val>>
      [] node.type = "ThisExpression" -> <<"this">>
      [] node.type = "Super" -> <<"super">>
      [] node.type = "Import" -> <<"import">>
      [] node.type = "MetaProperty" -> <<"new", ".", "target">>
      [] node.type = "TemplateLiteral" -> SpellTemplate(node)
      [] node.type = "TaggedTemplateExpression" -> SpellAt(node.kids[1], 16) \o Spell(node.kids[2])
      [] node.type \in {"ArrayExpression", "ArrayPattern"} -> <<"[">> \o Commas(node.kids) \o <<"]">>
      [] node.type \in {"ObjectExpression", "ObjectPattern"} -> <<"{">> \o Commas(node.kids) \o <<"}">>
      [] node.type = "Property" -> SpellProperty(node)
      [] node.type \in {"FunctionExpression", "FunctionDeclaration"} -> SpellFunction(node)
      [] node.type \in {"ClassExpression", "ClassDeclaration"} -> SpellClass(node)
      [] node.type = "ArrowFunctionExpression" -> SpellArrow(node)
      [] node.type \in {"RestElement", "SpreadElement"} -> <<"...">> \o SpellAt(node.kids[1], 1)
      [] node.type = "YieldExpression" ->
           <<"yield">> \o Word("delegate" \in node.flags, "*")
             \o (IF node.kids[1] = Absent THEN <<>> ELSE SpellAt(node.kids[1], 1))
      [] node.type = "AwaitExpression" -> <<"await">> \o SpellAt(node.kids[1], 14)
      [] node.type = "SequenceExpression" -> Commas(node.kids)
      [] node.type = "UnaryExpression" -> <<node.val>> \o SpellAt(node.kids[1], 14)
      [] node.type = "UpdateExpression" ->
           IF "prefix" \in node.flags THEN <<node.val>> \o SpellAt(node.kids[1], 14)
           ELSE SpellAt(node.kids[1], 16) \o <<node.val>>
      [] node.type = "BinaryExpression" -> SpellBinary(node)
      [] node.type = "AssignmentExpression" ->
           SpellAt(node.kids[1], 16) \o <<node.val>> \o SpellAt(node.kids[2], 1)
      [] node.type = "AssignmentPattern" -> Spell(node.kids[1]) \o <<"=">> \o SpellAt(node.kids[2], 1)
      [] node.type = "ConditionalExpression" ->
           SpellAt(node.kids[1], 3) \o <<"?">> \o SpellAt(node.kids[2], 1) \o <<":">> \o SpellAt(node.kids[3], 1)
      [] node.type = "NewExpression" ->
           <<"new">> \o SpellAt(node.kids[1], 17) \o <<"(">> \o Commas(node.kids[2].kids) \o <<")">>
      [] node.type = "CallExpression" ->
           SpellAt(node.kids[1], 16) \o <<"(">> \o Commas(node.kids[2].kids) \o <<")">>
      [] node.type = "MemberExpression" ->
           SpellAt(node.kids[1], 16) \o
           IF "computed" \in node.flags THEN <<"[">> \o Spell(node.kids[2]) \o <<"]">>
           ELSE <<".">> \o Spell(node.kids[2])

InBraces(words) == <<"{">> \o words \o <<"}">>
InParens(words) == <<"(">> \o words \o <<")">>

Specifier(outer, inner) == outer \o (IF inner = outer THEN <<>> ELSE <<"as">> \o inner)

SpellImport(node) ==
    LET specs == node.kids[1].kids
        isNamed(s) == s.type = "ImportSpecifier"
        named == SelectSeq(specs, isNamed)
        lone  == SelectSeq(specs, LAMBDA s : ~isNamed(s))
        One(s) == CASE s.type = "ImportDefaultSpecifier" -> Spell(s.kids[1])
                    [] s.type = "ImportNamespaceSpecifier" -> <<"*", "as">> \o Spell(s.kids[1])
                    [] OTHER -> Specifier(Spell(s.kids[2]), Spell(s.kids[1]))
        AllOf(list) == FlattenSeq([i \in DOMAIN list |-> One(list[i]) \o Word(i < Len(list), ",")])
    IN <<"import">> \o AllOf(lone) \o Word(lone # <<>> /\ named # <<>>, ",")
         \o (IF named = <<>> THEN <<>> ELSE InBraces(AllOf(named)))
         \o Word(specs # <<>>, "from") \o Spell(node.kids[2]) \o <<";">>

SpellExport(node) ==
    LET specs == node.kids[2].kids
        One(s) == Specifier(Spell(s.kids[1]), Spell(s.kids[2]))
    IN <<"export">> \o
       IF node.kids[1] # Absent THEN Spell(node.kids[1])
       ELSE InBraces(FlattenSeq([i \in DOMAIN specs |-> One(specs[i]) \o Word(i < Len(specs), ",")]))
              \o Maybe(node.kids[3], <<"from">>) \o <<";">>

SpellDefault(node) ==
    LET d == node.kids[1] IN
    <<"export", "default">> \o
    IF d.type = "FunctionDeclaration" \/ d.type = "ClassExpression" THEN Spell(d)
    ELSE NotFirst(SpellAt(d, 1), {"function", "class"}) \o <<";">>

SpellStatement(node) ==
    CASE node.type \in {"BlockStatement", "ClassBody"} -> InBraces(SpellAll(node.kids))
      [] node.type = "EmptyStatement" -> <<";">>
      [] node.type = "ExpressionStatement" -> NotFirst(Spell(node.kids[1]), StatementFirst) \o <<";">>
      [] node.type = "Directive" -> Spell(node.kids[1]) \o <<";">>
      [] node.type = "IfStatement" ->
           <<"if">> \o InParens(Spell(node.kids[1])) \o Spell(node.kids[2]) \o Maybe(node.kids[3], <<"else">>)
      [] node.type = "LabeledStatement" -> Spell(node.kids[1]) \o <<":">> \o Spell(node.kids[2])
      [] node.type = "BreakStatement" -> <<"break">> \o Spell(node.kids[1]) \o <<";">>
      [] node.type = "ContinueStatement" -> <<"continue">> \o Spell(node.kids[1]) \o <<";">>
      [] node.type = "ReturnStatement" -> <<"return">> \o Spell(node.kids[1]) \o <<";">>
      [] node.type = "ThrowStatement" -> <<"throw">> \o Spell(node.kids[1]) \o <<";">>
      [] node.type = "WhileStatement" -> <<"while">> \o InParens(Spell(node.kids[1])) \o Spell(node.kids[2])
      [] node.type = "DoWhileStatement" ->
           <<"do">> \o Spell(node.kids[1]) \o <<"while">> \o InParens(Spell(node.kids[2])) \o <<";">>
      [] node.type = "SwitchCase" ->
           (IF node.kids[1] = Absent THEN <<"default">> ELSE <<"case">> \o Spell(node.kids[1]))
             \o <<":">> \o SpellAll(node.kids[2].kids)
      [] node.type = "SwitchStatement" ->
           <<"switch">> \o InParens(Spell(node.kids[1])) \o InBraces(SpellAll(node.kids[2].kids))
      [] node.type = "CatchClause" -> <<"catch">> \o InParens(Spell(node.kids[1])) \o Spell(node.kids[2])
      [] node.type = "TryStatement" ->
           <<"try">> \o Spell(node.kids[1]) \o Spell(node.kids[2]) \o Maybe(node.kids[3], <<"finally">>)
      [] node.type = "ForStatement" ->
           <<"for", "(">>
             \o (IF node.kids[1].type = "VariableDeclaration" THEN Spell(node.kids[1])
                 ELSE Spell(node.kids[1]) \o <<";">>)
             \o Spell(node.kids[2]) \o <<";">> \o Spell(node.kids[3]) \o <<")">> \o Spell(node.kids[4])
      [] node.type \in {"ForInStatement", "ForOfStatement"} ->
           <<"for", "(">>
             \o (IF node.kids[1].type = "VariableDeclaration" THEN Front(Spell(node.kids[1]))
                 ELSE Spell(node.kids[1]))
             \o <<IF node.type = "ForInStatement" THEN "in" ELSE "of">> \o Spell(node.kids[2]) \o <<")">>
             \o Spell(node.kids[3])
      [] node.type = "DebuggerStatement" -> <<"debugger", ";">>
      [] node.type = "VariableDeclaration" -> <<node.val>> \o Commas(node.kids) \o <<";">>
      [] node.type = "VariableDeclarator" ->
           Spell(node.kids[1]) \o (IF node.kids[2] = Absent THEN <<>> ELSE <<"=">> \o SpellAt(node.kids[2], 1))
      [] node.type = "MethodDefinition" -> SpellMember(node, node.kids[2])
      [] node.type = "ImportDeclaration" -> SpellImport(node)
      [] node.type = "ExportDefaultDeclaration" -> SpellDefault(node)
      [] node.type = "ExportNamedDeclaration" -> SpellExport(node)
      [] node.type = "ExportAllDeclaration" -> <<"export", "*", "from">> \o Spell(node.kids[1]) \o <<";">>

Expressions ==
    {"Identifier", "Literal", "RegexLiteral", "ThisExpression", "Super", "Import", "MetaProperty",
     "TemplateLiteral", "TaggedTemplateExpression", "ArrayExpression", "ArrayPattern",
     "ObjectExpression", "ObjectPattern", "Property", "FunctionExpression", "FunctionDeclaration",
     "ClassExpression", "ClassDeclaration", "ArrowFunctionExpression", "RestElement",
     "SpreadElement", "YieldExpression", "AwaitExpression", "SequenceExpression",
     "UnaryExpression", "UpdateExpression", "BinaryExpression", "AssignmentExpression",
     "AssignmentPattern", "ConditionalExpression", "NewExpression", "CallExpression",
     "MemberExpression"}

Spell(node) ==
    CASE node.type = "Absent" -> <<>>
      [] node.type = "Module" -> SpellAll(node.kids)
      [] node.type \in Expressions -> SpellExpression(node)
      [] OTHER -> SpellStatement(node)
-----------------------------------------------------------------------------
(* Trees that mean the same.                                               *)

\* A parameter may be kept as the expression it was read as.
MeaningOf(type) ==
    CASE type = "ArrayPattern" -> "ArrayExpression"
      [] type = "ObjectPattern" -> "ObjectExpression"
      [] type = "AssignmentPattern" -> "AssignmentExpression"
      [] type = "RestElement" -> "SpreadElement"
      [] type = "Directive" -> "ExpressionStatement"
      [] OTHER -> type

Telling == {"computed", "static", "get", "set", "async", "generator", "delegate", "prefix"}

Sign(op, arg) == Node("UnaryExpression", op, {}, <<Literal("Double", arg)>>)

\* One tree for all that mean the same.
RECURSIVE Meaning(_)
Meaning(node) ==
    LET kept == SelectSeq(node.kids, LAMBDA k : k.type # "EmptyStatement")
        lists == node.type \in {"Module", "BlockStatement", "List"}
        kids == [i \in DOMAIN (IF lists THEN kept ELSE node.kids) |->
                    Meaning((IF lists THEN kept ELSE node.kids)[i])]
    IN CASE node.type = "Literal" /\ node.flags = {"Boolean"} ->
              Sign("!", IF node.val = "true" THEN "0" ELSE "1")
         [] node.type = "Literal" /\ Negative(node.val) -> Sign("-", SubSeq(node.val, 2, Len(node.val)))
         [] node.type = "Identifier" /\ node.val = "undefined" -> Sign("void", "0")
         [] OTHER -> [Node(MeaningOf(node.type), IF node.type = "AssignmentPattern" THEN "=" ELSE node.val,
                           IF node.type = "Literal" THEN node.flags ELSE node.flags \cap Telling, kids)
                        EXCEPT !.at = node.at]
=============================================================================
