------------------------------- MODULE CodeGen -------------------------------
(***************************************************************************)
(* The code generator (codegen/CodeGen.h, CodeGen.cpp): from a syntax tree *)
(* to pieces of text, in order.  A piece is a token, a blank or a line     *)
(* end.  Blanks that cannot hold two tokens apart, indentation, comments   *)
(* and the recording of mappings are left out.  m is config_.minify.       *)
(***************************************************************************)
EXTENDS SyntaxNodes, Tokens

Gap(m)     == IF m THEN <<>> ELSE <<" ">>
LineEnd(m) == IF m THEN <<>> ELSE <<"\n">>

NeedsParentheses == 17

ExpressionPrecedence(node) ==
    CASE node.type \in {"ArrayExpression", "TaggedTemplateExpression", "ThisExpression",
                        "Identifier", "TemplateLiteral", "Super", "SequenceExpression"} -> 20
      [] node.type \in {"MemberExpression", "CallExpression", "NewExpression"} -> 19
      [] node.type = "Literal" -> 18
      [] node.type \in {"ArrowFunctionExpression", "ClassExpression", "FunctionExpression",
                        "ObjectExpression"} -> NeedsParentheses
      [] node.type = "UpdateExpression" -> 16
      [] node.type = "UnaryExpression" -> 15
      [] node.type = "BinaryExpression" -> IF node.val \in {"&&", "||"} THEN 13 ELSE 14
      [] node.type = "ConditionalExpression" -> 4
      [] node.type = "AssignmentExpression" -> 3
      [] node.type \in {"AwaitExpression", "YieldExpression"} -> 2
      [] node.type = "RestElement" -> 1
      [] OTHER -> 0

\* The table has no "**".
BinaryStrPrecedence(op) == BinaryPrecedence(op, TRUE)

\* Between operators of one class: an operand that binds less than its parent.
SameClassNeedsParenthesis(node, parent) ==
    BinaryStrPrecedence(node.val) < BinaryStrPrecedence(parent.val)

ExpressionNeedsParenthesis(node, parent, is_right) ==
    LET prec == ExpressionPrecedence(node)
        parent_prec == ExpressionPrecedence(parent)
    IN CASE prec = NeedsParentheses -> TRUE
         [] prec # parent_prec ->
              \/ ~is_right /\ prec = 15 /\ parent.val = "**"
              \/ prec < parent_prec
         [] node.val = "**" /\ parent.val = "**" -> ~is_right
         [] OTHER -> SameClassNeedsParenthesis(node, parent)


\* Whether a call is anywhere in the node: new (a())() must keep its parentheses.
HasCallExpression(node) == \E n \in Nodes(node) : n.type = "CallExpression"

-----------------------------------------------------------------------------
RECURSIVE Traverse(_, _)

\* Pieces of each node, a separator between them.
Separated(nodes, sep, m) ==
    FlattenSeq([i \in DOMAIN nodes |->
                  Traverse(nodes[i], m) \o (IF i < Len(nodes) THEN sep ELSE <<>>)])

InParentheses(cond, pieces) == IF cond THEN <<"(">> \o pieces \o <<")">> ELSE pieces

Braced(pieces) == <<"{">> \o pieces \o <<"}">>

FormatSequence(nodes, m) == InParentheses(TRUE, Separated(nodes, <<",">>, m))

Optional(node, before, m) == IF node = Absent THEN <<>> ELSE before \o Traverse(node, m)

\* Statements, each on a line of its own.
Lines(nodes, m) == FlattenSeq([i \in DOMAIN nodes |-> Traverse(nodes[i], m) \o LineEnd(m)])

\* A hole at the end takes a comma more.
PrintArrayExpression(node, m) ==
    LET last == node.kids # <<>> /\ Last(node.kids) = Absent
    IN <<"[">> \o Separated(node.kids, <<",">>, m) \o (IF last THEN <<",">> ELSE <<>>) \o <<"]">>

\* Literals are written as they were spelled, Boolean ones shorter.
PrintLiteral(node, m) ==
    CASE m /\ node.flags = {"Boolean"} -> IF node.val = "true" THEN <<"!", "0">> ELSE <<"!", "1">>
      [] Negative(node.val) -> <<"-", SubSeq(node.val, 2, Len(node.val))>>
      [] OTHER -> <<node.val>>

PrintIdentifier(node, m) ==
    IF m /\ node.val = "undefined" THEN <<"void", " ", "0">> ELSE <<node.val>>

\* The cooked text: what an escape stands for, not the escape.
Cooked(v) == IF v = "TE" THEN "T" ELSE v

PrintTemplateLiteral(node, m) ==
    LET quasis == node.kids[1].kids
        exprs  == node.kids[2].kids
    IN FlattenSeq([i \in DOMAIN quasis |->
         <<Cooked(quasis[i].val)>> \o (IF i \in DOMAIN exprs THEN Traverse(exprs[i], m) ELSE <<>>)])

\* Word operators are followed by a blank, signs by nothing.
PrintUnary(node, m) ==
    LET arg == node.kids[1] IN
    <<node.val>> \o (IF node.val \in {"+", "-", "~", "!"} THEN <<>> ELSE <<" ">>)
                 \o InParentheses(ExpressionPrecedence(arg) < 15, Traverse(arg, m))

PrintUpdate(node, m) ==
    LET arg == Traverse(node.kids[1], m) IN
    IF "prefix" \in node.flags THEN <<node.val>> \o arg ELSE arg \o <<node.val>>

FormatBinaryExpression(expr, parent, is_right, m) ==
    InParentheses(ExpressionNeedsParenthesis(expr, parent, is_right), Traverse(expr, m))

PrintBinary(node, m) ==
    LET gap == IF node.val \in {"in", "instanceof"} THEN <<" ">> ELSE Gap(m)
    IN InParentheses(node.val = "in",
         FormatBinaryExpression(node.kids[1], node, FALSE, m)
           \o gap \o <<node.val>> \o gap
           \o FormatBinaryExpression(node.kids[2], node, TRUE, m))

\* left, operator, right, with no parentheses of their own.
PrintAssignment(node, op, m) ==
    Traverse(node.kids[1], m) \o Gap(m) \o <<op>> \o Gap(m) \o Traverse(node.kids[2], m)

PrintConditional(node, m) ==
    LET test == node.kids[1] IN
    InParentheses(ExpressionPrecedence(test) <= 4, Traverse(test, m))
      \o Gap(m) \o <<"?">> \o Gap(m) \o Traverse(node.kids[2], m)
      \o Gap(m) \o <<":">> \o Gap(m) \o Traverse(node.kids[3], m)

\* What stands before a dot, a bracket or a parenthesis.
PrintHead(node, m) == InParentheses(ExpressionPrecedence(node) < 19, Traverse(node, m))

PrintNew(node, m) ==
    LET callee == node.kids[1] IN
    <<"new", " ">>
      \o InParentheses(ExpressionPrecedence(callee) < 19 \/ HasCallExpression(callee), Traverse(callee, m))
      \o FormatSequence(node.kids[2].kids, m)

PrintMember(node, m) ==
    LET property == Traverse(node.kids[2], m) IN
    PrintHead(node.kids[1], m)
      \o (IF "computed" \in node.flags THEN <<"[">> \o property \o <<"]">> ELSE <<".">> \o property)

PrintCall(node, m) == PrintHead(node.kids[1], m) \o FormatSequence(node.kids[2].kids, m)

PrintArrow(node, m) ==
    LET params == node.kids[1].kids
        body   == node.kids[2]
        single == Len(params) = 1 /\ params[1].type = "Identifier"
    IN (IF "async" \in node.flags THEN <<"async", " ">> ELSE <<>>)
         \o (IF single THEN <<params[1].val>> ELSE FormatSequence(params, m))
         \o <<"=>">> \o InParentheses(body.type = "ObjectExpression", Traverse(body, m))

\* Declarations and expressions: a name is written as it is.
PrintFunction(node, m) ==
    (IF "async" \in node.flags THEN <<"async", " ">> ELSE <<>>)
      \o <<"function">> \o (IF "generator" \in node.flags THEN <<"*">> ELSE <<>>)
      \o (IF node.kids[1] = Absent THEN <<>> ELSE <<" ", node.kids[1].val>>)
      \o FormatSequence(node.kids[2].kids, m) \o Traverse(node.kids[3], m)

ParamsAndBody(function, m) ==
    FormatSequence(function.kids[2].kids, m) \o Traverse(function.kids[3], m)

\* The key of a getter or a setter is written without its brackets; a method as a function.
PrintProperty(node, m) ==
    LET key == node.kids[1]
        value == node.kids[2]
        names == value # Absent /\ key.type = "Identifier" /\ value.type = "Identifier"
        shorthand == IF names THEN key.val = value.val ELSE "shorthand" \in node.flags
        written == IF "computed" \in node.flags THEN <<"[">> \o Traverse(key, m) \o <<"]">>
                   ELSE Traverse(key, m)
    IN CASE "get" \in node.flags -> <<"get", " ">> \o Traverse(key, m) \o ParamsAndBody(value, m)
         [] "set" \in node.flags -> <<"set", " ">> \o Traverse(key, m) \o ParamsAndBody(value, m)
         [] shorthand -> Optional(value, <<>>, m)
         [] OTHER -> written \o Optional(value, <<":">>, m)

PrintObjectExpression(node, m) == Braced(Separated(node.kids, <<",", "\n">>, m))

\* The first property is written whether there is one or not.
PrintObjectPattern(node, m) ==
    Braced(IF node.kids = <<>> THEN <<Undefined>> ELSE Separated(node.kids, <<",">>, m))

\* The test for brackets asks the function, which never has a computed key.
BracketsOfMethod(node) == "computed" \in node.kids[2].flags

PrintMethodDefinition(node, m) ==
    LET function == node.kids[2]
        key == Traverse(node.kids[1], m)
        Word(flag, word, of) == IF flag \in of THEN <<word, " ">> ELSE <<>>
    IN Word("static", "static", node.flags) \o Word("get", "get", node.flags)
         \o Word("set", "set", node.flags) \o Word("async", "async", function.flags)
         \o (IF "generator" \in function.flags THEN <<"*">> ELSE <<>>)
         \o (IF BracketsOfMethod(node) THEN <<"[">> \o key \o <<"]">> ELSE key)
         \o ParamsAndBody(function, m)

PrintClassDeclaration(node, m) ==
    <<"class", " ">> \o (IF node.kids[1] = Absent THEN <<>> ELSE <<node.kids[1].val, " ">>)
      \o (IF node.kids[2] = Absent THEN <<>>
          ELSE <<"extends", " ">> \o Traverse(node.kids[2], m) \o Gap(m))
      \o Traverse(node.kids[3], m)

FormatVariableDeclaration(node, m) == <<node.val, " ">> \o Separated(node.kids, <<",">>, m)

\* A declaration in the head of a loop has no semicolon.
PrintForLeft(node, m) ==
    IF node.type = "VariableDeclaration" THEN FormatVariableDeclaration(node, m)
    ELSE Traverse(node, m)

PrintFor(node, m) ==
    <<"for", "(">> \o PrintForLeft(node.kids[1], m) \o <<";">> \o Traverse(node.kids[2], m)
      \o <<";">> \o Traverse(node.kids[3], m) \o <<")">> \o Traverse(node.kids[4], m)

PrintForIn(node, word, m) ==
    <<"for", "(">> \o PrintForLeft(node.kids[1], m) \o <<" ", word, " ">>
      \o Traverse(node.kids[2], m) \o <<")">> \o Traverse(node.kids[3], m)

PrintIf(node, m) ==
    <<"if", "(">> \o Traverse(node.kids[1], m) \o <<")">> \o Traverse(node.kids[2], m)
      \o Optional(node.kids[3], <<" ", "else", " ">>, m)

PrintTry(node, m) ==
    <<"try">> \o Traverse(node.kids[1], m)
      \o (IF node.kids[2] = Absent THEN <<>>
          ELSE <<"catch", "(">> \o Traverse(node.kids[2].kids[1], m) \o <<")">>
                 \o Traverse(node.kids[2].kids[2], m))
      \o Optional(node.kids[3], <<"finally">>, m)

PrintSwitch(node, m) ==
    LET Case(c) == (IF c.kids[1] = Absent THEN <<"default">>
                    ELSE <<"case", " ">> \o Traverse(c.kids[1], m))
                     \o <<":">> \o Lines(c.kids[2].kids, m)
        cases == node.kids[2].kids
    IN <<"switch", "(">> \o Traverse(node.kids[1], m) \o <<")">>
         \o Braced(FlattenSeq([i \in DOMAIN cases |-> Case(cases[i])]))

\* break, continue, return and throw.
PrintJump(word, node, m) == <<word>> \o Optional(node.kids[1], <<" ">>, m) \o <<";">>

\* The body of a loop follows "do" at once when minified.
PrintDoWhile(node, m) ==
    <<"do">> \o Gap(m) \o Traverse(node.kids[1], m) \o Gap(m) \o <<"while", "(">>
      \o Traverse(node.kids[2], m) \o <<")", ";">>

-----------------------------------------------------------------------------
(* Modules.                                                                *)

Renamed(written, other) == <<written>> \o (IF other = written THEN <<>> ELSE <<" ", "as", " ", other>>)

Names(pairs) ==
    Braced(FlattenSeq([i \in DOMAIN pairs |->
             Renamed(pairs[i][1], pairs[i][2]) \o (IF i < Len(pairs) THEN <<",">> ELSE <<>>)]))

PrintImport(node, m) ==
    LET specs == node.kids[1].kids
        named == SelectSeq(specs, LAMBDA s : s.type = "ImportSpecifier")
        lone  == SelectSeq(specs, LAMBDA s : s.type # "ImportSpecifier")
        Lone(s) == IF s.type = "ImportDefaultSpecifier" THEN <<s.kids[1].val>>
                   ELSE <<"*", " ", "as", " ", s.kids[1].val>>
        comma(i) == IF i < Len(specs) THEN <<",">> ELSE <<>>
        list == FlattenSeq([i \in DOMAIN lone |-> Lone(lone[i]) \o comma(i)])
        braces == IF named = <<>> THEN <<>>
                  ELSE Names([i \in DOMAIN named |-> <<named[i].kids[2].val, named[i].kids[1].val>>])
    IN <<"import", " ">> \o list \o braces
         \o (IF specs = <<>> THEN <<>> ELSE <<" ", "from", " ">>) \o Traverse(node.kids[2], m) \o <<";">>

\* Nothing ends an expression that is exported as the default.
PrintExportDefault(node, m) ==
    <<"export", " ", "default", " ">> \o Traverse(node.kids[1], m)
      \o (IF node.kids[1].type = "FunctionExpression" THEN <<";">> ELSE <<>>)

PrintExportNamed(node, m) ==
    LET specs == node.kids[2].kids IN
    <<"export", " ">> \o
    IF node.kids[1] # Absent THEN Traverse(node.kids[1], m)
    ELSE Names([i \in DOMAIN specs |-> <<specs[i].kids[1].val, specs[i].kids[2].val>>])
           \o Optional(node.kids[3], <<" ", "from", " ">>, m) \o <<";">>

-----------------------------------------------------------------------------
PrintStatement(node, m) ==
    CASE node.type = "BlockStatement" -> Braced(Lines(node.kids, m))
      [] node.type = "EmptyStatement" -> <<";">>
      [] node.type = "ExpressionStatement" -> Traverse(node.kids[1], m) \o <<";">>
      [] node.type = "IfStatement" -> PrintIf(node, m)
      [] node.type = "LabeledStatement" -> Traverse(node.kids[1], m) \o <<":">> \o Traverse(node.kids[2], m)
      [] node.type = "BreakStatement" -> PrintJump("break", node, m)
      [] node.type = "ContinueStatement" -> PrintJump("continue", node, m)
      [] node.type = "ReturnStatement" -> PrintJump("return", node, m)
      [] node.type = "ThrowStatement" -> PrintJump("throw", node, m)
      [] node.type = "WithStatement" -> <<"with", "(">> \o Traverse(node.kids[1], m) \o <<")">> \o Traverse(node.kids[2], m)
      [] node.type = "WhileStatement" -> <<"while", "(">> \o Traverse(node.kids[1], m) \o <<")">> \o Traverse(node.kids[2], m)
      [] node.type = "DoWhileStatement" -> PrintDoWhile(node, m)
      [] node.type = "SwitchStatement" -> PrintSwitch(node, m)
      [] node.type = "TryStatement" -> PrintTry(node, m)
      [] node.type = "ForStatement" -> PrintFor(node, m)
      [] node.type = "ForInStatement" -> PrintForIn(node, "in", m)
      [] node.type = "ForOfStatement" -> PrintForIn(node, "of", m)
      [] node.type = "DebuggerStatement" -> <<"debugger", ";">>
      [] node.type = "VariableDeclaration" -> FormatVariableDeclaration(node, m) \o <<";">>
      [] node.type = "VariableDeclarator" -> Traverse(node.kids[1], m) \o Optional(node.kids[2], <<"=">>, m)
      [] node.type = "ClassDeclaration" -> PrintClassDeclaration(node, m)
      [] node.type = "ClassBody" -> Braced(Lines(node.kids, m))
      [] node.type = "MethodDefinition" -> PrintMethodDefinition(node, m)
      [] node.type = "ImportDeclaration" -> PrintImport(node, m)
      [] node.type = "ExportDefaultDeclaration" -> PrintExportDefault(node, m)
      [] node.type = "ExportNamedDeclaration" -> PrintExportNamed(node, m)
      [] node.type = "ExportAllDeclaration" -> <<"export", "*", "from">> \o Traverse(node.kids[1], m) \o <<";">>

\* The node types no function of the code generator is for: it writes nothing at all.
Silent == {"Absent", "ClassExpression", "ArrayPattern", "MetaProperty", "Import", "Directive"}

StatementTypes ==
    {"BlockStatement", "EmptyStatement", "ExpressionStatement", "IfStatement", "LabeledStatement",
     "BreakStatement", "ContinueStatement", "ReturnStatement", "ThrowStatement", "WithStatement",
     "WhileStatement", "DoWhileStatement", "SwitchStatement", "TryStatement", "ForStatement",
     "ForInStatement", "ForOfStatement", "DebuggerStatement", "VariableDeclaration",
     "VariableDeclarator", "ClassDeclaration", "ClassBody", "MethodDefinition",
     "ImportDeclaration", "ExportDefaultDeclaration", "ExportNamedDeclaration",
     "ExportAllDeclaration"}

PrintExpression(node, m) ==
    CASE node.type = "Identifier" -> PrintIdentifier(node, m)
      [] node.type = "Literal" -> PrintLiteral(node, m)
      [] node.type = "RegexLiteral" -> <<"/", node.val>>
      [] node.type = "ThisExpression" -> <<"this">>
      [] node.type = "Super" -> <<"super">>
      [] node.type = "TemplateLiteral" -> PrintTemplateLiteral(node, m)
      [] node.type = "TaggedTemplateExpression" -> Traverse(node.kids[1], m) \o Traverse(node.kids[2], m)
      [] node.type = "ArrayExpression" -> PrintArrayExpression(node, m)
      [] node.type = "ObjectExpression" -> PrintObjectExpression(node, m)
      [] node.type = "ObjectPattern" -> PrintObjectPattern(node, m)
      [] node.type = "Property" -> PrintProperty(node, m)
      [] node.type \in {"FunctionExpression", "FunctionDeclaration"} -> PrintFunction(node, m)
      [] node.type = "ArrowFunctionExpression" -> PrintArrow(node, m)
      [] node.type \in {"RestElement", "SpreadElement"} -> <<"...">> \o Traverse(node.kids[1], m)
      [] node.type = "YieldExpression" ->
           <<"yield">> \o (IF "delegate" \in node.flags THEN <<"*">> ELSE <<>>)
             \o Optional(node.kids[1], <<" ">>, m)
      [] node.type = "AwaitExpression" -> <<"await", " ">> \o Traverse(node.kids[1], m)
      [] node.type = "SequenceExpression" -> FormatSequence(node.kids, m)
      [] node.type = "UnaryExpression" -> PrintUnary(node, m)
      [] node.type = "UpdateExpression" -> PrintUpdate(node, m)
      [] node.type = "BinaryExpression" -> PrintBinary(node, m)
      [] node.type = "AssignmentExpression" -> PrintAssignment(node, node.val, m)
      [] node.type = "AssignmentPattern" -> PrintAssignment(node, "=", m)
      [] node.type = "ConditionalExpression" -> PrintConditional(node, m)
      [] node.type = "NewExpression" -> PrintNew(node, m)
      [] node.type = "MemberExpression" -> PrintMember(node, m)
      [] node.type = "CallExpression" -> PrintCall(node, m)

Traverse(node, m) ==
    CASE node.type \in Silent -> <<>>
      [] node.type \in {"Module", "Script"} -> Lines(node.kids, m)
      [] node.type \in StatementTypes -> PrintStatement(node, m)
      [] OTHER -> PrintExpression(node, m)
=============================================================================
