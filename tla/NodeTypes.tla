------------------------------ MODULE NodeTypes ------------------------------
(***************************************************************************)
(* What the members of the classes of parser/SyntaxNodes.h may hold, in    *)
(* the order Node lists them.  A pointer is never null, an optional may be *)
(* empty.  The traversers follow the pointers without a test.              *)
(***************************************************************************)
EXTENDS SyntaxNodes

\* The classes derived from Expression, Pattern and Statement.
ExpressionClass ==
    {"ArrayExpression", "ArrowFunctionExpression", "AssignmentExpression", "AwaitExpression",
     "BinaryExpression", "CallExpression", "ClassExpression", "ConditionalExpression",
     "FunctionExpression", "Identifier", "Import", "Literal", "MetaProperty", "NewExpression",
     "ObjectExpression", "RegexLiteral", "RestElement", "SequenceExpression", "MemberExpression",
     "Super", "TaggedTemplateExpression", "TemplateLiteral", "ThisExpression", "UnaryExpression",
     "UpdateExpression", "YieldExpression", "ArrowParameterPlaceHolder"}
PatternClass ==
    {"ArrayPattern", "AssignmentPattern", "Identifier", "ObjectPattern", "RestElement",
     "MemberExpression"}
StatementClass ==
    {"BlockStatement", "BreakStatement", "ClassDeclaration", "ContinueStatement",
     "DebuggerStatement", "Directive", "DoWhileStatement", "EmptyStatement",
     "ExportAllDeclaration", "ExportDefaultDeclaration", "ExportNamedDeclaration",
     "ExpressionStatement", "ForInStatement", "ForOfStatement", "ForStatement",
     "FunctionDeclaration", "IfStatement", "ImportDeclaration", "LabeledStatement",
     "ReturnStatement", "SwitchStatement", "ThrowStatement", "TryStatement",
     "VariableDeclaration", "WhileStatement", "WithStatement"}
SyntaxNode ==
    ExpressionClass \cup PatternClass \cup StatementClass \cup
    {"CatchClause", "ClassBody", "ExportSpecifier", "ImportDefaultSpecifier",
     "ImportNamespaceSpecifier", "ImportSpecifier", "MethodDefinition", "Module", "Property",
     "SpreadElement", "SwitchCase", "TemplateElement", "VariableDeclarator"}

Holds(class)   == class
MayHold(class) == class \cup {"Absent"}
Name == {"Identifier"}

\* A node whose only member is a list has the list's nodes for children.
ElementsOf(type) ==
    CASE type \in {"ArrayExpression", "ArrayPattern"} -> MayHold(SyntaxNode)
      [] type \in {"BlockStatement", "Module", "ObjectExpression", "ObjectPattern"} -> SyntaxNode
      [] type = "ClassBody" -> {"MethodDefinition"}
      [] type = "SequenceExpression" -> ExpressionClass
      [] type = "VariableDeclaration" -> {"VariableDeclarator"}
      [] OTHER -> {}

\* The nodes of the lists among the members of a class that has several.
ListOf(type) ==
    CASE type = "ExportNamedDeclaration" -> {"ExportSpecifier"}
      [] type = "SwitchCase" -> StatementClass
      [] type = "SwitchStatement" -> {"SwitchCase"}
      [] type = "TemplateLiteral" -> ExpressionClass \cup {"TemplateElement"}
      [] OTHER -> SyntaxNode

ListOnly == {"List"}

MembersOfStatement(type) ==
    CASE type \in {"BreakStatement", "ContinueStatement"} -> <<MayHold(Name)>>
      [] type \in {"ClassDeclaration"} -> <<MayHold(Name), MayHold(Name), Holds({"ClassBody"})>>
      [] type = "DoWhileStatement" -> <<Holds(StatementClass), Holds(ExpressionClass)>>
      [] type = "ExportAllDeclaration" -> <<Holds({"Literal"})>>
      [] type = "ExportDefaultDeclaration" -> <<Holds(SyntaxNode)>>
      [] type = "ExportNamedDeclaration" -> <<MayHold(SyntaxNode), ListOnly, MayHold({"Literal"})>>
      [] type \in {"ExpressionStatement", "ThrowStatement", "Directive"} -> <<Holds(ExpressionClass)>>
      [] type \in {"ForInStatement", "ForOfStatement"} ->
           <<Holds(SyntaxNode), Holds(SyntaxNode), Holds(StatementClass)>>
      [] type = "ForStatement" ->
           <<MayHold(SyntaxNode), MayHold(SyntaxNode), MayHold(SyntaxNode), Holds(StatementClass)>>
      [] type = "IfStatement" -> <<Holds(ExpressionClass), Holds(StatementClass), MayHold(StatementClass)>>
      [] type = "ImportDeclaration" -> <<ListOnly, Holds({"Literal"})>>
      [] type = "LabeledStatement" -> <<Holds(Name), Holds(StatementClass)>>
      [] type = "ReturnStatement" -> <<MayHold(ExpressionClass)>>
      [] type = "SwitchStatement" -> <<Holds(ExpressionClass), ListOnly>>
      [] type = "TryStatement" ->
           <<Holds({"BlockStatement"}), MayHold({"CatchClause"}), MayHold({"BlockStatement"})>>
      [] type \in {"WhileStatement", "WithStatement"} -> <<Holds(ExpressionClass), Holds(StatementClass)>>
      [] OTHER -> <<>>

MembersOfExpression(type) ==
    CASE type = "ArrowFunctionExpression" -> <<ListOnly, Holds(SyntaxNode)>>
      [] type = "AssignmentExpression" -> <<Holds(PatternClass), Holds(ExpressionClass)>>
      [] type = "AssignmentPattern" -> <<Holds(SyntaxNode), Holds(ExpressionClass)>>
      [] type \in {"AwaitExpression", "SpreadElement", "UnaryExpression", "UpdateExpression"} ->
           <<Holds(ExpressionClass)>>
      [] type \in {"BinaryExpression", "MemberExpression"} -> <<Holds(ExpressionClass), Holds(ExpressionClass)>>
      [] type \in {"CallExpression", "NewExpression"} -> <<Holds(ExpressionClass), ListOnly>>
      [] type = "ClassExpression" -> <<MayHold(Name), MayHold(Name), MayHold({"ClassBody"})>>
      [] type = "ConditionalExpression" ->
           <<Holds(ExpressionClass), Holds(ExpressionClass), Holds(ExpressionClass)>>
      [] type \in {"FunctionDeclaration", "FunctionExpression"} ->
           <<MayHold(Name), ListOnly, Holds({"BlockStatement"})>>
      [] type = "MetaProperty" -> <<Holds(Name), Holds(Name)>>
      [] type = "RestElement" -> <<Holds(SyntaxNode)>>
      [] type = "TaggedTemplateExpression" -> <<Holds(ExpressionClass), Holds({"TemplateLiteral"})>>
      [] type = "TemplateLiteral" -> <<ListOnly, ListOnly>>
      [] type = "YieldExpression" -> <<MayHold(ExpressionClass)>>
      [] OTHER -> <<>>

MembersOfOther(type) ==
    CASE type = "CatchClause" -> <<Holds(SyntaxNode), Holds({"BlockStatement"})>>
      [] type \in {"ImportDefaultSpecifier", "ImportNamespaceSpecifier"} -> <<Holds(Name)>>
      [] type \in {"ExportSpecifier", "ImportSpecifier"} -> <<Holds(Name), Holds(Name)>>
      [] type = "MethodDefinition" -> <<MayHold(SyntaxNode), MayHold(ExpressionClass)>>
      [] type = "Property" -> <<Holds(SyntaxNode), MayHold(SyntaxNode)>>
      [] type = "SwitchCase" -> <<MayHold(ExpressionClass), ListOnly>>
      [] type = "VariableDeclarator" -> <<Holds(SyntaxNode), MayHold(ExpressionClass)>>
      [] OTHER -> <<>>

MembersOf(type) ==
    MembersOfStatement(type) \o MembersOfExpression(type) \o MembersOfOther(type)

\* The members of one node hold what their types allow.
MembersHold(node) ==
    LET kids == node.kids
        members == MembersOf(node.type)
        lists == {i \in DOMAIN kids : kids[i].type = "List"}
    IN IF members = <<>> THEN \A i \in DOMAIN kids : kids[i].type \in ElementsOf(node.type)
       ELSE /\ Len(kids) = Len(members)
            /\ \A i \in DOMAIN kids : kids[i].type \in members[i]
            /\ \A i \in lists : \A k \in DOMAIN kids[i].kids :
                   kids[i].kids[k].type \in ListOf(node.type)

WellFormed(tree) == \A n \in Nodes(tree) : n.type \notin {"Absent", "List"} => MembersHold(n)
=============================================================================
