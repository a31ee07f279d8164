----------------------------- MODULE MCFrontEnd -----------------------------
(***************************************************************************)
(* Programs for FrontEnd: every expression of two levels, every statement, *)
(* declarations that shadow one another, modules, constants, and texts     *)
(* that are no programs.                                                   *)
(***************************************************************************)
EXTENDS FrontEnd

Id(n)  == Identifier(n, 0)
Num(v) == Literal("Double", v)
Str(v) == Literal("String", v)
Bool   == Literal("Boolean", "true")
A == Id("a")
B == Id("b")
C == Id("c")
This == Tree("ThisExpression", <<>>)

Module(stmts)  == Tree("Module", stmts)
Block(stmts)   == Tree("BlockStatement", stmts)
Expr(e)        == Tree("ExpressionStatement", <<e>>)
Ret(e)         == Tree("ReturnStatement", <<e>>)
Unary(op, e)   == Node("UnaryExpression", op, {}, <<e>>)
Prefix(op, e)  == Node("UpdateExpression", op, {"prefix"}, <<e>>)
Postfix(op, e) == Node("UpdateExpression", op, {}, <<e>>)
Assign(op, l, r) == Node("AssignmentExpression", op, {}, <<l, r>>)
Cond(t, x, y)  == Tree("ConditionalExpression", <<t, x, y>>)
Call(f, args)  == Tree("CallExpression", <<f, List(args)>>)
NewOf(f, args) == Tree("NewExpression", <<f, List(args)>>)
Member(o, p)   == Tree("MemberExpression", <<o, Id(p)>>)
Index(o, e)    == Node("MemberExpression", "", {"computed"}, <<o, e>>)
Spread(e)      == Tree("SpreadElement", <<e>>)
Rest(p)        == Tree("RestElement", <<p>>)
Default(p, e)  == Tree("AssignmentPattern", <<p, e>>)
Comma(es)        == Tree("SequenceExpression", es)
Array(es)      == Tree("ArrayExpression", es)
Object(ps)     == Tree("ObjectExpression", ps)
Prop(k, v, flags) == Node("Property", "", flags, <<k, v>>)
Key(k, v)      == Prop(Id(k), v, {"init"})
Short(k)       == Prop(Id(k), Id(k), {"init", "shorthand"})
ArrayPat(ps)   == Tree("ArrayPattern", ps)
ObjectPat(ps)  == Tree("ObjectPattern", ps)
Quasi(v)       == Node("TemplateElement", v, Flag(v \in TemplateTails, "tail"), <<>>)
Plain          == Tree("TemplateLiteral", <<List(<<Quasi("T")>>), List(<<>>)>>)
Template(e)    == Tree("TemplateLiteral", <<List(<<Quasi("T${"), Quasi("}T")>>), List(<<e>>)>>)
Tagged(t)      == Tree("TaggedTemplateExpression", <<t, Plain>>)
Fn(id, params, body, flags) == Node("FunctionExpression", "", flags, <<id, List(params), Block(body)>>)
FnDecl(id, params, body, flags) == Node("FunctionDeclaration", "", flags, <<id, List(params), Block(body)>>)
Arrow(params, body, flags) ==
    Node("ArrowFunctionExpression", "", flags \cup Flag(body.type # "BlockStatement", "expression"),
         <<List(params), body>>)
Method(k, params, body, flags, fflags) ==
    Node("MethodDefinition", "", flags, <<k, Fn(Absent, params, body, fflags)>>)
Class(type, id, super, elems) == Tree(type, <<id, super, Tree("ClassBody", elems)>>)
Var(kind, ds)  == Node("VariableDeclaration", kind, {}, ds)
D(p, e)        == Tree("VariableDeclarator", <<p, e>>)
Decl(kind, n)  == Var(kind, <<D(Id(n), Num("1"))>>)
Yield(e)       == Tree("YieldExpression", <<e>>)
Await(e)       == Tree("AwaitExpression", <<e>>)
ImportCall(e)  == Call(Tree("Import", <<>>), <<e>>)
Regex          == Node("RegexLiteral", "re/", {}, <<>>)

Kind(minify, folding, wraps, rename) ==
    [minify |-> minify, constant_folding |-> folding, wraps |-> wraps, on_require |-> FALSE,
     rename |-> rename]
Plainly  == Kind(FALSE, FALSE, FALSE, FALSE)
Minified == Kind(TRUE, FALSE, FALSE, FALSE)

File(words, tree, opts) == [words |-> words, tree |-> tree, options |-> opts]

\* A program of these statements, written as Grammar has it.
Files1(stmts, kinds) ==
    LET tree == Module(stmts)
        words == Spell(tree)
    IN {File(words, tree, o) : o \in kinds}

-----------------------------------------------------------------------------
Ops == {"||", "&&", "|", "==", "<", "in", "instanceof", "<<", "+", "-", "/", "**"}

Anonymous == {Fn(Absent, <<>>, <<>>, {}), Class("ClassExpression", Absent, Absent, <<>>)}

Inner ==
    {Binary(op, A, B) : op \in Ops} \cup {Unary(op, A) : op \in {"-", "+", "!", "typeof"}} \cup
    {Prefix("--", A), Postfix("++", A), Cond(A, B, C), Assign("=", A, B), Assign("+=", A, B),
     Assign("=", ArrayPat(<<A, Absent, B>>), C),
     Assign("=", ObjectPat(<<Prop(A, B, {})>>), C),
     Assign("=", ObjectPat(<<Prop(A, B, {"computed"})>>), C),
     Assign("=", ArrayPat(<<ObjectPat(<<Prop(A, B, {"computed"})>>)>>), C),
     Arrow(<<ObjectPat(<<Prop(A, B, {"computed"})>>)>>, C, {}),
     Arrow(<<ObjectPat(<<Prop(A, B, {"computed"})>>), C>>, C, {"async"}),
     Arrow(<<>>, A, {}), Arrow(<<A>>, B, {}), Arrow(<<A, B>>, C, {}), Arrow(<<A>>, B, {"async"}),
     Arrow(<<>>, Block(<<>>), {}), Arrow(<<>>, Object(<<>>), {}),
     Arrow(<<Default(A, B)>>, C, {}), Arrow(<<A, Rest(B)>>, C, {}),
     Fn(Id("f"), <<>>, <<Ret(A)>>, {}), Fn(Absent, <<A>>, <<>>, {"async"}),
     Fn(Absent, <<>>, <<>>, {"generator"}), Class("ClassExpression", Id("f"), A, <<>>),
     Call(A, <<B>>), Member(A, "b"), Index(A, B), NewOf(A, <<>>), Tagged(A), Template(A), Plain,
     Regex, This, Comma(<<A, B>>), Array(<<A, Absent, B>>), Array(<<Absent>>), Array(<<A, Spread(B)>>),
     Object(<<>>), Object(<<Key("a", B), Short("c")>>),
     Object(<<Prop(A, B, {"init", "computed"}), Prop(Str("'s'"), A, {"init"})>>),
     Object(<<Prop(Id("k"), Fn(Absent, <<>>, <<Ret(A)>>, {}), {"init", "method"}),
              Prop(Id("k"), Fn(Absent, <<>>, <<>>, {"generator"}), {"init", "method"}),
              Prop(Id("k"), Fn(Absent, <<>>, <<>>, {"async"}), {"init", "method"})>>),
     Object(<<Prop(Id("k"), Fn(Absent, <<>>, <<>>, {}), {"get"}),
              Prop(Id("k"), Fn(Absent, <<A>>, <<>>, {}), {"set"})>>),
     Object(<<Prop(A, Fn(Absent, <<>>, <<>>, {}), {"get", "computed"})>>),
     ImportCall(A), A, Num("1"), Str("'s'"), Bool, Id("undefined")} \cup Anonymous

Outer(h) ==
    {Binary(op, h, C) : op \in Ops} \cup {Binary(op, C, h) : op \in Ops} \cup
    {Unary(op, h) : op \in {"-", "!", "typeof"}} \cup
    {Cond(h, A, B), Cond(A, h, B), Cond(A, B, h), Assign("=", C, h), Member(h, "c"), Index(h, C),
     Index(C, h), Call(h, <<C>>), Call(C, <<h, C>>), Call(C, <<Spread(h)>>), NewOf(h, <<C>>),
     Tagged(h), Template(h), Array(<<h, C>>), Object(<<Key("k", h)>>),
     Object(<<Prop(h, C, {"init", "computed"})>>), Comma(<<h, C>>), Arrow(<<>>, h, {}), h} \cup
    IF h.type \in {"Identifier", "MemberExpression"} /\ h.val # "undefined"
    THEN {Prefix("--", h), Postfix("++", h), Assign("-=", h, C)} ELSE {}

\* Where an expression may stand.
Around(h) ==
    {Var("let", <<D(A, h)>>), Var("const", <<D(ArrayPat(<<A>>), h)>>),
     Tree("IfStatement", <<h, Expr(A), Expr(B)>>), Tree("ThrowStatement", <<h>>),
     Tree("WhileStatement", <<h, Block(<<>>)>>), Tree("DoWhileStatement", <<Expr(h), A>>),
     Tree("ForStatement", <<Absent, h, h, Tree("EmptyStatement", <<>>)>>),
     Tree("ForInStatement", <<Var("var", <<D(A, Absent)>>), h, Block(<<>>)>>),
     Tree("SwitchStatement", <<h, List(<<Tree("SwitchCase", <<h, List(<<Tree("BreakStatement", <<Absent>>)>>)>>),
                                         Tree("SwitchCase", <<Absent, List(<<>>)>>)>>)>>),
     FnDecl(Id("f"), <<Default(A, h)>>, <<Ret(h)>>, {}),
     FnDecl(Id("f"), <<>>, <<Expr(Yield(h)), Expr(Yield(Absent))>>, {"generator"}),
     FnDecl(Id("f"), <<>>, <<Expr(Await(h))>>, {"async"}),
     Tree("ExportDefaultDeclaration", <<h>>)}

\* Three operators, in each of the five ways they can be grouped.
Three ==
    LET ops == {"&&", "<", "+", "*"}
        D1 == Id("d")
        Bin(op, l, r) == Binary(op, l, r)
    IN UNION {{Bin(o, Bin(p, Bin(q, A, B), C), D1), Bin(o, Bin(p, A, Bin(q, B, C)), D1),
               Bin(o, Bin(p, A, B), Bin(q, C, D1)), Bin(o, A, Bin(p, Bin(q, B, C), D1)),
               Bin(o, A, Bin(p, B, Bin(q, C, D1)))} : o, p, q \in ops}
Both == {Plainly, Minified}

Loop(body)     == Tree("WhileStatement", <<A, body>>)
Label(n, stmt) == Tree("LabeledStatement", <<Id(n), stmt>>)
Jump(type, to) == Tree(type, <<to>>)
Try(h, f)      == Tree("TryStatement", <<Block(<<Expr(A)>>), h, f>>)
Catch(p, body) == Tree("CatchClause", <<p, Block(body)>>)
Empty          == Tree("EmptyStatement", <<>>)
For(init, test, update) == Tree("ForStatement", <<init, test, update, Block(<<Expr(A)>>)>>)
ForOf(left, e) == Tree("ForOfStatement", <<left, e, Block(<<Expr(A)>>)>>)
ForIn(left, e) == Tree("ForInStatement", <<left, e, Block(<<Expr(A)>>)>>)
Head1(kind, p) == Var(kind, <<D(p, Absent)>>)
Switch(cases)  == Tree("SwitchStatement", <<A, List(cases)>>)
Case(test, body) == Tree("SwitchCase", <<test, List(body)>>)
From           == Literal("String", "'m'")
Import1(specs) == Tree("ImportDeclaration", <<List(specs), From>>)
Named(local, imported) == Tree("ImportSpecifier", <<Id(local), Id(imported)>>)
Export1(specs, from) == Tree("ExportNamedDeclaration", <<Absent, List(specs), from>>)
As(local, exported)  == Tree("ExportSpecifier", <<Id(local), Id(exported)>>)
ExportOf(decl) == Tree("ExportNamedDeclaration", <<decl, List(<<>>), Absent>>)
Default1(e)    == Tree("ExportDefaultDeclaration", <<e>>)
ClassOf(elems) == Class("ClassDeclaration", Id("k"), Absent, elems)

\* Statements, one after another.
Bodies ==
    {<<Try(Catch(B, <<Expr(B)>>), Absent)>>, <<Try(Absent, Block(<<Expr(C)>>))>>,
     <<Try(Catch(B, <<Expr(B)>>), Block(<<>>))>>, <<Try(Catch(ArrayPat(<<B, C>>), <<>>), Absent)>>,
     <<Loop(Jump("BreakStatement", Absent))>>, <<Loop(Block(<<Jump("ContinueStatement", Absent)>>))>>,
     <<Label("x", Loop(Jump("BreakStatement", Id("x"))))>>,
     <<Label("x", Loop(Label("y", Loop(Jump("ContinueStatement", Id("x"))))))>>,
     <<Label("x", Loop(Empty)), Label("x", Loop(Empty))>>,
     <<Tree("DoWhileStatement", <<Expr(A), B>>)>>, <<Tree("DoWhileStatement", <<Block(<<>>), B>>)>>,
     <<Tree("IfStatement", <<A, Expr(B), Absent>>)>>,
     <<Tree("IfStatement", <<A, Tree("IfStatement", <<B, Expr(A), Expr(C)>>), Absent>>)>>,
     <<Tree("IfStatement", <<A, Block(<<Tree("IfStatement", <<B, Expr(A), Absent>>)>>), Expr(C)>>)>>,
     <<For(Absent, Absent, Absent)>>, <<For(Decl("var", "i"), Id("i"), Postfix("++", Id("i")))>>,
     <<For(Decl("let", "i"), Id("i"), Absent)>>, <<For(Head1("let", Id("i")), Absent, Absent)>>,
     <<For(Decl("const", "i"), Absent, Absent)>>, <<For(Comma(<<A, B>>), Absent, Comma(<<A, B>>))>>,
     <<For(Assign("=", A, Num("0")), A, Absent)>>,
     <<ForOf(Head1("let", A), B)>>, <<ForOf(Head1("const", ArrayPat(<<A, B>>)), C)>>,
     <<ForOf(Head1("var", A), B)>>, <<ForOf(A, B)>>, <<ForOf(Member(A, "p"), B)>>,
     <<ForIn(Head1("let", A), B)>>, <<ForIn(Head1("var", ObjectPat(<<Short("b")>>)), C)>>, <<ForIn(A, Comma(<<B, C>>))>>,
     <<Switch(<<Case(A, <<Expr(B), Jump("BreakStatement", Absent)>>), Case(Absent, <<>>), Case(B, <<>>)>>)>>,
     <<Switch(<<Case(A, <<Decl("let", "b")>>)>>), Decl("let", "b")>>,
     <<Tree("DebuggerStatement", <<>>)>>, <<Empty>>,
     <<Head1("var", A), Head1("let", B)>>, <<Var("let", <<D(A, B), D(C, Absent)>>)>>,
     <<Var("var", <<D(ArrayPat(<<A, Absent, Default(B, C)>>), C)>>)>>,
     <<Var("const", <<D(ArrayPat(<<A, Rest(B)>>), C)>>)>>,
     <<Var("const", <<D(ObjectPat(<<Key("p", A), Prop(B, B, {"init", "shorthand"})>>), C)>>)>>,
     <<Var("let", <<D(ObjectPat(<<Prop(A, Default(A, C), {"init", "shorthand"})>>), C)>>), Expr(A)>>,
     <<Var("let", <<D(ObjectPat(<<>>), C)>>)>>,
     <<Var("let", <<D(ObjectPat(<<Prop(A, B, {"init", "computed"})>>), C)>>)>>,
     <<Expr(Assign("=", ObjectPat(<<Prop(A, Default(A, C), {"init", "shorthand"})>>), B))>>,
     <<Expr(Assign("=", ArrayPat(<<Default(A, B), Member(C, "p"), Rest(A)>>), C))>>,
     <<FnDecl(Id("f"), <<A, Default(B, C), Rest(Id("d"))>>, <<Ret(Absent)>>, {})>>,
     <<FnDecl(Id("f"), <<ObjectPat(<<Short("a")>>), ArrayPat(<<B>>)>>, <<>>, {})>>,
     <<FnDecl(Id("f"), <<>>, <<Expr(Yield(Absent)), Expr(Yield(A)), Expr(Assign("=", A, Yield(B)))>>, {"generator"})>>,
     <<FnDecl(Id("f"), <<>>, <<Expr(Node("YieldExpression", "", {"delegate"}, <<A>>))>>, {"generator"})>>,
     <<FnDecl(Id("f"), <<>>, <<Expr(Yield(Yield(A)))>>, {"generator"})>>,
     <<FnDecl(Id("f"), <<>>, <<Expr(Object(<<Prop(Id("g"), Fn(Absent, <<>>, <<>>, {}), {"get"})>>)), Expr(Yield(A))>>, {"generator"})>>,
     <<FnDecl(Id("f"), <<>>, <<Expr(Await(A)), Expr(Binary("+", Await(A), B))>>, {"async"})>>,
     <<Expr(Str("'use'")), Expr(A)>>, <<FnDecl(Id("f"), <<>>, <<Expr(Str("'use'"))>>, {})>>,
     <<FnDecl(Id("f"), <<>>, <<Expr(Tree("MetaProperty", <<Id("new"), Id("target")>>))>>, {})>>}

Classes ==
    {<<ClassOf(<<Method(Id("m"), <<A>>, <<Ret(A)>>, {"method"}, {})>>)>>,
     <<ClassOf(<<Method(Id("m"), <<>>, <<>>, {"method", "static"}, {"async"})>>)>>,
     <<ClassOf(<<Method(Id("m"), <<>>, <<Expr(Yield(A))>>, {"method"}, {"generator"})>>)>>,
     <<ClassOf(<<Method(Id("get"), <<>>, <<>>, {"method"}, {}), Method(Id("static"), <<>>, <<>>, {"method"}, {})>>)>>,
     <<ClassOf(<<Method(Id("async"), <<>>, <<>>, {"method"}, {})>>)>>,
     <<ClassOf(<<Method(Id("m"), <<>>, <<>>, {"get"}, {}), Method(Id("m"), <<A>>, <<>>, {"set"}, {})>>)>>,
     <<ClassOf(<<Method(A, <<>>, <<>>, {"method", "computed"}, {})>>)>>,
     <<ClassOf(<<Method(A, <<>>, <<>>, {"get", "computed"}, {})>>)>>,
     <<ClassOf(<<Method(Str("'s'"), <<>>, <<>>, {"method"}, {}), Method(Num("1"), <<>>, <<>>, {"method"}, {})>>)>>,
     <<Class("ClassDeclaration", Id("k"), A, <<Method(Id("constructor"), <<>>, <<Expr(Call(Tree("Super", <<>>), <<>>))>>, {"ctor"}, {})>>)>>,
     <<Class("ClassDeclaration", Id("k"), A, <<Method(Id("m"), <<>>, <<Ret(Call(Member(Tree("Super", <<>>), "m"), <<>>))>>, {"method"}, {})>>)>>,
     <<Class("ClassDeclaration", Id("k"), Member(A, "p"), <<>>)>>}

Modules ==
    {<<Import1(<<>>)>>, <<Import1(<<Tree("ImportDefaultSpecifier", <<A>>)>>)>>,
     <<Import1(<<Tree("ImportNamespaceSpecifier", <<A>>)>>)>>,
     <<Import1(<<Named("a", "a")>>)>>, <<Import1(<<Named("a", "b")>>), Expr(A)>>,
     <<Import1(<<Tree("ImportDefaultSpecifier", <<A>>), Named("b", "default")>>)>>,
     <<Import1(<<Tree("ImportDefaultSpecifier", <<A>>), Tree("ImportNamespaceSpecifier", <<B>>)>>)>>,
     <<ExportOf(Decl("let", "a"))>>, <<ExportOf(Decl("var", "a"))>>, <<ExportOf(Decl("const", "a"))>>,
     <<ExportOf(Var("const", <<D(ArrayPat(<<A>>), B)>>))>>,
     <<ExportOf(FnDecl(Id("f"), <<>>, <<>>, {"async"}))>>, <<ExportOf(ClassOf(<<>>))>>,
     <<Decl("let", "a"), Export1(<<As("a", "a"), As("a", "b"), As("a", "default")>>, Absent)>>,
     <<Export1(<<As("default", "a")>>, From)>>, <<Decl("let", "a"), Export1(<<As("a", "b")>>, From)>>,
     <<Export1(<<>>, Absent)>>, <<Tree("ExportAllDeclaration", <<From>>)>>,
     <<Default1(A)>>, <<Default1(FnDecl(Absent, <<>>, <<>>, {})), Expr(A)>>,
     <<Default1(FnDecl(Id("f"), <<>>, <<>>, {"generator"})), Expr(A)>>,
     <<Default1(Class("ClassExpression", Absent, Absent, <<>>)), Expr(A)>>,
     <<Default1(Object(<<Short("a")>>)), Expr(A)>>, <<Default1(Array(<<A>>))>>,
     <<Default1(Assign("=", A, B)), Expr(C)>>, <<Default1(Arrow(<<A, B>>, C, {})), Expr(A)>>,
     <<Default1(Fn(Id("f"), <<>>, <<>>, {}))>>, <<Default1(Call(Fn(Id("f"), <<>>, <<>>, {}), <<>>))>>}

\* Braces in and around the substitutions of templates.
Substitutions ==
    LET Body(stmts) == Fn(Absent, <<>>, stmts, {})
        Braces == {Body(<<Var(k, <<D(p, B)>>)>>) : k \in {"var", "let", "const"},
                     p \in {ObjectPat(<<Short("a")>>), ObjectPat(<<Prop(A, C, {"computed"})>>), ArrayPat(<<A>>), A}} \cup
                  {Id("async"), Body(<<Expr(Id("async"))>>), Body(<<Expr(Id("async")), Block(<<>>)>>),
                   Call(Id("async"), <<A>>), Template(Id("async")), Template(A), Body(<<>>),
                   Object(<<Key("async", A)>>), Arrow(<<>>, Block(<<Expr(Template(A))>>), {"async"})}
    IN {<<Expr(Template(e))>> : e \in Braces} \cup
       {<<s, Expr(Template(A))>> : s \in {Expr(Call(A, <<e>>)) : e \in Braces} \cup
            {Var("let", <<D(ObjectPat(<<Short("b")>>), C)>>), Block(<<Expr(Id("async"))>>),
             Import1(<<Named("b", "b")>>)}}

One(stmt) == Module(<<stmt>>)
ArrowXX == Arrow(<<Id("x")>>, Id("x"), {})

\* Other ways to write a program: semicolons left out, words for names, commas at the end.
Spellings ==
    {<<<<"a", "\n", "b">>, Module(<<Expr(A), Expr(B)>>)>>,
     <<<<"a", "\n", "++", "b">>, Module(<<Expr(A), Expr(Prefix("++", B))>>)>>,
     <<<<"a", "\n", "(", "b", ")">>, One(Expr(Call(A, <<B>>)))>>,
     <<<<"{", "a", "}">>, One(Block(<<Expr(A)>>))>>,
     <<<<"function", "f", "(", ")", "{", "return", "\n", "a", "}">>,
       One(FnDecl(Id("f"), <<>>, <<Ret(Absent), Expr(A)>>, {}))>>,
     <<<<"do", ";", "while", "(", "a", ")", "b">>, Module(<<Tree("DoWhileStatement", <<Empty, A>>), Expr(B)>>)>>,
     <<<<"x", "=>", "x">>, One(Expr(ArrowXX))>>,
     <<<<"async", "x", "=>", "x">>, One(Expr(Arrow(<<Id("x")>>, Id("x"), {"async"})))>>,
     <<<<"async", "\n", "function", "f", "(", ")", "{", "}">>,
       Module(<<Expr(Id("async")), FnDecl(Id("f"), <<>>, <<>>, {})>>)>>,
     <<<<"async", "(", "a", ")">>, One(Expr(Call(Id("async"), <<A>>)))>>,
     <<<<"new", "a">>, One(Expr(NewOf(A, <<>>)))>>,
     <<<<"new", "a", ".", "b", "(", ")", ".", "c">>, One(Expr(Member(NewOf(Member(A, "b"), <<>>), "c")))>>,
     <<<<"a", "(", "b", ",", ")">>, One(Expr(Call(A, <<B>>)))>>,
     <<<<"[", "a", ",", "]">>, One(Expr(Array(<<A>>)))>>,
     <<<<"(", "a", ",", "b", ",", ")", "=>", "c">>, One(Expr(Arrow(<<A, B>>, C, {})))>>,
     <<<<"a", ".", "if">>, One(Expr(Member(A, "if")))>>,
     <<<<"(", "{", "if", ":", "a", "}", ")">>, One(Expr(Object(<<Key("if", A)>>)))>>,
     <<<<"(", "a", ")">>, One(Expr(A))>>, <<<<"(", "a", ")", "=", "b">>, One(Expr(Assign("=", A, B)))>>,
     <<<<"a", "+", "(", "b", "*", "c", ")">>, One(Expr(Binary("+", A, Binary("*", B, C))))>>,
     <<<<"import", "a", ",", "{", "b", "as", "c", ",", "}", "from", "'m'">>,
       One(Import1(<<Tree("ImportDefaultSpecifier", <<A>>), Named("c", "b")>>))>>,
     <<<<"export", "default", "async", "function", "(", ")", "{", "}">>,
       One(Default1(FnDecl(Absent, <<>>, <<>>, {"async"})))>>,
     <<<<"throw", "\n", "a">>, Absent>>, <<<<"a", "b">>, Absent>>, <<<<"a", "+">>, Absent>>,
     <<<<"let", "a", ";", "let", "a">>, Absent>>, <<<<"break">>, Absent>>,
     <<<<"continue">>, Absent>>, <<<<"return", "a">>, Absent>>, <<<<"x", ":", "x", ":", "a">>, Absent>>,
     <<<<"while", "(", "a", ")", "break", "x">>, Absent>>,
     <<<<"with", "(", "a", ")", "b">>, Absent>>, <<<<"delete", "a">>, Absent>>, <<<<"07">>, Absent>>,
     <<<<"arguments", "++">>, Absent>>, <<<<"a", "+", "b", "=", "c">>, Absent>>,
     <<<<"++", "a", "++">>, Absent>>, <<<<"a", "(", ")", "=", "b">>, Absent>>, <<<<"(", "a", ",", "b", ")", "=", "c">>, Absent>>,
     <<<<"(", "a", "+", "b", ")", "=>", "c">>, Absent>>, <<<<"(", "a", ",", "a", ")", "=>", "c">>, Absent>>,
     <<<<"(", ")">>, Absent>>, <<<<"(", "a", ",", ")">>, Absent>>, <<<<"(", "{", "a", "=", "b", "}", ")">>, Absent>>,
     <<<<"[", "...", "a", ",", "b", "]", "=", "c">>, Absent>>, <<<<"const", "a">>, Absent>>, <<<<"let", "[", "a", "]">>, Absent>>,
     <<<<"class", "k", "{", "constructor", "(", ")", "{", "}", "constructor", "(", ")", "{", "}", "}">>, Absent>>,
     <<<<"class", "k", "{", "static", "prototype", "(", ")", "{", "}", "}">>, Absent>>,
     <<<<"(", "{", "get", "a", "(", "b", ")", "{", "}", "}", ")">>, Absent>>,
     <<<<"(", "{", "set", "a", "(", ")", "{", "}", "}", ")">>, Absent>>,
     <<<<"switch", "(", "a", ")", "{", "default", ":", "default", ":", "}">>, Absent>>,
     <<<<"try", "{", "}", "catch", "(", "[", "a", ",", "a", "]", ")", "{", "}">>, Absent>>,
     <<<<"function", "f", "(", ")", "{", "import", "'m'", "}">>, Absent>>,
     <<<<"{", "export", "default", "a", "}">>, Absent>>, <<<<"new", ".", "target">>, Absent>>,
     <<<<"super", "(", ")">>, Absent>>, <<<<"await", "a">>, Absent>>, <<<<"yield", "a">>, Absent>>,
     <<<<"function", "f", "(", "...", "a", ",", "b", ")", "{", "}">>, Absent>>,
     <<<<"export", "{", "default", "}">>, Absent>>, <<<<"if", "(", "a", ")", "function", "f", "(", ")", "{", "}">>, Absent>>,
     <<<<"-", "a", "**", "b">>, Absent>>, <<<<"(", "{", "__proto__", ":", "a", ",", "__proto__", ":", "b", "}", ")">>, Absent>>}

\* Names that mean several variables.
Use(n) == Expr(Id(n))
NewNames == <<"n1", "n2", "n3", "n4", "n5", "n6", "n7", "n8">>
Lone(kind, n) == Var(kind, <<D(Id(n), Absent)>>)
Shadowing ==
    LET Inside(stmts) == {Block(stmts), FnDecl(Id("f"), <<>>, stmts, {}), Expr(Call(C, <<Fn(Absent, <<>>, stmts, {})>>)),
                          Expr(Call(C, <<Arrow(<<>>, Block(stmts), {})>>)), Try(Catch(B, stmts), Absent),
                          Switch(<<Case(B, stmts)>>), Tree("IfStatement", <<A, Block(stmts), Absent>>),
                          Tree("ForStatement", <<Decl("let", "b"), A, B, Block(stmts)>>),
                          Tree("ForOfStatement", <<Head1("let", C), A, Block(stmts)>>),
                          ClassOf(<<Method(Id("m"), <<>>, stmts, {"method"}, {})>>)}
        Local == {Lone("let", "a"), FnDecl(A, <<>>, <<Use("a")>>, {}), Class("ClassDeclaration", A, Absent, <<>>)}
        Of(ds) == UNION {Inside(<<d, Use("a")>>) : d \in ds}
    IN UNION {{<<i, Use("a"), Use("b")>>, <<Decl("var", "b"), i, Use("a")>>} : i \in Of(Local \cup {Lone("var", "a")})}
         \cup {<<Decl("let", "a"), i, Use("a")>> : i \in Of(Local)}

Referring ==
    {<<Decl("let", "a"), Use("n1")>>, <<Use("n2"), Decl("let", "a"), Use("n1")>>,
     <<Decl("let", "a"), Expr(Arrow(<<>>, Id("n2"), {}))>>} \cup
    {<<Decl("let", "a"), Expr(e)>> :
       e \in {Object(<<Short("a")>>), Object(<<Key("a", A)>>), Object(<<Prop(A, A, {"init", "computed"})>>),
              Member(A, "a"), Index(B, A), Template(A), Tagged(A), Assign("=", A, A),
              Assign("=", ObjectPat(<<Short("a")>>), B), Assign("=", ObjectPat(<<Key("p", A)>>), B),
              Assign("=", ArrayPat(<<A, Rest(A)>>), B), Arrow(<<A>>, A, {}), Arrow(<<A, B>>, Binary("+", A, B), {}),
              Arrow(<<ObjectPat(<<Short("a")>>), B>>, A, {}), Arrow(<<Default(B, A)>>, B, {}), Arrow(<<A>>, A, {"async"}),
              Fn(A, <<>>, <<Ret(A)>>, {}), Fn(Id("f"), <<A, Default(B, A)>>, <<Ret(Comma(<<A, B>>))>>, {}),
              Fn(Absent, <<ObjectPat(<<Short("a"), Prop(B, Default(B, A), {"init", "shorthand"})>>)>>, <<Ret(B)>>, {}),
              Fn(Absent, <<ObjectPat(<<Short("a")>>)>>, <<Decl("var", "b"), Ret(B)>>, {}),
              Object(<<Prop(Id("k"), Fn(Absent, <<A>>, <<Ret(A)>>, {}), {"init", "method"})>>),
              Object(<<Prop(Id("k"), Fn(Absent, <<B>>, <<Ret(A)>>, {}), {"set"})>>),
              Class("ClassExpression", A, Absent, <<>>), Class("ClassExpression", B, A, <<>>),
              Class("ClassExpression", Absent, Absent, <<Method(Id("m"), <<B>>, <<Lone("var", "a"), Ret(A)>>, {"method"}, {})>>)}} \cup
    {<<Import1(<<Named("a", "a"), Named("b", "c")>>), Use("a"), Use("b"), Use("c")>>,
     <<Import1(<<Tree("ImportNamespaceSpecifier", <<A>>)>>), Expr(Member(A, "a"))>>,
     <<Decl("let", "a"), Export1(<<As("a", "a"), As("a", "c")>>, Absent)>>,
     <<Decl("let", "a"), Export1(<<As("a", "b")>>, From)>>,
     <<ExportOf(Decl("let", "a")), Use("a")>>, <<Default1(FnDecl(A, <<>>, <<Use("a")>>, {})), Use("a")>>,
     <<Decl("let", "x"), Label("x", Loop(Jump("BreakStatement", Id("x"))))>>,
     <<Label("x", Loop(Jump("ContinueStatement", Id("x")))), Use("x")>>,
     <<Decl("let", "a"), Tree("SwitchStatement", <<A, List(<<Case(Absent, <<Lone("let", "a")>>)>>)>>)>>,
     <<For(Decl("let", "i"), Id("i"), Postfix("++", Id("i"))), Use("i")>>,
     <<For(Decl("var", "i"), Id("i"), Postfix("++", Id("i"))), Use("i")>>,
     <<ForIn(Head1("var", ArrayPat(<<B>>)), A), Use("b")>>,
     <<Var("let", <<D(ObjectPat(<<Key("p", A), Short("b"), Prop(C, Default(C, B), {"init", "shorthand"})>>), A)>>), Use("c")>>,
     <<Var("let", <<D(ArrayPat(<<A, Default(B, A), Rest(C)>>), Id("d"))>>), Expr(Array(<<A, B, C>>))>>,
     <<FnDecl(Id("f"), <<A>>, <<FnDecl(Id("g"), <<B>>, <<Ret(Call(Id("f"), <<A, B>>))>>, {})>>, {}), Use("g")>>,
     <<Try(Catch(ArrayPat(<<A, B>>), <<Expr(A)>>), Block(<<Expr(B)>>)), Use("a")>>}

\* Sums of constants: integers at and over the limits and one in base 8, strings with and
\* without quotes, backslashes and line ends in them.
Numbers == {Num("0"), Num("3"), Num("15"), Num("1.5"), Num("0o11")}
Strings == {Str("'s'"), Str("\"t\""), Str("'\"'"), Str("'\\''"), Str("'\\n'"), Str("'\\\\'"),
            Str("'\\t'"), Str("'n\\\ns'")}
Sums ==
    LET Bin(op, l, r) == Binary(op, l, r) IN
    UNION {{Bin(o, l, r), Bin(p, Bin(o, l, r), Num("3")), Bin(p, A, Bin(o, l, r)), Bin(o, Bin(p, A, l), r),
            Bin("<", l, Bin(o, r, Num("1"))), Bin("*", Bin(o, l, r), A), Unary("-", Bin(o, l, r)),
            Member(Bin(o, l, r), "p"), Bin("**", Bin(o, l, r), A)}
           : o, p \in {"+", "-"}, l, r \in Numbers} \cup
    UNION {{Bin("+", l, r), Bin("+", Bin("+", l, r), Str("'s'")), Bin("+", A, Bin("+", l, r)), Bin("-", l, r)}
           : l, r \in Strings \cup {Num("3")}}

Expressions2 == UNION {Files1(<<Expr(o)>>, Both) : o \in UNION {Outer(h) : h \in Inner}}
Statements1 == UNION {Files1(<<s, Expr(A)>>, Both) : s \in UNION {Around(h) : h \in Inner}}
Operators3 == UNION {Files1(<<Expr(o)>>, Both) : o \in Three}
Bodies3 == UNION {Files1(b, Both) : b \in Bodies \cup Classes \cup Modules \cup Substitutions}
WithNewNames == UNION {Files1(b, {Kind(TRUE, FALSE, FALSE, TRUE)}) : b \in Bodies \cup Classes \cup Modules \cup Shadowing \cup Referring}
WithFolding == UNION {Files1(<<Expr(o)>>, {Kind(m, TRUE, w, FALSE) : m, w \in BOOLEAN}) : o \in Sums}
Spelt == {File(s[1], s[2], Plainly) : s \in Spellings}

Programs == Expressions2 \cup Statements1 \cup Operators3 \cup Bodies3 \cup WithNewNames \cup WithFolding \cup Spelt
=============================================================================
