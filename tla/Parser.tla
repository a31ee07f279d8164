------------------------------- MODULE Parser -------------------------------
(***************************************************************************)
(* The recursive-descent parser (parser/Parser.hpp, Parser.cpp).  A parser *)
(* state is a record: the tokens and the position of the lookahead, the    *)
(* context members of ParserContext that the code reads and restores, the  *)
(* scopes made so far and the one the running function was handed, and the *)
(* node the last function returned.  An operator ParseX takes the state in *)
(* which ParseX is called and gives the one in which it returns.  A thrown *)
(* exception is a failed state: it stands at the end of the file, where    *)
(* every loop ends, and stays failed.  Ranges, comments, the tolerant mode *)
(* (never asked for) and wording are left out, and so is what is given to  *)
(* TolerateUnexpectedToken: it makes an error that nothing throws or reads, *)
(* so async constructor() {} is read.  A directive is read without         *)
(* the quotes and then loses its first character, so that no spelling of   *)
(* Tokens is ever "use strict", and what only matters after one is left    *)
(* out: allow_strict_directive_ and the restricted names of parameters.    *)
(***************************************************************************)
EXTENDS SyntaxNodes, Tokens, Scope, ConstantFolding, SequencesExt

Start(toks, config) ==
    [toks |-> toks, i |-> 1, err |-> FALSE, node |-> Absent, config |-> config,
     curly_stack |-> IF toks = <<>> THEN <<>> ELSE ScanCurly(<<>>, toks[1].v).stack,
     is_module |-> FALSE, strict |-> FALSE, lex_strict |-> FALSE, allow_in |-> TRUE,
     allow_yield |-> TRUE, await |-> FALSE,
     is_assignment_target |-> FALSE, is_binding_element |-> FALSE, first_cover |-> FALSE,
     in_function_body |-> FALSE, in_iteration |-> FALSE, in_switch |-> FALSE,
     label_set |-> {}, scopes |-> <<>>, scope |-> 0]

Return(s, node) == [s EXCEPT !.node = node]

\* A throw, and TolerateError: the handler throws unless it is tolerant.
Fail(s) == [s EXCEPT !.i = Len(s.toks), !.err = TRUE]

FailIf(cond, s) == IF cond THEN Fail(s) ELSE s

-----------------------------------------------------------------------------
(* ParserCommon.cpp: the lookahead.                                        *)

Look(s)     == s.toks[s.i].v
Peek(s)     == IF s.i < Len(s.toks) THEN s.toks[s.i + 1].v ELSE EOF
HasNewline(s) == s.toks[s.i].nl
Match(s, v) == Look(s) = v
AtEnd(s)    == Match(s, EOF)

\* strict is read when a token is scanned, which is when the one before it is taken.
Advance(s, read) ==
    [s EXCEPT !.i = @ + 1, !.lex_strict = s.strict, !.curly_stack = read.stack,
              !.toks[s.i + 1].v = read.v]

NextToken(s) == IF AtEnd(s) THEN s ELSE Advance(s, ScanCurly(s.curly_stack, Peek(s)))

\* SaveState, Lex, RestoreState: the token is put back, but not the braces it pushed or popped.
LookPast(s) == [s EXCEPT !.curly_stack = ScanCurly(@, Peek(s)).stack]

Expect(s, v) == IF Match(s, v) THEN NextToken(s) ELSE Fail(s)

Reserved(s)        == s.lex_strict /\ Look(s) \in StrictReserved
IsIdentifier(s)    == IsPlainWord(Look(s)) /\ ~Reserved(s)
IsKeywordToken(s)  == IsKeyword(Look(s)) \/ Reserved(s)
IsIdentifierName(v) == IsKeyword(v) \/ v \in WordLiterals \/ IsPlainWord(v)
MatchAssign(s)     == Look(s) \in Assignments
MatchContextualKeyword(s, word) == Match(s, word) /\ IsIdentifier(s)

SameLine(s, t) == \A k \in (s.i + 1)..t.i : ~s.toks[k].nl


MatchAsyncFunction(s) ==
    /\ MatchContextualKeyword(s, "async")
    /\ Peek(s) = "function"
    /\ ~s.toks[s.i + 1].nl

\* The state in which MatchAsyncFunction returns.
PastAsync(s) == IF MatchContextualKeyword(s, "async") THEN LookPast(s) ELSE s

MatchImportCall(s) == Match(s, "import") /\ Peek(s) = "("

IsLexicalDeclaration(s) == IsPlainWord(Peek(s)) \/ Peek(s) \in {"[", "{", "let", "yield"}

IsStartOfExpression(s) ==
    IF IsPunctuator(Look(s))
    THEN Look(s) \in {"[", ")", "{", "+", "-", "!", "~", "++", "--", "/", "/="}
    ELSE IsKeywordToken(s) =>
           Look(s) \in {"class", "delete", "function", "let", "new", "super", "this",
                        "typeof", "void", "yield"}

QualifiedPropertyName(s) ==
    \/ IsIdentifierName(Look(s))
    \/ IsString(Look(s)) \/ Look(s) \in NumericLiterals \cup {"["}

\* Automatic semicolons.
ConsumeSemicolon(s) ==
    CASE Match(s, ";") -> NextToken(s)
      [] HasNewline(s) \/ AtEnd(s) \/ Match(s, "}") -> s
      [] OTHER -> Fail(s)

-----------------------------------------------------------------------------
(* The cover grammar: what an expression may still turn out to be.         *)

Fresh(s) == [s EXCEPT !.is_binding_element = TRUE, !.is_assignment_target = TRUE,
                      !.first_cover = FALSE]


IsolateCoverGrammar(s, t) ==
    IF t.first_cover THEN Fail(t)
    ELSE [t EXCEPT !.is_binding_element = s.is_binding_element,
                   !.is_assignment_target = s.is_assignment_target,
                   !.first_cover = s.first_cover]

InheritCoverGrammar(s, t) ==
    [t EXCEPT !.is_binding_element = @ /\ s.is_binding_element,
              !.is_assignment_target = @ /\ s.is_assignment_target,
              !.first_cover = @ \/ s.first_cover]

NotTarget(s) == [s EXCEPT !.is_assignment_target = FALSE, !.is_binding_element = FALSE]

-----------------------------------------------------------------------------
(* Scopes.                                                                 *)

\* A new scope, in which the function goes on, under the given one.
OpenScope(s, type, parent) ==
    [s EXCEPT !.scopes = Append(@, NewScope(type, parent)), !.scope = Len(s.scopes) + 1]

CloseScope(s, t) == [t EXCEPT !.scope = s.scope]

Declare(s, sc, name, at, kind) ==
    CASE sc = 0 -> s
      [] VariableExists(s.scopes, sc, name, kind) -> Fail(s)
      [] OTHER -> [s EXCEPT !.scopes = CreateVariable(@, sc, name, at, kind)]

Refer(s, name, at) ==
    IF s.scope = 0 THEN s ELSE [s EXCEPT !.scopes = AddUnresolvedId(@, s.scope, name, at)]

\* The module scope, or none: scope.CastToModule().
InModuleScope(s) == s.scopes[s.scope].type = "Module"

-----------------------------------------------------------------------------
(* Expressions read as patterns.                                           *)

RECURSIVE Reinterpretable(_)
Reinterpretable(node) ==
    CASE node.type \in {"Identifier", "RestElement", "MemberExpression", "AssignmentPattern"} -> TRUE
      [] node.type = "SpreadElement" -> Reinterpretable(node.kids[1])
      [] node.type = "ArrayExpression" ->
           \A i \in DOMAIN node.kids :
               node.kids[i] # Absent => Reinterpretable(node.kids[i])
      [] node.type = "ObjectExpression" ->
           \A i \in DOMAIN node.kids :
               LET p == node.kids[i]
               IN  Reinterpretable(IF p.type = "Property" THEN p.kids[2] ELSE p)
      [] node.type = "AssignmentExpression" -> Reinterpretable(node.kids[1])
      [] node.type = "Absent" -> TRUE
      [] OTHER -> FALSE

\* The new Property keeps the key and the value; its flags are the default ones.
RECURSIVE ReinterpretExpressionAsPattern(_)
ReinterpretExpressionAsPattern(node) ==
    LET Each(nodes) == [i \in DOMAIN nodes |-> ReinterpretExpressionAsPattern(nodes[i])]
    IN CASE node.type = "SpreadElement" -> Tree("RestElement", Each(node.kids))
         [] node.type = "ArrayExpression" -> Tree("ArrayPattern", Each(node.kids))
         [] node.type = "ObjectExpression" ->
              Tree("ObjectPattern", Each(node.kids))
         [] node.type = "Property" ->
              Tree("Property", <<node.kids[1], ReinterpretExpressionAsPattern(node.kids[2])>>)
         [] node.type = "AssignmentExpression" ->
              Tree("AssignmentPattern",
                   <<ReinterpretExpressionAsPattern(node.kids[1]), node.kids[2]>>)
         [] OTHER -> node

AsPattern_Kept(s) == IF Reinterpretable(s.node) THEN s ELSE Fail(s)

AsPattern(s) ==
    IF Reinterpretable(s.node) THEN Return(s, ReinterpretExpressionAsPattern(s.node)) ELSE Fail(s)

-----------------------------------------------------------------------------
(* The functions that call one another, as the language nests.  A call of   *)
(* ParseX(s, a, b) that closes a circle, or that many functions make, is    *)
(* written Parse(<<"X", a, b>>, s): Parse, at the end, is the one operator   *)
(* declared before its definition.                                         *)

RECURSIVE Parse(_, _)

\* Up to, and without, one of the closing tokens.
RECURSIVE ParseStatements(_, _, _)
ParseStatements(s, closing, acc) ==
    IF s.err \/ Look(s) \in closing THEN Return(s, List(acc))
    ELSE LET t == Parse(<<"StatementListItem">>, s) IN ParseStatements(t, closing, Append(acc, t.node))

\* Up to, and without, the closing bracket; an entry of kind "element" may be a hole.
RECURSIVE ParseList(_, _, _, _)
ParseList(s, close, kind, acc) ==
    IF s.err \/ Match(s, close) THEN Return(s, List(acc))
    ELSE LET t == Parse(<<"Entry", close, kind, acc>>, s)
         IN ParseList(IF Match(t, close) THEN t ELSE Expect(t, ","), close, kind, Append(acc, t.node))

\* IsolateCoverGrammar and InheritCoverGrammar around ParseAssignmentExpression.
Isolated(s)  == IsolateCoverGrammar(s, Parse(<<"AssignmentExpression">>, Fresh(s)))
Inherited(s) == InheritCoverGrammar(s, Parse(<<"AssignmentExpression">>, Fresh(s)))

IsRestrictedWord(v) == v \in {"eval", "arguments"}

RestrictedIn(s, node) == s.strict /\ node.type = "Identifier" /\ IsRestrictedWord(node.val)

\* A name that no scope learns of.
ParseIdentifierName(s) ==
    IF IsIdentifierName(Look(s)) THEN Return(NextToken(s), Identifier(Look(s), 0)) ELSE Fail(s)

\* The test for yield is on the token after the name, and replaces the test on the name.
ParseVariableIdentifier(s, sc, kind) ==
    LET t == NextToken(s)
        refused == IF Match(t, "yield") THEN ~t.strict /\ ~t.allow_yield ELSE ~IsIdentifier(s)
        id == Identifier(Look(s), IF sc = 0 THEN 0 ELSE s.i)
    IN IF refused THEN Fail(s) ELSE Return(Declare(t, sc, Look(s), s.i, kind), id)

ParseExpression(s) ==
    LET t == Isolated(s)
        RECURSIVE More(_, _)
        More(u, acc) ==
            IF ~Match(u, ",") THEN Return(u, Tree("SequenceExpression", acc))
            ELSE LET v == Isolated(NextToken(u)) IN More(v, Append(acc, v.node))
    IN IF Match(t, ",") THEN More(t, <<t.node>>) ELSE t

ParseSpreadElement(s) ==
    LET t == Inherited(Expect(s, "...")) IN Return(t, Tree("SpreadElement", <<t.node>>))

\* A list up to and with its closing bracket; an entry of kind "hole" takes no token.
ParseBracketed(s, open, close, kind) ==
    LET t == ParseList(Expect(s, open), close, kind, <<>>) IN Return(Expect(t, close), t.node)

ParseArguments(s) == Parse(<<"Bracketed", "(", ")", <<"argument">>>>, s)

-----------------------------------------------------------------------------
(* Templates, regular expressions, literals.                               *)

TemplateElement(v) == Node("TemplateElement", v, Flag(v \in TemplateTails, "tail"), <<>>)

ParseTemplateLiteral(s) ==
    LET RECURSIVE Rest(_, _, _)
        Rest(t, quasis, exprs) ==
            IF t.err \/ Last(quasis).val \in TemplateTails
            THEN Return(t, Tree("TemplateLiteral", <<List(quasis), List(exprs)>>))
            ELSE LET u == Parse(<<"Expression">>, t)
                 IN IF Look(u) \notin Templates THEN Fail(u)
                    ELSE Rest(NextToken(u), Append(quasis, TemplateElement(Look(u))),
                              Append(exprs, u.node))
    IN IF Look(s) \in TemplateHeads
       THEN Rest(NextToken(s), <<TemplateElement(Look(s))>>, <<>>) ELSE Fail(s)

NextRegexToken(s) ==
    LET t == NextToken(s) IN
    IF Look(t) \in RegexBodies THEN Return(NextToken(t), Node("RegexLiteral", Look(t), {}, <<>>))
    ELSE Fail(t)

LiteralType(v) ==
    CASE v \in NumericLiterals -> "Double"
      [] IsString(v)           -> "String"
      [] v = "null" -> "Null"
      [] OTHER -> "Boolean"

LiteralOf(v) == Valued(Literal(LiteralType(v), v), TokenValue(v))

ParseLiteral(s) ==
    IF s.strict /\ Look(s) \in OctalLiterals THEN Fail(s)
    ELSE Return(NextToken(NotTarget(s)), LiteralOf(Look(s)))

ParseObjectPropertyKey(s) ==
    LET t == NextToken(s) IN
    CASE IsIdentifierName(Look(s)) -> Return(t, Identifier(Look(s), 0))
      [] Match(s, "[") -> LET u == Isolated(t) IN Return(Expect(u, "]"), u.node)
      [] IsString(Look(s)) \/ Look(s) \in NumericLiterals ->
           Return(t, LiteralOf(Look(s)))
      [] OTHER -> Fail(s)

IsPropertyKey(key, name) ==
    \/ key.type = "Identifier" /\ key.val = name
    \/ key.type = "Literal" /\ "String" \in key.flags /\ key.str = name

-----------------------------------------------------------------------------
(* Functions.                                                              *)

\* The body is read in the scope the parameters are in.
ParseDirectivePrologues(s) ==
    LET RECURSIVE Directives(_, _)
        Directives(t, acc) ==
            IF ~IsString(Look(t)) THEN Return(t, List(acc))
            ELSE LET u == Parse(<<"Expression">>, t)
                     v == ConsumeSemicolon(u)
                     size == Len(TokenValue(Look(t)))
                     directive == u.node.type = "Literal" /\ size > 1
                     stmt == Tree(IF directive THEN "Directive" ELSE "ExpressionStatement", <<u.node>>)
                 IN CASE u.node.type = "Literal" /\ size = 0 -> Fail(u)    \* '' has no first character
                      [] directive -> Directives(v, Append(acc, stmt))
                      [] OTHER -> Return(v, List(Append(acc, stmt)))
    IN Directives(s, <<>>)

ParseFunctionSourceElements(s) ==
    LET t == Parse(<<"DirectivePrologues">>, s)
        u == [Expect(t, "{") EXCEPT !.label_set = {}, !.in_iteration = FALSE,
                                    !.in_switch = FALSE, !.in_function_body = TRUE]
        v == ParseStatements(u, {"}", EOF}, t.node.kids)
        w == Expect(v, "}")
    IN Return([w EXCEPT !.label_set = s.label_set, !.in_iteration = s.in_iteration,
                        !.in_switch = s.in_switch, !.in_function_body = s.in_function_body],
              Tree("BlockStatement", v.node.kids))

ParseFormalParameters(s) == Parse(<<"Bracketed", "(", ")", <<"parameter">>>>, s)

\* Parameters and body of what began in state s; the name is in t.node.
FunctionFrom(s, t, type, flags) ==
    LET u == ParseFormalParameters(t)
        v == Parse(<<"FunctionSourceElements">>, u)
    IN Return([CloseScope(s, v) EXCEPT !.await = s.await, !.allow_yield = s.allow_yield],
              Node(type, "", flags, <<t.node, u.node, v.node>>))

\* async, function, *: the state after them and the flags of the node.
FunctionHead(s) ==
    LET async == MatchContextualKeyword(s, "async")
        t == Expect(IF async THEN NextToken(s) ELSE s, "function")
        generator == ~async /\ Match(t, "*")
    IN [st |-> IF generator THEN NextToken(t) ELSE t,
        flags |-> Flag(async, "async") \cup Flag(generator, "generator")]

FunctionContext(s, flags) ==
    [s EXCEPT !.await = "async" \in flags, !.allow_yield = "generator" \notin flags]

ParseFunctionExpression(s) ==
    LET head == FunctionHead(OpenScope(s, "Function", s.scope))
        t == FunctionContext(head.st, head.flags)
        named == CASE Match(t, "(") -> Return(t, Absent)
                   [] Match(t, "yield") /\ ~t.strict /\ t.allow_yield -> Parse(<<"IdentifierName">>, t)
                   [] OTHER -> Parse(<<"VariableIdentifier", t.scope, "Invalid">>, t)
    IN FunctionFrom(s, named, "FunctionExpression", head.flags)

\* The name belongs to the scope around the function.
ParseFunctionDeclaration(s, identifier_is_optional) ==
    LET head == FunctionHead(OpenScope(s, "Function", s.scope))
        named == IF identifier_is_optional /\ Match(head.st, "(") THEN Return(head.st, Absent)
                 ELSE Parse(<<"VariableIdentifier", s.scope, "Var">>, head.st)
    IN FunctionFrom(s, FunctionContext(named, head.flags), "FunctionDeclaration", head.flags)

\* Getters, setters and methods make no scope.
ParseMethod(s, flags, yield_in_params, yield_in_body) ==
    LET u == ParseFormalParameters([s EXCEPT !.allow_yield = yield_in_params,
                                             !.await = @ \/ "async" \in flags])
        v == NotTarget([u EXCEPT !.allow_yield = yield_in_body])
        w == IsolateCoverGrammar(v, Parse(<<"FunctionSourceElements">>, Fresh(v)))
    IN Return([w EXCEPT !.allow_yield = s.allow_yield, !.await = s.await],
              Node("FunctionExpression", "", flags, <<Absent, u.node, w.node>>))

ParseGetterMethod(s) ==
    LET t == Parse(<<"Method", {}, TRUE, TRUE>>, s) IN FailIf(~t.err /\ t.node.kids[2].kids # <<>>, t)
ParseSetterMethod(s) ==
    LET t == Parse(<<"Method", {}, TRUE, TRUE>>, s)
        params == t.node.kids[2].kids
    IN FailIf(~t.err /\ (Len(params) # 1 \/ params[1].type = "RestElement"), t)
ParseGeneratorMethod(s)             == Parse(<<"Method", {"generator"}, TRUE, FALSE>>, s)
ParsePropertyMethodFunction(s)      == Parse(<<"Method", {}, TRUE, TRUE>>, s)
ParsePropertyMethodAsyncFunction(s) == Parse(<<"Method", {"async"}, FALSE, FALSE>>, s)

-----------------------------------------------------------------------------
(* Objects.                                                                *)

\* Only entries written with a colon count.
HasProto(acc) ==
    \E i \in DOMAIN acc : acc[i].type = "Property" /\ acc[i].flags = {"init"}
                          /\ IsPropertyKey(acc[i].kids[1], "__proto__")

\* allow_yield_ is set for a getter or a setter and never set back.
ParseObjectProperty(s, acc) ==
    LET named == IsIdentifier(s)
        t == NextToken(s)
        is_async == /\ Match(s, "async") /\ named /\ ~HasNewline(t)
                    /\ Look(t) \notin {":", "(", "*", ","}
        u == CASE named /\ is_async -> Parse(<<"ObjectPropertyKey">>, t)
               [] named -> Return(t, Identifier(Look(s), 0))
               [] Match(s, "*") -> Return(t, Absent)
               [] OTHER -> Parse(<<"ObjectPropertyKey">>, s)
        computed == IF named THEN Match(t, "[") ELSE Match(s, "[")
        word == IF named /\ ~is_async THEN Look(s) ELSE ""
        k == Parse(<<"ObjectPropertyKey">>, u)
        Property(v, key, value, flags, comp) ==
            Return(v, Node("Property", "", flags \cup Flag(comp, "computed"), <<key, value>>))
        Own(v, flags) == Property(v, k.node, v.node, flags, Match(u, "["))
        short == Identifier(Look(s), 0)
    IN CASE word = "get" /\ QualifiedPropertyName(u) ->
              Own(ParseGetterMethod([k EXCEPT !.allow_yield = FALSE]), {"get"})
         [] word = "set" /\ QualifiedPropertyName(u) ->
              Own(ParseSetterMethod([k EXCEPT !.allow_yield = FALSE]), {"set"})
         [] Match(s, "*") -> IF QualifiedPropertyName(u)
                             THEN Own(ParseGeneratorMethod(k), {"init", "method"}) ELSE Fail(u)
         [] Match(u, ":") /\ ~is_async ->
              LET v == Inherited(NextToken(u))
                  again == ~computed /\ IsPropertyKey(u.node, "__proto__") /\ HasProto(acc)
              IN FailIf(again, Property(v, u.node, v.node, {"init"}, computed))
         [] Match(u, "(") ->
              LET v == IF is_async THEN ParsePropertyMethodAsyncFunction(u)
                       ELSE ParsePropertyMethodFunction(u)
              IN Property(v, u.node, v.node, {"init", "method"}, computed)
         [] named /\ Match(u, "=") ->
              LET v == Isolated(NextToken([u EXCEPT !.first_cover = TRUE]))
              IN Property(v, u.node, Absent, {"init", "shorthand"}, computed)
         [] named -> Property(u, u.node, short, {"init", "shorthand"}, computed)
         [] OTHER -> Fail(u)

ParseObjectInitializer(s) ==
    LET t == Parse(<<"Bracketed", "{", "}", <<"property">>>>, s)
    IN Return(t, Tree("ObjectExpression", t.node.kids))

ParseArrayInitializer(s) ==
    LET t == Parse(<<"Bracketed", "[", "]", <<"element">>>>, s)
    IN Return(t, Tree("ArrayExpression", t.node.kids))

-----------------------------------------------------------------------------
(* Classes.                                                                *)

\* "async" asks for no more than its name: async() {} takes "(" for the key.
ClassElementHead(s) ==
    LET first == Parse(<<"ObjectPropertyKey">>, s)
        is_static == /\ ~Match(s, "*") /\ first.node.type = "Identifier"
                     /\ first.node.val = "static"
                     /\ QualifiedPropertyName(first) \/ Match(first, "*")
        start == IF is_static THEN first ELSE s       \* the token the tests look at
        t == CASE is_static /\ Match(first, "*") -> NextToken(first)
               [] is_static -> Parse(<<"ObjectPropertyKey">>, first)
               [] Match(s, "*") -> Return(NextToken(s), Absent)
               [] OTHER -> first
    IN [st |-> t, start |-> start, is_static |-> is_static,
        is_async |-> MatchContextualKeyword(start, "async") /\ ~HasNewline(t)]

\* u: the state in which async is behind; the tests look at the token of state at.
ClassElementFrom(h, u, at, acc) ==
    LET word == IF IsIdentifier(at) THEN Look(at) ELSE ""
        k == Parse(<<"ObjectPropertyKey">>, u)
        accessor == word \in {"get", "set"} /\ QualifiedPropertyName(u)
        generator == Match(at, "*") /\ QualifiedPropertyName(u)
        computed == Match(IF accessor \/ generator THEN u ELSE h.start, "[")
        body == CASE accessor /\ word = "get" -> ParseGetterMethod([k EXCEPT !.allow_yield = FALSE])
                  [] accessor -> ParseSetterMethod(k)
                  [] generator -> ParseGeneratorMethod(k)
                  [] u.node = Absent \/ ~Match(u, "(") -> Fail(u)
                  [] h.is_async -> ParsePropertyMethodAsyncFunction(u)
                  [] OTHER -> ParsePropertyMethodFunction(u)
        key == IF accessor \/ generator THEN k.node ELSE u.node
        ctor == ~computed /\ ~h.is_static /\ IsPropertyKey(key, "constructor")
        kind == CASE ctor -> "ctor" [] accessor -> word [] OTHER -> "method"
        refused == \/ ~computed /\ h.is_static /\ IsPropertyKey(key, "prototype")
                   \/ ctor /\ \E i \in DOMAIN acc : "ctor" \in acc[i].flags
    IN IF body.err THEN body
       ELSE FailIf(refused,
                   Return(body, Node("MethodDefinition", "",
                                     {kind} \cup Flag(computed, "computed") \cup Flag(h.is_static, "static"),
                                     <<key, body.node>>)))

ParseClassElement(s, acc) ==
    LET h == ClassElementHead(s)
        u == Parse(<<"ObjectPropertyKey">>, h.st)
    IN IF h.is_async THEN ClassElementFrom(h, u, h.st, acc)
       ELSE ClassElementFrom(h, h.st, h.start, acc)

ParseClassElementList(s) ==
    LET RECURSIVE Elements(_, _)
        Elements(t, acc) ==
            CASE t.err \/ Match(t, "}") -> Return(t, Tree("ClassBody", acc))
              [] Match(t, ";") -> Elements(NextToken(t), acc)
              [] OTHER -> LET u == Parse(<<"ClassElement", acc>>, t) IN Elements(u, Append(acc, u.node))
        body == Elements(Expect(s, "{"), <<>>)
    IN Return(Expect(body, "}"), body.node)

\* What follows the name, which is in t.node: only an identifier can be extended.
ClassFrom(s, t, type) ==
    LET u == [NextToken(t) EXCEPT !.scope = Len(s.scopes) + 1]
        super == IF ~Match(t, "extends") THEN Return([t EXCEPT !.scope = Len(s.scopes) + 1], Absent)
                 ELSE LET v == IsolateCoverGrammar(u, Parse(<<"LeftHandSideExpressionAllowCall">>, Fresh(u)))
                      IN FailIf(v.node.type # "Identifier", v)
        body == ParseClassElementList(super)
    IN Return([CloseScope(s, body) EXCEPT !.strict = s.strict],
              Tree(type, <<t.node, super.node, body.node>>))

\* The name belongs to the scope around the class, for an expression too.
ClassHead(s) ==
    CloseScope(s, Expect([OpenScope(s, "Class", s.scope) EXCEPT !.strict = TRUE], "class"))

ParseClassDeclaration(s) ==
    ClassFrom(s, LET t == ClassHead(s) IN Parse(<<"VariableIdentifier", t.scope, "Var">>, t),
              "ClassDeclaration")

ParseClassExpression(s) ==
    ClassFrom(s, LET t == ClassHead(s) IN
                 IF IsIdentifier(t) THEN Parse(<<"VariableIdentifier", t.scope, "Invalid">>, t)
                 ELSE Return(t, Absent),
              "ClassExpression")

-----------------------------------------------------------------------------
(* Primary expressions.                                                    *)

ParseRestElement(s) ==
    LET t == Parse(<<"Pattern", "Invalid">>, Expect(s, "..."))
    IN FailIf(~Match(t, ")"), Return(t, Tree("RestElement", <<t.node>>)))

PlaceHolder(s, params, async) ==
    Return(s, Node("ArrowParameterPlaceHolder", "", Flag(async, "async"), params))

\* Each is read as a pattern, to see whether it can be, and stays what it was.
AllReinterpretable(nodes) == \A i \in DOMAIN nodes : Reinterpretable(nodes[i])

Arrowed(s, params) ==
    IF AllReinterpretable(params) THEN PlaceHolder(s, params, FALSE) ELSE Fail(s)

\* The lookahead after "(" and no rest: expressions, and perhaps parameters.
RECURSIVE GroupItems(_, _)
GroupItems(s, acc) ==
    LET t == NextToken(s) IN
    CASE s.err -> s
      [] ~Match(s, ",") -> Return(s, IF Len(acc) = 1 THEN acc[1] ELSE Tree("SequenceExpression", acc))
      [] Match(t, ")") -> Arrowed(NextToken(t), acc)
      [] Match(t, "...") ->
           LET u == Parse(<<"RestElement">>, t)
               v == Expect(u, ")")
           IN IF ~t.is_binding_element THEN Fail(t)
              ELSE Arrowed([FailIf(~Match(v, "=>"), v) EXCEPT !.is_binding_element = FALSE],
                           Append(acc, u.node))
      [] OTHER -> LET u == Inherited(t) IN GroupItems(u, Append(acc, u.node))

GroupAsArrow(s, expr) ==
    CASE expr.type = "Identifier" /\ expr.val = "yield" -> PlaceHolder(s, <<expr>>, FALSE)
      [] ~s.is_binding_element -> Fail(s)
      [] OTHER -> Arrowed(s, IF expr.type = "SequenceExpression" THEN expr.kids ELSE <<expr>>)

ParseGroupExpression(s) ==
    LET t == Expect(s, "(") IN
    CASE Match(t, ")") ->
           LET u == NextToken(t) IN FailIf(~Match(u, "=>"), PlaceHolder(u, <<>>, FALSE))
      [] Match(t, "...") ->
           LET u == Parse(<<"RestElement">>, t)
               v == Expect(u, ")")
           IN FailIf(~Match(v, "=>"), PlaceHolder(v, <<u.node>>, FALSE))
      [] OTHER ->
           LET first == Inherited([t EXCEPT !.is_binding_element = TRUE])
               u == GroupItems([first EXCEPT !.is_assignment_target = @ /\ ~Match(first, ",")],
                               <<first.node>>)
               v == Expect(u, ")")
           IN IF u.err \/ u.node.type = "ArrowParameterPlaceHolder" THEN u
              ELSE [(IF Match(v, "=>") THEN GroupAsArrow(v, u.node) ELSE v)
                      EXCEPT !.is_binding_element = FALSE]

ParsePrimaryExpression(s) ==
    LET here == NotTarget(s)
        Inherit(t) == InheritCoverGrammar(s, t)
    IN CASE Match(s, "yield") /\ ~s.strict /\ s.allow_yield -> Parse(<<"IdentifierName">>, s)
         [] Match(s, "let") /\ ~s.strict -> Return(NextToken(s), Identifier("let", 0))
         [] Match(s, "function") -> Parse(<<"FunctionExpression">>, here)
         [] Match(s, "this") -> Return(NextToken(here), Tree("ThisExpression", <<>>))
         [] Match(s, "class") -> Parse(<<"ClassExpression">>, here)
         [] MatchImportCall(s) -> Return(NextToken(here), Tree("Import", <<>>))
         [] IsKeywordToken(s) -> Fail(s)
         [] IsIdentifier(s) ->
              IF Match(s, "await") /\ (s.is_module \/ s.await) THEN Fail(s)
              ELSE IF MatchAsyncFunction(s) THEN Parse(<<"FunctionExpression">>, s)
              ELSE Return(Refer(NextToken(PastAsync(s)), Look(s), s.i), Identifier(Look(s), s.i))
         [] IsString(Look(s)) \/ Look(s) \in NumericLiterals \cup WordLiterals -> ParseLiteral(s)
         [] Look(s) \in Templates -> Parse(<<"TemplateLiteral">>, s)
         [] Match(s, "(") -> LET t == [s EXCEPT !.is_binding_element = FALSE]
                             IN InheritCoverGrammar(t, Parse(<<"GroupExpression">>, Fresh(t)))
         [] Match(s, "[") -> Inherit(ParseArrayInitializer(Fresh(s)))
         [] Match(s, "{") -> Inherit(ParseObjectInitializer(Fresh(s)))
         [] Look(s) \in {"/", "/="} -> NextRegexToken(here)
         [] OTHER -> Fail(s)

-----------------------------------------------------------------------------
(* Members, calls, new.                                                    *)

IsRequireCall(node) ==
    /\ node.kids[1].type = "Identifier" /\ node.kids[1].val = "require"
    /\ LET args == node.kids[2].kids
       IN Len(args) = 1 /\ args[1].type = "Literal" /\ "String" \in args[1].flags

\* What the listener puts in place of require('...').
RequiredModule == Tree("CallExpression", <<Identifier("required", 0), List(<<>>)>>)

\* call: whether calls belong to the chain; s: the state before it began.
RECURSIVE MemberChain(_, _, _)
MemberChain(s, t, call) ==
    LET target == [NextToken(t) EXCEPT !.is_binding_element = FALSE, !.is_assignment_target = TRUE]
        async == MatchContextualKeyword(s, "async") /\ SameLine(s, t)
        args == IF async THEN Parse(<<"Bracketed", "(", ")", <<"async">>>>, NotTarget(t))
                ELSE Parse(<<"Arguments">>, NotTarget(t))
        made == Tree("CallExpression", <<t.node, args.node>>)
    IN CASE t.err -> t
         [] Match(t, ".") ->
              LET u == Parse(<<"IdentifierName">>, target)
              IN MemberChain(s, Return(u, Tree("MemberExpression", <<t.node, u.node>>)), call)
         [] Match(t, "[") ->
              LET u == IsolateCoverGrammar(target, Parse(<<"Expression">>, Fresh(target)))
              IN MemberChain(s, Return(Expect(u, "]"), Node("MemberExpression", "", {"computed"},
                                                            <<t.node, u.node>>)), call)
         [] call /\ Match(t, "(") ->
              CASE args.err \/ (t.node.type = "Import" /\ Len(args.node.kids) # 1) -> Fail(args)
                [] async /\ Match(args, "=>") ->
                     IF AllReinterpretable(args.node.kids)
                     THEN MemberChain(s, PlaceHolder(args,
                            [i \in DOMAIN args.node.kids |->
                               ReinterpretExpressionAsPattern(args.node.kids[i])], TRUE), call)
                     ELSE Fail(args)
                [] args.config.on_require /\ IsRequireCall(made) -> Return(args, RequiredModule)
                [] OTHER -> MemberChain(s, Return(args, made), call)
         [] Look(t) \in TemplateHeads ->
              LET u == Parse(<<"TemplateLiteral">>, t)
              IN MemberChain(s, Return(u, Tree("TaggedTemplateExpression", <<t.node, u.node>>)), call)
         [] OTHER -> IF call THEN [t EXCEPT !.allow_in = s.allow_in] ELSE t

ParseSuper(s, followers) ==
    LET t == NextToken(s)
    IN IF Look(t) \in followers THEN Return(t, Tree("Super", <<>>)) ELSE Fail(t)

\* The first link of a chain.
ChainHead(s, followers) ==
    IF Match(s, "super") /\ s.in_function_body THEN ParseSuper(s, followers)
    ELSE InheritCoverGrammar(s, IF Match(s, "new") THEN Parse(<<"NewExpression">>, Fresh(s))
                                ELSE Parse(<<"PrimaryExpression">>, Fresh(s)))

ParseLeftHandSideExpressionAllowCall(s) ==
    LET t == [s EXCEPT !.allow_in = TRUE]
    IN MemberChain(s, ChainHead(t, {"(", ".", "["}), TRUE)

ParseLeftHandSideExpression(s) ==
    IF s.allow_in THEN MemberChain(s, ChainHead(s, {".", "["}), FALSE) ELSE Fail(s)

ParseNewExpression(s) ==
    LET t == NextToken(s)
        u == NextToken(t)
        callee == IsolateCoverGrammar(t, ParseLeftHandSideExpression(Fresh(t)))
        args == IF Match(callee, "(") THEN Parse(<<"Arguments">>, callee) ELSE Return(callee, List(<<>>))
    IN CASE Match(t, ".") ->
              IF MatchContextualKeyword(u, "target") /\ u.in_function_body
              THEN Return(NextToken(u), Tree("MetaProperty", <<Identifier("new", 0),
                                                               Identifier("target", 0)>>))
              ELSE Fail(u)
         [] Match(t, "import") -> Fail(t)
         [] OTHER -> Return(NotTarget(args), Tree("NewExpression", <<callee.node, args.node>>))

-----------------------------------------------------------------------------
(* Operators.                                                              *)

ParseUpdateExpression(s) ==
    LET prefixed == Look(s) \in {"++", "--"}
        in == NextToken(s)
        t == IF prefixed THEN InheritCoverGrammar(in, Parse(<<"UnaryExpression">>, Fresh(in)))
             ELSE InheritCoverGrammar(s, Parse(<<"LeftHandSideExpressionAllowCall">>, Fresh(s)))
        postfixed == ~prefixed /\ ~HasNewline(t) /\ Look(t) \in {"++", "--"}
        op == IF prefixed THEN Look(s) ELSE Look(t)
    IN CASE t.err \/ ~(prefixed \/ postfixed) -> t
         [] RestrictedIn(t, t.node) \/ ~t.is_assignment_target -> Fail(t)
         [] OTHER -> Return(NotTarget(IF prefixed THEN t ELSE NextToken(t)),
                            Node("UpdateExpression", op, Flag(prefixed, "prefix"), <<t.node>>))

ParseAwaitExpression(s) ==
    LET t == Parse(<<"UnaryExpression">>, NextToken(s)) IN Return(t, Tree("AwaitExpression", <<t.node>>))

UnaryOperators == {"+", "-", "~", "!", "delete", "void", "typeof"}

ParseUnaryExpression(s) ==
    LET in == NextToken(s)
        t == InheritCoverGrammar(in, Parse(<<"UnaryExpression">>, Fresh(in)))
    IN CASE Look(s) \in UnaryOperators ->
              FailIf(t.strict /\ Match(s, "delete") /\ t.node.type = "Identifier",
                     Return(NotTarget(t), Node("UnaryExpression", Look(s), {}, <<t.node>>)))
         [] s.await /\ MatchContextualKeyword(s, "await") -> ParseAwaitExpression(s)
         [] OTHER -> ParseUpdateExpression(s)

Binary(op, left, right) == Node("BinaryExpression", op, {}, <<left, right>>)

ParseExponentiationExpression(s) ==
    LET t == InheritCoverGrammar(s, Parse(<<"UnaryExpression">>, Fresh(s)))
        in == NotTarget(NextToken(t))
        u == IsolateCoverGrammar(in, Parse(<<"ExponentiationExpression">>, Fresh(in)))
    IN IF t.node.type # "UnaryExpression" /\ Match(t, "**")
       THEN Return(u, Binary("**", t.node, u.node)) ELSE t

Joined(s, op, left, right) ==
    LET node == Binary(op, left, right)
    IN IF s.config.constant_folding THEN TryBinaryExpression(node, s.config.wraps) ELSE node

\* The right operand of op, and on: also past operators that bind less than op.
RECURSIVE OperandOf(_, _, _), ParseBinaryExpressionFrom(_, _, _)
ParseBinaryExpressionFrom(s, left, op) ==
    OperandOf(IsolateCoverGrammar(s, Parse(<<"ExponentiationExpression">>, Fresh(s))), left, op)

OperandOf(s, left, op) ==
    LET left_prec == BinaryPrecedence(op, s.allow_in)
        right_prec == BinaryPrecedence(Look(s), s.allow_in)
        node == Joined(s, op, left, s.node)
    IN CASE s.err -> s
         [] left_prec < right_prec ->
              OperandOf(ParseBinaryExpressionFrom(NextToken(s), s.node, Look(s)), left, op)
         [] right_prec <= 0 -> Return(s, node)
         [] OTHER -> ParseBinaryExpressionFrom(NextToken(s), node, Look(s))

ParseBinaryExpression(s) ==
    LET t == InheritCoverGrammar(s, Parse(<<"ExponentiationExpression">>, Fresh(s)))
    IN IF BinaryPrecedence(Look(t), t.allow_in) > 0
       THEN ParseBinaryExpressionFrom(NextToken(t), t.node, Look(t)) ELSE t

ParseConditionalExpression(s) ==
    LET t == InheritCoverGrammar(s, Parse(<<"BinaryExpression">>, Fresh(s)))
        then == Isolated([NextToken(t) EXCEPT !.allow_in = TRUE])
        else == Isolated(Expect([then EXCEPT !.allow_in = t.allow_in], ":"))
    IN IF ~Match(t, "?") THEN t
       ELSE Return(NotTarget(else),
                   Tree("ConditionalExpression", <<t.node, then.node, else.node>>))

-----------------------------------------------------------------------------
(* Arrow functions, yield, assignment.                                     *)

ParseYieldExpression(s) ==
    LET t == NextToken(s)
        delegate == Match(t, "*")
        u == [(IF delegate THEN NextToken(t) ELSE t) EXCEPT !.allow_yield = FALSE]
        v == IF delegate \/ IsStartOfExpression(u) THEN Parse(<<"AssignmentExpression">>, u)
             ELSE Return(u, Absent)
    IN IF HasNewline(t) THEN Return(t, Tree("YieldExpression", <<Absent>>))
       ELSE Return([v EXCEPT !.allow_yield = t.allow_yield],
                   Node("YieldExpression", "", Flag(delegate, "delegate"), <<v.node>>))

\* The names CheckPatternParam finds: it looks into patterns, not into expressions.
RECURSIVE ParamNames(_)
ParamNames(nodes) ==
    FlattenSeq([i \in DOMAIN nodes |->
        LET n == nodes[i] IN
        CASE n.type = "Identifier" -> <<n.val>>
          [] n.type \in {"RestElement", "AssignmentPattern"} -> ParamNames(<<n.kids[1]>>)
          [] n.type = "ArrayPattern" -> ParamNames(n.kids)
          [] n.type = "ObjectPattern" ->
               ParamNames([k \in DOMAIN n.kids |-> IF n.kids[k].type = "Property"
                                                   THEN n.kids[k].kids[2] ELSE n.kids[k]])
          [] OTHER -> <<>>])

\* Whether the message ValidateParam leaves is the one about a name given twice.
ParamDupe(s, names) ==
    LET again(i) == \E k \in 1..(i - 1) : names[k] = names[i]
        bad == {i \in DOMAIN names : again(i) \/ IsRestrictedWord(names[i])}
    IN bad # {} /\ IF s.strict THEN again(CHOOSE i \in bad : \A k \in bad : k <= i)
                   ELSE \A i \in bad : ~IsRestrictedWord(names[i])

\* yield as a default value is an identifier, unless it has an argument.
FormalParameter(p) ==
    IF p.type = "AssignmentPattern" /\ p.kids[2].type = "YieldExpression"
    THEN [p EXCEPT !.kids[2] = Identifier("yield", 0)] ELSE p

ReinterpretAsCoverFormalsList(s, expr) ==
    LET async == "async" \in expr.flags
        params == IF expr.type = "Identifier" THEN <<>> ELSE expr.kids
        refused(p) ==
            \/ p.type = "AssignmentPattern" /\ p.kids[2].type = "YieldExpression"
                                            /\ p.kids[2].kids[1] # Absent
            \/ async /\ p.type = "Identifier" /\ p.val = "await"
            \/ p.type = "YieldExpression" /\ (s.strict \/ ~s.allow_yield)
    IN IF (\E i \in DOMAIN params : refused(params[i])) \/ ParamDupe(s, ParamNames(params))
       THEN Fail(s) ELSE Return(s, List([i \in DOMAIN params |-> FormalParameter(params[i])]))

\* expr has been read; the lookahead should be "=>".  The body is read in this scope.
ParseArrowFunction(s, expr) ==
    LET t == ReinterpretAsCoverFormalsList(NotTarget(s), expr)
        async == expr.type = "ArrowParameterPlaceHolder" /\ "async" \in expr.flags
        u == Expect([t EXCEPT !.first_cover = FALSE, !.allow_yield = TRUE, !.await = async], "=>")
        block == Match(u, "{")
        body == IF block THEN Parse(<<"FunctionSourceElements">>, [u EXCEPT !.allow_in = TRUE])
                ELSE Isolated(u)
    IN IF expr.type \notin {"Identifier", "ArrowParameterPlaceHolder"} THEN NotTarget(s)
       ELSE IF t.err THEN t
       ELSE Return([body EXCEPT !.allow_in = IF block THEN u.allow_in ELSE @,
                                !.allow_yield = s.allow_yield, !.await = s.await],
                   Node("ArrowFunctionExpression", "",
                        Flag(body.node.type # "BlockStatement", "expression") \cup Flag(async, "async"),
                        <<t.node, body.node>>))

ParseAssignment(s) ==
    LET left == AsPattern(s)
        t == IF Match(s, "=") THEN left ELSE NotTarget(left)
        right == Isolated(NextToken(t))
    IN IF ~s.is_assignment_target \/ left.err THEN Fail(s)
       ELSE Return([right EXCEPT !.first_cover = FALSE],
                   Node("AssignmentExpression", Look(s), {}, <<left.node, right.node>>))

ParseAssignmentExpression(s) ==
    LET t == Parse(<<"ConditionalExpression">>, s)
        arg == AsPattern(Parse(<<"PrimaryExpression">>, t))
        async_param == /\ MatchContextualKeyword(s, "async") /\ SameLine(s, t)
                       /\ IsIdentifier(t) \/ Match(t, "yield")
        u == IF async_param THEN PlaceHolder(arg, <<arg.node>>, TRUE) ELSE t
    IN CASE ~s.allow_yield /\ Match(s, "yield") -> Parse(<<"YieldExpression">>, s)
         [] u.err -> u
         [] u.node.type = "ArrowParameterPlaceHolder" \/ Match(u, "=>") ->
              Parse(<<"ArrowFunction", u.node>>, u)
         [] MatchAssign(u) -> ParseAssignment(u)
         [] OTHER -> u

-----------------------------------------------------------------------------
(* Binding patterns.                                                       *)

ParsePatternWithDefault(s, kind) ==
    LET t == Parse(<<"Pattern", kind>>, s)
        u == Isolated([NextToken(t) EXCEPT !.allow_yield = TRUE])
    IN IF ~Match(t, "=") THEN t
       ELSE Return([u EXCEPT !.allow_yield = t.allow_yield],
                   Tree("AssignmentPattern", <<t.node, u.node>>))

ParseBindingRestElement(s, kind) ==
    LET t == Parse(<<"Pattern", kind>>, Expect(s, "...")) IN Return(t, Tree("RestElement", <<t.node>>))

ParseRestProperty(s) ==
    LET t == Parse(<<"Pattern", "Invalid">>, Expect(s, "..."))
    IN FailIf(~Match(t, "}"), Return(t, Tree("RestElement", <<t.node>>)))

\* A shorthand with a default makes no variable.
ParsePropertyPattern(s, kind) ==
    LET key == IF IsIdentifier(s) THEN Parse(<<"VariableIdentifier", 0, kind>>, s)
               ELSE Parse(<<"ObjectPropertyKey">>, s)
        short == IsIdentifier(s)
        colon == Parse(<<"PatternWithDefault", kind>>, Expect(key, ":"))
        value == Identifier(Look(s), s.i)
        default == Parse(<<"AssignmentExpression">>, NextToken(key))
        Property(t, flags, node) == Return(t, Node("Property", "", flags, <<key.node, node>>))
    IN CASE short /\ Match(key, "=") ->
              Property(default, {"shorthand"},
                       Tree("AssignmentPattern", <<Identifier(Look(s), 0), default.node>>))
         [] short /\ ~Match(key, ":") ->
              Property(Declare(key, s.scope, Look(s), s.i, kind), {"shorthand"}, value)
         [] OTHER -> Property(colon, Flag(Match(s, "["), "computed"), colon.node)

\* A rest ends the elements: the closing bracket is all that may follow.
ParseArrayPattern(s, kind) ==
    LET t == Parse(<<"Bracketed", "[", "]", <<"element of", kind>>>>, s)
    IN Return(t, Tree("ArrayPattern", t.node.kids))

ParseObjectPattern(s, kind) ==
    LET t == Parse(<<"Bracketed", "{", "}", <<"property of", kind>>>>, s)
    IN Return(t, Tree("ObjectPattern", t.node.kids))

ParsePattern(s, kind) ==
    CASE Match(s, "[") -> ParseArrayPattern(s, kind)
      [] Match(s, "{") -> ParseObjectPattern(s, kind)
      [] OTHER -> Parse(<<"VariableIdentifier", s.scope, kind>>, s)

\* The tokens params collects while a pattern is read.
RECURSIVE BoundNames(_)
BoundNames(node) ==
    CASE node.type = "Identifier" -> <<node.val>>
      [] node.type \in {"RestElement", "AssignmentPattern"} -> BoundNames(node.kids[1])
      [] node.type = "Property" -> BoundNames(node.kids[2])
      [] OTHER -> FlattenSeq([i \in DOMAIN node.kids |-> BoundNames(node.kids[i])])

-----------------------------------------------------------------------------
(* Variables.                                                              *)

Declarator(s, id, init) == Return(s, Tree("VariableDeclarator", <<id, init>>))

\* The initial value is read in a scope of the declarator's own.
ParseVariableDeclaration(s, in_for) ==
    LET opened == OpenScope(s, "Invalid", s.scope)
        t == CloseScope(s, Parse(<<"Pattern", "Var">>, [opened EXCEPT !.scope = s.scope]))
        in == [NextToken(t) EXCEPT !.scope = opened.scope]
        u == CloseScope(s, Isolated(in))
    IN CASE RestrictedIn(t, t.node) -> Fail(t)
         [] Match(t, "=") -> Declarator(u, t.node, u.node)
         [] t.node.type # "Identifier" /\ ~in_for -> Fail(t)
         [] OTHER -> Declarator(t, t.node, Absent)

ParseLexicalBinding(s, kind, in_for) ==
    LET t == Parse(<<"Pattern", kind>>, s)
        u == Isolated(NextToken(t))
        bare == IF kind = "Const" THEN Match(t, "in") \/ MatchContextualKeyword(t, "of")
                ELSE in_for \/ t.node.type = "Identifier"
    IN CASE RestrictedIn(t, t.node) -> Fail(t)
         [] kind = "Const" /\ bare -> Declarator(t, t.node, Absent)
         [] Match(t, "=") -> Declarator(u, t.node, u.node)
         [] bare -> Declarator(t, t.node, Absent)
         [] OTHER -> Fail(t)

\* ParseVariableDeclarationList, and ParseBindingList when kind is not Var.
ParseDeclarators(s, kind, in_for) ==
    LET One(t) == IF kind = "Var" THEN ParseVariableDeclaration(t, in_for)
                  ELSE ParseLexicalBinding(t, kind, in_for)
        RECURSIVE More(_, _)
        More(t, acc) ==
            IF ~Match(t, ",") THEN Return(t, List(acc))
            ELSE LET u == One(NextToken(t)) IN More(u, Append(acc, u.node))
        first == One(s)
    IN More(first, <<first.node>>)

Declaration(s, kind, list) == Return(s, Node("VariableDeclaration", kind, {}, list.kids))

ParseVariableStatement(s) ==
    LET t == Parse(<<"Declarators", "Var", FALSE>>, NextToken(s))
    IN Declaration(ConsumeSemicolon(t), "var", t.node)

ParseLexicalDeclaration(s) ==
    LET t == Parse(<<"Declarators", IF Match(s, "let") THEN "Let" ELSE "Const", FALSE>>, NextToken(s))
    IN Declaration(ConsumeSemicolon(t), Look(s), t.node)

-----------------------------------------------------------------------------
(* Statements.                                                             *)

ParseBlock(s, new_scope) ==
    LET in == IF new_scope THEN OpenScope(s, "Block", s.scope) ELSE s
        t == ParseStatements(Expect(in, "{"), {"}"}, <<>>)
    IN Return(CloseScope(s, Expect(t, "}")), Tree("BlockStatement", t.node.kids))

ParseExpressionStatement(s) ==
    LET t == Parse(<<"Expression">>, s)
    IN Return(ConsumeSemicolon(t), Tree("ExpressionStatement", <<t.node>>))

ParseParenthesized(s) ==
    LET t == Parse(<<"Expression">>, Expect(s, "(")) IN Return(Expect(t, ")"), t.node)

ParseIfClause(s) == IF s.strict /\ Match(s, "function") THEN Fail(s) ELSE Parse(<<"Statement">>, s)

ParseIfStatement(s) ==
    LET test == Parse(<<"Parenthesized">>, NextToken(s))
        then == ParseIfClause(test)
        else == IF Match(then, "else") THEN ParseIfClause(NextToken(then)) ELSE Return(then, Absent)
    IN Return(else, Tree("IfStatement", <<test.node, then.node, else.node>>))

\* A label is never taken out of the set again.
ParseLabelledStatement(s) ==
    LET t == Parse(<<"Expression">>, s)
        in == [NextToken(t) EXCEPT !.label_set = @ \cup {t.node.val}]
        body == CASE Match(in, "class") -> Parse(<<"ClassDeclaration">>, in)
                  [] Match(in, "function") -> Parse(<<"FunctionDeclaration", FALSE>>, in)
                  [] OTHER -> Parse(<<"Statement">>, in)
    IN CASE ~(t.node.type = "Identifier" /\ Match(t, ":")) ->
              Return(ConsumeSemicolon(t), Tree("ExpressionStatement", <<t.node>>))
         [] t.node.val \in t.label_set -> Fail(t)
         [] OTHER -> Return(body, Tree("LabeledStatement", <<t.node, body.node>>))

\* break and continue: the label goes to a scope that is dropped.
ParseJump(s, type, allowed) ==
    LET t == NextToken(s)
        labelled == IsIdentifier(t) /\ ~HasNewline(t)
        u == IF labelled THEN Parse(<<"VariableIdentifier", 0, "Invalid">>, t) ELSE Return(t, Absent)
    IN IF u.err \/ (IF labelled THEN u.node.val \notin u.label_set ELSE ~allowed) THEN Fail(u)
       ELSE Return(ConsumeSemicolon(u), Tree(type, <<u.node>>))

ParseBreakStatement(s)    == ParseJump(s, "BreakStatement", s.in_iteration \/ s.in_switch)
ParseContinueStatement(s) == ParseJump(s, "ContinueStatement", s.in_iteration)

\* The body of a loop.
ParseLoopBody_Kept(s) == Parse(<<"Statement">>, [s EXCEPT !.in_iteration = TRUE])

ParseLoopBody(s) ==
    LET t == Parse(<<"Statement">>, [s EXCEPT !.in_iteration = TRUE])
    IN [t EXCEPT !.in_iteration = s.in_iteration]

ParseDoWhileStatement(s) ==
    LET body == ParseLoopBody(NextToken(s))
        test == Parse(<<"Parenthesized">>, Expect(body, "while"))
    IN Return(IF Match(test, ";") THEN NextToken(test) ELSE test,
              Tree("DoWhileStatement", <<body.node, test.node>>))

ParseWhileStatement(s) ==
    LET test == Parse(<<"Parenthesized">>, NextToken(s))
        body == ParseLoopBody(test)
    IN Return(body, Tree("WhileStatement", <<test.node, body.node>>))

ParseWithStatement(s) ==
    LET object == Parse(<<"Parenthesized">>, NextToken(s))
        body == Parse(<<"Statement">>, object)
    IN IF s.strict THEN Fail(s) ELSE Return(body, Tree("WithStatement", <<object.node, body.node>>))

ParseReturnStatement(s) ==
    LET t == NextToken(s)
        has_arg == \/ Look(t) \notin {";", "}", EOF} /\ ~HasNewline(t)
                   \/ IsString(Look(t)) \/ Look(t) \in Templates
        u == IF has_arg THEN Parse(<<"Expression">>, t) ELSE Return(t, Absent)
    IN IF ~s.in_function_body THEN Fail(s)
       ELSE Return(ConsumeSemicolon(u), Tree("ReturnStatement", <<u.node>>))

ParseThrowStatement(s) ==
    LET t == NextToken(s)
        u == Parse(<<"Expression">>, t)
    IN IF HasNewline(t) THEN Fail(t)
       ELSE Return(ConsumeSemicolon(u), Tree("ThrowStatement", <<u.node>>))

ParseSwitchCase(s) ==
    LET t == IF Match(s, "default") THEN Return(NextToken(s), Absent)
             ELSE Parse(<<"Expression">>, Expect(s, "case"))
        u == ParseStatements(Expect(t, ":"), {"}", "default", "case"}, <<>>)
    IN Return(u, Tree("SwitchCase", <<t.node, u.node>>))

ParseSwitchStatement(s) ==
    LET RECURSIVE Cases(_, _)
        Cases(t, acc) ==
            IF t.err \/ Match(t, "}") THEN Return(t, List(acc))
            ELSE LET u == ParseSwitchCase(t)
                     again == Match(t, "default") /\ \E i \in DOMAIN acc : acc[i].kids[1] = Absent
                 IN Cases(FailIf(again, u), Append(acc, u.node))
        test == Parse(<<"Parenthesized">>, NextToken(OpenScope(s, "Switch", s.scope)))
        cases == Cases([Expect(test, "{") EXCEPT !.in_switch = TRUE], <<>>)
    IN Return([CloseScope(s, Expect(cases, "}")) EXCEPT !.in_switch = test.in_switch],
              Tree("SwitchStatement", <<test.node, cases.node>>))

ParseCatchClause(s) ==
    LET t == Expect(NextToken(OpenScope(s, "Catch", s.scope)), "(")
        param == Parse(<<"Pattern", "Invalid">>, t)
        body == Parse(<<"Block", FALSE>>, Expect(param, ")"))
    IN IF param.err \/ ~IsInjective(BoundNames(param.node)) \/ RestrictedIn(param, param.node)
       THEN Fail(param)
       ELSE Return(CloseScope(s, body), Tree("CatchClause", <<param.node, body.node>>))

\* Neither clause need be there.
ParseTryStatement(s) ==
    LET block == Parse(<<"Block", TRUE>>, NextToken(s))
        handler == IF Match(block, "catch") THEN ParseCatchClause(block) ELSE Return(block, Absent)
        final == IF Match(handler, "finally") THEN Parse(<<"Block", TRUE>>, NextToken(handler))
                 ELSE Return(handler, Absent)
    IN Return(final, Tree("TryStatement", <<block.node, handler.node, final.node>>))

\* The head of a for statement: kind "plain", "in" or "of"; left or init; right.
ForHead(t, kind, left, right) == [st |-> t, kind |-> kind, left |-> left, right |-> right]

\* "in" or "of" after the left side, whose state is t.
ForInHead(t, left) ==
    LET u == Parse(<<"Expression">>, NextToken(t)) IN ForHead(u, "ForInStatement", left, u.node)
ForOfHead(t, left) ==
    LET u == Parse(<<"AssignmentExpression">>, NextToken(t)) IN ForHead(u, "ForOfStatement", left, u.node)

\* var: declarations are read with "in" allowed.
ForVarHead(s) ==
    LET t == Parse(<<"Declarators", "Var", TRUE>>, [NextToken(s) EXCEPT !.allow_in = TRUE])
        u == [t EXCEPT !.allow_in = s.allow_in]
        decl == Declaration(u, "var", t.node).node
        one == Len(decl.kids) = 1
        init == one /\ decl.kids[1].kids[2] # Absent
    IN CASE u.err -> ForHead(u, "ForStatement", Absent, Absent)
         [] one /\ Match(u, "in") ->
              ForInHead(FailIf(init /\ (decl.kids[1].kids[1].type # "Identifier" \/ u.strict), u), decl)
         [] one /\ ~init /\ MatchContextualKeyword(u, "of") -> ForOfHead(u, decl)
         [] OTHER -> ForHead(Expect(u, ";"), "ForStatement", decl, Absent)

\* let and const: both are read as const, and the semicolon may be left out.
ForLexicalHead(s) ==
    LET in == NextToken(s)
        t == Parse(<<"Declarators", "Const", TRUE>>, [in EXCEPT !.allow_in = FALSE])
        u == [t EXCEPT !.allow_in = s.allow_in]
        decl == Declaration(u, Look(s), t.node).node
        bare == Len(decl.kids) = 1 /\ decl.kids[1].kids[2] = Absent
    IN CASE ~s.strict /\ Match(in, "in") -> ForInHead(in, Identifier(Look(s), 0))
         [] u.err -> ForHead(u, "ForStatement", Absent, Absent)
         [] bare /\ Match(u, "in") -> ForInHead(u, decl)
         [] bare /\ MatchContextualKeyword(u, "of") -> ForOfHead(u, decl)
         [] OTHER -> ForHead(ConsumeSemicolon(u), "ForStatement", decl, Absent)

ForExpressionHead(s) ==
    LET in == [s EXCEPT !.allow_in = FALSE]
        first == InheritCoverGrammar(in, Parse(<<"AssignmentExpression">>, Fresh(in)))
        t == [first EXCEPT !.allow_in = s.allow_in]
        left == AsPattern(FailIf(~t.is_assignment_target \/ t.node.type = "AssignmentExpression", t))
        RECURSIVE More(_, _)
        More(u, acc) ==
            IF ~Match(u, ",") THEN Return(u, Tree("SequenceExpression", acc))
            ELSE LET v == Isolated(NextToken(u)) IN More(v, Append(acc, v.node))
        init == IF Match(t, ",") THEN More(t, <<t.node>>) ELSE t
    IN CASE t.err -> ForHead(t, "ForStatement", Absent, Absent)
         [] Match(t, "in") -> ForInHead(left, left.node)
         [] MatchContextualKeyword(t, "of") -> ForOfHead(left, left.node)
         [] OTHER -> ForHead(Expect(init, ";"), "ForStatement", init.node, Absent)

\* An expression that may be left out.
ForClause(s, closing) == IF Match(s, closing) THEN Return(s, Absent) ELSE Parse(<<"Expression">>, s)

ForBody(s) == LET t == Expect(s, ")") IN IsolateCoverGrammar(t, ParseLoopBody(Fresh(t)))

\* What follows the head.
ForPlain(head) ==
    LET test == ForClause(head.st, ";")
        update == ForClause(Expect(test, ";"), ")")
        body == ForBody(update)
    IN Return(body, Tree("ForStatement", <<head.left, test.node, update.node, body.node>>))

ForEach(head) ==
    LET body == ForBody(head.st) IN Return(body, Tree(head.kind, <<head.left, head.right, body.node>>))

ForRest(head) == IF head.kind = "ForStatement" THEN ForPlain(head) ELSE ForEach(head)

ParseForStatement(s) ==
    LET in == Expect(NextToken(OpenScope(s, "For", s.scope)), "(")
    IN CloseScope(s, ForRest(
         CASE Match(in, ";") -> ForHead(NextToken(in), "ForStatement", Absent, Absent)
           [] Match(in, "var") -> ForVarHead(in)
           [] Match(in, "const") \/ Match(in, "let") -> ForLexicalHead(in)
           [] OTHER -> ForExpressionHead(in)))

ParseStatement(s) ==
    CASE Match(s, "{") -> Parse(<<"Block", TRUE>>, s)
      [] Match(s, ";") -> Return(NextToken(s), Tree("EmptyStatement", <<>>))
      [] AtEnd(s) -> Fail(s)
      [] MatchAsyncFunction(s) \/ Match(s, "function") -> Parse(<<"FunctionDeclaration", FALSE>>, s)
      [] IsIdentifier(s) -> ParseLabelledStatement(PastAsync(s))
      [] Match(s, "break") -> ParseBreakStatement(s)
      [] Match(s, "continue") -> ParseContinueStatement(s)
      [] Match(s, "debugger") ->
           Return(ConsumeSemicolon(NextToken(s)), Tree("DebuggerStatement", <<>>))
      [] Match(s, "do") -> ParseDoWhileStatement(s)
      [] Match(s, "for") -> Parse(<<"ForStatement">>, s)
      [] Match(s, "if") -> ParseIfStatement(s)
      [] Match(s, "return") -> ParseReturnStatement(s)
      [] Match(s, "switch") -> ParseSwitchStatement(s)
      [] Match(s, "throw") -> ParseThrowStatement(s)
      [] Match(s, "try") -> ParseTryStatement(s)
      [] Match(s, "var") -> ParseVariableStatement(s)
      [] Match(s, "while") -> ParseWhileStatement(s)
      [] Match(s, "with") -> ParseWithStatement(s)
      [] OTHER -> ParseExpressionStatement(s)

-----------------------------------------------------------------------------
(* Modules.                                                                *)

ParseModuleSpecifier(s) ==
    IF IsString(Look(s)) THEN Return(NextToken(s), LiteralOf(Look(s))) ELSE Fail(s)

\* "from", its module and the semicolon.
FromClause(s) ==
    IF MatchContextualKeyword(s, "from")
    THEN LET t == ParseModuleSpecifier(NextToken(s)) IN Return(ConsumeSemicolon(t), t.node)
    ELSE Fail(s)

\* A local name, declared as var, made where the name was read.
ImportedAs(s, type, at, imported) ==
    LET name == s.node.val IN
    Return(Declare(s, s.scope, name, at, "Var"), Tree(type, <<Identifier(name, at)>> \o imported))

\* The name after "as" is declared twice, the first time as one that must be new.
ParseImportSpecifier(s) ==
    LET t == IF IsIdentifier(s) THEN Parse(<<"VariableIdentifier", 0, "Invalid">>, s)
             ELSE Parse(<<"IdentifierName">>, s)
        at == NextToken(t)
        u == Parse(<<"VariableIdentifier", at.scope, "Invalid">>, at)
    IN CASE MatchContextualKeyword(t, "as") -> ImportedAs(u, "ImportSpecifier", at.i, <<t.node>>)
         [] IsIdentifier(s) -> ImportedAs(t, "ImportSpecifier", s.i, <<t.node>>)
         [] OTHER -> Fail(t)

ParseImportDefaultSpecifier(s) ==
    ImportedAs(Parse(<<"IdentifierName">>, s), "ImportDefaultSpecifier", s.i, <<>>)

ParseImportNamespaceSpecifier(s) ==
    LET t == NextToken(s)
        at == NextToken(t)
    IN IF MatchContextualKeyword(t, "as")
       THEN ImportedAs(Parse(<<"IdentifierName">>, at), "ImportNamespaceSpecifier", at.i, <<>>) ELSE Fail(t)

ParseNamedImports(s) == Parse(<<"Bracketed", "{", "}", <<"import">>>>, s)

\* "* as n" or a list in braces.
OtherSpecifiers(s) ==
    CASE Match(s, "{") -> ParseNamedImports(s)
      [] Match(s, "*") -> LET t == ParseImportNamespaceSpecifier(s) IN Return(t, List(<<t.node>>))
      [] OTHER -> Fail(s)

ParseImportDeclaration(s) ==
    LET t == NextToken(s)
        default == ParseImportDefaultSpecifier(t)
        more == OtherSpecifiers(NextToken(default))
        specs == CASE Match(t, "{") \/ Match(t, "*") -> OtherSpecifiers(t)
                   [] ~IsIdentifierName(Look(t)) \/ Match(t, "default") -> Fail(t)
                   [] Match(default, ",") -> Return(more, List(<<default.node>> \o more.node.kids))
                   [] OTHER -> Return(default, List(<<default.node>>))
        source == FromClause(specs)
        only == ParseModuleSpecifier(t)
        Import(u, nodes, src) == Return(u, Tree("ImportDeclaration", <<nodes, src>>))
    IN CASE ~InModuleScope(s) \/ s.in_function_body -> Fail(s)
         [] IsString(Look(t)) -> Import(ConsumeSemicolon(only), List(<<>>), only.node)
         [] specs.err -> specs
         [] OTHER -> Import(source, specs.node, source.node)

\* The name is a reference of this scope, whatever module it is exported from.
ParseExportSpecifier(s) ==
    LET t == Parse(<<"IdentifierName">>, s)
        u == Refer(t, Look(s), s.i)
        v == Parse(<<"IdentifierName">>, NextToken(u))
        as == MatchContextualKeyword(u, "as")
    IN IF t.err THEN t
       ELSE Return(IF as THEN v ELSE u,
                   Tree("ExportSpecifier", <<Identifier(Look(s), s.i), IF as THEN v.node ELSE t.node>>))

\* The words and braces after "export default".
ParseExportDefault(s) ==
    LET t == CASE Match(s, "function") \/ MatchAsyncFunction(s) -> Parse(<<"FunctionDeclaration", TRUE>>, s)
               [] Match(s, "class") -> Parse(<<"ClassExpression">>, s)
               [] Match(s, "{") -> ParseObjectInitializer(s)
               [] Match(s, "[") -> ParseArrayInitializer(s)
               [] MatchContextualKeyword(s, "from") -> Fail(s)
               [] OTHER -> Parse(<<"AssignmentExpression">>, PastAsync(s))
        bare == Match(s, "function") \/ Match(s, "class") \/ MatchContextualKeyword(s, "async")
    IN Return(IF bare THEN t ELSE ConsumeSemicolon(t), Tree("ExportDefaultDeclaration", <<t.node>>))

Exported(s, declaration, specifiers, source) ==
    Return(s, Tree("ExportNamedDeclaration", <<declaration, specifiers, source>>))

\* Only single names of variables can be exported where they are declared.
ParseExportedDeclaration(s) ==
    LET t == CASE Match(s, "let") \/ Match(s, "const") -> Parse(<<"LexicalDeclaration">>, s)
               [] Look(s) \in {"var", "class", "function"} -> Parse(<<"StatementListItem">>, s)
               [] MatchAsyncFunction(s) -> Parse(<<"FunctionDeclaration", FALSE>>, s)
               [] OTHER -> Fail(s)
        patterns == t.node.type = "VariableDeclaration"
                    /\ \E i \in DOMAIN t.node.kids : t.node.kids[i].kids[1].type # "Identifier"
    IN IF t.err \/ patterns THEN Fail(t) ELSE Exported(t, t.node, List(<<>>), Absent)

ParseExportList(s) ==
    LET t == Parse(<<"Bracketed", "{", "}", <<"export">>>>, s)
        u == FromClause(t)
        reserved == \E k \in s.i..t.i : s.toks[k].v = "default"
                      /\ s.toks[k - 1].v \in {"{", ","}
    IN CASE t.err -> t
         [] MatchContextualKeyword(t, "from") -> Exported(u, Absent, t.node, u.node)
         [] reserved -> Fail(t)
         [] OTHER -> Exported(ConsumeSemicolon(t), Absent, t.node, Absent)

ParseExportDeclaration(s) ==
    LET t == NextToken(s)
        all == FromClause(NextToken(t))
    IN CASE ~InModuleScope(s) \/ s.in_function_body -> Fail(s)
         [] Match(t, "default") -> ParseExportDefault(NextToken(t))
         [] Match(t, "*") -> Return(all, Tree("ExportAllDeclaration", <<all.node>>))
         [] IsKeywordToken(t) \/ MatchAsyncFunction(t) -> ParseExportedDeclaration(t)
         [] OTHER -> ParseExportList(t)

ParseStatementListItem(s) ==
    LET t == [s EXCEPT !.is_assignment_target = TRUE, !.is_binding_element = TRUE]
    IN CASE Match(t, "export") -> Parse(<<"ExportDeclaration">>, t)
         [] Match(t, "import") /\ MatchImportCall(t) -> ParseExpressionStatement(t)
         [] Match(t, "import") -> Parse(<<"ImportDeclaration">>, LookPast(t))
         [] Match(t, "const") -> Parse(<<"LexicalDeclaration">>, t)
         [] Match(t, "let") -> IF IsLexicalDeclaration(t) THEN Parse(<<"LexicalDeclaration">>, LookPast(t))
                               ELSE Parse(<<"Statement">>, LookPast(t))
         [] Match(t, "function") -> Parse(<<"FunctionDeclaration", FALSE>>, t)
         [] Match(t, "class") -> Parse(<<"ClassDeclaration">>, t)
         [] OTHER -> Parse(<<"Statement">>, t)

\* One entry of a list in brackets.
ParseEntry(s, close, kind, acc) ==
    LET Spread(t) == IF Match(t, close) THEN t ELSE NotTarget(t) IN
    CASE kind[1] = "argument" -> IF Match(s, "...") THEN Parse(<<"SpreadElement">>, s) ELSE Isolated(s)
      [] kind[1] = "async" -> IF Match(s, "...") THEN Parse(<<"SpreadElement">>, s)
                           ELSE IsolateCoverGrammar(s, [Parse(<<"AssignmentExpression">>, Fresh(s))
                                                          EXCEPT !.first_cover = FALSE])
      [] kind[1] = "element" -> CASE Match(s, ",") -> Return(s, Absent)
                               [] Match(s, "...") -> Spread(Parse(<<"SpreadElement">>, s))
                               [] OTHER -> Inherited(s)
      [] kind[1] = "property" -> IF Match(s, "...") THEN Parse(<<"SpreadElement">>, s)
                              ELSE Parse(<<"ObjectProperty", acc>>, s)
      [] kind[1] = "parameter" -> IF Match(s, "...") THEN Parse(<<"RestElement">>, s)
                               ELSE Parse(<<"PatternWithDefault", "Invalid">>, s)
      [] kind[1] = "import" -> Parse(<<"ImportSpecifier">>, s)
      [] kind[1] = "export" -> Parse(<<"ExportSpecifier">>, s)
      [] kind[1] = "property of" -> IF Match(s, "...") THEN ParseRestProperty(s)
                                    ELSE ParsePropertyPattern(s, kind[2])
      [] OTHER -> CASE Match(s, ",") -> Return(s, Absent)
                    [] Match(s, "...") -> LET t == ParseBindingRestElement(s, kind[2])
                                          IN FailIf(~Match(t, close), t)
                    [] OTHER -> Parse(<<"PatternWithDefault", kind[2]>>, s)

\* ParseScript, which nothing calls, is left out: strict is true from the first token on.
ParseProgram(s) ==
    LET in == [s EXCEPT !.scopes = <<NewScope("Module", 0)>>, !.scope = 1]
        t == Parse(<<"DirectivePrologues">>, in)
        u == ParseStatements(t, {EOF}, t.node.kids)
    IN Return(u, Tree("Module", u.node.kids))

Parse(what, s) ==
    CASE what[1] = "Program" -> ParseProgram(s)
      [] what[1] = "AssignmentExpression" -> ParseAssignmentExpression(s)
      [] what[1] = "ConditionalExpression" -> ParseConditionalExpression(s)
      [] what[1] = "UnaryExpression" -> ParseUnaryExpression(s)
      [] what[1] = "NewExpression" -> ParseNewExpression(s)
      [] what[1] = "ExponentiationExpression" -> ParseExponentiationExpression(s)
      [] what[1] = "LeftHandSideExpressionAllowCall" -> ParseLeftHandSideExpressionAllowCall(s)
      [] what[1] = "Statement" -> ParseStatement(s)
      [] what[1] = "StatementListItem" -> ParseStatementListItem(s)
      [] what[1] = "Expression" -> ParseExpression(s)
      [] what[1] = "PrimaryExpression" -> ParsePrimaryExpression(s)
      [] what[1] = "FunctionSourceElements" -> ParseFunctionSourceElements(s)
      [] what[1] = "ObjectPropertyKey" -> ParseObjectPropertyKey(s)
      [] what[1] = "ClassElement" -> ParseClassElement(s, what[2])
      [] what[1] = "Method" -> ParseMethod(s, what[2], what[3], what[4])
      [] what[1] = "Declarators" -> ParseDeclarators(s, what[2], what[3])
      [] what[1] = "Bracketed" -> ParseBracketed(s, what[2], what[3], what[4])
      [] what[1] = "VariableIdentifier" -> ParseVariableIdentifier(s, what[2], what[3])
      [] what[1] = "IdentifierName" -> ParseIdentifierName(s)
      [] what[1] = "FunctionDeclaration" -> ParseFunctionDeclaration(s, what[2])
      [] what[1] = "FunctionExpression" -> ParseFunctionExpression(s)
      [] what[1] = "ClassDeclaration" -> ParseClassDeclaration(s)
      [] what[1] = "ClassExpression" -> ParseClassExpression(s)
      [] what[1] = "Block" -> ParseBlock(s, what[2])
      [] what[1] = "TemplateLiteral" -> ParseTemplateLiteral(s)
      [] what[1] = "GroupExpression" -> ParseGroupExpression(s)
      [] what[1] = "LexicalDeclaration" -> ParseLexicalDeclaration(s)
      [] what[1] = "PatternWithDefault" -> ParsePatternWithDefault(s, what[2])
      [] what[1] = "BinaryExpression" -> ParseBinaryExpression(s)
      [] what[1] = "Parenthesized" -> ParseParenthesized(s)
      [] what[1] = "SpreadElement" -> ParseSpreadElement(s)
      [] what[1] = "RestElement" -> ParseRestElement(s)
      [] what[1] = "ImportSpecifier" -> ParseImportSpecifier(s)
      [] what[1] = "ExportSpecifier" -> ParseExportSpecifier(s)
      [] what[1] = "ExportDeclaration" -> ParseExportDeclaration(s)
      [] what[1] = "ImportDeclaration" -> ParseImportDeclaration(s)
      [] what[1] = "ForStatement" -> ParseForStatement(s)
      [] what[1] = "YieldExpression" -> ParseYieldExpression(s)
      [] what[1] = "ArrowFunction" -> ParseArrowFunction(s, what[2])
      [] what[1] = "ObjectProperty" -> ParseObjectProperty(s, what[2])
      [] what[1] = "Arguments" -> ParseArguments(s)
      [] what[1] = "DirectivePrologues" -> ParseDirectivePrologues(s)
      [] what[1] = "Pattern" -> ParsePattern(s, what[2])
      [] what[1] = "Entry" -> ParseEntry(s, what[2], what[3], what[4])

ParseModule(s) == Parse(<<"Program">>, [s EXCEPT !.strict = TRUE, !.is_module = TRUE])
=============================================================================
