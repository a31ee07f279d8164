------------------------------ MODULE FrontEnd ------------------------------
(***************************************************************************)
(* A file's way through the front end: parsed, its variables renamed or    *)
(* not, printed, and the text parsed again by who uses it (here the same   *)
(* parser).  jetpack_parse_and_codegen (SimpleAPI.cpp) composes parser,    *)
(* scopes, names and code generator so.  A file is the words of a program, *)
(* the tree the language gives it, or Absent when it is no program, and    *)
(* the options it is built with.                                           *)
(***************************************************************************)
EXTENDS Parser, NodeTypes, Departures

CONSTANTS Files, Candidates     \* the names GenAName makes, in their order

ASSUME CandidatesAssumption == IsInjective(Candidates)

VARIABLES phase,      \* how far the file is
          file,       \* [words, tree, options]
          parser,     \* the parser's state once it is through
          text,       \* the pieces that were printed
          again       \* what the printed text is read as

vars == <<phase, file, parser, text, again>>

\* [minify, constant_folding, wraps, on_require, rename]
options == file.options

\* A blank after every word: a word may be a line end.
TokensOf(words) == Lex(FlattenSeq([i \in DOMAIN words |-> <<words[i], " ">>]))

Init ==
    /\ phase = "source"
    /\ file \in Files
    /\ parser = Start(<<>>, options)
    /\ text = <<>>
    /\ again = Absent

ParseSource ==
    /\ phase = "source"
    /\ parser' = ParseModule(Start(TokensOf(file.words), options))
    /\ phase' = IF parser'.err THEN "refused" ELSE "parsed"
    /\ UNCHANGED <<file, text, again>>

Children(scopes, i) == {k \in DOMAIN scopes : scopes[k].parent = i}

\* RenameInnerScopes and Merge: a scope goes on counting where the inner scope that has
\* counted furthest left off.  Nobody asks which names the file leaves to others.
RECURSIVE NamesGiven(_, _)
NamesGiven(scopes, i) ==
    Cardinality(DOMAIN scopes[i].vars)
        + Max({0} \cup {NamesGiven(scopes, k) : k \in Children(scopes, i)})

\* BatchRenameSymbols gives the variables of a scope its names, in an order that tells nothing.
NewName(scopes, i, name) ==
    LET order == SetToSeq(DOMAIN scopes[i].vars)
    IN Candidates[NamesGiven(scopes, i) - Len(order) + (CHOOSE k \in DOMAIN order : order[k] = name)]

\* ResolveAllSymbols: which variable, of a scope and a name, each identifier names.
Owners(scopes) ==
    UNION {UNION {{[at |-> at, new |-> NewName(scopes, i, n)] : at \in ResolvedIds(scopes, i, n)}
                  : n \in DOMAIN scopes[i].vars}
           : i \in {k \in DOMAIN scopes : Reached(scopes, k)}}

RECURSIVE RenameTree(_, _)
RenameTree(node, owners) ==
    LET own == {o \in owners : o.at = node.at}
    IN IF node.type = "Identifier" /\ own # {}
       THEN [node EXCEPT !.val = (CHOOSE o \in own : TRUE).new]
       ELSE [node EXCEPT !.kids = [i \in DOMAIN @ |-> RenameTree(@[i], owners)]]

RenameVariables ==
    /\ phase = "parsed"
    /\ options.rename
    /\ parser' = [parser EXCEPT !.node = RenameTree(@, Owners(parser.scopes))]
    /\ phase' = "renamed"
    /\ UNCHANGED <<file, text, again>>

PrintModule ==
    /\ phase = IF options.rename THEN "renamed" ELSE "parsed"
    /\ text' = Traverse(parser.node, options.minify)
    /\ phase' = "printed"
    /\ UNCHANGED <<file, parser, again>>

\* The tree of a text, or Absent.
TreeOf(t) == IF t.err THEN Absent ELSE t.node
Read(pieces, config) == TreeOf(ParseModule(Start(Lex(pieces), config)))

ParseText ==
    /\ phase = "printed"
    /\ again' = Read(text, [options EXCEPT !.constant_folding = FALSE])
    /\ phase' = "read"
    /\ UNCHANGED <<file, parser, text>>

Next == ParseSource \/ RenameVariables \/ PrintModule \/ ParseText

Spec == Init /\ [][Next]_vars

-----------------------------------------------------------------------------
(* What the front end promises.                                            *)

Written == Meaning(file.tree)
Parsed  == Meaning(Shape(parser.node))
Reread  == Meaning(Shape(again))

\* x => x, without parentheses: ReinterpretAsCoverFormalsList gives such a list no members.
BareParameter(words) ==
    \E i \in 1..(Len(words) - 1) :
        words[i + 1] = "=>" /\ words[i] # ")" /\ (i = 1 \/ words[i - 1] # "async")

\* A name given to a variable is one the file leaves to its surroundings.
TakesGlobal(scopes) ==
    \E i \in DOMAIN scopes : \E r \in scopes[i].refs :
        /\ Reached(scopes, i) /\ RecursivelyFindVariable(scopes, i, r.name) = 0
        /\ r.name \in {Candidates[k] : k \in 1..NamesGiven(scopes, 1)}

\* Every node the parser hands over holds what the classes of SyntaxNodes.h say it holds:
\* the traversers and the code generator follow a member that is no optional without a test.
TypeOK ==
    /\ phase \in {"source", "refused", "parsed", "renamed", "printed", "read"}
    /\ phase \in {"parsed", "renamed", "printed", "read"} => WellFormed(parser.node)
    /\ again # Absent => WellFormed(again)



\* Each method that sets a flag of the context for its children (allow_in, in_iteration,
\* in_function_body, await, ...) or opens a scope puts back what it found, by hand, on
\* every path: a whole module later the context is the one parsing began with.  The
\* exception is allow_yield, which accessors set and do not restore.
ContextRestored ==
    phase = "parsed" =>
        LET began == [Start(<<>>, options) EXCEPT !.strict = TRUE, !.is_module = TRUE, !.scope = 1]
        IN /\ \A f \in {"is_module", "strict", "allow_in", "await", "first_cover",
                         "in_function_body", "in_iteration", "in_switch", "scope"} :
                  parser[f] = began[f]
           /\ parser.allow_yield = began.allow_yield \/ Has(file.tree, IsAccessor)



\* A program whose constants were folded (ConstantFolding.cpp) computes, once printed and
\* read again, what it computed before, unless a joined string needs an escape, a number
\* was octal or a sum overflows and wraps; and where there is one sum, it is wrong then.
FoldingKeepsValue ==
    phase = "read" /\ options.constant_folding /\ ~Lost(parser.node, options.minify) =>
        LET kept == again # Absent /\ Value(Reread) = Value(Written)
        IN IF OneSum(file.tree) THEN kept <=> ~Miscomputed(file.tree, options.wraps)
           ELSE kept \/ Miscomputed(file.tree, options.wraps)

\* src/README.md:19 says the whole of ECMAScript 2017 is supported: an expression means
\* what its operators' precedences say.
PrecedenceKept ==
    phase = "parsed" /\ ~BareParameter(file.words) => Parsed = Written
=============================================================================
