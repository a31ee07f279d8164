-------------------------- MODULE MCModuleResolution --------------------------
(* Programs of the files a (the entry), b, c and d for ModuleResolution. *)
EXTENDS ModuleResolution, TLC

Files == {"a", "b", "c", "d"}
Packages == {"react"}
Absent == {"./gone"}

Edges(kinds, targets) == {[kind |-> k, to |-> t] : k \in kinds, t \in targets}
UpTo2(S) == {<<>>} \union {<<e>> : e \in S} \union {<<e, f>> : e, f \in S}

Prog(a, b, c, outcome) ==
  [deps |-> [p \in Files |-> CASE p = "a" -> a [] p = "b" -> b [] p = "c" -> c [] OTHER -> <<>>],
   outcome |-> outcome, trace |-> TRUE, minify |-> FALSE]
AllOk == [p \in Files |-> "ok"]

Imp(t) == [kind |-> "import", to |-> t]
Exp(t) == [kind |-> "export", to |-> t]
Req(t) == [kind |-> "require", to |-> t]

(* Graphs of imports in which a file has at most two dependencies.  The entry *)
(* meets b first: the other graphs are these with b and c swapped.            *)
ImportGraphs ==
  {Prog(a, b, c, AllOk) :
     a \in {<<Imp("b")>>, <<Imp("b"), Imp("b")>>, <<Imp("b"), Imp("c")>>},
     b \in {<<>>, <<Imp("b")>>, <<Imp("c")>>, <<Imp("c"), Imp("a")>>},
     c \in {<<>>, <<Imp("a"), Imp("b")>>, <<Imp("b"), Imp("b")>>}}

(* Diamonds and cycles with files that cannot be read or parsed, and with    *)
(* specifiers that are external or match nothing.                            *)
FaultyPrograms ==
  {Prog(<<Imp("b"), Exp("c")>>, b, c, o) :
     b \in {<<Exp("c")>>, <<Imp("react"), Imp("c")>>, <<Imp("./gone")>>, <<Exp("react")>>},
     c \in {<<Imp("a")>>, <<Imp("react")>>, <<Imp("./gone"), Exp("b")>>},
     o \in {[p \in Files |-> IF p \in bad THEN how ELSE "ok"] :
              how \in Outcome, bad \in {{"a"}, {"b"}, {"c"}, {"b", "c"}}}}

(* One file is analysed alone (JETPACK_TRACE_FILE is not set). *)
Untraced ==
  {[prog EXCEPT !.trace = FALSE] :
     prog \in {Prog(<<Imp("b"), Imp("react"), Imp("./gone")>>, <<>>, <<>>, [AllOk EXCEPT !["a"] = o]) :
                 o \in Outcome}}

(* CommonJS programs in which no file is a dependency twice. *)
RequireTrees ==
  {prog \in {Prog(a, b, c, AllOk) : a \in UpTo2(Edges({"import", "require"}, {"b", "c"})),
                                   b \in {<<>>, <<Req("c")>>, <<Imp("c")>>},
                                   c \in {<<>>, <<Req("b")>>}} :
     \A p, q \in Files : \A i \in DOMAIN prog.deps[p], j \in DOMAIN prog.deps[q] :
       prog.deps[p][i].to = prog.deps[q][j].to => p = q /\ i = j}

(* Two workers that each meet a new CommonJS module. *)
TwoNewModules ==
  {[Prog(<<Req("b"), Req("c")>>, <<Req("d")>>, <<>>, AllOk) EXCEPT !.deps["c"] = c] :
     c \in {<<>>, <<Imp("a")>>}}

(* Two files that require() the same third one. *)
SharedRequire == {Prog(<<Req("b"), Req("c")>>, <<Req("c")>>, <<>>, AllOk)}

(* An npm package, a missing file, or with tracing off any file is required. *)
RequirePrograms ==
  {[Prog(<<Imp("b"), Req("c")>>, b, <<Imp("b")>>, AllOk) EXCEPT !.trace = tr] :
     b \in {<<Req("react")>>, <<Imp("c"), Req("./gone")>>, <<Req("c")>>}, tr \in BOOLEAN}

(* Two generators of names. *)
Named(progs) == {[prog EXCEPT !.minify = m] : prog \in progs, m \in BOOLEAN}

Programs == ImportGraphs \union FaultyPrograms \union Untraced \union RequireTrees \union
            Named(RequirePrograms \union TwoNewModules)
==============================================================================
