------------------------------- MODULE MCLinker -------------------------------
(* Programs of the modules a (the entry), b and c to link. *)
EXTENDS LinkedProgram

ABC == {"a", "b", "c"}
Scoped == {"ia", "ja", "ib"}
ParentOf == [s \in Scoped |-> CASE s = "ia" -> "a" [] s = "ja" -> "ia" [] s = "ib" -> "b"]
Lib == {"react"}

x == <<"x">>
y == <<"y">>
g == <<"q">>
Sources == {x, y, g, <<"y", "_", "0">>}
D == DefaultName

(* Two letters, both of them names of the sources, and a two-letter keyword. *)
First == <<"q", "x">>
Rest == <<"1", "q">>
Reserved == {<<"x", "q">>}

Imp(f, s, l) == [from |-> f, source |-> s, local |-> l]
Exp(e, l) == [export |-> e, local |-> l]
From(f, s, e) == [from |-> f, all |-> FALSE, names |-> <<[source |-> s, export |-> e]>>]
All(f) == [from |-> f, all |-> TRUE, names |-> <<>>]

Mod(imports, exports, reexports, own) ==
  [imports |-> imports, exports |-> exports, reexports |-> reexports, own |-> own]

(* A program from its modules and what its inner scopes own; every name a    *)
(* scope sees is read there, and globals are read in the scopes glob.        *)
Program(min, a, b, c, ia, ja, ib, glob) ==
  LET M == [m \in ABC |-> CASE m = "a" -> a [] m = "b" -> b [] m = "c" -> c]
      locals(m) == {i.local : i \in ToSet(M[m].imports)}
      owns == [s \in ABC \union Scoped |->
                 CASE s \in ABC -> M[s].own \union locals(s)
                   [] s = "ia" -> ia [] s = "ja" -> ja [] s = "ib" -> ib]
      chain(s) == CASE s = "ia" -> {"a", "ia"} [] s = "ja" -> {"a", "ia", "ja"}
                    [] s = "ib" -> {"b", "ib"} [] OTHER -> {s}
  IN  [minify |-> min, calls |-> <<>>,
       owns |-> owns,
       uses |-> (UNION {{<<s, n>> : n \in UNION {owns[t] : t \in chain(s)}} : s \in ABC \union Scoped})
                  \union {<<s, g>> : s \in glob},
       exports |-> [m \in ABC |-> M[m].exports],
       reexports |-> [m \in ABC |-> M[m].reexports],
       imports |-> [m \in ABC |-> M[m].imports]]

Bundled(p) ==
  LET refs(m) == {i.from : i \in ToSet(p.imports[m])} \union {d.from : d \in ToSet(p.reexports[m])}
      two == refs("a") \union UNION {refs(m) : m \in refs("a") \intersect ABC}
  IN  ABC \subseteq two \union {"a"}

As == {Mod(<<Imp("b", x, x), Imp("c", y, y)>>, <<>>, <<>>, {}),
       Mod(<<Imp("b", x, y)>>, <<Exp(x, x)>>, <<>>, {x}),
       Mod(<<Imp("b", D, x), Imp("c", x, y)>>, <<Exp(D, Unnamed), Exp(y, x)>>, <<>>, {}),
       Mod(<<Imp("b", Star, x)>>, <<>>, <<All("b")>>, {y}),
       Mod(<<>>, <<Exp(x, x)>>, <<From("b", y, y), All("c")>>, {x})}
Bs == {Mod(<<>>, <<Exp(x, x), Exp(y, y), Exp(D, Unnamed)>>, <<>>, {x, y}),
       Mod(<<Imp("c", x, y)>>, <<Exp(x, y), Exp(y, x), Exp(D, Unnamed)>>, <<>>, {x}),
       Mod(<<Imp("c", y, y)>>, <<Exp(D, Unnamed)>>, <<All("c")>>, {x}),
       Mod(<<Imp("a", x, y)>>, <<Exp(x, x), Exp(D, x)>>, <<From("c", x, y)>>, {x}),
       Mod(<<Imp("a", y, x), Imp("a", Star, g)>>, <<Exp(D, Unnamed)>>, <<>>, {})}
Cs == {Mod(<<>>, <<Exp(x, y), Exp(y, x)>>, <<>>, {x, y}),
       Mod(<<Imp("b", D, g)>>, <<Exp(x, x), Exp(y, y)>>, <<>>, {x, y})}

Linked == {p \in {Program(min, a, b, c, ia, ja, ib, glob) :
  min \in BOOLEAN, a \in As, b \in Bs, c \in Cs,
  ia \in {{}, {x}}, ja \in {{y}}, ib \in {{}, {y}}, glob \in {{"a", "c", "ib"}}} : Bundled(p)}

(* Libraries imported by two modules, under the same name or not.            *)
WithLibraries == {p \in {Program(min, a, b, c, {x}, {}, ib, {"ib"}) :
  min \in BOOLEAN,
  a \in {Mod(<<Imp("b", x, x), Imp("react", D, y), Imp("c", y, g)>>, <<Exp(x, x)>>, <<>>, {}),
         Mod(<<Imp("b", y, x), Imp("react", Star, y)>>, <<Exp(y, y)>>, <<All("c")>>, {})},
  b \in {Mod(<<Imp("react", D, x)>>, <<Exp(x, x), Exp(y, y)>>, <<>>, {y}),
         Mod(<<Imp("react", x, x), Imp("react", y, g)>>, <<Exp(x, x), Exp(y, g)>>, <<>>, {}),
         Mod(<<Imp("react", Star, x), Imp("react", D, y)>>, <<Exp(x, x), Exp(y, y)>>, <<>>, {})},
  c \in {Mod(<<Imp("react", D, x)>>, <<Exp(y, y)>>, <<>>, {y})}, ib \in {{}, {y}, {x}}} : Bundled(p)}

(* Chains of re-exports that pass a module twice, that name nothing, or that *)
(* are ambiguous in the tables.                                              *)
Chains == {p \in {Program(min, a, b, c, {}, {}, {}, {"c"}) :
  min \in BOOLEAN,
  a \in {Mod(<<Imp("b", y, y)>>, <<>>, <<>>, {x}),
         Mod(<<Imp("b", y, g)>>, <<Exp(x, x)>>, <<All("b"), From("c", x, y)>>, {x}),
         Mod(<<Imp("b", g, y), Imp("b", x, x)>>, <<Exp(y, x)>>, <<>>, {}),
         Mod(<<>>, <<Exp(x, x), Exp(y, x)>>, <<From("b", g, g)>>, {x}),
         Mod(<<>>, <<>>, <<From("b", g, x)>>, {x}),
         Mod(<<>>, <<>>, <<From("b", g, g), From("b", y, y)>>, {}),
         Mod(<<>>, <<>>, <<All("b"), From("c", x, x)>>, {y})},
  b \in {Mod(<<>>, <<Exp(g, x)>>, <<From("c", x, y)>>, {x}),
         Mod(<<Imp("c", x, x)>>, <<Exp(g, g), Exp(y, y)>>, <<>>, {g, y}),
         Mod(<<>>, <<>>, <<From("c", y, y)>>, {}),
         Mod(<<Imp("a", y, y)>>, <<Exp(g, g)>>, <<>>, {g}),
         Mod(<<>>, <<Exp(g, y)>>, <<All("c"), From("c", x, y)>>, {y})},
  c \in {Mod(<<>>, <<>>, <<From("b", g, x)>>, {y}), Mod(<<>>, <<Exp(x, x)>>, <<>>, {x}),
         Mod(<<>>, <<Exp(x, x), Exp(y, y)>>, <<>>, {x, y})}} : Bundled(p)}

(* Names that look generated, and names CommonJS modules got while parsing.  *)
y0 == <<"y", "_", "0">>
Numbered == {[Program(FALSE, Mod(<<Imp("b", x, x)>>, <<>>, <<>>, {y}), Mod(<<Imp("c", y, g)>>, <<Exp(x, b)>>, <<>>, {b}),
                      Mod(<<>>, <<Exp(y, y)>>, <<>>, {y}), {}, ja, {}, {}) EXCEPT !.calls = calls] :
               b \in {x, y0}, ja \in {{}, {y0}}, calls \in {<<>>, <<x, y>>}}
  \union {Program(FALSE, Mod(<<Imp("b", x, x)>>, <<>>, <<>>, {y}), Mod(<<Imp("c", y, y0), Imp("c", x, g)>>, <<Exp(x, x)>>, <<>>, {x, y}),
                  Mod(<<>>, <<Exp(y, y), Exp(x, x)>>, <<>>, {x, y}), {}, {}, {}, {})}
(* A global that has the name of an import, of a CommonJS module or of none.  *)
Captured == {[Program(FALSE, Mod(<<Imp("b", x, x), Imp("react", i, y)>>, <<>>, <<>>, {}),
                      Mod(<<Imp("c", y, y)>>, <<Exp(x, x)>>, <<>>, {x}), Mod(<<>>, <<Exp(y, y)>>, <<>>, {y}), {}, {}, {}, {"ib"})
                EXCEPT !.calls = calls, !.uses = @ \union {<<"ib", y0>>}] :
              i \in {x, g}, calls \in {<<>>, <<g>>, <<x, y>>}}
Called2 == {[Program(TRUE, Mod(<<Imp("b", x, x)>>, <<>>, <<>>, {y}), Mod(<<Imp("c", y, g)>>, <<Exp(x, x)>>, <<>>, {x}),
                    Mod(<<>>, <<Exp(y, y)>>, <<>>, {x, y}), ia, {}, {}, {}) EXCEPT !.calls = <<x>>] : ia \in {{}, {x}}}

(* Programs that each break a condition of the properties, and would break a  *)
(* property without it: a list that export * competes with, an export that is  *)
(* renamed after a module on a cycle has taken it, two imports of one module   *)
(* that get the name y_0, a default taken or exported through export *.        *)
Conditions ==
  {Program(min, Mod(<<Imp("b", y, x)>>, <<Exp(y, y)>>, <<>>, {y}), Mod(<<>>, <<>>, <<All("c"), From("a", y, y)>>, {}),
           Mod(<<>>, <<Exp(y, y)>>, <<>>, {y}), {}, {}, {}, {}) : min \in BOOLEAN}
  \union {Program(min, Mod(<<Imp("b", x, x)>>, exports, <<All("c")>>, {}), Mod(<<Imp("a", y, y)>>, <<Exp(x, l)>>, <<>>, {x}),
                  Mod(<<Imp("react", D, x)>>, <<Exp(y, x)>>, <<>>, {}), {}, {}, {}, {}) :
            min \in BOOLEAN, exports \in {<<>>, <<Exp(x, x)>>}, l \in {x, y}}
  \union {Program(FALSE, Mod(<<Imp("b", x, x)>>, <<>>, <<>>, {}), Mod(<<Imp("c", y, y), Imp("c", x, y0)>>, <<Exp(x, x)>>, <<>>, {x}),
                  Mod(<<>>, <<Exp(y, y), Exp(x, x)>>, <<>>, {x, y}), {}, {}, {}, {})}
  \union {Program(min, Mod(imports, <<>>, <<All("b")>>, {}), Mod(<<>>, <<>>, <<d>>, {}), Mod(<<>>, <<Exp(D, Unnamed)>>, <<>>, {}),
                  {}, {}, {}, {}) :
            min \in BOOLEAN, imports \in {<<>>, <<Imp("b", D, x), Imp("c", D, y)>>}, d \in {All("c"), From("c", D, D)}}

AllPrograms == Linked \union WithLibraries \union Chains \union Numbered \union Captured \union Called2 \union Conditions
==============================================================================
