---------------------------- MODULE LinkedProgram ----------------------------
(***************************************************************************)
(* What linking promises: the identifiers of the bundle mean what they     *)
(* meant in the modules.  The meaning before is ECMAScript's; the meaning  *)
(* after is that of one scope.                                             *)
(***************************************************************************)
EXTENDS Linker

-----------------------------------------------------------------------------
(* What the sets f leads to from those in S, S included.                      *)
Widened(f, S) == S \union UNION {f[x] : x \in S}
Closure(f, S) ==
  LET after[k \in 0 .. Cardinality(DOMAIN f)] == IF k = 0 THEN S ELSE Widened(f, after[k - 1])
  IN  after[Cardinality(DOMAIN f)]

(* The meaning of imports and exports in ECMAScript, as a set of variables:  *)
(* none when unresolvable, several when ambiguous.                          *)

ImportsOf(m, n) == {i \in ToSet(prog.imports[m]) : i.local = n}

(* The namespace of a module is a variable of the module that imports it.    *)
IsNamespace(i) == i.from \in Modules /\ i.source = Star
Declared(v) == v[1] \in Modules => \A i \in ImportsOf(v[1], v[2]) : IsNamespace(i)

Exports == Modules \X Exportable    \* <<module, export name>>

(* An export of the module itself comes before one it lists, and that before *)
(* those that export * brings; * leaves out the default.                     *)
ExportedLocals(x) == {z.local : z \in {z \in ToSet(prog.exports[x[1]]) : z.export = x[2]}}
ExportedImports(x) == UNION {ImportsOf(x[1], n) : n \in ExportedLocals(x)}
Lists(m) == {d \in ToSet(prog.reexports[m]) : ~d.all}
Stars(m) == {d \in ToSet(prog.reexports[m]) : d.all}
Listed(x) == UNION {{<<d.from, z.source>> : z \in {z \in ToSet(d.names) : z.export = x[2]}} : d \in Lists(x[1])}
Starred(x) == {<<d.from, x[2]>> : d \in {d \in Stars(x[1]) : x[2] # DefaultName}}

(* the variables x is, and the exports it is looked up in                     *)
VariableOf(m, n) == <<m, IF n = Unnamed THEN DefaultVar ELSE n>>
Direct(x) ==
  {v \in {VariableOf(x[1], n) : n \in ExportedLocals(x)} : Declared(v)}
    \union {<<i.from, i.source>> : i \in {i \in ExportedImports(x) : i.from \in Libraries}}
Onward(x) ==
  CASE ExportedLocals(x) # {} ->
         {<<i.from, i.source>> : i \in {i \in ExportedImports(x) : i.from \in Modules /\ i.source # Star}}
    [] ExportedLocals(x) = {} /\ Listed(x) # {} -> Listed(x)
    [] OTHER -> Starred(x)

ExportMeans(m, e) == UNION {Direct(x) : x \in Closure([x \in Exports |-> Onward(x)], {<<m, e>>})}

(* The names a module exports; * leaves out the default.                     *)
NamesExported(m) == ExportNames(prog, m) \union {z.export : z \in UNION {ToSet(d.names) : d \in Lists(m)}}
ThroughStars(m) == Closure([k \in Modules |-> {d.from : d \in Stars(k)}], {m})
ExportedNames(m) == NamesExported(m) \union ((UNION {NamesExported(k) : k \in ThroughStars(m)}) \ {DefaultName})

ImportMeans(m, i) ==
  CASE i.from \in Libraries -> {<<i.from, i.source>>}
    [] IsNamespace(i) -> {<<m, i.local>>}
    [] OTHER -> ExportMeans(i.from, i.source)

(* the variable that one declared or imported stands for, and an identifier n *)
(* in scope s                                                               *)
VariableMeans(v) ==
  IF v[1] \in Modules /\ ImportsOf(v[1], v[2]) # {}
  THEN UNION {ImportMeans(v[1], i) : i \in ImportsOf(v[1], v[2])} ELSE {v}
Meaning(s, n) == VariableMeans(Binding(s, n))

-----------------------------------------------------------------------------
(* The linked program: the declarations of the one root scope, and what an   *)
(* identifier of the output is bound to.                                    *)

ExternalBindings(l) ==
  LET info == external[l]
      Local(n) == IF n \in DOMAIN info.alias THEN info.alias[n] ELSE n
  IN  {[name |-> info.ns, is |-> <<l, Star>>] : x \in ToSet(Named(info.ns))}
      \union {[name |-> info.default, is |-> <<l, DefaultName>>] : x \in ToSet(Named(info.default))}
      \union {[name |-> Local(n), is |-> <<l, n>>] : n \in ToSet(info.names)}

(* Import declarations go, except that the namespace of a module becomes a   *)
(* variable.                                                                *)
RootBindings ==
  {[name |-> sym.name[v], is |-> v] :
     v \in {v \in DOMAIN sym.name : v[2] = DefaultVar \/ (v[1] \in Modules /\ Declared(v))}}
  \union (UNION {ExternalBindings(l) : l \in Libraries})
  \union {[name |-> Called(prog).names[k], is |-> <<"call", <<ToString(k)>>>>] : k \in DOMAIN prog.calls}

AtRoot(n) ==
  LET found == {b.is : b \in {b \in RootBindings : b.name = n}}
  IN  IF found = {} THEN {<<"global", n>>} ELSE found

(* GenFinalExportDecl                                                        *)
FinalName(v) == sym.local[v[1]][v[2]]

Declares(t, n) == {v \in {<<t, x>> : x \in prog.owns[t]} : sym.name[v] = n}
Declarers(s, n) == {k \in DOMAIN Chain[s] : Chain[s][k] \in Inner /\ Declares(Chain[s][k], n) # {}}
Lookup(s, n) ==
  IF Declarers(s, n) = {} THEN AtRoot(n) ELSE Declares(Chain[s][Min(Declarers(s, n))], n)

Emitted(s, n) == IF Owners(s, n) = {} THEN n ELSE sym.name[Binding(s, n)]

Kept(u) == Lookup(u[1], Emitted(u[1], u[2])) = Meaning(u[1], u[2])

-----------------------------------------------------------------------------
(* Conditions on programs.  Linking keeps meanings exactly under the ones a  *)
(* property names; each stands for a place where the code takes no care.     *)

InnerAround(s) == {t \in ToSet(Chain[s]) : t \in Inner}

(* Where ReadableNameGenerator is used, no source has a name like those it   *)
(* makes: no variable, nothing imported, and no name wanted for a CommonJS    *)
(* module.                                                                  *)
NoNumberedNames == ~prog.minify =>
  /\ \A s \in Scopes : \A n \in prog.owns[s] : ~IsNumbered(n)
  /\ \A m \in Modules : \A i \in ToSet(prog.imports[m]) : ~IsNumbered(i.source)
  /\ \A n \in ToSet(prog.calls) : ~IsNumbered(n)

(* Minified, no CommonJS module has a name: the generator that gave the names *)
(* in the parsing stage is replaced in RenameAllInnerScopes.                 *)
CallNamesKnown == prog.minify => prog.calls = <<>>

(* No two local exports of a module have one local name: the index by local  *)
(* name has room for one (ExportManager.cpp:136).                            *)
LocalsExportedOnce == \A m \in Modules :
  \A i, j \in DOMAIN prog.exports[m] :
    prog.exports[m][i].local = prog.exports[m][j].local => i = j

(* No module has two export declarations from one module: external_exports_map *)
(* keeps the later (ExportManager.cpp:37, 63).                               *)
ReexportsApart == \A m \in Modules :
  \A i, j \in DOMAIN prog.reexports[m] :
    prog.reexports[m][i].from = prog.reexports[m][j].from => i = j

(* No module lists a name that its export * brings too, or might: a search    *)
(* takes the declarations in the order of a map, and passes a default through *)
(* export * (ModuleResolver.cpp:1115).                                       *)
ListsHideNothing == \A m \in Modules : \A d \in Lists(m), s \in Stars(m) : \A z \in ToSet(d.names) :
  z.export # DefaultName /\ ExportMeans(s.from, z.export) = {}

(* the modules that m leads to by its references, m too when it is on a cycle *)
Reached(m) == Closure([k \in Modules |-> RefMods(k)], RefMods(m))

(* No module that a cycle of imports leads to, one on it included, exports    *)
(* what it imports: a module on the cycle that gets it, from there or along    *)
(* re-exports, may be renamed first.                                         *)
ImportsNotExportedPastCycles == \A m \in Modules : m \in Reached(m) =>
  \A n \in Reached(m) : \A z \in ToSet(prog.exports[n]) : ImportsOf(n, z.local) = {}

(* ECMAScript accepts the program: a module exports a name once, and as a      *)
(* local one only what it declares; what is imported or listed for export is  *)
(* one variable.                                                            *)
ExportsDiffer(m) ==
  /\ \A y, z \in ToSet(prog.exports[m]) : y.export = z.export => y = z
  /\ \A c, d \in Lists(m) : \A y \in ToSet(c.names), z \in ToSet(d.names) :
       y.export = z.export => c = d /\ y = z
  /\ \A d \in Lists(m) : \A z \in ToSet(d.names) : z.export \notin ExportNames(prog, m)
Resolved(x) == \E v \in ExportMeans(x[1], x[2]) : ExportMeans(x[1], x[2]) = {v}
Accepted == \A m \in Modules :
  /\ ExportsDiffer(m)
  /\ \A z \in ToSet(prog.exports[m]) : z.local \in prog.owns[m] \union {Unnamed}
  /\ \A i \in ToSet(prog.imports[m]) : i.from \in Modules /\ ~IsNamespace(i) => Resolved(<<i.from, i.source>>)
  /\ \A d \in Lists(m) : \A z \in ToSet(d.names) : Resolved(<<d.from, z.source>>)

(* what binding across modules needs                                         *)
LinksKeepable ==
  /\ NoNumberedNames /\ CallNamesKnown
  /\ Accepted /\ LocalsExportedOnce /\ ImportsNotExportedPastCycles /\ ListsHideNothing

(* No module is reached twice by export ... from: a search marks the modules *)
(* it has visited, whatever name it looked for there (ModuleResolver.cpp:1104). *)
ReexportedFrom(m) == {d.from : d \in ToSet(prog.reexports[m])}
ReexportsFormTrees ==
  /\ \A m \in Modules : m \notin Closure([k \in Modules |-> ReexportedFrom(k)], ReexportedFrom(m))
  /\ \A m, n \in Modules : m # n => ReexportedFrom(m) \intersect ReexportedFrom(n) = {}

Done == stage = "done"

IsGlobal(u) == Owners(u[1], u[2]) = {}
IsImport(u) == ~IsGlobal(u) /\ ~Declared(Binding(u[1], u[2]))
IsOwn(u) == ~IsGlobal(u) /\ Declared(Binding(u[1], u[2]))

(* imported from a library by name: such an import is left unbound           *)
(* (ModuleResolver.cpp:919, see ExternalNamesBound)                          *)
ByName(vs) == \E v \in vs : v[1] \in Libraries /\ v[2] \notin {Star, DefaultName}

(* the names that what v stands for may have had in the sources              *)
LocalsOf(l) == {i.local : i \in UNION {{i \in ToSet(prog.imports[m]) : i.from = l} : m \in Modules}}
SourceNames(v) ==
  CASE v[1] = "call" -> ToSet(prog.calls)
    [] v[1] \in Libraries -> {v[2]} \union LocalsOf(v[1])
    [] v[2] = DefaultVar -> {<<"_default">>}
    [] OTHER -> {v[2]}

(* In the readable mode inner scopes keep their names, so no scope around a  *)
(* use may declare the name of what it stands for.                           *)
Unshadowed(u) == prog.minify \/
  \A t \in InnerAround(u[1]) : \A v \in Meaning(u[1], u[2]) : SourceNames(v) \intersect prog.owns[t] = {}

(* A module named in export {..} from exports the names itself and under the *)
(* same name: the white list is looked up in its local exports only, and the *)
(* new name is not used (ModuleResolver.cpp:364, 398).                       *)
ListsNameLocals == \A m \in Modules : \A d \in Lists(m) :
  /\ prog.reexports[d.from] = <<>>
  /\ \A z \in ToSet(d.names) : z.source = z.export /\ z.source \in ExportNames(prog, d.from)

(* export * from meets no name the module has from elsewhere, and no default: *)
(* every local export of the other module is pushed (ModuleResolver.cpp:394). *)
StarsApart == \A m \in Modules : \A d \in Stars(m) :
  /\ DefaultName \notin ExportedNames(d.from)
  /\ ExportedNames(d.from) \intersect NamesExported(m) = {}
  /\ \A e \in Stars(m) \ {d} : ExportedNames(d.from) \intersect ExportedNames(e.from) = {}

-----------------------------------------------------------------------------
(* Properties of the linked program.                                        *)

(* Every variable has a name that is not empty, as the local name of a default *)
(* or of a library's namespace is until it is given; a scope owns variables  *)
(* declared in it only; export tables keep their keys, and the index leads    *)
(* to one of them; and a walk's stack has modules that it marked.             *)
TypeOK ==
  /\ stage \in {"collect", "inner", "externals", "roots", "imports", "done", "failed"}
  /\ \A v \in DOMAIN sym.name : v[1] \in Scopes /\ sym.name[v] \in Seq(STRING) \ {<<>>}
  /\ \A s \in Scopes : sym.own[s] \subseteq {v \in DOMAIN sym.name : v[1] = s}
  /\ \A m \in Modules : DOMAIN sym.local[m] = ExportNames(prog, m) /\ Range(sym.index[m]) \subseteq DOMAIN sym.local[m]
  /\ counters \in [Inner -> Nat \union {NotYet}]
  /\ gen.counter \in Nat
  /\ stack \in Seq(Modules) /\ ToSet(stack) \subseteq visited /\ visited \subseteq Modules
  /\ finalVars \subseteq Modules \X Exportable

(* No two declarations of the bundle's one scope have a name in common, be   *)
(* they variables of any modules, imports of libraries or CommonJS modules.  *)
RootNamesDistinct == Done /\ NoNumberedNames /\ CallNamesKnown =>
  \A b, c \in RootBindings : b.name = c.name => b = c

(* An identifier bound in its own module is bound to the same variable in    *)
(* the bundle: no scope between them has been given the name.                *)
OwnKept == Done /\ NoNumberedNames /\ CallNamesKnown =>
  \A u \in prog.uses : IsOwn(u) => Kept(u)

(* An identifier that is imported is bound to the variable ECMAScript        *)
(* resolves the import to, through any chain of re-exports, or to the default *)
(* or namespace of a library, which all modules share.                       *)
ImportsBound ==
  Done /\ LinksKeepable =>
  \A u \in prog.uses : IsImport(u) /\ ~ByName(Meaning(u[1], u[2])) /\ Unshadowed(u) => Kept(u)

(* An identifier imported from a library by name is bound to that import.    *)
(* The code does not keep this.                                              *)
ExternalNamesBound ==
  Done /\ LinksKeepable =>
  \A u \in prog.uses :
    IsImport(u) /\ ByName(Meaning(u[1], u[2])) /\ Unshadowed(u) => Kept(u)

(* A global stays one: minified, unless an inner scope around it has         *)
(* variables, whose names are given without regard to globals; readable,     *)
(* unless something in the bundle's root scope had that name in a source, or *)
(* the name could be generated.                                             *)
GlobalsKept == Done /\ NoNumberedNames /\ CallNamesKnown => \A u \in prog.uses :
  IsGlobal(u) /\
    (IF prog.minify THEN \A t \in InnerAround(u[1]) : prog.owns[t] = {}
     ELSE ~IsNumbered(u[2]) /\ \A b \in RootBindings : u[2] \notin SourceNames(b.is))
  => Kept(u)

(* A namespace object's getters return the exported variables.               *)
GettersBound == Done /\ LinksKeepable =>
  \A r \in getters : ~ByName(ExportMeans(r.of, r.export)) => AtRoot(r.name) = ExportMeans(r.of, r.export)

(* What the renaming of one module touches keeps its meaning: its own           *)
(* variables and the globals it uses.                                          *)
NamesKept == OwnKept /\ GlobalsKept

(* What crosses modules is bound to the variable that is meant: identifiers    *)
(* and the getters of namespaces.                                              *)
LinksBound == ImportsBound /\ GettersBound

(* The bundle exports what the entry does, each name for its variable        *)
(* (GenFinalExportDecl reads local_name after all renaming).                 *)
FinalExportsRight ==
  Done /\ LinksKeepable /\ ReexportsApart /\ ReexportsFormTrees /\ ListsNameLocals /\ StarsApart =>
  /\ {v[2] : v \in finalVars} = ExportedNames(Entry)
  /\ \A v \in finalVars : ~ByName(ExportMeans(Entry, v[2])) => AtRoot(FinalName(v)) = ExportMeans(Entry, v[2])

(* Linking fails only for a program ECMAScript refuses, when a search meets a *)
(* module twice, or when two variables of a module are given one name.        *)
RejectsOnly == stage = "failed" =>
  ~Accepted \/ ~ReexportsFormTrees \/ ~ReexportsApart \/ ~NoNumberedNames

(* Renaming loses no variable of a scope, except one of two imports of the   *)
(* same variable.                                                            *)
NoVariableLost == \A v \in DOMAIN sym.name :
  v \notin sym.own[v[1]] /\ LinksKeepable
  => \E w \in sym.own[v[1]] : sym.name[w] = sym.name[v] /\ VariableMeans(v) = VariableMeans(w)

(* Every step leads closer to the end, along cycles of imports too.  With no *)
(* deadlock before the end this is termination.                              *)
Remaining ==
  LET stages == <<"failed", "done", "imports", "roots", "externals", "inner", "collect">>
      most == 2 * Cardinality(Modules) + Cardinality(Inner) + 1
  IN  most * (CHOOSE k \in DOMAIN stages : stages[k] = stage)
        + 2 * Cardinality(Modules \ visited) + Len(stack)
        + Cardinality({s \in Inner : counters[s] = NotYet})
LeadsOn == [][Remaining' < Remaining]_vars
==============================================================================
