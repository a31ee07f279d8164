-------------------------------- MODULE Linker --------------------------------
(***************************************************************************)
(* ModuleResolver::CodeGenAllModules up to the code generator: inner       *)
(* scopes, external imports and root variables are given their final       *)
(* names, exports become declarations, and every import is renamed to the  *)
(* variable it stands for, so that all modules can share one scope.        *)
(*                                                                         *)
(* A variable is <<the scope that declares it, its name in the source>>    *)
(* and stands for all its identifiers: renaming it renames them.           *)
(***************************************************************************)
EXTENDS NameGenerator, Functions

CONSTANTS
  Modules, Entry,
  Libraries,   \* paths that are not bundled
  Inner,       \* scopes inside modules
  Parent,      \* the parent of each inner scope
  Names,       \* names that occur in the sources
  Programs     \* the programs to link (the fields are at IsProgram)

Scopes == Modules \union Inner

Star == <<"*">>                 \* import * as n
DefaultName == <<"default">>    \* the export name of export default
Unnamed == <<>>                 \* local_name of an info that has none yet
DefaultVar == <<"*default*">>   \* the variable made for export default

Exportable == Names \union {DefaultName}

(* What a module refers to, in order: ref_mods, and libraries.               *)
ReferencesOf(p, m) ==
  [i \in DOMAIN p.imports[m] |-> p.imports[m][i].from]
    \o [i \in DOMAIN p.reexports[m] |-> p.reexports[m][i].from]
ReferredTo(p, m) == ToSet(ReferencesOf(p, m)) \intersect Modules

IsProgram(p) ==
  /\ p.minify \in BOOLEAN
  /\ p.owns \in [Scopes -> SUBSET Names]                 \* own_variables
  /\ p.uses \subseteq Scopes \X Names                    \* identifiers that are read
  \* local exports; the local name of export default is Unnamed
  /\ \A m \in Modules : p.exports[m] \in
       Seq([export : Exportable, local : Names \union {Unnamed}])
  /\ \A m \in Modules : \A x \in ToSet(p.exports[m]) : x.local = Unnamed => x.export = DefaultName
  \* export {..} from and export * from; those of a module that is not bundled are not modelled
  /\ \A m \in Modules : p.reexports[m] \in
       Seq([from : Modules, all : BOOLEAN, names : Seq([source : Exportable, export : Exportable])])
  \* import declarations, of one specifier each, which declare variables
  /\ \A m \in Modules :
       /\ p.imports[m] \in
            Seq([from : Modules \union Libraries, source : Exportable \union {Star}, local : Names])
       /\ \A i \in DOMAIN p.imports[m] : p.imports[m][i].local \in p.owns[m]
       /\ \A i, j \in DOMAIN p.imports[m] : p.imports[m][i].local = p.imports[m][j].local => i = j
  \* modules are found by following the references from the entry
  /\ \A S \in SUBSET Modules : Entry \in S /\ (\A m \in S : ReferredTo(p, m) \subseteq S) => S = Modules
  /\ p.calls \in Seq(Names)        \* names wanted for CommonJS modules while parsing

ASSUME LinkerAssumption ==
  /\ IsFiniteSet(Modules) /\ IsFiniteSet(Inner) /\ Modules \intersect Inner = {}
  /\ IsFiniteSet(Names) /\ Names \subseteq Seq(STRING)
  /\ Names \intersect {Star, DefaultName, Unnamed, DefaultVar} = {}
  /\ \A p \in Programs : IsProgram(p)
  /\ Entry \in Modules /\ Libraries \intersect Modules = {}
  /\ Parent \in [Inner -> Scopes]
  \* every scope is inside a module
  /\ \A S \in SUBSET Scopes : Modules \subseteq S /\ (\A s \in Inner : Parent[s] \in S => s \in S) => S = Scopes
  /\ {"global", "call"} \intersect (Scopes \union Libraries) = {}   \* marks in place of a scope

VARIABLES
  prog,        \* the program
  mapOrder,    \* the order in which external_exports_map is iterated
  stage,       \* where CodeGenAllModules is
  sym,         \* the scopes and export tables, see SymbolsOf
  counters,    \* per inner scope: the counter of its generator, or NotYet
  gen,         \* name_generator
  external,    \* import_infos, see NoImports
  stack,       \* the frames of the walk over ref_mods, its top last
  visited,     \* visited_marks
  getters,     \* the getters made for namespace objects
  finalVars    \* final_export_vars

vars == <<prog, mapOrder, stage, sym, counters, gen, external, stack, visited, getters, finalVars>>

NotYet == 0 - 1

ExportNames(p, m) == {x.export : x \in ToSet(p.exports[m])}

(* name: the name of each variable; own: own_variables of each scope;        *)
(* local: local_name per module and export name (local_exports_name);        *)
(* index: export name per module and local name (local_exports_by_local_name).*)
(* Of two exports with one key the later stays in a map (AddLocalExport).    *)
SymbolsOf(p) ==
  [name |-> [v \in UNION {{<<s, n>> : n \in p.owns[s]} : s \in Scopes} |-> v[2]],
   own |-> [s \in Scopes |-> {<<s, n>> : n \in p.owns[s]}],
   local |-> [m \in Modules |-> [e \in ExportNames(p, m) |->
                p.exports[m][Max({i \in DOMAIN p.exports[m] : p.exports[m][i].export = e})].local]],
   index |-> [m \in Modules |-> [l \in {x.local : x \in ToSet(p.exports[m])} |->
                p.exports[m][Max({i \in DOMAIN p.exports[m] : p.exports[m][i].local = l})].export]]]

(* external_exports_map has the relative path as its key.                    *)
ExternalMap(p, m) ==
  {p.reexports[m][Max({i \in DOMAIN p.reexports[m] : p.reexports[m][i].from = f})] :
     f \in {d.from : d \in ToSet(p.reexports[m])}}

(* GlobalImportInfo: Unnamed is has_namespace or has_default being false.    *)
NoImports == [ns |-> Unnamed, default |-> Unnamed, names |-> <<>>, alias |-> <<>>]

(* the names the CommonJS modules got in the parsing stage                   *)
Called(p) == NextNames([minify |-> p.minify, used |-> {}, counter |-> 0], p.calls)

Init ==
  /\ prog \in Programs
  /\ mapOrder \in {f \in [Modules -> UNION {SetToSeqs(ExternalMap(prog, m)) : m \in Modules}] :
                     \A m \in Modules : f[m] \in SetToSeqs(ExternalMap(prog, m))}
  /\ stage = "collect"
  /\ sym = SymbolsOf(prog)
  /\ counters = [s \in Inner |-> NotYet]
  /\ gen = Called(prog).gen
  /\ external = [l \in Libraries |-> NoImports]
  /\ stack = <<>>
  /\ visited = {}
  /\ getters = {}
  /\ finalVars = {}

-----------------------------------------------------------------------------
(* What the program means before linking.                                   *)

(* a scope and the scopes around it, innermost first                        *)
Chain[s \in Scopes] == IF s \in Modules THEN <<s>> ELSE <<s>> \o Chain[Parent[s]]

(* ResolveAllSymbols: the variable an identifier in s is bound to, and the   *)
(* places in the chain where one has its name                               *)
Owners(s, n) == {k \in DOMAIN Chain[s] : n \in prog.owns[Chain[s][k]]}
Binding(s, n) == IF Owners(s, n) = {} THEN <<"global", n>> ELSE <<Chain[s][Min(Owners(s, n))], n>>

(* id_logger_: the identifiers nothing in their module binds                 *)
Globals == {u[2] : u \in {u \in prog.uses : Owners(u[1], u[2]) = {}}}

References(m) == ReferencesOf(prog, m)
RefMods(m) == ReferredTo(prog, m)

-----------------------------------------------------------------------------
(* A definition with a suffix is a mutated form of the one after it.        *)

(* the white list of a declaration                                           *)
WhiteList_None(d) == Exportable
WhiteList(d) == IF d.all THEN Exportable ELSE {z.source : z \in ToSet(d.names)}

(* TraverseModulePushExportVars; the null white list is every name.  seen    *)
(* are the visited marks, Push what it does in other modules.                *)
PushFrom(Push, acc, d) ==
  LET r == Push[<<d.from, WhiteList(d), acc.seen>>]
  IN  [vars |-> acc.vars \union r.vars, seen |-> r.seen]
PushAll(Push, m, acc) ==
  LET after[k \in 0 .. Len(mapOrder[m])] ==
        IF k = 0 THEN acc ELSE PushFrom(Push, after[k - 1], mapOrder[m][k])
  IN  after[Len(mapOrder[m])]
PushExportVars[q \in Modules \X (SUBSET Exportable) \X (SUBSET Modules)] ==
  IF q[1] \in q[3] THEN [vars |-> {}, seen |-> q[3]]
  ELSE PushAll(PushExportVars, q[1],
         [vars |-> {<<q[1], e>> : e \in DOMAIN sym.local[q[1]] \intersect q[2]},
          seen |-> q[3] \union {q[1]}])

(* GetAllExportVars                                                          *)
CollectExports ==
  /\ stage = "collect"
  /\ finalVars' = PushExportVars[<<Entry, Exportable, {}>>].vars
  /\ stage' = IF prog.minify THEN "inner" ELSE "externals"
  /\ UNCHANGED <<prog, mapOrder, sym, counters, gen, external, stack, visited, getters>>

(* Scope::BatchRenameSymbols with the changeset ren: variables are erased,   *)
(* then inserted again, over a variable that has the new name.               *)
Moved(T, s, ren) == {v \in T.own[s] : T.name[v] \in DOMAIN ren}
Lost_OneByOne(T, s, ren) ==
  {v \in T.own[s] : T.name[v] \in Range(ren) /\ (v \in Moved(T, s, ren) => ren[T.name[v]] # T.name[v])}
Lost(T, s, ren) == {v \in T.own[s] \ Moved(T, s, ren) : T.name[v] \in Range(ren)}
RenameIn(T, s, ren) ==
  [T EXCEPT !.name = [v \in DOMAIN @ |-> IF v \in Moved(T, s, ren) THEN ren[@[v]] ELSE @[v]],
            !.own[s] = @ \ Lost(T, s, ren)]

(* ModuleScope::BatchRenameSymbols: the exports go with their variables.     *)
Owned(T, m, n) == \E v \in T.own[m] : T.name[v] = n
RenameInModule_KeepsExports(T, m, ren) == RenameIn(T, m, ren)
RenameInModule(T, m, ren) ==
  LET hit == DOMAIN ren \intersect DOMAIN T.index[m]
      Old(l) == CHOOSE o \in hit : ren[o] = l
  IN  [RenameIn(T, m, ren) EXCEPT
        !.local[m] = [e \in DOMAIN @ |->
                        IF @[e] \in hit /\ T.index[m][@[e]] = e THEN ren[@[e]] ELSE @[e]],
        !.index[m] = [l \in (DOMAIN @ \ hit) \union {ren[o] : o \in hit} |->
                        IF \E o \in hit : ren[o] = l THEN @[Old(l)] ELSE @[l]]]

(* the changeset that gives the variables in order the names                 *)
Changes(T, order, names) ==
  LET changed == {i \in DOMAIN order : names[i] # T.name[order[i]]}
  IN  [n \in {T.name[order[i]] : i \in changed} |->
         names[CHOOSE i \in changed : T.name[order[i]] = n]]

Wanted(T, order) == [i \in DOMAIN order |-> T.name[order[i]]]

Children(s) == {t \in Inner : Parent[t] = s}

(* The generators of the scopes inside s, merged.                            *)
ChildGenerator_Fresh(s) == Merge({0}, {})
ChildGenerator(s) == Merge({0} \union {counters[t] : t \in Children(s)}, {})

(* ModuleFile::RenameInnerScopes, for one scope once its children are done;  *)
(* the tasks of different modules are on different threads, and own_variables *)
(* is iterated in any order.                                                 *)
RenameInner(s) ==
  /\ stage = "inner"
  /\ counters[s] = NotYet
  /\ \A t \in Children(s) : counters[t] # NotYet
  /\ \E order \in SetToSeqs(sym.own[s]) :
       LET r == NextNames(ChildGenerator(s), Wanted(sym, order))
       IN  /\ sym' = RenameIn(sym, s, Changes(sym, order, r.names))
           /\ counters' = [counters EXCEPT ![s] = r.gen.counter]
  /\ UNCHANGED <<prog, mapOrder, stage, gen, external, stack, visited, getters, finalVars>>

RootGenerator == Merge({0} \union {counters[s] : s \in Inner}, Globals)

(* group.Wait() returns when every task is done.                             *)
AllRenamed == \A s \in Inner : counters[s] # NotYet

(* The end of RenameAllInnerScopes: the generators of all modules are merged *)
(* and names that id_logger_ has are avoided.                                *)
MergeGenerators ==
  /\ stage = "inner"
  /\ AllRenamed
  /\ gen' = RootGenerator
  /\ stage' = "externals"
  /\ UNCHANGED <<prog, mapOrder, sym, counters, external, stack, visited, getters, finalVars>>

(* GlobalImportHandler::HandleImport for one specifier: in the info of its    *)
(* library ...                                                              *)
Imported(info, i) ==
  CASE i.source = Star -> [info EXCEPT !.ns = i.local, !.names = Append(@, i.local)]
    [] i.source = DefaultName -> [info EXCEPT !.default = i.local]
    [] OTHER -> [info EXCEPT !.names = Append(@, i.source)]

(* ... which is made when there is none.  acc.ids has the libraries in the    *)
(* order their infos were made.                                             *)
HandleImport(acc, i) ==
  [infos |-> [acc.infos EXCEPT ![i.from] = Imported(@, i)],
   ids |-> IF Contains(acc.ids, i.from) THEN acc.ids ELSE Append(acc.ids, i.from)]

Handled(imports) ==
  LET after[k \in 0 .. Len(imports)] ==
        IF k = 0 THEN [infos |-> external, ids |-> <<>>]
        ELSE HandleImport(after[k - 1], imports[k])
  IN  after[Len(imports)]

(* The import declarations of libraries arrive from the parsers, those of a   *)
(* module in its order, those of different modules in any.                   *)
LibraryImports ==
  UNION {{<<m, k>> : k \in {k \in DOMAIN prog.imports[m] : prog.imports[m][k].from \in Libraries}} :
           m \in Modules}
Arrivals ==
  {f \in SetToSeqs(LibraryImports) :
     \A i, j \in DOMAIN f : f[i][1] = f[j][1] /\ f[i][2] < f[j][2] => i < j}

Named(n) == IF n = Unnamed THEN <<>> ELSE <<n>>

(* DistributeNameToImportVars for the library l                              *)
Distribute(acc, l) ==
  LET info == acc.infos[l]
      ns == Named(info.ns)
      both == ns \o Named(info.default)
      r == NextNames(acc.gen, both \o info.names)
      Given(i) == r.names[Len(both) + i]
      Aliased == {i \in DOMAIN info.names : acc.gen.minify \/ Given(i) # info.names[i]}
  IN  [gen |-> r.gen,
       infos |-> [acc.infos EXCEPT ![l] =
         [ns |-> IF info.ns = Unnamed THEN Unnamed ELSE r.names[1],
          default |-> IF info.default = Unnamed THEN Unnamed ELSE r.names[Len(both)],
          names |-> info.names,
          alias |-> [n \in {info.names[i] : i \in Aliased} |->
                       Given(Max({i \in Aliased : info.names[i] = n}))]]]]

(* The libraries are gone through by id.                                     *)
Distributed(acc) ==
  LET after[k \in 0 .. Len(acc.ids)] ==
        IF k = 0 THEN [gen |-> gen, infos |-> acc.infos]
        ELSE Distribute(after[k - 1], acc.ids[k])
  IN  after[Len(acc.ids)]

(* GlobalImportHandler::GenAst                                               *)
GenAst ==
  /\ stage = "externals"
  /\ \E arrival \in Arrivals :
       LET imports == [k \in DOMAIN arrival |-> prog.imports[arrival[k][1]][arrival[k][2]]]
           r == Distributed(Handled(imports))
       IN  gen' = r.gen /\ external' = r.infos
  /\ stage' = "roots"
  /\ stack' = <<Entry>> /\ visited' = {Entry}
  /\ UNCHANGED <<prog, mapOrder, sym, counters, getters, finalVars>>

-----------------------------------------------------------------------------
(* Two walks over ref_mods, each module after the modules it refers to:     *)
(* RenameAllRootLevelVariableTraverser and TraverseRenameAllImports.        *)

Ready == RefMods(Last(stack)) \subseteq visited

Marks_Forgotten(m) == visited
Marks(m) == visited \union {m}

(* The walk goes on at the first of them it has not visited.                 *)
Descend ==
  /\ stack # <<>>
  /\ \E k \in DOMAIN References(Last(stack)) :
       LET child == References(Last(stack))[k]
           Left(j) == References(Last(stack))[j] \in Modules \ visited
       IN  /\ Left(k) /\ \A j \in 1 .. k - 1 : ~ Left(j)
           /\ stack' = Append(stack, child)
           /\ visited' = Marks(child)
  /\ UNCHANGED <<prog, mapOrder, stage, sym, counters, gen, external, getters, finalVars>>

HasDefault(m) == \E x \in ToSet(prog.exports[m]) : x.local = Unnamed

Popped_Missing(s) == s
Popped(s) == Front(s)

(* ReplaceExports: export default becomes a variable named by d.             *)
AddDefault(T, m, d) ==
  LET b == <<m, DefaultVar>>
  IN  [T EXCEPT !.name = [v \in DOMAIN @ \union {b} |-> IF v = b THEN d ELSE @[v]],
                !.own[m] = @ \union {b},
                !.local[m] = [@ EXCEPT ![DefaultName] = d]]

(* The variables of the module are named, most used first; ties are in any   *)
(* order, and here all variables are.  ReplaceExports follows.               *)
RenameRoot ==
  /\ stage = "roots"
  /\ stack # <<>>
  /\ Ready
  /\ LET m == Last(stack) IN
     \E order \in SetToSeqs(sym.own[m]) :
       LET r == NextNames(gen, Wanted(sym, order))
           T == RenameInModule(sym, m, Changes(sym, order, r.names))
           d == NextName(r.gen, <<"_default">>)
       IN  IF HasDefault(m)
           THEN sym' = AddDefault(T, m, d.name) /\ gen' = d.gen
           ELSE sym' = T /\ gen' = r.gen
  /\ stack' = Popped(stack)
  /\ UNCHANGED <<prog, mapOrder, stage, counters, external, visited, getters, finalVars>>

(* The second walk begins with marks of its own.                             *)
RootsRenamed ==
  /\ stage = "roots"
  /\ stack = <<>>
  /\ stage' = "imports"
  /\ stack' = <<Entry>> /\ visited' = {Entry}
  /\ UNCHANGED <<prog, mapOrder, sym, counters, gen, external, getters, finalVars>>

(* FindLocalExportByPath: the info an export name of a module leads to, as   *)
(* <<module, export name>>, or NotFound.  seen are the modules visited, by a *)
(* search that failed too; Look searches in other modules.                   *)
NotFound == <<>>
SearchIn(Look, e, acc, d) ==
  LET listed == {x \in ToSet(d.names) : x.export = e}
      wanted == IF d.all THEN e ELSE (CHOOSE x \in listed : TRUE).source
      r == Look[<<d.from, wanted, acc.seen>>]
  IN  IF acc.stop \/ (~d.all /\ listed = {}) THEN acc
      ELSE [info |-> r.info, seen |-> r.seen, stop |-> ~d.all \/ r.info # NotFound]
SearchAll(Look, m, e, acc) ==
  LET after[k \in 0 .. Len(mapOrder[m])] ==
        IF k = 0 THEN acc ELSE SearchIn(Look, e, after[k - 1], mapOrder[m][k])
  IN  after[Len(mapOrder[m])]
Find[q \in Modules \X Exportable \X (SUBSET Modules)] ==
  LET marked == q[3] \union {q[1]}
  IN  CASE q[1] \in q[3] -> [info |-> NotFound, seen |-> q[3], stop |-> FALSE]
        [] q[1] \notin q[3] /\ q[2] \in DOMAIN sym.local[q[1]] ->
             [info |-> <<q[1], q[2]>>, seen |-> marked, stop |-> TRUE]
        [] OTHER -> SearchAll(Find, q[1], q[2], [info |-> NotFound, seen |-> marked, stop |-> FALSE])

FindLocalExport_SameName(m, e) == IF e \in DOMAIN sym.local[m] THEN <<m, e>> ELSE NotFound
FindLocalExport(m, e) == Find[<<m, e, {}>>].info

(* RenameExternalImports for one specifier; a named one is looked up under   *)
(* its local name, which RenameRoot may have changed.                        *)
ExternalName(T, m, i) ==
  LET now == T.name[<<m, i.local>>]
      info == external[i.from]
  IN  CASE i.source = Star -> info.ns
        [] i.source = DefaultName -> info.default
        [] OTHER -> IF now \in DOMAIN info.alias THEN info.alias[now] ELSE now

(* One import declaration; acc.ok is that nothing was thrown.                *)
ReplaceImport(m, acc, i) ==
  LET now == acc.sym.name[<<m, i.local>>]
      found == FindLocalExport(i.from, i.source)
      RenamedTo(n) == [acc EXCEPT !.sym = RenameInModule(@, m, [o \in {now} |-> n])]
      Exposed == {[of |-> i.from, export |-> e, name |-> acc.sym.local[i.from][e]] :
                    e \in DOMAIN acc.sym.local[i.from]}
  IN  CASE ~acc.ok -> acc
        [] acc.ok /\ i.from \in Libraries ->
             IF Owned(acc.sym, m, now) THEN RenamedTo(ExternalName(acc.sym, m, i)) ELSE acc
        [] acc.ok /\ i.from \in Modules /\ i.source = Star ->
             IF Owned(acc.sym, m, now) THEN [acc EXCEPT !.getters = @ \union Exposed] ELSE acc
        [] OTHER -> IF found = NotFound \/ ~Owned(acc.sym, m, now) THEN [acc EXCEPT !.ok = FALSE]
                    ELSE RenamedTo(acc.sym.local[found[1]][found[2]])

Replaced(m) ==
  LET after[k \in 0 .. Len(prog.imports[m])] ==
        IF k = 0 THEN [sym |-> sym, getters |-> getters, ok |-> TRUE]
        ELSE ReplaceImport(m, after[k - 1], prog.imports[m][k])
  IN  after[Len(prog.imports[m])]

(* ReplaceImports; HandleImportDeclaration throws when it finds no export, or *)
(* no variable to rename.                                                    *)
ReplaceImports ==
  /\ stage = "imports"
  /\ stack # <<>>
  /\ Ready
  /\ LET r == Replaced(Last(stack))
     IN  /\ sym' = r.sym
         /\ getters' = r.getters
         /\ stack' = IF r.ok THEN Popped(stack) ELSE <<>>
         /\ stage' = IF r.ok THEN stage ELSE "failed"
  /\ UNCHANGED <<prog, mapOrder, counters, gen, external, visited, finalVars>>

(* CodeGenAllModules goes on to DumpAllResult.                               *)
Finish ==
  /\ stage = "imports"
  /\ stack = <<>>
  /\ stage' = "done"
  /\ UNCHANGED <<prog, mapOrder, sym, counters, gen, external, stack, visited, getters, finalVars>>

Stop ==
  /\ stage \in {"done", "failed"}
  /\ UNCHANGED vars

Next ==
  \/ CollectExports
  \/ \E s \in Inner : RenameInner(s)
  \/ MergeGenerators
  \/ GenAst
  \/ Descend
  \/ RenameRoot
  \/ RootsRenamed
  \/ ReplaceImports
  \/ Finish
  \/ Stop

Spec == Init /\ [][Next]_vars
==============================================================================
