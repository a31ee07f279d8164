--------------------------- MODULE ModuleResolution ---------------------------
(***************************************************************************)
(* The parsing stage of ModuleResolver: the thread that called             *)
(* BeginFromEntry enqueues the entry and waits on parsing_group_; every    *)
(* pool worker parses one module, and each import, re-export or require()  *)
(* the parser meets runs HandleNewLocationAdded on that worker's thread:   *)
(* it looks the path up in the modules table and, when the path is new,    *)
(* enqueues one more task.  Workers share the table (behind its mutex),    *)
(* the wait group's counter, the error list, the name generator and the    *)
(* fields of ModuleFile objects they did not create.                       *)
(*                                                                         *)
(* A program is what the parser will meet: deps[p] are the listener calls  *)
(* module p's parser makes, in source order, before it ends or throws;     *)
(* outcome[p] says how reading and parsing p ends; trace and minify are the *)
(* options it is bundled with.                                             *)
(***************************************************************************)
EXTENDS Integers, Sequences, FiniteSets, Functions

CONSTANTS
  Worker,      \* the pool's threads
  Path,        \* resolved module paths that exist
  Entry,       \* the path BeginFromEntry was called with
  External,    \* bare specifiers ("react"): no provider matches them
  Missing,     \* relative specifiers no provider matches
  Program      \* the programs to explore

Kind == {"import", "export", "require"}
Edge == [kind : Kind, to : Path \union External \union Missing]
Outcome == {"ok", "noSource", "syntaxError"}

ASSUME ResolutionAssumption ==
  /\ IsFiniteSet(Worker) /\ Worker # {}
  /\ IsFiniteSet(Path) /\ Entry \in Path
  /\ Path \intersect (External \union Missing) = {}
  /\ External \intersect Missing = {}
  /\ \A prog \in Program :
       /\ prog.deps \in [Path -> Seq(Edge)]
       /\ prog.outcome \in [Path -> Outcome]
       /\ prog.trace \in BOOLEAN
       /\ prog.minify \in BOOLEAN

VARIABLES
  program,     \* the input
  table,       \* ModulesTable.id_to_module: module id i is table[i + 1]
  parsed,      \* modules whose mf->ast is set and symbols are resolved
  isCJS,       \* ModuleFile.is_common_js_
  callName,    \* ModuleFile.cjs_call_name, 0 while it is empty
  refMods,     \* ModuleFile.ref_mods
  callees,     \* the names written into p's rewritten require() calls, in order
  queue,       \* the thread pool's task queue
  pc, at, pos, \* per worker: control point, module, next element of deps[at]
  seen,        \* per worker: the counter its call of Next() has read
  names,       \* name_generator's counter: names given by Next("jp_require")
  counter,     \* parsing_group_.counter
  waiter,      \* the thread in parsing_group_.Wait()
  totalFiles,  \* total_files_
  errors,      \* worker_errors_: the modules an error was recorded for
  hasCJS,      \* has_common_js_
  externals,   \* specifiers given to global_import_handler_.HandleImport
  crashed,     \* a null ModuleFile was dereferenced
  result       \* what pBeginFromEntry did: "none" yet, returned "ok", "threw"

fields == <<parsed, isCJS, callName, refMods, callees, hasCJS, seen, names>>
owner  == <<waiter, result>>
vars == <<program, table, parsed, isCJS, callName, refMods, callees, queue, pc, at,
          pos, seen, names, counter, waiter, totalFiles, errors, hasCJS, externals,
          crashed, result>>

Control == {"idle", "start", "parse", "name", "count", "mark", "spawn", "callee", "done", "notify"}

Init ==
  /\ program \in Program
  /\ table = <<>>
  /\ parsed = {}
  /\ isCJS = [p \in Path |-> FALSE]
  /\ callName = [p \in Path |-> 0]
  /\ refMods = [p \in Path |-> <<>>]
  /\ callees = [p \in Path |-> <<>>]
  /\ queue = <<>>
  /\ pc = [w \in Worker |-> "idle"]
  /\ at = [w \in Worker |-> Entry]
  /\ pos = [w \in Worker |-> 1]
  /\ seen = [w \in Worker |-> 0]
  /\ names = 0
  /\ counter = 0
  /\ waiter = "adding"
  /\ totalFiles = 0
  /\ errors = {}
  /\ hasCJS = FALSE
  /\ externals = {}
  /\ crashed = FALSE
  /\ result = "none"

(* A crash ends the process: no thread takes another step. *)
IsAt(w, point) == ~crashed /\ pc[w] = point

Goto(w, from, to) ==
  /\ IsAt(w, from)
  /\ pc' = [pc EXCEPT ![w] = to]

-----------------------------------------------------------------------------
(* The decisions of the code.  A name with a suffix (Drained_OffByOne) is a   *)
(* mutated form of the definition after it, used to see a property fail; no   *)
(* specification uses it.                                                     *)

(* The predicate of parsing_group_.Wait(), and of Done()'s notification. *)
Drained_OffByOne(n) == n <= 1
Drained(n) == n <= 0

(* Where a woken waiter continues: cond.wait is given the predicate. *)
AfterWake_NoPredicate == "returned"
AfterWake == "check"

(* parsing_group_.Add() *)
GroupAdd_Forgotten == UNCHANGED counter
GroupAdd == counter' = counter + 1

(* thread_pool_->enqueue of the task that parses p *)
Enqueue_EntryOnly(p) == queue' = IF p = Entry THEN Append(queue, p) ELSE queue
Enqueue(p) == queue' = Append(queue, p)

(* worker_errors_.add, when parsing at[w] has failed *)
Report_Dropped(w, failed) == UNCHANGED errors
Report(w, failed) == errors' = IF failed THEN errors \union {at[w]} ELSE errors

(* mf->ref_mods.push_back(child) *)
Reference_AtFront(w, child) == refMods' = [refMods EXCEPT ![at[w]] = <<child>> \o @]
Reference(w, child) == refMods' = [refMods EXCEPT ![at[w]] = Append(@, child)]

(* the look-up CreateNewIfNotExists makes under the table's unique_lock *)
Known_Unchecked(p) == FALSE
Known(p) == p \in Range(table)

(* Next() holds used_name_mutex_ from its look-up to its counter++. *)
NextLocks_Never == FALSE
NextLocks == ~program.minify

(* the name Next() makes from the counter it has read *)
NameFrom(n) == n + 1

-----------------------------------------------------------------------------
(* The thread in pBeginFromEntry. *)

(* total_files_++, parsing_group_.Add(), enqueue the entry's task. *)
Begin ==
  /\ waiter = "adding"
  /\ totalFiles = 0
  /\ totalFiles' = 1
  /\ GroupAdd
  /\ Enqueue(Entry)
  /\ UNCHANGED <<program, table, fields, pc, at, pos, owner, errors, externals, crashed>>

(* Only the waiter moves. *)
WaiterStep(from, to) ==
  /\ ~crashed /\ waiter = from
  /\ waiter' = to
  /\ UNCHANGED <<program, table, fields, queue, pc, at, pos, counter, totalFiles,
                 errors, externals, crashed, result>>

WaitBegin == totalFiles > 0 /\ WaiterStep("adding", "check")
WaitCheck == WaiterStep("check", IF Drained(counter) THEN "returned" ELSE "blocking")
WaitBlock == WaiterStep("blocking", "asleep")
WaitSpuriousWake == WaiterStep("asleep", AfterWake)

(* worker_errors_.throw_collection_if_not_empty(), then return. *)
Finish ==
  /\ ~crashed /\ waiter = "returned"
  /\ result = "none"
  /\ result' = IF errors = {} THEN "ok" ELSE "threw"
  /\ UNCHANGED <<program, table, fields, queue, pc, at, pos, counter, waiter,
                 totalFiles, errors, externals, crashed>>

-----------------------------------------------------------------------------
(* A pool worker. *)

TakeTask(w) ==
  /\ queue # <<>>
  /\ Goto(w, "idle", "start")
  /\ at' = [at EXCEPT ![w] = Head(queue)]
  /\ queue' = Tail(queue)
  /\ UNCHANGED <<program, table, fields, pos, counter, owner, totalFiles, errors,
                 externals, crashed>>

(***************************************************************************)
(* The head of ParseFile: GetSource, and a parser positioned at the start. *)
(* The entry's task runs ParseFileFromPath, which creates the entry in the *)
(* table; it is the first path there, so its !isNew return is not taken.   *)
(***************************************************************************)
StartFile(w) ==
  LET p == at[w]
      readable == program.outcome[p] # "noSource"
  IN /\ Goto(w, "start", IF readable THEN "parse" ELSE "done")
     /\ pos' = [pos EXCEPT ![w] = 1]
     /\ table' = IF p = Entry THEN Append(table, p) ELSE table
     /\ Report(w, ~readable)
     /\ UNCHANGED <<program, fields, queue, at, counter, owner, totalFiles, externals,
                    crashed>>

AtEdge(w) == IsAt(w, "parse") /\ pos[w] \in DOMAIN program.deps[at[w]]
Dep(w) == program.deps[at[w]][pos[w]]

(* The control point after HandleNewLocationAdded returned to listener w: the *)
(* require listener goes on to use the returned module, the others are done.  *)
AfterLocation(w) == IF Dep(w).kind = "require" THEN "callee" ELSE "parse"
Advance(w) == pos' = IF Dep(w).kind = "require" THEN pos ELSE [pos EXCEPT ![w] = @ + 1]

(* The import listener hands a bare specifier to the global import handler. *)
ImportExternal(w) ==
  /\ AtEdge(w)
  /\ Dep(w).kind = "import" /\ Dep(w).to \in External
  /\ externals' = externals \union {Dep(w).to}
  /\ pos' = [pos EXCEPT ![w] = @ + 1]
  /\ UNCHANGED <<program, table, fields, queue, pc, at, counter, owner, totalFiles,
                 errors, crashed>>

ToResolve(w) == AtEdge(w) /\ ~(Dep(w).kind = "import" /\ Dep(w).to \in External)

(* HandleNewLocationAdded returns nullptr: tracing is off, or no provider   *)
(* matches the path, which is recorded as an error of the importing module. *)
NotLocated(w) ==
  /\ ToResolve(w)
  /\ ~program.trace \/ Dep(w).to \notin Path
  /\ Report(w, program.trace)
  /\ pc' = [pc EXCEPT ![w] = AfterLocation(w)]
  /\ Advance(w)
  /\ UNCHANGED <<program, table, fields, queue, at, counter, owner, totalFiles,
                 externals, crashed>>

Located(w) == ToResolve(w) /\ program.trace /\ Dep(w).to \in Path

\* Mutated: require() of a known module turns it into a CommonJS module.
LocateExisting_Marks(w) ==
  /\ Located(w)
  /\ Known(Dep(w).to)
  /\ Reference(w, Dep(w).to)
  /\ isCJS' = [isCJS EXCEPT ![Dep(w).to] = @ \/ Dep(w).kind = "require"]
  /\ pc' = [pc EXCEPT ![w] = AfterLocation(w)]
  /\ Advance(w)
  /\ UNCHANGED <<program, table, parsed, callName, callees, hasCJS, seen, names,
                 queue, at, counter, owner, totalFiles, errors, externals, crashed>>

(* CreateNewIfNotExists, under the table's unique_lock, finds the path:     *)
(* the module is referenced and nothing else happens to it.                 *)
LocateExisting(w) ==
  /\ Located(w)
  /\ Known(Dep(w).to)
  /\ Reference(w, Dep(w).to)
  /\ pc' = [pc EXCEPT ![w] = AfterLocation(w)]
  /\ Advance(w)
  /\ UNCHANGED <<program, table, parsed, isCJS, callName, callees, hasCJS, seen, names,
                 queue, at, counter, owner, totalFiles, errors, externals, crashed>>

(* CreateNewIfNotExists makes the module: from here it is visible to every  *)
(* other worker, although its fields are only set in the steps that follow. *)
LocateNew(w) ==
  /\ Located(w)
  /\ ~Known(Dep(w).to)
  /\ table' = Append(table, Dep(w).to)
  /\ pc' = [pc EXCEPT ![w] = IF Dep(w).kind = "require" THEN "name" ELSE "mark"]
  /\ UNCHANGED <<program, fields, queue, at, pos, counter, owner, totalFiles, errors,
                 externals, crashed>>

(* name_generator->Next("jp_require") makes a name from the generator's      *)
(* counter.  ReadableNameGenerator holds a mutex from the look-up to the     *)
(* increment; MinifyNameGenerator increments in a step of its own, with      *)
(* nothing to keep another worker's Next() out.                              *)
NextName(w) ==
  /\ Goto(w, "name", IF NextLocks THEN "mark" ELSE "count")
  /\ seen' = [seen EXCEPT ![w] = names]
  /\ names' = IF NextLocks THEN names + 1 ELSE names
  /\ UNCHANGED <<program, table, parsed, isCJS, callName, refMods, callees, hasCJS,
                 queue, at, pos, counter, owner, totalFiles, errors, externals, crashed>>

CountName(w) ==
  /\ Goto(w, "count", "mark")
  /\ names' = seen[w] + 1
  /\ UNCHANGED <<program, table, parsed, isCJS, callName, refMods, callees, hasCJS,
                 seen, queue, at, pos, counter, owner, totalFiles, errors, externals,
                 crashed>>

(* The new module's fields: provider, SetIsCommonJS, cjs_call_name and      *)
(* has_common_js_; then it is appended to ref_mods.                         *)
MarkNew(w) ==
  LET child == Dep(w).to
      cjs == Dep(w).kind = "require"
  IN /\ Goto(w, "mark", "spawn")
     /\ isCJS' = [isCJS EXCEPT ![child] = @ \/ cjs]
     /\ callName' = [callName EXCEPT ![child] = IF cjs THEN NameFrom(seen[w]) ELSE @]
     /\ hasCJS' = (hasCJS \/ cjs)
     /\ Reference(w, child)
     /\ UNCHANGED <<program, table, parsed, callees, seen, names, queue, at, pos, counter,
                    owner, totalFiles, errors, externals, crashed>>

(* parsing_group_.Add(), total_files_++, enqueue the child's task. *)
Spawn(w) ==
  /\ IsAt(w, "spawn")
  /\ GroupAdd
  /\ totalFiles' = totalFiles + 1
  /\ Enqueue(Dep(w).to)
  /\ pc' = [pc EXCEPT ![w] = AfterLocation(w)]
  /\ Advance(w)
  /\ UNCHANGED <<program, table, fields, at, owner, errors, externals, crashed>>

(* The require listener reads child_mod->cjs_call_name into the new call.   *)
ReadCallee(w) ==
  /\ Goto(w, "callee", "parse")
  /\ program.trace /\ Dep(w).to \in Path
  /\ callees' = [callees EXCEPT ![at[w]] = Append(@, callName[Dep(w).to])]
  /\ pos' = [pos EXCEPT ![w] = @ + 1]
  /\ UNCHANGED <<program, table, parsed, isCJS, callName, refMods, hasCJS, seen, names,
                 queue, at, counter, owner, totalFiles, errors, externals, crashed>>

(* ... and does so without testing child_mod for nullptr. *)
DereferenceNull(w) ==
  /\ IsAt(w, "callee")
  /\ ~program.trace \/ Dep(w).to \notin Path
  /\ crashed' = TRUE
  /\ UNCHANGED <<program, table, fields, queue, pc, at, pos, counter, owner, totalFiles,
                 errors, externals>>

(* ParseModule returns, or throws a ParseError or VariableExistsError that  *)
(* the task's lambda records.                                               *)
EndFile(w) ==
  LET p == at[w]
      ok == program.outcome[p] = "ok"
  IN /\ pos[w] \notin DOMAIN program.deps[p]
     /\ Goto(w, "parse", "done")
     /\ parsed' = IF ok THEN parsed \union {p} ELSE parsed
     /\ Report(w, ~ok)
     /\ UNCHANGED <<program, table, isCJS, callName, refMods, callees, hasCJS, seen,
                    names, queue, at, pos, counter, owner, totalFiles, externals, crashed>>

(* parsing_group_.Done(): the decrement ... *)
TaskDone(w) ==
  /\ Goto(w, "done", IF Drained(counter - 1) THEN "notify" ELSE "idle")
  /\ counter' = counter - 1
  /\ UNCHANGED <<program, table, fields, queue, at, pos, owner, totalFiles, errors,
                 externals, crashed>>

(* ... and the notification, which takes no mutex. *)
TaskNotify(w) ==
  /\ Goto(w, "notify", "idle")
  /\ waiter' = IF waiter = "asleep" THEN "check" ELSE waiter
  /\ UNCHANGED <<program, table, fields, queue, at, pos, counter, totalFiles, errors,
                 externals, crashed, result>>

-----------------------------------------------------------------------------
Main == Begin \/ WaitBegin \/ WaitCheck \/ WaitBlock \/ WaitSpuriousWake \/ Finish

Work(w) ==
  \/ TakeTask(w) \/ StartFile(w) \/ ImportExternal(w) \/ NotLocated(w)
  \/ LocateExisting(w) \/ LocateNew(w) \/ NextName(w) \/ CountName(w) \/ MarkNew(w) \/ Spawn(w)
  \/ ReadCallee(w) \/ DereferenceNull(w) \/ EndFile(w) \/ TaskDone(w) \/ TaskNotify(w)

Next == Main \/ \E w \in Worker : Work(w)

Spec == Init /\ [][Next]_vars

(* Pool threads run until the pool is destroyed, which the parsing stage does *)
(* not do, and the thread that waits is scheduled.                            *)
Fairness ==
  /\ \A w \in Worker : WF_vars(Work(w))
  /\ WF_vars(Begin \/ WaitBegin \/ WaitCheck \/ WaitBlock \/ Finish)

FairSpec == Spec /\ Fairness

-----------------------------------------------------------------------------
(* The fields of ModuleResolver, its modules and its worker threads: every    *)
(* path in the table, a queue or a list of references is one of a module.    *)
TypeOK ==
  /\ program \in Program
  /\ table \in Seq(Path)
  /\ parsed \subseteq Path
  /\ isCJS \in [Path -> BOOLEAN]
  /\ callName \in [Path -> Nat]
  /\ refMods \in [Path -> Seq(Path)]
  /\ callees \in [Path -> Seq(Nat)]
  /\ queue \in Seq(Path)
  /\ pc \in [Worker -> Control]
  /\ at \in [Worker -> Path]
  /\ pos \in [Worker -> Nat \ {0}]
  /\ seen \in [Worker -> Nat]
  /\ names \in Nat
  /\ counter \in Nat
  /\ waiter \in {"adding", "check", "blocking", "asleep", "returned"}
  /\ totalFiles \in Nat
  /\ errors \subseteq Path
  /\ hasCJS \in BOOLEAN
  /\ externals \subseteq External
  /\ crashed \in BOOLEAN
  /\ result \in {"none", "ok", "threw"}

(* Workers whose task is counted: popped from the queue, not yet Done(). *)
Busy == {w \in Worker : pc[w] \notin {"idle", "notify"}}

(* parsing_group_ counts exactly the tasks that are queued or being run, so   *)
(* it cannot reach zero while a worker is still discovering modules.          *)
CountsOutstandingTasks == counter = Len(queue) + Cardinality(Busy)

(* When Wait() returns, the stage is over for good: nothing is queued or      *)
(* running, and every module in the table has either been parsed or has an    *)
(* error that will be thrown.  The later stages dereference mf->ast of every  *)
(* module and read Modules() without its lock on the strength of this.        *)
ReturnSeesEverything ==
  waiter = "returned" =>
    /\ queue = <<>> /\ Busy = {}
    /\ Range(table) \subseteq parsed \union errors

(* A normal return of pBeginFromEntry leaves no module without an ast.        *)
OkMeansAllParsed == result = "ok" => Range(table) = parsed

(* The modules table gives each path one id, and each path one task: no       *)
(* module is parsed twice, even when two workers discover it together.        *)
Distinct(s) == \A i, j \in DOMAIN s : s[i] = s[j] => i = j
EachModuleParsedOnce ==
  /\ Distinct(table) /\ Distinct(queue)
  /\ \A w \in Busy : at[w] \notin Range(queue) \union (IF pc[w] = "done" THEN {} ELSE parsed)
  /\ \A v, w \in Busy : at[v] = at[w] => v = w
  /\ Range(queue) \intersect parsed = {}

(* The modules a program reaches: the least set that holds the entry and is   *)
(* closed under the located dependencies of readable modules.                 *)
Locates(p) ==
  IF program.trace /\ program.outcome[p] # "noSource"
  THEN {program.deps[p][i].to : i \in DOMAIN program.deps[p]} \intersect Path
  ELSE {}
Closed(S) == Entry \in S /\ \A p \in S : Locates(p) \subseteq S
Reachable == {p \in Path : \A S \in SUBSET Path : Closed(S) => p \in S}

(* Whatever the schedule, the stage discovers exactly the reachable modules   *)
(* and their external imports, and reports their number: none is lost when     *)
(* several workers race to it.                                                *)
ExternalImports(p) ==
  IF program.outcome[p] = "noSource" THEN {}
  ELSE {e.to : e \in {d \in Range(program.deps[p]) : d.kind = "import"}} \intersect External
DiscoversReachable ==
  result # "none" =>
    /\ Range(table) = Reachable
    /\ totalFiles = Len(table)
    /\ externals = UNION {ExternalImports(p) : p \in Reachable}

(* ... and its verdict depends on the program only: it throws exactly when    *)
(* some reachable module cannot be read or parsed or names a missing module,   *)
(* and crashes only on a require() that is not located: the null module is not *)
(* dereferenced for an import or a re-export.                                 *)
Faulty(p) ==
  \/ program.outcome[p] # "ok"
  \/ /\ program.trace
     /\ \E i \in DOMAIN program.deps[p] :
          LET e == program.deps[p][i]
          IN e.to \notin Path /\ ~(e.kind = "import" /\ e.to \in External)
Unlocated(e) == ~program.trace \/ e.to \notin Path
VerdictIsDeterministic ==
  /\ result # "none" => (result = "threw" <=> \E p \in Reachable : Faulty(p))
  /\ crashed => \E p \in Reachable : \E e \in Range(program.deps[p]) :
                  e.kind = "require" /\ Unlocated(e)

(* What the stage finds and what it reports are the program's, not the        *)
(* schedule's.                                                                *)
OutcomeIsDeterministic == DiscoversReachable /\ VerdictIsDeterministic

(* ref_mods lists a parsed module's located dependencies in source order,     *)
(* whichever worker won the race to create each of them: the order modules    *)
(* are renamed and concatenated in later comes from it alone.                 *)
Before(I, i) == Cardinality({j \in I : j < i})
LocatedIn(p) ==
  IF program.trace THEN {i \in DOMAIN program.deps[p] : program.deps[p][i].to \in Path} ELSE {}
Lists(s, p, I) ==
  /\ Len(s) = Cardinality(I)
  /\ \A i \in I : s[Before(I, i) + 1] = program.deps[p][i].to
RefModsInSourceOrder == \A p \in parsed : Lists(refMods[p], p, LocatedIn(p))

(* A parsed module's require() calls name CommonJS modules by the call name   *)
(* those modules will be declared under.                                      *)
RequiresIn(p) == {i \in DOMAIN program.deps[p] : program.deps[p][i].kind = "require"}
Calls(s, p, I) ==
  /\ Len(s) = Cardinality(I)
  /\ \A i \in I : LET child == program.deps[p][i].to
                      name == s[Before(I, i) + 1]
                  IN isCJS[child] /\ name = callName[child] /\ name # 0
RequiresAreBound == \A p \in parsed : Calls(callees[p], p, RequiresIn(p))

(* No two CommonJS modules are declared under the same call name.             *)
CallNamesDistinct ==
  \A p, q \in Path : callName[p] = callName[q] /\ callName[p] # 0 => p = q

(* Each module a require() finds is found in no other place, and is not the  *)
(* entry.                                                                    *)
RequiredOnce(prog) ==
  \A p \in Path : \A i \in DOMAIN prog.deps[p] :
    prog.deps[p][i].kind = "require" /\ prog.deps[p][i].to \in Path =>
      /\ prog.deps[p][i].to # Entry
      /\ \A q \in Path : \A j \in DOMAIN prog.deps[q] :
           prog.deps[q][j].to = prog.deps[p][i].to => q = p /\ j = i

(* A require() call and the declaration it means agree on a name, where each   *)
(* module is required from one place; and no two modules share a name that     *)
(* the generator with a lock gave.                                             *)
CallNamesAgree ==
  /\ RequiredOnce(program) => RequiresAreBound
  /\ ~program.minify => CallNamesDistinct

(* What a module's own parser was told of it does not change under its feet:  *)
(* is_common_js_ and cjs_call_name are final before its task is enqueued.     *)
FlagsFixedOnceQueued ==
  [][\A p \in Path : p \in Range(queue) \union {at[w] : w \in Busy} \union parsed
       => isCJS'[p] = isCJS[p] /\ callName'[p] = callName[p]]_vars

(* Every module that is discovered is parsed or has its error recorded: no    *)
(* cycle of imports and no shortage of workers leaves a task behind.          *)
ModulesSettle ==
  \A p \in Path : p \in Range(table) ~> (p \in parsed \union errors \/ crashed)

(* The stage waits on its group as on a latch: tasks join it only while it    *)
(* is closed, and the waiter is let through when all of them have left.       *)
AsLatch == INSTANCE Latch WITH
             Task <- Path,
             pending <- Range(queue) \union {at[w] : w \in Busy},
             open <- (waiter = "returned")
ImplementsLatch == AsLatch!Spec

==============================================================================
