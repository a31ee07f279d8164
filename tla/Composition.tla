------------------------------ MODULE Composition ------------------------------
(***************************************************************************)
(* ModuleResolver::DumpAllResult: pool threads generate one fragment of    *)
(* code per module; the main thread joins them, appends the fragments to   *)
(* the bundle and, for each, hands the fragment's mapping items to the one *)
(* thread of ModuleCompositor, which shifts them to where the fragment     *)
(* went; at the end that thread writes the source map (BundleMap).         *)
(*                                                                         *)
(* The code of a module is the sequence of writes its traversal makes:     *)
(* "text" (Write of a string), "node" (Write of a string with the node it  *)
(* comes from), "eol" (WriteLineEnd) and "raw", the Write of a string with *)
(* a line feed in it: what separates the properties of an object literal,  *)
(* the text of a comment or of a template, the rest of a string literal    *)
(* that goes on on another line.  Every write is one column wide.          *)
(***************************************************************************)
EXTENDS Integers, Sequences, SequencesExt, FiniteSets

CONSTANTS
  Worker,      \* threads of ModuleResolver::thread_pool_
  Module,
  NodeName,    \* what "node" writes
  Plain,       \* what "text" writes
  NL,          \* the line feed of a line end
  Inner,       \* a line feed inside a string that is written
  Origin,      \* where the nodes come from: file, line and column
  Program      \* the inputs to explore

Op == [kind : {"text", "raw", "eol"}] \union [kind : {"node"}, name : NodeName]
None == "none"

ASSUME CompositionAssumption ==
  /\ IsFiniteSet(Worker) /\ None \notin Module
  /\ Origin \in [NodeName -> [fileId : Int, line : Nat \ {0}, column : Nat]]
  /\ {Plain, NL, Inner} \intersect NodeName = {}
  /\ Plain # NL /\ Inner # NL /\ Inner # Plain
  /\ \A p \in Program :
       /\ p.order \in Seq(Module) /\ IsInjective(p.order)
       /\ p.code \in [Module -> Seq(Op)]
       /\ p.imports \in Seq(Op) /\ p.exports \in Seq(Op)
       /\ p.cjs \subseteq Module
       /\ p.minify \in BOOLEAN /\ p.sourcemap \in BOOLEAN /\ p.opens \in BOOLEAN

VARIABLES
  program,     \* the modules' code, in the order ConcatModules gives them
  fragment,    \* codegen_fragment of every module
  wrapped,     \* modules whose ast has been wrapped for CommonJS
  queue,       \* the codegen tasks that wait for a pool thread
  at, pos,     \* per pool thread: its module (None: idle), the next write
  counter,     \* WaitGroup group
  main,        \* the main thread's control point
  nth,         \* ConcatModules: the next module of the order
  output,      \* the characters of the bundle
  line, column,\* line_ and column_ of the compositor
  tasks,       \* the queue of the compositor's pool
  running,     \* tasks its threads have taken
  items,       \* mapping_items_
  alive,       \* mapping_items_ has not been destroyed
  mapFile,     \* the sections of the map written so far
  mapped       \* the items Finalize wrote

codegen == <<fragment, queue, at, pos, counter>>
cursor  == <<output, line, column>>
mapper  == <<running, items, mapFile, mapped>>
vars == <<program, fragment, wrapped, queue, at, pos, counter, main, nth, output, line,
          column, tasks, running, items, alive, mapFile, mapped>>

Position == [origin : Range(Origin), line : Nat \ {0}, column : Nat]
Character == NodeName \union {Plain, NL, Inner}
Fragment == [text : Seq(Character), line : Nat \ {0}, column : Nat,
             dist : Nat \ {0}, items : Seq(Position), wrapped : BOOLEAN]

Blank == [text |-> <<>>, line |-> 1, column |-> 0, dist |-> 1, items |-> <<>>,
          wrapped |-> FALSE]

Init ==
  /\ program \in Program
  /\ fragment = [m \in Module |-> Blank]
  /\ wrapped = {}
  /\ queue = <<>>
  /\ at = [w \in Worker |-> None]
  /\ pos = [w \in Worker |-> 1]
  /\ counter = 0
  /\ main = "open"
  /\ nth = 1
  /\ output = <<>>
  /\ line = 1 /\ column = 0
  /\ tasks = <<>>
  /\ running = {}
  /\ items = <<>>
  /\ alive = TRUE
  /\ mapFile = <<>>
  /\ mapped = <<>>

-----------------------------------------------------------------------------
(* A definition with a suffix is a mutated form of the one after it.        *)

(* After the tasks are enqueued the main thread drops the pool, which joins *)
(* its threads.                                                             *)
AfterEnqueue_Concat == "concat"
AfterEnqueue == "join"

(* group.Add(modules.size()) *)
GroupSize_Default == 1
GroupSize_PlusOne == Len(program.order) + 1
GroupSize == Len(program.order)

(* ModuleCompositor's thread_pool_(1) *)
Threads == 1

(* src_fut.get() before the function returns *)
Awaited_Never == TRUE
Awaited == program.sourcemap => "mappings" \in Range(mapFile)

(* A mapping item of a fragment appended at line l and column c. *)
Shifted_EveryLine(item, l, c) == [item EXCEPT !.column = @ + c, !.line = @ + l - 1]
Shifted(item, l, c) ==
  [item EXCEPT !.column = IF item.line = 1 THEN @ + c ELSE @, !.line = @ + l - 1]

(* The column after a fragment was appended at column c. *)
ColumnAfter_Added(f, c) == c + f.column
ColumnAfter(f, c) == IF f.line > 1 THEN f.column ELSE c + f.column

(* CodeGen::Write and WriteLineEnd: one more write on a fragment.  Only a   *)
(* line end counts as a line of the fragment, a line feed in a string does  *)
(* not; and the mapping collector counts a line end whether or not its line *)
(* feed is written.                                                         *)
Written(prog, f, op) ==
  CASE op.kind = "text" -> [f EXCEPT !.text = Append(@, Plain), !.column = @ + 1]
    [] op.kind = "raw" -> [f EXCEPT !.text = Append(@, Inner), !.column = @ + 1]
    [] op.kind = "node" ->
         [f EXCEPT !.text = Append(@, op.name), !.column = @ + 1,
                   !.items = IF ~prog.sourcemap THEN @
                             ELSE Append(@, [origin |-> Origin[op.name], line |-> f.dist,
                                             column |-> f.column])]
    [] op.kind = "eol" ->
         LET g == [f EXCEPT !.dist = IF prog.sourcemap THEN @ + 1 ELSE @]
         IN IF prog.minify THEN g
            ELSE [g EXCEPT !.text = Append(@, NL), !.line = @ + 1, !.column = 0]

(* The fragment after each number of writes, and after all of them.         *)
Fragments(prog, code) ==
  LET after[n \in 0 .. Len(code)] ==
        IF n = 0 THEN Blank ELSE Written(prog, after[n - 1], code[n])
  IN after
Generated(prog, code) == Fragments(prog, code)[Len(code)]

-----------------------------------------------------------------------------
(* The main thread. *)

MainStep(from, to) == main = from /\ main' = to

(* Dir::EnsureParent, or one of the writers, fails: the function returns.    *)
(* When it is the bundle's writer, the map has its header already.           *)
OpenFails ==
  /\ ~program.opens
  /\ MainStep("open", "returned")
  /\ mapFile' \in {<<>>, <<"header">>}
  /\ UNCHANGED <<program, codegen, wrapped, nth, cursor, tasks, running, items, alive,
                 mapped>>

(* Both files are open; the source map's constructor writes its header, and *)
(* DumpSources is enqueued on the compositor's pool.                        *)
Open ==
  /\ program.opens
  /\ MainStep("open", "imports")
  /\ mapFile' = <<"header">>
  /\ tasks' = <<[kind |-> "sources"]>>
  /\ UNCHANGED <<program, codegen, wrapped, nth, cursor, running, items, alive, mapped>>

(* ModuleCompositor::Append.  The items and the place they go to are copied *)
(* into the task.                                                           *)
AppendFragment(f) ==
  /\ tasks' = Append(tasks, [kind |-> "items", items |-> f.items,
                             line |-> line, column |-> column])
  /\ output' = output \o f.text
  /\ line' = line + f.line - 1
  /\ column' = ColumnAfter(f, column)

CodeGenGlobalImport ==
  /\ MainStep("imports", "snippet")
  /\ AppendFragment(Generated(program, program.imports))
  /\ UNCHANGED <<program, codegen, wrapped, nth, mapper, alive>>

(* AddSnippet(COMMON_JS_CODE): two of its lines stand for all of them.       *)
AddSnippet ==
  /\ MainStep("snippet", "enqueue")
  /\ IF program.cjs = {} THEN UNCHANGED cursor
     ELSE IF program.minify
     THEN /\ output' = output \o <<Plain, Plain>>
          /\ column' = column + 2
          /\ UNCHANGED line
     ELSE /\ output' = output \o <<Plain, NL, Plain, NL>>
          /\ line' = line + 2
          /\ column' = 0
  /\ UNCHANGED <<program, codegen, wrapped, nth, tasks, mapper, alive>>

EnqueueCodegen ==
  /\ MainStep("enqueue", AfterEnqueue)
  /\ counter' = counter + GroupSize
  /\ queue' = program.order
  /\ UNCHANGED <<program, fragment, wrapped, at, pos, nth, cursor, tasks, mapper, alive>>

(* thread_pool_ = nullptr: the destructor lets the threads empty the queue. *)
JoinPool ==
  /\ MainStep("join", "wait")
  /\ queue = <<>> /\ \A w \in Worker : at[w] = None
  /\ UNCHANGED <<program, codegen, wrapped, nth, cursor, tasks, mapper, alive>>

GroupWait ==
  /\ MainStep("wait", "concat")
  /\ counter <= 0
  /\ UNCHANGED <<program, codegen, wrapped, nth, cursor, tasks, mapper, alive>>

(* The second loop of ConcatModules: a CommonJS module's ast is wrapped and *)
(* the fragment that was generated before is appended.                      *)
ConcatModule ==
  /\ main = "concat" /\ nth \in DOMAIN program.order
  /\ nth' = nth + 1
  /\ wrapped' = wrapped \union ({program.order[nth]} \intersect program.cjs)
  /\ AppendFragment(fragment[program.order[nth]])
  /\ UNCHANGED <<program, codegen, main, mapper, alive>>

CodeGenFinalExport ==
  /\ nth \notin DOMAIN program.order
  /\ MainStep("concat", "map")
  /\ IF program.exports = <<>> THEN UNCHANGED <<cursor, tasks>>
     ELSE AppendFragment(Generated(program, program.exports))
  /\ UNCHANGED <<program, codegen, wrapped, nth, mapper, alive>>

DumpSourcemap ==
  /\ MainStep("map", "await")
  /\ tasks' = IF program.sourcemap THEN Append(tasks, [kind |-> "map"]) ELSE tasks
  /\ UNCHANGED <<program, codegen, wrapped, nth, cursor, mapper, alive>>

Await ==
  /\ MainStep("await", "leave")
  /\ Awaited
  /\ UNCHANGED <<program, codegen, wrapped, nth, cursor, tasks, mapper, alive>>

(* ~ModuleCompositor: its members go in reverse order, mapping_items_ first. *)
DestroyItems ==
  /\ MainStep("leave", "joinCompositor")
  /\ alive' = FALSE
  /\ UNCHANGED <<program, codegen, wrapped, nth, cursor, tasks, mapper>>

(* ... and thread_pool_, which joins, last; then the two files are closed.  *)
JoinCompositor ==
  /\ MainStep("joinCompositor", "returned")
  /\ tasks = <<>> /\ running = {}
  /\ UNCHANGED <<program, codegen, wrapped, nth, cursor, tasks, mapper, alive>>

-----------------------------------------------------------------------------
(* A thread of the resolver's pool. *)

TakeCodegen(w) ==
  /\ at[w] = None /\ queue # <<>>
  /\ queue' = Tail(queue)
  /\ at' = [at EXCEPT ![w] = Head(queue)]
  /\ pos' = [pos EXCEPT ![w] = 1]
  /\ fragment' = [fragment EXCEPT ![Head(queue)].wrapped = Head(queue) \in wrapped]
  /\ UNCHANGED <<program, wrapped, counter, main, nth, cursor, tasks, mapper, alive>>

WriteOp(w) ==
  LET m == at[w]
  IN /\ m # None /\ pos[w] \in DOMAIN program.code[m]
     /\ fragment' = [fragment EXCEPT ![m] = Written(program, @, program.code[m][pos[w]])]
     /\ pos' = [pos EXCEPT ![w] = @ + 1]
     /\ UNCHANGED <<program, wrapped, queue, at, counter, main, nth, cursor, tasks,
                    mapper, alive>>

GroupDone(w) ==
  /\ at[w] # None /\ pos[w] \notin DOMAIN program.code[at[w]]
  /\ counter' = counter - 1
  /\ at' = [at EXCEPT ![w] = None]
  /\ UNCHANGED <<program, wrapped, fragment, queue, pos, main, nth, cursor, tasks,
                 mapper, alive>>

(* The compositor's thread. *)

TakeTask ==
  /\ tasks # <<>> /\ Cardinality(running) < Threads
  /\ running' = running \union {Head(tasks)}
  /\ tasks' = Tail(tasks)
  /\ UNCHANGED <<program, codegen, wrapped, main, nth, cursor, items, alive, mapFile, mapped>>

(* SourceMapGenerator::WriteSources *)
WriteSources ==
  \E t \in running :
    /\ t.kind = "sources"
    /\ mapFile' = Append(mapFile, "sources")
    /\ running' = running \ {t}
    /\ UNCHANGED <<program, codegen, wrapped, main, nth, cursor, tasks, items, alive,
                   mapped>>

(* The lambda of ModuleCompositor::Append. *)
PushItems ==
  \E t \in running :
    /\ t.kind = "items"
    /\ items' = items \o [i \in DOMAIN t.items |-> Shifted(t.items[i], t.line, t.column)]
    /\ running' = running \ {t}
    /\ UNCHANGED <<program, codegen, wrapped, main, nth, cursor, tasks, alive, mapFile,
                   mapped>>

(* SourceMapGenerator::Finalize *)
Finalize ==
  \E t \in running :
    /\ t.kind = "map"
    /\ mapFile' = Append(mapFile, "mappings")
    /\ mapped' = items
    /\ running' = running \ {t}
    /\ UNCHANGED <<program, codegen, wrapped, main, nth, cursor, tasks, items, alive>>

-----------------------------------------------------------------------------
Main ==
  \/ OpenFails \/ Open \/ CodeGenGlobalImport \/ AddSnippet \/ EnqueueCodegen
  \/ JoinPool \/ GroupWait \/ ConcatModule \/ CodeGenFinalExport \/ DumpSourcemap
  \/ Await \/ DestroyItems \/ JoinCompositor

Generate(w) == TakeCodegen(w) \/ WriteOp(w) \/ GroupDone(w)

Compose == TakeTask \/ WriteSources \/ PushItems \/ Finalize

Next == Main \/ Compose \/ \E w \in Worker : Generate(w)

Spec == Init /\ [][Next]_vars

(* Every thread runs while it has something to do. *)
FairSpec ==
  /\ Spec
  /\ WF_vars(Main) /\ WF_vars(Compose) /\ \A w \in Worker : WF_vars(Generate(w))

-----------------------------------------------------------------------------
Task ==
  [kind : {"sources", "map"}]
    \union [kind : {"items"}, items : Seq(Position), line : Nat \ {0}, column : Nat]

Point == {"open", "imports", "snippet", "enqueue", "join", "wait", "concat", "map", "await",
          "leave", "joinCompositor", "returned"}

(* The fields that the threads of the output stage share, and the locals of   *)
(* each: a worker holds a module or none, the queue has modules, the output   *)
(* what modules generate, and lines are counted from 1.                      *)
TypeOK ==
  /\ program \in Program
  /\ main \in Point
  /\ fragment \in [Module -> Fragment]
  /\ wrapped \subseteq Module
  /\ queue \in Seq(Module)
  /\ at \in [Worker -> Module \union {None}]
  /\ pos \in [Worker -> Nat]
  /\ counter \in Nat
  /\ nth \in Nat
  /\ output \in Seq(Character)
  /\ line \in Nat \ {0} /\ column \in Nat
  /\ tasks \in Seq(Task) /\ running \subseteq Task
  /\ items \in Seq(Position)
  /\ alive \in BOOLEAN
  /\ mapFile \in Seq({"header", "sources", "mappings"})
  /\ mapped \in Seq(Position)

(* The fragment the main thread appends is the whole code of its module: all  *)
(* pool threads are through with it.                                          *)
CompleteWhenRead ==
  main = "concat" =>
    \A m \in Range(program.order) :
      LET whole == Generated(program, program.code[m])
      IN fragment[m].text = whole.text /\ fragment[m].items = whole.items

(* The map file's sections come from two threads, in the order a source map   *)
(* is read in, and with --sourcemap it is whole when the function leaves.      *)
MapFileWellFormed ==
  LET whole == <<"header", "sources", "mappings">>
  IN /\ IsPrefix(mapFile, whole)
     /\ program.opens /\ program.sourcemap /\ main \in {"leave", "joinCompositor", "returned"}
          => mapFile = whole

(* No task of the compositor's thread uses mapping_items_ once it is gone:    *)
(* the member is destroyed before the pool that holds the tasks is joined.     *)
NoUseAfterFree ==
  ~alive => \A t \in running \union Range(tasks) :
              t.kind = "sources" \/ (t.kind = "items" /\ t.items = <<>>)

(* A CommonJS module is in the bundle as the __commonJS call that the          *)
(* require() calls of other modules refer to.                                  *)
CommonJSWrapped ==
  main = "returned" /\ program.opens =>
    \A m \in Range(program.order) \intersect program.cjs : fragment[m].wrapped

(* DumpAllResult returns.                                                      *)
Returns == <>(main = "returned")

==============================================================================
