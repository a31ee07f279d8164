--------------------------- MODULE Composition_proof ---------------------------
(***************************************************************************)
(* Proofs about the output stage for any modules, code and number of pool  *)
(* threads.  Two things run side by side.  On the one side the pool writes *)
(* the fragments: a fragment holds as many writes of its module's code as  *)
(* its thread has made, so that it is whole once the pool has been joined. *)
(* On the other side the compositor's one thread works through what the    *)
(* main thread hands it, in that order, which fixes the order of the map's *)
(* sections and what is left when mapping_items_ is destroyed.  The bundle  *)
(* is where they meet: what that thread has collected, and will have when  *)
(* it has done what waits, are the places of the names of the bundle so    *)
(* far, so that the map it writes at the end describes the bundle.         *)
(***************************************************************************)
EXTENDS BundleMap, SourceMap_proof

-----------------------------------------------------------------------------
(* Fragments is a recursive function.  What follows shows that it exists    *)
(* and is what its definition says, by least counterexample.                *)

(* What the assumption says of the parts of a program. *)
LEMMA ProgramParts ==
  ASSUME NEW prog \in Program
  PROVE  /\ prog.order \in Seq(Module) /\ IsInjective(prog.order)
         /\ prog.code \in [Module -> Seq(Op)]
         /\ prog.imports \in Seq(Op) /\ prog.exports \in Seq(Op)
         /\ prog.cjs \subseteq Module
         /\ prog.minify \in BOOLEAN /\ prog.sourcemap \in BOOLEAN /\ prog.opens \in BOOLEAN
  BY CompositionAssumption

(* A fragment without writes. *)
LEMMA BlankTyped == Blank \in Fragment
  BY DEF Blank, Fragment

(* A write makes a fragment of a fragment, which is not wrapped for it, and   *)
(* without --sourcemap it collects no mapping.                                *)
LEMMA WrittenTyped ==
  ASSUME NEW prog \in Program, NEW f \in Fragment, NEW op \in Op
  PROVE  /\ Written(prog, f, op) \in Fragment
         /\ Written(prog, f, op).wrapped = f.wrapped
         /\ ~ prog.sourcemap => Written(prog, f, op).items = f.items
<1> DEFINE Made(t, l, c, d, is) == [text |-> t, line |-> l, column |-> c, dist |-> d,
                                    items |-> is, wrapped |-> f.wrapped]
           Text == Seq(Character)
           Items == Seq(Position)
           w == Written(prog, f, op)
<1>1. f = Made(f.text, f.line, f.column, f.dist, f.items)
  BY DEF Fragment
<1>2. /\ f.text \in Text /\ f.line \in Nat \ {0} /\ f.column \in Nat
      /\ f.dist \in Nat \ {0} /\ f.items \in Items /\ f.wrapped \in BOOLEAN
  BY DEF Fragment
<1>3. \A t \in Text, l \in Nat \ {0}, c \in Nat, d \in Nat \ {0}, is \in Items :
        w = Made(t, l, c, d, is) =>
          w \in Fragment /\ w.wrapped = f.wrapped /\ w.items = is
  <2> TAKE t \in Text, l \in Nat \ {0}, c \in Nat, d \in Nat \ {0}, is \in Items
  <2>1. Fragment = [text : Text, line : Nat \ {0}, column : Nat, dist : Nat \ {0},
                    items : Items, wrapped : BOOLEAN]
    BY DEF Fragment
  <2> HIDE DEF Text, Items, w
  <2> QED
    BY <1>2, <2>1
<1>4. \A x \in Character : Append(f.text, x) \in Text
  BY <1>2
<1>5. {Plain, NL, Inner} \union NodeName \subseteq Character
  BY DEF Character
<1>6. f.column + 1 \in Nat /\ f.line + 1 \in Nat \ {0} /\ f.dist + 1 \in Nat \ {0}
  BY <1>2
<1>7. CASE op.kind = "text"
  <2>1. w = Made(Append(f.text, Plain), f.line, f.column + 1, f.dist, f.items)
    BY <1>1, <1>7 DEF Written
  <2>2. Append(f.text, Plain) \in Text
    BY <1>4, <1>5
  <2> HIDE DEF Text, Items, w, Made
  <2>3. w \in Fragment /\ w.wrapped = f.wrapped /\ w.items = f.items
    BY <1>2, <1>3, <1>6, <2>1, <2>2
  <2> QED
    BY <2>3 DEF w
<1>8. CASE op.kind = "raw"
  <2>1. w = Made(Append(f.text, Inner), f.line, f.column + 1, f.dist, f.items)
    BY <1>1, <1>8 DEF Written
  <2>2. Append(f.text, Inner) \in Text
    BY <1>4, <1>5
  <2> HIDE DEF Text, Items, w, Made
  <2>3. w \in Fragment /\ w.wrapped = f.wrapped /\ w.items = f.items
    BY <1>2, <1>3, <1>6, <2>1, <2>2
  <2> QED
    BY <2>3 DEF w
<1>9. CASE op.kind = "node"
  <2> DEFINE item == [origin |-> Origin[op.name], line |-> f.dist, column |-> f.column]
             is == IF ~ prog.sourcemap THEN f.items ELSE Append(f.items, item)
  <2>1. op.name \in NodeName
    BY <1>9 DEF Op
  <2>2. item \in Position
    BY <1>2, <2>1, CompositionAssumption DEF Position, Range
  <2>3. is \in Items
    BY <1>2, <2>2
  <2>4. w = Made(Append(f.text, op.name), f.line, f.column + 1, f.dist, is)
    BY <1>1, <1>9 DEF Written
  <2>5. Append(f.text, op.name) \in Text
    BY <1>4, <1>5, <2>1
  <2>6. ~ prog.sourcemap => is = f.items
    OBVIOUS
  <2> HIDE DEF item, is, Text, Items, w, Made
  <2>7. w \in Fragment /\ w.wrapped = f.wrapped /\ w.items = is
    BY <1>2, <1>3, <1>6, <2>3, <2>4, <2>5
  <2> QED
    BY <2>6, <2>7 DEF w
<1>10. CASE op.kind = "eol"
  <2> DEFINE d == IF prog.sourcemap THEN f.dist + 1 ELSE f.dist
  <2>1. CASE prog.minify
    <3>1. w = Made(f.text, f.line, f.column, d, f.items)
      BY <1>1, <1>10, <2>1 DEF Written
    <3>2. d \in Nat \ {0}
      BY <1>2
    <3> HIDE DEF d, Text, Items, w, Made
    <3>3. w \in Fragment /\ w.wrapped = f.wrapped /\ w.items = f.items
      BY <1>2, <1>3, <3>1, <3>2
    <3> QED
      BY <3>3 DEF w
  <2>2. CASE ~ prog.minify
    <3>1. w = Made(Append(f.text, NL), f.line + 1, 0, d, f.items)
      BY <1>1, <1>10, <2>2 DEF Written
    <3>2. d \in Nat \ {0} /\ Append(f.text, NL) \in Text
      BY <1>2, <1>4, <1>5
    <3> HIDE DEF d, Text, Items, w, Made
    <3>3. w \in Fragment /\ w.wrapped = f.wrapped /\ w.items = f.items
      BY <1>2, <1>3, <1>6, <3>1, <3>2
    <3> QED
      BY <3>3 DEF w
  <2> QED
    BY <2>1, <2>2
<1> QED
  BY <1>7, <1>8, <1>9, <1>10 DEF Op

(* There are stages of a fragment, each one write further than the last.     *)
LEMMA StagesExist ==
  ASSUME NEW prog \in Program, NEW code \in Seq(Op)
  PROVE  \E g \in [0 .. Len(code) -> Fragment] :
           /\ g[0] = Blank
           /\ \A i \in 1 .. Len(code) : g[i] = Written(prog, g[i - 1], code[i])
<1> DEFINE Made(k) == \E g \in [0 .. k -> Fragment] :
                         /\ g[0] = Blank
                         /\ \A i \in 1 .. k : g[i] = Written(prog, g[i - 1], code[i])
           T == {k \in 0 .. Len(code) : ~ Made(k)}
<1>1. Made(0)
  <2> DEFINE h == [i \in 0 .. 0 |-> Blank]
  <2>1. h \in [0 .. 0 -> Fragment] /\ h[0] = Blank
    BY BlankTyped
  <2>2. 1 .. 0 = {}
    OBVIOUS
  <2> HIDE DEF h
  <2> QED
    BY <2>1, <2>2
<1>2. ASSUME NEW k \in 1 .. Len(code), Made(k - 1) PROVE Made(k)
  <2>1. PICK g \in [0 .. k - 1 -> Fragment] :
             /\ g[0] = Blank
             /\ \A i \in 1 .. k - 1 : g[i] = Written(prog, g[i - 1], code[i])
    BY <1>2
  <2> DEFINE last == Written(prog, g[k - 1], code[k])
             h == [i \in 0 .. k |-> IF i = k THEN last ELSE g[i]]
  <2>2. last \in Fragment
    BY WrittenTyped
  <2>3. h \in [0 .. k -> Fragment]
    BY <2>2
  <2>4. h[0] = Blank
    BY <2>1
  <2>5. \A i \in 1 .. k : h[i] = Written(prog, h[i - 1], code[i])
    <3> TAKE i \in 1 .. k
    <3>1. h[i - 1] = g[i - 1]
      OBVIOUS
    <3>2. CASE i = k
      BY <3>1, <3>2
    <3>3. CASE i # k
      BY <2>1, <3>1, <3>3
    <3> QED
      BY <3>2, <3>3
  <2> QED
    BY <2>3, <2>4, <2>5
<1> HIDE DEF Made
<1>3. T = {}
  <2> SUFFICES ASSUME T # {} PROVE FALSE
    OBVIOUS
  <2>1. T \in SUBSET Nat
    OBVIOUS
  <2>2. PICK x \in T : \A y \in T : x <= y
    <3> HIDE DEF T
    <3> QED
      BY <2>1, LeastNatural
  <2>3. x # 0
    BY <1>1
  <2>4. x - 1 \in 0 .. Len(code) /\ x - 1 \notin T
    BY <2>2, <2>3
  <2> QED
    BY <1>2, <2>3, <2>4
<1>4. Made(Len(code))
  BY <1>3
<1> QED
  BY <1>4 DEF Made

(* Fragments starts from the blank fragment and makes each from the one       *)
(* before it.                                                                 *)
LEMMA FragmentsStep ==
  ASSUME NEW prog \in Program, NEW code \in Seq(Op)
  PROVE  /\ Fragments(prog, code) \in [0 .. Len(code) -> Fragment]
         /\ Fragments(prog, code)[0] = Blank
         /\ \A i \in 1 .. Len(code) :
              Fragments(prog, code)[i]
                = Written(prog, Fragments(prog, code)[i - 1], code[i])
<1> DEFINE Def(g) == [n \in 0 .. Len(code) |->
                        IF n = 0 THEN Blank ELSE Written(prog, g[n - 1], code[n])]
           F == Fragments(prog, code)
<1>1. PICK g \in [0 .. Len(code) -> Fragment] :
           /\ g[0] = Blank
           /\ \A i \in 1 .. Len(code) : g[i] = Written(prog, g[i - 1], code[i])
  BY StagesExist
<1>2. g = Def(g)
  BY <1>1
<1>3. F = CHOOSE h : h = Def(h)
  BY DEF Fragments
<1>4. F = Def(F)
  BY <1>2, <1>3
<1>5. DOMAIN F = 0 .. Len(code)
  BY <1>4
<1>6. F[0] = Blank /\ \A i \in 1 .. Len(code) : F[i] = Written(prog, F[i - 1], code[i])
  BY <1>4
<1> HIDE DEF F
<1> DEFINE T == {k \in 0 .. Len(code) : F[k] # g[k]}
<1>7. T = {}
  <2> SUFFICES ASSUME T # {} PROVE FALSE
    OBVIOUS
  <2>1. T \in SUBSET Nat
    OBVIOUS
  <2>2. PICK x \in T : \A y \in T : x <= y
    <3> HIDE DEF T
    <3> QED
      BY <2>1, LeastNatural
  <2>3. x # 0
    BY <1>1, <1>6
  <2>4. x - 1 \in 0 .. Len(code) /\ x - 1 \notin T
    BY <2>2, <2>3
  <2> QED
    BY <1>1, <1>6, <2>3, <2>4
<1>8. F \in [0 .. Len(code) -> Fragment]
  <2>1. \A k \in 0 .. Len(code) : F[k] \in Fragment
    BY <1>7
  <2>2. F = [k \in 0 .. Len(code) |-> F[k]]
    BY <1>4, <1>5
  <2> QED
    BY <2>1, <2>2
<1> QED
  BY <1>6, <1>8 DEF F
(* No stage of a fragment is wrapped, and none without --sourcemap has items. *)
LEMMA StagesPlain ==
  ASSUME NEW prog \in Program, NEW code \in Seq(Op), NEW k \in 0 .. Len(code)
  PROVE  /\ Fragments(prog, code)[k] \in Fragment
         /\ Fragments(prog, code)[k].wrapped = FALSE
         /\ ~ prog.sourcemap => Fragments(prog, code)[k].items = <<>>
<1> DEFINE F == Fragments(prog, code)
           Plainly(i) == F[i].wrapped = FALSE /\ (~ prog.sourcemap => F[i].items = <<>>)
           T == {i \in 0 .. Len(code) : ~ Plainly(i)}
<1>1. /\ F \in [0 .. Len(code) -> Fragment]
      /\ F[0] = Blank
      /\ \A i \in 1 .. Len(code) : F[i] = Written(prog, F[i - 1], code[i])
  BY FragmentsStep
<1> HIDE DEF F
<1>2. Plainly(0)
  BY <1>1 DEF Blank
<1>3. ASSUME NEW i \in 1 .. Len(code), Plainly(i - 1) PROVE Plainly(i)
  <2>1. F[i - 1] \in Fragment /\ code[i] \in Op /\ F[i] = Written(prog, F[i - 1], code[i])
    BY <1>1
  <2>2. /\ Written(prog, F[i - 1], code[i]).wrapped = F[i - 1].wrapped
        /\ ~ prog.sourcemap =>
             Written(prog, F[i - 1], code[i]).items = F[i - 1].items
    BY <2>1, WrittenTyped
  <2> QED
    BY <1>3, <2>1, <2>2
<1> HIDE DEF Plainly
<1>4. T = {}
  <2> SUFFICES ASSUME T # {} PROVE FALSE
    OBVIOUS
  <2>1. T \in SUBSET Nat
    OBVIOUS
  <2>2. PICK x \in T : \A y \in T : x <= y
    <3> HIDE DEF T
    <3> QED
      BY <2>1, LeastNatural
  <2>3. x # 0
    BY <1>2
  <2>4. x - 1 \in 0 .. Len(code) /\ x - 1 \notin T
    BY <2>2, <2>3
  <2> QED
    BY <1>3, <2>3, <2>4
<1>5. F[k] \in Fragment /\ Plainly(k)
  BY <1>1, <1>4
<1> QED
  BY <1>5 DEF F, Plainly

-----------------------------------------------------------------------------
(* The pool's side.                                                         *)

(* The main thread has enqueued the codegen tasks; it has joined the pool.  *)
Enqueued == program.opens /\ main \notin {"open", "imports", "snippet", "enqueue"}
Joined == Enqueued /\ main # "join"

Busy == {w \in Worker : at[w] # None}

(* The fragment of m holds n writes. *)
Holds(m, n) == fragment[m] = Fragments(program, program.code[m])[n]
Whole(m) == Holds(m, Len(program.code[m]))

(* The group counts the tasks that are queued or with a thread. *)
Counts == counter = IF Enqueued THEN Len(queue) + Cardinality(Busy) ELSE 0

(* Before the tasks are enqueued, and once the pool is joined, nothing is    *)
(* queued and no thread is at work.                                          *)
Quiet == ~ Enqueued \/ Joined => queue = <<>> /\ Busy = {}

(* A module is queued at most once, and is not queued and with a thread, or  *)
(* with two.                                                                 *)
Exclusive ==
  /\ IsInjective(queue)
  /\ Range(queue) \subseteq Range(program.order)
  /\ \A w \in Busy : at[w] \in Range(program.order) /\ at[w] \notin Range(queue)
  /\ \A v, w \in Busy : at[v] = at[w] => v = w

(* A fragment is blank until a thread takes its module, holds what that      *)
(* thread has written while it is at it, and is whole afterwards.            *)
Grows ==
  \A m \in Module :
    /\ ~ Enqueued \/ m \in Range(queue) \/ m \notin Range(program.order) => Holds(m, 0)
    /\ \A w \in Busy : at[w] = m =>
         pos[w] \in 1 .. Len(program.code[m]) + 1 /\ Holds(m, pos[w] - 1)
    /\ Enqueued /\ m \in Range(program.order) /\ m \notin Range(queue)
         /\ (\A w \in Busy : at[w] # m) => Whole(m)

(* Wrapping a module's ast comes after the pool is joined. *)
WrapsLate == (~ Joined => wrapped = {}) /\ (~ program.opens => main \in {"open", "returned"})

PInv == TypeOK /\ Counts /\ Quiet /\ Exclusive /\ Grows /\ WrapsLate

-----------------------------------------------------------------------------
(* The compositor's side.                                                   *)

(* The tasks it has not finished, oldest first: the one it is at, if any, and *)
(* those that wait.                                                          *)
Line(taken, waiting) ==
  IF taken = {} THEN waiting ELSE <<CHOOSE t \in taken : TRUE>> \o waiting
Pending == Line(running, tasks)

OneAtATime == \A s, t \in running : s = t

Closing == {"await", "leave", "joinCompositor", "returned"}

(* The sources are written by the first task, and the mappings by the last,  *)
(* which is enqueued when the main thread has nothing else to hand over.     *)
Sections ==
  /\ mapFile \in {<<>>, <<"header">>, <<"header", "sources">>,
                  <<"header", "sources", "mappings">>}
  /\ main = "open" => mapFile = <<>>
  /\ mapFile = <<>> => ~ program.opens \/ main = "open"
  /\ mapFile = <<>> \/ ~ program.opens => Pending = <<>>
  /\ mapFile = <<"header">> /\ program.opens => Pending # <<>> /\ Pending[1].kind = "sources"
  /\ \A i \in DOMAIN Pending :
       /\ Pending[i].kind = "sources" => i = 1 /\ mapFile = <<"header">>
       /\ Pending[i].kind = "map" => i = Len(Pending) /\ program.sourcemap /\ main \in Closing
  /\ mapFile = <<"header", "sources", "mappings">> => Pending = <<>> /\ main \in Closing

(* With --sourcemap the main thread leaves when the map is written. *)
LeavesLate ==
  /\ ~ alive => program.opens /\ main \in {"joinCompositor", "returned"}
  /\ program.opens /\ program.sourcemap /\ main \in Closing \ {"await"} =>
       mapFile = <<"header", "sources", "mappings">>

(* Without it there is no item to collect. *)
NoItems ==
  ~ program.sourcemap =>
    \A i \in DOMAIN Pending : Pending[i].kind = "items" => Pending[i].items = <<>>

MInv == OneAtATime /\ Sections /\ LeavesLate /\ NoItems

(* Every fragment of the bundle is appended as it was generated, before its   *)
(* module's ast was wrapped: no CommonJS module is in the bundle as a call.    *)
NeverWrapped == \A m \in Module : fragment[m].wrapped = FALSE
-----------------------------------------------------------------------------
(* Busy is finite. *)
LEMMA BusyFinite == IsFiniteSet(Busy) /\ Cardinality(Busy) \in Nat
  BY CompositionAssumption, FS_Subset, FS_CardinalityType DEF Busy

(* Taking the first of a sequence without duplicates. *)
LEMMA TailTakes ==
  ASSUME NEW q \in Seq(Module), q # <<>>, IsInjective(q)
  PROVE  /\ Tail(q) \in Seq(Module) /\ Len(q) = Len(Tail(q)) + 1 /\ IsInjective(Tail(q))
         /\ Head(q) \in Module /\ Head(q) \in Range(q)
         /\ Range(Tail(q)) = Range(q) \ {Head(q)}
<1>1. /\ Len(q) \in Nat \ {0} /\ DOMAIN q = 1 .. Len(q)
      /\ Tail(q) \in Seq(Module) /\ Len(Tail(q)) = Len(q) - 1
      /\ DOMAIN Tail(q) = 1 .. Len(q) - 1
      /\ \A i \in 1 .. Len(q) - 1 : Tail(q)[i] = q[i + 1]
      /\ Head(q) = q[1] /\ q[1] \in Module
  OBVIOUS
<1>2. \A i, j \in 1 .. Len(q) : q[i] = q[j] => i = j
  BY <1>1 DEF IsInjective
<1>3. IsInjective(Tail(q))
  BY <1>1, <1>2 DEF IsInjective
<1>4. Range(Tail(q)) \subseteq Range(q) \ {Head(q)}
  BY <1>1, <1>2 DEF Range
<1>5. ASSUME NEW x \in Range(q), x # Head(q) PROVE x \in Range(Tail(q))
  <2>1. PICK i \in 1 .. Len(q) : q[i] = x
    BY <1>1 DEF Range
  <2>2. i # 1
    BY <1>1, <1>5, <2>1
  <2>3. i - 1 \in 1 .. Len(q) - 1 /\ Tail(q)[i - 1] = x
    BY <1>1, <2>1, <2>2
  <2> QED
    BY <1>1, <2>3 DEF Range
<1>6. Head(q) \in Range(q)
  BY <1>1 DEF Range
<1>7. Range(Tail(q)) = Range(q) \ {Head(q)}
  BY <1>4, <1>5
<1> QED
  BY <1>1, <1>3, <1>6, <1>7

(* What a stage of its code holds when the fragment holds it. *)
LEMMA CodeOf ==
  ASSUME TypeOK, NEW m \in Module
  PROVE  /\ program \in Program /\ program.code[m] \in Seq(Op)
         /\ Len(program.code[m]) \in Nat /\ DOMAIN program.code[m] = 1 .. Len(program.code[m])
         /\ fragment[m] \in Fragment
<1>1. program \in Program /\ fragment \in [Module -> Fragment]
  BY DEF TypeOK
<1>2. program.code \in [Module -> Seq(Op)]
  BY <1>1, ProgramParts
<1> QED
  BY <1>1, <1>2

(* A thread takes the oldest task: nothing is wrapped yet, and the fragment   *)
(* is as it was.                                                              *)
LEMMA TakeKeepsFragment ==
  ASSUME PInv, NEW w \in Worker, TakeCodegen(w)
  PROVE  /\ Enqueued /\ ~ Joined /\ fragment' = fragment
         /\ Head(queue) \in Module /\ Head(queue) \in Range(queue)
<1>1. queue # <<>> /\ queue \in Seq(Module) /\ IsInjective(queue)
  BY DEF TakeCodegen, PInv, TypeOK, Exclusive
<1>2. Enqueued /\ ~ Joined
  BY <1>1 DEF PInv, Quiet
<1>3. wrapped = {}
  BY <1>2 DEF PInv, WrapsLate
<1> DEFINE h == Head(queue)
<1>4. h \in Module /\ h \in Range(queue)
  BY <1>1, TailTakes
<1>5. fragment[h] = Blank
  <2>1. Holds(h, 0)
    BY <1>4 DEF PInv, Grows
  <2> QED
    BY <1>4, <2>1, CodeOf, FragmentsStep DEF Holds, PInv
<1>6. fragment' = [fragment EXCEPT ![h].wrapped = FALSE]
  <2>1. (h \in wrapped) = FALSE
    BY <1>3
  <2>2. fragment' = [fragment EXCEPT ![h].wrapped = h \in wrapped]
    BY DEF TakeCodegen
  <2> QED
    BY <2>1, <2>2, Zenon
<1>7. [fragment[h] EXCEPT !.wrapped = FALSE] = fragment[h]
  <2> DEFINE f == fragment[h]
  <2>1. f \in Fragment /\ f.wrapped = FALSE
    BY <1>4, <1>5, CodeOf DEF Blank, PInv
  <2> HIDE DEF f
  <2>2. f = [text |-> f.text, line |-> f.line, column |-> f.column, dist |-> f.dist,
             items |-> f.items, wrapped |-> f.wrapped]
    BY <2>1 DEF Fragment
  <2>3. [f EXCEPT !.wrapped = FALSE] = f
    BY <2>1, <2>2
  <2> QED
    BY <2>3 DEF f
<1>8. fragment \in [Module -> Fragment]
  BY DEF PInv, TypeOK
<1>9. fragment' = fragment
  BY <1>4, <1>6, <1>7, <1>8
<1> QED
  BY <1>2, <1>4, <1>9

(* A thread's next write makes the next stage of its module's fragment. *)
LEMMA WriteMakesStage ==
  ASSUME PInv, NEW w \in Worker, WriteOp(w)
  PROVE  /\ at[w] \in Module /\ w \in Busy /\ pos[w] \in 1 .. Len(program.code[at[w]])
         /\ fragment' = [fragment EXCEPT ![at[w]] =
                           Fragments(program, program.code[at[w]])[pos[w]]]
         /\ Fragments(program, program.code[at[w]])[pos[w]] \in Fragment
<1> DEFINE m == at[w]
           code == program.code[m]
<1>1. m \in Module /\ w \in Busy
  BY DEF WriteOp, PInv, TypeOK, Busy
<1>2. program \in Program /\ code \in Seq(Op) /\ pos[w] \in 1 .. Len(code)
  BY <1>1, CodeOf DEF WriteOp, PInv
<1>3. Holds(m, pos[w] - 1)
  BY <1>1 DEF PInv, Grows
<1>4. /\ Fragments(program, code)[pos[w]]
           = Written(program, Fragments(program, code)[pos[w] - 1], code[pos[w]])
      /\ Fragments(program, code)[pos[w]] \in Fragment
  BY <1>2, FragmentsStep
<1>5. fragment' = [fragment EXCEPT ![m] = Written(program, fragment[m], code[pos[w]])]
  BY DEF WriteOp
<1> QED
  BY <1>1, <1>2, <1>3, <1>4, <1>5 DEF Holds
(* Appending a fragment keeps the cursor and the tasks to their types. *)
LEMMA AppendTyped ==
  ASSUME TypeOK, NEW f \in Fragment, AppendFragment(f)
  PROVE  /\ output' \in Seq(Character)
         /\ line' \in Nat \ {0} /\ column' \in Nat
         /\ tasks' = Append(tasks, [kind |-> "items", items |-> f.items,
                                    line |-> line, column |-> column])
         /\ [kind |-> "items", items |-> f.items, line |-> line, column |-> column] \in Task
         /\ tasks' \in Seq(Task)
<1>1. /\ f.text \in Seq(Character) /\ f.line \in Nat \ {0}
      /\ f.column \in Nat /\ f.items \in Seq(Position)
  BY DEF Fragment
<1>2. /\ output \in Seq(Character) /\ line \in Nat \ {0} /\ column \in Nat
      /\ tasks \in Seq(Task)
  BY DEF TypeOK
<1>3. output' \in Seq(Character)
  <2> DEFINE Chars == Character
  <2>1. output \in Seq(Chars) /\ f.text \in Seq(Chars) /\ output' = output \o f.text
    BY <1>1, <1>2 DEF AppendFragment
  <2> HIDE DEF Chars
  <2>2. output' \in Seq(Chars)
    BY <2>1
  <2> QED
    BY <2>2 DEF Chars
<1>4. line' \in Nat \ {0} /\ column' \in Nat
  <2>1. line' = line + f.line - 1 /\ column' = ColumnAfter(f, column)
    BY DEF AppendFragment
  <2>2. ColumnAfter(f, column) \in Nat
    BY <1>1, <1>2 DEF ColumnAfter
  <2>3. line + f.line - 1 \in Nat \ {0}
    BY <1>1, <1>2
  <2> QED
    BY <2>1, <2>2, <2>3
<1>5. [kind |-> "items", items |-> f.items, line |-> line, column |-> column] \in Task
  BY <1>1, <1>2 DEF Task
<1>6. tasks' = Append(tasks, [kind |-> "items", items |-> f.items,
                              line |-> line, column |-> column])
  BY DEF AppendFragment
<1>7. tasks' \in Seq(Task)
  BY <1>2, <1>5, <1>6
<1> QED
  BY <1>3, <1>4, <1>5, <1>6, <1>7

(* All of a code's writes make a fragment. *)
LEMMA GeneratedTyped ==
  ASSUME NEW prog \in Program, NEW code \in Seq(Op)
  PROVE  /\ Generated(prog, code) \in Fragment
         /\ Generated(prog, code) = Fragments(prog, code)[Len(code)]
         /\ ~ prog.sourcemap => Generated(prog, code).items = <<>>
<1>1. Len(code) \in 0 .. Len(code)
  OBVIOUS
<1> QED
  BY <1>1, StagesPlain DEF Generated

(* The main thread keeps to the types. *)
LEMMA MainType == ASSUME PInv, Main PROVE TypeOK'
<1> USE DEF PInv
<1>1. /\ program \in Program /\ program.order \in Seq(Module)
      /\ program.imports \in Seq(Op) /\ program.exports \in Seq(Op)
      /\ fragment \in [Module -> Fragment]
  BY ProgramParts DEF TypeOK
<1>2. CASE OpenFails
  <2>1. mapFile' \in Seq({"header", "sources", "mappings"})
    <3>1. /\ <<>> \in Seq({"header", "sources", "mappings"})
          /\ <<"header">> \in Seq({"header", "sources", "mappings"})
      OBVIOUS
    <3> QED
      BY <1>2, <3>1, Zenon DEF OpenFails
  <2> QED
    BY <1>2, <2>1 DEF OpenFails, MainStep, TypeOK, codegen, cursor, Point
<1>3. CASE Open
  <2>1. tasks' \in Seq(Task) /\ mapFile' \in Seq({"header", "sources", "mappings"})
    BY <1>3 DEF Open, Task
  <2> QED
    BY <1>3, <2>1 DEF Open, MainStep, TypeOK, codegen, cursor, Point
<1>4. CASE CodeGenGlobalImport
  <2>1. PICK f \in Fragment : f = Generated(program, program.imports)
    BY <1>1, GeneratedTyped
  <2>2. AppendFragment(f)
    BY <1>4, <2>1 DEF CodeGenGlobalImport
  <2>3. /\ output' \in Seq(Character)
        /\ line' \in Nat \ {0} /\ column' \in Nat /\ tasks' \in Seq(Task)
    BY <2>2, AppendTyped
  <2> QED
    BY <1>4, <2>3 DEF CodeGenGlobalImport, MainStep, TypeOK, codegen, mapper, Point
<1>5. CASE AddSnippet
  <2> DEFINE Chars == Character
  <2>1. output \in Seq(Chars) /\ <<Plain, Plain>> \in Seq(Chars)
        /\ <<Plain, NL, Plain, NL>> \in Seq(Chars)
    BY DEF TypeOK, Character
  <2>2. line \in Nat \ {0} /\ column \in Nat
    BY DEF TypeOK
  <2> HIDE DEF Chars
  <2>3. output' \in Seq(Chars) /\ line' \in Nat \ {0} /\ column' \in Nat
    <3>1. CASE program.cjs = {}
      BY <1>5, <2>1, <2>2, <3>1 DEF AddSnippet, cursor
    <3>2. CASE program.cjs # {} /\ program.minify
      <4>1. output' = output \o <<Plain, Plain>> /\ column' = column + 2 /\ line' = line
        BY <1>5, <3>2 DEF AddSnippet
      <4> QED
        BY <2>1, <2>2, <4>1
    <3>3. CASE program.cjs # {} /\ ~ program.minify
      <4>1. output' = output \o <<Plain, NL, Plain, NL>> /\ line' = line + 2 /\ column' = 0
        BY <1>5, <3>3 DEF AddSnippet
      <4> QED
        BY <2>1, <2>2, <4>1
    <3> QED
      BY <3>1, <3>2, <3>3
  <2> USE DEF Chars
  <2> QED
    BY <1>5, <2>3 DEF AddSnippet, MainStep, TypeOK, codegen, mapper, Point
<1>6. CASE EnqueueCodegen
  <2>1. counter' \in Nat
    BY <1>1, <1>6 DEF EnqueueCodegen, GroupSize, TypeOK
  <2> QED
    BY <1>1, <1>6, <2>1 DEF EnqueueCodegen, MainStep, AfterEnqueue, TypeOK, cursor, mapper,
       Point
<1>7. CASE JoinPool
  BY <1>7 DEF JoinPool, MainStep, TypeOK, codegen, cursor, mapper, Point
<1>8. CASE GroupWait
  BY <1>8 DEF GroupWait, MainStep, TypeOK, codegen, cursor, mapper, Point
<1>9. CASE ConcatModule
  <2>1. program.order[nth] \in Module
    BY <1>1, <1>9 DEF ConcatModule
  <2>2. PICK f \in Fragment : f = fragment[program.order[nth]]
    BY <1>1, <2>1
  <2>3. AppendFragment(f)
    BY <1>9, <2>2 DEF ConcatModule
  <2>4. /\ output' \in Seq(Character)
        /\ line' \in Nat \ {0} /\ column' \in Nat /\ tasks' \in Seq(Task)
    BY <2>3, AppendTyped
  <2>5. wrapped' \subseteq Module /\ nth' \in Nat
    BY <1>9, <2>1 DEF ConcatModule, TypeOK
  <2> QED
    BY <1>9, <2>4, <2>5 DEF ConcatModule, TypeOK, codegen, mapper
<1>10. CASE CodeGenFinalExport
  <2>1. PICK f \in Fragment : f = Generated(program, program.exports)
    BY <1>1, GeneratedTyped
  <2>2. CASE program.exports = <<>>
    BY <1>10, <2>2 DEF CodeGenFinalExport, MainStep, TypeOK, codegen, mapper, cursor, Point
  <2>3. CASE program.exports # <<>>
    <3>1. AppendFragment(f)
      BY <1>10, <2>1, <2>3 DEF CodeGenFinalExport
    <3>2. /\ output' \in Seq(Character)
          /\ line' \in Nat \ {0} /\ column' \in Nat /\ tasks' \in Seq(Task)
      BY <3>1, AppendTyped
    <3> QED
      BY <1>10, <3>2 DEF CodeGenFinalExport, MainStep, TypeOK, codegen, mapper, Point
  <2> QED
    BY <2>2, <2>3
<1>11. CASE DumpSourcemap
  <2>1. tasks' \in Seq(Task)
    BY <1>11 DEF DumpSourcemap, TypeOK, Task
  <2> QED
    BY <1>11, <2>1 DEF DumpSourcemap, MainStep, TypeOK, codegen, cursor, mapper, Point
<1>12. CASE Await
  BY <1>12 DEF Await, MainStep, TypeOK, codegen, cursor, mapper, Point
<1>13. CASE DestroyItems
  BY <1>13 DEF DestroyItems, MainStep, TypeOK, codegen, cursor, mapper, Point
<1>14. CASE JoinCompositor
  BY <1>14 DEF JoinCompositor, MainStep, TypeOK, codegen, cursor, mapper, Point
<1> QED
  BY <1>2, <1>3, <1>4, <1>5, <1>6, <1>7, <1>8, <1>9, <1>10, <1>11, <1>12, <1>13, <1>14
     DEF Main

(* An item shifted to where its fragment went is a place of the bundle. *)
LEMMA ShiftedTyped ==
  ASSUME NEW item \in Position, NEW l \in Nat \ {0}, NEW c \in Nat
  PROVE  Shifted(item, l, c) \in Position
<1>1. item = [origin |-> item.origin, line |-> item.line, column |-> item.column]
      /\ item.origin \in Range(Origin) /\ item.line \in Nat \ {0} /\ item.column \in Nat
  BY DEF Position
<1>2. Shifted(item, l, c) =
        [origin |-> item.origin, line |-> item.line + l - 1,
         column |-> IF item.line = 1 THEN item.column + c ELSE item.column]
  <2>1. CASE item.line = 1
    <3>1. Shifted(item, l, c) = [item EXCEPT !.column = @ + c, !.line = @ + l - 1]
      BY <2>1 DEF Shifted
    <3> QED
      BY <1>1, <2>1, <3>1
  <2>2. CASE item.line # 1
    <3>1. Shifted(item, l, c) = [item EXCEPT !.column = @, !.line = @ + l - 1]
      BY <2>2 DEF Shifted
    <3> QED
      BY <1>1, <2>2, <3>1
  <2> QED
    BY <2>1, <2>2
<1> QED
  BY <1>1, <1>2 DEF Position

(* The compositor's thread keeps to the types. *)
LEMMA ComposeType == ASSUME TypeOK, Compose PROVE TypeOK'
<1>1. CASE TakeTask
  <2>1. Head(tasks) \in Task /\ Tail(tasks) \in Seq(Task)
    BY <1>1 DEF TakeTask, TypeOK
  <2> QED
    BY <1>1, <2>1 DEF TakeTask, TypeOK, codegen, cursor
<1>2. CASE WriteSources
  <2>1. mapFile' \in Seq({"header", "sources", "mappings"})
    BY <1>2 DEF WriteSources, TypeOK
  <2> QED
    BY <1>2, <2>1 DEF WriteSources, TypeOK, codegen, cursor
<1>3. CASE PushItems
  <2>1. PICK t \in running :
          /\ t.kind = "items"
          /\ items' = items \o [i \in DOMAIN t.items |-> Shifted(t.items[i], t.line, t.column)]
    BY <1>3 DEF PushItems
  <2>2. t.items \in Seq(Position) /\ t.line \in Nat \ {0} /\ t.column \in Nat
    BY <2>1 DEF TypeOK, Task
  <2>3. DOMAIN t.items = 1 .. Len(t.items)
    BY <2>2
  <2>4. [i \in DOMAIN t.items |-> Shifted(t.items[i], t.line, t.column)] \in Seq(Position)
    BY <2>2, <2>3, ShiftedTyped
  <2>5. items' \in Seq(Position)
    BY <2>1, <2>4 DEF TypeOK
  <2> QED
    BY <1>3, <2>5 DEF PushItems, TypeOK, codegen, cursor
<1>4. CASE Finalize
  <2>1. mapFile' \in Seq({"header", "sources", "mappings"})
    BY <1>4 DEF Finalize, TypeOK
  <2> QED
    BY <1>4, <2>1 DEF Finalize, TypeOK, codegen, cursor
<1> QED
  BY <1>1, <1>2, <1>3, <1>4 DEF Compose

(* A thread that is through with its module is still counted. *)
LEMMA DoneCounted ==
  ASSUME PInv, NEW w \in Busy
  PROVE  /\ Enqueued /\ ~ Joined /\ counter = Len(queue) + Cardinality(Busy)
         /\ Cardinality(Busy) = Cardinality(Busy \ {w}) + 1
         /\ Cardinality(Busy \ {w}) \in Nat
<1>1. Enqueued /\ ~ Joined
  BY DEF PInv, Quiet
<1>2. Cardinality(Busy \ {w}) = Cardinality(Busy) - 1 /\ IsFiniteSet(Busy \ {w})
  BY BusyFinite, FS_RemoveElement
<1>3. Cardinality(Busy \ {w}) \in Nat
  BY <1>2, FS_CardinalityType
<1> QED
  BY <1>1, <1>2, <1>3, BusyFinite DEF PInv, Counts

(* The pool's threads keep to the types. *)
LEMMA GenerateType == ASSUME PInv, NEW w \in Worker, Generate(w) PROVE TypeOK'
<1>1. CASE TakeCodegen(w)
  <2>1. fragment' = fragment /\ Head(queue) \in Module
    BY <1>1, TakeKeepsFragment
  <2>2. Tail(queue) \in Seq(Module)
    BY <1>1, TailTakes DEF TakeCodegen, PInv, TypeOK, Exclusive
  <2> QED
    BY <1>1, <2>1, <2>2 DEF TakeCodegen, PInv, TypeOK, cursor, mapper
<1>2. CASE WriteOp(w)
  <2>1. fragment' \in [Module -> Fragment]
    BY <1>2, WriteMakesStage DEF PInv, TypeOK
  <2>2. pos' \in [Worker -> Nat]
    BY <1>2 DEF WriteOp, PInv, TypeOK
  <2> QED
    BY <1>2, <2>1, <2>2 DEF WriteOp, PInv, TypeOK, cursor, mapper
<1>3. CASE GroupDone(w)
  <2>1. w \in Busy
    BY <1>3 DEF GroupDone, Busy
  <2>2. counter' = counter - 1 /\ Len(queue) \in Nat
    BY <1>3 DEF GroupDone, PInv, TypeOK
  <2>3. counter = Len(queue) + Cardinality(Busy \ {w}) + 1
        /\ Cardinality(Busy \ {w}) \in Nat
    <3>1. /\ counter = Len(queue) + Cardinality(Busy)
          /\ Cardinality(Busy) = Cardinality(Busy \ {w}) + 1
          /\ Cardinality(Busy \ {w}) \in Nat
      BY <2>1, DoneCounted
    <3> QED
      BY <2>2, <3>1
  <2>4. counter' \in Nat
    BY <2>2, <2>3
  <2> QED
    BY <1>3, <2>4 DEF GroupDone, PInv, TypeOK, cursor, mapper
<1> QED
  BY <1>1, <1>2, <1>3 DEF Generate

(* Every step keeps to the types. *)
LEMMA NextType == ASSUME PInv, [Next]_vars PROVE TypeOK'
<1>1. CASE UNCHANGED vars
  BY <1>1 DEF vars, PInv, TypeOK
<1> QED
  BY <1>1, MainType, ComposeType, GenerateType DEF Next, PInv
-----------------------------------------------------------------------------
(* A step that leaves the pool's state alone keeps what is known of it, when *)
(* the main thread does not get past the pool before it is quiet.            *)
LEMMA PoolFrame ==
  ASSUME PInv, UNCHANGED <<program, codegen>>, Enqueued' = Enqueued,
         Joined' => Joined \/ (queue = <<>> /\ Busy = {})
  PROVE  Counts' /\ Quiet' /\ Exclusive' /\ Grows'
<1>1. /\ Busy' = Busy /\ queue' = queue /\ counter' = counter /\ program' = program
      /\ at' = at /\ pos' = pos /\ fragment' = fragment
  BY DEF codegen, Busy
<1>2. Counts'
  BY <1>1 DEF PInv, Counts
<1>3. Quiet'
  BY <1>1 DEF PInv, Quiet
<1>4. Exclusive'
  BY <1>1 DEF PInv, Exclusive, IsInjective, Range
<1>5. \A m, n : Holds(m, n)' <=> Holds(m, n)
  BY <1>1 DEF Holds
<1>6. Range(queue)' = Range(queue) /\ Range(program.order)' = Range(program.order)
  BY <1>1 DEF Range
<1>7. Grows'
  BY <1>1, <1>5, <1>6 DEF PInv, Grows, Whole
<1> QED
  BY <1>2, <1>3, <1>4, <1>7

(* The main thread enqueues the modules, all of them blank. *)
LEMMA EnqueuePool ==
  ASSUME PInv, TypeOK', EnqueueCodegen
  PROVE  Counts' /\ Quiet' /\ Exclusive' /\ Grows'
<1>1. /\ program.opens /\ ~ Enqueued /\ Enqueued' /\ ~ Joined'
      /\ queue = <<>> /\ Busy = {} /\ counter = 0
  BY DEF EnqueueCodegen, MainStep, AfterEnqueue, PInv, WrapsLate, Enqueued, Joined, Quiet, Counts
<1>2. /\ program' = program /\ queue' = program.order /\ fragment' = fragment /\ Busy' = {}
      /\ counter' = Len(program.order)
  BY <1>1 DEF EnqueueCodegen, GroupSize, Busy, PInv, TypeOK
<1>3. program.order \in Seq(Module) /\ IsInjective(program.order)
  BY ProgramParts DEF PInv, TypeOK
<1>4. Cardinality({}) = 0
  BY FS_EmptySet
<1>5. Counts'
  <2>1. counter' = Len(queue') + Cardinality(Busy')
    BY <1>2, <1>3, <1>4
  <2> QED
    BY <1>1, <2>1 DEF Counts
<1>6. Quiet'
  BY <1>1 DEF Quiet
<1>7. Exclusive'
  BY <1>2, <1>3 DEF Exclusive, IsInjective, Range
<1>8. Grows'
  <2>1. \A m \in Module : Holds(m, 0)'
    BY <1>1, <1>2 DEF PInv, Grows, Holds
  <2>2. Range(queue)' = Range(program.order)'
    BY <1>2 DEF Range
  <2> QED
    BY <1>2, <2>1, <2>2 DEF Grows
<1> QED
  BY <1>5, <1>6, <1>7, <1>8

(* The main thread's other steps. *)
LEMMA MainPool ==
  ASSUME PInv, TypeOK', Main
  PROVE  Counts' /\ Quiet' /\ Exclusive' /\ Grows' /\ WrapsLate'
<1> USE DEF PInv, WrapsLate, Enqueued, Joined
<1>1. CASE OpenFails
  BY <1>1, PoolFrame DEF OpenFails, MainStep
<1>2. CASE Open
  BY <1>2, PoolFrame DEF Open, MainStep
<1>3. CASE CodeGenGlobalImport
  BY <1>3, PoolFrame DEF CodeGenGlobalImport, MainStep
<1>4. CASE AddSnippet
  BY <1>4, PoolFrame DEF AddSnippet, MainStep
<1>5. CASE EnqueueCodegen
  <2>1. WrapsLate'
    BY <1>5 DEF EnqueueCodegen, MainStep, AfterEnqueue
  <2> QED
    BY <1>5, <2>1, EnqueuePool
<1>6. CASE JoinPool
  <2>1. queue = <<>> /\ Busy = {}
    BY <1>6 DEF JoinPool, Busy
  <2> QED
    BY <1>6, <2>1, PoolFrame DEF JoinPool, MainStep
<1>7. CASE GroupWait
  BY <1>7, PoolFrame DEF GroupWait, MainStep
<1>8. CASE ConcatModule
  BY <1>8, PoolFrame DEF ConcatModule
<1>9. CASE CodeGenFinalExport
  BY <1>9, PoolFrame DEF CodeGenFinalExport, MainStep
<1>10. CASE DumpSourcemap
  BY <1>10, PoolFrame DEF DumpSourcemap, MainStep
<1>11. CASE Await
  BY <1>11, PoolFrame DEF Await, MainStep
<1>12. CASE DestroyItems
  BY <1>12, PoolFrame DEF DestroyItems, MainStep
<1>13. CASE JoinCompositor
  BY <1>13, PoolFrame DEF JoinCompositor, MainStep
<1> QED
  BY <1>1, <1>2, <1>3, <1>4, <1>5, <1>6, <1>7, <1>8, <1>9, <1>10, <1>11, <1>12, <1>13
     DEF Main

(* A thread takes a module off the queue and starts a blank fragment. *)
LEMMA TakePool ==
  ASSUME PInv, TypeOK', NEW w \in Worker, TakeCodegen(w)
  PROVE  Counts' /\ Quiet' /\ Exclusive' /\ Grows'
<1>1. PICK h : h = Head(queue)
  OBVIOUS
<1>2. /\ Enqueued /\ ~ Joined /\ fragment' = fragment
      /\ h \in Module /\ h \in Range(queue)
  BY <1>1, TakeKeepsFragment
<1>3. Enqueued' /\ ~ Joined' /\ program' = program
  BY <1>2 DEF TakeCodegen, Enqueued, Joined
<1>4. /\ queue \in Seq(Module) /\ queue' = Tail(queue) /\ Len(queue) = Len(queue') + 1
      /\ IsInjective(queue)' /\ Range(queue)' = Range(queue) \ {h}
      /\ Len(queue') \in Nat
  <2>1. /\ queue \in Seq(Module) /\ queue # <<>> /\ IsInjective(queue)
        /\ queue' = Tail(queue)
    BY DEF TakeCodegen, PInv, TypeOK, Exclusive
  <2>2. PICK q : q = Tail(queue)
    OBVIOUS
  <2>3. /\ Len(queue) = Len(q) + 1 /\ IsInjective(q)
        /\ q \in Seq(Module) /\ Range(q) = Range(queue) \ {h}
    BY <1>1, <2>1, <2>2, TailTakes
  <2>4. queue' = q
    BY <2>1, <2>2
  <2>5. IsInjective(queue)' /\ Range(queue)' = Range(q)
    BY <2>3, <2>4 DEF IsInjective, Range
  <2> QED
    BY <2>1, <2>3, <2>4, <2>5
<1>5. /\ at' = [at EXCEPT ![w] = h] /\ pos' = [pos EXCEPT ![w] = 1] /\ w \notin Busy
      /\ at \in [Worker -> Module \union {None}] /\ pos \in [Worker -> Nat]
      /\ counter' = counter
  BY <1>1 DEF TakeCodegen, Busy, PInv, TypeOK
<1>6. Busy' = Busy \union {w} /\ h # None
  BY <1>2, <1>5, CompositionAssumption DEF Busy
<1>7. \A v \in Worker : v # w => at'[v] = at[v] /\ pos'[v] = pos[v]
  BY <1>5
<1>8. at'[w] = h /\ pos'[w] = 1
  BY <1>5
<1>9. Counts'
  <2>1. Cardinality(Busy') = Cardinality(Busy) + 1
    BY <1>5, <1>6, BusyFinite, FS_AddElement
  <2>2. counter = Len(queue) + Cardinality(Busy)
    BY <1>2 DEF PInv, Counts
  <2>3. counter' = Len(queue') + Cardinality(Busy')
    BY <1>4, <1>5, <2>1, <2>2, BusyFinite
  <2> QED
    BY <1>3, <2>3 DEF Counts
<1>10. Quiet'
  BY <1>3 DEF Quiet
<1>11. Exclusive'
  <2>1. Range(program.order)' = Range(program.order)
    BY <1>3 DEF Range
  <2> QED
    BY <1>2, <1>4, <1>6, <1>7, <1>8, <2>1 DEF PInv, Exclusive, Busy
<1>12. Grows'
  <2>1. \A m, n : Holds(m, n)' <=> Holds(m, n)
    BY <1>2, <1>3 DEF Holds
  <2>2. Range(program.order)' = Range(program.order) /\ program' = program
    BY <1>3 DEF Range
  <2> SUFFICES ASSUME NEW m \in Module PROVE
        /\ m \in Range(queue)' \/ m \notin Range(program.order) => Holds(m, 0)
        /\ \A v \in Busy' : at'[v] = m =>
             pos'[v] \in 1 .. Len(program.code[m]) + 1 /\ Holds(m, pos'[v] - 1)
        /\ m \in Range(program.order) /\ m \notin Range(queue)'
             /\ (\A v \in Busy' : at'[v] # m) => Whole(m)
    BY <1>3, <2>1, <2>2 DEF Grows, Whole
  <2>3. m \in Range(queue)' \/ m \notin Range(program.order) => Holds(m, 0)
    BY <1>4 DEF PInv, Grows
  <2>4. ASSUME NEW v \in Busy', at'[v] = m
        PROVE  pos'[v] \in 1 .. Len(program.code[m]) + 1 /\ Holds(m, pos'[v] - 1)
    <3>1. CASE v = w
      <4>1. m = h /\ Holds(h, 0) /\ Len(program.code[m]) \in Nat
        BY <1>2, <1>8, <2>4, <3>1, CodeOf DEF PInv, Grows
      <4> QED
        BY <1>8, <3>1, <4>1
    <3>2. CASE v # w
      BY <1>6, <1>7, <2>4, <3>2 DEF PInv, Grows, Busy
    <3> QED
      BY <3>1, <3>2
  <2>5. ASSUME m \in Range(program.order), m \notin Range(queue)', \A v \in Busy' : at'[v] # m
        PROVE  Whole(m)
    <3>1. m # h
      BY <1>6, <1>8, <2>5
    <3>2. m \notin Range(queue)
      BY <1>4, <2>5, <3>1
    <3>3. \A v \in Busy : at[v] # m
      BY <1>5, <1>6, <1>7, <2>5 DEF Busy
    <3> QED
      BY <1>2, <2>5, <3>2, <3>3 DEF PInv, Grows
  <2> QED
    BY <2>3, <2>4, <2>5
<1> QED
  BY <1>9, <1>10, <1>11, <1>12
(* A thread writes one more piece of its module's code. *)
LEMMA WritePool ==
  ASSUME PInv, TypeOK', NEW w \in Worker, WriteOp(w)
  PROVE  Counts' /\ Quiet' /\ Exclusive' /\ Grows'
<1>1. PICK m, p : m = at[w] /\ p = pos[w]
  OBVIOUS
<1> DEFINE code == program.code[m]
<1>2. /\ m \in Module /\ w \in Busy /\ p \in 1 .. Len(code)
      /\ fragment' = [fragment EXCEPT ![m] = Fragments(program, code)[p]]
  BY <1>1, WriteMakesStage
<1>3. /\ program' = program /\ queue' = queue /\ at' = at /\ counter' = counter
      /\ main' = main /\ pos' = [pos EXCEPT ![w] = p + 1]
      /\ pos \in [Worker -> Nat] /\ fragment \in [Module -> Fragment]
  BY <1>1 DEF WriteOp, PInv, TypeOK
<1>4. /\ Busy' = Busy /\ Enqueued' = Enqueued /\ Joined' = Joined
      /\ Range(queue)' = Range(queue) /\ Range(program.order)' = Range(program.order)
  BY <1>3 DEF Busy, Enqueued, Joined, Range
<1>5. Enqueued /\ m \in Range(program.order) /\ m \notin Range(queue)
  BY <1>1, <1>2 DEF PInv, Quiet, Exclusive
<1>6. Counts'
  BY <1>3, <1>4 DEF PInv, Counts
<1>7. Quiet'
  BY <1>3, <1>4 DEF PInv, Quiet
<1>8. Exclusive'
  BY <1>3, <1>4 DEF PInv, Exclusive, IsInjective
<1>9. Grows'
  <2> DEFINE Now(k, n) == fragment'[k] = Fragments(program, program.code[k])[n]
  <2>1. fragment'[m] = Fragments(program, code)[p]
    BY <1>2, <1>3
  <2>2. \A k \in Module : k # m => \A n : Now(k, n) <=> Holds(k, n)
    BY <1>2, <1>3 DEF Holds
  <2>3. \A v \in Busy : v # w => at[v] # m /\ pos'[v] = pos[v]
    BY <1>1, <1>2, <1>3 DEF PInv, Exclusive, Busy
  <2>4. pos'[w] = p + 1 /\ p \in Nat /\ Len(code) \in Nat
    BY <1>2, <1>3, CodeOf DEF Busy, PInv
  <2>5. ASSUME NEW k \in Module PROVE
        /\ k \in Range(queue) \/ k \notin Range(program.order) => Now(k, 0)
        /\ \A v \in Busy : at[v] = k =>
             pos'[v] \in 1 .. Len(program.code[k]) + 1 /\ Now(k, pos'[v] - 1)
        /\ k \in Range(program.order) /\ k \notin Range(queue)
             /\ (\A v \in Busy : at[v] # k) => Now(k, Len(program.code[k]))
    <3>1. CASE k = m
      <4>1. \A v \in Busy : at[v] = m => v = w
        BY <2>3
      <4>2. pos'[w] - 1 = p /\ pos'[w] \in 1 .. Len(code) + 1
        BY <1>2, <2>4
      <4>3. ~ \A v \in Busy : at[v] # m
        BY <1>1, <1>2
      <4> QED
        BY <1>5, <2>1, <3>1, <4>1, <4>2, <4>3
    <3>2. CASE k # m
      <4>1. \A n : Now(k, n) <=> Holds(k, n)
        BY <2>2, <3>2
      <4>2. \A v \in Busy : at[v] = k => pos'[v] = pos[v]
        BY <1>1, <2>3, <3>2
      <4> HIDE DEF Now
      <4>3. k \in Range(queue) \/ k \notin Range(program.order) => Now(k, 0)
        BY <4>1 DEF PInv, Grows
      <4>4. \A v \in Busy : at[v] = k =>
              pos'[v] \in 1 .. Len(program.code[k]) + 1 /\ Now(k, pos'[v] - 1)
        BY <4>1, <4>2 DEF PInv, Grows
      <4>5. k \in Range(program.order) /\ k \notin Range(queue)
              /\ (\A v \in Busy : at[v] # k) => Now(k, Len(program.code[k]))
        BY <1>5, <4>1 DEF PInv, Grows, Whole
      <4> QED
        BY <4>3, <4>4, <4>5
    <3> QED
      BY <3>1, <3>2
  <2>6. \A k, n : (fragment'[k] = Fragments(program', program'.code[k])[n]) <=> Now(k, n)
    BY <1>3
  <2> HIDE DEF Now
  <2> QED
    BY <1>3, <1>4, <1>5, <2>5, <2>6 DEF Grows, Whole, Holds
<1> QED
  BY <1>6, <1>7, <1>8, <1>9

(* A thread is through with its module: the fragment is whole. *)
LEMMA DonePool ==
  ASSUME PInv, TypeOK', NEW w \in Worker, GroupDone(w)
  PROVE  Counts' /\ Quiet' /\ Exclusive' /\ Grows'
<1>1. PICK m, p : m = at[w] /\ p = pos[w]
  OBVIOUS
<1>2. /\ w \in Busy /\ m \in Module /\ p \notin DOMAIN program.code[m]
      /\ at' = [at EXCEPT ![w] = None] /\ counter' = counter - 1
      /\ program' = program /\ queue' = queue /\ pos' = pos /\ fragment' = fragment
      /\ main' = main /\ at \in [Worker -> Module \union {None}]
  BY <1>1 DEF GroupDone, Busy, PInv, TypeOK
<1>3. Busy' = Busy \ {w}
  BY <1>2 DEF Busy
<1>4. \A v \in Worker : v # w => at'[v] = at[v]
  BY <1>2
<1>5. /\ Enqueued' = Enqueued /\ Joined' = Joined
      /\ Range(queue)' = Range(queue) /\ Range(program.order)' = Range(program.order)
  BY <1>2 DEF Enqueued, Joined, Range
<1>6. Whole(m)
  <2>1. p \in 1 .. Len(program.code[m]) + 1 /\ Holds(m, p - 1)
    BY <1>1, <1>2 DEF PInv, Grows
  <2>2. p = Len(program.code[m]) + 1 /\ Len(program.code[m]) \in Nat
    BY <1>2, <2>1, CodeOf DEF PInv
  <2>3. p - 1 = Len(program.code[m])
    BY <2>2
  <2> QED
    BY <2>1, <2>3 DEF Whole
<1>7. Counts'
  <2>1. /\ Enqueued /\ counter = Len(queue) + Cardinality(Busy)
        /\ Cardinality(Busy) = Cardinality(Busy \ {w}) + 1
        /\ Cardinality(Busy \ {w}) \in Nat
    BY <1>2, DoneCounted
  <2>2. Len(queue) \in Nat
    BY DEF PInv, TypeOK
  <2>3. counter' = Len(queue') + Cardinality(Busy')
    BY <1>2, <1>3, <2>1, <2>2
  <2> QED
    BY <1>5, <2>1, <2>3 DEF Counts
<1>8. Quiet'
  BY <1>2, <1>3, <1>5 DEF PInv, Quiet
<1>9. Exclusive'
  BY <1>2, <1>3, <1>4, <1>5 DEF PInv, Exclusive, IsInjective, Busy
<1>10. Grows'
  <2>1. \A k, n : Holds(k, n)' <=> Holds(k, n)
    BY <1>2 DEF Holds
  <2> SUFFICES ASSUME NEW k \in Module PROVE
        /\ ~ Enqueued \/ k \in Range(queue) \/ k \notin Range(program.order) => Holds(k, 0)
        /\ \A v \in Busy' : at'[v] = k =>
             pos[v] \in 1 .. Len(program.code[k]) + 1 /\ Holds(k, pos[v] - 1)
        /\ Enqueued /\ k \in Range(program.order) /\ k \notin Range(queue)
             /\ (\A v \in Busy' : at'[v] # k) => Whole(k)
    BY <1>2, <1>5, <2>1 DEF Grows, Whole
  <2>2. ~ Enqueued \/ k \in Range(queue) \/ k \notin Range(program.order) => Holds(k, 0)
    BY DEF PInv, Grows
  <2>3. \A v \in Busy' : at'[v] = k =>
          pos[v] \in 1 .. Len(program.code[k]) + 1 /\ Holds(k, pos[v] - 1)
    BY <1>3, <1>4 DEF PInv, Grows, Busy
  <2>4. ASSUME Enqueued, k \in Range(program.order), k \notin Range(queue),
               \A v \in Busy' : at'[v] # k
        PROVE  Whole(k)
    <3>1. CASE k = m
      BY <1>6, <3>1
    <3>2. CASE k # m
      <4>1. \A v \in Busy : at[v] # k
        BY <1>1, <1>3, <1>4, <2>4, <3>2 DEF Busy
      <4> QED
        BY <2>4, <4>1 DEF PInv, Grows
    <3> QED
      BY <3>1, <3>2
  <2> QED
    BY <2>2, <2>3, <2>4
<1> QED
  BY <1>7, <1>8, <1>9, <1>10

(* Every step keeps the pool's invariant. *)
LEMMA NextPInv == ASSUME PInv, [Next]_vars PROVE PInv'
<1>1. TypeOK'
  BY NextType
<1>2. CASE Main
  BY <1>1, <1>2, MainPool DEF PInv
<1>3. CASE Compose \/ UNCHANGED vars
  <2>1. UNCHANGED <<program, codegen, main, wrapped>>
    BY <1>3 DEF Compose, TakeTask, WriteSources, PushItems, Finalize, vars, codegen
  <2>2. Enqueued' = Enqueued /\ Joined' = Joined
    BY <2>1 DEF Enqueued, Joined
  <2>3. WrapsLate'
    BY <2>1, <2>2 DEF WrapsLate, PInv
  <2> QED
    BY <1>1, <2>1, <2>2, <2>3, PoolFrame DEF PInv
<1>4. ASSUME NEW w \in Worker, Generate(w) PROVE PInv'
  <2>1. UNCHANGED <<program, main, wrapped>>
    BY <1>4 DEF Generate, TakeCodegen, WriteOp, GroupDone
  <2>2. WrapsLate'
    BY <2>1 DEF WrapsLate, PInv, Enqueued, Joined
  <2>3. Counts' /\ Quiet' /\ Exclusive' /\ Grows'
    BY <1>1, <1>4, TakePool, WritePool, DonePool DEF Generate
  <2> QED
    BY <1>1, <2>2, <2>3 DEF PInv
<1> QED
  BY <1>2, <1>3, <1>4 DEF Next

(* The pool's invariant holds at the start. *)
LEMMA InitPInv == Init => PInv
<1> SUFFICES ASSUME Init PROVE PInv
  OBVIOUS
<1> USE DEF Init
<1>1. ~ Enqueued /\ ~ Joined /\ Busy = {}
  BY DEF Enqueued, Joined, Busy
<1>2. TypeOK
  BY BlankTyped DEF TypeOK, Point
<1>3. Counts /\ Quiet /\ WrapsLate
  BY <1>1 DEF Counts, Quiet, WrapsLate
<1>4. Exclusive
  BY <1>1 DEF Exclusive, IsInjective, Range
<1>5. Grows
  <2>1. \A m \in Module : Holds(m, 0)
    BY <1>2, CodeOf, FragmentsStep DEF Holds
  <2> QED
    BY <1>1, <2>1 DEF Grows
<1> QED
  BY <1>2, <1>3, <1>4, <1>5 DEF PInv

(* DumpAllResult's state keeps to its types, on whatever programs and pool.   *)
THEOREM TypeCorrect == Spec => []TypeOK
<1>1. PInv => TypeOK
  BY DEF PInv
<1> QED
  BY <1>1, InitPInv, NextPInv, PTL DEF Spec

(* When the main thread concatenates, the pool has been joined, so that every *)
(* fragment of the order is the whole of its module's code.                   *)
THEOREM FragmentsComplete == Spec => []CompleteWhenRead
<1>1. ASSUME PInv PROVE CompleteWhenRead
  <2> SUFFICES ASSUME main = "concat", NEW m \in Range(program.order)
               PROVE  fragment[m] = Generated(program, program.code[m])
    BY DEF CompleteWhenRead
  <2>1. m \in Module
    BY <1>1, ProgramParts DEF PInv, TypeOK, Range
  <2>2. Joined
    BY <1>1 DEF PInv, WrapsLate, Enqueued, Joined
  <2>3. m \notin Range(queue) /\ Busy = {} /\ Enqueued
    BY <1>1, <2>2 DEF PInv, Quiet, Joined, Range
  <2>4. Whole(m)
    BY <1>1, <2>1, <2>3 DEF PInv, Grows
  <2> QED
    BY <2>4 DEF Whole, Holds, Generated
<1> QED
  BY <1>1, InitPInv, NextPInv, PTL DEF Spec

(* A fragment is at some stage of its module's code. *)
LEMMA FragmentIsStage ==
  ASSUME PInv, NEW m \in Module
  PROVE  \E n \in 0 .. Len(program.code[m]) : Holds(m, n)
<1> DEFINE code == program.code[m]
<1>1. program \in Program /\ code \in Seq(Op) /\ Len(code) \in Nat
  BY CodeOf DEF PInv
<1>2. CASE ~ Enqueued \/ m \in Range(queue) \/ m \notin Range(program.order)
  BY <1>1, <1>2 DEF PInv, Grows
<1>3. ASSUME NEW w \in Busy, at[w] = m PROVE \E n \in 0 .. Len(code) : Holds(m, n)
  <2>1. pos[w] \in 1 .. Len(code) + 1 /\ Holds(m, pos[w] - 1)
    BY <1>3 DEF PInv, Grows
  <2>2. pos[w] - 1 \in 0 .. Len(code)
    BY <1>1, <2>1
  <2> QED
    BY <2>1, <2>2
<1>4. CASE Enqueued /\ m \in Range(program.order) /\ m \notin Range(queue)
           /\ \A w \in Busy : at[w] # m
  BY <1>1, <1>4 DEF PInv, Grows, Whole
<1> QED
  BY <1>2, <1>3, <1>4

(* So it is not wrapped, and without --sourcemap it has no items. *)
LEMMA FragmentPlain ==
  ASSUME PInv, NEW m \in Module
  PROVE  /\ fragment[m] \in Fragment /\ fragment[m].wrapped = FALSE
         /\ ~ program.sourcemap => fragment[m].items = <<>>
<1> DEFINE code == program.code[m]
<1>1. PICK n \in 0 .. Len(code) : Holds(m, n)
  BY FragmentIsStage
<1>2. program \in Program /\ code \in Seq(Op)
  BY CodeOf DEF PInv
<1>3. /\ Fragments(program, code)[n] \in Fragment
      /\ Fragments(program, code)[n].wrapped = FALSE
      /\ ~ program.sourcemap => Fragments(program, code)[n].items = <<>>
  BY <1>2, StagesPlain
<1> QED
  BY <1>1, <1>3 DEF Holds

(* ConcatModules wraps the ast of a CommonJS module only after its fragment   *)
(* was generated from it: whatever the program, no fragment is ever the call   *)
(* of __commonJS.                                                             *)
THEOREM WrapsTooLate == Spec => []NeverWrapped
<1>1. PInv => NeverWrapped
  BY FragmentPlain DEF NeverWrapped
<1> QED
  BY <1>1, InitPInv, NextPInv, PTL DEF Spec

-----------------------------------------------------------------------------
(* What a line of tasks is. *)
LEMMA LineIs ==
  ASSUME NEW ts \in Seq(Task)
  PROVE  /\ Line({}, ts) = ts
         /\ \A t \in Task : /\ Line({t}, ts) \in Seq(Task)
                           /\ Len(Line({t}, ts)) = Len(ts) + 1
                           /\ Line({t}, ts)[1] = t
                           /\ \A i \in 1 .. Len(ts) : Line({t}, ts)[i + 1] = ts[i]
<1>1. Line({}, ts) = ts
  BY DEF Line
<1>2. ASSUME NEW t \in Task PROVE Line({t}, ts) = <<t>> \o ts
  <2>1. (CHOOSE s \in {t} : TRUE) = t
    BY Zenon
  <2> QED
    BY <2>1 DEF Line
<1>3. ASSUME NEW t \in Task
      PROVE  /\ <<t>> \o ts \in Seq(Task) /\ Len(<<t>> \o ts) = Len(ts) + 1
             /\ (<<t>> \o ts)[1] = t
             /\ \A i \in 1 .. Len(ts) : (<<t>> \o ts)[i + 1] = ts[i]
  OBVIOUS
<1>4. ASSUME NEW t \in Task
      PROVE  /\ Line({t}, ts) \in Seq(Task) /\ Len(Line({t}, ts)) = Len(ts) + 1
             /\ Line({t}, ts)[1] = t
             /\ \A i \in 1 .. Len(ts) : Line({t}, ts)[i + 1] = ts[i]
  <2>1. PICK p : p = <<t>> \o ts
    OBVIOUS
  <2>2. Line({t}, ts) = p
    BY <1>2, <2>1
  <2>3. /\ p \in Seq(Task) /\ Len(p) = Len(ts) + 1 /\ p[1] = t
        /\ \A i \in 1 .. Len(ts) : p[i + 1] = ts[i]
    BY <1>3, <2>1
  <2> QED
    BY <2>2, <2>3
<1> QED
  BY <1>1, <1>4

(* What the thread is at and what it has before it. *)
LEMMA PendingIs ==
  ASSUME TypeOK, OneAtATime
  PROVE  /\ Pending \in Seq(Task) /\ tasks \in Seq(Task)
         /\ running = {} => Pending = tasks
         /\ \A t \in running : /\ t \in Task /\ running = {t}
                              /\ Len(Pending) = Len(tasks) + 1 /\ Pending[1] = t
                              /\ \A i \in 1 .. Len(tasks) : Pending[i + 1] = tasks[i]
<1>1. tasks \in Seq(Task) /\ running \subseteq Task
  BY DEF TypeOK
<1>2. CASE running = {}
  BY <1>1, <1>2, LineIs DEF Pending
<1>3. ASSUME NEW t \in running PROVE running = {t} /\ t \in Task
  BY <1>1 DEF OneAtATime
<1>4. CASE running # {}
  <2>1. PICK t \in running : TRUE
    BY <1>4
  <2>2. running = {t} /\ t \in Task
    BY <1>3
  <2>3. Pending = Line({t}, tasks)
    BY <2>2 DEF Pending
  <2> QED
    BY <1>1, <2>2, <2>3, LineIs
<1> QED
  BY <1>2, <1>4

(* The main thread hands over a task. *)
LEMMA Handed ==
  ASSUME TypeOK, OneAtATime, NEW t \in Task, tasks' = Append(tasks, t), running' = running
  PROVE  /\ Pending \in Seq(Task) /\ Pending' \in Seq(Task)
         /\ Len(Pending') = Len(Pending) + 1 /\ Pending'[Len(Pending) + 1] = t
         /\ \A i \in 1 .. Len(Pending) : Pending'[i] = Pending[i]
<1>1. PICK ts \in Seq(Task) : ts = tasks
  BY DEF TypeOK
<1>2. PICK us \in Seq(Task) : us = Append(ts, t)
  <2>1. Append(ts, t) \in Seq(Task)
    OBVIOUS
  <2> QED
    BY <2>1
<1>3. Len(us) = Len(ts) + 1 /\ us[Len(ts) + 1] = t /\ \A i \in 1 .. Len(ts) : us[i] = ts[i]
  BY <1>2
<1>4. Pending' = Line(running, us)
  BY <1>1, <1>2 DEF Pending
<1>5. CASE running = {}
  BY <1>1, <1>3, <1>4, <1>5, LineIs DEF Pending
<1>6. CASE running # {}
  <2>1. PICK s \in Task : running = {s}
    BY <1>6, PendingIs
  <2>2. PICK p, q : p = Line({s}, ts) /\ q = Line({s}, us)
    OBVIOUS
  <2>3. Pending = p /\ Pending' = q
    BY <1>1, <1>4, <2>1, <2>2 DEF Pending
  <2>4. /\ p \in Seq(Task) /\ Len(p) = Len(ts) + 1 /\ p[1] = s
        /\ \A i \in 1 .. Len(ts) : p[i + 1] = ts[i]
    BY <2>2, LineIs
  <2>5. /\ q \in Seq(Task) /\ Len(q) = Len(us) + 1 /\ q[1] = s
        /\ \A i \in 1 .. Len(us) : q[i + 1] = us[i]
    BY <2>2, LineIs
  <2>6. Len(ts) \in Nat
    OBVIOUS
  <2>7. q[Len(p) + 1] = t
    BY <1>3, <2>4, <2>5, <2>6
  <2>8. ASSUME NEW i \in 1 .. Len(p) PROVE q[i] = p[i]
    <3>1. CASE i = 1
      BY <2>4, <2>5, <3>1
    <3>2. CASE i # 1
      <4>1. i - 1 \in 1 .. Len(ts) /\ (i - 1) + 1 = i
        BY <2>4, <2>6, <3>2
      <4>2. i - 1 \in 1 .. Len(us)
        BY <1>3, <2>6, <4>1
      <4>3. p[i] = ts[i - 1] /\ q[i] = us[i - 1]
        BY <2>4, <2>5, <4>1, <4>2
      <4> QED
        BY <1>3, <4>1, <4>3
    <3> QED
      BY <3>1, <3>2
  <2> QED
    BY <1>3, <2>3, <2>4, <2>5, <2>7, <2>8
<1> QED
  BY <1>5, <1>6

(* The thread takes the oldest task. *)
LEMMA Taken ==
  ASSUME TypeOK, OneAtATime, TakeTask
  PROVE  Pending' = Pending /\ OneAtATime'
<1>1. running = {}
  <2>1. \A t : Cardinality({t}) = 1
    BY FS_Singleton
  <2>2. Cardinality(running) < 1
    BY DEF TakeTask, Threads
  <2>3. ASSUME NEW t \in running PROVE FALSE
    <3>1. running = {t}
      BY PendingIs
    <3> QED
      BY <2>1, <2>2, <3>1
  <2> QED
    BY <2>3
<1>2. PICK ts \in Seq(Task) : ts = tasks /\ ts # <<>>
  BY DEF TypeOK, TakeTask
<1>3. PICK h, r : h = Head(ts) /\ r = Tail(ts)
  OBVIOUS
<1>4. /\ h \in Task /\ r \in Seq(Task) /\ Len(ts) = Len(r) + 1 /\ ts[1] = h
      /\ \A i \in 1 .. Len(r) : ts[i + 1] = r[i]
  BY <1>2, <1>3
<1>5. running' = {h} /\ tasks' = r
  BY <1>1, <1>2, <1>3 DEF TakeTask
<1>6. PICK p : p = Line({h}, r)
  OBVIOUS
<1>7. /\ p \in Seq(Task) /\ Len(p) = Len(r) + 1 /\ p[1] = h
      /\ \A i \in 1 .. Len(r) : p[i + 1] = r[i]
  BY <1>4, <1>6, LineIs
<1>8. ASSUME NEW i \in 1 .. Len(ts) PROVE p[i] = ts[i]
  <2>1. CASE i = 1
    BY <1>4, <1>7, <2>1
  <2>2. CASE i # 1
    <3>1. i - 1 \in 1 .. Len(r) /\ (i - 1) + 1 = i
      BY <1>4, <2>2
    <3> QED
      BY <1>4, <1>7, <3>1
  <2> QED
    BY <2>1, <2>2
<1>9. p = ts
  BY <1>4, <1>7, <1>8
<1>10. Pending = ts
  BY <1>1, <1>2, PendingIs
<1>11. Pending' = p
  BY <1>5, <1>6 DEF Pending
<1> QED
  BY <1>5, <1>9, <1>10, <1>11 DEF OneAtATime

(* The thread is through with a task. *)
LEMMA Finished ==
  ASSUME TypeOK, OneAtATime, NEW t \in running, running' = running \ {t}, tasks' = tasks
  PROVE  /\ OneAtATime' /\ Pending \in Seq(Task) /\ Pending' \in Seq(Task)
         /\ Pending[1] = t /\ Len(Pending) = Len(Pending') + 1
         /\ \A i \in 1 .. Len(Pending') : Pending'[i] = Pending[i + 1]
<1>1. /\ Pending \in Seq(Task) /\ tasks \in Seq(Task) /\ running = {t}
      /\ Len(Pending) = Len(tasks) + 1 /\ Pending[1] = t
      /\ \A i \in 1 .. Len(tasks) : Pending[i + 1] = tasks[i]
  BY PendingIs
<1>2. running' = {}
  BY <1>1
<1>3. Pending' = tasks
  <2>1. Pending' = Line({}, tasks)
    BY <1>2 DEF Pending
  <2> QED
    BY <1>1, <2>1, LineIs
<1> QED
  BY <1>1, <1>2, <1>3 DEF OneAtATime
-----------------------------------------------------------------------------
(* A step that hands nothing over and finishes nothing keeps what is known of *)
(* the map, when it does not leave early.                                     *)
LEMMA MapFrame ==
  ASSUME MInv, Pending' = Pending, OneAtATime', UNCHANGED <<program, mapFile, alive>>,
         main' = "open" <=> main = "open",
         main \in Closing => main' \in Closing,
         ~ alive => main' \in {"joinCompositor", "returned"},
         program.opens /\ program.sourcemap /\ main' \in Closing \ {"await"} =>
           mapFile = <<"header", "sources", "mappings">>
  PROVE  MInv'
<1>1. PICK p, f : p = Pending /\ f = mapFile
  OBVIOUS
<1>2. Pending' = p /\ mapFile' = f /\ program' = program /\ alive' = alive
  BY <1>1
<1>3. Sections'
  <2>1. /\ f \in {<<>>, <<"header">>, <<"header", "sources">>,
                  <<"header", "sources", "mappings">>}
        /\ main = "open" => f = <<>>
        /\ f = <<>> => ~ program.opens \/ main = "open"
        /\ f = <<>> \/ ~ program.opens => p = <<>>
        /\ f = <<"header">> /\ program.opens => p # <<>> /\ p[1].kind = "sources"
        /\ \A i \in DOMAIN p :
             /\ p[i].kind = "sources" => i = 1 /\ f = <<"header">>
             /\ p[i].kind = "map" => i = Len(p) /\ program.sourcemap /\ main \in Closing
        /\ f = <<"header", "sources", "mappings">> => p = <<>> /\ main \in Closing
    BY <1>1 DEF MInv, Sections
  <2> QED
    BY <1>2, <2>1 DEF Sections
<1>4. LeavesLate'
  BY <1>1, <1>2 DEF MInv, LeavesLate
<1>5. NoItems'
  <2>1. ~ program.sourcemap => \A i \in DOMAIN p : p[i].kind = "items" => p[i].items = <<>>
    BY <1>1 DEF MInv, NoItems
  <2> QED
    BY <1>2, <2>1 DEF NoItems
<1> QED
  BY <1>3, <1>4, <1>5 DEF MInv

(* Before the map is handed over, a fragment's items join what waits. *)
LEMMA FragmentHanded ==
  ASSUME PInv, MInv, NEW f \in Fragment, ~ program.sourcemap => f.items = <<>>,
         AppendFragment(f), UNCHANGED <<program, mapper, alive>>,
         program.opens, main # "open", main' # "open", main \notin Closing,
         main' \notin Closing
  PROVE  MInv'
<1>1. PICK p, q, t : /\ p = Pending /\ q = Pending'
                     /\ t = [kind |-> "items", items |-> f.items, line |-> line,
                             column |-> column]
  OBVIOUS
<1>2. t \in Task /\ tasks' = Append(tasks, t) /\ t.kind = "items" /\ t.items = f.items
  BY <1>1, AppendTyped DEF PInv
<1>3. /\ p \in Seq(Task) /\ q \in Seq(Task) /\ Len(q) = Len(p) + 1 /\ q[Len(p) + 1] = t
      /\ \A i \in 1 .. Len(p) : q[i] = p[i]
  BY <1>1, <1>2, Handed DEF PInv, MInv, mapper
<1>4. /\ Len(p) \in Nat /\ DOMAIN p = 1 .. Len(p) /\ DOMAIN q = 1 .. Len(p) + 1
  BY <1>3
<1>5. mapFile \in {<<"header">>, <<"header", "sources">>}
  BY DEF MInv, Sections
<1>6. OneAtATime' /\ mapFile' = mapFile /\ program' = program /\ alive' = alive
  BY DEF MInv, OneAtATime, mapper
<1>7. Sections'
  <2>1. mapFile = <<"header">> => q # <<>> /\ q[1].kind = "sources"
    <3> HAVE mapFile = <<"header">>
    <3>1. p # <<>> /\ p[1].kind = "sources"
      BY <1>1 DEF MInv, Sections
    <3>2. 1 \in 1 .. Len(p)
      BY <1>3, <3>1
    <3> QED
      BY <1>3, <3>1, <3>2
  <2>2. ASSUME NEW i \in DOMAIN q
        PROVE  /\ q[i].kind = "sources" => i = 1 /\ mapFile = <<"header">>
               /\ q[i].kind # "map"
    <3>1. CASE i \in 1 .. Len(p)
      BY <1>1, <1>3, <1>4, <3>1 DEF MInv, Sections
    <3>2. CASE i = Len(p) + 1
      BY <1>2, <1>3, <3>2
    <3> QED
      BY <1>4, <3>1, <3>2
  <2>3. mapFile # <<>> /\ mapFile # <<"header", "sources", "mappings">>
    <3>1. /\ Len(<<>>) = 0 /\ Len(<<"header">>) = 1 /\ Len(<<"header", "sources">>) = 2
          /\ Len(<<"header", "sources", "mappings">>) = 3
      OBVIOUS
    <3> QED
      BY <1>5, <3>1
  <2> QED
    BY <1>1, <1>5, <1>6, <2>1, <2>2, <2>3 DEF Sections
<1>8. LeavesLate'
  BY <1>6 DEF MInv, LeavesLate, Closing
<1>9. NoItems'
  <2>1. ASSUME ~ program.sourcemap, NEW i \in DOMAIN q, q[i].kind = "items"
        PROVE  q[i].items = <<>>
    <3>1. CASE i \in 1 .. Len(p)
      BY <1>1, <1>3, <1>4, <2>1, <3>1 DEF MInv, NoItems
    <3>2. CASE i = Len(p) + 1
      BY <1>2, <1>3, <2>1, <3>2
    <3> QED
      BY <1>4, <3>1, <3>2
  <2> QED
    BY <1>1, <1>6, <2>1 DEF NoItems
<1> QED
  BY <1>6, <1>7, <1>8, <1>9 DEF MInv

(* The main thread's part in the map. *)
LEMMA MainMap == ASSUME PInv, TypeOK', MInv, Main PROVE MInv'
<1> USE DEF Closing
<1>1. program \in Program /\ (~ program.opens => main \in {"open", "returned"})
      /\ program.sourcemap \in BOOLEAN
  BY ProgramParts DEF PInv, WrapsLate, TypeOK
<1>2. CASE OpenFails
  <2>1. Pending' = Pending /\ OneAtATime' /\ program' = program /\ alive' = alive
    BY <1>2 DEF OpenFails, Pending, MInv, OneAtATime
  <2>2. Pending = <<>> /\ alive /\ ~ program.opens
    BY <1>2 DEF OpenFails, MainStep, MInv, Sections, LeavesLate, PInv, TypeOK
  <2>3. main' = "returned" /\ mapFile' \in {<<>>, <<"header">>}
    BY <1>2 DEF OpenFails, MainStep
  <2>4. Len(<<>>) = 0 /\ Len(<<"header">>) = 1 /\ Len(<<"header", "sources", "mappings">>) = 3
    OBVIOUS
  <2>5. Sections'
    BY <2>1, <2>2, <2>3, <2>4 DEF Sections
  <2>6. LeavesLate'
    BY <2>1, <2>2 DEF LeavesLate
  <2>7. NoItems'
    BY <2>1, <2>2 DEF NoItems
  <2> QED
    BY <2>1, <2>5, <2>6, <2>7 DEF MInv
<1>3. CASE Open
  <2>1. running = {} /\ tasks = <<>> /\ Pending = <<>>
    <3>1. Pending = <<>>
      BY <1>3 DEF Open, MainStep, MInv, Sections
    <3>2. ASSUME NEW t \in running PROVE FALSE
      <4>1. Len(Pending) = Len(tasks) + 1 /\ Len(tasks) \in Nat
        BY PendingIs DEF PInv, MInv
      <4> QED
        BY <3>1, <4>1
    <3>3. running = {}
      BY <3>2
    <3> QED
      BY <3>1, <3>3, PendingIs DEF PInv, MInv
  <2>2. PICK q \in Seq(Task) : q = <<[kind |-> "sources"]>>
    <3>1. [kind |-> "sources"] \in Task
      BY DEF Task
    <3>2. \A t \in Task : <<t>> \in Seq(Task)
      OBVIOUS
    <3> QED
      BY <3>1, <3>2
  <2>3. running' = {} /\ tasks' = q /\ mapFile' = <<"header">> /\ program' = program
        /\ alive' = alive /\ main' = "imports" /\ main = "open" /\ program.opens
    BY <1>3, <2>1, <2>2 DEF Open, MainStep
  <2>4. Pending' = q
    <3>1. Pending' = Line({}, q)
      BY <2>3 DEF Pending
    <3> QED
      BY <3>1, LineIs
  <2>5. /\ Len(q) = 1 /\ DOMAIN q = {1} /\ q[1].kind = "sources" /\ q # <<>>
    BY <2>2
  <2>6. Sections'
    BY <2>3, <2>4, <2>5 DEF Sections
  <2>7. NoItems'
    BY <2>4, <2>5 DEF NoItems
  <2>8. OneAtATime' /\ LeavesLate'
    BY <2>3 DEF OneAtATime, LeavesLate, MInv
  <2> QED
    BY <2>6, <2>7, <2>8 DEF MInv
<1>4. CASE CodeGenGlobalImport
  <2>1. PICK f : f = Generated(program, program.imports)
    OBVIOUS
  <2>2. f \in Fragment /\ (~ program.sourcemap => f.items = <<>>)
    BY <1>1, <2>1, ProgramParts, GeneratedTyped
  <2> QED
    BY <1>1, <1>4, <2>1, <2>2, FragmentHanded DEF CodeGenGlobalImport, MainStep
<1>5. CASE AddSnippet
  <2>1. Pending' = Pending /\ OneAtATime'
    BY <1>5 DEF AddSnippet, mapper, Pending, MInv, OneAtATime
  <2> QED
    BY <1>5, <2>1, MapFrame DEF AddSnippet, MainStep, mapper, MInv, LeavesLate
<1>6. CASE EnqueueCodegen
  <2>1. Pending' = Pending /\ OneAtATime'
    BY <1>6 DEF EnqueueCodegen, mapper, Pending, MInv, OneAtATime
  <2> QED
    BY <1>6, <2>1, MapFrame DEF EnqueueCodegen, MainStep, AfterEnqueue, mapper, MInv, LeavesLate
<1>7. CASE JoinPool
  <2>1. Pending' = Pending /\ OneAtATime'
    BY <1>7 DEF JoinPool, mapper, Pending, MInv, OneAtATime
  <2> QED
    BY <1>7, <2>1, MapFrame DEF JoinPool, MainStep, mapper, MInv, LeavesLate
<1>8. CASE GroupWait
  <2>1. Pending' = Pending /\ OneAtATime'
    BY <1>8 DEF GroupWait, mapper, Pending, MInv, OneAtATime
  <2> QED
    BY <1>8, <2>1, MapFrame DEF GroupWait, MainStep, mapper, MInv, LeavesLate
<1>9. CASE ConcatModule
  <2>1. program.order[nth] \in Module
    BY <1>1, <1>9, ProgramParts DEF ConcatModule
  <2>2. PICK f : f = fragment[program.order[nth]]
    OBVIOUS
  <2>3. f \in Fragment /\ (~ program.sourcemap => f.items = <<>>)
    BY <2>1, <2>2, FragmentPlain
  <2> QED
    BY <1>1, <1>9, <2>2, <2>3, FragmentHanded DEF ConcatModule
<1>10. CASE CodeGenFinalExport
  <2>1. CASE program.exports = <<>>
    <3>1. Pending' = Pending /\ OneAtATime'
      BY <1>10, <2>1 DEF CodeGenFinalExport, mapper, Pending, MInv, OneAtATime
    <3> QED
      BY <1>10, <3>1, MapFrame DEF CodeGenFinalExport, MainStep, mapper, MInv, LeavesLate
  <2>2. CASE program.exports # <<>>
    <3>1. PICK f : f = Generated(program, program.exports)
      OBVIOUS
    <3>2. f \in Fragment /\ (~ program.sourcemap => f.items = <<>>)
      BY <1>1, <3>1, ProgramParts, GeneratedTyped
    <3> QED
      BY <1>1, <1>10, <2>2, <3>1, <3>2, FragmentHanded DEF CodeGenFinalExport, MainStep
  <2> QED
    BY <2>1, <2>2
<1>11. CASE DumpSourcemap
  <2>1. CASE ~ program.sourcemap
    <3>1. Pending' = Pending /\ OneAtATime'
      BY <1>11, <2>1 DEF DumpSourcemap, mapper, Pending, MInv, OneAtATime
    <3> QED
      BY <1>1, <1>11, <2>1, <3>1, MapFrame DEF DumpSourcemap, MainStep, mapper, MInv, LeavesLate
  <2>2. CASE program.sourcemap
    <3>1. PICK p, q, t : p = Pending /\ q = Pending' /\ t = [kind |-> "map"]
      OBVIOUS
    <3>2. t \in Task /\ tasks' = Append(tasks, t) /\ t.kind = "map"
      BY <1>11, <2>2, <3>1 DEF DumpSourcemap, Task
    <3>3. /\ p \in Seq(Task) /\ q \in Seq(Task) /\ Len(q) = Len(p) + 1 /\ q[Len(p) + 1] = t
          /\ \A i \in 1 .. Len(p) : q[i] = p[i]
      BY <1>11, <3>1, <3>2, Handed DEF PInv, MInv, DumpSourcemap, mapper
    <3>4. /\ Len(p) \in Nat /\ DOMAIN p = 1 .. Len(p) /\ DOMAIN q = 1 .. Len(p) + 1
      BY <3>3
    <3>5. /\ OneAtATime' /\ mapFile' = mapFile /\ program' = program /\ alive' = alive
          /\ main = "map" /\ main' = "await" /\ program.opens
      BY <1>1, <1>11 DEF MInv, OneAtATime, mapper, DumpSourcemap, MainStep
    <3>6. mapFile \in {<<"header">>, <<"header", "sources">>}
      BY <3>5 DEF MInv, Sections
    <3>7. Sections'
      <4>1. mapFile = <<"header">> => q # <<>> /\ q[1].kind = "sources"
        <5> HAVE mapFile = <<"header">>
        <5>1. p # <<>> /\ p[1].kind = "sources"
          BY <3>1, <3>5 DEF MInv, Sections
        <5>2. 1 \in 1 .. Len(p)
          BY <3>3, <5>1
        <5> QED
          BY <3>3, <5>1, <5>2
      <4>2. ASSUME NEW i \in DOMAIN q
            PROVE  /\ q[i].kind = "sources" => i = 1 /\ mapFile = <<"header">>
                   /\ q[i].kind = "map" => i = Len(q)
        <5>1. CASE i \in 1 .. Len(p)
          BY <3>1, <3>3, <3>4, <3>5, <5>1 DEF MInv, Sections
        <5>2. CASE i = Len(p) + 1
          BY <3>2, <3>3, <5>2
        <5> QED
          BY <3>4, <5>1, <5>2
      <4> QED
        BY <2>2, <3>1, <3>5, <3>6, <4>1, <4>2 DEF Sections
    <3>8. LeavesLate'
      BY <3>5 DEF MInv, LeavesLate
    <3>9. NoItems'
      BY <2>2, <3>5 DEF NoItems
    <3> QED
      BY <3>5, <3>7, <3>8, <3>9 DEF MInv
  <2> QED
    BY <2>1, <2>2
<1>12. CASE Await
  <2>1. Pending' = Pending /\ OneAtATime'
    BY <1>12 DEF Await, mapper, Pending, MInv, OneAtATime
  <2>2. program.sourcemap => mapFile = <<"header", "sources", "mappings">>
    <3>1. program.sourcemap => \E i \in DOMAIN mapFile : mapFile[i] = "mappings"
      BY <1>12 DEF Await, Awaited, Range
    <3> QED
      BY <3>1 DEF MInv, Sections
  <2> QED
    BY <1>12, <2>1, <2>2, MapFrame DEF Await, MainStep, mapper, MInv, LeavesLate
<1>13. CASE DestroyItems
  <2>1. Pending' = Pending /\ OneAtATime'
    BY <1>13 DEF DestroyItems, mapper, Pending, MInv, OneAtATime
  <2>2. PICK p, f : p = Pending /\ f = mapFile
    OBVIOUS
  <2>3. /\ Pending' = p /\ mapFile' = f /\ program' = program /\ alive' = FALSE
        /\ main = "leave" /\ main' = "joinCompositor" /\ program.opens
    BY <1>1, <1>13, <2>1, <2>2 DEF DestroyItems, MainStep, mapper
  <2>4. /\ f \in {<<>>, <<"header">>, <<"header", "sources">>,
                  <<"header", "sources", "mappings">>}
        /\ f # <<>>
        /\ f = <<"header">> => p # <<>> /\ p[1].kind = "sources"
        /\ \A i \in DOMAIN p :
             /\ p[i].kind = "sources" => i = 1 /\ f = <<"header">>
             /\ p[i].kind = "map" => i = Len(p) /\ program.sourcemap
        /\ f = <<"header", "sources", "mappings">> => p = <<>>
    BY <2>2, <2>3 DEF MInv, Sections
  <2>5. Sections'
    BY <2>3, <2>4 DEF Sections
  <2>6. LeavesLate'
    BY <2>2, <2>3 DEF MInv, LeavesLate
  <2>7. ~ program.sourcemap => \A i \in DOMAIN p : p[i].kind = "items" => p[i].items = <<>>
    BY <2>2 DEF MInv, NoItems
  <2>8. NoItems'
    BY <2>3, <2>7 DEF NoItems
  <2> QED
    BY <2>1, <2>5, <2>6, <2>8 DEF MInv
<1>14. CASE JoinCompositor
  <2>1. Pending' = Pending /\ OneAtATime'
    BY <1>14 DEF JoinCompositor, mapper, Pending, MInv, OneAtATime
  <2> QED
    BY <1>1, <1>14, <2>1, MapFrame DEF JoinCompositor, MainStep, mapper, MInv, LeavesLate
<1> QED
  BY <1>2, <1>3, <1>4, <1>5, <1>6, <1>7, <1>8, <1>9, <1>10, <1>11, <1>12, <1>13, <1>14
     DEF Main
(* The sections one after the other. *)
LEMMA SectionsAppend ==
  /\ Append(<<"header">>, "sources") = <<"header", "sources">>
  /\ Append(<<"header", "sources">>, "mappings") = <<"header", "sources", "mappings">>
<1> DEFINE Section == {"header", "sources", "mappings"}
<1>1. \A s \in Seq(Section), e \in Section :
        /\ Append(s, e) \in Seq(Section) /\ Len(Append(s, e)) = Len(s) + 1
        /\ Append(s, e)[Len(s) + 1] = e /\ \A i \in 1 .. Len(s) : Append(s, e)[i] = s[i]
  OBVIOUS
<1>2. PICK a, b, c : /\ a = <<"header">> /\ b = <<"header", "sources">>
                     /\ c = <<"header", "sources", "mappings">>
  OBVIOUS
<1>3. /\ a \in Seq(Section) /\ Len(a) = 1 /\ a[1] = "header"
      /\ b \in Seq(Section) /\ Len(b) = 2 /\ b[1] = "header" /\ b[2] = "sources"
      /\ c \in Seq(Section) /\ Len(c) = 3
      /\ c[1] = "header" /\ c[2] = "sources" /\ c[3] = "mappings"
  BY <1>2
<1>4. "sources" \in Section /\ "mappings" \in Section
  OBVIOUS
<1> HIDE DEF Section
<1>5. PICK x, y : x = Append(a, "sources") /\ y = Append(b, "mappings")
  OBVIOUS
<1>6. x \in Seq(Section) /\ Len(x) = 2 /\ x[1] = "header" /\ x[2] = "sources"
  <2>1. /\ x \in Seq(Section) /\ Len(x) = Len(a) + 1 /\ x[Len(a) + 1] = "sources"
        /\ \A i \in 1 .. Len(a) : x[i] = a[i]
    BY <1>1, <1>3, <1>4, <1>5, Zenon
  <2> QED
    BY <1>3, <2>1
<1>7. /\ y \in Seq(Section) /\ Len(y) = 3
      /\ y[1] = "header" /\ y[2] = "sources" /\ y[3] = "mappings"
  <2>1. /\ y \in Seq(Section) /\ Len(y) = Len(b) + 1 /\ y[Len(b) + 1] = "mappings"
        /\ \A i \in 1 .. Len(b) : y[i] = b[i]
    BY <1>1, <1>3, <1>4, <1>5, Zenon
  <2> QED
    BY <1>3, <2>1
<1>8. x = b
  BY <1>3, <1>6
<1>9. y = c
  BY <1>3, <1>7
<1> QED
  BY <1>2, <1>5, <1>8, <1>9, Zenon

(* The compositor's thread's part in the map. *)
LEMMA ComposeMap == ASSUME PInv, MInv, Compose PROVE MInv'
<1> USE DEF Closing
<1>1. CASE TakeTask
  <2>1. Pending' = Pending /\ OneAtATime'
    BY <1>1, Taken DEF PInv, MInv
  <2> QED
    BY <1>1, <2>1, MapFrame DEF TakeTask, MInv, LeavesLate
<1>2. ASSUME NEW t \in running, running' = running \ {t}, tasks' = tasks,
             UNCHANGED <<program, main, alive>>,
             \/ t.kind = "sources" /\ mapFile' = Append(mapFile, "sources")
             \/ t.kind = "items" /\ mapFile' = mapFile
             \/ t.kind = "map" /\ mapFile' = Append(mapFile, "mappings")
      PROVE  MInv'
  <2>1. PICK p, q, f : p = Pending /\ q = Pending' /\ f = mapFile
    OBVIOUS
  <2>2. /\ OneAtATime' /\ p \in Seq(Task) /\ q \in Seq(Task) /\ p[1] = t
        /\ Len(p) = Len(q) + 1 /\ \A i \in 1 .. Len(q) : q[i] = p[i + 1]
    BY <1>2, <2>1, Finished DEF PInv, MInv
  <2>3. /\ Len(q) \in Nat /\ DOMAIN p = 1 .. Len(q) + 1 /\ DOMAIN q = 1 .. Len(q)
        /\ p # <<>> /\ 1 \in DOMAIN p
    BY <2>2
  <2>4. /\ f \in {<<>>, <<"header">>, <<"header", "sources">>,
                  <<"header", "sources", "mappings">>}
        /\ program.opens /\ main # "open"
        /\ f = <<>> => p = <<>>
        /\ f = <<"header">> => p[1].kind = "sources"
        /\ \A i \in DOMAIN p :
             /\ p[i].kind = "sources" => i = 1 /\ f = <<"header">>
             /\ p[i].kind = "map" => i = Len(p) /\ program.sourcemap /\ main \in Closing
        /\ f = <<"header", "sources", "mappings">> => p = <<>>
    BY <2>1, <2>3 DEF MInv, Sections
  <2>5. f \in {<<"header">>, <<"header", "sources">>}
    BY <2>3, <2>4
  <2>6. \/ t.kind = "sources" /\ f = <<"header">> /\ mapFile' = <<"header", "sources">>
        \/ t.kind = "items" /\ f = <<"header", "sources">> /\ mapFile' = f
        \/ /\ t.kind = "map" /\ f = <<"header", "sources">> /\ Len(p) = 1 /\ main \in Closing
           /\ mapFile' = <<"header", "sources", "mappings">>
    <3>1. CASE t.kind = "sources"
      <4>1. f = <<"header">> /\ mapFile' = Append(f, "sources")
        BY <1>2, <2>1, <2>2, <2>3, <2>4, <3>1
      <4>2. Append(<<"header">>, "sources") = <<"header", "sources">>
        BY SectionsAppend
      <4>3. mapFile' = <<"header", "sources">>
        BY <4>1, <4>2, Zenon
      <4> QED
        BY <3>1, <4>1, <4>3
    <3>2. CASE t.kind = "items"
      BY <1>2, <2>1, <2>2, <2>3, <2>4, <2>5, <3>2
    <3>3. CASE t.kind = "map"
      <4>1. /\ f = <<"header", "sources">> /\ mapFile' = Append(f, "mappings")
            /\ Len(p) = 1 /\ main \in Closing
        BY <1>2, <2>1, <2>2, <2>3, <2>4, <2>5, <3>3
      <4>2. Append(<<"header", "sources">>, "mappings") = <<"header", "sources", "mappings">>
        BY SectionsAppend
      <4>3. mapFile' = <<"header", "sources", "mappings">>
        BY <4>1, <4>2, Zenon
      <4> QED
        BY <3>3, <4>1, <4>3
    <3> QED
      BY <1>2, <3>1, <3>2, <3>3
  <2>7. \A i \in DOMAIN q :
          /\ q[i].kind # "sources"
          /\ q[i].kind = "map" => i = Len(q) /\ program.sourcemap /\ main \in Closing
    <3> TAKE i \in DOMAIN q
    <3>1. i + 1 \in DOMAIN p /\ q[i] = p[i + 1] /\ i + 1 # 1
      BY <2>2, <2>3
    <3> QED
      BY <2>2, <2>3, <2>4, <3>1
  <2>8. Sections'
    <3>1. Len(p) = 1 => q = <<>>
      BY <2>2, <2>3
    <3>2. mapFile' \in {<<"header", "sources">>, <<"header", "sources", "mappings">>}
          /\ (mapFile' = <<"header", "sources", "mappings">> => q = <<>> /\ main \in Closing)
      BY <2>6, <3>1, SMTT(30)
    <3>3. program.opens /\ main # "open"
      BY <2>4, <2>5
    <3> QED
      BY <1>2, <2>1, <2>7, <3>2, <3>3 DEF Sections
  <2>9. LeavesLate'
    BY <1>2, <2>1, <2>5 DEF MInv, LeavesLate
  <2>10. NoItems'
    <3>1. ASSUME ~ program.sourcemap, NEW i \in DOMAIN q, q[i].kind = "items"
          PROVE  q[i].items = <<>>
      <4>1. i + 1 \in DOMAIN p /\ q[i] = p[i + 1]
        BY <2>2, <2>3
      <4> QED
        BY <2>1, <3>1, <4>1 DEF MInv, NoItems
    <3> QED
      BY <1>2, <2>1, <3>1 DEF NoItems
  <2> QED
    BY <2>2, <2>8, <2>9, <2>10 DEF MInv
<1>3. CASE WriteSources
  BY <1>2, <1>3 DEF WriteSources
<1>4. CASE PushItems
  BY <1>2, <1>4 DEF PushItems
<1>5. CASE Finalize
  BY <1>2, <1>5 DEF Finalize
<1> QED
  BY <1>1, <1>3, <1>4, <1>5 DEF Compose

(* Every step keeps the compositor's invariant. *)
LEMMA NextMInv == ASSUME PInv, MInv, [Next]_vars PROVE MInv'
<1>1. TypeOK'
  BY NextType
<1>2. ASSUME UNCHANGED <<program, main, tasks, running, mapFile, alive>> PROVE MInv'
  <2>1. Pending' = Pending /\ OneAtATime'
    BY <1>2 DEF Pending, MInv, OneAtATime
  <2> QED
    BY <1>2, <2>1, MapFrame DEF MInv, LeavesLate
<1>3. CASE UNCHANGED vars
  BY <1>2, <1>3 DEF vars
<1>4. ASSUME NEW w \in Worker, Generate(w) PROVE MInv'
  BY <1>2, <1>4 DEF Generate, TakeCodegen, WriteOp, GroupDone, mapper
<1> QED
  BY <1>1, <1>3, <1>4, MainMap, ComposeMap DEF Next

(* The compositor's invariant holds at the start. *)
LEMMA InitMInv == Init => MInv
<1> SUFFICES ASSUME Init PROVE MInv
  OBVIOUS
<1> USE DEF Init
<1>1. Pending = <<>>
  BY DEF Pending, Line
<1> QED
  BY <1>1 DEF MInv, OneAtATime, Sections, LeavesLate, NoItems, Closing

(* The sections of the map file are written in the order a source map is read *)
(* in although two threads write them, and with --sourcemap all of them are    *)
(* there when the main thread leaves.                                          *)
THEOREM MapFileWhole == Spec => []MapFileWellFormed
<1>1. ASSUME MInv PROVE MapFileWellFormed
  <2>1. /\ mapFile \in {<<>>, <<"header">>, <<"header", "sources">>,
                        <<"header", "sources", "mappings">>}
        /\ program.opens /\ program.sourcemap /\ main \in Closing \ {"await"} =>
             mapFile = <<"header", "sources", "mappings">>
    BY <1>1 DEF MInv, Sections, LeavesLate
  <2>2. \A s \in {<<>>, <<"header">>, <<"header", "sources">>,
                  <<"header", "sources", "mappings">>} :
          IsPrefix(s, <<"header", "sources", "mappings">>)
    <3> DEFINE whole == <<"header", "sources", "mappings">>
    <3>1. \A n \in 0 .. 3 : IsPrefix(SubSeq(whole, 1, n), whole)
      BY DEF IsPrefix
    <3>2. /\ <<>> = SubSeq(whole, 1, 0) /\ <<"header">> = SubSeq(whole, 1, 1)
          /\ <<"header", "sources">> = SubSeq(whole, 1, 2) /\ whole = SubSeq(whole, 1, 3)
      OBVIOUS
    <3> HIDE DEF whole
    <3>3. /\ IsPrefix(SubSeq(whole, 1, 0), whole) /\ IsPrefix(SubSeq(whole, 1, 1), whole)
          /\ IsPrefix(SubSeq(whole, 1, 2), whole) /\ IsPrefix(SubSeq(whole, 1, 3), whole)
      BY <3>1
    <3>4. /\ IsPrefix(<<>>, whole) /\ IsPrefix(<<"header">>, whole)
          /\ IsPrefix(<<"header", "sources">>, whole) /\ IsPrefix(whole, whole)
      BY <3>2, <3>3, Zenon
    <3> QED
      BY <3>4 DEF whole
  <2> QED
    BY <2>1, <2>2 DEF MapFileWellFormed, Closing
<1>2. Spec => [](PInv /\ MInv)
  BY InitPInv, InitMInv, NextPInv, NextMInv, PTL DEF Spec
<1> QED
  BY <1>1, <1>2, PTL

(* What the compositor's thread has left when mapping_items_ is destroyed     *)
(* does not use it.                                                           *)
THEOREM ItemsOutliveTasks == Spec => []NoUseAfterFree
<1>1. ASSUME PInv, MInv PROVE NoUseAfterFree
  <2> SUFFICES ASSUME ~ alive, NEW t \in running \union Range(tasks)
               PROVE  t.kind = "sources" \/ (t.kind = "items" /\ t.items = <<>>)
    BY DEF NoUseAfterFree
  <2>1. program.opens /\ main \in Closing \ {"await"}
    BY <1>1 DEF MInv, LeavesLate, Closing
  <2>2. t \in Task
    BY <1>1 DEF PInv, TypeOK, Range
  <2>3. PICK i \in DOMAIN Pending : Pending[i] = t
    <3>1. tasks \in Seq(Task) /\ Pending \in Seq(Task)
      BY <1>1, PendingIs DEF PInv, MInv
    <3>2. CASE t \in running
      <4>1. Len(Pending) = Len(tasks) + 1 /\ Pending[1] = t
        BY <1>1, <3>2, PendingIs DEF PInv, MInv
      <4> QED
        BY <3>1, <4>1
    <3>3. CASE t \in Range(tasks)
      <4>1. PICK k \in 1 .. Len(tasks) : tasks[k] = t
        BY <3>1, <3>3 DEF Range
      <4>2. CASE running = {}
        BY <1>1, <3>1, <4>1, <4>2, PendingIs DEF PInv, MInv
      <4>3. CASE running # {}
        <5>1. Len(Pending) = Len(tasks) + 1 /\ Pending[k + 1] = tasks[k]
          BY <1>1, <4>1, <4>3, PendingIs DEF PInv, MInv
        <5> QED
          BY <3>1, <4>1, <5>1
      <4> QED
        BY <4>2, <4>3
    <3> QED
      BY <3>2, <3>3
  <2>4. ~ program.sourcemap
    <3>1. program.sourcemap => mapFile = <<"header", "sources", "mappings">>
      BY <1>1, <2>1 DEF MInv, LeavesLate
    <3>2. program.sourcemap => Pending = <<>>
      BY <1>1, <3>1 DEF MInv, Sections
    <3> QED
      BY <2>3, <3>2
  <2>5. t.kind # "map" /\ (t.kind = "items" => t.items = <<>>)
    BY <1>1, <2>3, <2>4 DEF MInv, Sections, NoItems
  <2> QED
    BY <2>2, <2>5 DEF Task
<1>2. Spec => [](PInv /\ MInv)
  BY InitPInv, InitMInv, NextPInv, NextMInv, PTL DEF Spec
<1> QED
  BY <1>1, <1>2, PTL
-----------------------------------------------------------------------------
(* The map's side: what a text lays out.                                    *)

(* One who reads a text character by character, with the line and column to   *)
(* come and the items of the names passed.                                    *)
At(l, c, is) == [line |-> l, column |-> c, items |-> is]
Reader0 == At(1, 0, <<>>)
Step(r, ch) ==
  IF ch = NL THEN At(r.line + 1, 0, r.items)
  ELSE At(r.line, r.column + 1,
          IF ch \in NodeName
          THEN Append(r.items, [origin |-> Origin[ch], line |-> r.line, column |-> r.column])
          ELSE r.items)
Readers == [line : Nat \ {0}, column : Nat, items : Seq(Position)]

Walking(ws, t) == ws[0] = Reader0 /\ \A k \in 1 .. Len(t) : ws[k] = Step(ws[k - 1], t[k])
Lays(t, r) == \E ws : Walking(ws, t) /\ r = ws[Len(t)]

(* The origin of a name is one of those an item can have. *)
LEMMA NamedItem ==
  ASSUME NEW ch \in NodeName, NEW l \in Nat \ {0}, NEW c \in Nat
  PROVE  [origin |-> Origin[ch], line |-> l, column |-> c] \in Position
<1>1. Origin[ch] \in Range(Origin)
  BY CompositionAssumption DEF Range
<1> QED
  BY <1>1 DEF Position

(* A reader stays one. *)
LEMMA StepTyped ==
  ASSUME NEW r \in Readers, NEW ch \in Character
  PROVE  Step(r, ch) \in Readers
<1>1. /\ r.line \in Nat \ {0} /\ r.column \in Nat /\ r.items \in Seq(Position)
      /\ r.line + 1 \in Nat \ {0} /\ r.column + 1 \in Nat
  BY DEF Readers
<1>2. ASSUME NEW l \in Nat \ {0}, NEW c \in Nat, NEW is \in Seq(Position)
      PROVE  At(l, c, is) \in Readers
  BY DEF At, Readers
<1>3. CASE ch = NL
  BY <1>1, <1>2, <1>3 DEF Step
<1>4. CASE ch # NL /\ ch \in NodeName
  <2> DEFINE x == [origin |-> Origin[ch], line |-> r.line, column |-> r.column]
  <2>1. x \in Position
    BY <1>1, <1>4, NamedItem
  <2>2. Append(r.items, x) \in Seq(Position)
    BY <1>1, <2>1
  <2> QED
    BY <1>1, <1>2, <1>4, <2>2 DEF Step
<1>5. CASE ch # NL /\ ch \notin NodeName
  BY <1>1, <1>2, <1>5 DEF Step
<1> QED
  BY <1>3, <1>4, <1>5

(* No text, no way. *)
LEMMA LaysNothing == Lays(<<>>, Reader0)
<1> DEFINE ws == [k \in 0 .. 0 |-> Reader0]
<1>1. ws[0] = Reader0
  OBVIOUS
<1>2. Walking(ws, <<>>)
  BY <1>1 DEF Walking
<1> QED
  BY <1>1, <1>2 DEF Lays

(* One more character. *)
LEMMA LaysMore ==
  ASSUME NEW t \in Seq(Character), NEW r, Lays(t, r), NEW ch \in Character
  PROVE  Lays(Append(t, ch), Step(r, ch))
<1>1. PICK ws : Walking(ws, t) /\ r = ws[Len(t)]
  BY DEF Lays
<1>2. PICK n \in Nat : n = Len(t)
  OBVIOUS
<1>3. PICK s : s = Append(t, ch)
  OBVIOUS
<1>4. s \in Seq(Character) /\ Len(s) = n + 1 /\ s[n + 1] = ch /\ \A k \in 1 .. n : s[k] = t[k]
  BY <1>2, <1>3
<1> DEFINE us == [k \in 0 .. n + 1 |-> IF k = n + 1 THEN Step(r, ch) ELSE ws[k]]
<1>5. us[n + 1] = Step(r, ch) /\ us[0] = ws[0] /\ us[n] = r
      /\ \A k \in 0 .. n : us[k] = ws[k]
  BY <1>1, <1>2
<1> HIDE DEF us
<1>6. ASSUME NEW k \in 1 .. n + 1 PROVE us[k] = Step(us[k - 1], s[k])
  <2>1. CASE k = n + 1
    BY <1>4, <1>5, <2>1
  <2>2. CASE k # n + 1
    <3>1. k \in 1 .. n /\ k \in 0 .. n /\ k - 1 \in 0 .. n
      BY <2>2
    <3> QED
      BY <1>1, <1>2, <1>4, <1>5, <3>1 DEF Walking
  <2> QED
    BY <2>1, <2>2
<1>7. Walking(us, s)
  BY <1>1, <1>4, <1>5, <1>6 DEF Walking
<1> QED
  BY <1>3, <1>4, <1>5, <1>7 DEF Lays

(* The readers of a text. *)
LEMMA WalkTyped ==
  ASSUME NEW t \in Seq(Character), NEW ws, Walking(ws, t)
  PROVE  \A k \in 0 .. Len(t) : ws[k] \in Readers
<1>1. PICK n \in Nat : n = Len(t)
  OBVIOUS
<1> DEFINE T == {k \in 0 .. n : ws[k] \in Readers}
<1>2. 0 \in T
  <2>1. <<>> \in Seq(Position)
    OBVIOUS
  <2>2. Reader0 \in Readers
    BY <2>1 DEF Reader0, At, Readers
  <2> QED
    BY <2>2 DEF Walking
<1>3. ASSUME NEW k \in 0 .. n - 1, k \in T PROVE k + 1 \in T
  <2>1. PICK j \in 1 .. n : j = k + 1 /\ j - 1 = k
    OBVIOUS
  <2>2. ws[j] = Step(ws[k], t[j]) /\ t[j] \in Character
    BY <1>1, <2>1 DEF Walking
  <2> QED
    BY <1>3, <2>1, <2>2, StepTyped
<1>4. Climbs(T, n)
  BY <1>2, <1>3 DEF Climbs
<1>5. \A k \in 0 .. n : k \in T
  <2> HIDE DEF T
  <2> QED
    BY <1>4, CountingUp
<1> QED
  BY <1>1, <1>5

(* The items of a text put behind another that ends at line l and column c. *)
Moved(is, l, c) == [i \in DOMAIN is |-> Shifted(is[i], l, c)]

(* They are as many, each moved. *)
LEMMA MovedIs ==
  ASSUME NEW is \in Seq(Position), NEW l \in Nat \ {0}, NEW c \in Nat
  PROVE  /\ Moved(is, l, c) \in Seq(Position) /\ Len(Moved(is, l, c)) = Len(is)
         /\ \A i \in 1 .. Len(is) : Moved(is, l, c)[i] = Shifted(is[i], l, c)
<1>1. PICK n \in Nat : n = Len(is) /\ DOMAIN is = 1 .. n
  OBVIOUS
<1>2. Moved(is, l, c) = [i \in 1 .. n |-> Shifted(is[i], l, c)]
  BY <1>1 DEF Moved
<1>3. \A i \in 1 .. n : Shifted(is[i], l, c) \in Position
  BY <1>1, ShiftedTyped
<1> QED
  BY <1>1, <1>2, <1>3

(* One item more is moved like the others. *)
LEMMA MovedAppend ==
  ASSUME NEW is \in Seq(Position), NEW x \in Position, NEW l \in Nat \ {0}, NEW c \in Nat
  PROVE  Moved(Append(is, x), l, c) = Append(Moved(is, l, c), Shifted(x, l, c))
<1>1. PICK n \in Nat : n = Len(is)
  OBVIOUS
<1>2. PICK js : js = Append(is, x)
  OBVIOUS
<1>3. js \in Seq(Position) /\ Len(js) = n + 1 /\ js[n + 1] = x /\ \A i \in 1 .. n : js[i] = is[i]
  BY <1>1, <1>2
<1>4. PICK ms, ns : ms = Moved(is, l, c) /\ ns = Moved(js, l, c)
  OBVIOUS
<1>5. /\ ms \in Seq(Position) /\ Len(ms) = n /\ \A i \in 1 .. n : ms[i] = Shifted(is[i], l, c)
      /\ ns \in Seq(Position) /\ Len(ns) = n + 1
      /\ \A i \in 1 .. n + 1 : ns[i] = Shifted(js[i], l, c)
  BY <1>1, <1>3, <1>4, MovedIs
<1>6. PICK y \in Position : y = Shifted(x, l, c)
  BY ShiftedTyped
<1>7. \A i \in 1 .. n : ns[i] = ms[i]
  BY <1>3, <1>5
<1>8. ns[n + 1] = y
  BY <1>3, <1>5, <1>6
<1>9. ns = Append(ms, y)
  BY <1>5, <1>7, <1>8
<1> QED
  BY <1>2, <1>4, <1>6, <1>9

(* The reader of r's text and v's behind it. *)
Past(r, v) ==
  At(r.line + v.line - 1, IF v.line > 1 THEN v.column ELSE r.column + v.column,
     Catenated(r.items, Moved(v.items, r.line, r.column)))

(* Items behind items are items. *)
LEMMA CatenatedTyped ==
  ASSUME NEW x \in Seq(Position), NEW y \in Seq(Position)
  PROVE  Catenated(x, y) \in Seq(Position)
  BY DEF Catenated

(* One item more at the end of the second is one more at the end of both. *)
LEMMA CatenatedAppend ==
  ASSUME NEW x \in Seq(Position), NEW y \in Seq(Position), NEW z \in Position
  PROVE  Catenated(x, Append(y, z)) = Append(Catenated(x, y), z)
  BY DEF Catenated

(* It makes no difference whether the last character is read before or after. *)
LEMMA StepPast ==
  ASSUME NEW r \in Readers, NEW v \in Readers, NEW ch \in Character
  PROVE  Step(Past(r, v), ch) = Past(r, Step(v, ch))
<1>1. /\ r.line \in Nat \ {0} /\ r.column \in Nat /\ r.items \in Seq(Position)
      /\ v.line \in Nat \ {0} /\ v.column \in Nat /\ v.items \in Seq(Position)
  BY DEF Readers
<1>2. PICK ms : ms = Moved(v.items, r.line, r.column)
  OBVIOUS
<1>3. PICK l \in Nat \ {0} : l = r.line + v.line - 1
  BY <1>1
<1>4. PICK c \in Nat : c = IF v.line > 1 THEN v.column ELSE r.column + v.column
  BY <1>1
<1>5. PICK is \in Seq(Position) : is = Catenated(r.items, ms)
  BY <1>1, <1>2, MovedIs, CatenatedTyped
<1>6. Past(r, v) = At(l, c, is)
  BY <1>2, <1>3, <1>4, <1>5 DEF Past
<1>7. PICK w : w = Past(r, v)
  OBVIOUS
<1>8. w.line = l /\ w.column = c /\ w.items = is
  BY <1>6, <1>7 DEF At
<1>9. CASE ch = NL
  <2>1. Step(w, ch) = At(l + 1, 0, is)
    BY <1>8, <1>9 DEF Step
  <2>2. PICK u : u = Step(v, ch)
    OBVIOUS
  <2>3. u.line = v.line + 1 /\ u.column = 0 /\ u.items = v.items
    BY <1>9, <2>2 DEF Step, At
  <2>4. u.line > 1 /\ r.line + u.line - 1 = l + 1
    BY <1>1, <1>3, <2>3
  <2>5. Past(r, u) = At(l + 1, 0, is)
    BY <1>2, <1>5, <2>3, <2>4 DEF Past
  <2> QED
    BY <1>7, <2>1, <2>2, <2>5
<1>10. CASE ch # NL /\ ch \notin NodeName
  <2>1. Step(w, ch) = At(l, c + 1, is)
    BY <1>8, <1>10 DEF Step
  <2>2. PICK u : u = Step(v, ch)
    OBVIOUS
  <2>3. u.line = v.line /\ u.column = v.column + 1 /\ u.items = v.items
    BY <1>10, <2>2 DEF Step, At
  <2>4. (IF u.line > 1 THEN u.column ELSE r.column + u.column) = c + 1
    BY <1>1, <1>4, <2>3
  <2>5. Past(r, u) = At(l, c + 1, is)
    BY <1>2, <1>3, <1>5, <2>3, <2>4 DEF Past
  <2> QED
    BY <1>7, <2>1, <2>2, <2>5
<1>11. CASE ch # NL /\ ch \in NodeName
  <2>1. PICK x \in Position : x = [origin |-> Origin[ch], line |-> v.line, column |-> v.column]
    BY <1>1, <1>11, NamedItem
  <2>2. PICK y \in Position : y = [origin |-> Origin[ch], line |-> l, column |-> c]
    BY <1>11, NamedItem
  <2>3. Step(w, ch) = At(l, c + 1, Append(is, y))
    BY <1>8, <1>11, <2>2 DEF Step
  <2>4. PICK u : u = Step(v, ch)
    OBVIOUS
  <2>5. u.line = v.line /\ u.column = v.column + 1 /\ u.items = Append(v.items, x)
    BY <1>11, <2>1, <2>4 DEF Step, At
  <2>6. (IF u.line > 1 THEN u.column ELSE r.column + u.column) = c + 1
    BY <1>1, <1>4, <2>5, SMTT(40)
  <2>7. Shifted(x, r.line, r.column) = y
    <3>1. x.line = v.line /\ x.column = v.column /\ x.origin = Origin[ch]
      BY <2>1
    <3>2. CASE v.line = 1
      <4>1. l = r.line /\ c = v.column + r.column /\ v.line + r.line - 1 = l
        BY <1>1, <1>3, <1>4, <3>2
      <4>2. Shifted(x, r.line, r.column)
              = [x EXCEPT !.column = @ + r.column, !.line = @ + r.line - 1]
        BY <3>1, <3>2 DEF Shifted
      <4> QED
        BY <2>1, <2>2, <3>1, <4>1, <4>2
    <3>3. CASE v.line # 1
      <4>1. c = v.column /\ v.line + r.line - 1 = l
        <5>1. v.line > 1
          BY <1>1, <3>3
        <5>2. v.line + r.line - 1 = r.line + v.line - 1
          <6>1. \A a, b \in Int : a + b - 1 = b + a - 1
            OBVIOUS
          <6>2. v.line \in Int /\ r.line \in Int
            BY <1>1
          <6> QED
            BY <6>1, <6>2
        <5> QED
          BY <1>3, <1>4, <5>1, <5>2
      <4>2. Shifted(x, r.line, r.column) = [x EXCEPT !.column = @, !.line = @ + r.line - 1]
        BY <3>1, <3>3 DEF Shifted
      <4> QED
        BY <2>1, <2>2, <3>1, <4>1, <4>2
    <3> QED
      BY <3>2, <3>3
  <2>8. Moved(u.items, r.line, r.column) = Append(ms, y)
    <3>1. Moved(Append(v.items, x), r.line, r.column)
            = Append(Moved(v.items, r.line, r.column), Shifted(x, r.line, r.column))
      BY <1>1, MovedAppend, ZenonT(40)
    <3> QED
      BY <1>2, <2>5, <2>7, <3>1
  <2>9. Catenated(r.items, Append(ms, y)) = Append(is, y)
    <3>1. ms \in Seq(Position)
      BY <1>1, <1>2, MovedIs
    <3>2. Catenated(r.items, Append(ms, y)) = Append(Catenated(r.items, ms), y)
      BY <1>1, <2>2, <3>1, CatenatedAppend
    <3> QED
      BY <1>5, <3>2
  <2>10. Past(r, u) = At(l, c + 1, Append(is, y))
    BY <1>3, <2>5, <2>6, <2>8, <2>9 DEF Past
  <2> QED
    BY <1>7, <2>3, <2>4, <2>10
<1> QED
  BY <1>9, <1>10, <1>11

(* The reader of two texts is a reader. *)
LEMMA PastTyped ==
  ASSUME NEW r \in Readers, NEW v \in Readers
  PROVE  Past(r, v) \in Readers
<1>1. /\ r.line \in Nat \ {0} /\ r.column \in Nat /\ r.items \in Seq(Position)
      /\ v.line \in Nat \ {0} /\ v.column \in Nat /\ v.items \in Seq(Position)
  BY DEF Readers
<1>2. r.line + v.line - 1 \in Nat \ {0}
  BY <1>1
<1>3. (IF v.line > 1 THEN v.column ELSE r.column + v.column) \in Nat
  BY <1>1
<1>4. Catenated(r.items, Moved(v.items, r.line, r.column)) \in Seq(Position)
  BY <1>1, MovedIs, CatenatedTyped
<1> QED
  BY <1>2, <1>3, <1>4 DEF Past, At, Readers

(* Two texts, one behind the other. *)
LEMMA LaysBoth ==
  ASSUME NEW s \in Seq(Character), NEW t \in Seq(Character), NEW r, NEW v, Lays(s, r), Lays(t, v)
  PROVE  Lays(s \o t, Past(r, v)) /\ r \in Readers /\ v \in Readers
<1>1. PICK n \in Nat : n = Len(t)
  OBVIOUS
<1>2. PICK vs : Walking(vs, t) /\ v = vs[n]
  BY <1>1 DEF Lays
<1>3. \A k \in 0 .. n : vs[k] \in Readers
  BY <1>1, <1>2, WalkTyped
<1>4. r \in Readers
  <2>1. PICK rs : Walking(rs, s) /\ r = rs[Len(s)]
    BY DEF Lays
  <2>2. Len(s) \in 0 .. Len(s)
    OBVIOUS
  <2> QED
    BY <2>1, <2>2, WalkTyped
<1> DEFINE Upto(k) == s \o SubSeq(t, 1, k)
           T == {k \in 0 .. n : Lays(Upto(k), Past(r, vs[k]))}
<1>5. Upto(0) = s /\ Upto(n) = s \o t
  <2>1. PICK C : C = Character
    OBVIOUS
  <2>2. s \in Seq(C) /\ t \in Seq(C)
    BY <2>1
  <2> QED
    BY <1>1, <2>2
<1>6. ASSUME NEW k \in 0 .. n - 1 PROVE Upto(k + 1) = Append(Upto(k), t[k + 1])
  <2>1. PICK C : C = Character
    OBVIOUS
  <2>2. s \in Seq(C) /\ t \in Seq(C)
    BY <2>1
  <2> QED
    BY <1>1, <2>2
<1>7. \A k \in 0 .. n : Upto(k) \in Seq(Character)
  <2>1. PICK C : C = Character
    OBVIOUS
  <2>2. s \in Seq(C) /\ t \in Seq(C)
    BY <2>1
  <2>3. \A k \in 0 .. n : Upto(k) \in Seq(C)
    BY <1>1, <2>2
  <2> QED
    BY <2>1, <2>3
<1> HIDE DEF Upto
<1>8. 0 \in T
  <2>1. Past(r, Reader0) = r
    <3>1. PICK l, c, is : r = At(l, c, is) /\ l \in Nat \ {0} /\ c \in Nat /\ is \in Seq(Position)
      <4>1. r = At(r.line, r.column, r.items)
        BY <1>4 DEF Readers, At
      <4> QED
        BY <1>4, <4>1 DEF Readers
    <3>2. r.line = l /\ r.column = c /\ r.items = is
      BY <3>1 DEF At
    <3>3. PICK e : e = Moved(<<>>, l, c)
      OBVIOUS
    <3>4. <<>> \in Seq(Position)
      OBVIOUS
    <3>5. Len(<<>>) = 0
      OBVIOUS
    <3>6. e \in Seq(Position) /\ Len(e) = 0
      BY <3>1, <3>3, <3>4, <3>5, MovedIs
    <3>7. Catenated(is, e) = is
      BY <3>1, <3>6 DEF Catenated
    <3>8. Reader0.line = 1 /\ Reader0.column = 0 /\ Reader0.items = <<>>
      BY DEF Reader0, At
    <3>9. Past(r, Reader0) = At(l, c, is)
      BY <3>1, <3>2, <3>3, <3>7, <3>8 DEF Past
    <3> QED
      BY <3>1, <3>9
  <2> QED
    BY <1>2, <1>5, <2>1 DEF Walking
<1>9. ASSUME NEW k \in 0 .. n - 1, k \in T PROVE k + 1 \in T
  <2>1. PICK j \in 1 .. n : j = k + 1 /\ j - 1 = k
    OBVIOUS
  <2>2. vs[j] = Step(vs[k], t[j]) /\ t[j] \in Character /\ vs[k] \in Readers
    BY <1>1, <1>2, <1>3, <2>1 DEF Walking
  <2>3. Lays(Append(Upto(k), t[j]), Step(Past(r, vs[k]), t[j]))
    BY <1>7, <1>9, <2>2, LaysMore
  <2>4. Step(Past(r, vs[k]), t[j]) = Past(r, vs[j])
    BY <1>4, <2>2, StepPast
  <2>5. Upto(j) = Append(Upto(k), t[j])
    BY <1>6, <2>1
  <2>6. Lays(Upto(j), Past(r, vs[j]))
    BY <2>3, <2>4, <2>5
  <2>7. j \in 0 .. n
    OBVIOUS
  <2> QED
    BY <2>1, <2>6, <2>7
<1>10. Climbs(T, n)
  BY <1>8, <1>9 DEF Climbs
<1>11. n \in T
  <2> HIDE DEF T
  <2> QED
    BY <1>10, CountingUp
<1>12. n \in 0 .. n
  OBVIOUS
<1> QED
  BY <1>2, <1>3, <1>4, <1>5, <1>11, <1>12

-----------------------------------------------------------------------------
(* What a text lays out is what BundleMap says of it.                       *)

(* The mappings of one item more. *)
LEMMA LocatedAppend ==
  ASSUME NEW is \in Seq(Position), NEW x \in Position
  PROVE  Located(Append(is, x)) = FoundOf(Located(is), x.line, x.column, x.origin)
<1>1. PICK n \in Nat : n = Len(is)
  OBVIOUS
<1>2. PICK js : js = Append(is, x)
  OBVIOUS
<1>3. js \in Seq(Position) /\ Len(js) = n + 1 /\ js[n + 1] = x /\ \A i \in 1 .. n : js[i] = is[i]
  BY <1>1, <1>2
<1>4. PICK fs : Locating(fs, js) /\ Located(js) = fs[n + 1]
  BY <1>3, LocatingSteps
<1>5. Locating(fs, is)
  <2>1. \A k \in 1 .. n : k \in 1 .. n + 1
    OBVIOUS
  <2> QED
    BY <1>1, <1>3, <1>4, <2>1 DEF Locating
<1>6. Located(is) = fs[n]
  BY <1>1, <1>5, LocatedIs
<1>7. fs[n + 1] = FoundOf(fs[n], js[n + 1].line, js[n + 1].column, js[n + 1].origin)
  <2>1. n + 1 \in 1 .. n + 1 /\ (n + 1) - 1 = n
    OBVIOUS
  <2> QED
    BY <1>3, <1>4, <2>1 DEF Locating
<1> QED
  BY <1>2, <1>3, <1>4, <1>6, <1>7

(* No items, no mappings. *)
LEMMA LocatedNothing == Located(<<>>) = <<>>
<1>1. Len(<<>>) = 0
  OBVIOUS
<1>2. PICK fs : Locating(fs, <<>>) /\ Located(<<>>) = fs[0]
  <2>1. Len(<<>>) \in Nat
    BY <1>1
  <2> QED
    BY <1>1, <2>1, LocatingSteps
<1> QED
  BY <1>2 DEF Locating

(* What a fragment's items are is what FinalizeMapping takes. *)
LEMMA PositionsAreItems ==
  ASSUME NEW is \in Seq(Position)
  PROVE  is \in Seq(Item)
<1>1. Range(Origin) \subseteq Location
  BY CompositionAssumption DEF Range, Location
<1>2. Position \subseteq Item
  BY <1>1 DEF Position, Item
<1> QED
  BY <1>2

(* Characters at which lines of the bundle end as its writer counts them. *)
Breaking(breaks) == \A i \in 1 .. Len(output) : output[i] \in breaks <=> output[i] = NL

(* The line and the column to come are what the line feeds before tell. *)
LEMMA PlaceInBundle ==
  ASSUME output \in Seq(Character), NEW ws, Walking(ws, output), NEW k \in 0 .. Len(output),
         NEW breaks, Breaking(breaks)
  PROVE  /\ ws[k].line = 1 + Cardinality(LineFeedsBefore(k + 1, breaks))
         /\ ws[k].column = k - Max(LineFeedsBefore(k + 1, breaks) \union {0})
<1>1. PICK n \in Nat : n = Len(output)
  OBVIOUS
<1> DEFINE B(j) == LineFeedsBefore(j + 1, breaks)
           Here(j) == ws[j].line = 1 + Cardinality(B(j)) /\ ws[j].column = j - Max(B(j) \union {0})
           T == {j \in 0 .. n : Here(j)}
<1>2. ASSUME NEW j \in 0 .. n PROVE B(j) = {i \in 1 .. j : output[i] = NL}
  <2>1. (j + 1) - 1 = j
    OBVIOUS
  <2>2. \A i \in 1 .. j : output[i] \in breaks <=> output[i] = NL
    BY <1>1 DEF Breaking
  <2> QED
    BY <2>1, <2>2 DEF LineFeedsBefore
<1>3. ASSUME NEW j \in 0 .. n PROVE IsFiniteSet(B(j)) /\ Cardinality(B(j)) \in Nat
  <2>1. IsFiniteSet(1 .. j)
    BY FS_Interval
  <2>2. B(j) \subseteq 1 .. j
    BY <1>2
  <2> HIDE DEF B
  <2> QED
    BY <2>1, <2>2, FS_Subset, FS_CardinalityType
<1>4. ASSUME NEW S \in SUBSET Int, NEW m \in S, \A i \in S : i <= m PROVE Max(S) = m
  <2>1. m \in S /\ \A y \in S : m >= y
    BY <1>4
  <2>2. Max(S) \in S /\ \A y \in S : Max(S) >= y
    BY <2>1, Zenon DEF Max
  <2>3. PICK x : x = Max(S)
    OBVIOUS
  <2>4. x \in S /\ x >= m
    BY <2>1, <2>2, <2>3
  <2>5. x <= m /\ x \in Int /\ m \in Int
    BY <1>4, <2>4
  <2>6. x = m
    BY <2>4, <2>5
  <2> QED
    BY <2>3, <2>6
<1> HIDE DEF B
<1>5. 0 \in T
  <2>1. B(0) = {}
    <3>1. 0 \in 0 .. n /\ 1 .. 0 = {}
      OBVIOUS
    <3> QED
      BY <1>2, <3>1
  <2>2. Cardinality(B(0)) = 0
    BY <2>1, FS_EmptySet
  <2>3. Max(B(0) \union {0}) = 0
    <3>1. B(0) \union {0} = {0}
      BY <2>1
    <3>2. Max({0}) = 0
      <4>1. PICK S : S = {0}
        OBVIOUS
      <4>2. S \in SUBSET Int /\ 0 \in S /\ \A i \in S : i <= 0
        BY <4>1
      <4> QED
        BY <1>4, <4>1, <4>2
    <3> QED
      BY <3>1, <3>2
  <2>4. ws[0].line = 1 /\ ws[0].column = 0
    BY DEF Walking, Reader0, At
  <2> QED
    BY <2>2, <2>3, <2>4
<1>6. ASSUME NEW j \in 0 .. n - 1, j \in T PROVE j + 1 \in T
  <2>1. PICK m \in 1 .. n : m = j + 1 /\ m - 1 = j /\ m \in 0 .. n /\ j \in 0 .. n
    OBVIOUS
  <2>2. ws[m] = Step(ws[j], output[m])
    BY <1>1, <2>1 DEF Walking
  <2>3. Here(j)
    BY <1>6
  <2>4. ws[j] \in Readers
    BY <1>1, <2>1, WalkTyped
  <2>5. CASE output[m] = NL
    <3>1. B(m) = B(j) \union {m} /\ m \notin B(j)
      <4>1. /\ B(m) = {i \in 1 .. m : output[i] = NL}
            /\ B(j) = {i \in 1 .. j : output[i] = NL}
        BY <1>2, <2>1
      <4>2. 1 .. m = (1 .. j) \union {m} /\ m \notin 1 .. j
        BY <2>1
      <4> QED
        BY <2>5, <4>1, <4>2
    <3>2. Cardinality(B(m)) = Cardinality(B(j)) + 1
      BY <1>3, <2>1, <3>1, FS_AddElement
    <3>3. Max(B(m) \union {0}) = m
      <4>1. PICK S : S = B(m) \union {0}
        OBVIOUS
      <4>2. S \in SUBSET Int /\ m \in S /\ \A i \in S : i <= m
        BY <1>2, <2>1, <3>1, <4>1
      <4> QED
        BY <1>4, <4>1, <4>2
    <3>4. ws[m].line = ws[j].line + 1 /\ ws[m].column = 0
      BY <2>2, <2>5 DEF Step, At
    <3>5. Cardinality(B(j)) \in Nat
      BY <1>3, <2>1
    <3>6. Here(m)
      BY <2>3, <3>2, <3>3, <3>4, <3>5
    <3> QED
      BY <2>1, <3>6
  <2>6. CASE output[m] # NL
    <3>1. B(m) = B(j)
      <4>1. /\ B(m) = {i \in 1 .. m : output[i] = NL}
            /\ B(j) = {i \in 1 .. j : output[i] = NL}
        BY <1>2, <2>1
      <4>2. 1 .. m = (1 .. j) \union {m}
        BY <2>1
      <4> QED
        BY <2>6, <4>1, <4>2
    <3>2. ws[m].line = ws[j].line /\ ws[m].column = ws[j].column + 1
      BY <2>2, <2>6 DEF Step, At
    <3>3. ws[j].column \in Nat
      BY <2>4 DEF Readers
    <3>4. Max(B(j) \union {0}) \in Int
      <4>1. PICK S : S = B(j) \union {0}
        OBVIOUS
      <4>2. S \in SUBSET Nat /\ IsFiniteSet(S) /\ S # {}
        <5>1. IsFiniteSet({0})
          BY FS_Singleton
        <5>2. IsFiniteSet(B(j))
          BY <1>3, <2>1
        <5>3. IsFiniteSet(S)
          BY <4>1, <5>1, <5>2, FS_Union
        <5>4. B(j) \subseteq 1 .. j
          BY <1>2, <2>1
        <5> QED
          BY <4>1, <5>3, <5>4
      <4>3. \A i \in S : i <= j
        BY <1>2, <2>1, <4>1
      <4>4. \E x \in S : \A y \in S : x >= y
        <5> DEFINE U == {i \in 0 .. j : \A y \in S : y <= i}
        <5>1. j \in U
          BY <2>1, <4>3
        <5>2. PICK x \in U : \A y \in U : x <= y
          <6>1. j \in Nat
            BY <2>1
          <6>2. \A i \in U : i \in Nat
            BY ONLY <6>1
          <6>3. U \in SUBSET Nat /\ U # {}
            BY ONLY <5>1, <6>2
          <6> HIDE DEF U
          <6> QED
            BY <6>3, LeastNatural
        <5>3. ASSUME x \notin S PROVE FALSE
          <6>1. x # 0
            BY <4>1, <5>3
          <6>2. x - 1 \in 0 .. j
            BY <2>1, <6>1
          <6>3. \A y \in S : y <= x - 1
            BY <4>2, <5>3
          <6> QED
            BY <5>2, <6>2, <6>3
        <5> QED
          BY <4>2, <5>3
      <4>5. Max(S) \in S
        BY <4>4 DEF Max
      <4> QED
        BY <4>1, <4>2, <4>5
    <3>5. Here(m)
      <4>1. PICK M \in Int : M = Max(B(j) \union {0})
        BY <3>4
      <4>2. ws[m].column = m - M
        BY <2>1, <2>3, <3>2, <3>3, <4>1
      <4> QED
        BY <2>3, <3>1, <3>2, <4>1, <4>2
    <3> QED
      BY <2>1, <3>5
  <2> QED
    BY <2>5, <2>6
<1>7. Climbs(T, n)
  BY <1>5, <1>6 DEF Climbs
<1>8. k \in T
  <2> HIDE DEF T
  <2> QED
    BY <1>1, <1>7, CountingUp
<1> QED
  BY <1>8 DEF B

(* The items come line by line, none from a line yet to come. *)
InLineOrder(r) ==
  Ordered(r.items) /\ \A i \in 1 .. Len(r.items) : r.items[i].line <= r.line

(* A character more keeps them so. *)
LEMMA StepInOrder ==
  ASSUME NEW r \in Readers, InLineOrder(r), NEW ch \in Character
  PROVE  InLineOrder(Step(r, ch))
<1>1. PICK l \in Nat \ {0}, c \in Nat, is \in Seq(Position) :
           l = r.line /\ c = r.column /\ is = r.items
  BY DEF Readers
<1>2. PICK n \in Nat : n = Len(is)
  OBVIOUS
<1>3. /\ \A i \in 1 .. n - 1 : is[i].line <= is[i + 1].line
      /\ \A i \in 1 .. n : is[i].line <= l /\ is[i].line \in Nat
  <2>1. \A i \in 1 .. n : is[i] \in Position
    BY <1>2
  <2> QED
    BY <1>1, <1>2, <2>1 DEF InLineOrder, Ordered, Position
<1>4. PICK q : q = Step(r, ch)
  OBVIOUS
<1>5. CASE ch = NL
  <2>1. q.items = is /\ q.line = l + 1
    BY <1>1, <1>4, <1>5 DEF Step, At
  <2>2. \A i \in 1 .. n : is[i].line <= l + 1
    BY <1>3
  <2> QED
    BY <1>2, <1>3, <1>4, <2>1, <2>2 DEF InLineOrder, Ordered
<1>6. CASE ch # NL /\ ch \notin NodeName
  <2>1. q.items = is /\ q.line = l
    BY <1>1, <1>4, <1>6 DEF Step, At
  <2> QED
    BY <1>2, <1>3, <1>4, <2>1 DEF InLineOrder, Ordered
<1>7. CASE ch # NL /\ ch \in NodeName
  <2>1. PICK x \in Position : x = [origin |-> Origin[ch], line |-> l, column |-> c]
    BY <1>7, NamedItem
  <2>2. q.items = Append(is, x) /\ q.line = l
    BY <1>1, <1>4, <1>7, <2>1 DEF Step, At
  <2>3. PICK js : js = Append(is, x)
    OBVIOUS
  <2>4. Len(js) = n + 1 /\ js[n + 1] = x /\ \A i \in 1 .. n : js[i] = is[i]
    BY <1>2, <2>3
  <2>5. x.line = l
    BY <2>1
  <2>6. \A i \in 1 .. n + 1 : js[i].line <= l
    <3> TAKE i \in 1 .. n + 1
    <3>1. i \in 1 .. n \/ i = n + 1
      OBVIOUS
    <3> QED
      BY <1>3, <2>4, <2>5, <3>1
  <2>7. \A i \in 1 .. n : js[i].line <= js[i + 1].line
    <3> TAKE i \in 1 .. n
    <3>1. CASE i = n
      BY <1>3, <2>4, <2>5, <3>1
    <3>2. CASE i # n
      <4>1. i \in 1 .. n - 1 /\ i + 1 \in 1 .. n
        BY <3>2
      <4> QED
        BY <1>3, <2>4, <4>1
    <3> QED
      BY <3>1, <3>2
  <2>8. Len(js) - 1 = n
    BY <2>4
  <2> QED
    BY <1>4, <2>2, <2>3, <2>4, <2>6, <2>7, <2>8 DEF InLineOrder, Ordered
<1> QED
  BY <1>4, <1>5, <1>6, <1>7

(* So they are wherever a reader is. *)
LEMMA WalkInOrder ==
  ASSUME NEW t \in Seq(Character), NEW ws, Walking(ws, t)
  PROVE  \A k \in 0 .. Len(t) : InLineOrder(ws[k])
<1>1. PICK n \in Nat : n = Len(t)
  OBVIOUS
<1> DEFINE T == {k \in 0 .. n : InLineOrder(ws[k])}
<1>2. 0 \in T
  <2>1. ws[0].items = <<>> /\ Len(<<>>) = 0
    BY DEF Walking, Reader0, At
  <2> QED
    BY <2>1 DEF InLineOrder, Ordered
<1>3. ASSUME NEW k \in 0 .. n - 1, k \in T PROVE k + 1 \in T
  <2>1. PICK j \in 1 .. n : j = k + 1 /\ j - 1 = k /\ j \in 0 .. n /\ k \in 0 .. n
    OBVIOUS
  <2>2. ws[j] = Step(ws[k], t[j]) /\ t[j] \in Character /\ ws[k] \in Readers
    BY <1>1, <2>1, WalkTyped DEF Walking
  <2>3. InLineOrder(ws[j])
    BY <1>3, <2>2, StepInOrder
  <2> QED
    BY <2>1, <2>3
<1>4. Climbs(T, n)
  BY <1>2, <1>3 DEF Climbs
<1>5. \A k \in 0 .. n : k \in T
  <2> HIDE DEF T
  <2> QED
    BY <1>4, CountingUp
<1> QED
  BY <1>1, <1>5

(* MappingsBy goes through the bundle as a reader of it does. *)
LEMMA ReadersGather ==
  ASSUME output \in Seq(Character), NEW ws, Walking(ws, output), NEW breaks, Breaking(breaks)
  PROVE  MappingsBy(breaks) = Located(ws[Len(output)].items)
<1>1. PICK n \in Nat : n = Len(output)
  OBVIOUS
<1> DEFINE Of(g, i) == CASE i = 0 -> <<>>
                         [] i # 0 /\ HasOrigin(i) -> Append(g[i - 1], MappingOf(i, breaks))
                         [] OTHER -> g[i - 1]
           f == [i \in 0 .. n |-> Located(ws[i].items)]
           b == CHOOSE g : g = [i \in 0 .. n |-> Of(g, i)]
<1>2. MappingsBy(breaks) = b[n]
  BY <1>1 DEF MappingsBy
<1>3. ASSUME NEW i \in 0 .. n PROVE f[i] = Of(f, i)
  <2>1. CASE i = 0
    <3>1. ws[0].items = <<>>
      BY DEF Walking, Reader0, At
    <3> QED
      BY <2>1, <3>1, LocatedNothing
  <2>2. CASE i # 0
    <3>1. PICK k \in 0 .. n : k = i - 1 /\ i = k + 1 /\ i \in 1 .. n
      BY <2>2
    <3>2. ws[i] = Step(ws[k], output[i]) /\ output[i] \in Character /\ ws[k] \in Readers
      BY <1>1, <3>1, WalkTyped DEF Walking
    <3>3. f[k] = Located(ws[k].items) /\ f[i] = Located(ws[i].items)
      BY <3>1
    <3>4. PICK l \in Nat \ {0}, c \in Nat, is \in Seq(Position) :
               l = ws[k].line /\ c = ws[k].column /\ is = ws[k].items
      BY <3>2 DEF Readers
    <3>5. CASE output[i] \in NodeName
      <4>1. PICK x \in Position : x = [origin |-> Origin[output[i]], line |-> l, column |-> c]
        BY <3>5, NamedItem
      <4>2. ws[i].items = Append(is, x)
        <5>1. output[i] # NL
          BY <3>5, CompositionAssumption
        <5>2. Step(ws[k], output[i]) = At(l, c + 1, Append(is, x))
          BY <3>4, <3>5, <4>1, <5>1 DEF Step
        <5> QED
          BY <3>2, <5>2 DEF At
      <4>3. f[i] = FoundOf(f[k], l, c, Origin[output[i]])
        <5>1. x.line = l /\ x.column = c /\ x.origin = Origin[output[i]]
          BY <4>1
        <5>2. Located(Append(is, x)) = FoundOf(Located(is), x.line, x.column, x.origin)
          BY LocatedAppend
        <5> HIDE DEF f
        <5> QED
          BY <3>3, <3>4, <4>2, <5>1, <5>2
      <4>4. l = 1 + Cardinality(LineFeedsBefore(i, breaks)) /\ c = k - Max(LineFeedsBefore(i, breaks) \union {0})
        <5>1. /\ ws[k].line = 1 + Cardinality(LineFeedsBefore(k + 1, breaks))
              /\ ws[k].column = k - Max(LineFeedsBefore(k + 1, breaks) \union {0})
          BY <1>1, <3>1, PlaceInBundle
        <5> QED
          BY <3>1, <3>4, <5>1
      <4>5. PICK o : o = Origin[output[i]] /\ o.fileId \in Int
        BY <3>5, CompositionAssumption
      <4>6. MappingOf(i, breaks) = Mapping(l, c, o.fileId, o.line, o.column)
        BY <3>1, <4>4, <4>5 DEF MappingOf
      <4>7. CASE o.fileId < 0
        <5>1. ~ HasOrigin(i)
          BY <4>5, <4>7 DEF HasOrigin
        <5>2. f[i] = f[k]
          BY <4>3, <4>5, <4>7 DEF FoundOf
        <5> HIDE DEF f
        <5> QED
          BY <2>2, <3>1, <5>1, <5>2
      <4>8. CASE ~ (o.fileId < 0)
        <5>1. HasOrigin(i)
          BY <3>5, <4>5, <4>8 DEF HasOrigin
        <5>2. f[i] = Append(f[k], MappingOf(i, breaks))
          BY <4>3, <4>5, <4>6, <4>8 DEF FoundOf
        <5> HIDE DEF f
        <5> QED
          BY <2>2, <3>1, <5>1, <5>2
      <4> QED
        BY <4>7, <4>8
    <3>6. CASE output[i] \notin NodeName
      <4>1. ws[i].items = is
        BY <3>2, <3>4, <3>6 DEF Step, At
      <4>2. ~ HasOrigin(i)
        BY <3>6 DEF HasOrigin
      <4>3. f[i] = f[k]
        BY <3>3, <3>4, <4>1
      <4> HIDE DEF f
      <4> QED
        BY <2>2, <3>1, <4>2, <4>3
    <3> QED
      BY <3>5, <3>6
  <2> QED
    BY <2>1, <2>2
<1>4. f = [i \in 0 .. n |-> Of(f, i)]
  <2>1. \A i \in 0 .. n : Located(ws[i].items) = Of(f, i)
    BY <1>3
  <2> HIDE DEF Of
  <2> QED
    BY <2>1, Zenon
<1>5. b = [i \in 0 .. n |-> Of(b, i)]
  <2> HIDE DEF Of, f
  <2> QED
    BY <1>4
<1>6. f[n] = Located(ws[n].items)
  OBVIOUS
<1> HIDE DEF f, b
<1> DEFINE T == {k \in 0 .. n : b[k] = f[k]}
<1>7. 0 \in T
  <2>1. b[0] = Of(b, 0) /\ f[0] = Of(f, 0)
    <3>1. 0 \in 0 .. n
      BY <1>1
    <3> HIDE DEF Of
    <3> QED
      BY <1>4, <1>5, <3>1
  <2> QED
    BY <2>1
<1>8. ASSUME NEW k \in 0 .. n - 1, k \in T PROVE k + 1 \in T
  <2>1. PICK j \in 0 .. n : j = k + 1 /\ j - 1 = k /\ j # 0
    OBVIOUS
  <2>2. b[j] = Of(b, j) /\ f[j] = Of(f, j)
    <3> HIDE DEF Of
    <3> QED
      BY <1>4, <1>5
  <2>3. Of(b, j) = Of(f, j)
    BY <1>8, <2>1
  <2> HIDE DEF Of
  <2> QED
    BY <2>1, <2>2, <2>3
<1>9. Climbs(T, n)
  BY <1>7, <1>8 DEF Climbs
<1>10. n \in T
  <2> HIDE DEF T
  <2> QED
    BY <1>9, CountingUp
<1> QED
  BY <1>1, <1>2, <1>6, <1>10

-----------------------------------------------------------------------------
(* A fragment says truly what its text lays out.                            *)

Laid(f) == Lays(f.text, At(f.line, f.column, f.items))

(* A write keeps it true, if what comes from a node is written on the line that *)
(* the mapping collector counts, which is the fragment's until minification     *)
(* leaves out a line end.                                                       *)
LEMMA WrittenLaid ==
  ASSUME NEW prog \in Program, prog.sourcemap, NEW f \in Fragment, Laid(f), NEW op \in Op,
         op.kind = "node" => f.dist = f.line
  PROVE  /\ Laid(Written(prog, f, op))
         /\ f.dist = f.line /\ (prog.minify => op.kind # "eol") =>
              Written(prog, f, op).dist = Written(prog, f, op).line
<1>1. /\ f.text \in Seq(Character) /\ f.line \in Nat \ {0} /\ f.column \in Nat
      /\ f.items \in Seq(Position)
  BY DEF Fragment, Character
<1>2. PICK r : r = At(f.line, f.column, f.items)
  OBVIOUS
<1>3. r.line = f.line /\ r.column = f.column /\ r.items = f.items
  BY <1>2 DEF At
<1>4. ASSUME NEW ch \in Character PROVE Lays(Append(f.text, ch), Step(r, ch))
  BY <1>1, <1>2, <1>4, LaysMore DEF Laid
<1>5. /\ Plain \in Character /\ Plain # NL /\ Plain \notin NodeName /\ NL \in Character
      /\ Inner \in Character /\ Inner # NL /\ Inner \notin NodeName
      /\ \A ch \in NodeName : ch \in Character /\ ch # NL
  BY CompositionAssumption DEF Character
<1>6. PICK g : g = Written(prog, f, op)
  OBVIOUS
<1>7. CASE op.kind = "text"
  <2>1. g = [f EXCEPT !.text = Append(@, Plain), !.column = @ + 1]
    BY <1>6, <1>7 DEF Written
  <2>2. /\ g.text = Append(f.text, Plain) /\ g.line = f.line /\ g.column = f.column + 1
        /\ g.items = f.items /\ g.dist = f.dist
    BY <2>1 DEF Fragment
  <2>3. Step(r, Plain) = At(g.line, g.column, g.items)
    BY <1>3, <1>5, <2>2 DEF Step
  <2> QED
    BY <1>4, <1>5, <1>6, <2>2, <2>3 DEF Laid
<1>8. CASE op.kind = "node"
  <2>1. op.name \in NodeName
    BY <1>8 DEF Op
  <2>2. PICK x : x = [origin |-> Origin[op.name], line |-> f.line, column |-> f.column]
    OBVIOUS
  <2>3. g = [f EXCEPT !.text = Append(@, op.name), !.column = @ + 1, !.items = Append(@, x)]
    BY <1>6, <1>8, <2>2 DEF Written
  <2>4. /\ g.text = Append(f.text, op.name) /\ g.line = f.line /\ g.column = f.column + 1
        /\ g.items = Append(f.items, x) /\ g.dist = f.dist
    BY <2>3 DEF Fragment
  <2>5. Step(r, op.name) = At(g.line, g.column, g.items)
    BY <1>3, <1>5, <2>1, <2>2, <2>4 DEF Step
  <2> QED
    BY <1>4, <1>5, <1>6, <2>1, <2>4, <2>5 DEF Laid
<1>9. CASE op.kind = "eol" /\ ~ prog.minify
  <2>1. ~ prog.minify
    BY <1>9
  <2>2. PICK e : e = [f EXCEPT !.dist = @ + 1]
    OBVIOUS
  <2>3. g = [e EXCEPT !.text = Append(@, NL), !.line = @ + 1, !.column = 0]
    BY <1>6, <1>9, <2>1, <2>2 DEF Written
  <2>4. /\ e.text = f.text /\ e.line = f.line /\ e.items = f.items /\ e.dist = f.dist + 1
        /\ e \in [text : Seq(Character), line : Nat \ {0}, column : Nat, dist : Nat,
                  items : Seq(Position), wrapped : BOOLEAN]
    BY <2>2 DEF Fragment, Character
  <2>5. /\ g.text = Append(f.text, NL) /\ g.line = f.line + 1 /\ g.column = 0
        /\ g.items = f.items /\ g.dist = f.dist + 1
    BY <2>3, <2>4
  <2>6. Step(r, NL) = At(g.line, g.column, g.items)
    BY <1>3, <2>5 DEF Step
  <2> QED
    BY <1>4, <1>5, <1>6, <2>5, <2>6 DEF Laid
<1>10. CASE op.kind = "eol" /\ prog.minify
  <2>1. g = [f EXCEPT !.dist = @ + 1]
    BY <1>6, <1>10 DEF Written
  <2>2. g.text = f.text /\ g.line = f.line /\ g.column = f.column /\ g.items = f.items
    BY <2>1 DEF Fragment
  <2> QED
    BY <1>6, <1>10, <2>2 DEF Laid
<1>11. CASE op.kind = "raw"
  <2>1. g = [f EXCEPT !.text = Append(@, Inner), !.column = @ + 1]
    BY <1>6, <1>11 DEF Written
  <2>2. /\ g.text = Append(f.text, Inner) /\ g.line = f.line /\ g.column = f.column + 1
        /\ g.items = f.items /\ g.dist = f.dist
    BY <2>1 DEF Fragment
  <2>3. Step(r, Inner) = At(g.line, g.column, g.items)
    BY <1>3, <1>5, <2>2 DEF Step
  <2> QED
    BY <1>4, <1>5, <1>6, <2>2, <2>3 DEF Laid
<1>12. op.kind \in {"text", "node", "eol", "raw"}
  BY DEF Op
<1> QED
  BY <1>7, <1>8, <1>9, <1>10, <1>11, <1>12

(* So it is true of all the writes of a code. *)
LEMMA GeneratedLaid ==
  ASSUME NEW prog \in Program, prog.sourcemap, NEW code \in Seq(Op), prog.minify => OneLine(code)
  PROVE  Laid(Generated(prog, code))
<1>1. PICK n \in Nat : n = Len(code)
  OBVIOUS
<1> DEFINE F == Fragments(prog, code)
           Ended(k) == prog.minify /\ \E i \in 1 .. k : code[i].kind = "eol"
           T == {k \in 0 .. n : Laid(F[k]) /\ (F[k].dist = F[k].line \/ Ended(k))}
<1>2. /\ F \in [0 .. n -> Fragment] /\ F[0] = Blank
      /\ \A i \in 1 .. n : F[i] = Written(prog, F[i - 1], code[i])
  BY <1>1, FragmentsStep
<1> HIDE DEF F
<1>3. 0 \in T
  <2>1. /\ Blank.text = <<>> /\ Blank.line = 1 /\ Blank.column = 0 /\ Blank.items = <<>>
        /\ Blank.dist = 1
    BY DEF Blank
  <2> QED
    BY <1>2, <2>1, LaysNothing DEF Laid, Reader0
<1>4. ASSUME NEW k \in 0 .. n - 1, k \in T PROVE k + 1 \in T
  <2>1. PICK j \in 1 .. n : j = k + 1 /\ j - 1 = k /\ j \in 0 .. n /\ k \in 0 .. n
    OBVIOUS
  <2>2. F[j] = Written(prog, F[k], code[j]) /\ F[k] \in Fragment /\ code[j] \in Op
    BY <1>1, <1>2, <2>1
  <2>3. code[j].kind = "node" => F[k].dist = F[k].line
    <3>1. SUFFICES ASSUME code[j].kind = "node", Ended(k) PROVE FALSE
      BY <1>4
    <3>2. PICK i \in 1 .. k : code[i].kind = "eol"
      BY <3>1
    <3>3. i \in DOMAIN code /\ j \in DOMAIN code /\ i < j
      BY <1>1, <2>1
    <3> QED
      BY <3>1, <3>2, <3>3 DEF OneLine
  <2>4. /\ Laid(F[j])
        /\ F[k].dist = F[k].line /\ (prog.minify => code[j].kind # "eol") =>
             F[j].dist = F[j].line
    BY <1>4, <2>2, <2>3, WrittenLaid
  <2>5. F[j].dist = F[j].line \/ Ended(j)
    <3>1. CASE Ended(k)
      BY <2>1, <3>1
    <3>2. CASE prog.minify /\ code[j].kind = "eol"
      BY <3>2
    <3>3. CASE ~ Ended(k) /\ ~ (prog.minify /\ code[j].kind = "eol")
      BY <1>4, <2>4, <3>3
    <3> QED
      BY <3>1, <3>2, <3>3
  <2> QED
    BY <2>1, <2>4, <2>5
<1>5. Climbs(T, n)
  BY <1>3, <1>4 DEF Climbs
<1>6. n \in T
  <2> HIDE DEF T
  <2> QED
    BY <1>5, CountingUp
<1> QED
  BY <1>1, <1>6 DEF F, Generated

-----------------------------------------------------------------------------
(* What the compositor's thread will have collected.                        *)

(* mapping_items_ after a task, *)
Collect(is, t) ==
  IF t.kind = "items" THEN Catenated(is, Moved(t.items, t.line, t.column)) ELSE is

(* ... and after several. *)
Collecting(cs, from, ts) ==
  cs[0] = from /\ \A k \in 1 .. Len(ts) : cs[k] = Collect(cs[k - 1], ts[k])
Collects(from, ts, to) == \E cs : Collecting(cs, from, ts) /\ to = cs[Len(ts)]

(* No task, nothing new. *)
LEMMA CollectsNothing ==
  ASSUME NEW from, NEW ts, Len(ts) = 0, NEW to
  PROVE  Collects(from, ts, to) <=> to = from
<1>1. ASSUME Collects(from, ts, to) PROVE to = from
  BY <1>1 DEF Collects, Collecting
<1>2. ASSUME to = from PROVE Collects(from, ts, to)
  <2> DEFINE cs == [k \in 0 .. 0 |-> from]
  <2>1. cs[0] = from
    OBVIOUS
  <2> HIDE DEF cs
  <2>2. Collecting(cs, from, ts)
    BY <2>1 DEF Collecting
  <2> QED
    BY <1>2, <2>1, <2>2 DEF Collects
<1> QED
  BY <1>1, <1>2

(* One task more at the end, *)
LEMMA CollectsMore ==
  ASSUME NEW from, NEW p \in Seq(Task), NEW to, Collects(from, p, to), NEW t,
         NEW q \in Seq(Task), Len(q) = Len(p) + 1, q[Len(p) + 1] = t,
         \A i \in 1 .. Len(p) : q[i] = p[i]
  PROVE  Collects(from, q, Collect(to, t))
<1>1. PICK n \in Nat : n = Len(p)
  OBVIOUS
<1>2. PICK cs : Collecting(cs, from, p) /\ to = cs[n]
  BY <1>1 DEF Collects
<1> DEFINE ds == [k \in 0 .. n + 1 |-> IF k = n + 1 THEN Collect(to, t) ELSE cs[k]]
<1>3. ds[n + 1] = Collect(to, t) /\ ds[0] = cs[0] /\ ds[n] = to
      /\ \A k \in 0 .. n : ds[k] = cs[k]
  BY <1>1, <1>2
<1> HIDE DEF ds
<1>4. ASSUME NEW k \in 1 .. n + 1 PROVE ds[k] = Collect(ds[k - 1], q[k])
  <2>1. CASE k = n + 1
    BY <1>1, <1>3, <2>1
  <2>2. CASE k # n + 1
    <3>1. k \in 1 .. n /\ k \in 0 .. n /\ k - 1 \in 0 .. n
      BY <2>2
    <3> QED
      BY <1>1, <1>2, <1>3, <3>1 DEF Collecting
  <2> QED
    BY <2>1, <2>2
<1>5. Collecting(ds, from, q)
  BY <1>1, <1>2, <1>3, <1>4 DEF Collecting
<1> QED
  BY <1>1, <1>3, <1>5 DEF Collects

(* ... and the first done. *)
LEMMA CollectsRest ==
  ASSUME NEW from, NEW p \in Seq(Task), NEW to, Collects(from, p, to),
         NEW q \in Seq(Task), Len(p) = Len(q) + 1, \A i \in 1 .. Len(q) : q[i] = p[i + 1]
  PROVE  Collects(Collect(from, p[1]), q, to)
<1>1. PICK n \in Nat : n = Len(q)
  OBVIOUS
<1>2. PICK cs : Collecting(cs, from, p) /\ to = cs[n + 1]
  BY <1>1 DEF Collects
<1> DEFINE ds == [k \in 0 .. n |-> cs[k + 1]]
<1>3. \A k \in 0 .. n : ds[k] = cs[k + 1]
  OBVIOUS
<1> HIDE DEF ds
<1>4. ASSUME NEW k \in 1 .. n PROVE ds[k] = Collect(ds[k - 1], q[k])
  <2>1. PICK j \in 1 .. n + 1 : j = k + 1 /\ j - 1 = k
    OBVIOUS
  <2>2. cs[j] = Collect(cs[k], p[j])
    BY <1>1, <1>2, <2>1 DEF Collecting
  <2>3. k - 1 \in 0 .. n /\ (k - 1) + 1 = k /\ k \in 0 .. n
    OBVIOUS
  <2>4. ds[k] = cs[j] /\ ds[k - 1] = cs[k]
    BY <1>3, <2>1, <2>3
  <2>5. q[k] = p[j]
    BY <1>1, <2>1
  <2> QED
    BY <2>2, <2>4, <2>5
<1>5. ds[0] = Collect(from, p[1]) /\ ds[n] = to
  <2>1. 1 \in 1 .. n + 1 /\ 0 \in 0 .. n /\ n \in 0 .. n /\ 1 - 1 = 0 /\ 0 + 1 = 1
    BY <1>1
  <2>2. cs[1] = Collect(cs[0], p[1]) /\ cs[0] = from
    BY <1>1, <1>2, <2>1 DEF Collecting
  <2> QED
    BY <1>2, <1>3, <2>1, <2>2
<1>6. Collecting(ds, Collect(from, p[1]), q)
  BY <1>1, <1>4, <1>5 DEF Collecting
<1> QED
  BY <1>1, <1>5, <1>6 DEF Collects

-----------------------------------------------------------------------------
(* The map's side of the invariant: the items collected, and those that the  *)
(* tasks still to come will add, are what the bundle so far lays out.        *)
AllSections == <<"header", "sources", "mappings">>
Followed == program.sourcemap /\ LinesKept
BInv ==
  /\ Followed =>
       \E to : Collects(items, Pending, to) /\ Lays(output, At(line, column, to))
  /\ mapFile = AllSections => program.sourcemap /\ mapped = items

(* What the program is stays. *)
LEMMA FollowedStays == ASSUME program' = program PROVE Followed' <=> Followed
  BY DEF Followed, LinesKept

(* A step that changes none of it. *)
LEMMA BundleFrame ==
  ASSUME BInv, Pending' = Pending, UNCHANGED <<program, items, cursor, mapFile, mapped>>
  PROVE  BInv'
<1>1. PICK p, o, l, c, is, f, sm, m :
           /\ p = Pending /\ o = output /\ l = line /\ c = column /\ is = items
           /\ f = mapFile /\ sm = program.sourcemap /\ m = mapped
  OBVIOUS
<1>2. /\ Pending' = p /\ output' = o /\ line' = l /\ column' = c /\ items' = is
      /\ mapFile' = f /\ program'.sourcemap = sm /\ mapped' = m
      /\ (Followed' <=> Followed)
  BY <1>1, FollowedStays DEF cursor
<1>3. /\ Followed => \E to : Collects(is, p, to) /\ Lays(o, At(l, c, to))
      /\ f = AllSections => sm /\ m = is
  BY <1>1 DEF BInv
<1> QED
  BY <1>2, <1>3 DEF BInv

(* What the items of a bundle so far are. *)
LEMMA LaysItems ==
  ASSUME NEW o \in Seq(Character), NEW l, NEW c, NEW is, Lays(o, At(l, c, is))
  PROVE  At(l, c, is) \in Readers /\ is \in Seq(Position)
<1>1. PICK ws : Walking(ws, o) /\ At(l, c, is) = ws[Len(o)]
  BY DEF Lays
<1>2. Len(o) \in 0 .. Len(o)
  OBVIOUS
<1>3. At(l, c, is) \in Readers
  BY <1>1, <1>2, WalkTyped
<1>4. At(l, c, is).items = is
  BY DEF At
<1> QED
  BY <1>3, <1>4 DEF Readers

(* A fragment is appended. *)
LEMMA AppendBundle ==
  ASSUME PInv, MInv, BInv, NEW f \in Fragment, Followed => Laid(f),
         AppendFragment(f), UNCHANGED <<program, mapper>>
  PROVE  BInv'
<1>1. PICK p, q, o, l, c, is, sm, t :
           /\ p = Pending /\ q = Pending' /\ o = output /\ l = line /\ c = column /\ is = items
           /\ sm = program.sourcemap
           /\ t = [kind |-> "items", items |-> f.items, line |-> line, column |-> column]
  OBVIOUS
<1>2. t \in Task /\ tasks' = Append(tasks, t) /\ t.kind = "items" /\ t.items = f.items
      /\ t.line = l /\ t.column = c
  BY <1>1, AppendTyped DEF PInv
<1>3. /\ p \in Seq(Task) /\ q \in Seq(Task) /\ Len(q) = Len(p) + 1 /\ q[Len(p) + 1] = t
      /\ \A i \in 1 .. Len(p) : q[i] = p[i]
  BY <1>1, <1>2, Handed DEF PInv, MInv, mapper
<1>4. /\ o \in Seq(Character) /\ l \in Nat \ {0} /\ c \in Nat
      /\ f.text \in Seq(Character) /\ f.line \in Nat \ {0} /\ f.column \in Nat
  BY <1>1 DEF PInv, TypeOK, Character, Fragment
<1>5. /\ output' = o \o f.text /\ line' = l + f.line - 1 /\ column' = ColumnAfter(f, c)
      /\ program'.sourcemap = sm /\ items' = is /\ mapFile' = mapFile /\ mapped' = mapped
      /\ (Followed' <=> Followed)
  BY <1>1, FollowedStays DEF AppendFragment, mapper
<1>6. ASSUME Followed PROVE \E to : Collects(is, q, to) /\ Lays(output', At(line', column', to))
  <2>1. PICK to : Collects(is, p, to) /\ Lays(o, At(l, c, to))
    BY <1>1, <1>6 DEF BInv
  <2>2. PICK r, v : r = At(l, c, to) /\ v = At(f.line, f.column, f.items)
    OBVIOUS
  <2>3. Lays(o \o f.text, Past(r, v))
    BY <1>1, <1>4, <1>6, <2>1, <2>2, LaysBoth DEF Laid
  <2>4. PICK next : next = Collect(to, t)
    OBVIOUS
  <2>5. next = Catenated(to, Moved(f.items, l, c))
    BY <1>2, <2>4 DEF Collect
  <2>6. /\ r.line = l /\ r.column = c /\ r.items = to
        /\ v.line = f.line /\ v.column = f.column /\ v.items = f.items
    BY <2>2 DEF At
  <2>7. ColumnAfter(f, c) = IF f.line > 1 THEN f.column ELSE c + f.column
    BY DEF ColumnAfter
  <2>8. Past(r, v) = At(l + f.line - 1, ColumnAfter(f, c), next)
    BY <2>5, <2>6, <2>7 DEF Past
  <2>9. Collects(is, q, next)
    BY <1>3, <2>1, <2>4, CollectsMore
  <2> QED
    BY <1>5, <2>3, <2>8, <2>9
<1>7. mapFile = AllSections => sm /\ mapped = is
  BY <1>1 DEF BInv
<1> QED
  BY <1>1, <1>5, <1>6, <1>7 DEF BInv

(* A task that has no items is handed over. *)
LEMMA HandBundle ==
  ASSUME PInv, MInv, BInv, NEW t \in Task, t.kind # "items", tasks' = Append(tasks, t),
         UNCHANGED <<program, cursor, running, items, mapped>>,
         mapFile' = mapFile \/ mapFile' # AllSections
  PROVE  BInv'
<1>1. PICK p, q, o, l, c, is, sm :
           /\ p = Pending /\ q = Pending' /\ o = output /\ l = line /\ c = column /\ is = items
           /\ sm = program.sourcemap
  OBVIOUS
<1>2. /\ p \in Seq(Task) /\ q \in Seq(Task) /\ Len(q) = Len(p) + 1 /\ q[Len(p) + 1] = t
      /\ \A i \in 1 .. Len(p) : q[i] = p[i]
  BY <1>1, Handed DEF PInv, MInv
<1>3. /\ output' = o /\ line' = l /\ column' = c /\ program'.sourcemap = sm /\ items' = is
      /\ mapped' = mapped /\ (Followed' <=> Followed)
  BY <1>1, FollowedStays DEF cursor
<1>4. ASSUME Followed PROVE \E to : Collects(is, q, to) /\ Lays(o, At(l, c, to))
  <2>1. PICK to : Collects(is, p, to) /\ Lays(o, At(l, c, to))
    BY <1>1, <1>4 DEF BInv
  <2>2. Collects(is, q, Collect(to, t))
    BY <1>2, <2>1, CollectsMore
  <2>3. Collect(to, t) = to
    BY DEF Collect
  <2> QED
    BY <2>1, <2>2, <2>3
<1>5. mapFile' = AllSections => sm /\ mapped = is
  BY <1>1 DEF BInv
<1> QED
  BY <1>1, <1>3, <1>4, <1>5 DEF BInv

(* The snippet for CommonJS comes from no file. *)
LEMMA SnippetBundle ==
  ASSUME PInv, MInv, BInv, AddSnippet
  PROVE  BInv'
<1>1. PICK p, o, l, c, is, sm :
           /\ p = Pending /\ o = output /\ l = line /\ c = column /\ is = items
           /\ sm = program.sourcemap
  OBVIOUS
<1>2. Pending' = p
  BY <1>1 DEF AddSnippet, mapper, Pending
<1>3. program'.sourcemap = sm /\ items' = is /\ mapFile' = mapFile /\ mapped' = mapped
      /\ (Followed' <=> Followed)
  BY <1>1, FollowedStays DEF AddSnippet, mapper
<1>4. o \in Seq(Character) /\ l \in Nat \ {0} /\ c \in Nat
  BY <1>1 DEF PInv, TypeOK, Character
<1>5. Plain \in Character /\ NL \in Character /\ Plain # NL /\ Plain \notin NodeName
  BY CompositionAssumption DEF Character
<1>6. ASSUME Followed PROVE \E to : Collects(is, p, to) /\ Lays(output', At(line', column', to))
  <2>1. PICK to : Collects(is, p, to) /\ Lays(o, At(l, c, to))
    BY <1>1, <1>6 DEF BInv
  <2>2. ASSUME NEW s \in Seq(Character), NEW a \in Nat, NEW b \in Nat, Lays(s, At(a, b, to))
        PROVE  /\ Append(s, Plain) \in Seq(Character) /\ Append(s, NL) \in Seq(Character)
               /\ Lays(Append(s, Plain), At(a, b + 1, to))
               /\ Lays(Append(s, NL), At(a + 1, 0, to))
    <3>1. PICK r : r = At(a, b, to)
      OBVIOUS
    <3>2. r.line = a /\ r.column = b /\ r.items = to
      BY <3>1 DEF At
    <3>3. Step(r, Plain) = At(a, b + 1, to)
      BY <1>5, <3>2 DEF Step
    <3>4. Step(r, NL) = At(a + 1, 0, to)
      BY <3>2 DEF Step
    <3>5. Lays(Append(s, Plain), Step(r, Plain)) /\ Lays(Append(s, NL), Step(r, NL))
      BY <1>5, <2>2, <3>1, LaysMore
    <3>6. Append(s, Plain) \in Seq(Character) /\ Append(s, NL) \in Seq(Character)
      BY <1>5, <2>2
    <3> QED
      BY <3>3, <3>4, <3>5, <3>6
  <2>3. CASE program.cjs = {}
    BY <1>1, <2>1, <2>3 DEF AddSnippet, cursor
  <2>4. CASE program.cjs # {} /\ program.minify
    <3>1. output' = o \o <<Plain, Plain>> /\ line' = l /\ column' = c + 2
      BY <1>1, <2>4 DEF AddSnippet
    <3>2. PICK s : s = Append(o, Plain)
      OBVIOUS
    <3>3. s \in Seq(Character) /\ Lays(s, At(l, c + 1, to)) /\ c + 1 \in Nat
      BY <1>4, <2>1, <2>2, <3>2
    <3>4. Lays(Append(s, Plain), At(l, c + 1 + 1, to))
      BY <1>4, <2>2, <3>3
    <3>5. Append(s, Plain) = o \o <<Plain, Plain>>
      BY <1>4, <1>5, <3>2
    <3>6. c + 1 + 1 = c + 2
      BY <1>4
    <3> QED
      BY <2>1, <3>1, <3>4, <3>5, <3>6
  <2>5. CASE program.cjs # {} /\ ~ program.minify
    <3>1. output' = o \o <<Plain, NL, Plain, NL>> /\ line' = l + 2 /\ column' = 0
      BY <1>1, <2>5 DEF AddSnippet
    <3>2. PICK s1, s2, s3 : s1 = Append(o, Plain) /\ s2 = Append(s1, NL) /\ s3 = Append(s2, Plain)
      OBVIOUS
    <3>3. s1 \in Seq(Character) /\ Lays(s1, At(l, c + 1, to)) /\ c + 1 \in Nat
      BY <1>4, <2>1, <2>2, <3>2
    <3>4. s2 \in Seq(Character) /\ Lays(s2, At(l + 1, 0, to))
      <4>1. l \in Nat
        BY <1>4
      <4> QED
        BY <2>2, <3>2, <3>3, <4>1
    <3>5. PICK m, z : m = l + 1 /\ m \in Nat /\ z = 0 /\ z \in Nat /\ z + 1 \in Nat
      BY <1>4
    <3>6. s3 \in Seq(Character) /\ Lays(s3, At(m, z + 1, to))
      BY <2>2, <3>2, <3>4, <3>5
    <3>7. Lays(Append(s3, NL), At(m + 1, 0, to))
      BY <2>2, <3>5, <3>6
    <3>8. Append(s3, NL) = o \o <<Plain, NL, Plain, NL>>
      BY <1>4, <1>5, <3>2
    <3>9. m + 1 = l + 2
      BY <1>4, <3>5
    <3> QED
      BY <2>1, <3>1, <3>7, <3>8, <3>9
  <2> QED
    BY <2>3, <2>4, <2>5
<1>7. mapFile = AllSections => sm /\ mapped = is
  BY <1>1 DEF BInv
<1>8. Followed' => \E to : Collects(items', Pending', to) /\ Lays(output', At(line', column', to))
  BY <1>2, <1>3, <1>6
<1>9. mapFile' = AllSections => program'.sourcemap /\ mapped' = items'
  BY <1>1, <1>3, <1>7
<1> QED
  BY <1>8, <1>9 DEF BInv

(* What is appended says truly what it lays out: the global imports and the   *)
(* final exports, which the main thread generates itself, and the fragments,   *)
(* which are whole when it comes to them.                                      *)
LEMMA GlobalsLaid ==
  ASSUME TypeOK, Followed
  PROVE  Laid(Generated(program, program.imports)) /\ Laid(Generated(program, program.exports))
<1>1. program \in Program
  BY DEF TypeOK
<1>2. program.imports \in Seq(Op) /\ program.exports \in Seq(Op)
  BY <1>1, ProgramParts
<1>3. program.minify => OneLine(program.imports) /\ OneLine(program.exports)
  BY DEF Followed, LinesKept
<1> QED
  BY <1>1, <1>2, <1>3, GeneratedLaid DEF Followed

(* The fragment that ConcatModules appends is the whole of its module. *)
LEMMA ModuleLaid ==
  ASSUME PInv, main = "concat", Followed,
         NEW m \in Range(program.order)
  PROVE  Laid(fragment[m])
<1>1. m \in Module /\ program \in Program
  BY ProgramParts DEF PInv, TypeOK, Range
<1>2. Joined
  BY DEF PInv, WrapsLate, Enqueued, Joined
<1>3. m \notin Range(queue) /\ Busy = {} /\ Enqueued
  BY <1>2 DEF PInv, Quiet, Joined, Range
<1>4. Whole(m)
  BY <1>1, <1>3 DEF PInv, Grows
<1>5. program.code \in [Module -> Seq(Op)]
  BY <1>1, ProgramParts
<1>6. program.code[m] \in Seq(Op) /\ program.code[m] \in Range(program.code)
  BY <1>1, <1>5 DEF Range
<1>7. program.minify => OneLine(program.code[m])
  BY <1>6 DEF Followed, LinesKept
<1>8. Laid(Generated(program, program.code[m]))
  BY <1>1, <1>6, <1>7, GeneratedLaid DEF Followed
<1> QED
  BY <1>4, <1>8 DEF Whole, Holds, Generated

(* The file is opened, or only begun. *)
LEMMA BundleOpened ==
  ASSUME BInv, Pending' = Pending, UNCHANGED <<program, items, cursor, mapped>>,
         mapFile' # AllSections
  PROVE  BInv'
<1>1. PICK p, o, l, c, is :
           p = Pending /\ o = output /\ l = line /\ c = column /\ is = items
  OBVIOUS
<1>2. /\ Pending' = p /\ output' = o /\ line' = l /\ column' = c /\ items' = is
      /\ (Followed' <=> Followed)
  BY <1>1, FollowedStays DEF cursor
<1>3. Followed => \E to : Collects(is, p, to) /\ Lays(o, At(l, c, to))
  BY <1>1 DEF BInv
<1> QED
  BY <1>2, <1>3 DEF BInv

(* The main thread's part in the bundle. *)
LEMMA MainBundle == ASSUME PInv, MInv, BInv, Main PROVE BInv'
<1>1. program \in Program /\ TypeOK
  BY DEF PInv, TypeOK
<1>2. ASSUME UNCHANGED <<program, cursor, tasks, mapper>> PROVE BInv'
  <2>1. Pending' = Pending
    BY <1>2 DEF Pending, mapper
  <2> QED
    BY <1>2, <2>1, BundleFrame DEF mapper
<1>3. CASE EnqueueCodegen \/ JoinPool \/ GroupWait \/ Await \/ DestroyItems
           \/ JoinCompositor
  BY <1>2, <1>3
     DEF EnqueueCodegen, JoinPool, GroupWait, Await, DestroyItems, JoinCompositor,
         codegen
<1>10. CASE OpenFails
  <2>1. Pending' = Pending
    BY <1>10 DEF OpenFails, Pending
  <2>2. mapFile = <<>> /\ mapFile' \in {<<>>, <<"header">>}
    BY <1>10 DEF OpenFails, MainStep, MInv, Sections
  <2>3. <<>> # AllSections /\ <<"header">> # AllSections
    <3>1. Len(<<>>) = 0 /\ Len(<<"header">>) = 1 /\ Len(AllSections) = 3
      BY DEF AllSections
    <3> QED
      BY <3>1
  <2> QED
    BY <1>10, <2>1, <2>2, <2>3, BundleOpened DEF OpenFails
<1>4. CASE Open
  <2>1. Pending = <<>>
    BY <1>4 DEF MInv, Sections, Open, MainStep
  <2>2. tasks = <<>> /\ tasks \in Seq(Task)
    <3>1. CASE running = {}
      BY <1>1, <2>1, <3>1, PendingIs DEF MInv
    <3>2. ASSUME running # {} PROVE FALSE
      <4>1. PICK t \in running : TRUE
        BY <3>2
      <4>2. Len(Pending) = Len(tasks) + 1 /\ Len(tasks) \in Nat
        BY <1>1, <4>1, PendingIs DEF MInv
      <4>3. Len(Pending) = 0
        BY <2>1
      <4> QED
        BY <4>2, <4>3
    <3> QED
      BY <1>1, <3>1, <3>2 DEF TypeOK
  <2>3. PICK t \in Task : t = [kind |-> "sources"]
    BY DEF Task
  <2>4. tasks' = Append(tasks, t)
    BY <1>4, <2>2, <2>3 DEF Open
  <2>5. mapFile' # AllSections
    <3>1. Len(<<"header">>) = 1 /\ Len(AllSections) = 3
      BY DEF AllSections
    <3> QED
      BY <1>4, <3>1 DEF Open
  <2>6. t.kind # "items"
    BY <2>3
  <2> QED
    BY <1>4, <2>3, <2>4, <2>5, <2>6, HandBundle DEF Open
<1>5. CASE CodeGenGlobalImport
  <2>1. Generated(program, program.imports) \in Fragment
    BY <1>1, ProgramParts, GeneratedTyped
  <2>2. Followed => Laid(Generated(program, program.imports))
    BY <1>1, GlobalsLaid
  <2> QED
    BY <1>5, <2>1, <2>2, AppendBundle DEF CodeGenGlobalImport
<1>6. CASE AddSnippet
  BY <1>6, SnippetBundle
<1>7. CASE ConcatModule
  <2>1. PICK m \in Range(program.order) : m = program.order[nth]
    BY <1>7 DEF ConcatModule, Range
  <2>2. m \in Module
    BY <1>1, <2>1, ProgramParts DEF Range
  <2>3. fragment[m] \in Fragment
    BY <2>2 DEF PInv, TypeOK
  <2>4. Followed => Laid(fragment[m])
    BY <1>7, <2>1, ModuleLaid DEF ConcatModule
  <2>5. AppendFragment(fragment[m]) /\ UNCHANGED <<program, mapper>>
    BY <1>7, <2>1 DEF ConcatModule
  <2> QED
    BY <2>3, <2>4, <2>5, AppendBundle
<1>8. CASE CodeGenFinalExport
  <2>1. CASE program.exports = <<>>
    BY <1>2, <1>8, <2>1 DEF CodeGenFinalExport
  <2>2. CASE program.exports # <<>>
    <3>1. Generated(program, program.exports) \in Fragment
      BY <1>1, ProgramParts, GeneratedTyped
    <3>2. Followed => Laid(Generated(program, program.exports))
      BY <1>1, GlobalsLaid
    <3> QED
      BY <1>8, <2>2, <3>1, <3>2, AppendBundle DEF CodeGenFinalExport
  <2> QED
    BY <2>1, <2>2
<1>9. CASE DumpSourcemap
  <2>1. CASE ~ program.sourcemap
    BY <1>2, <1>9, <2>1 DEF DumpSourcemap
  <2>2. CASE program.sourcemap
    <3>1. PICK t \in Task : t = [kind |-> "map"]
      BY DEF Task
    <3>2. tasks' = Append(tasks, t) /\ t.kind # "items"
      BY <1>9, <2>2, <3>1 DEF DumpSourcemap
    <3> QED
      BY <1>9, <3>2, HandBundle DEF DumpSourcemap, mapper
  <2> QED
    BY <2>1, <2>2
<1> QED
  BY <1>3, <1>4, <1>5, <1>6, <1>7, <1>8, <1>9, <1>10 DEF Main

(* The compositor's thread's part. *)
LEMMA ComposeBundle == ASSUME PInv, MInv, BInv, Compose PROVE BInv'
<1>1. CASE TakeTask
  <2>1. Pending' = Pending
    BY <1>1, Taken DEF PInv, MInv
  <2> QED
    BY <1>1, <2>1, BundleFrame DEF TakeTask
<1>2. ASSUME NEW t \in running, running' = running \ {t}, tasks' = tasks,
             UNCHANGED <<program, cursor>>, items' = Collect(items, t),
             \/ t.kind = "sources" /\ mapFile' # AllSections
             \/ t.kind = "items" /\ mapFile' = mapFile
             \/ t.kind = "map" /\ mapped' = items
      PROVE  BInv'
  <2>1. PICK p, q, o, l, c, is, js, sm :
             /\ p = Pending /\ q = Pending' /\ o = output /\ l = line /\ c = column
             /\ is = items /\ js = items' /\ sm = program.sourcemap
    OBVIOUS
  <2>2. /\ p \in Seq(Task) /\ q \in Seq(Task) /\ p[1] = t
        /\ Len(p) = Len(q) + 1 /\ \A i \in 1 .. Len(q) : q[i] = p[i + 1]
    BY <1>2, <2>1, Finished DEF PInv, MInv
  <2>3. output' = o /\ line' = l /\ column' = c /\ program'.sourcemap = sm
        /\ (Followed' <=> Followed)
    BY <1>2, <2>1, FollowedStays DEF cursor
  <2>4. ASSUME Followed PROVE \E to : Collects(js, q, to) /\ Lays(o, At(l, c, to))
    <3>1. PICK to : Collects(is, p, to) /\ Lays(o, At(l, c, to))
      BY <2>1, <2>4 DEF BInv
    <3>2. Collects(Collect(is, p[1]), q, to)
      BY <2>2, <3>1, CollectsRest
    <3>3. js = Collect(is, p[1])
      BY <1>2, <2>1, <2>2
    <3> QED
      BY <3>1, <3>2, <3>3
  <2>5. mapFile' = AllSections => sm /\ mapped' = js
    <3>1. CASE t.kind = "sources"
      BY <1>2, <3>1
    <3>2. CASE t.kind = "items"
      <4>1. mapFile' = mapFile /\ (mapFile = AllSections => p = <<>>)
        BY <1>2, <2>1, <3>2 DEF MInv, Sections, AllSections
      <4>2. p # <<>>
        BY <2>2
      <4> QED
        BY <4>1, <4>2
    <3>3. CASE t.kind = "map"
      <4>1. 1 \in DOMAIN p
        BY <2>2
      <4>2. sm
        BY <2>1, <2>2, <3>3, <4>1 DEF MInv, Sections
      <4>3. js = is /\ mapped' = is
        BY <1>2, <2>1, <3>3 DEF Collect
      <4> QED
        BY <4>2, <4>3
    <3> QED
      BY <1>2, <3>1, <3>2, <3>3
  <2>6. Followed' => \E to : Collects(items', Pending', to) /\ Lays(output', At(line', column', to))
    BY <2>1, <2>3, <2>4
  <2>7. mapFile' = AllSections => program'.sourcemap /\ mapped' = items'
    BY <2>1, <2>3, <2>5
  <2> QED
    BY <2>6, <2>7 DEF BInv
<1>3. CASE WriteSources
  <2>1. PICK t \in running :
             /\ t.kind = "sources" /\ mapFile' = Append(mapFile, "sources")
             /\ running' = running \ {t} /\ items' = items
             /\ UNCHANGED <<program, cursor, tasks>>
    BY <1>3 DEF WriteSources
  <2>2. items' = Collect(items, t)
    BY <2>1 DEF Collect
  <2>3. mapFile' # AllSections
    <3>1. PICK s : s = Append(mapFile, "sources")
      OBVIOUS
    <3>2. /\ mapFile \in Seq({"header", "sources", "mappings"})
          /\ "sources" \in {"header", "sources", "mappings"}
      BY DEF PInv, TypeOK
    <3>3. s[Len(s)] = "sources"
      BY <3>1, <3>2
    <3>4. AllSections[Len(AllSections)] = "mappings"
      BY DEF AllSections
    <3> QED
      BY <2>1, <3>1, <3>3, <3>4
  <2> QED
    BY <1>2, <2>1, <2>2, <2>3
<1>4. CASE PushItems
  <2>1. PICK t \in running :
             /\ t.kind = "items" /\ mapFile' = mapFile /\ running' = running \ {t}
             /\ items' = items \o [i \in DOMAIN t.items |-> Shifted(t.items[i], t.line, t.column)]
             /\ UNCHANGED <<program, cursor, tasks>>
    BY <1>4 DEF PushItems
  <2>2. items' = Collect(items, t)
    BY <2>1 DEF Collect, Catenated, Moved
  <2> QED
    BY <1>2, <2>1, <2>2
<1>5. CASE Finalize
  <2>1. PICK t \in running :
             /\ t.kind = "map" /\ mapped' = items /\ items' = items /\ running' = running \ {t}
             /\ UNCHANGED <<program, cursor, tasks>>
    BY <1>5 DEF Finalize
  <2>2. items' = Collect(items, t)
    BY <2>1 DEF Collect
  <2> QED
    BY <1>2, <2>1, <2>2
<1> QED
  BY <1>1, <1>3, <1>4, <1>5 DEF Compose

(* Every step keeps the map's side of the invariant. *)
LEMMA NextBInv == ASSUME PInv, MInv, BInv, [Next]_vars PROVE BInv'
<1>1. ASSUME UNCHANGED <<program, cursor, tasks, mapper>> PROVE BInv'
  <2>1. Pending' = Pending
    BY <1>1 DEF Pending, mapper
  <2> QED
    BY <1>1, <2>1, BundleFrame DEF mapper
<1>2. CASE UNCHANGED vars
  BY <1>1, <1>2 DEF vars, cursor, mapper
<1>3. ASSUME NEW w \in Worker, Generate(w) PROVE BInv'
  BY <1>1, <1>3 DEF Generate, TakeCodegen, WriteOp, GroupDone
<1> QED
  BY <1>2, <1>3, MainBundle, ComposeBundle DEF Next

(* It holds at the start. *)
LEMMA InitBInv == Init => BInv
<1> SUFFICES ASSUME Init PROVE BInv
  OBVIOUS
<1>1. Pending = <<>> /\ items = <<>> /\ output = <<>> /\ line = 1 /\ column = 0
      /\ mapFile = <<>>
  BY DEF Init, Pending, Line
<1>2. Len(<<>>) = 0
  OBVIOUS
<1>3. Collects(items, Pending, items)
  BY <1>1, <1>2, CollectsNothing
<1>4. Lays(output, At(line, column, items))
  BY <1>1, LaysNothing DEF Reader0
<1>5. mapFile # AllSections
  BY <1>1, <1>2 DEF AllSections
<1> QED
  BY <1>3, <1>4, <1>5 DEF BInv

(* What the map says when it is written, read back: what its writer counted. *)
LEMMA WrittenMap ==
  ASSUME PInv, MInv, BInv, MapWritten, LinesKept, NEW breaks, Breaking(breaks)
  PROVE  /\ MappingsOf(mappings) = MappingsBy(breaks)
         /\ Decode(mappings) = MappingsOf(mappings) \/ HasMisreadSign(mappings)
<1>1. mapFile = AllSections
  <2>1. \E i \in DOMAIN mapFile : mapFile[i] = "mappings"
    BY DEF MapWritten, Range
  <2> QED
    BY <2>1 DEF MInv, Sections, AllSections
<1>2. Pending = <<>> /\ Followed /\ mapped = items
  BY <1>1 DEF MInv, Sections, BInv, AllSections, Followed
<1>3. Len(<<>>) = 0
  OBVIOUS
<1>4. PICK to : Collects(items, Pending, to) /\ Lays(output, At(line, column, to))
  BY <1>2 DEF BInv
<1>5. to = mapped
  BY <1>2, <1>3, <1>4, CollectsNothing
<1>6. output \in Seq(Character) /\ Len(output) \in 0 .. Len(output)
  BY DEF PInv, TypeOK
<1>7. PICK ws : Walking(ws, output) /\ At(line, column, mapped) = ws[Len(output)]
  BY <1>4, <1>5 DEF Lays
<1>8. ws[Len(output)].items = mapped
  BY <1>7 DEF At
<1>9. ws[Len(output)] \in Readers /\ InLineOrder(ws[Len(output)])
  BY <1>6, <1>7, WalkTyped, WalkInOrder
<1>10. mapped \in Seq(Item) /\ Ordered(mapped)
  BY <1>8, <1>9, PositionsAreItems DEF Readers, InLineOrder
<1>11. MappingsBy(breaks) = Located(mapped)
  BY <1>6, <1>7, <1>8, ReadersGather
<1> QED
  BY <1>10, <1>11, RoundTrip DEF mappings

(* The three invariants hold throughout. *)
LEMMA MapInvariants == Spec => [](PInv /\ MInv /\ BInv)
<1>1. PInv /\ MInv /\ BInv /\ [Next]_vars => BInv'
  BY NextBInv
<1> QED
  BY <1>1, InitPInv, InitMInv, InitBInv, NextPInv, NextMInv, PTL DEF Spec

(* The map that is left follows the writer of the bundle, piece by piece, for   *)
(* any modules, code and number of threads: the two threads' work fits          *)
(* together, the items are shifted to where their fragment went, and their text *)
(* means them.                                                                  *)
THEOREM MapIsRight == Spec => []MapDescribesBundle
<1>1. Breaking({NL})
  BY DEF Breaking
<1>2. ASSUME PInv, MInv, BInv
      PROVE  MapWritten /\ LinesKept =>
               LET text == mappings
               IN /\ MappingsOf(text) = WriterMappings
                  /\ Decode(text) = MappingsOf(text) \/ HasMisreadSign(text)
  BY <1>1, <1>2, WrittenMap DEF WriterMappings
<1>3. PInv /\ MInv /\ BInv /\ MapFileWellFormed => MapDescribesBundle
  BY <1>2 DEF MapDescribesBundle
<1> QED
  BY <1>3, MapInvariants, MapFileWhole, PTL

(* And it is the bundle's map as a debugger reads it, when no line feed is      *)
(* inside a string that was written: no object literal of several properties,   *)
(* no comment, template or string of several lines.                             *)
THEOREM MapIsExactForLines ==
  Spec => [](LinesKept /\ Inner \notin Range(output) => MapIsExact)
<1>1. ASSUME PInv, Inner \notin Range(output) PROVE Breaking({NL, Inner})
  <2>1. \A i \in 1 .. Len(output) : output[i] # Inner
    BY <1>1 DEF PInv, TypeOK, Range
  <2> QED
    BY <2>1 DEF Breaking
<1>2. ASSUME PInv, MInv, BInv
      PROVE  LinesKept /\ Inner \notin Range(output) => MapIsExact
  BY <1>1, <1>2, WrittenMap DEF MapIsExact, BundleMappings
<1> QED
  BY <1>2, MapInvariants, PTL
==============================================================================
