------------------------ MODULE ModuleResolution_proof ------------------------
(***************************************************************************)
(* Proofs about the parsing stage, for every set of workers and paths and  *)
(* every program: the wait group counts the outstanding tasks, and when    *)
(* the wait is over every module of the table was parsed or reported; each *)
(* module has one task, no module is parsed twice, the stage uses its wait *)
(* group as a latch (Latch), and its outcome does not depend on the        *)
(* schedule.                                                               *)
(***************************************************************************)
EXTENDS ModuleResolution, FiniteSetTheorems, SequenceTheorems, TLAPS

(* Workers between CreateNewIfNotExists and the enqueue of the new module.  *)
Creating == {w \in Worker : pc[w] \in {"name", "count", "mark", "spawn"}}

(* A worker inside a listener is at a dependency of its module.             *)
Positioned ==
  /\ \A w \in Worker : pc[w] = "callee" => pos[w] \in DOMAIN program.deps[at[w]]
  /\ \A w \in Creating : pos[w] \in DOMAIN program.deps[at[w]] /\ Dep(w).to \in Path

(* Every module something is done to is in the table; only the entry is     *)
(* queued before it is.                                                     *)
InTable ==
  /\ parsed \subseteq Range(table)
  /\ Range(queue) \subseteq Range(table) \union {Entry}
  /\ \A w \in Worker : pc[w] = "start" => at[w] \in Range(table) \union {Entry}
  /\ \A w \in Busy : pc[w] # "start" => at[w] \in Range(table)
  /\ \A w \in Creating : Dep(w).to \in Range(table)

(* Every module of the table is accounted for: finished, queued, being      *)
(* parsed, or being set up by the worker that created it.                   *)
Covered ==
  \A p \in Range(table) :
    \/ p \in parsed \union errors
    \/ p \in Range(queue)
    \/ \E w \in Busy : at[w] = p
    \/ \E w \in Creating : Dep(w).to = p

(* A task that is about to call Done() has parsed or reported its module.   *)
Settled == \A w \in Worker : pc[w] = "done" => at[w] \in parsed \union errors

(* The wait is over only at zero, and the stage's result comes after it.    *)
Ended ==
  /\ waiter = "returned" => counter = 0
  /\ result # "none" => waiter = "returned"
  /\ result = "ok" => errors = {}

IInv ==
  /\ TypeOK
  /\ CountsOutstandingTasks
  /\ Positioned
  /\ InTable
  /\ Covered
  /\ Settled
  /\ Ended

-----------------------------------------------------------------------------
(* The elements of a sequence, as it grows at its end or loses its head.    *)
LEMMA RangeAppend ==
  ASSUME NEW S, NEW s \in Seq(S), NEW e \in S
  PROVE  Append(s, e) \in Seq(S) /\ Range(Append(s, e)) = Range(s) \union {e}
<1> DEFINE a == Append(s, e)
<1>1. a \in Seq(S) /\ Len(a) = Len(s) + 1 /\ a[Len(s) + 1] = e
  BY AppendProperties
<1>2. \A i \in 1 .. Len(s) : a[i] = s[i]
  BY AppendProperties
<1>3. /\ DOMAIN s = 1 .. Len(s) /\ DOMAIN a = 1 .. Len(s) + 1
      /\ Len(s) \in Nat
  BY <1>1
<1> HIDE DEF a
<1>4. ASSUME NEW x \in Range(a) PROVE x \in Range(s) \union {e}
  <2>1. PICK i \in 1 .. Len(s) + 1 : x = a[i]
    BY <1>3, <1>4 DEF Range
  <2>2. i \in 1 .. Len(s) \/ i = Len(s) + 1
    BY <1>3, <2>1
  <2> QED
    BY <1>1, <1>2, <1>3, <2>1, <2>2 DEF Range
<1>5. ASSUME NEW x \in Range(s) \union {e} PROVE x \in Range(a)
  <2>1. CASE x = e
    BY <1>1, <1>3, <2>1 DEF Range
  <2>2. CASE x \in Range(s)
    <3>1. PICK i \in 1 .. Len(s) : x = s[i]
      BY <1>3, <2>2 DEF Range
    <3> QED
      BY <1>2, <1>3, <3>1 DEF Range
  <2> QED
    BY <1>5, <2>1, <2>2
<1> QED
  BY <1>1, <1>4, <1>5 DEF a

(* ... and loses its head.                                                  *)
LEMMA RangeTail ==
  ASSUME NEW S, NEW s \in Seq(S), s # <<>>
  PROVE  /\ Head(s) \in S /\ Tail(s) \in Seq(S) /\ Len(Tail(s)) = Len(s) - 1
         /\ Range(s) = {Head(s)} \union Range(Tail(s))
<1>1. /\ Len(s) \in Nat /\ Len(s) > 0 /\ DOMAIN s = 1 .. Len(s)
      /\ Head(s) = s[1] /\ Head(s) \in S
  BY EmptySeq
<1> DEFINE t == Tail(s)
<1>2. /\ t \in Seq(S) /\ Len(t) = Len(s) - 1 /\ DOMAIN t = 1 .. Len(s) - 1
      /\ \A i \in 1 .. Len(s) - 1 : t[i] = s[i + 1]
  BY HeadTailProperties
<1> HIDE DEF t
<1>3. ASSUME NEW x \in Range(s) PROVE x \in {Head(s)} \union Range(t)
  <2>1. PICK i \in 1 .. Len(s) : x = s[i]
    BY <1>1, <1>3 DEF Range
  <2>2. CASE i = 1
    BY <1>1, <2>1, <2>2
  <2>3. CASE i # 1
    <3>1. i - 1 \in 1 .. Len(s) - 1 /\ (i - 1) + 1 = i
      BY <1>1, <2>1, <2>3
    <3>2. t[i - 1] = s[i]
      BY <1>2, <3>1
    <3> QED
      BY <1>2, <2>1, <3>1, <3>2 DEF Range
  <2> QED
    BY <2>2, <2>3
<1>4. ASSUME NEW x \in {Head(s)} \union Range(t) PROVE x \in Range(s)
  <2>1. CASE x = Head(s)
    BY <1>1, <2>1 DEF Range
  <2>2. CASE x \in Range(t)
    <3>1. PICK i \in 1 .. Len(s) - 1 : x = t[i]
      BY <1>2, <2>2 DEF Range
    <3>2. i + 1 \in 1 .. Len(s) /\ x = s[i + 1]
      BY <1>1, <1>2, <3>1
    <3> QED
      BY <1>1, <3>2 DEF Range
  <2> QED
    BY <1>4, <2>1, <2>2
<1> QED
  BY <1>1, <1>2, <1>3, <1>4 DEF t

(* Appending to one of several sequences.                                   *)
LEMMA AppendAt ==
  ASSUME NEW D, NEW S, NEW f \in [D -> Seq(S)], NEW d \in D, NEW e \in S
  PROVE  [f EXCEPT ![d] = Append(@, e)] \in [D -> Seq(S)]
<1>1. Append(f[d], e) \in Seq(S)
  BY AppendProperties
<1> QED
  BY <1>1

(* The set of busy workers is finite.                                       *)
LEMMA BusyFinite == IsFiniteSet(Busy) /\ Cardinality(Busy) \in Nat
  BY ResolutionAssumption, FS_Subset, FS_CardinalityType DEF Busy

(* A dependency of a module is an edge of the program.                      *)
LEMMA DepType ==
  ASSUME TypeOK, NEW w \in Worker, pos[w] \in DOMAIN program.deps[at[w]]
  PROVE  Dep(w) \in Edge
<1>1. program.deps[at[w]] \in Seq(Edge)
  BY ResolutionAssumption DEF TypeOK
<1> QED
  BY <1>1 DEF Dep

-----------------------------------------------------------------------------
(* Initially there is no task and no module.                                *)
LEMMA InitIInv == Init => IInv
<1> SUFFICES ASSUME Init PROVE IInv
  OBVIOUS
<1>1. Busy = {} /\ Creating = {}
  BY DEF Init, Busy, Creating
<1>2. Cardinality(Busy) = 0
  BY <1>1, FS_EmptySet
<1>3. Range(table) = {} /\ Range(queue) = {}
  BY DEF Init, Range
<1>4. CountsOutstandingTasks
  BY <1>2 DEF Init, CountsOutstandingTasks
<1>5. TypeOK
  <2>1. Entry \in Path /\ \A S : <<>> \in Seq(S)
    BY ResolutionAssumption
  <2>2. /\ refMods \in [Path -> Seq(Path)] /\ callees \in [Path -> Seq(Nat)]
        /\ table \in Seq(Path) /\ queue \in Seq(Path)
    BY <2>1 DEF Init
  <2>3. /\ pc \in [Worker -> Control] /\ at \in [Worker -> Path]
        /\ pos \in [Worker -> Nat \ {0}] /\ seen \in [Worker -> Nat]
    BY <2>1 DEF Init, Control
  <2>4. isCJS \in [Path -> BOOLEAN] /\ callName \in [Path -> Nat]
    BY DEF Init
  <2> QED
    BY <2>2, <2>3, <2>4 DEF Init, TypeOK
<1>6. Positioned /\ InTable /\ Covered /\ Settled /\ Ended
  BY <1>1, <1>3 DEF Init, Positioned, InTable, Covered, Settled, Ended
<1> QED
  BY <1>4, <1>5, <1>6 DEF IInv

(* A worker that goes from one point of its task to another stays counted.  *)
LEMMA StillBusy ==
  ASSUME TypeOK, NEW w \in Worker, NEW to \in Control \ {"idle", "notify"},
         pc[w] \notin {"idle", "notify"}, pc' = [pc EXCEPT ![w] = to]
  PROVE  w \in Busy /\ Busy' = Busy
  BY DEF TypeOK, Busy

(* A task leaves the queue for a worker.                                    *)
LEMMA TakeTaskIInv == ASSUME IInv, NEW w \in Worker, TakeTask(w) PROVE IInv'
<1> DEFINE t == Tail(queue)
           h == Head(queue)
<1>1. /\ h \in Path /\ t \in Seq(Path) /\ Len(t) = Len(queue) - 1
      /\ Range(queue) = {h} \union Range(t)
  BY RangeTail DEF IInv, TypeOK, TakeTask
<1>2. pc[w] = "idle" /\ pc' = [pc EXCEPT ![w] = "start"] /\ queue' = t
      /\ at' = [at EXCEPT ![w] = h]
  BY DEF TakeTask, Goto, IsAt
<1> HIDE DEF t, h
<1>3. TypeOK'
  BY <1>1, <1>2 DEF IInv, TypeOK, TakeTask, fields, owner, Control
<1>4. Busy' = Busy \union {w} /\ w \notin Busy /\ Creating' = Creating /\ w \notin Creating
  BY <1>2 DEF IInv, TypeOK, Busy, Creating
<1>5. CountsOutstandingTasks'
  <2>1. Cardinality(Busy') = Cardinality(Busy) + 1
    BY <1>4, BusyFinite, FS_AddElement
  <2> QED
    BY <1>1, <1>2, <2>1, BusyFinite DEF IInv, TypeOK, CountsOutstandingTasks, TakeTask
<1>6. Positioned'
  BY <1>2, <1>4 DEF IInv, TypeOK, Positioned, Creating, Dep, TakeTask
<1>7. InTable'
  <2>1. \A v \in Creating : Dep(v)' = Dep(v)
    BY <1>2, <1>4 DEF IInv, TypeOK, Creating, Dep, TakeTask
  <2> QED
    BY <1>1, <1>2, <1>4, <2>1 DEF IInv, TypeOK, InTable, Busy, TakeTask, fields
<1>8. Covered'
  <2>1. \A v \in Busy : v # w /\ at'[v] = at[v]
    BY <1>2, <1>4 DEF IInv, TypeOK, Busy
  <2>2. \A v \in Creating : Dep(v)' = Dep(v)
    BY <1>2, <1>4 DEF IInv, TypeOK, Creating, Dep, TakeTask
  <2>3. w \in Worker /\ w \in Busy' /\ at'[w] = h
    BY <1>2, <1>4 DEF IInv, TypeOK
  <2>4. table' = table /\ parsed' = parsed /\ errors' = errors
    BY DEF TakeTask, fields
  <2> QED
    BY <1>1, <1>2, <1>4, <2>1, <2>2, <2>3, <2>4 DEF IInv, Covered
<1>9. Settled' /\ Ended'
  BY <1>2 DEF IInv, TypeOK, Settled, Ended, TakeTask, fields, owner
<1> QED
  BY <1>3, <1>5, <1>6, <1>7, <1>8, <1>9 DEF IInv

(* The head of ParseFile: the entry joins the table; a module that cannot   *)
(* be read is reported before its task ends.                                *)
LEMMA StartFileIInv == ASSUME IInv, NEW w \in Worker, StartFile(w) PROVE IInv'
<1> DEFINE to == IF program.outcome[at[w]] # "noSource" THEN "parse" ELSE "done"
<1>1. pc[w] = "start" /\ pc' = [pc EXCEPT ![w] = to] /\ to \in {"parse", "done"}
  BY DEF StartFile, Goto, IsAt
<1>2. /\ table' \in Seq(Path) /\ at[w] \in Range(table')
      /\ Range(table') \subseteq Range(table) \union {at[w]}
      /\ Range(table) \subseteq Range(table')
  <2>1. at[w] \in Path /\ table \in Seq(Path) /\ at[w] \in Range(table) \union {Entry}
    BY <1>1 DEF IInv, TypeOK, InTable
  <2>2. table' = IF at[w] = Entry THEN Append(table, at[w]) ELSE table
    BY DEF StartFile
  <2> QED
    BY <2>1, <2>2, RangeAppend
<1>3. /\ errors' \in SUBSET Path /\ errors \subseteq errors'
      /\ to = "done" => at[w] \in errors'
  BY DEF IInv, TypeOK, StartFile, Report
<1>4. w \in Busy /\ Busy' = Busy
  BY <1>1, StillBusy DEF IInv, Control
<1>5. Creating' = Creating /\ w \notin Creating
  BY <1>1 DEF IInv, TypeOK, Creating
<1>6. waiter # "returned"
  BY <1>4, BusyFinite, FS_EmptySet DEF IInv, Ended, CountsOutstandingTasks, TypeOK
<1> HIDE DEF to
<1>7. TypeOK'
  <2>1. /\ pos' = [pos EXCEPT ![w] = 1]
        /\ UNCHANGED <<program, fields, queue, at, counter, owner, totalFiles, externals,
                       crashed>>
    BY DEF StartFile
  <2>2. pos' \in [Worker -> Nat \ {0}] /\ pc' \in [Worker -> Control]
    BY <1>1, <2>1 DEF IInv, TypeOK, Control
  <2> QED
    BY <1>2, <1>3, <2>1, <2>2 DEF IInv, TypeOK, fields, owner
<1>8. CountsOutstandingTasks'
  BY <1>4 DEF IInv, CountsOutstandingTasks, StartFile
<1>9. Positioned'
  BY <1>1, <1>5 DEF IInv, TypeOK, Positioned, Creating, Dep, StartFile
<1>10. InTable'
  <2>1. \A v \in Creating : Dep(v)' = Dep(v)
    BY <1>5 DEF IInv, TypeOK, Creating, Dep, StartFile
  <2> QED
    BY <1>1, <1>2, <1>4, <1>5, <2>1 DEF IInv, TypeOK, InTable, Busy, StartFile, fields
<1>11. Covered'
  BY <1>2, <1>3, <1>4, <1>5 DEF IInv, TypeOK, Covered, Creating, Dep, StartFile, fields
<1>12. Settled' /\ Ended'
  BY <1>1, <1>3, <1>6 DEF IInv, TypeOK, Settled, Ended, StartFile, fields, owner
<1> QED
  BY <1>7, <1>8, <1>9, <1>10, <1>11, <1>12 DEF IInv

(* While a task runs, the wait is not over and there is no result.          *)
LEMMA BusyMeansWaiting ==
  ASSUME IInv, Busy # {}
  PROVE  counter > 0 /\ waiter # "returned" /\ result = "none"
<1>1. Cardinality(Busy) # 0
  BY BusyFinite, FS_EmptySet
<1>2. counter = Len(queue) + Cardinality(Busy) /\ Len(queue) \in Nat
  BY DEF IInv, CountsOutstandingTasks, TypeOK
<1> QED
  BY <1>1, <1>2, BusyFinite DEF IInv, Ended, TypeOK

(* A parser's step to its next dependency, or to a require() to bind.       *)
LEMMA ParserStep ==
  ASSUME IInv, TypeOK', NEW w \in Worker, NEW to \in {"parse", "callee"},
         pc[w] \in {"parse", "callee"}, pc' = [pc EXCEPT ![w] = to],
         to = "callee" => pos'[w] \in DOMAIN program.deps[at[w]],
         \A v \in Worker : v # w => pos'[v] = pos[v],
         errors \subseteq errors',
         UNCHANGED <<program, table, parsed, queue, at, counter, owner>>
  PROVE  IInv'
<1>1. w \in Busy /\ Busy' = Busy
  BY StillBusy DEF IInv, Control
<1>2. Creating' = Creating /\ w \notin Creating
  BY DEF IInv, TypeOK, Creating
<1>3. \A v \in Creating : Dep(v)' = Dep(v)
  BY <1>2 DEF Creating, Dep
<1>4. CountsOutstandingTasks'
  BY <1>1 DEF IInv, CountsOutstandingTasks
<1>5. Positioned'
  BY <1>2, <1>3 DEF IInv, TypeOK, Positioned, Creating
<1>6. InTable'
  BY <1>1, <1>2, <1>3 DEF IInv, TypeOK, InTable, Busy
<1>7. Covered'
  BY <1>1, <1>2, <1>3 DEF IInv, Covered
<1>8. Settled'
  BY DEF IInv, TypeOK, Settled
<1>9. Ended'
  BY <1>1, BusyMeansWaiting DEF Ended, owner
<1> QED
  BY <1>4, <1>5, <1>6, <1>7, <1>8, <1>9 DEF IInv

(* The listener's steps that go on to the next dependency.                  *)
LEMMA ParseIInv ==
  ASSUME IInv, NEW w \in Worker,
         \/ ImportExternal(w) \/ NotLocated(w) \/ LocateExisting(w)
         \/ ReadCallee(w) \/ DereferenceNull(w)
  PROVE  IInv'
<1>1. CASE ImportExternal(w)
  <2>1. pos[w] \in DOMAIN program.deps[at[w]] /\ pc[w] = "parse"
    BY <1>1 DEF ImportExternal, AtEdge, IsAt
  <2>2. pc' = [pc EXCEPT ![w] = "parse"] /\ pos' = [pos EXCEPT ![w] = pos[w] + 1]
        /\ externals' \subseteq External
    BY <1>1, <2>1 DEF ImportExternal, IInv, TypeOK
  <2>3. TypeOK'
    BY <1>1, <2>2 DEF ImportExternal, IInv, TypeOK, fields, owner
  <2>4. \A v \in Worker : v # w => pos'[v] = pos[v]
    BY <2>2 DEF IInv, TypeOK
  <2> QED
    BY <1>1, <2>1, <2>2, <2>3, <2>4, ParserStep DEF ImportExternal, fields, owner
<1>2. CASE NotLocated(w) \/ LocateExisting(w)
  <2>1. pos[w] \in DOMAIN program.deps[at[w]] /\ pc[w] = "parse" /\ Dep(w) \in Edge
    BY <1>2, DepType DEF NotLocated, LocateExisting, Located, ToResolve, AtEdge, IsAt, IInv
  <2>2. /\ pc' = [pc EXCEPT ![w] = AfterLocation(w)]
        /\ AfterLocation(w) \in {"parse", "callee"}
        /\ Advance(w)
    BY <1>2 DEF NotLocated, LocateExisting, AfterLocation
  <2>3. /\ AfterLocation(w) = "callee" => pos' = pos
        /\ \A v \in Worker : v # w => pos'[v] = pos[v]
        /\ pos' \in [Worker -> Nat \ {0}]
    <3>1. pos \in [Worker -> Nat \ {0}]
      BY DEF IInv, TypeOK
    <3>2. CASE Dep(w).kind = "require"
      BY <2>2, <3>1, <3>2 DEF Advance
    <3>3. CASE Dep(w).kind # "require"
      BY <2>2, <3>1, <3>3 DEF Advance, AfterLocation
    <3> QED
      BY <3>2, <3>3
  <2>4. errors \subseteq errors' /\ errors' \subseteq Path
    BY <1>2 DEF NotLocated, LocateExisting, Report, IInv, TypeOK
  <2>5. refMods' \in [Path -> Seq(Path)]
    <3>1. CASE refMods' = refMods
      BY <3>1 DEF IInv, TypeOK
    <3>2. CASE Reference(w, Dep(w).to) /\ Dep(w).to \in Path
      BY <3>2, AppendAt DEF Reference, IInv, TypeOK
    <3> QED
      BY <1>2, <3>1, <3>2 DEF NotLocated, LocateExisting, Located, fields
  <2>6. TypeOK'
    BY <1>2, <2>2, <2>3, <2>4, <2>5
    DEF NotLocated, LocateExisting, IInv, TypeOK, fields, owner, Control
  <2>7. UNCHANGED <<program, table, parsed, queue, at, counter, owner>>
    BY <1>2 DEF NotLocated, LocateExisting, fields, owner
  <2> QED
    BY <2>1, <2>2, <2>3, <2>4, <2>6, <2>7, ParserStep
<1>3. CASE ReadCallee(w)
  <2>1. pos[w] \in DOMAIN program.deps[at[w]] /\ pc[w] = "callee" /\ Dep(w).to \in Path
    BY <1>3 DEF ReadCallee, Goto, IsAt, IInv, Positioned
  <2>2. pc' = [pc EXCEPT ![w] = "parse"] /\ pos' = [pos EXCEPT ![w] = pos[w] + 1]
    BY <1>3 DEF ReadCallee, Goto
  <2>3. callees' \in [Path -> Seq(Nat)]
    <3>1. at[w] \in Path /\ callName[Dep(w).to] \in Nat
      BY <2>1 DEF IInv, TypeOK
    <3> QED
      BY <1>3, <3>1, AppendAt DEF ReadCallee, IInv, TypeOK
  <2>4. TypeOK'
    <3>1. UNCHANGED <<program, table, parsed, isCJS, callName, refMods, hasCJS, seen, names,
                      queue, at, counter, owner, totalFiles, errors, externals, crashed>>
      BY <1>3 DEF ReadCallee
    <3>2. pc' \in [Worker -> Control] /\ pos' \in [Worker -> Nat \ {0}]
      BY <2>2 DEF IInv, TypeOK, Control
    <3> QED
      BY <2>3, <3>1, <3>2 DEF IInv, TypeOK, owner
  <2>5. \A v \in Worker : v # w => pos'[v] = pos[v]
    BY <2>2 DEF IInv, TypeOK
  <2> QED
    BY <1>3, <2>1, <2>2, <2>4, <2>5, ParserStep DEF ReadCallee, owner
<1>4. CASE DereferenceNull(w)
  <2>1. pc[w] = "callee" /\ pc' = [pc EXCEPT ![w] = "callee"]
    BY <1>4 DEF DereferenceNull, IsAt, IInv, TypeOK
  <2>2. TypeOK'
    BY <1>4 DEF DereferenceNull, IInv, TypeOK, fields, owner
  <2>3. pos' = pos /\ pos[w] \in DOMAIN program.deps[at[w]]
    BY <1>4, <2>1 DEF DereferenceNull, IInv, Positioned
  <2> QED
    BY <1>4, <2>1, <2>2, <2>3, ParserStep DEF DereferenceNull, fields, owner
<1> QED
  BY <1>1, <1>2, <1>3, <1>4

(* CreateNewIfNotExists: the new module is in the hands of its creator.     *)
LEMMA LocateNewIInv == ASSUME IInv, NEW w \in Worker, LocateNew(w) PROVE IInv'
<1> DEFINE to == IF Dep(w).kind = "require" THEN "name" ELSE "mark"
           child == Dep(w).to
<1>1. /\ pc[w] = "parse" /\ pc' = [pc EXCEPT ![w] = to] /\ to \in {"name", "mark"}
      /\ pos[w] \in DOMAIN program.deps[at[w]] /\ child \in Path
  BY DEF LocateNew, Located, ToResolve, AtEdge, IsAt
<1>2. table' \in Seq(Path) /\ Range(table') = Range(table) \union {child}
  BY <1>1, RangeAppend DEF LocateNew, IInv, TypeOK
<1>3. w \in Busy /\ Busy' = Busy
  BY <1>1, StillBusy DEF IInv, Control
<1>4. Creating' = Creating \union {w}
  BY <1>1 DEF IInv, TypeOK, Creating
<1>5. \A v \in Worker : Dep(v)' = Dep(v)
  BY DEF LocateNew, Dep
<1>6. Dep(w)'.to = child
  BY <1>5
<1> HIDE DEF to, child
<1>7. TypeOK'
  BY <1>1, <1>2 DEF LocateNew, IInv, TypeOK, fields, owner, Control
<1>8. CountsOutstandingTasks'
  BY <1>3 DEF IInv, CountsOutstandingTasks, LocateNew
<1>9. Positioned'
  BY <1>1, <1>4, <1>5, <1>6 DEF IInv, TypeOK, Positioned, Creating, LocateNew
<1>10. InTable'
  <2>1. UNCHANGED <<parsed, queue, at>>
    BY DEF LocateNew, fields
  <2>2. \A v \in Worker : pc'[v] = "start" <=> pc[v] = "start"
    BY <1>1 DEF IInv, TypeOK
  <2>3. \A v \in Creating' : Dep(v)'.to \in Range(table')
    BY <1>2, <1>4, <1>5, <1>6 DEF IInv, InTable, Creating
  <2> QED
    BY <1>2, <1>3, <2>1, <2>2, <2>3 DEF IInv, InTable, Busy
<1>11. Covered'
  BY <1>2, <1>3, <1>4, <1>5, <1>6 DEF IInv, Covered, Creating, LocateNew, fields
<1>12. Settled' /\ Ended'
  BY <1>1, <1>3, BusyMeansWaiting DEF IInv, TypeOK, Settled, Ended, LocateNew, fields, owner
<1> QED
  BY <1>7, <1>8, <1>9, <1>10, <1>11, <1>12 DEF IInv

(* The steps that set a new module up keep it in its creator's hands.       *)
LEMMA SetUpStep ==
  ASSUME IInv, TypeOK', NEW w \in Worker, NEW to \in {"count", "mark", "spawn"},
         w \in Creating, pc' = [pc EXCEPT ![w] = to],
         UNCHANGED <<program, table, parsed, queue, at, pos, counter, errors, owner>>
  PROVE  IInv'
<1>1. w \in Busy /\ Busy' = Busy
  BY StillBusy DEF IInv, Control, Creating
<1>2. Creating' = Creating
  BY DEF IInv, TypeOK, Creating
<1>3. \A v \in Worker : Dep(v)' = Dep(v)
  BY DEF Dep
<1>4. CountsOutstandingTasks'
  BY <1>1 DEF IInv, CountsOutstandingTasks
<1>5. Positioned'
  BY <1>2, <1>3 DEF IInv, TypeOK, Positioned, Creating
<1>6. InTable'
  BY <1>1, <1>2, <1>3 DEF IInv, TypeOK, InTable, Busy, Creating
<1>7. Covered'
  BY <1>1, <1>2, <1>3 DEF IInv, Covered, Creating
<1>8. Settled' /\ Ended'
  BY <1>1, BusyMeansWaiting DEF IInv, TypeOK, Settled, Ended, owner
<1> QED
  BY <1>4, <1>5, <1>6, <1>7, <1>8 DEF IInv

(* The steps that set a new module up.                                      *)
LEMMA SetUpIInv ==
  ASSUME IInv, NEW w \in Worker, NextName(w) \/ CountName(w) \/ MarkNew(w)
  PROVE  IInv'
<1>1. CASE NextName(w)
  <2>1. pc[w] = "name" /\ pc' = [pc EXCEPT ![w] = IF NextLocks THEN "mark" ELSE "count"]
    BY <1>1 DEF NextName, Goto, IsAt
  <2>2. TypeOK'
    BY <1>1, <2>1, SMTT(30) DEF NextName, IInv, TypeOK, owner, Control
  <2> QED
    BY <1>1, <2>1, <2>2, SetUpStep DEF NextName, owner, Creating
<1>2. CASE CountName(w)
  <2>1. pc[w] = "count" /\ pc' = [pc EXCEPT ![w] = "mark"]
    BY <1>2 DEF CountName, Goto, IsAt
  <2>2. TypeOK'
    BY <1>2, <2>1 DEF CountName, IInv, TypeOK, owner, Control
  <2> QED
    BY <1>2, <2>1, <2>2, SetUpStep DEF CountName, owner, Creating
<1>3. CASE MarkNew(w)
  <2>1. pc[w] = "mark" /\ pc' = [pc EXCEPT ![w] = "spawn"] /\ w \in Creating
    BY <1>3 DEF MarkNew, Goto, IsAt, Creating
  <2>2. Dep(w).to \in Path
    BY <2>1 DEF IInv, Positioned
  <2>3. refMods' \in [Path -> Seq(Path)]
    BY <1>3, <2>2, RangeAppend DEF MarkNew, Reference, IInv, TypeOK
  <2>4. isCJS' \in [Path -> BOOLEAN] /\ hasCJS' \in BOOLEAN
    BY <1>3 DEF MarkNew, IInv, TypeOK
  <2>5. callName' \in [Path -> Nat]
    <3>1. NameFrom(seen[w]) \in Nat
      BY DEF NameFrom, IInv, TypeOK
    <3> QED
      BY <1>3, <3>1 DEF MarkNew, IInv, TypeOK
  <2>6. TypeOK'
    BY <1>3, <2>1, <2>3, <2>4, <2>5 DEF MarkNew, IInv, TypeOK, owner, Control
  <2> QED
    BY <1>3, <2>1, <2>6, SetUpStep DEF MarkNew, owner
<1> QED
  BY <1>1, <1>2, <1>3

(* The new module's task is counted before it is queued.                    *)
LEMMA SpawnIInv == ASSUME IInv, NEW w \in Worker, Spawn(w) PROVE IInv'
<1> DEFINE to == AfterLocation(w)
           child == Dep(w).to
           q == Append(queue, child)
<1>1. /\ pc[w] = "spawn" /\ w \in Creating /\ pc' = [pc EXCEPT ![w] = to]
      /\ to \in {"parse", "callee"} /\ queue' = q /\ Advance(w)
  BY DEF Spawn, IsAt, Creating, AfterLocation, Enqueue
<1>2. pos[w] \in DOMAIN program.deps[at[w]] /\ child \in Path /\ Dep(w) \in Edge
  BY <1>1, DepType DEF IInv, Positioned
<1>3. q \in Seq(Path) /\ Range(q) = Range(queue) \union {child} /\ Len(q) = Len(queue) + 1
  BY <1>2, RangeAppend DEF IInv, TypeOK
<1>4. /\ to = "callee" => pos' = pos
      /\ \A v \in Worker : v # w => pos'[v] = pos[v]
      /\ pos' \in [Worker -> Nat \ {0}]
  <2>1. pos \in [Worker -> Nat \ {0}]
    BY DEF IInv, TypeOK
  <2>2. CASE Dep(w).kind = "require"
    BY <1>1, <2>1, <2>2 DEF Advance
  <2>3. CASE Dep(w).kind # "require"
    BY <1>1, <2>1, <2>3 DEF Advance, AfterLocation
  <2> QED
    BY <2>2, <2>3
<1>5. w \in Busy /\ Busy' = Busy
  BY <1>1, StillBusy DEF IInv, Control
<1>6. /\ UNCHANGED <<program, table, fields, at, owner, errors, externals, crashed>>
      /\ counter' = counter + 1 /\ totalFiles' = totalFiles + 1
  BY DEF Spawn, GroupAdd
<1> HIDE DEF to, q
<1>7. Creating' = Creating \ {w} /\ \A v \in Creating \ {w} : Dep(v)' = Dep(v)
  BY <1>1, <1>4, <1>6 DEF IInv, TypeOK, Creating, Dep
<1>8. TypeOK'
  <2>1. pc' \in [Worker -> Control]
    BY <1>1 DEF IInv, TypeOK, Control
  <2>2. counter' \in Nat /\ totalFiles' \in Nat
    BY <1>6 DEF IInv, TypeOK
  <2> QED
    BY <1>1, <1>3, <1>4, <1>6, <2>1, <2>2 DEF IInv, TypeOK, fields, owner
<1>9. CountsOutstandingTasks'
  BY <1>1, <1>3, <1>5, <1>6, BusyFinite DEF IInv, TypeOK, CountsOutstandingTasks
<1>10. Positioned'
  BY <1>1, <1>2, <1>4, <1>6, <1>7 DEF IInv, TypeOK, Positioned, Creating
<1>11. child \in Range(table)
  BY <1>1 DEF IInv, InTable
<1>12. InTable'
  <2>1. UNCHANGED <<parsed, table, at>>
    BY <1>6 DEF fields
  <2>2. \A v \in Worker : pc'[v] = "start" <=> pc[v] = "start"
    BY <1>1 DEF IInv, TypeOK
  <2> QED
    BY <1>1, <1>3, <1>5, <1>7, <1>11, <2>1, <2>2 DEF IInv, InTable, Busy
<1>13. Covered'
  BY <1>1, <1>3, <1>5, <1>6, <1>7 DEF IInv, Covered, fields
<1>14. Settled' /\ Ended'
  BY <1>1, <1>5, <1>6, BusyMeansWaiting DEF IInv, TypeOK, Settled, Ended, fields, owner
<1> QED
  BY <1>8, <1>9, <1>10, <1>12, <1>13, <1>14 DEF IInv

(* Parsing ends: the module has its ast, or its error is recorded.          *)
LEMMA EndFileIInv == ASSUME IInv, NEW w \in Worker, EndFile(w) PROVE IInv'
<1>1. pc[w] = "parse" /\ pc' = [pc EXCEPT ![w] = "done"]
  BY DEF EndFile, Goto, IsAt
<1>2. w \in Busy /\ Busy' = Busy
  BY <1>1, StillBusy DEF IInv, Control
<1>3. Creating' = Creating /\ w \notin Creating
  BY <1>1 DEF IInv, TypeOK, Creating
<1>4. at[w] \in Path /\ at[w] \in Range(table)
  BY <1>1, <1>2 DEF IInv, TypeOK, InTable
<1>5. /\ parsed \subseteq parsed' /\ parsed' \subseteq parsed \union {at[w]}
      /\ errors \subseteq errors' /\ errors' \subseteq errors \union {at[w]}
      /\ at[w] \in parsed' \union errors'
  BY DEF EndFile, Report
<1>6. UNCHANGED <<program, table, isCJS, callName, refMods, callees, hasCJS, seen,
                  names, queue, at, pos, counter, owner, totalFiles, externals, crashed>>
  BY DEF EndFile
<1>7. \A v \in Creating : Dep(v)' = Dep(v)
  BY <1>6 DEF Dep
<1>8. TypeOK'
  <2>1. pc' \in [Worker -> Control]
    BY <1>1 DEF IInv, TypeOK, Control
  <2> QED
    BY <1>4, <1>5, <1>6, <2>1 DEF IInv, TypeOK, owner
<1>9. CountsOutstandingTasks'
  BY <1>2, <1>6 DEF IInv, CountsOutstandingTasks
<1>10. Positioned'
  BY <1>1, <1>3, <1>6, <1>7 DEF IInv, TypeOK, Positioned, Creating
<1>11. InTable'
  BY <1>1, <1>2, <1>3, <1>4, <1>5, <1>6, <1>7 DEF IInv, TypeOK, InTable, Busy
<1>12. Covered'
  BY <1>2, <1>3, <1>5, <1>6, <1>7 DEF IInv, Covered
<1>13. Settled'
  BY <1>1, <1>5, <1>6 DEF IInv, TypeOK, Settled
<1>14. Ended'
  BY <1>2, <1>6, BusyMeansWaiting DEF Ended, owner
<1> QED
  BY <1>8, <1>9, <1>10, <1>11, <1>12, <1>13, <1>14 DEF IInv

(* Done() takes one task off the count, that of a settled module.           *)
LEMMA TaskDoneIInv == ASSUME IInv, NEW w \in Worker, TaskDone(w) PROVE IInv'
<1> DEFINE to == IF Drained(counter - 1) THEN "notify" ELSE "idle"
<1>1. pc[w] = "done" /\ pc' = [pc EXCEPT ![w] = to] /\ to \in {"notify", "idle"}
  BY DEF TaskDone, Goto, IsAt
<1> HIDE DEF to
<1>2. w \in Busy /\ Busy' = Busy \ {w}
  BY <1>1 DEF IInv, TypeOK, Busy
<1>3. Creating' = Creating /\ w \notin Creating
  BY <1>1 DEF IInv, TypeOK, Creating
<1>4. UNCHANGED <<program, table, fields, queue, at, pos, owner, totalFiles, errors,
                  externals, crashed>> /\ counter' = counter - 1
  BY DEF TaskDone
<1>5. \A v \in Creating : Dep(v)' = Dep(v)
  BY <1>4 DEF Dep
<1>6. waiter # "returned" /\ result = "none" /\ counter > 0
  BY <1>2, BusyMeansWaiting
<1>7. TypeOK'
  <2>1. pc' \in [Worker -> Control]
    BY <1>1 DEF IInv, TypeOK, Control
  <2>2. counter' \in Nat
    BY <1>4, <1>6 DEF IInv, TypeOK
  <2> QED
    BY <1>4, <2>1, <2>2 DEF IInv, TypeOK, fields, owner
<1>8. CountsOutstandingTasks'
  <2>1. Cardinality(Busy') = Cardinality(Busy) - 1
    BY <1>2, BusyFinite, FS_RemoveElement
  <2> QED
    BY <1>4, <2>1, BusyFinite DEF IInv, TypeOK, CountsOutstandingTasks
<1>9. Positioned'
  BY <1>1, <1>3, <1>4, <1>5 DEF IInv, TypeOK, Positioned, Creating
<1>10. InTable'
  BY <1>1, <1>2, <1>3, <1>4, <1>5 DEF IInv, TypeOK, InTable, Busy, fields
<1>11. at[w] \in parsed \union errors
  BY <1>1 DEF IInv, Settled
<1>12. Covered'
  BY <1>2, <1>3, <1>4, <1>5, <1>11 DEF IInv, Covered, fields
<1>13. Settled' /\ Ended'
  BY <1>1, <1>4, <1>6 DEF IInv, TypeOK, Settled, Ended, fields, owner
<1> QED
  BY <1>7, <1>8, <1>9, <1>10, <1>12, <1>13 DEF IInv

(* The notification comes after the task was uncounted.                     *)
LEMMA TaskNotifyIInv == ASSUME IInv, NEW w \in Worker, TaskNotify(w) PROVE IInv'
<1>1. pc[w] = "notify" /\ pc' = [pc EXCEPT ![w] = "idle"]
  BY DEF TaskNotify, Goto, IsAt
<1>2. Busy' = Busy /\ Creating' = Creating /\ w \notin Busy /\ w \notin Creating
  BY <1>1 DEF IInv, TypeOK, Busy, Creating
<1>3. /\ UNCHANGED <<program, table, fields, queue, at, pos, counter, totalFiles, errors,
                     externals, crashed, result>>
      /\ waiter' = IF waiter = "asleep" THEN "check" ELSE waiter
  BY DEF TaskNotify
<1>4. \A v \in Creating : Dep(v)' = Dep(v)
  BY <1>3 DEF Dep
<1>5. TypeOK'
  <2>1. pc' \in [Worker -> Control]
    BY <1>1 DEF IInv, TypeOK, Control
  <2> QED
    BY <1>3, <2>1 DEF IInv, TypeOK, fields
<1>6. CountsOutstandingTasks'
  BY <1>2, <1>3 DEF IInv, CountsOutstandingTasks
<1>7. Positioned'
  BY <1>1, <1>2, <1>3, <1>4 DEF IInv, TypeOK, Positioned, Creating
<1>8. InTable'
  BY <1>1, <1>2, <1>3, <1>4 DEF IInv, TypeOK, InTable, Busy, fields
<1>9. Covered'
  BY <1>2, <1>3, <1>4 DEF IInv, Covered, fields
<1>10. Settled' /\ Ended'
  BY <1>1, <1>3 DEF IInv, TypeOK, Settled, Ended, fields
<1> QED
  BY <1>5, <1>6, <1>7, <1>8, <1>9, <1>10 DEF IInv

-----------------------------------------------------------------------------
(* The entry's task is counted before it is queued.                         *)
LEMMA BeginIInv == ASSUME IInv, Begin PROVE IInv'
<1> DEFINE q == Append(queue, Entry)
<1>1. q \in Seq(Path) /\ Range(q) = Range(queue) \union {Entry} /\ Len(q) = Len(queue) + 1
  BY RangeAppend, ResolutionAssumption DEF IInv, TypeOK
<1>2. /\ queue' = q /\ counter' = counter + 1 /\ totalFiles' = 1 /\ waiter = "adding"
      /\ UNCHANGED <<program, table, fields, pc, at, pos, owner, errors, externals, crashed>>
  BY DEF Begin, GroupAdd, Enqueue
<1> HIDE DEF q
<1>3. Busy' = Busy /\ Creating' = Creating /\ \A v \in Creating : Dep(v)' = Dep(v)
  BY <1>2 DEF Busy, Creating, Dep
<1>4. TypeOK'
  <2>1. counter' \in Nat
    BY <1>2 DEF IInv, TypeOK
  <2> QED
    BY <1>1, <1>2, <2>1 DEF IInv, TypeOK, fields, owner
<1>5. CountsOutstandingTasks'
  <2>1. counter = Len(queue) + Cardinality(Busy) /\ Len(queue) \in Nat
    BY DEF IInv, TypeOK, CountsOutstandingTasks
  <2>2. Len(queue') = Len(queue) + 1 /\ counter' = counter + 1 /\ Busy' = Busy
    BY <1>1, <1>2, <1>3
  <2> QED
    BY <2>1, <2>2, BusyFinite DEF CountsOutstandingTasks
<1>6. Positioned' /\ InTable'
  BY <1>1, <1>2, <1>3 DEF IInv, Positioned, InTable, fields
<1>7. Covered'
  BY <1>1, <1>2, <1>3 DEF IInv, Covered, fields
<1>8. Settled' /\ Ended'
  BY <1>2 DEF IInv, Settled, Ended, fields, owner
<1> QED
  BY <1>4, <1>5, <1>6, <1>7, <1>8 DEF IInv

(* The waiting thread changes nothing but its own state; it passes the test *)
(* at zero only, and returns normally only without errors.                  *)
LEMMA OwnerIInv ==
  ASSUME IInv,
         WaitBegin \/ WaitCheck \/ WaitBlock \/ WaitSpuriousWake \/ Finish \/ UNCHANGED vars
  PROVE  IInv'
<1>1. UNCHANGED <<program, table, fields, queue, pc, at, pos, counter, totalFiles,
                  errors, externals, crashed>>
  BY DEF WaitBegin, WaitCheck, WaitBlock, WaitSpuriousWake, WaiterStep, Finish, vars, fields
<1>2. Busy' = Busy /\ Creating' = Creating /\ \A v \in Creating : Dep(v)' = Dep(v)
  BY <1>1 DEF Busy, Creating, Dep
<1>3. CASE WaitBegin \/ WaitBlock \/ WaitSpuriousWake
  <2>1. /\ waiter \in {"adding", "blocking", "asleep"} /\ result' = result
        /\ waiter' \in {"check", "asleep"}
    BY <1>3 DEF WaitBegin, WaitBlock, WaitSpuriousWake, WaiterStep, AfterWake
  <2> QED
    BY <1>1, <1>2, <2>1
    DEF IInv, TypeOK, CountsOutstandingTasks, Positioned, InTable, Covered, Settled, Ended, fields
<1>4. CASE WaitCheck
  <2>1. /\ waiter = "check" /\ result' = result /\ waiter' \in {"returned", "blocking"}
        /\ waiter' = "returned" => counter = 0
    BY <1>4 DEF WaitCheck, WaiterStep, Drained, IInv, TypeOK
  <2> QED
    BY <1>1, <1>2, <2>1
    DEF IInv, TypeOK, CountsOutstandingTasks, Positioned, InTable, Covered, Settled, Ended, fields
<1>5. CASE Finish
  <2>1. /\ waiter = "returned" /\ waiter' = waiter /\ result' \in {"ok", "threw"}
        /\ result' = "ok" => errors = {}
    BY <1>5 DEF Finish
  <2> QED
    BY <1>1, <1>2, <2>1
    DEF IInv, TypeOK, CountsOutstandingTasks, Positioned, InTable, Covered, Settled, Ended, fields
<1>6. CASE UNCHANGED vars
  BY <1>1, <1>2, <1>6
  DEF IInv, TypeOK, CountsOutstandingTasks, Positioned, InTable, Covered, Settled, Ended, fields, vars
<1> QED
  BY <1>3, <1>4, <1>5, <1>6

(* Every step keeps the invariant.                                          *)
LEMMA NextIInv == IInv /\ [Next]_vars => IInv'
<1> SUFFICES ASSUME IInv, [Next]_vars PROVE IInv'
  OBVIOUS
<1>1. CASE Main \/ UNCHANGED vars
  BY <1>1, BeginIInv, OwnerIInv DEF Main
<1>2. ASSUME NEW w \in Worker, Work(w) PROVE IInv'
  BY <1>2, TakeTaskIInv, StartFileIInv, ParseIInv, LocateNewIInv, SetUpIInv, SpawnIInv,
     EndFileIInv, TaskDoneIInv, TaskNotifyIInv DEF Work
<1> QED
  BY <1>1, <1>2 DEF Next

-----------------------------------------------------------------------------
(* The stage's state is well-typed, and what its tasks have done, are doing *)
(* and will do accounts for every module of the table.                      *)
THEOREM Invariance == Spec => []IInv
  BY InitIInv, NextIInv, PTL DEF Spec

(* Every variable of the stage keeps to its type.                           *)
THEOREM TypeCorrect == Spec => []TypeOK
  BY Invariance, PTL DEF IInv

(* parsing_group_ counts the queued and running tasks at every moment, for  *)
(* any number of workers and any program.                                   *)
THEOREM CountsTasks == Spec => []CountsOutstandingTasks
  BY Invariance, PTL DEF IInv

(* When pBeginFromEntry's wait is over no task is left, and every module of *)
(* the table was parsed or has an error recorded.                           *)
THEOREM WaitSeesEverything == Spec => []ReturnSeesEverything
<1>1. IInv => ReturnSeesEverything
  <2> SUFFICES ASSUME IInv, waiter = "returned"
               PROVE  queue = <<>> /\ Busy = {} /\ Range(table) \subseteq parsed \union errors
    BY DEF ReturnSeesEverything
  <2>1. Busy = {}
    BY BusyMeansWaiting
  <2>2. Len(queue) = 0
    BY <2>1, BusyFinite DEF IInv, Ended, CountsOutstandingTasks, TypeOK
  <2>3. queue = <<>>
    BY <2>2, EmptySeq DEF IInv, TypeOK
  <2>4. Range(queue) = {} /\ Creating = {}
    BY <2>1, <2>3 DEF Range, Creating, Busy
  <2> QED
    BY <2>1, <2>3, <2>4 DEF IInv, Covered
<1> QED
  BY <1>1, Invariance, PTL

(* A normal return leaves exactly the table's modules parsed: no later      *)
(* stage meets a module without an ast.                                     *)
THEOREM OkAllParsed == Spec => []OkMeansAllParsed
<1>1. IInv /\ ReturnSeesEverything => OkMeansAllParsed
  BY DEF IInv, Ended, InTable, ReturnSeesEverything, OkMeansAllParsed
<1> QED
  BY <1>1, Invariance, WaitSeesEverything, PTL

-----------------------------------------------------------------------------
(* Each module has one task: a module is handed from its creator to the       *)
(* queue, to a worker, and to the parsed ones.                               *)

(* A module that its creator is setting up is in nobody else's hands, and    *)
(* is not the entry.                                                        *)
Claimed ==
  \A w \in Creating :
    /\ Dep(w).to # Entry
    /\ Dep(w).to \notin Range(queue) \union parsed
    /\ \A v \in Busy : at[v] # Dep(w).to
    /\ \A v \in Creating : Dep(v).to = Dep(w).to => v = w

(* The entry is the first module of the table.                              *)
EntryFirst ==
  /\ Range(table) # {} => Entry \in Range(table)
  /\ Entry \in Range(queue) => Range(table) = {}
  /\ \A w \in Worker : pc[w] = "start" /\ at[w] = Entry => Range(table) = {}

(* Nothing happens before the entry's task is counted.                      *)
Fresh == totalFiles = 0 => Range(table) = {} /\ Range(queue) = {} /\ Busy = {}

OInv == EachModuleParsedOnce /\ Claimed /\ EntryFirst /\ Fresh

-----------------------------------------------------------------------------
(* A sequence without repetitions, as it grows or shrinks.                  *)
LEMMA DistinctAppend ==
  ASSUME NEW S, NEW s \in Seq(S), NEW e \in S, Distinct(s), e \notin Range(s)
  PROVE  Distinct(Append(s, e))
<1> DEFINE a == Append(s, e)
<1>1. a \in Seq(S) /\ Len(a) = Len(s) + 1 /\ a[Len(s) + 1] = e
  BY AppendProperties
<1>2. \A i \in 1 .. Len(s) : a[i] = s[i]
  BY AppendProperties
<1>3. DOMAIN s = 1 .. Len(s) /\ DOMAIN a = 1 .. Len(s) + 1 /\ Len(s) \in Nat
  BY <1>1
<1> HIDE DEF a
<1>4. \A i \in 1 .. Len(s) : a[i] # e /\ \A j \in 1 .. Len(s) : a[i] = a[j] => i = j
  BY <1>2, <1>3 DEF Range, Distinct
<1>5. \A i \in DOMAIN a : i \in 1 .. Len(s) \/ i = Len(s) + 1
  BY <1>3
<1>6. Distinct(a)
  BY <1>1, <1>4, <1>5 DEF Distinct
<1> QED
  BY <1>6 DEF a

(* ... and as it loses its head.                                            *)
LEMMA DistinctTail ==
  ASSUME NEW S, NEW s \in Seq(S), s # <<>>, Distinct(s)
  PROVE  Distinct(Tail(s)) /\ Head(s) \notin Range(Tail(s))
<1> DEFINE t == Tail(s)
<1>1. /\ Len(s) \in Nat /\ Len(s) > 0 /\ DOMAIN s = 1 .. Len(s) /\ Head(s) = s[1]
  BY EmptySeq
<1>2. /\ DOMAIN t = 1 .. Len(s) - 1
      /\ \A i \in 1 .. Len(s) - 1 : t[i] = s[i + 1]
  BY HeadTailProperties
<1> HIDE DEF t
<1>3. \A i \in 1 .. Len(s) - 1 : i + 1 \in DOMAIN s /\ i + 1 # 1
  BY <1>1
<1>4. Distinct(t)
  <2> SUFFICES ASSUME NEW i \in DOMAIN t, NEW j \in DOMAIN t, t[i] = t[j] PROVE i = j
    BY DEF Distinct
  <2>1. i + 1 = j + 1
    BY <1>2, <1>3 DEF Distinct
  <2> QED
    BY <1>2, <2>1
<1>5. Head(s) \notin Range(t)
  BY <1>1, <1>2, <1>3 DEF Range, Distinct
<1> QED
  BY <1>4, <1>5 DEF t

(* Initially there is nothing to repeat.                                    *)
LEMMA InitOInv == Init => OInv
<1> SUFFICES ASSUME Init PROVE OInv
  OBVIOUS
<1>1. Busy = {} /\ Creating = {} /\ Range(table) = {} /\ Range(queue) = {}
  BY DEF Init, Busy, Creating, Range
<1>2. Distinct(table) /\ Distinct(queue)
  BY DEF Init, Distinct
<1> QED
  BY <1>1, <1>2 DEF Init, OInv, EachModuleParsedOnce, Claimed, EntryFirst, Fresh

(* A step that starts, ends and creates nothing.                            *)
LEMMA QuietStep ==
  ASSUME OInv, Busy' = Busy, Creating' = Creating,
         \A v \in Creating : Dep(v)' = Dep(v),
         \A v \in Worker : pc'[v] = "start" => pc[v] = "start",
         \A v \in Busy : pc[v] = "done" <=> pc'[v] = "done",
         totalFiles' = totalFiles,
         UNCHANGED <<program, table, parsed, queue, at>>
  PROVE  OInv'
<1>1. EachModuleParsedOnce'
  BY DEF OInv, EachModuleParsedOnce, Busy
<1>2. Claimed'
  BY DEF OInv, Claimed
<1>3. EntryFirst' /\ Fresh'
  BY DEF OInv, EntryFirst, Fresh
<1> QED
  BY <1>1, <1>2, <1>3 DEF OInv

(* The waiting thread, and what workers do to a module's fields.             *)
LEMMA QuietOInv ==
  ASSUME IInv, OInv,
         \/ WaitBegin \/ WaitCheck \/ WaitBlock \/ WaitSpuriousWake \/ Finish \/ UNCHANGED vars
         \/ \E w \in Worker :
              \/ ImportExternal(w) \/ NotLocated(w) \/ LocateExisting(w) \/ ReadCallee(w)
              \/ DereferenceNull(w) \/ NextName(w) \/ CountName(w) \/ MarkNew(w) \/ TaskNotify(w)
  PROVE  OInv'
<1>1. CASE WaitBegin \/ WaitCheck \/ WaitBlock \/ WaitSpuriousWake \/ Finish \/ UNCHANGED vars
  <2>1. UNCHANGED <<program, table, parsed, queue, pc, at, pos, totalFiles>>
    BY <1>1 DEF WaitBegin, WaitCheck, WaitBlock, WaitSpuriousWake, WaiterStep, Finish, vars, fields
  <2>2. Busy' = Busy /\ Creating' = Creating /\ \A v \in Creating : Dep(v)' = Dep(v)
    BY <2>1 DEF Busy, Creating, Dep
  <2> QED
    BY <2>1, <2>2, QuietStep
<1>2. ASSUME NEW w \in Worker,
             \/ ImportExternal(w) \/ NotLocated(w) \/ LocateExisting(w) \/ ReadCallee(w)
             \/ DereferenceNull(w)
      PROVE  OInv'
  <2>1. PICK to \in {"parse", "callee"} : pc' = [pc EXCEPT ![w] = to]
    BY <1>2 DEF ImportExternal, NotLocated, LocateExisting, ReadCallee, DereferenceNull,
               AtEdge, Located, ToResolve, Goto, IsAt, AfterLocation, IInv, TypeOK
  <2>2. pc[w] \in {"parse", "callee"}
    BY <1>2 DEF ImportExternal, NotLocated, LocateExisting, ReadCallee, DereferenceNull,
               AtEdge, Located, ToResolve, Goto, IsAt
  <2>3. /\ UNCHANGED <<program, table, parsed, queue, at, totalFiles>>
        /\ \A v \in Worker : v # w => pos'[v] = pos[v]
    BY <1>2 DEF ImportExternal, NotLocated, LocateExisting, ReadCallee, DereferenceNull,
               Advance, IInv, TypeOK, fields
  <2>4. Busy' = Busy /\ Creating' = Creating /\ w \notin Creating
    BY <2>1, <2>2 DEF IInv, TypeOK, Busy, Creating
  <2>5. \A v \in Creating : Dep(v)' = Dep(v)
    BY <2>3, <2>4 DEF Dep, Creating
  <2>6. \A v \in Worker : (pc'[v] = "start" <=> pc[v] = "start") /\ (pc'[v] = "done" <=> pc[v] = "done")
    BY <2>1, <2>2 DEF IInv, TypeOK
  <2> QED
    BY <2>3, <2>4, <2>5, <2>6, QuietStep DEF Busy
<1>3. ASSUME NEW w \in Worker, NextName(w) \/ CountName(w) \/ MarkNew(w) PROVE OInv'
  <2>1. /\ pc[w] \in {"name", "count", "mark"}
        /\ \E to \in {"count", "mark", "spawn"} : pc' = [pc EXCEPT ![w] = to]
    BY <1>3 DEF NextName, CountName, MarkNew, Goto, IsAt
  <2>2. UNCHANGED <<program, table, parsed, queue, at, pos, totalFiles>>
    BY <1>3 DEF NextName, CountName, MarkNew
  <2>3. Busy' = Busy /\ Creating' = Creating /\ \A v \in Creating : Dep(v)' = Dep(v)
    BY <2>1, <2>2 DEF IInv, TypeOK, Busy, Creating, Dep
  <2>4. \A v \in Worker : (pc'[v] = "start" <=> pc[v] = "start") /\ (pc'[v] = "done" <=> pc[v] = "done")
    BY <2>1 DEF IInv, TypeOK
  <2> QED
    BY <2>2, <2>3, <2>4, QuietStep DEF Busy
<1>4. ASSUME NEW w \in Worker, TaskNotify(w) PROVE OInv'
  <2>1. pc[w] = "notify" /\ pc' = [pc EXCEPT ![w] = "idle"]
    BY <1>4 DEF TaskNotify, Goto, IsAt
  <2>2. UNCHANGED <<program, table, parsed, queue, at, pos, totalFiles>>
    BY <1>4 DEF TaskNotify, fields
  <2>3. Busy' = Busy /\ Creating' = Creating /\ \A v \in Creating : Dep(v)' = Dep(v)
    BY <2>1, <2>2 DEF IInv, TypeOK, Busy, Creating, Dep
  <2>4. \A v \in Worker : (pc'[v] = "start" <=> pc[v] = "start") /\ (pc'[v] = "done" <=> pc[v] = "done")
    BY <2>1 DEF IInv, TypeOK
  <2> QED
    BY <2>2, <2>3, <2>4, QuietStep DEF Busy
<1> QED
  BY <1>1, <1>2, <1>3, <1>4

-----------------------------------------------------------------------------
(* The first task is the entry's.                                           *)
LEMMA BeginOInv == ASSUME IInv, OInv, Begin PROVE OInv'
<1>1. /\ queue' = Append(queue, Entry) /\ totalFiles = 0 /\ totalFiles' = 1
      /\ UNCHANGED <<program, table, parsed, pc, at, pos>>
  BY DEF Begin, Enqueue, fields
<1>2. Range(table) = {} /\ Range(queue) = {} /\ Busy = {} /\ Creating = {} /\ parsed = {}
  BY <1>1 DEF OInv, Fresh, Busy, Creating, IInv, InTable
<1>3. Range(queue') = {Entry} /\ Distinct(queue')
  BY <1>1, <1>2, RangeAppend, DistinctAppend, ResolutionAssumption
  DEF IInv, TypeOK, OInv, EachModuleParsedOnce
<1>4. Busy' = {} /\ Creating' = {}
  BY <1>1, <1>2 DEF Busy, Creating
<1>5. EachModuleParsedOnce'
  BY <1>1, <1>2, <1>3, <1>4 DEF OInv, EachModuleParsedOnce
<1>6. Claimed' /\ Fresh'
  BY <1>1, <1>4 DEF Claimed, Fresh
<1>7. EntryFirst'
  BY <1>1, <1>2 DEF EntryFirst
<1> QED
  BY <1>5, <1>6, <1>7 DEF OInv

(* A task leaves the queue for one worker.                                  *)
LEMMA TakeTaskOInv == ASSUME IInv, OInv, NEW w \in Worker, TakeTask(w) PROVE OInv'
<1> DEFINE t == Tail(queue)
           h == Head(queue)
<1>1. /\ h \in Path /\ Range(queue) = {h} \union Range(t)
      /\ Distinct(t) /\ h \notin Range(t)
  BY RangeTail, DistinctTail DEF IInv, TypeOK, TakeTask, OInv, EachModuleParsedOnce
<1>2. /\ pc[w] = "idle" /\ pc' = [pc EXCEPT ![w] = "start"] /\ queue' = t
      /\ at' = [at EXCEPT ![w] = h]
      /\ UNCHANGED <<program, table, parsed, pos, totalFiles>>
  BY DEF TakeTask, Goto, IsAt, fields
<1> HIDE DEF t, h
<1>3. /\ Busy' = Busy \union {w} /\ w \notin Busy /\ Creating' = Creating /\ w \notin Creating
      /\ \A v \in Worker : v # w => at'[v] = at[v] /\ pc'[v] = pc[v]
      /\ at'[w] = h /\ pc'[w] = "start"
  BY <1>1, <1>2 DEF IInv, TypeOK, Busy, Creating
<1>4. \A v \in Creating : Dep(v)' = Dep(v)
  BY <1>2, <1>3 DEF Dep, Creating
<1>5. \A v \in Busy : v \in Worker
  BY DEF Busy
<1>6. EachModuleParsedOnce'
  <2>1. Distinct(table') /\ Distinct(queue') /\ Range(queue') \intersect parsed' = {}
    BY <1>1, <1>2 DEF OInv, EachModuleParsedOnce
  <2>2. h \notin parsed /\ \A v \in Busy : at[v] # h
    BY <1>1 DEF OInv, EachModuleParsedOnce
  <2>3. \A v \in Busy' : at'[v] \notin Range(queue') \union (IF pc'[v] = "done" THEN {} ELSE parsed')
    BY <1>1, <1>2, <1>3, <1>5, <2>2 DEF OInv, EachModuleParsedOnce
  <2>4. \A v, u \in Busy' : at'[v] = at'[u] => v = u
    BY <1>3, <1>5, <2>2 DEF OInv, EachModuleParsedOnce
  <2> QED
    BY <2>1, <2>3, <2>4 DEF EachModuleParsedOnce
<1>7. Claimed'
  BY <1>1, <1>2, <1>3, <1>4, <1>5 DEF OInv, Claimed
<1>8. EntryFirst' /\ Fresh'
  <2>1. totalFiles # 0
    BY <1>1 DEF OInv, Fresh
  <2> QED
    BY <1>1, <1>2, <1>3, <2>1 DEF OInv, EntryFirst, Fresh
<1> QED
  BY <1>6, <1>7, <1>8 DEF OInv

(* The entry joins the table while it is empty.                             *)
LEMMA StartFileOInv == ASSUME IInv, OInv, NEW w \in Worker, StartFile(w) PROVE OInv'
<1>1. /\ pc[w] = "start" /\ \E to \in {"parse", "done"} : pc' = [pc EXCEPT ![w] = to]
      /\ table' = IF at[w] = Entry THEN Append(table, at[w]) ELSE table
      /\ UNCHANGED <<program, parsed, queue, at, totalFiles>>
      /\ pos' = [pos EXCEPT ![w] = 1]
  BY DEF StartFile, Goto, IsAt, fields
<1>2. /\ w \in Busy /\ Busy' = Busy /\ Creating' = Creating /\ w \notin Creating
      /\ \A v \in Worker : v # w => pc'[v] = pc[v] /\ pos'[v] = pos[v]
      /\ pc'[w] # "start"
  BY <1>1 DEF IInv, TypeOK, Busy, Creating
<1>3. \A v \in Creating : Dep(v)' = Dep(v)
  BY <1>1, <1>2 DEF Dep, Creating
<1>4. /\ at[w] \in Path /\ table \in Seq(Path)
      /\ at[w] \in Range(table) \union {Entry}
  BY <1>1 DEF IInv, TypeOK, InTable
<1>5. at[w] = Entry => Range(table) = {} /\ Range(table') = {Entry} /\ Distinct(table')
  <2> HAVE at[w] = Entry
  <2>1. Range(table) = {}
    BY <1>1 DEF OInv, EntryFirst
  <2> QED
    BY <1>1, <1>4, <2>1, RangeAppend, DistinctAppend DEF OInv, EachModuleParsedOnce
<1>6. EachModuleParsedOnce'
  <2>1. Distinct(table')
    BY <1>1, <1>5 DEF OInv, EachModuleParsedOnce
  <2>2. \A v \in Busy : pc'[v] # "done" => pc[v] # "done"
    BY <1>1, <1>2 DEF Busy
  <2> QED
    BY <1>1, <1>2, <2>1, <2>2 DEF OInv, EachModuleParsedOnce
<1>7. Claimed'
  BY <1>1, <1>2, <1>3 DEF OInv, Claimed
<1>8. EntryFirst'
  <2>1. CASE at[w] = Entry
    <3>1. Entry \notin Range(queue) /\ \A v \in Busy : at[v] = Entry => v = w
      BY <1>2, <2>1 DEF OInv, EachModuleParsedOnce
    <3>2. \A v \in Worker : pc[v] = "start" => v \in Busy
      BY DEF Busy
    <3> QED
      BY <1>1, <1>2, <1>5, <2>1, <3>1, <3>2 DEF EntryFirst
  <2>2. CASE at[w] # Entry
    BY <1>1, <1>2, <2>2 DEF OInv, EntryFirst
  <2> QED
    BY <2>1, <2>2
<1>9. Fresh'
  BY <1>1, <1>2 DEF OInv, Fresh
<1> QED
  BY <1>6, <1>7, <1>8, <1>9 DEF OInv

(* Only one worker creates a module, since it was not in the table before.   *)
LEMMA LocateNewOInv == ASSUME IInv, OInv, NEW w \in Worker, LocateNew(w) PROVE OInv'
<1> DEFINE child == Dep(w).to
<1>1. /\ pc[w] = "parse" /\ \E to \in {"name", "mark"} : pc' = [pc EXCEPT ![w] = to]
      /\ child \in Path /\ child \notin Range(table) /\ table' = Append(table, child)
      /\ UNCHANGED <<program, parsed, queue, at, pos, totalFiles>>
  BY DEF LocateNew, Located, ToResolve, AtEdge, IsAt, Known, fields
<1>2. /\ w \in Busy /\ Busy' = Busy /\ Creating' = Creating \union {w} /\ w \notin Creating
      /\ \A v \in Worker : v # w => pc'[v] = pc[v]
      /\ pc'[w] # "start" /\ pc'[w] # "done"
  BY <1>1 DEF IInv, TypeOK, Busy, Creating
<1>3. \A v \in Worker : Dep(v)' = Dep(v)
  BY <1>1 DEF Dep
<1>4. Range(table') = Range(table) \union {child} /\ Distinct(table')
  BY <1>1, RangeAppend, DistinctAppend DEF IInv, TypeOK, OInv, EachModuleParsedOnce
<1>5. at[w] \in Range(table) /\ Entry \in Range(table) /\ child # Entry
  BY <1>1, <1>2 DEF IInv, InTable, OInv, EntryFirst
<1>6. child \notin Range(queue) \union parsed /\ \A v \in Busy : at[v] # child
  <2>1. \A v \in Busy : at[v] \in Range(table) \union {Entry}
    BY DEF IInv, InTable, Busy
  <2> QED
    BY <1>1, <1>5, <2>1 DEF IInv, InTable
<1>7. \A v \in Creating : Dep(v).to # child
  BY <1>1 DEF IInv, InTable
<1>8. Dep(w)'.to = child
  BY <1>3
<1> HIDE DEF child
<1>9. EachModuleParsedOnce'
  <2>1. \A v \in Busy : pc'[v] = "done" <=> pc[v] = "done"
    BY <1>1, <1>2 DEF Busy
  <2> QED
    BY <1>1, <1>2, <1>4, <2>1 DEF OInv, EachModuleParsedOnce
<1>10. Claimed'
  <2>1. \A v \in Creating : Dep(v)' = Dep(v)
    BY <1>3 DEF Creating
  <2> QED
    BY <1>1, <1>2, <1>5, <1>6, <1>7, <1>8, <2>1 DEF OInv, Claimed
<1>11. EntryFirst'
  <2>1. Entry \notin Range(queue) /\ \A v \in Worker : ~(pc[v] = "start" /\ at[v] = Entry)
    BY <1>5 DEF OInv, EntryFirst
  <2> QED
    BY <1>1, <1>2, <1>4, <1>5, <2>1 DEF EntryFirst
<1>12. Fresh'
  BY <1>1, <1>2 DEF OInv, Fresh
<1> QED
  BY <1>9, <1>10, <1>11, <1>12 DEF OInv

(* ... and so only one task is made for it.                                 *)
LEMMA SpawnOInv == ASSUME IInv, OInv, NEW w \in Worker, Spawn(w) PROVE OInv'
<1> DEFINE child == Dep(w).to
<1>1. /\ pc[w] = "spawn" /\ w \in Creating
      /\ \E to \in {"parse", "callee"} : pc' = [pc EXCEPT ![w] = to]
      /\ queue' = Append(queue, child) /\ totalFiles' = totalFiles + 1
      /\ UNCHANGED <<program, table, parsed, at>>
  BY DEF Spawn, IsAt, Creating, AfterLocation, Enqueue, fields
<1>2. /\ w \in Busy /\ Busy' = Busy /\ Creating' = Creating \ {w}
      /\ \A v \in Worker : v # w => pc'[v] = pc[v] /\ pos'[v] = pos[v]
      /\ pc'[w] # "start" /\ pc'[w] # "done"
  BY <1>1 DEF IInv, TypeOK, Busy, Creating, Spawn, Advance
<1>3. \A v \in Creating \ {w} : Dep(v)' = Dep(v)
  BY <1>1, <1>2 DEF Dep, Creating
<1>4. /\ child \in Path /\ child # Entry /\ child \notin Range(queue) \union parsed
      /\ \A v \in Busy : at[v] # child
      /\ \A v \in Creating \ {w} : Dep(v).to # child
  BY <1>1 DEF IInv, Positioned, OInv, Claimed
<1>5. Range(queue') = Range(queue) \union {child} /\ Distinct(queue')
  BY <1>1, <1>4, RangeAppend, DistinctAppend DEF IInv, TypeOK, OInv, EachModuleParsedOnce
<1> HIDE DEF child
<1>6. EachModuleParsedOnce'
  <2>1. \A v \in Busy : pc'[v] = "done" <=> pc[v] = "done"
    BY <1>1, <1>2 DEF Busy
  <2> QED
    BY <1>1, <1>2, <1>4, <1>5, <2>1 DEF OInv, EachModuleParsedOnce
<1>7. Claimed'
  BY <1>1, <1>2, <1>3, <1>4, <1>5 DEF OInv, Claimed
<1>8. EntryFirst'
  BY <1>1, <1>2, <1>4, <1>5 DEF OInv, EntryFirst
<1>9. Fresh'
  BY <1>1 DEF IInv, TypeOK, Fresh
<1> QED
  BY <1>6, <1>7, <1>8, <1>9 DEF OInv

(* A parsed module is marked by the one worker that parsed it.              *)
LEMMA EndFileOInv == ASSUME IInv, OInv, NEW w \in Worker, EndFile(w) PROVE OInv'
<1>1. /\ pc[w] = "parse" /\ pc' = [pc EXCEPT ![w] = "done"]
      /\ parsed' \subseteq parsed \union {at[w]}
      /\ UNCHANGED <<program, table, queue, at, pos, totalFiles>>
  BY DEF EndFile, Goto, IsAt
<1>2. /\ w \in Busy /\ Busy' = Busy /\ Creating' = Creating
      /\ \A v \in Worker : v # w => pc'[v] = pc[v]
      /\ pc'[w] = "done"
  BY <1>1 DEF IInv, TypeOK, Busy, Creating
<1>3. \A v \in Creating : Dep(v)' = Dep(v)
  BY <1>1 DEF Dep
<1>4. EachModuleParsedOnce'
  <2>1. at[w] \notin Range(queue) /\ \A v \in Busy : at[v] = at[w] => v = w
    BY <1>2 DEF OInv, EachModuleParsedOnce
  <2>2. \A v \in Busy : v \in Worker
    BY DEF Busy
  <2>3. \A v \in Busy' : at'[v] \notin Range(queue') \union (IF pc'[v] = "done" THEN {} ELSE parsed')
    BY <1>1, <1>2, <2>1, <2>2 DEF OInv, EachModuleParsedOnce
  <2> QED
    BY <1>1, <1>2, <2>1, <2>3 DEF OInv, EachModuleParsedOnce
<1>5. Claimed'
  BY <1>1, <1>2, <1>3 DEF OInv, Claimed
<1>6. EntryFirst' /\ Fresh'
  BY <1>1, <1>2 DEF OInv, EntryFirst, Fresh
<1> QED
  BY <1>4, <1>5, <1>6 DEF OInv

(* A task ends, its module parsed or reported.                              *)
LEMMA TaskDoneOInv == ASSUME IInv, OInv, NEW w \in Worker, TaskDone(w) PROVE OInv'
<1>1. /\ pc[w] = "done" /\ \E to \in {"notify", "idle"} : pc' = [pc EXCEPT ![w] = to]
      /\ UNCHANGED <<program, table, parsed, queue, at, pos, totalFiles>>
  BY DEF TaskDone, Goto, IsAt, fields
<1>2. /\ w \in Busy /\ Busy' = Busy \ {w} /\ Creating' = Creating
      /\ \A v \in Worker : v # w => pc'[v] = pc[v]
      /\ pc'[w] # "start"
  BY <1>1 DEF IInv, TypeOK, Busy, Creating
<1>3. \A v \in Creating : Dep(v)' = Dep(v)
  BY <1>1 DEF Dep
<1>4. EachModuleParsedOnce'
  <2>1. \A v \in Busy : v \in Worker
    BY DEF Busy
  <2> QED
    BY <1>1, <1>2, <2>1 DEF OInv, EachModuleParsedOnce
<1>5. Claimed'
  BY <1>1, <1>2, <1>3 DEF OInv, Claimed
<1>6. EntryFirst' /\ Fresh'
  BY <1>1, <1>2 DEF OInv, EntryFirst, Fresh
<1> QED
  BY <1>4, <1>5, <1>6 DEF OInv

(* Every step keeps each module in one place.                               *)
LEMMA NextOInv == IInv /\ OInv /\ [Next]_vars => OInv'
<1> SUFFICES ASSUME IInv, OInv, [Next]_vars PROVE OInv'
  OBVIOUS
<1>1. CASE Main \/ UNCHANGED vars
  BY <1>1, BeginOInv, QuietOInv DEF Main
<1>2. ASSUME NEW w \in Worker, Work(w) PROVE OInv'
  BY <1>2, QuietOInv, TakeTaskOInv, StartFileOInv, LocateNewOInv, SpawnOInv, EndFileOInv,
     TaskDoneOInv DEF Work
<1> QED
  BY <1>1, <1>2 DEF Next

(* No path has two ids or two tasks: however workers race to discover a      *)
(* module, it is parsed once.                                               *)
THEOREM ParsedOnce == Spec => []EachModuleParsedOnce
<1>1. Spec => []OInv
  BY InitOInv, NextOInv, Invariance, PTL DEF Spec
<1> QED
  BY <1>1, PTL DEF OInv

(* A module's flags are set by its creator, before anybody else has it.      *)
LEMMA OnlyMarkSetsFlags ==
  ASSUME IInv, [Next]_vars
  PROVE  \/ UNCHANGED <<isCJS, callName>>
         \/ \E w \in Creating : MarkNew(w)
<1>1. CASE Main \/ UNCHANGED vars
  BY <1>1 DEF Main, Begin, WaitBegin, WaitCheck, WaitBlock, WaitSpuriousWake, WaiterStep,
              Finish, vars, fields
<1>2. ASSUME NEW w \in Worker, MarkNew(w) PROVE w \in Creating
  BY <1>2 DEF MarkNew, Goto, IsAt, Creating
<1>3. ASSUME NEW w \in Worker, Work(w), ~MarkNew(w) PROVE UNCHANGED <<isCJS, callName>>
  BY <1>3 DEF Work, TakeTask, StartFile, ImportExternal, NotLocated, LocateExisting, LocateNew,
              NextName, CountName, Spawn, ReadCallee, DereferenceNull, EndFile, TaskDone,
              TaskNotify, fields
<1> QED
  BY <1>1, <1>2, <1>3 DEF Next

(* is_common_js_ and cjs_call_name never change once a module's task exists. *)
THEOREM FlagsFixed == Spec => FlagsFixedOnceQueued
<1> DEFINE Fixed == \A p \in Path : p \in Range(queue) \union {at[w] : w \in Busy} \union parsed
                      => isCJS'[p] = isCJS[p] /\ callName'[p] = callName[p]
<1>1. IInv /\ OInv /\ [Next]_vars => [Fixed]_vars
  <2> SUFFICES ASSUME IInv, OInv, [Next]_vars, NEW w \in Creating, MarkNew(w) PROVE Fixed
    BY OnlyMarkSetsFlags
  <2>1. Dep(w).to \notin Range(queue) \union {at[v] : v \in Busy} \union parsed
    BY DEF OInv, Claimed
  <2>2. \A p \in Path : p # Dep(w).to => isCJS'[p] = isCJS[p] /\ callName'[p] = callName[p]
    BY DEF MarkNew, IInv, TypeOK
  <2> QED
    BY <2>1, <2>2
<1>2. Spec => []OInv
  BY InitOInv, NextOInv, Invariance, PTL DEF Spec
<1> QED
  BY <1>1, <1>2, Invariance, PTL DEF Spec, FlagsFixedOnceQueued

-----------------------------------------------------------------------------
(* The tasks the parsing stage's latch waits for.                           *)
Outstanding == Range(queue) \union {at[w] : w \in Busy}

(* Steps that neither add nor finish a task.                                *)
LEMMA SameTasks ==
  ASSUME IInv, UNCHANGED <<queue, at>>, Busy' = Busy
  PROVE  Outstanding' = Outstanding
  BY DEF Outstanding

(* The entry's task joins the latch.                                        *)
LEMMA BeginJoins == ASSUME IInv, OInv, Begin PROVE AsLatch!Join({Entry})
<1>1. /\ queue' = Append(queue, Entry) /\ totalFiles = 0 /\ waiter = "adding"
      /\ UNCHANGED <<pc, at, waiter>>
  BY DEF Begin, Enqueue, owner
<1>2. Range(queue) = {} /\ Busy = {} /\ Busy' = {}
  BY <1>1 DEF OInv, Fresh, Busy
<1>3. Range(queue') = {Entry}
  BY <1>1, <1>2, RangeAppend, ResolutionAssumption DEF IInv, TypeOK
<1> QED
  BY <1>1, <1>2, <1>3 DEF AsLatch!Join

(* A new module's task joins it while the module that found it is in.       *)
LEMMA SpawnJoins ==
  ASSUME IInv, OInv, NEW w \in Worker, Spawn(w)
  PROVE  Dep(w).to \in Path /\ AsLatch!Join({Dep(w).to})
<1> DEFINE child == Dep(w).to
<1>1. /\ pc[w] = "spawn" /\ w \in Creating /\ w \in Busy
      /\ \E to \in {"parse", "callee"} : pc' = [pc EXCEPT ![w] = to]
      /\ queue' = Append(queue, child)
      /\ UNCHANGED <<at, waiter>>
  BY DEF Spawn, IsAt, Creating, Busy, AfterLocation, Enqueue, owner
<1>2. Busy' = Busy
  BY <1>1 DEF IInv, TypeOK, Busy
<1>3. child \in Path /\ child \notin Range(queue) /\ \A v \in Busy : at[v] # child
  BY <1>1 DEF IInv, Positioned, OInv, Claimed
<1>4. Range(queue') = Range(queue) \union {child}
  BY <1>1, <1>3, RangeAppend DEF IInv, TypeOK
<1>5. waiter # "returned"
  BY <1>1, BusyMeansWaiting
<1> QED
  BY <1>1, <1>2, <1>3, <1>4, <1>5 DEF AsLatch!Join

(* A task that is done leaves it.                                           *)
LEMMA TaskDoneLeaves ==
  ASSUME IInv, OInv, NEW w \in Worker, TaskDone(w)
  PROVE  at[w] \in Path /\ AsLatch!Leave(at[w])
<1>1. /\ pc[w] = "done" /\ \E to \in {"notify", "idle"} : pc' = [pc EXCEPT ![w] = to]
      /\ UNCHANGED <<queue, at, waiter>>
  BY DEF TaskDone, Goto, IsAt, owner
<1>2. w \in Busy /\ Busy' = Busy \ {w}
  BY <1>1 DEF IInv, TypeOK, Busy
<1>3. at[w] \notin Range(queue) /\ \A v \in Busy : at[v] = at[w] => v = w
  BY <1>2 DEF OInv, EachModuleParsedOnce
<1>4. at[w] \in Path
  BY DEF IInv, TypeOK
<1>5. {at[v] : v \in Busy'} = {at[v] : v \in Busy} \ {at[w]}
  BY <1>2, <1>3
<1> QED
  BY <1>1, <1>2, <1>3, <1>4, <1>5 DEF AsLatch!Leave

(* A task that goes from the queue to a worker stays in.                    *)
LEMMA TakeTaskKeeps ==
  ASSUME IInv, NEW w \in Worker, TakeTask(w)
  PROVE  Outstanding' = Outstanding /\ waiter' = waiter
<1> DEFINE t == Tail(queue)
           h == Head(queue)
<1>1. Range(queue) = {h} \union Range(t)
  BY RangeTail DEF IInv, TypeOK, TakeTask
<1>2. /\ pc[w] = "idle" /\ pc' = [pc EXCEPT ![w] = "start"] /\ queue' = t
      /\ at' = [at EXCEPT ![w] = h] /\ waiter' = waiter
  BY DEF TakeTask, Goto, IsAt, owner
<1> HIDE DEF t, h
<1>3. /\ Busy' = Busy \union {w} /\ w \notin Busy /\ at'[w] = h
      /\ \A v \in Busy : at'[v] = at[v]
  BY <1>2 DEF IInv, TypeOK, Busy
<1>4. {at'[v] : v \in Busy'} = {at[v] : v \in Busy} \union {h}
  BY <1>3
<1> QED
  BY <1>1, <1>2, <1>4 DEF Outstanding

(* The wait is over when nothing is outstanding.                            *)
LEMMA WaitCheckOpens ==
  ASSUME IInv, WaitCheck
  PROVE  AsLatch!Open \/ UNCHANGED <<Outstanding, waiter = "returned">>
<1>1. /\ waiter = "check" /\ waiter' = (IF counter <= 0 THEN "returned" ELSE "blocking")
      /\ UNCHANGED <<queue, pc, at>>
  BY DEF WaitCheck, WaiterStep, Drained
<1>2. Outstanding' = Outstanding /\ Busy' = Busy
  BY <1>1 DEF Busy, Outstanding
<1>3. ASSUME counter <= 0 PROVE Outstanding = {}
  <2>1. Len(queue) = 0 /\ Cardinality(Busy) = 0
    BY <1>3, BusyFinite DEF IInv, CountsOutstandingTasks, TypeOK
  <2>2. queue = <<>> /\ Busy = {}
    BY <2>1, EmptySeq, FS_EmptySet, BusyFinite DEF IInv, TypeOK
  <2> QED
    BY <2>2 DEF Outstanding, Range
<1>4. CASE counter <= 0
  BY <1>1, <1>2, <1>3, <1>4 DEF AsLatch!Open, Outstanding
<1>5. CASE ~(counter <= 0)
  BY <1>1, <1>2, <1>5
<1> QED
  BY <1>4, <1>5

(* What every other step leaves alone.                                      *)
LEMMA OtherSteps ==
  ASSUME IInv,
         \/ WaitBegin \/ WaitBlock \/ WaitSpuriousWake \/ Finish \/ UNCHANGED vars
         \/ \E w \in Worker :
              \/ StartFile(w) \/ ImportExternal(w) \/ NotLocated(w) \/ LocateExisting(w)
              \/ LocateNew(w) \/ NextName(w) \/ CountName(w) \/ MarkNew(w) \/ ReadCallee(w)
              \/ DereferenceNull(w) \/ EndFile(w) \/ TaskNotify(w)
  PROVE  UNCHANGED <<Outstanding, waiter = "returned">>
<1>1. CASE WaitBegin \/ WaitBlock \/ WaitSpuriousWake \/ Finish \/ UNCHANGED vars
  <2>1. UNCHANGED <<queue, pc, at>>
    BY <1>1 DEF WaitBegin, WaitBlock, WaitSpuriousWake, WaiterStep, Finish, vars
  <2>2. (waiter = "returned")' = (waiter = "returned")
    BY <1>1 DEF WaitBegin, WaitBlock, WaitSpuriousWake, WaiterStep, Finish, vars, AfterWake
  <2> QED
    BY <2>1, <2>2, SameTasks DEF Busy
<1>2. ASSUME NEW w \in Worker,
             \/ StartFile(w) \/ ImportExternal(w) \/ NotLocated(w) \/ LocateExisting(w)
             \/ LocateNew(w) \/ NextName(w) \/ CountName(w) \/ MarkNew(w) \/ ReadCallee(w)
             \/ DereferenceNull(w) \/ EndFile(w)
      PROVE  UNCHANGED <<Outstanding, waiter = "returned">>
  <2>1. UNCHANGED <<queue, at, waiter>>
    BY <1>2 DEF StartFile, ImportExternal, NotLocated, LocateExisting, LocateNew, NextName,
               CountName, MarkNew, ReadCallee, DereferenceNull, EndFile, fields, owner
  <2>2. w \in Busy /\ \E to \in Control \ {"idle", "notify"} : pc' = [pc EXCEPT ![w] = to]
    <3>1. CASE StartFile(w) \/ NextName(w) \/ CountName(w) \/ MarkNew(w) \/ ReadCallee(w) \/ EndFile(w)
      BY <3>1 DEF StartFile, NextName, CountName, MarkNew, ReadCallee, EndFile, Goto, IsAt,
                  Control, Busy
    <3>2. CASE LocateNew(w) \/ NotLocated(w) \/ LocateExisting(w)
      BY <3>2 DEF LocateNew, NotLocated, LocateExisting, Located, ToResolve, AtEdge, IsAt,
                  AfterLocation, Control, Busy
    <3>3. CASE ImportExternal(w) \/ DereferenceNull(w)
      BY <3>3, SMTT(60) DEF ImportExternal, DereferenceNull, AtEdge, IsAt, Control, Busy, IInv, TypeOK
    <3> QED
      BY <1>2, <3>1, <3>2, <3>3
  <2>3. Busy' = Busy
    BY <2>2 DEF IInv, TypeOK, Busy
  <2> QED
    BY <2>1, <2>3, SameTasks
<1>3. ASSUME NEW w \in Worker, TaskNotify(w) PROVE UNCHANGED <<Outstanding, waiter = "returned">>
  <2>1. /\ UNCHANGED <<queue, at>> /\ pc[w] = "notify" /\ pc' = [pc EXCEPT ![w] = "idle"]
        /\ waiter' = IF waiter = "asleep" THEN "check" ELSE waiter
    BY <1>3 DEF TaskNotify, Goto, IsAt, fields
  <2>2. Busy' = Busy
    BY <2>1 DEF IInv, TypeOK, Busy
  <2> QED
    BY <2>1, <2>2, SameTasks
<1> QED
  BY <1>1, <1>2, <1>3

(* Every step is a step of the latch or changes nothing of it.              *)
LEMMA StepSimulation == IInv /\ OInv /\ [Next]_vars => [AsLatch!Next]_(AsLatch!vars)
<1> SUFFICES ASSUME IInv, OInv, [Next]_vars PROVE [AsLatch!Next]_(AsLatch!vars)
  OBVIOUS
<1>1. ASSUME Begin PROVE \E S \in SUBSET Path : AsLatch!Join(S)
  <2>1. {Entry} \in SUBSET Path
    BY ResolutionAssumption
  <2>2. AsLatch!Join({Entry})
    BY <1>1, BeginJoins
  <2> QED
    BY <2>1, <2>2, Zenon
<1>2. ASSUME NEW w \in Worker, Spawn(w) PROVE \E S \in SUBSET Path : AsLatch!Join(S)
  <2>1. PICK p \in Path : p = Dep(w).to
    BY <1>2, SpawnJoins
  <2>2. {p} \in SUBSET Path
    BY <2>1
  <2>3. AsLatch!Join({p})
    BY <1>2, <2>1, SpawnJoins DEF AsLatch!Join
  <2> QED
    BY <2>2, <2>3, Zenon
<1>3. ASSUME NEW w \in Worker, TaskDone(w) PROVE \E t \in Path : AsLatch!Leave(t)
  BY <1>3, TaskDoneLeaves DEF AsLatch!Leave
<1>4. UNCHANGED <<Outstanding, waiter = "returned">> => UNCHANGED AsLatch!vars
  BY DEF Outstanding, AsLatch!vars
<1>5. ASSUME NEW w \in Worker, TakeTask(w) PROVE UNCHANGED AsLatch!vars
  BY <1>4, <1>5, TakeTaskKeeps
<1>6. WaitCheck => AsLatch!Open \/ UNCHANGED AsLatch!vars
  BY <1>4, WaitCheckOpens
<1>7. \/ Begin \/ WaitCheck
      \/ \E w \in Worker : Spawn(w) \/ TaskDone(w) \/ TakeTask(w)
      \/ UNCHANGED <<Outstanding, waiter = "returned">>
  BY OtherSteps DEF Next, Main, Work
<1> QED
  BY <1>1, <1>2, <1>3, <1>4, <1>5, <1>6, <1>7 DEF AsLatch!Next

(* The parsing stage uses its wait group as a latch: no task joins it once    *)
(* the waiting thread was let through.                                       *)
THEOREM StageRefinement == Spec => ImplementsLatch
<1>1. Init => AsLatch!Init
  BY DEF Init, AsLatch!Init, Busy, Range
<1>2. Spec => []OInv
  BY InitOInv, NextOInv, Invariance, PTL DEF Spec
<1> QED
  BY <1>1, <1>2, StepSimulation, Invariance, PTL DEF Spec, ImplementsLatch, AsLatch!Spec

-----------------------------------------------------------------------------
(***************************************************************************)
(* What the parsing stage finds and reports is the program's and not the   *)
(* schedule's: the modules of the table are the reachable ones, their       *)
(* number, their external imports and the verdict follow from the program  *)
(* alone, and so do the order of ref_mods and, with a lock in the name      *)
(* generator, the agreement of require() calls with the modules they mean. *)
(***************************************************************************)

(* Where a worker is while its parser is under way.                         *)
Reading == {"parse", "name", "count", "mark", "spawn", "callee"}

(* What a parser leaves behind for the i-th dependency of p: a located       *)
(* module is in the table, an external import is known, and a specifier      *)
(* nothing matches is an error of p.                                        *)
Handled(p, i) ==
  LET e == program.deps[p][i]
      external == e.kind = "import" /\ e.to \in External
  IN /\ program.trace /\ e.to \in Path => e.to \in Range(table)
     /\ external => e.to \in externals
     /\ program.trace /\ e.to \notin Path /\ ~external => p \in errors

(* ... and for the whole of p.                                              *)
Explored(p) ==
  /\ program.outcome[p] # "ok" => p \in errors
  /\ program.outcome[p] # "noSource" => \A i \in DOMAIN program.deps[p] : Handled(p, i)

(* Every module of the table is explored or will be.                        *)
Exploring ==
  \A p \in Range(table) :
    \/ Explored(p)
    \/ p \in Range(queue)
    \/ \E w \in Busy : at[w] = p
    \/ \E w \in Creating : Dep(w).to = p

(* How far worker w has come with its module.                               *)
Come(w) ==
  /\ pc[w] \in Reading =>
       /\ program.outcome[at[w]] # "noSource"
       /\ \A i \in DOMAIN program.deps[at[w]] : i < pos[w] => Handled(at[w], i)
  /\ pc[w] \in {"name", "count", "mark", "spawn"} => program.trace
  /\ pc[w] \in {"name", "count", "callee"} => Dep(w).kind = "require"
  /\ pc[w] = "callee" => Handled(at[w], pos[w])
  /\ pc[w] = "done" => Explored(at[w])
Progress == \A w \in Worker : Come(w)

(* Only what the program reaches is in the table, only faults of the table's *)
(* modules are reported and only their imports are known.                    *)
NothingElse ==
  /\ Range(table) \subseteq Reachable
  /\ errors \subseteq {p \in Range(table) : Faulty(p)}
  /\ externals \subseteq UNION {ExternalImports(p) : p \in Range(table)}
  /\ crashed => \E p \in Range(table) : \E e \in Range(program.deps[p]) :
                  e.kind = "require" /\ Unlocated(e)

(* The entry is never lost, and nobody waits before it is queued.            *)
EntryKept ==
  /\ totalFiles # 0 => Entry \in Range(table) \union Range(queue) \union {at[w] : w \in Busy}
  /\ waiter # "adding" => totalFiles # 0

(* total_files_ is behind the table by the modules that are being set up,   *)
(* and ahead of it by the entry until that has its id.                       *)
Numbered ==
  totalFiles # 0 =>
    totalFiles + Cardinality(Creating)
      = Len(table) + (IF Entry \in Range(table) THEN 0 ELSE 1)

(* The stage throws only for an error.                                       *)
ThrewForAReason == result = "threw" => errors # {}

DInv ==
  /\ Exploring
  /\ Progress
  /\ NothingElse
  /\ EntryKept
  /\ Numbered
  /\ ThrewForAReason

-----------------------------------------------------------------------------
(* The reachable modules are closed under located dependencies, and every    *)
(* closed set has them.                                                     *)
LEMMA EntryReachable == Entry \in Reachable
  BY ResolutionAssumption DEF Reachable, Closed

(* A located dependency of a reachable module is reachable.                 *)
LEMMA ReachesOn ==
  ASSUME NEW p \in Reachable, NEW q \in Locates(p)
  PROVE  q \in Reachable
  BY DEF Reachable, Closed, Locates

(* Every closed set has the reachable modules.                              *)
LEMMA ReachLeast ==
  ASSUME NEW S \in SUBSET Path, Closed(S)
  PROVE  Reachable \subseteq S
  BY DEF Reachable

(* What no step takes back: the program, and what was found or reported.     *)
Grows ==
  /\ program' = program
  /\ Range(table) \subseteq Range(table')
  /\ errors \subseteq errors'
  /\ externals \subseteq externals'

(* No module leaves the table.                                              *)
LEMMA TableGrows == ASSUME IInv, [Next]_vars PROVE Range(table) \subseteq Range(table')
<1>1. CASE Main \/ UNCHANGED vars
  BY <1>1 DEF Main, Begin, WaitBegin, WaitCheck, WaitBlock, WaitSpuriousWake, WaiterStep,
              Finish, vars
<1>2. ASSUME NEW w \in Worker, StartFile(w) PROVE Range(table) \subseteq Range(table')
  <2>1. at[w] \in Path /\ table \in Seq(Path)
        /\ table' = IF at[w] = Entry THEN Append(table, at[w]) ELSE table
    BY <1>2 DEF StartFile, IInv, TypeOK
  <2> QED
    BY <2>1, RangeAppend
<1>3. ASSUME NEW w \in Worker, LocateNew(w) PROVE Range(table) \subseteq Range(table')
  <2>1. Dep(w).to \in Path /\ table \in Seq(Path) /\ table' = Append(table, Dep(w).to)
    BY <1>3 DEF LocateNew, Located, IInv, TypeOK
  <2> QED
    BY <2>1, RangeAppend
<1>4. ASSUME NEW w \in Worker, Work(w), ~StartFile(w), ~LocateNew(w) PROVE table' = table
  BY <1>4 DEF Work, TakeTask, ImportExternal, NotLocated, LocateExisting, NextName, CountName,
              MarkNew, Spawn, ReadCallee, DereferenceNull, EndFile, TaskDone, TaskNotify
<1> QED
  BY <1>1, <1>2, <1>3, <1>4 DEF Next

(* Nothing that was found or reported is taken back.                        *)
LEMMA NextGrows == ASSUME IInv, [Next]_vars PROVE Grows
<1>1. program' = program
  BY DEF Next, Main, Begin, WaitBegin, WaitCheck, WaitBlock, WaitSpuriousWake, WaiterStep,
         Finish, vars, Work, TakeTask, StartFile, ImportExternal, NotLocated, LocateExisting,
         LocateNew, NextName, CountName, MarkNew, Spawn, ReadCallee, DereferenceNull, EndFile,
         TaskDone, TaskNotify
<1>2. errors \subseteq errors'
  BY DEF Next, Main, Begin, WaitBegin, WaitCheck, WaitBlock, WaitSpuriousWake, WaiterStep,
         Finish, vars, Work, TakeTask, StartFile, ImportExternal, NotLocated, LocateExisting,
         LocateNew, NextName, CountName, MarkNew, Spawn, ReadCallee, DereferenceNull, EndFile,
         TaskDone, TaskNotify, Report
<1>3. externals \subseteq externals'
  BY DEF Next, Main, Begin, WaitBegin, WaitCheck, WaitBlock, WaitSpuriousWake, WaiterStep,
         Finish, vars, Work, TakeTask, StartFile, ImportExternal, NotLocated, LocateExisting,
         LocateNew, NextName, CountName, MarkNew, Spawn, ReadCallee, DereferenceNull, EndFile,
         TaskDone, TaskNotify
<1> QED
  BY <1>1, <1>2, <1>3, TableGrows DEF Grows

(* A dependency that was handled stays so, and so does an explored module.   *)
LEMMA HandledStays == ASSUME Grows, NEW p, NEW i, Handled(p, i) PROVE Handled(p, i)'
  BY DEF Grows, Handled

(* An explored module stays one.                                            *)
LEMMA ExploredStays == ASSUME Grows, NEW p, Explored(p) PROVE Explored(p)'
<1>1. program' = program /\ errors \subseteq errors'
  BY DEF Grows
<1> QED
  BY <1>1, HandledStays DEF Explored

(* A step that changes no worker but w.                                     *)
Alone(w) ==
  \A v \in Worker \ {w} : pc'[v] = pc[v] /\ at'[v] = at[v] /\ pos'[v] = pos[v]

(* A worker that does not move has come as far as it had.                   *)
LEMMA ComeStays ==
  ASSUME Grows, NEW v \in Worker, Come(v), pc'[v] = pc[v], at'[v] = at[v], pos'[v] = pos[v]
  PROVE  Come(v)'
<1>1. Dep(v)' = Dep(v) /\ program' = program
  BY DEF Grows, Dep
<1>2. /\ \A i : Handled(at[v], i) => Handled(at[v], i)'
      /\ Explored(at[v]) => Explored(at[v])'
  BY HandledStays, ExploredStays DEF Grows
<1> QED
  BY <1>1, <1>2 DEF Come, Reading

(* A step that moves one worker keeps the others' progress.                 *)
LEMMA ProgressStep ==
  ASSUME Grows, Progress, NEW w \in Worker, Alone(w), Come(w)'
  PROVE  Progress'
  BY ComeStays DEF Progress, Alone

(* Each step of the pool moves one worker.                                  *)
LEMMA WorkAlone == ASSUME IInv, NEW w \in Worker, Work(w) PROVE Alone(w)
<1>1. CASE TakeTask(w) \/ StartFile(w) \/ ImportExternal(w) \/ ReadCallee(w) \/ DereferenceNull(w)
  BY <1>1 DEF TakeTask, StartFile, ImportExternal, ReadCallee, DereferenceNull, Goto, Alone,
              IInv, TypeOK
<1>2. CASE NotLocated(w) \/ LocateExisting(w) \/ LocateNew(w) \/ Spawn(w)
  BY <1>2 DEF NotLocated, LocateExisting, LocateNew, Spawn, Advance, Alone, IInv, TypeOK
<1>3. CASE NextName(w) \/ CountName(w) \/ MarkNew(w) \/ EndFile(w) \/ TaskDone(w) \/ TaskNotify(w)
  BY <1>3 DEF NextName, CountName, MarkNew, EndFile, TaskDone, TaskNotify, Goto, Alone, IInv,
              TypeOK, fields
<1> QED
  BY <1>1, <1>2, <1>3 DEF Work

(* What is behind a parser that goes on was handled, when the dependency it  *)
(* passes is.                                                               *)
LEMMA Passes ==
  ASSUME IInv, Grows, NEW w \in Worker, NEW p, NEW n, p = at[w], n = pos[w],
         Come(w), pc[w] \in Reading,
         at'[w] = p, pos'[w] \in {n, n + 1},
         pos'[w] = n + 1 => Handled(p, n)'
  PROVE  /\ program'.outcome[at'[w]] # "noSource"
         /\ \A i \in DOMAIN program'.deps[at'[w]] : i < pos'[w] => Handled(at[w], i)'
<1>1. program' = program
  BY DEF Grows
<1>2. program.deps[p] \in Seq(Edge) /\ n \in Nat
  BY ResolutionAssumption DEF IInv, TypeOK
<1>3. program.outcome[p] # "noSource"
      /\ \A i \in DOMAIN program.deps[p] : i < n => Handled(p, i)'
  BY HandledStays DEF Come
<1>4. \A i \in DOMAIN program.deps[p] : i \in Nat /\ (i < n + 1 => i < n \/ i = n)
  BY <1>2
<1>5. \A i \in DOMAIN program.deps[p] : i < pos'[w] => Handled(p, i)'
  BY <1>3, <1>4
<1> QED
  BY <1>1, <1>3, <1>5

(* The listener's steps leave a handled dependency behind.                   *)
LEMMA ListenerComes ==
  ASSUME IInv, Progress, Grows, NEW w \in Worker,
         \/ ImportExternal(w) \/ NotLocated(w) \/ LocateExisting(w) \/ Spawn(w)
         \/ ReadCallee(w) \/ DereferenceNull(w)
  PROVE  Come(w)'
<1> PICK p, n : p = at[w] /\ n = pos[w]
  OBVIOUS
<1> DEFINE e == program.deps[p][n]
<1>1. at' = at /\ program' = program /\ Come(w) /\ pos \in [Worker -> Nat \ {0}] /\ pc \in [Worker -> Control]
  BY DEF ImportExternal, NotLocated, LocateExisting, Spawn, ReadCallee, DereferenceNull,
         Progress, Grows, IInv, TypeOK
<1>2. pc[w] \in Reading
  BY DEF ImportExternal, NotLocated, LocateExisting, Spawn, ReadCallee, DereferenceNull,
         Located, ToResolve, AtEdge, IsAt, Goto, Reading
<1>3. n \in DOMAIN program.deps[p] /\ e \in Edge /\ Dep(w) = e
  <2>1. pos[w] \in DOMAIN program.deps[at[w]]
    BY DEF ImportExternal, NotLocated, LocateExisting, Spawn, ReadCallee, DereferenceNull,
           Located, ToResolve, AtEdge, IsAt, Goto, IInv, Positioned, Creating
  <2> QED
    BY <2>1, DepType DEF IInv, Dep
<1>4. CASE ImportExternal(w)
  <2>1. pc[w] = "parse" /\ pc'[w] = "parse" /\ pos'[w] = n + 1
    BY <1>1, <1>4 DEF ImportExternal, AtEdge, IsAt
  <2>2. e.kind = "import" /\ e.to \in External /\ e.to \in externals' /\ e.to \notin Path
    BY <1>3, <1>4, ResolutionAssumption DEF ImportExternal
  <2>3. Handled(p, n)'
    BY <1>1, <2>2 DEF Handled
  <2> QED
    BY <1>1, <1>2, <2>1, <2>3, Passes DEF Come, Reading
<1>5. CASE NotLocated(w) \/ LocateExisting(w) \/ Spawn(w)
  <2>1. Handled(p, n)'
    <3>1. CASE NotLocated(w)
      <4>1. /\ ~(e.kind = "import" /\ e.to \in External)
            /\ ~program.trace \/ e.to \notin Path
            /\ program.trace => p \in errors'
        BY <1>3, <3>1 DEF NotLocated, ToResolve, Report
      <4> QED
        BY <1>1, <4>1 DEF Handled
    <3>2. CASE LocateExisting(w) \/ Spawn(w)
      <4>1. e.to \in Range(table) /\ e.to \in Path
        BY <1>3, <3>2 DEF LocateExisting, Located, Known, Spawn, IsAt, IInv, InTable, Positioned, Creating
      <4>2. e.to \in Range(table') /\ e.to \notin External
        BY <4>1, ResolutionAssumption DEF Grows
      <4> QED
        BY <1>1, <4>1, <4>2 DEF Handled
    <3> QED
      BY <1>5, <3>1, <3>2
  <2>2. pc'[w] = AfterLocation(w) /\ Advance(w)
    BY <1>1, <1>5 DEF NotLocated, LocateExisting, Spawn
  <2>3. CASE Dep(w).kind = "require"
    <3>1. pc'[w] = "callee" /\ pos' = pos
      BY <2>2, <2>3 DEF AfterLocation, Advance
    <3>2. Dep(w)'.kind = "require"
      BY <1>1, <2>3, <3>1 DEF Dep
    <3>3. Handled(at[w], pos[w])'
      BY <1>1, <2>1, <3>1
    <3> QED
      BY <1>1, <1>2, <2>1, <3>1, <3>2, <3>3, Passes DEF Come, Reading
  <2>4. CASE Dep(w).kind # "require"
    <3>1. pc'[w] = "parse" /\ pos'[w] = n + 1
      BY <1>1, <2>2, <2>4 DEF AfterLocation, Advance
    <3> QED
      BY <1>1, <1>2, <2>1, <3>1, Passes DEF Come, Reading
  <2> QED
    BY <2>3, <2>4
<1>6. CASE ReadCallee(w)
  <2>1. pc[w] = "callee" /\ pc'[w] = "parse" /\ pos'[w] = n + 1
    BY <1>1, <1>6 DEF ReadCallee, Goto, IsAt
  <2>2. Handled(p, n)'
    BY <1>1, <2>1, HandledStays DEF Come
  <2> QED
    BY <1>1, <1>2, <2>1, <2>2, Passes DEF Come, Reading
<1>7. CASE DereferenceNull(w)
  BY <1>1, <1>7, ComeStays DEF DereferenceNull
<1> QED
  BY <1>4, <1>5, <1>6, <1>7

(* Setting a new module up, its creator stays where it is in its own.        *)
LEMMA CreatorComes ==
  ASSUME IInv, Progress, Grows, NEW w \in Worker,
         LocateNew(w) \/ NextName(w) \/ CountName(w) \/ MarkNew(w)
  PROVE  Come(w)'
<1> PICK p, n : p = at[w] /\ n = pos[w]
  OBVIOUS
<1>1. /\ UNCHANGED <<program, at, pos>> /\ Come(w) /\ pc \in [Worker -> Control] /\ n \in Nat
  BY DEF LocateNew, NextName, CountName, MarkNew, Progress, IInv, TypeOK
<1>2. pc[w] \in Reading
  BY DEF LocateNew, NextName, CountName, MarkNew, Located, ToResolve, AtEdge, IsAt, Goto, Reading
<1>3. Dep(w)' = Dep(w)
  BY <1>1 DEF Dep
<1>4. pc'[w] \in {"name", "count", "mark", "spawn"} /\ program.trace
  BY <1>1 DEF LocateNew, NextName, CountName, MarkNew, Located, IsAt, Goto, Come
<1>5. pc'[w] \in {"name", "count"} => Dep(w).kind = "require"
  BY <1>1 DEF LocateNew, NextName, CountName, MarkNew, IsAt, Goto, Come
<1>6. /\ program'.outcome[at'[w]] # "noSource"
      /\ \A i \in DOMAIN program'.deps[at'[w]] : i < pos'[w] => Handled(at[w], i)'
  BY <1>1, <1>2, Passes
<1> QED
  BY <1>1, <1>3, <1>4, <1>5, <1>6 DEF Come

(* A task begins before the first dependency and ends after the last.        *)
LEMMA TaskComes ==
  ASSUME IInv, Progress, Grows, NEW w \in Worker,
         TakeTask(w) \/ StartFile(w) \/ EndFile(w) \/ TaskDone(w) \/ TaskNotify(w)
  PROVE  Come(w)'
<1>1. /\ program' = program /\ Come(w) /\ pc \in [Worker -> Control] /\ pos[w] \in Nat \ {0}
      /\ program.deps[at[w]] \in Seq(Edge) /\ program.outcome[at[w]] \in Outcome
  BY ResolutionAssumption DEF Progress, Grows, IInv, TypeOK
<1>2. CASE TakeTask(w) \/ TaskDone(w) \/ TaskNotify(w)
  <2>1. pc'[w] \in {"start", "idle", "notify"}
    BY <1>1, <1>2 DEF TakeTask, TaskDone, TaskNotify, Goto
  <2> QED
    BY <2>1 DEF Come, Reading
<1>3. CASE StartFile(w)
  <2>1. /\ at' = at /\ pos'[w] = 1
        /\ pc'[w] = IF program.outcome[at[w]] # "noSource" THEN "parse" ELSE "done"
        /\ program.outcome[at[w]] = "noSource" => at[w] \in errors'
    BY <1>1, <1>3 DEF StartFile, Goto, IsAt, Report, IInv, TypeOK
  <2>2. \A i \in DOMAIN program.deps[at[w]] : ~(i < 1)
    BY <1>1
  <2>3. program.outcome[at[w]] = "noSource" => Explored(at[w])'
    BY <1>1, <2>1 DEF Explored
  <2> QED
    BY <1>1, <2>1, <2>2, <2>3 DEF Come, Reading
<1>4. CASE EndFile(w)
  <2>1. /\ UNCHANGED <<at, pos>> /\ pc[w] = "parse" /\ pc'[w] = "done"
        /\ pos[w] \notin DOMAIN program.deps[at[w]]
        /\ program.outcome[at[w]] # "ok" => at[w] \in errors'
    BY <1>1, <1>4 DEF EndFile, Goto, IsAt, Report
  <2>2. \A i \in DOMAIN program.deps[at[w]] : i < pos[w]
    BY <1>1, <2>1
  <2>3. \A i \in DOMAIN program.deps[at[w]] : Handled(at[w], i)'
    BY <1>1, <2>1, <2>2, HandledStays DEF Come, Reading
  <2>4. Explored(at[w])'
    BY <1>1, <2>1, <2>3 DEF Explored
  <2> QED
    BY <2>1, <2>4 DEF Come, Reading
<1> QED
  BY <1>2, <1>3, <1>4

(* Nothing is skipped.                                                      *)
LEMMA NextProgress == ASSUME IInv, Progress, [Next]_vars PROVE Progress'
<1>1. Grows
  BY NextGrows
<1>2. CASE Main \/ UNCHANGED vars
  <2>1. UNCHANGED <<pc, at, pos>>
    BY <1>2 DEF Main, Begin, WaitBegin, WaitCheck, WaitBlock, WaitSpuriousWake, WaiterStep,
                Finish, vars
  <2> QED
    BY <1>1, <2>1, ComeStays DEF Progress
<1>3. ASSUME NEW w \in Worker, Work(w) PROVE Progress'
  <2>1. Come(w)'
    BY <1>1, <1>3, ListenerComes, CreatorComes, TaskComes DEF Work
  <2> QED
    BY <1>1, <1>3, <2>1, WorkAlone, ProgressStep
<1> QED
  BY <1>2, <1>3 DEF Next

-----------------------------------------------------------------------------
(* A step keeps track of the modules that are not explored yet.              *)
LEMMA ExploringStep ==
  ASSUME Grows, Exploring,
         \A p \in Range(table') \ Range(table) :
           (\E v \in Busy' : at'[v] = p) \/ (\E v \in Creating' : Dep(v)'.to = p),
         \A p \in Range(queue) : p \in Range(queue') \/ \E v \in Busy' : at'[v] = p,
         \A v \in Busy : (v \in Busy' /\ at'[v] = at[v]) \/ Explored(at[v]),
         \A v \in Creating : (v \in Creating' /\ Dep(v)' = Dep(v)) \/ Dep(v).to \in Range(queue')
  PROVE  Exploring'
<1> SUFFICES ASSUME NEW p, p \in Range(table')
             PROVE  \/ Explored(p)'
                    \/ p \in Range(queue')
                    \/ \E v \in Busy' : at'[v] = p
                    \/ \E v \in Creating' : Dep(v)'.to = p
  BY DEF Exploring
<1>1. Explored(p) => Explored(p)'
  BY ExploredStays
<1>2. p \in Range(table) => \/ Explored(p) \/ p \in Range(queue)
                            \/ \E v \in Busy : at[v] = p
                            \/ \E v \in Creating : Dep(v).to = p
  BY DEF Exploring
<1> QED
  BY <1>1, <1>2

(* No step loses track of a module.                                         *)
LEMMA NextExploring ==
  ASSUME IInv, Progress, Exploring, [Next]_vars
  PROVE  Exploring'
<1>1. Grows
  BY NextGrows
<1>2. CASE Main \/ UNCHANGED vars
  <2>1. UNCHANGED <<program, table, pc, at, pos>>
    BY <1>2 DEF Main, Begin, WaitBegin, WaitCheck, WaitBlock, WaitSpuriousWake, WaiterStep,
                Finish, vars
  <2>2. Busy' = Busy /\ Creating' = Creating /\ \A v \in Creating : Dep(v)' = Dep(v)
    BY <2>1 DEF Busy, Creating, Dep
  <2>3. Range(queue) \subseteq Range(queue')
    <3>1. CASE Begin
      <4>1. queue' = Append(queue, Entry) /\ queue \in Seq(Path) /\ Entry \in Path
        BY <3>1, ResolutionAssumption DEF Begin, Enqueue, IInv, TypeOK
      <4> QED
        BY <4>1, RangeAppend
    <3>2. CASE queue' = queue
      BY <3>2
    <3> QED
      BY <1>2, <3>1, <3>2 DEF Main, WaitBegin, WaitCheck, WaitBlock, WaitSpuriousWake,
                              WaiterStep, Finish, vars
  <2> QED
    BY <1>1, <2>1, <2>2, <2>3, ExploringStep
<1>3. ASSUME NEW w \in Worker, TakeTask(w) PROVE Exploring'
  <2> DEFINE t == Tail(queue)
             h == Head(queue)
  <2>1. Range(queue) = {h} \union Range(t)
    BY <1>3, RangeTail DEF IInv, TypeOK, TakeTask
  <2>2. /\ pc[w] = "idle" /\ pc' = [pc EXCEPT ![w] = "start"] /\ queue' = t
        /\ at' = [at EXCEPT ![w] = h] /\ UNCHANGED <<program, table, pos>>
    BY <1>3 DEF TakeTask, Goto, IsAt
  <2> HIDE DEF t, h
  <2>3. /\ w \in Busy' /\ at'[w] = h /\ Creating' = Creating
        /\ \A v \in Busy : v \in Busy' /\ at'[v] = at[v]
        /\ \A v \in Creating : at'[v] = at[v]
    BY <2>2 DEF IInv, TypeOK, Busy, Creating
  <2>4. \A v \in Creating : Dep(v)' = Dep(v)
    BY <2>2, <2>3 DEF Dep
  <2> QED
    BY <1>1, <2>1, <2>2, <2>3, <2>4, ExploringStep
<1>4. ASSUME NEW w \in Worker, StartFile(w) PROVE Exploring'
  <2>1. /\ at[w] \in Path /\ table \in Seq(Path)
        /\ table' = IF at[w] = Entry THEN Append(table, at[w]) ELSE table
        /\ UNCHANGED <<program, queue, at>>
        /\ pc[w] = "start" /\ \E to \in {"parse", "done"} : pc' = [pc EXCEPT ![w] = to]
    BY <1>4 DEF StartFile, Goto, IsAt, IInv, TypeOK
  <2>2. Range(table') \subseteq Range(table) \union {at[w]}
    BY <2>1, RangeAppend
  <2>3. Busy' = Busy /\ w \in Busy /\ Creating' = Creating /\ w \notin Creating
    BY <2>1 DEF IInv, TypeOK, Busy, Creating
  <2>4. \A v \in Creating : Dep(v)' = Dep(v)
    BY <1>4, <2>1, <2>3, WorkAlone DEF Work, Alone, Dep, Creating
  <2> QED
    BY <1>1, <2>1, <2>2, <2>3, <2>4, ExploringStep
<1>5. ASSUME NEW w \in Worker, LocateNew(w) PROVE Exploring'
  <2>1. /\ table \in Seq(Path) /\ table' = Append(table, Dep(w).to) /\ Dep(w).to \in Path
        /\ UNCHANGED <<program, queue, at, pos>>
        /\ pc[w] = "parse" /\ \E to \in {"name", "mark"} : pc' = [pc EXCEPT ![w] = to]
    BY <1>5 DEF LocateNew, Located, ToResolve, AtEdge, IsAt, IInv, TypeOK
  <2>2. Range(table') = Range(table) \union {Dep(w).to}
    BY <2>1, RangeAppend
  <2>3. Busy' = Busy /\ Creating' = Creating \union {w}
    BY <2>1 DEF IInv, TypeOK, Busy, Creating
  <2>4. \A v \in Worker : Dep(v)' = Dep(v)
    BY <2>1 DEF Dep
  <2>5. w \in Creating' /\ Dep(w)'.to = Dep(w).to /\ \A v \in Creating : v \in Worker
    BY <2>3, <2>4 DEF Creating
  <2> QED
    BY <1>1, <2>1, <2>2, <2>3, <2>4, <2>5, ExploringStep
<1>6. ASSUME NEW w \in Worker, Spawn(w) PROVE Exploring'
  <2>1. /\ queue' = Append(queue, Dep(w).to) /\ queue \in Seq(Path) /\ Dep(w).to \in Path
        /\ UNCHANGED <<program, table, at>>
        /\ pc[w] = "spawn" /\ \E to \in {"parse", "callee"} : pc' = [pc EXCEPT ![w] = to]
    BY <1>6 DEF Spawn, Enqueue, IsAt, AfterLocation, IInv, TypeOK, Positioned, Creating
  <2>2. Range(queue') = Range(queue) \union {Dep(w).to}
    BY <2>1, RangeAppend
  <2>3. Busy' = Busy /\ Creating' = Creating \ {w}
    BY <2>1 DEF IInv, TypeOK, Busy, Creating
  <2>4. \A v \in Creating \ {w} : Dep(v)' = Dep(v)
    BY <1>6, <2>1, WorkAlone DEF Work, Alone, Dep, Creating
  <2> QED
    BY <1>1, <2>1, <2>2, <2>3, <2>4, ExploringStep
<1>7. ASSUME NEW w \in Worker, TaskDone(w) PROVE Exploring'
  <2>1. /\ UNCHANGED <<program, table, queue, at, pos>>
        /\ pc[w] = "done" /\ \E to \in {"notify", "idle"} : pc' = [pc EXCEPT ![w] = to]
    BY <1>7 DEF TaskDone, Goto, IsAt
  <2>2. Busy' = Busy \ {w} /\ Creating' = Creating /\ \A v \in Creating : Dep(v)' = Dep(v)
    BY <2>1 DEF IInv, TypeOK, Busy, Creating, Dep
  <2>3. Explored(at[w])
    BY <2>1 DEF Progress, Come
  <2> QED
    BY <1>1, <2>1, <2>2, <2>3, ExploringStep
<1>8. ASSUME NEW w \in Worker,
             \/ ImportExternal(w) \/ NotLocated(w) \/ LocateExisting(w) \/ NextName(w)
             \/ CountName(w) \/ MarkNew(w) \/ ReadCallee(w) \/ DereferenceNull(w)
             \/ EndFile(w) \/ TaskNotify(w)
      PROVE  Exploring'
  <2>1. UNCHANGED <<program, table, queue, at>>
    BY <1>8 DEF ImportExternal, NotLocated, LocateExisting, NextName, CountName, MarkNew,
                ReadCallee, DereferenceNull, EndFile, TaskNotify
  <2>2. \/ pc[w] \in {"name", "count", "mark"} /\ pos' = pos
           /\ \E to \in {"count", "mark", "spawn"} : pc' = [pc EXCEPT ![w] = to]
        \/ pc[w] \in {"parse", "callee"} /\ \E to \in {"parse", "callee", "done"} : pc' = [pc EXCEPT ![w] = to]
        \/ pc[w] = "notify" /\ pc' = [pc EXCEPT ![w] = "idle"]
    <3>1. CASE NextName(w) \/ CountName(w) \/ MarkNew(w)
      BY <3>1 DEF NextName, CountName, MarkNew, Goto, IsAt
    <3>2. CASE ImportExternal(w) \/ DereferenceNull(w)
      BY <3>2 DEF ImportExternal, DereferenceNull, AtEdge, IsAt, IInv, TypeOK
    <3>3. CASE NotLocated(w) \/ LocateExisting(w)
      BY <3>3 DEF NotLocated, LocateExisting, Located, ToResolve, AtEdge, IsAt, AfterLocation
    <3>4. CASE ReadCallee(w) \/ EndFile(w) \/ TaskNotify(w)
      BY <3>4 DEF ReadCallee, EndFile, TaskNotify, Goto, IsAt
    <3> QED
      BY <1>8, <3>1, <3>2, <3>3, <3>4
  <2>3. Busy' = Busy /\ Creating' = Creating
    BY <2>2 DEF IInv, TypeOK, Busy, Creating
  <2>4. \A v \in Creating : pos'[v] = pos[v]
    BY <1>8, <2>2, WorkAlone DEF Work, Alone, Creating
  <2>5. \A v \in Creating : Dep(v)' = Dep(v)
    BY <2>1, <2>4 DEF Dep
  <2> QED
    BY <1>1, <2>1, <2>3, <2>5, ExploringStep
<1> QED
  BY <1>2, <1>3, <1>4, <1>5, <1>6, <1>7, <1>8 DEF Next, Work

-----------------------------------------------------------------------------
(* What the program reaches and what is wrong with it does not change.       *)
LEMMA SameProgram ==
  ASSUME program' = program
  PROVE  /\ Reachable' = Reachable
         /\ \A p : Faulty(p)' = Faulty(p)
         /\ \A p : ExternalImports(p)' = ExternalImports(p)
<1>1. \A p : Locates(p)' = Locates(p)
  BY DEF Locates
<1>2. \A S : Closed(S)' = Closed(S)
  BY <1>1 DEF Closed
<1>3. Reachable' = Reachable
  BY <1>2 DEF Reachable
<1>4. \A p : Faulty(p)' = Faulty(p)
  BY DEF Faulty
<1>5. \A p : ExternalImports(p)' = ExternalImports(p)
  BY DEF ExternalImports
<1> QED
  BY <1>3, <1>4, <1>5

(* A module is found on a way from the entry, reported for its own fault,    *)
(* and makes known only what it imports.                                    *)
LEMMA NextNothingElse ==
  ASSUME IInv, Progress, NothingElse, [Next]_vars
  PROVE  NothingElse'
<1> DEFINE Imports(T) == UNION {ExternalImports(p) : p \in T}
           NullRequire(p) == \E e \in Range(program.deps[p]) : e.kind = "require" /\ Unlocated(e)
<1>1. Grows /\ program' = program
  BY NextGrows DEF Grows
<1>2. /\ Reachable' = Reachable
      /\ \A p : Faulty(p)' = Faulty(p)
      /\ \A p : ExternalImports(p)' = ExternalImports(p)
  BY <1>1, SameProgram
<1>3. ASSUME Range(table') \subseteq Reachable,
             errors' \subseteq errors \union {p \in Range(table') : Faulty(p)},
             externals' \subseteq externals \union Imports(Range(table')),
             crashed' => crashed \/ \E p \in Range(table) : NullRequire(p)
      PROVE  NothingElse'
  <2>1. Range(table) \subseteq Range(table')
    BY <1>1 DEF Grows
  <2>2. errors' \subseteq {p \in Range(table') : Faulty(p)'}
    BY <1>2, <1>3, <2>1 DEF NothingElse
  <2>3. externals' \subseteq UNION {ExternalImports(p)' : p \in Range(table')}
    <3>1. Imports(Range(table)) \subseteq Imports(Range(table'))
      BY <2>1
    <3>2. UNION {ExternalImports(p)' : p \in Range(table')} = Imports(Range(table'))
      BY <1>2
    <3>3. externals \subseteq Imports(Range(table))
      BY DEF NothingElse
    <3> QED
      BY <1>3, <3>1, <3>2, <3>3
  <2>4. crashed' => \E p \in Range(table') : \E e \in Range(program'.deps[p]) :
                      e.kind = "require" /\ Unlocated(e)'
    BY <1>1, <1>3, <2>1 DEF NothingElse, Unlocated
  <2> QED
    BY <1>2, <1>3, <2>2, <2>3, <2>4 DEF NothingElse
<1>4. Range(table) \subseteq Reachable
  BY DEF NothingElse
<1> HIDE DEF Imports
<1>5. CASE Main \/ UNCHANGED vars
  <2>1. UNCHANGED <<table, errors, externals, crashed>>
    BY <1>5 DEF Main, Begin, WaitBegin, WaitCheck, WaitBlock, WaitSpuriousWake, WaiterStep,
                Finish, vars
  <2> QED
    BY <1>3, <1>4, <2>1
<1>6. ASSUME NEW w \in Worker, StartFile(w) PROVE NothingElse'
  <2>1. /\ pc[w] = "start" /\ table \in Seq(Path) /\ at[w] \in Path
        /\ table' = IF at[w] = Entry THEN Append(table, at[w]) ELSE table
        /\ errors' = IF program.outcome[at[w]] = "noSource" THEN errors \union {at[w]} ELSE errors
        /\ UNCHANGED <<externals, crashed>>
    BY <1>6 DEF StartFile, Goto, IsAt, Report, IInv, TypeOK
  <2>2. Range(table') \subseteq Range(table) \union {Entry} /\ at[w] \in Range(table')
    <3>1. at[w] \in Range(table) \union {Entry}
      BY <2>1 DEF IInv, InTable
    <3> QED
      BY <2>1, <3>1, RangeAppend
  <2>3. program.outcome[at[w]] = "noSource" => Faulty(at[w])
    BY DEF Faulty
  <2> QED
    BY <1>3, <1>4, <2>1, <2>2, <2>3, EntryReachable
<1>7. ASSUME NEW w \in Worker, pc[w] \in Reading, Work(w) PROVE NothingElse'
  <2>1. /\ at[w] \in Range(table) /\ at[w] \in Reachable /\ at[w] \in Path
        /\ program.outcome[at[w]] # "noSource" /\ table \in Seq(Path)
    BY <1>4, <1>7 DEF IInv, TypeOK, InTable, Busy, Reading, Progress, Come
  <2>2. CASE LocateNew(w)
    <3>1. /\ table' = Append(table, Dep(w).to) /\ Dep(w).to \in Path
          /\ program.trace /\ pos[w] \in DOMAIN program.deps[at[w]]
          /\ UNCHANGED <<errors, externals, crashed>>
      BY <2>2 DEF LocateNew, Located, ToResolve, AtEdge
    <3>2. Dep(w).to \in Locates(at[w])
      BY <2>1, <3>1 DEF Locates, Dep
    <3>3. Dep(w).to \in Reachable
      BY <2>1, <3>2, ReachesOn
    <3>4. Range(table') = Range(table) \union {Dep(w).to}
      BY <2>1, <3>1, RangeAppend
    <3> QED
      BY <1>3, <1>4, <3>1, <3>3, <3>4
  <2>3. CASE ImportExternal(w)
    <3>1. /\ Dep(w).kind = "import" /\ Dep(w).to \in External
          /\ externals' = externals \union {Dep(w).to}
          /\ pos[w] \in DOMAIN program.deps[at[w]]
          /\ UNCHANGED <<table, errors, crashed>>
      BY <2>3 DEF ImportExternal, AtEdge
    <3>2. Dep(w) \in Range(program.deps[at[w]])
      BY <3>1 DEF Dep, Range
    <3>3. Dep(w).to \in ExternalImports(at[w])
      BY <2>1, <3>1, <3>2 DEF ExternalImports
    <3>4. Dep(w).to \in Imports(Range(table'))
      BY <2>1, <3>1, <3>3 DEF Imports
    <3> QED
      BY <1>3, <1>4, <3>1, <3>4
  <2>4. CASE NotLocated(w)
    <3>1. /\ ~(Dep(w).kind = "import" /\ Dep(w).to \in External)
          /\ ~program.trace \/ Dep(w).to \notin Path
          /\ errors' = IF program.trace THEN errors \union {at[w]} ELSE errors
          /\ pos[w] \in DOMAIN program.deps[at[w]]
          /\ UNCHANGED <<table, externals, crashed>>
      BY <2>4 DEF NotLocated, ToResolve, AtEdge, Report
    <3>2. program.trace => Faulty(at[w])
      BY <3>1 DEF Faulty, Dep
    <3> QED
      BY <1>3, <1>4, <2>1, <3>1, <3>2
  <2>5. CASE EndFile(w)
    <3>1. /\ errors' = IF program.outcome[at[w]] # "ok" THEN errors \union {at[w]} ELSE errors
          /\ UNCHANGED <<table, externals, crashed>>
      BY <2>5 DEF EndFile, Report
    <3>2. program.outcome[at[w]] # "ok" => Faulty(at[w])
      BY DEF Faulty
    <3> QED
      BY <1>3, <1>4, <2>1, <3>1, <3>2
  <2>6. CASE DereferenceNull(w)
    <3>1. /\ pc[w] = "callee" /\ Unlocated(Dep(w))
          /\ UNCHANGED <<table, errors, externals>>
      BY <2>6 DEF DereferenceNull, IsAt, Unlocated
    <3>2. Dep(w).kind = "require" /\ pos[w] \in DOMAIN program.deps[at[w]]
      BY <3>1 DEF Progress, Come, IInv, Positioned
    <3>3. NullRequire(at[w])
      BY <3>1, <3>2 DEF Dep, Range
    <3> QED
      BY <1>3, <1>4, <2>1, <3>1, <3>3
  <2>7. CASE \/ LocateExisting(w) \/ NextName(w) \/ CountName(w) \/ MarkNew(w) \/ Spawn(w)
             \/ ReadCallee(w)
    <3>1. UNCHANGED <<table, errors, externals, crashed>>
      BY <2>7 DEF LocateExisting, NextName, CountName, MarkNew, Spawn, ReadCallee
    <3> QED
      BY <1>3, <1>4, <3>1
  <2>8. ~TakeTask(w) /\ ~StartFile(w) /\ ~TaskDone(w) /\ ~TaskNotify(w)
    BY <1>7 DEF TakeTask, StartFile, TaskDone, TaskNotify, Goto, IsAt, Reading
  <2> QED
    BY <1>7, <2>2, <2>3, <2>4, <2>5, <2>6, <2>7, <2>8 DEF Work
<1>8. ASSUME NEW w \in Worker, TakeTask(w) \/ TaskDone(w) \/ TaskNotify(w) PROVE NothingElse'
  <2>1. UNCHANGED <<table, errors, externals, crashed>>
    BY <1>8 DEF TakeTask, TaskDone, TaskNotify
  <2> QED
    BY <1>3, <1>4, <2>1
<1>9. ASSUME NEW w \in Worker, Work(w), ~StartFile(w), ~TakeTask(w), ~TaskDone(w), ~TaskNotify(w)
      PROVE  pc[w] \in Reading
  BY <1>9 DEF Work, ImportExternal, NotLocated, LocateExisting, LocateNew, NextName, CountName,
              MarkNew, Spawn, ReadCallee, DereferenceNull, EndFile, Located, ToResolve, AtEdge,
              IsAt, Goto, Reading
<1> QED
  BY <1>5, <1>6, <1>7, <1>8, <1>9 DEF Next

-----------------------------------------------------------------------------
(* What a step does to the places a task or a module can be.                 *)
LEMMA TaskMoves ==
  ASSUME IInv, NEW w \in Worker, Work(w)
  PROVE  \/ /\ TakeTask(w) /\ pc[w] = "idle" /\ pc'[w] = "start"
            /\ Busy' = Busy \union {w} /\ w \notin Busy /\ Creating' = Creating
            /\ Range(queue) = {at'[w]} \union Range(queue')
         \/ /\ StartFile(w) /\ w \in Busy
            /\ Busy' = Busy /\ Creating' = Creating /\ queue' = queue /\ at' = at
         \/ /\ LocateNew(w) /\ w \in Busy
            /\ Busy' = Busy /\ Creating' = Creating \union {w} /\ w \notin Creating
            /\ queue' = queue /\ at' = at
         \/ /\ Spawn(w) /\ w \in Creating /\ Range(queue) \subseteq Range(queue')
            /\ Busy' = Busy /\ Creating' = Creating \ {w} /\ at' = at
         \/ /\ TaskDone(w) /\ pc[w] = "done" /\ w \in Busy
            /\ Busy' = Busy \ {w} /\ Creating' = Creating /\ queue' = queue /\ at' = at
         \/ /\ Busy' = Busy /\ Creating' = Creating
            /\ UNCHANGED <<table, queue, at, totalFiles>>
<1>1. CASE TakeTask(w)
  <2> DEFINE t == Tail(queue)
             h == Head(queue)
  <2>1. Range(queue) = {h} \union Range(t)
    BY <1>1, RangeTail DEF IInv, TypeOK, TakeTask
  <2>2. /\ pc[w] = "idle" /\ pc' = [pc EXCEPT ![w] = "start"] /\ queue' = t
        /\ at' = [at EXCEPT ![w] = h]
    BY <1>1 DEF TakeTask, Goto, IsAt
  <2> HIDE DEF t, h
  <2> QED
    BY <1>1, <2>1, <2>2 DEF IInv, TypeOK, Busy, Creating
<1>2. CASE StartFile(w)
  BY <1>2 DEF StartFile, Goto, IsAt, IInv, TypeOK, Busy, Creating
<1>3. CASE LocateNew(w)
  BY <1>3 DEF LocateNew, Located, ToResolve, AtEdge, IsAt, IInv, TypeOK, Busy, Creating
<1>4. CASE Spawn(w)
  <2>1. /\ queue' = Append(queue, Dep(w).to) /\ queue \in Seq(Path) /\ Dep(w).to \in Path
        /\ at' = at /\ pc[w] = "spawn" /\ pc' = [pc EXCEPT ![w] = AfterLocation(w)]
    BY <1>4 DEF Spawn, Enqueue, IsAt, IInv, TypeOK, Positioned, Creating
  <2>2. Range(queue) \subseteq Range(queue')
    BY <2>1, RangeAppend
  <2> QED
    BY <1>4, <2>1, <2>2 DEF AfterLocation, IInv, TypeOK, Busy, Creating
<1>5. CASE TaskDone(w)
  <2>1. /\ pc[w] = "done" /\ \E to \in {"notify", "idle"} : pc' = [pc EXCEPT ![w] = to]
        /\ queue' = queue /\ at' = at
    BY <1>5 DEF TaskDone, Goto, IsAt
  <2> QED
    BY <1>5, <2>1 DEF IInv, TypeOK, Busy, Creating
<1>6. CASE NextName(w) \/ CountName(w) \/ MarkNew(w)
  BY <1>6 DEF NextName, CountName, MarkNew, Goto, IsAt, IInv, TypeOK, Busy, Creating
<1>7. CASE ImportExternal(w) \/ DereferenceNull(w)
  BY <1>7 DEF ImportExternal, DereferenceNull, AtEdge, IsAt, IInv, TypeOK, Busy, Creating
<1>8. CASE NotLocated(w) \/ LocateExisting(w)
  <2>1. /\ pc[w] = "parse" /\ \E to \in {"parse", "callee"} : pc' = [pc EXCEPT ![w] = to]
        /\ UNCHANGED <<table, queue, at, totalFiles>>
    BY <1>8 DEF NotLocated, LocateExisting, Located, ToResolve, AtEdge, IsAt, AfterLocation
  <2> QED
    BY <2>1 DEF IInv, TypeOK, Busy, Creating
<1>9. CASE ReadCallee(w) \/ EndFile(w) \/ TaskNotify(w)
  BY <1>9 DEF ReadCallee, EndFile, TaskNotify, Goto, IsAt, IInv, TypeOK, Busy, Creating
<1> QED
  BY <1>1, <1>2, <1>3, <1>4, <1>5, <1>6, <1>7, <1>8, <1>9 DEF Work

(* The entry goes from the queue to a worker and from there to the table.    *)
LEMMA NextEntryKept == ASSUME IInv, OInv, EntryKept, [Next]_vars PROVE EntryKept'
<1>1. Range(table) \subseteq Range(table') /\ totalFiles \in Nat
  BY TableGrows DEF IInv, TypeOK
<1>2. CASE Begin
  <2>1. /\ queue' = Append(queue, Entry) /\ queue \in Seq(Path) /\ Entry \in Path
        /\ totalFiles' = 1
    BY <1>2, ResolutionAssumption DEF Begin, Enqueue, IInv, TypeOK
  <2>2. Entry \in Range(queue')
    BY <2>1, RangeAppend
  <2> QED
    BY <2>1, <2>2 DEF EntryKept
<1>3. CASE WaitBegin \/ WaitCheck \/ WaitBlock \/ WaitSpuriousWake \/ Finish \/ UNCHANGED vars
  <2>1. UNCHANGED <<table, queue, pc, at, totalFiles>>
    BY <1>3 DEF WaitBegin, WaitCheck, WaitBlock, WaitSpuriousWake, WaiterStep, Finish, vars
  <2>2. Busy' = Busy
    BY <2>1 DEF Busy
  <2>3. waiter' # "adding" => waiter # "adding" \/ totalFiles # 0
    BY <1>1, <1>3 DEF WaitBegin, WaitCheck, WaitBlock, WaitSpuriousWake, WaiterStep, Finish, vars
  <2> QED
    BY <2>1, <2>2, <2>3 DEF EntryKept
<1>4. ASSUME NEW w \in Worker, Work(w) PROVE EntryKept'
  <2>1. /\ totalFiles' \in {totalFiles, totalFiles + 1}
        /\ waiter' # "adding" => waiter # "adding"
    BY <1>4 DEF Work, TakeTask, StartFile, ImportExternal, NotLocated, LocateExisting, LocateNew,
         NextName, CountName, MarkNew, Spawn, ReadCallee, DereferenceNull, EndFile, TaskDone,
         TaskNotify, owner
  <2>2. totalFiles' = totalFiles + 1 => totalFiles' # 0 /\ w \in Busy /\ Spawn(w)
    BY <1>1, <1>4 DEF Work, TakeTask, StartFile, ImportExternal, NotLocated, LocateExisting,
         LocateNew, NextName, CountName, MarkNew, Spawn, ReadCallee, DereferenceNull, EndFile,
         TaskDone, TaskNotify, IsAt, Busy
  <2>3. Spawn(w) => Entry \in Range(table) \union Range(queue) \union {at[v] : v \in Busy}
    <3> HAVE Spawn(w)
    <3>1. totalFiles # 0
      BY <1>4 DEF Spawn, IsAt, Busy, OInv, Fresh
    <3> QED
      BY <3>1 DEF EntryKept
  <2>4. ASSUME Entry \in Range(table) \union Range(queue) \union {at[v] : v \in Busy}
        PROVE  Entry \in Range(table') \union Range(queue') \union {at'[v] : v \in Busy'}
    <3>1. CASE Entry \in Range(table)
      BY <1>1, <3>1
    <3>2. CASE Entry \in Range(queue)
      BY <1>4, <3>2, TaskMoves
    <3>3. ASSUME NEW v \in Busy, at[v] = Entry
          PROVE  Entry \in Range(table') \union {at'[u] : u \in Busy'}
      <4>1. CASE TaskDone(w) /\ v = w
        <5>1. at[w] \in Range(table)
          BY <4>1 DEF TaskDone, Goto, IsAt, IInv, InTable, Busy
        <5> QED
          BY <1>1, <3>3, <4>1, <5>1
      <4>2. CASE ~(TaskDone(w) /\ v = w)
        <5>1. v \in Busy' /\ (v # w \/ at' = at)
          BY <1>4, <4>2, TaskMoves
        <5>2. v \in Worker
          BY DEF Busy
        <5>3. at'[v] = at[v]
          BY <1>4, <5>1, <5>2, WorkAlone DEF Alone
        <5> QED
          BY <3>3, <5>1, <5>3
      <4> QED
        BY <4>1, <4>2
    <3> QED
      BY <2>4, <3>1, <3>2, <3>3
  <2> QED
    BY <1>1, <2>1, <2>2, <2>3, <2>4 DEF EntryKept
<1> QED
  BY <1>2, <1>3, <1>4 DEF Next, Main

(* Modules join the table one at a time and are counted one at a time.       *)
LEMMA NextNumbered == ASSUME IInv, OInv, Numbered, [Next]_vars PROVE Numbered'
<1>1. /\ totalFiles \in Nat /\ table \in Seq(Path) /\ Len(table) \in Nat
      /\ IsFiniteSet(Creating) /\ Cardinality(Creating) \in Nat
  <2>1. Creating \subseteq Busy
    BY DEF Creating, Busy
  <2> QED
    BY <2>1, BusyFinite, FS_Subset, FS_CardinalityType DEF IInv, TypeOK
<1>2. CASE Begin
  <2>1. /\ totalFiles = 0 /\ totalFiles' = 1 /\ UNCHANGED <<table, pc>>
    BY <1>2 DEF Begin
  <2>2. Range(table) = {} /\ Creating' = {}
    BY <2>1 DEF OInv, Fresh, Busy, Creating
  <2>3. Len(table') = 0
    <3>1. DOMAIN table = 1 .. Len(table)
      BY <1>1
    <3>2. ~(1 \in 1 .. Len(table))
      BY <2>2, <3>1 DEF Range
    <3> QED
      BY <1>1, <2>1, <3>2
  <2>4. Cardinality(Creating') = 0
    BY <2>2, FS_EmptySet
  <2> QED
    BY <2>1, <2>2, <2>3, <2>4 DEF Numbered
<1>3. CASE WaitBegin \/ WaitCheck \/ WaitBlock \/ WaitSpuriousWake \/ Finish \/ UNCHANGED vars
  <2>1. UNCHANGED <<table, pc, totalFiles>>
    BY <1>3 DEF WaitBegin, WaitCheck, WaitBlock, WaitSpuriousWake, WaiterStep, Finish, vars
  <2>2. Creating' = Creating
    BY <2>1 DEF Creating
  <2> QED
    BY <2>1, <2>2 DEF Numbered
<1>4. ASSUME NEW w \in Worker, Work(w) PROVE Numbered'
  <2>1. CASE StartFile(w)
    <3>1. /\ table' = IF at[w] = Entry THEN Append(table, Entry) ELSE table
          /\ totalFiles' = totalFiles /\ pc[w] = "start" /\ Entry \in Path
      BY <2>1, ResolutionAssumption DEF StartFile, Goto, IsAt
    <3>2. Creating' = Creating
      BY <2>1, TaskMoves DEF Work, StartFile, Goto, IsAt, IInv, TypeOK, Creating
    <3>3. CASE at[w] = Entry
      <4>1. Entry \notin Range(table)
        BY <3>1, <3>3 DEF OInv, EntryFirst
      <4>2. Len(table') = Len(table) + 1 /\ Entry \in Range(table')
        BY <1>1, <3>1, <3>3, RangeAppend
      <4> QED
        BY <1>1, <3>1, <3>2, <4>1, <4>2 DEF Numbered
    <3>4. CASE at[w] # Entry
      BY <3>1, <3>2, <3>4 DEF Numbered
    <3> QED
      BY <3>3, <3>4
  <2>2. CASE LocateNew(w)
    <3>1. /\ table' = Append(table, Dep(w).to) /\ Dep(w).to \in Path
          /\ totalFiles' = totalFiles /\ pc[w] = "parse"
          /\ \E to \in {"name", "mark"} : pc' = [pc EXCEPT ![w] = to]
      BY <2>2 DEF LocateNew, Located, ToResolve, AtEdge, IsAt
    <3>2. w \in Busy /\ w \notin Creating /\ Creating' = Creating \union {w}
      BY <3>1 DEF IInv, TypeOK, Busy, Creating
    <3>3. Cardinality(Creating') = Cardinality(Creating) + 1
      BY <1>1, <3>2, FS_AddElement
    <3>4. Len(table') = Len(table) + 1 /\ Range(table) \subseteq Range(table')
      BY <1>1, <3>1, RangeAppend
    <3>5. at[w] \in Range(table)
      BY <3>1, <3>2 DEF IInv, InTable
    <3>6. Entry \in Range(table)
      BY <3>5 DEF OInv, EntryFirst
    <3>7. Entry \in Range(table')
      BY <3>4, <3>6
    <3>8. totalFiles # 0 => totalFiles + Cardinality(Creating) = Len(table)
      BY <1>1, <3>6 DEF Numbered
    <3>9. totalFiles' # 0 => totalFiles' + Cardinality(Creating') = Len(table')
      <4> HIDE DEF Creating
      <4>1. totalFiles' = totalFiles
        BY <3>1
      <4> QED
        BY <1>1, <3>3, <3>4, <3>8, <4>1
    <3>10. totalFiles' # 0 =>
             totalFiles' + Cardinality(Creating') = Len(table') + 0
      <4>1. Len(table') \in Nat
        BY <1>1, <3>4
      <4> QED
        BY <3>9, <4>1
    <3> QED
      BY <3>7, <3>10 DEF Numbered
  <2>3. CASE Spawn(w)
    <3>1. /\ UNCHANGED table /\ totalFiles' = totalFiles + 1 /\ pc[w] = "spawn"
          /\ pc' = [pc EXCEPT ![w] = AfterLocation(w)] /\ AfterLocation(w) \in {"parse", "callee"}
      BY <2>3 DEF Spawn, IsAt, AfterLocation
    <3>2. w \in Busy /\ w \in Creating /\ Creating' = Creating \ {w}
      BY <3>1 DEF IInv, TypeOK, Busy, Creating
    <3>3. Cardinality(Creating') = Cardinality(Creating) - 1 /\ Cardinality(Creating') \in Nat
      BY <1>1, <3>2, FS_RemoveElement, FS_Subset, FS_CardinalityType
    <3>4. totalFiles # 0
      BY <3>2 DEF OInv, Fresh
    <3> QED
      BY <1>1, <3>1, <3>3, <3>4 DEF Numbered
  <2>4. CASE ~StartFile(w) /\ ~LocateNew(w) /\ ~Spawn(w)
    <3>1. UNCHANGED <<table, totalFiles>>
      BY <1>4, <2>4 DEF Work, TakeTask, ImportExternal, NotLocated, LocateExisting, NextName,
         CountName, MarkNew, ReadCallee, DereferenceNull, EndFile, TaskDone, TaskNotify
    <3>2. Creating' = Creating
      BY <1>4, <2>4, TaskMoves
    <3> QED
      BY <3>1, <3>2 DEF Numbered
  <2> QED
    BY <2>1, <2>2, <2>3, <2>4
<1> QED
  BY <1>2, <1>3, <1>4 DEF Next, Main

(* The verdict is read off the errors, which stay.                           *)
LEMMA NextThrew == ASSUME IInv, ThrewForAReason, [Next]_vars PROVE ThrewForAReason'
<1>1. errors \subseteq errors'
  BY NextGrows DEF Grows
<1>2. result' = result \/ Finish
  BY DEF Next, Main, Begin, WaitBegin, WaitCheck, WaitBlock, WaitSpuriousWake, WaiterStep,
         vars, Work, TakeTask, StartFile, ImportExternal, NotLocated, LocateExisting,
         LocateNew, NextName, CountName, MarkNew, Spawn, ReadCallee, DereferenceNull, EndFile,
         TaskDone, TaskNotify, owner
<1>3. Finish => errors' = errors /\ result' = IF errors = {} THEN "ok" ELSE "threw"
  BY DEF Finish
<1> QED
  BY <1>1, <1>2, <1>3 DEF ThrewForAReason

(* Before the first step nothing is found.                                  *)
LEMMA InitDInv == Init => DInv
<1> SUFFICES ASSUME Init PROVE DInv
  OBVIOUS
<1>1. Range(table) = {} /\ Creating = {}
  BY DEF Init, Range, Creating
<1> QED
  BY <1>1 DEF Init, DInv, Exploring, Progress, Come, Reading, NothingElse, EntryKept, Numbered,
              ThrewForAReason

(* Every step keeps the invariant.                                          *)
LEMMA NextDInv == IInv /\ OInv /\ DInv /\ [Next]_vars => DInv'
  BY NextExploring, NextProgress, NextNothingElse, NextEntryKept, NextNumbered, NextThrew
  DEF DInv

-----------------------------------------------------------------------------
(* When the stage has its result, every module it found was explored.        *)
LEMMA AllExplored ==
  ASSUME IInv, DInv, ReturnSeesEverything, result # "none"
  PROVE  /\ Creating = {} /\ Entry \in Range(table) /\ totalFiles # 0
         /\ \A p \in Range(table) : Explored(p)
<1>1. waiter = "returned" /\ queue = <<>> /\ Busy = {}
  BY DEF IInv, Ended, ReturnSeesEverything
<1>2. Creating = {} /\ Range(queue) = {}
  BY <1>1 DEF Creating, Busy, Range
<1>3. totalFiles # 0
  BY <1>1 DEF DInv, EntryKept
<1> QED
  BY <1>1, <1>2, <1>3 DEF DInv, EntryKept, Exploring

(* ... so that the table is closed under the located dependencies.           *)
LEMMA TableReachable ==
  ASSUME IInv, DInv, ReturnSeesEverything, result # "none"
  PROVE  Range(table) = Reachable
<1>1. Range(table) \in SUBSET Path
  BY DEF IInv, TypeOK, Range
<1>2. ASSUME NEW p \in Range(table) PROVE Locates(p) \subseteq Range(table)
  BY AllExplored DEF Explored, Handled, Locates
<1>3. Closed(Range(table))
  BY <1>2, AllExplored DEF Closed
<1> QED
  BY <1>1, <1>3, ReachLeast DEF DInv, NothingElse

(* What the stage found is the program's.                                    *)
LEMMA Discovers ==
  ASSUME IInv, DInv, ReturnSeesEverything
  PROVE  DiscoversReachable
<1> SUFFICES ASSUME result # "none"
             PROVE  /\ Range(table) = Reachable
                    /\ totalFiles = Len(table)
                    /\ externals = UNION {ExternalImports(p) : p \in Reachable}
  BY DEF DiscoversReachable
<1>1. Range(table) = Reachable
  BY TableReachable
<1>2. totalFiles = Len(table)
  <2>1. Cardinality(Creating) = 0
    BY AllExplored, FS_EmptySet
  <2> QED
    BY <2>1, AllExplored DEF DInv, Numbered, IInv, TypeOK
<1>3. ASSUME NEW p \in Range(table), NEW x \in ExternalImports(p) PROVE x \in externals
  <2>1. /\ program.outcome[p] # "noSource" /\ x \in External
        /\ \E e \in Range(program.deps[p]) : e.kind = "import" /\ e.to = x
    BY <1>3 DEF ExternalImports
  <2>2. PICK i \in DOMAIN program.deps[p] : program.deps[p][i].kind = "import" /\ program.deps[p][i].to = x
    BY <2>1 DEF Range
  <2>3. Handled(p, i)
    BY <2>1, AllExplored DEF Explored
  <2> QED
    BY <2>1, <2>2, <2>3 DEF Handled
<1>4. externals \subseteq UNION {ExternalImports(p) : p \in Range(table)}
  BY DEF DInv, NothingElse
<1> QED
  BY <1>1, <1>2, <1>3, <1>4

(* ... and so is what it says of it.                                         *)
LEMMA Verdict ==
  ASSUME IInv, DInv, ReturnSeesEverything
  PROVE  VerdictIsDeterministic
<1>1. ASSUME result # "none" PROVE result = "threw" <=> \E p \in Reachable : Faulty(p)
  <2>1. Range(table) = Reachable
    BY <1>1, TableReachable
  <2>2. result = "threw" <=> errors # {}
    BY <1>1 DEF DInv, ThrewForAReason, IInv, Ended, TypeOK
  <2>3. errors # {} => \E p \in Reachable : Faulty(p)
    BY <2>1 DEF DInv, NothingElse
  <2>4. ASSUME NEW p \in Reachable, Faulty(p) PROVE p \in errors
    <3>1. Explored(p)
      BY <1>1, <2>1, AllExplored
    <3>2. CASE program.outcome[p] # "ok"
      BY <3>1, <3>2 DEF Explored
    <3>3. CASE program.outcome[p] = "ok"
      BY <2>4, <3>1, <3>3 DEF Explored, Faulty, Handled
    <3> QED
      BY <3>2, <3>3
  <2> QED
    BY <2>2, <2>3, <2>4
<1>2. crashed => \E p \in Reachable : \E e \in Range(program.deps[p]) :
                   e.kind = "require" /\ Unlocated(e)
  BY DEF DInv, NothingElse
<1> QED
  BY <1>1, <1>2 DEF VerdictIsDeterministic

(* Whatever the schedule, the stage finds exactly the reachable modules and  *)
(* their external imports, counts them, throws exactly when one of them is   *)
(* faulty and crashes only on a require() that is not located.               *)
THEOREM Deterministic == Spec => []OutcomeIsDeterministic
<1>1. Spec => []OInv
  BY InitOInv, NextOInv, Invariance, PTL DEF Spec
<1>2. Spec => []DInv
  BY <1>1, InitDInv, NextDInv, Invariance, PTL DEF Spec
<1>3. IInv /\ DInv /\ ReturnSeesEverything => OutcomeIsDeterministic
  BY Discovers, Verdict DEF OutcomeIsDeterministic
<1> QED
  BY <1>2, <1>3, Invariance, WaitSeesEverything, PTL

-----------------------------------------------------------------------------
(* What a parser leaves in the modules for the later stages: ref_mods is in  *)
(* source order whichever worker created the modules, and where the name     *)
(* generator has its lock and no module is required from two places, every   *)
(* require() call has the name of the module it means.                       *)

(* A module no parser has begun with.                                       *)
Untouched(p) ==
  \/ p \notin Range(table)
  \/ p \in Range(queue)
  \/ \E w \in Busy : pc[w] = "start" /\ at[w] = p
  \/ \E w \in Creating : Dep(w).to = p

(* The dependencies of its module worker w has put into ref_mods, and the   *)
(* require() calls it has named.                                            *)
Referenced(w) ==
  {i \in LocatedIn(at[w]) : i < pos[w] \/ (i = pos[w] /\ pc[w] \in {"spawn", "callee"})}
Called(w) == {i \in RequiresIn(at[w]) : i < pos[w]}

(* What has been written down so far is in source order.                    *)
Blank == \A p \in Path : Untouched(p) => refMods[p] = <<>> /\ callees[p] = <<>>
RefsSoFar == \A w \in Worker : pc[w] \in Reading => Lists(refMods[at[w]], at[w], Referenced(w))

SInv == Blank /\ RefsSoFar /\ RefModsInSourceOrder

(* With its lock, the generator gives no name to two workers.               *)
Naming(w) == pc[w] = "mark" /\ Dep(w).kind = "require"
Named ==
  /\ \A p \in Path : callName[p] <= names
  /\ \A w \in Worker : Naming(w) =>
       /\ seen[w] < names
       /\ \A p \in Path : callName[p] # NameFrom(seen[w])
  /\ \A v, w \in Worker : Naming(v) /\ Naming(w) /\ seen[v] = seen[w] => v = w

NInv == Named /\ CallNamesDistinct /\ \A w \in Worker : pc[w] # "count"

(* The parser of p has come to its i-th dependency and gone on.             *)
Passed(p, i) ==
  /\ ~Untouched(p)
  /\ \A w \in Busy : at[w] = p =>
       \/ i < pos[w]
       \/ i = pos[w] /\ pc[w] \in {"name", "count", "mark", "spawn", "callee"}

(* So a required module is in the table only because its require() was read, *)
(* has its name before the call is given one, and each call so far has it.   *)
FoundByRequire ==
  \A p \in Path : \A i \in RequiresIn(p) :
    program.deps[p][i].to \in Range(table) => Passed(p, i)
NamedFirst ==
  \A w \in Worker :
    pc[w] \in {"spawn", "callee"} /\ Dep(w).kind = "require" /\ program.trace /\ Dep(w).to \in Path =>
      isCJS[Dep(w).to] /\ callName[Dep(w).to] # 0
CallsSoFar ==
  \A w \in Worker : pc[w] \in Reading =>
    Called(w) \subseteq LocatedIn(at[w]) /\ Calls(callees[at[w]], at[w], Called(w))
RequiresLocated == \A p \in parsed : RequiresIn(p) \subseteq LocatedIn(p)

BInv == FoundByRequire /\ NamedFirst /\ CallsSoFar /\ RequiresLocated /\ RequiresAreBound

-----------------------------------------------------------------------------
(* A position of a set has a place among the set's positions.                *)
LEMMA BeforeLess ==
  ASSUME NEW I \in SUBSET Nat, IsFiniteSet(I), NEW i \in I
  PROVE  /\ Cardinality(I) \in Nat /\ Before(I, i) \in Nat
         /\ Before(I, i) + 1 \in 1 .. Cardinality(I)
<1> DEFINE B == {j \in I : j < i}
<1>1. IsFiniteSet(I \ {i}) /\ Cardinality(I \ {i}) = Cardinality(I) - 1
  BY FS_RemoveElement
<1>2. B \in SUBSET (I \ {i})
  OBVIOUS
<1>3. IsFiniteSet(B) /\ Cardinality(B) <= Cardinality(I \ {i})
  BY <1>1, <1>2, FS_Subset
<1>4. Cardinality(I) \in Nat /\ Cardinality(B) \in Nat
  BY <1>3, FS_CardinalityType
<1> QED
  BY <1>1, <1>3, <1>4 DEF Before

(* ... the later position has the last place, the others keep theirs.        *)
LEMMA BeforeLast ==
  ASSUME NEW I \in SUBSET Nat, IsFiniteSet(I), NEW k \in Nat, \A i \in I : i < k
  PROVE  /\ IsFiniteSet(I \union {k}) /\ Cardinality(I \union {k}) = Cardinality(I) + 1
         /\ Before(I \union {k}, k) = Cardinality(I)
         /\ \A i \in I : Before(I \union {k}, i) = Before(I, i)
<1>1. k \notin I
  OBVIOUS
<1>2. {j \in I \union {k} : j < k} = I
  <2>1. ~(k < k)
    OBVIOUS
  <2>2. \A j \in I \union {k} : j < k <=> j \in I
    BY <2>1
  <2> QED
    BY <2>2
<1>3. ASSUME NEW i \in I PROVE {j \in I \union {k} : j < i} = {j \in I : j < i}
  OBVIOUS
<1> QED
  BY <1>1, <1>2, <1>3, FS_AddElement DEF Before

(* A list goes on with the next dependency's module.                         *)
LEMMA ListsAppend ==
  ASSUME NEW p, NEW I \in SUBSET Nat, IsFiniteSet(I), NEW k \in Nat, \A i \in I : i < k,
         NEW S, NEW s \in Seq(S), Lists(s, p, I), program.deps[p][k].to \in S
  PROVE  Lists(Append(s, program.deps[p][k].to), p, I \union {k})
<1> DEFINE e == program.deps[p][k].to
           a == Append(s, e)
<1>1. /\ Len(a) = Len(s) + 1 /\ a[Len(s) + 1] = e
      /\ \A n \in 1 .. Len(s) : a[n] = s[n]
  BY AppendProperties
<1>2. Len(s) = Cardinality(I) /\ \A i \in I : s[Before(I, i) + 1] = program.deps[p][i].to
  BY DEF Lists
<1> HIDE DEF a
<1>3. Len(a) = Cardinality(I \union {k}) /\ a[Before(I \union {k}, k) + 1] = e
  BY <1>1, <1>2, BeforeLast
<1>4. ASSUME NEW i \in I PROVE a[Before(I \union {k}, i) + 1] = program.deps[p][i].to
  BY <1>1, <1>2, <1>4, BeforeLast, BeforeLess
<1>5. Lists(a, p, I \union {k})
  BY <1>3, <1>4 DEF Lists
<1> QED
  BY <1>5 DEF a

(* ... and the calls with the next call's name.                              *)
LEMMA CallsAppend ==
  ASSUME NEW p, NEW I \in SUBSET Nat, IsFiniteSet(I), NEW k \in Nat, \A i \in I : i < k,
         NEW s \in Seq(Nat), Calls(s, p, I),
         NEW name \in Nat, name = callName[program.deps[p][k].to], name # 0,
         isCJS[program.deps[p][k].to]
  PROVE  Calls(Append(s, name), p, I \union {k})
<1> DEFINE a == Append(s, name)
           Right(i, x) == /\ isCJS[program.deps[p][i].to]
                          /\ x = callName[program.deps[p][i].to] /\ x # 0
<1>1. /\ Len(a) = Len(s) + 1 /\ a[Len(s) + 1] = name
      /\ \A n \in 1 .. Len(s) : a[n] = s[n]
  BY AppendProperties
<1>2. Len(s) = Cardinality(I) /\ \A i \in I : Right(i, s[Before(I, i) + 1])
  BY DEF Calls
<1> HIDE DEF a
<1>3. Right(k, name)
  OBVIOUS
<1> HIDE DEF Right
<1>4. Len(a) = Cardinality(I \union {k}) /\ Right(k, a[Before(I \union {k}, k) + 1])
  BY <1>1, <1>2, <1>3, BeforeLast
<1>5. ASSUME NEW i \in I PROVE Right(i, a[Before(I \union {k}, i) + 1])
  BY <1>1, <1>2, <1>5, BeforeLast, BeforeLess
<1>6. Calls(a, p, I \union {k})
  BY <1>4, <1>5 DEF Calls, Right
<1> QED
  BY <1>6 DEF a

(* The positions of a module's dependencies are a finite set of numbers.     *)
LEMMA Positions ==
  ASSUME TypeOK, NEW p \in Path
  PROVE  /\ program.deps[p] \in Seq(Edge)
         /\ DOMAIN program.deps[p] \in SUBSET Nat
         /\ \A I \in SUBSET DOMAIN program.deps[p] : IsFiniteSet(I)
<1>1. program.deps[p] \in Seq(Edge)
  BY ResolutionAssumption DEF TypeOK
<1>2. DOMAIN program.deps[p] = 1 .. Len(program.deps[p]) /\ Len(program.deps[p]) \in Nat
  BY <1>1
<1>3. IsFiniteSet(1 .. Len(program.deps[p]))
  BY <1>2, FS_Interval
<1> QED
  BY <1>1, <1>2, <1>3, FS_Subset

(* Nothing is listed for no position.                                       *)
LEMMA EmptyLists == ASSUME NEW p PROVE Lists(<<>>, p, {}) /\ Calls(<<>>, p, {})
  BY FS_EmptySet DEF Lists, Calls

-----------------------------------------------------------------------------
(* A parser has its module to itself.                                       *)
LEMMA Holds ==
  ASSUME IInv, OInv, NEW w \in Worker, pc[w] \in Reading
  PROVE  /\ w \in Busy /\ at[w] \in Path
         /\ ~Untouched(at[w]) /\ at[w] \notin parsed
         /\ \A v \in Busy : at[v] = at[w] => v = w
<1>1. w \in Busy /\ pc[w] # "start" /\ pc[w] # "done" /\ at[w] \in Path
  BY DEF Busy, Reading, IInv, TypeOK
<1>2. at[w] \in Range(table)
  BY <1>1 DEF IInv, InTable
<1>3. at[w] \notin Range(queue) /\ at[w] \notin parsed /\ \A v \in Busy : at[v] = at[w] => v = w
  BY <1>1 DEF OInv, EachModuleParsedOnce
<1>4. \A v \in Creating : Dep(v).to # at[w]
  BY <1>1 DEF OInv, Claimed
<1> QED
  BY <1>1, <1>2, <1>3, <1>4 DEF Untouched

(* A module is being set up by the worker that found it, all the while at    *)
(* the same dependency.                                                     *)
LEMMA CreatorStays ==
  ASSUME IInv, NEW w \in Worker, Work(w)
  PROVE  \A v \in Creating' : /\ Dep(v)' = Dep(v)
                              /\ v \in Creating \/ (v = w /\ LocateNew(w))
<1>1. program' = program
  BY NextGrows DEF Grows, Next
<1>2. ASSUME NEW v \in Creating', v # w PROVE Dep(v)' = Dep(v) /\ v \in Creating
  BY <1>1, <1>2, WorkAlone DEF Alone, Creating, Dep
<1>3. ASSUME w \in Creating' PROVE UNCHANGED <<at, pos>> /\ (w \in Creating \/ LocateNew(w))
  <2>1. pc \in [Worker -> Control] /\ pc'[w] \in {"name", "count", "mark", "spawn"}
    BY <1>3 DEF Creating, IInv, TypeOK
  <2>2. CASE NextName(w) \/ CountName(w) \/ MarkNew(w) \/ LocateNew(w)
    BY <2>1, <2>2 DEF NextName, CountName, MarkNew, LocateNew, Goto, IsAt, Creating
  <2>3. ~TakeTask(w) /\ ~StartFile(w) /\ ~ReadCallee(w) /\ ~EndFile(w) /\ ~TaskDone(w) /\ ~TaskNotify(w)
    BY <2>1 DEF TakeTask, StartFile, ReadCallee, EndFile, TaskDone, TaskNotify, Goto
  <2>4. ~ImportExternal(w) /\ ~DereferenceNull(w)
    BY <2>1 DEF ImportExternal, DereferenceNull, AtEdge, IsAt
  <2>5. ~NotLocated(w) /\ ~LocateExisting(w) /\ ~Spawn(w)
    BY <2>1 DEF NotLocated, LocateExisting, Spawn, AfterLocation
  <2> QED
    BY <2>2, <2>3, <2>4, <2>5 DEF Work
<1>4. ASSUME w \in Creating' PROVE Dep(w)' = Dep(w)
  BY <1>1, <1>3, <1>4 DEF Dep
<1> QED
  BY <1>2, <1>3, <1>4

(* No parser gives a module back.                                           *)
LEMMA UntouchedStays ==
  ASSUME IInv, OInv, [Next]_vars, NEW p, Untouched(p)'
  PROVE  Untouched(p)
<1>1. Range(table) \subseteq Range(table') /\ program' = program
  BY NextGrows DEF Grows
<1>2. CASE p \notin Range(table')
  BY <1>1, <1>2 DEF Untouched
<1>3. CASE Main \/ UNCHANGED vars
  <2>1. UNCHANGED <<table, pc, at, pos>>
    BY <1>3 DEF Main, Begin, WaitBegin, WaitCheck, WaitBlock, WaitSpuriousWake, WaiterStep,
                Finish, vars
  <2>2. Busy' = Busy /\ Creating' = Creating /\ \A v \in Creating : Dep(v)' = Dep(v)
    BY <1>1, <2>1 DEF Busy, Creating, Dep
  <2>3. CASE Begin
    BY <2>3 DEF Begin, OInv, Fresh, Untouched
  <2>4. CASE ~Begin
    <3>1. queue' = queue
      BY <1>3, <2>4 DEF Main, WaitBegin, WaitCheck, WaitBlock, WaitSpuriousWake, WaiterStep,
                        Finish, vars
    <3> QED
      BY <2>1, <2>2, <3>1 DEF Untouched
  <2> QED
    BY <2>3, <2>4
<1>4. ASSUME NEW w \in Worker, Work(w), p \in Range(table') PROVE Untouched(p)
  <2>1. CASE p \in Range(queue')
    <3>1. CASE Spawn(w)
      <4>1. /\ queue' = Append(queue, Dep(w).to) /\ queue \in Seq(Path) /\ w \in Creating
            /\ Dep(w).to \in Path
        BY <3>1 DEF Spawn, IsAt, Enqueue, Creating, IInv, TypeOK, Positioned
      <4> QED
        BY <2>1, <4>1, RangeAppend DEF Untouched
    <3>2. CASE ~Spawn(w)
      BY <1>4, <2>1, <3>2, TaskMoves DEF Untouched
    <3> QED
      BY <3>1, <3>2
  <2>2. ASSUME NEW v \in Busy', pc'[v] = "start", at'[v] = p PROVE Untouched(p)
    <3>1. CASE TakeTask(w) /\ v = w
      <4>1. queue # <<>> /\ queue \in Seq(Path) /\ at'[w] = Head(queue)
        BY <3>1 DEF TakeTask, IInv, TypeOK
      <4> QED
        BY <2>2, <3>1, <4>1, RangeTail DEF Untouched
    <3>2. CASE v # w
      <4>1. v \in Worker /\ pc[v] = "start" /\ at[v] = p
        BY <1>4, <2>2, <3>2, WorkAlone DEF Alone, Busy
      <4>2. v \in Busy
        BY <4>1 DEF Busy
      <4> QED
        BY <4>1, <4>2 DEF Untouched
    <3>3. CASE v = w /\ ~TakeTask(w)
      <4>1. pc'[w] # "start"
        <5>1. CASE StartFile(w) \/ EndFile(w) \/ TaskDone(w) \/ TaskNotify(w) \/ ReadCallee(w)
          BY <5>1 DEF StartFile, EndFile, TaskDone, TaskNotify, ReadCallee, Goto, IInv, TypeOK
        <5>2. CASE NextName(w) \/ CountName(w) \/ MarkNew(w) \/ LocateNew(w)
          BY <5>2 DEF NextName, CountName, MarkNew, LocateNew, Goto, IInv, TypeOK
        <5>3. CASE NotLocated(w) \/ LocateExisting(w) \/ Spawn(w)
          BY <5>3 DEF NotLocated, LocateExisting, Spawn, AfterLocation, IInv, TypeOK
        <5>4. CASE ImportExternal(w) \/ DereferenceNull(w)
          BY <5>4 DEF ImportExternal, DereferenceNull, AtEdge, IsAt
        <5> QED
          BY <1>4, <3>3, <5>1, <5>2, <5>3, <5>4 DEF Work
      <4> QED
        BY <2>2, <3>3, <4>1
    <3> QED
      BY <3>1, <3>2, <3>3
  <2>3. ASSUME NEW v \in Creating', Dep(v)'.to = p PROVE Untouched(p)
    <3>1. Dep(v).to = p /\ (v \in Creating \/ (v = w /\ LocateNew(w)))
      BY <1>4, <2>3, CreatorStays
    <3> QED
      BY <3>1 DEF Untouched, LocateNew, Known
  <2> QED
    BY <1>4, <2>1, <2>2, <2>3 DEF Untouched
<1> QED
  BY <1>2, <1>3, <1>4 DEF Next

-----------------------------------------------------------------------------
(* Only a parser writes into its own module's ref_mods and callees.          *)
LEMMA Writes ==
  ASSUME IInv, NEW w \in Worker, Work(w)
  PROVE  /\ \/ /\ LocateExisting(w) \/ MarkNew(w)
               /\ refMods' = [refMods EXCEPT ![at[w]] = Append(@, Dep(w).to)]
            \/ refMods' = refMods /\ ~LocateExisting(w) /\ ~MarkNew(w)
         /\ \/ /\ ReadCallee(w)
               /\ callees' = [callees EXCEPT ![at[w]] = Append(@, callName[Dep(w).to])]
            \/ callees' = callees /\ ~ReadCallee(w)
<1>1. CASE LocateExisting(w) \/ MarkNew(w) \/ ReadCallee(w)
  <2>1. ~(LocateExisting(w) /\ ReadCallee(w)) /\ ~(MarkNew(w) /\ ReadCallee(w))
    BY DEF LocateExisting, MarkNew, ReadCallee, Located, ToResolve, AtEdge, IsAt, Goto
  <2> QED
    BY <1>1, <2>1 DEF LocateExisting, MarkNew, ReadCallee, Reference
<1>2. CASE ~LocateExisting(w) /\ ~MarkNew(w) /\ ~ReadCallee(w)
  BY <1>2 DEF Work, TakeTask, StartFile, ImportExternal, NotLocated, LocateNew, NextName, CountName,
              Spawn, DereferenceNull, EndFile, TaskDone, TaskNotify, fields
<1> QED
  BY <1>1, <1>2

(* ... and does so only while it reads that module.                          *)
LEMMA WritesOwn ==
  ASSUME IInv, OInv, NEW w \in Worker, Work(w)
  PROVE  \/ pc[w] \in Reading
         \/ refMods' = refMods /\ callees' = callees
<1>1. CASE LocateExisting(w) \/ MarkNew(w) \/ ReadCallee(w)
  BY <1>1 DEF LocateExisting, MarkNew, ReadCallee, Located, ToResolve, AtEdge, IsAt, Goto, Reading
<1> QED
  BY <1>1, Writes

(* The thread that waits leaves the modules and the parsers alone.           *)
LEMMA MainLeaves ==
  ASSUME Main \/ UNCHANGED vars
  PROVE  /\ UNCHANGED <<program, table, parsed, isCJS, callName, refMods, callees, pc, at, pos, seen, names>>
         /\ Busy' = Busy /\ Creating' = Creating /\ \A v \in Worker : Dep(v)' = Dep(v)
<1>1. UNCHANGED <<program, table, fields, pc, at, pos>>
  BY DEF Main, Begin, WaitBegin, WaitCheck, WaitBlock, WaitSpuriousWake, WaiterStep, Finish, vars, fields
<1> QED
  BY <1>1 DEF fields, Busy, Creating, Dep

(* What no parser has begun with stays blank.                                *)
LEMMA NextBlank == ASSUME IInv, OInv, Blank, [Next]_vars PROVE Blank'
<1> SUFFICES ASSUME NEW p \in Path, Untouched(p)' PROVE refMods'[p] = <<>> /\ callees'[p] = <<>>
  BY DEF Blank
<1>1. refMods[p] = <<>> /\ callees[p] = <<>> /\ Untouched(p)
  BY UntouchedStays DEF Blank
<1>2. CASE Main \/ UNCHANGED vars
  BY <1>1, <1>2, MainLeaves
<1>3. ASSUME NEW w \in Worker, Work(w) PROVE refMods'[p] = refMods[p] /\ callees'[p] = callees[p]
  <2>1. CASE pc[w] \in Reading
    <3>1. at[w] # p
      BY <1>1, <2>1, Holds
    <3> QED
      BY <1>3, <3>1, Writes, ZenonT(40) DEF IInv, TypeOK
  <2> QED
    BY <1>3, <2>1, WritesOwn
<1> QED
  BY <1>1, <1>2, <1>3 DEF Next

(* What the listener's steps do to what has been put into ref_mods.          *)
LEMMA ReferenceAdds ==
  ASSUME IInv, Progress, NEW w \in Worker, LocateExisting(w) \/ MarkNew(w)
  PROVE  /\ pos[w] \in LocatedIn(at[w]) /\ at' = at
         /\ \A i \in Referenced(w) : i < pos[w]
         /\ Referenced(w)' = Referenced(w) \union {pos[w]}
<1> PICK p, n : p = at[w] /\ n = pos[w]
  OBVIOUS
<1>1. /\ UNCHANGED <<program, at>> /\ p \in Path /\ n \in Nat /\ pos \in [Worker -> Nat \ {0}]
      /\ pc \in [Worker -> Control] /\ DOMAIN program.deps[p] \subseteq Nat
  BY Positions DEF LocateExisting, MarkNew, IInv, TypeOK
<1>2. n \in LocatedIn(p)
  <2>1. CASE LocateExisting(w)
    BY <2>1 DEF LocateExisting, Located, ToResolve, AtEdge, LocatedIn, Dep
  <2>2. CASE MarkNew(w)
    BY <2>2 DEF MarkNew, Goto, IsAt, Progress, Come, IInv, Positioned, Creating, LocatedIn, Dep
  <2> QED
    BY <2>1, <2>2
<1>3. pc[w] \in {"parse", "mark"}
  BY DEF LocateExisting, MarkNew, Located, ToResolve, AtEdge, Goto, IsAt
<1>4. Referenced(w) = {i \in LocatedIn(p) : i < n}
  BY <1>3 DEF Referenced
<1>5. LocatedIn(p)' = LocatedIn(p) /\ LocatedIn(p) \subseteq Nat
  BY <1>1 DEF LocatedIn
<1>6. \/ pos'[w] = n /\ pc'[w] \in {"spawn", "callee"}
      \/ pos'[w] = n + 1 /\ pc'[w] = "parse"
  <2>1. CASE LocateExisting(w)
    BY <1>1, <2>1 DEF LocateExisting, AfterLocation, Advance
  <2>2. CASE MarkNew(w)
    BY <1>1, <2>2 DEF MarkNew, Goto
  <2> QED
    BY <2>1, <2>2
<1>7. Referenced(w)' = {i \in LocatedIn(p) : i < n \/ i = n}
  <2>1. Referenced(w)' = {i \in LocatedIn(p) : i < pos'[w] \/ (i = pos'[w] /\ pc'[w] \in {"spawn", "callee"})}
    BY <1>1, <1>5 DEF Referenced
  <2>2. \A i \in LocatedIn(p) : (i < pos'[w] \/ (i = pos'[w] /\ pc'[w] \in {"spawn", "callee"})) <=> (i < n \/ i = n)
    BY <1>1, <1>5, <1>6
  <2> QED
    BY <2>1, <2>2
<1> QED
  BY <1>1, <1>2, <1>4, <1>7

(* The other steps of a listener change nothing of it.                       *)
LEMMA ReferencesKept ==
  ASSUME IInv, NEW w \in Worker,
         \/ ImportExternal(w) \/ NotLocated(w) \/ LocateNew(w) \/ NextName(w) \/ CountName(w)
         \/ Spawn(w) \/ ReadCallee(w) \/ DereferenceNull(w)
  PROVE  /\ at' = at /\ pc[w] \in Reading
         /\ Referenced(w)' = Referenced(w)
<1> PICK p, n : p = at[w] /\ n = pos[w]
  OBVIOUS
<1>1. UNCHANGED <<program, at>>
  BY DEF ImportExternal, NotLocated, LocateNew, NextName, CountName, Spawn, ReadCallee, DereferenceNull
<1>2. /\ p \in Path /\ n \in Nat /\ pos \in [Worker -> Nat \ {0}] /\ pc \in [Worker -> Control]
      /\ LocatedIn(p) \subseteq Nat /\ LocatedIn(p)' = LocatedIn(p)
  BY <1>1, Positions DEF IInv, TypeOK, LocatedIn
<1>3. pc[w] \in Reading
  BY DEF ImportExternal, NotLocated, LocateNew, NextName, CountName, Spawn, ReadCallee,
         DereferenceNull, Located, ToResolve, AtEdge, IsAt, Goto, Reading
<1>4. ASSUME \A i \in LocatedIn(p) : (i < pos'[w] \/ (i = pos'[w] /\ pc'[w] \in {"spawn", "callee"}))
                                      <=> (i < n \/ (i = n /\ pc[w] \in {"spawn", "callee"}))
      PROVE  Referenced(w)' = Referenced(w)
  <2>1. Referenced(w)' = {i \in LocatedIn(p) : i < pos'[w] \/ (i = pos'[w] /\ pc'[w] \in {"spawn", "callee"})}
    BY <1>1, <1>2 DEF Referenced
  <2>2. Referenced(w) = {i \in LocatedIn(p) : i < n \/ (i = n /\ pc[w] \in {"spawn", "callee"})}
    BY DEF Referenced
  <2> QED
    BY <1>4, <2>1, <2>2
<1>5. CASE ImportExternal(w)
  <2>1. n \notin LocatedIn(p) /\ pos'[w] = n + 1 /\ pc' = pc /\ pc[w] = "parse"
    BY <1>2, <1>5, ResolutionAssumption DEF ImportExternal, AtEdge, IsAt, Dep, LocatedIn
  <2> QED
    BY <1>2, <1>3, <1>4, <1>1, <2>1
<1>6. CASE NotLocated(w)
  <2>1. n \notin LocatedIn(p) /\ pos'[w] \in {n, n + 1} /\ pc[w] = "parse"
        /\ (pc'[w] \in {"spawn", "callee"} => pos'[w] = n)
    BY <1>2, <1>6 DEF NotLocated, ToResolve, AtEdge, IsAt, Dep, LocatedIn, AfterLocation, Advance
  <2> QED
    BY <1>1, <1>2, <1>3, <1>4, <2>1
<1>7. CASE LocateNew(w) \/ NextName(w) \/ CountName(w)
  <2>1. pos' = pos /\ pc[w] \notin {"spawn", "callee"} /\ pc'[w] \notin {"spawn", "callee"}
    BY <1>2, <1>7 DEF LocateNew, NextName, CountName, Located, ToResolve, AtEdge, IsAt, Goto
  <2> QED
    BY <1>1, <1>2, <1>3, <1>4, <2>1
<1>8. CASE Spawn(w) \/ ReadCallee(w)
  <2>1. /\ pc[w] \in {"spawn", "callee"}
        /\ \/ pos'[w] = n /\ pc'[w] = "callee"
           \/ pos'[w] = n + 1 /\ pc'[w] = "parse"
    BY <1>2, <1>8 DEF Spawn, ReadCallee, IsAt, Goto, AfterLocation, Advance
  <2> QED
    BY <1>1, <1>2, <1>3, <1>4, <2>1
<1>9. CASE DereferenceNull(w)
  <2>1. UNCHANGED <<pc, pos>>
    BY <1>9 DEF DereferenceNull
  <2> QED
    BY <1>1, <1>2, <1>3, <1>4, <2>1
<1> QED
  BY <1>1, <1>3, <1>5, <1>6, <1>7, <1>8, <1>9

(* The parsers of the other workers are where they were.                     *)
LEMMA OthersRead ==
  ASSUME IInv, OInv, NEW w \in Worker, Work(w), NEW v \in Worker, v # w, pc'[v] \in Reading
  PROVE  /\ pc[v] \in Reading /\ at'[v] = at[v]
         /\ refMods'[at[v]] = refMods[at[v]] /\ callees'[at[v]] = callees[at[v]]
         /\ Referenced(v)' = Referenced(v) /\ Called(v)' = Called(v)
<1>1. pc'[v] = pc[v] /\ at'[v] = at[v] /\ pos'[v] = pos[v] /\ program' = program
  BY WorkAlone, NextGrows DEF Alone, Grows, Next
<1>2. Referenced(v)' = Referenced(v) /\ Called(v)' = Called(v)
  BY <1>1 DEF Referenced, LocatedIn, Called, RequiresIn
<1>3. at[v] # at[w] \/ (refMods' = refMods /\ callees' = callees)
  <2>1. CASE pc[w] \in Reading
    <3>1. w \in Busy
      BY <2>1, Holds
    <3> QED
      BY <1>1, <3>1, Holds
  <2> QED
    BY <2>1, WritesOwn
<1>4. refMods'[at[v]] = refMods[at[v]] /\ callees'[at[v]] = callees[at[v]]
  <2>1. /\ at[v] \in Path /\ at[w] \in Path
        /\ refMods \in [Path -> Seq(Path)] /\ callees \in [Path -> Seq(Nat)]
    BY DEF IInv, TypeOK
  <2>2. CASE at[v] # at[w]
    BY <2>1, <2>2, Writes
  <2> QED
    BY <1>3, <2>2
<1> QED
  BY <1>1, <1>2, <1>4

(* ref_mods grows in the order its parser goes.                              *)
LEMMA NextRefs ==
  ASSUME IInv, OInv, Progress, Blank, RefsSoFar, [Next]_vars
  PROVE  RefsSoFar'
<1>1. program' = program
  BY NextGrows DEF Grows
<1>2. CASE Main \/ UNCHANGED vars
  <2>1. UNCHANGED <<program, refMods, pc, at, pos>>
    BY <1>2, MainLeaves
  <2>2. \A v \in Worker : Referenced(v)' = Referenced(v)
    BY <2>1 DEF Referenced, LocatedIn
  <2> QED
    BY <2>1, <2>2 DEF RefsSoFar, Lists
<1>3. ASSUME NEW w \in Worker, Work(w) PROVE RefsSoFar'
  <2>1. ASSUME NEW v \in Worker, v # w, pc'[v] \in Reading
        PROVE  Lists(refMods[at[v]], at[v], Referenced(v))'
    <3>1. /\ pc[v] \in Reading /\ at'[v] = at[v] /\ refMods'[at[v]] = refMods[at[v]]
          /\ Referenced(v)' = Referenced(v)
      BY <1>3, <2>1, OthersRead
    <3> QED
      BY <1>1, <3>1 DEF RefsSoFar, Lists
  <2>2. ASSUME pc'[w] \in Reading PROVE Lists(refMods[at[w]], at[w], Referenced(w))'
    <3> PICK p, n : p = at[w] /\ n = pos[w]
      OBVIOUS
    <3>1. p \in Path /\ refMods \in [Path -> Seq(Path)] /\ n \in Nat
          /\ pc \in [Worker -> Control] /\ pos \in [Worker -> Nat \ {0}]
      BY DEF IInv, TypeOK
    <3>2. CASE LocateExisting(w) \/ MarkNew(w)
      <4>1. /\ n \in LocatedIn(p) /\ at' = at /\ \A i \in Referenced(w) : i < n
            /\ Referenced(w)' = Referenced(w) \union {n}
        BY <3>2, ReferenceAdds DEF DInv
      <4>2. refMods'[p] = Append(refMods[p], program.deps[p][n].to) /\ program.deps[p][n].to \in Path
        BY <1>3, <3>1, <3>2, <4>1, Writes DEF Dep, LocatedIn
      <4>3. Lists(refMods[p], p, Referenced(w))
        <5>1. pc[w] \in Reading
          BY <3>2 DEF LocateExisting, MarkNew, Located, ToResolve, AtEdge, IsAt, Goto, Reading
        <5> QED
          BY <5>1 DEF RefsSoFar
      <4>4. Referenced(w) \in SUBSET Nat /\ IsFiniteSet(Referenced(w))
        BY <3>1, Positions DEF Referenced, LocatedIn, IInv
      <4>5. Lists(Append(refMods[p], program.deps[p][n].to), p, Referenced(w) \union {n})
        BY <3>1, <4>1, <4>2, <4>3, <4>4, ListsAppend
      <4> QED
        BY <1>1, <4>1, <4>2, <4>5 DEF Lists
    <3>3. CASE \/ ImportExternal(w) \/ NotLocated(w) \/ LocateNew(w) \/ NextName(w) \/ CountName(w)
               \/ Spawn(w) \/ ReadCallee(w) \/ DereferenceNull(w)
      <4>1. at' = at /\ pc[w] \in Reading /\ Referenced(w)' = Referenced(w)
        BY <3>3, ReferencesKept
      <4>2. refMods' = refMods
        BY <3>3 DEF ImportExternal, NotLocated, LocateNew, NextName, CountName, Spawn, ReadCallee,
                    DereferenceNull, fields
      <4>3. Lists(refMods[p], p, Referenced(w))
        BY <4>1 DEF RefsSoFar
      <4> QED
        BY <1>1, <4>1, <4>2, <4>3 DEF Lists
    <3>4. CASE StartFile(w)
      <4>1. pc[w] = "start" /\ w \in Busy /\ refMods' = refMods /\ at' = at /\ pos'[w] = 1
        BY <3>1, <3>4 DEF StartFile, Goto, IsAt, fields, Busy
      <4>2. refMods[p] = <<>>
        BY <3>1, <4>1 DEF Blank, Untouched
      <4>3. Referenced(w)' = {}
        <5>1. pc'[w] \notin {"spawn", "callee"}
          BY <3>1, <3>4 DEF StartFile, Goto
        <5>2. \A i \in LocatedIn(p) : ~(i < 1)
          <6>1. program.deps[p] \in Seq(Edge)
            BY <3>1, Positions DEF IInv
          <6> QED
            BY <6>1 DEF LocatedIn
        <5>3. LocatedIn(p)' = LocatedIn(p)
          BY <1>1 DEF LocatedIn
        <5> QED
          BY <4>1, <5>1, <5>2, <5>3 DEF Referenced
      <4>4. Lists(<<>>, p, {})
        BY EmptyLists
      <4> QED
        BY <1>1, <4>1, <4>2, <4>3, <4>4 DEF Lists
    <3>5. CASE TakeTask(w) \/ EndFile(w) \/ TaskDone(w) \/ TaskNotify(w)
      BY <2>2, <3>1, <3>5 DEF TakeTask, EndFile, TaskDone, TaskNotify, Goto, Reading
    <3> QED
      BY <1>3, <3>2, <3>3, <3>4, <3>5 DEF Work
  <2> QED
    BY <2>1, <2>2 DEF RefsSoFar
<1> QED
  BY <1>2, <1>3 DEF Next

(* When its parser has come to the end, ref_mods of a module is complete.    *)
LEMMA NextInOrder ==
  ASSUME IInv, OInv, RefsSoFar, RefModsInSourceOrder, [Next]_vars
  PROVE  RefModsInSourceOrder'
<1>1. program' = program
  BY NextGrows DEF Grows
<1>2. CASE Main \/ UNCHANGED vars
  BY <1>2, MainLeaves DEF RefModsInSourceOrder, LocatedIn, Lists
<1>3. ASSUME NEW w \in Worker, Work(w), NEW p \in parsed PROVE refMods'[p] = refMods[p]
  <2>1. CASE pc[w] \in Reading
    <3>1. at[w] # p
      BY <1>3, <2>1, Holds
    <3> QED
      BY <1>3, <3>1, Writes DEF IInv, TypeOK
  <2> QED
    BY <1>3, <2>1, WritesOwn
<1>4. ASSUME NEW w \in Worker, EndFile(w) PROVE Lists(refMods'[at[w]], at[w], LocatedIn(at[w]))
  <2>1. /\ pc[w] = "parse" /\ pos[w] \notin DOMAIN program.deps[at[w]] /\ pos[w] \in Nat \ {0}
        /\ program.deps[at[w]] \in Seq(Edge) /\ refMods' = refMods
    BY <1>4, Positions DEF EndFile, Goto, IsAt, IInv, TypeOK
  <2>2. \A i \in DOMAIN program.deps[at[w]] : i < pos[w]
    BY <2>1
  <2>3. Referenced(w) = LocatedIn(at[w])
    BY <2>1, <2>2 DEF Referenced, LocatedIn
  <2> QED
    BY <2>1, <2>3 DEF RefsSoFar, Reading
<1>5. ASSUME NEW w \in Worker, Work(w), NEW p \in parsed' PROVE Lists(refMods[p], p, LocatedIn(p))'
  <2>1. p \in parsed \/ (EndFile(w) /\ p = at[w])
    BY <1>5 DEF Work, TakeTask, StartFile, ImportExternal, NotLocated, LocateExisting, LocateNew,
       NextName, CountName, MarkNew, Spawn, ReadCallee, DereferenceNull, EndFile, TaskDone,
       TaskNotify, fields
  <2>2. Lists(refMods'[p], p, LocatedIn(p))
    BY <1>3, <1>4, <1>5, <2>1 DEF RefModsInSourceOrder
  <2>3. LocatedIn(p)' = LocatedIn(p)
    BY <1>1 DEF LocatedIn
  <2> QED
    BY <1>1, <2>2, <2>3 DEF Lists
<1> QED
  BY <1>2, <1>5 DEF Next, RefModsInSourceOrder

(* At first nothing is listed.                                               *)
LEMMA InitSInv == Init => SInv
  BY DEF Init, SInv, Blank, RefsSoFar, RefModsInSourceOrder, Reading

(* What the later stages walk a module's dependencies by is the source's     *)
(* order, not the order in which the workers found the modules.             *)
THEOREM InOrder == Spec => []RefModsInSourceOrder
<1>1. IInv /\ OInv /\ DInv /\ SInv /\ [Next]_vars => SInv'
  BY NextBlank, NextRefs, NextInOrder DEF SInv, DInv
<1>2. Spec => []OInv
  BY InitOInv, NextOInv, Invariance, PTL DEF Spec
<1>3. Spec => []DInv
  BY <1>2, InitDInv, NextDInv, Invariance, PTL DEF Spec
<1>4. SInv => RefModsInSourceOrder
  BY DEF SInv
<1> QED
  BY <1>1, <1>2, <1>3, <1>4, InitSInv, Invariance, PTL DEF Spec

-----------------------------------------------------------------------------
(* Steps that neither make a name nor store one.                             *)
LEMMA NamesStep ==
  ASSUME NInv, UNCHANGED <<callName, seen, names>>,
         \A w \in Worker : Naming(w)' => Naming(w),
         \A w \in Worker : pc'[w] # "count"
  PROVE  NInv'
<1>1. CallNamesDistinct'
  BY DEF NInv, CallNamesDistinct
<1>2. Named'
  BY DEF NInv, Named
<1> QED
  BY <1>1, <1>2 DEF NInv

(* No step gives a name twice.                                               *)
LEMMA NextNInv == ASSUME NextLocks, IInv, OInv, Progress, NInv, [Next]_vars PROVE NInv'
<1>1. CASE Main \/ UNCHANGED vars
  <2>1. UNCHANGED <<callName, seen, names, pc>> /\ \A w \in Worker : Dep(w)' = Dep(w)
    BY <1>1, MainLeaves
  <2>2. \A w \in Worker : Naming(w)' => Naming(w)
    BY <2>1 DEF Naming
  <2> QED
    BY <2>1, <2>2, NamesStep DEF NInv
<1>2. ASSUME NEW w \in Worker, Work(w) PROVE NInv'
  <2>1. \A v \in Worker \ {w} : pc'[v] = pc[v] /\ Dep(v)' = Dep(v)
    BY <1>2, WorkAlone, NextGrows DEF Alone, Grows, Next, Dep
  <2>2. \A v \in Worker \ {w} : Naming(v)' <=> Naming(v)
    BY <2>1 DEF Naming
  <2>3. /\ pc \in [Worker -> Control] /\ seen \in [Worker -> Nat] /\ names \in Nat
        /\ callName \in [Path -> Nat]
    BY DEF IInv, TypeOK
  <2>4. CASE NextName(w)
    <3>1. /\ pc[w] = "name" /\ pc' = [pc EXCEPT ![w] = "mark"]
          /\ seen' = [seen EXCEPT ![w] = names] /\ names' = names + 1 /\ callName' = callName
      BY <2>4 DEF NextName, Goto, IsAt
    <3>2. /\ \A p \in Path : callName[p] <= names
          /\ \A v \in Worker : Naming(v) => seen[v] < names /\ \A p \in Path : callName[p] # NameFrom(seen[v])
      BY DEF NInv, Named
    <3>3. seen'[w] = names /\ \A v \in Worker \ {w} : seen'[v] = seen[v]
      BY <2>3, <3>1
    <3>4. \A p \in Path : callName'[p] <= names'
      BY <2>3, <3>1, <3>2
    <3>5. \A v \in Worker : Naming(v)' => seen'[v] < names' /\ \A p \in Path : callName'[p] # NameFrom(seen'[v])
      <4>1. seen'[w] < names' /\ \A p \in Path : callName'[p] # NameFrom(seen'[w])
        BY <2>3, <3>1, <3>2, <3>3 DEF NameFrom
      <4>2. ASSUME NEW v \in Worker \ {w}, Naming(v)'
            PROVE  seen'[v] < names' /\ \A p \in Path : callName'[p] # NameFrom(seen'[v])
        BY <2>2, <2>3, <3>1, <3>2, <3>3, <4>2
      <4> QED
        BY <4>1, <4>2
    <3>6. ASSUME NEW u \in Worker, NEW v \in Worker, Naming(u)', Naming(v)', seen'[u] = seen'[v]
          PROVE  u = v
      <4>1. CASE u # w /\ v # w
        BY <2>2, <3>3, <3>6, <4>1 DEF NInv, Named
      <4>2. CASE u = w /\ v # w
        BY <2>2, <2>3, <3>2, <3>3, <3>6, <4>2
      <4>3. CASE u # w /\ v = w
        BY <2>2, <2>3, <3>2, <3>3, <3>6, <4>3
      <4> QED
        BY <4>1, <4>2, <4>3
    <3>7. Named'
      BY <3>4, <3>5, <3>6 DEF Named
    <3>8. CallNamesDistinct' /\ \A v \in Worker : pc'[v] # "count"
      BY <2>3, <3>1 DEF NInv, CallNamesDistinct
    <3> QED
      BY <3>7, <3>8 DEF NInv
  <2>5. CASE MarkNew(w)
    <3> DEFINE child == Dep(w).to
    <3>1. /\ pc[w] = "mark" /\ pc' = [pc EXCEPT ![w] = "spawn"] /\ UNCHANGED <<seen, names>>
          /\ callName' = [callName EXCEPT ![child] = IF Naming(w) THEN NameFrom(seen[w]) ELSE @]
      BY <2>5 DEF MarkNew, Goto, IsAt, Naming
    <3>2. child \in Path /\ ~Naming(w)'
      BY <2>3, <3>1 DEF IInv, Positioned, Creating, Naming
    <3> HIDE DEF child
    <3>3. \A p \in Path : callName'[p] = callName[p] \/ (p = child /\ Naming(w) /\ callName'[p] = NameFrom(seen[w]))
      BY <2>3, <3>1, <3>2
    <3>4. Naming(w) => NameFrom(seen[w]) <= names
      BY <2>3 DEF NInv, Named, NameFrom
    <3>5. \A p \in Path : callName'[p] <= names'
      BY <3>1, <3>3, <3>4 DEF NInv, Named
    <3>6. ASSUME NEW v \in Worker, Naming(v)', NEW p \in Path
          PROVE  seen'[v] < names' /\ callName'[p] # NameFrom(seen'[v])
      <4>1. v # w /\ Naming(v) /\ seen[v] < names /\ callName[p] # NameFrom(seen[v])
        BY <2>2, <3>2, <3>6 DEF NInv, Named
      <4>2. Naming(w) => NameFrom(seen[v]) # NameFrom(seen[w])
        BY <2>3, <4>1 DEF NInv, Named, NameFrom
      <4> QED
        BY <3>1, <3>3, <4>1, <4>2
    <3>7. ASSUME NEW u \in Worker, NEW v \in Worker, Naming(u)', Naming(v)', seen'[u] = seen'[v]
          PROVE  u = v
      BY <2>2, <3>1, <3>2, <3>7 DEF NInv, Named
    <3>8. Named'
      <4>1. \A v \in Worker : Naming(v)' => seen'[v] < names'
        BY <2>2, <3>1, <3>2 DEF NInv, Named
      <4> QED
        BY <3>5, <3>6, <3>7, <4>1 DEF Named
    <3>9. CallNamesDistinct'
      <4> SUFFICES ASSUME NEW p \in Path, NEW q \in Path, callName'[p] = callName'[q], callName'[p] # 0
                   PROVE  p = q
        BY DEF CallNamesDistinct
      <4>1. Naming(w) => callName[p] # NameFrom(seen[w]) /\ callName[q] # NameFrom(seen[w])
        BY DEF NInv, Named
      <4> QED
        BY <3>3, <4>1 DEF NInv, CallNamesDistinct
    <3> QED
      BY <2>3, <3>1, <3>8, <3>9 DEF NInv
  <2>6. CASE ~NextName(w) /\ ~MarkNew(w)
    <3>1. ~CountName(w)
      BY DEF CountName, Goto, IsAt, NInv
    <3>2. UNCHANGED <<callName, seen, names>>
      BY <1>2, <2>6, <3>1 DEF Work, TakeTask, StartFile, ImportExternal, NotLocated, LocateExisting,
         LocateNew, Spawn, ReadCallee, DereferenceNull, EndFile, TaskDone, TaskNotify, fields
    <3>3. CASE LocateNew(w)
      <4>1. UNCHANGED <<program, at, pos>>
            /\ pc'[w] = IF Dep(w).kind = "require" THEN "name" ELSE "mark"
        BY <2>3, <3>3 DEF LocateNew
      <4>2. ~Naming(w)' /\ pc'[w] # "count"
        BY <4>1 DEF Naming, Dep
      <4>3. \A v \in Worker : (Naming(v)' => Naming(v)) /\ pc'[v] # "count"
        BY <2>1, <2>2, <4>2 DEF NInv
      <4> QED
        BY <3>2, <4>3, NamesStep
    <3>4. CASE ~LocateNew(w)
      <4>1. pc'[w] \notin {"mark", "count"}
        <5>1. CASE TakeTask(w) \/ StartFile(w) \/ ReadCallee(w) \/ EndFile(w) \/ TaskDone(w) \/ TaskNotify(w)
          BY <2>3, <5>1 DEF TakeTask, StartFile, ReadCallee, EndFile, TaskDone, TaskNotify, Goto
        <5>2. CASE NotLocated(w) \/ LocateExisting(w) \/ Spawn(w)
          BY <2>3, <5>2 DEF NotLocated, LocateExisting, Spawn, AfterLocation
        <5>3. CASE ImportExternal(w) \/ DereferenceNull(w)
          BY <2>3, <5>3 DEF ImportExternal, DereferenceNull, AtEdge, IsAt
        <5> QED
          BY <1>2, <2>6, <3>1, <3>4, <5>1, <5>2, <5>3 DEF Work
      <4>2. ~Naming(w)'
        BY <4>1 DEF Naming
      <4>3. \A v \in Worker : (Naming(v)' => Naming(v)) /\ pc'[v] # "count"
        BY <2>1, <2>2, <4>1, <4>2 DEF NInv
      <4> QED
        BY <3>2, <4>3, NamesStep
    <3> QED
      BY <3>3, <3>4
  <2> QED
    BY <2>4, <2>5, <2>6
<1> QED
  BY <1>1, <1>2 DEF Next

(* At first there are no names.                                              *)
LEMMA InitNInv == Init => NInv
  BY DEF Init, NInv, Named, Naming, CallNamesDistinct

-----------------------------------------------------------------------------
(* A parser does not come back to a dependency.                              *)
LEMMA PassedStays ==
  ASSUME IInv, OInv, [Next]_vars, NEW p, NEW i \in Nat, Passed(p, i)
  PROVE  Passed(p, i)'
<1> DEFINE Inside == {"name", "count", "mark", "spawn", "callee"}
<1>1. ~Untouched(p) /\ ~Untouched(p)'
  BY UntouchedStays DEF Passed
<1>2. ASSUME NEW v \in Busy', at'[v] = p PROVE i < pos'[v] \/ (i = pos'[v] /\ pc'[v] \in Inside)
  <2>1. ASSUME v \in Busy, at[v] = p PROVE i < pos[v] \/ (i = pos[v] /\ pc[v] \in Inside)
    BY <2>1 DEF Passed
  <2>2. CASE Main \/ UNCHANGED vars
    BY <1>2, <2>1, <2>2, MainLeaves
  <2>3. ASSUME NEW w \in Worker, Work(w), v # w
        PROVE  i < pos'[v] \/ (i = pos'[v] /\ pc'[v] \in Inside)
    <3>1. pc'[v] = pc[v] /\ at'[v] = at[v] /\ pos'[v] = pos[v] /\ v \in Busy
      BY <1>2, <2>3, WorkAlone DEF Alone, Busy
    <3> QED
      BY <1>2, <2>1, <3>1
  <2>4. ASSUME NEW w \in Worker, Work(w), v = w
        PROVE  i < pos'[w] \/ (i = pos'[w] /\ pc'[w] \in Inside)
    <3>1. /\ pc \in [Worker -> Control] /\ pos \in [Worker -> Nat \ {0}] /\ queue \in Seq(Path)
          /\ at \in [Worker -> Path]
      BY DEF IInv, TypeOK
    <3>2. ~TakeTask(w)
      <4>1. TakeTask(w) => at'[w] \in Range(queue)
        BY <3>1, RangeTail DEF TakeTask
      <4> QED
        BY <1>1, <1>2, <2>4, <4>1 DEF Untouched
    <3>3. ~StartFile(w)
      <4>1. StartFile(w) => w \in Busy /\ pc[w] = "start" /\ at'[w] = at[w]
        BY DEF StartFile, Goto, IsAt, Busy
      <4> QED
        BY <1>1, <1>2, <2>4, <4>1 DEF Untouched
    <3>4. ~TaskDone(w) /\ ~TaskNotify(w)
      BY <1>2, <2>4, <3>1 DEF TaskDone, TaskNotify, Goto, Busy
    <3>5. at' = at /\ w \in Busy /\ (i < pos[w] \/ (i = pos[w] /\ pc[w] \in Inside))
      <4>1. at' = at
        BY <2>4, <3>2, <3>3, <3>4 DEF Work, ImportExternal, NotLocated, LocateExisting, LocateNew,
           NextName, CountName, MarkNew, Spawn, ReadCallee, DereferenceNull, EndFile
      <4>2. w \in Busy
        BY <2>4, <3>2, <3>3, <3>4 DEF Work, ImportExternal, NotLocated, LocateExisting, LocateNew,
           NextName, CountName, MarkNew, Spawn, ReadCallee, DereferenceNull, EndFile, Located,
           ToResolve, AtEdge, Goto, IsAt, Busy
      <4> QED
        BY <1>2, <2>1, <2>4, <4>1, <4>2
    <3>6. CASE ImportExternal(w) \/ EndFile(w) \/ LocateNew(w) \/ NotLocated(w) \/ LocateExisting(w)
      <4>1. pc[w] = "parse" /\ pos'[w] \in {pos[w], pos[w] + 1}
        BY <3>1, <3>6 DEF ImportExternal, EndFile, LocateNew, NotLocated, LocateExisting, Located,
                          ToResolve, AtEdge, Goto, IsAt, Advance
      <4> QED
        BY <3>1, <3>5, <4>1
    <3>7. CASE NextName(w) \/ CountName(w) \/ MarkNew(w) \/ DereferenceNull(w)
      BY <3>1, <3>5, <3>7 DEF NextName, CountName, MarkNew, DereferenceNull, Goto, IsAt
    <3>8. CASE Spawn(w) \/ ReadCallee(w)
      <4>1. \/ pos'[w] = pos[w] /\ pc'[w] = "callee"
            \/ pos'[w] = pos[w] + 1 /\ pc'[w] = "parse"
        BY <3>1, <3>8 DEF Spawn, ReadCallee, Goto, IsAt, AfterLocation, Advance
      <4> QED
        BY <3>1, <3>5, <4>1
    <3> QED
      BY <2>4, <3>2, <3>3, <3>4, <3>6, <3>7, <3>8 DEF Work
  <2> QED
    BY <2>2, <2>3, <2>4 DEF Next
<1> QED
  BY <1>1, <1>2 DEF Passed

(* A required module is found by its require() alone.                        *)
LEMMA NextFound ==
  ASSUME RequiredOnce(program), IInv, OInv, FoundByRequire, [Next]_vars
  PROVE  FoundByRequire'
<1>1. program' = program
  BY NextGrows DEF Grows
<1> SUFFICES ASSUME NEW p \in Path, NEW i \in RequiresIn(p), program.deps[p][i].to \in Range(table')
             PROVE  Passed(p, i)'
  BY <1>1 DEF FoundByRequire, RequiresIn
<1>2. /\ i \in DOMAIN program.deps[p] /\ program.deps[p][i].kind = "require" /\ i \in Nat
      /\ program.deps[p][i].to \in Path =>
           /\ program.deps[p][i].to # Entry
           /\ \A q \in Path : \A j \in DOMAIN program.deps[q] :
                program.deps[q][j].to = program.deps[p][i].to => q = p /\ j = i
  BY Positions DEF RequiresIn, RequiredOnce, IInv
<1>3. CASE program.deps[p][i].to \in Range(table)
  BY <1>2, <1>3, PassedStays DEF FoundByRequire
<1>4. CASE Main \/ UNCHANGED vars
  BY <1>3, <1>4, MainLeaves
<1>5. ASSUME NEW w \in Worker, LocateNew(w) PROVE Passed(p, i)'
  <2>1. /\ table' = Append(table, Dep(w).to) /\ table \in Seq(Path) /\ Dep(w).to \in Path
        /\ pos[w] \in DOMAIN program.deps[at[w]] /\ at[w] \in Path /\ pc[w] = "parse"
        /\ UNCHANGED <<at, pos>> /\ pc'[w] \in {"name", "mark"} /\ pc \in [Worker -> Control]
    BY <1>5 DEF LocateNew, Located, ToResolve, AtEdge, IsAt, IInv, TypeOK
  <2>2. CASE program.deps[p][i].to = Dep(w).to
    <3>1. at[w] = p /\ pos[w] = i
      BY <1>2, <2>1, <2>2 DEF Dep
    <3>2. w \in Busy /\ ~Untouched(p) /\ \A v \in Busy : at[v] = p => v = w
      BY <2>1, <3>1, Holds DEF Reading
    <3>3. ~Untouched(p)' /\ Busy' = Busy
      <4>1. Busy' = Busy
        BY <1>5, <2>1 DEF LocateNew, Busy, IInv, TypeOK
      <4> QED
        BY <3>2, <4>1, UntouchedStays
    <3> QED
      BY <2>1, <3>1, <3>2, <3>3 DEF Passed
  <2>3. CASE program.deps[p][i].to # Dep(w).to
    BY <1>3, <2>1, <2>3, RangeAppend
  <2> QED
    BY <2>2, <2>3
<1>6. ASSUME NEW w \in Worker, StartFile(w) PROVE Passed(p, i)'
  <2>1. table' = table \/ (table' = Append(table, Entry) /\ table \in Seq(Path) /\ Entry \in Path)
    BY <1>6, ResolutionAssumption DEF StartFile, IInv, TypeOK
  <2>2. Range(table') \subseteq Range(table) \union {Entry}
    BY <2>1, RangeAppend
  <2> QED
    BY <1>2, <1>3, <2>2, ResolutionAssumption
<1>7. ASSUME NEW w \in Worker, Work(w), ~LocateNew(w), ~StartFile(w) PROVE Passed(p, i)'
  <2>1. table' = table
    BY <1>7 DEF Work, TakeTask, ImportExternal, NotLocated, LocateExisting, NextName, CountName,
                MarkNew, Spawn, ReadCallee, DereferenceNull, EndFile, TaskDone, TaskNotify
  <2> QED
    BY <1>3, <2>1
<1> QED
  BY <1>4, <1>5, <1>6, <1>7 DEF Next

(* A module keeps its flag, and a name if it has one.                        *)
LEMMA NameStays ==
  ASSUME IInv, [Next]_vars, NEW q \in Path, isCJS[q], callName[q] # 0
  PROVE  isCJS'[q] /\ callName'[q] # 0
<1>1. isCJS \in [Path -> BOOLEAN] /\ callName \in [Path -> Nat] /\ seen \in [Worker -> Nat]
  BY DEF IInv, TypeOK
<1>2. CASE Main \/ UNCHANGED vars
  BY <1>2, MainLeaves
<1>3. ASSUME NEW w \in Worker, MarkNew(w) PROVE isCJS'[q] /\ callName'[q] # 0
  BY <1>1, <1>3 DEF MarkNew, NameFrom
<1>4. ASSUME NEW w \in Worker, Work(w), ~MarkNew(w) PROVE UNCHANGED <<isCJS, callName>>
  BY <1>4 DEF Work, TakeTask, StartFile, ImportExternal, NotLocated, LocateExisting, LocateNew,
     NextName, CountName, Spawn, ReadCallee, DereferenceNull, EndFile, TaskDone, TaskNotify, fields
<1> QED
  BY <1>2, <1>3, <1>4 DEF Next

(* A required module is marked and named before its require() is.            *)
LEMMA NextNamedFirst ==
  ASSUME RequiredOnce(program), IInv, OInv, FoundByRequire, NamedFirst, [Next]_vars
  PROVE  NamedFirst'
<1> DEFINE Resolved(w) == pc[w] \in {"spawn", "callee"} /\ Dep(w).kind = "require"
                          /\ program.trace /\ Dep(w).to \in Path
<1>1. program' = program
  BY NextGrows DEF Grows
<1>2. ASSUME NEW v \in Worker, Resolved(v), pc'[v] \in {"spawn", "callee"}, Dep(v)' = Dep(v)
      PROVE  isCJS'[Dep(v).to] /\ callName'[Dep(v).to] # 0
  BY <1>2, NameStays DEF NamedFirst
<1>3. CASE Main \/ UNCHANGED vars
  BY <1>1, <1>2, <1>3, MainLeaves DEF NamedFirst
<1>4. ASSUME NEW w \in Worker, Work(w) PROVE NamedFirst'
  <2>1. ASSUME NEW v \in Worker, v # w, Resolved(v)' PROVE isCJS'[Dep(v)'.to] /\ callName'[Dep(v)'.to] # 0
    <3>1. pc'[v] = pc[v] /\ Dep(v)' = Dep(v)
      BY <1>1, <1>4, <2>1, WorkAlone DEF Alone, Dep
    <3> QED
      BY <1>1, <1>2, <2>1, <3>1
  <2>2. ASSUME Resolved(w)' PROVE isCJS'[Dep(w)'.to] /\ callName'[Dep(w)'.to] # 0
    <3>1. /\ pc \in [Worker -> Control] /\ pos \in [Worker -> Nat \ {0}] /\ seen \in [Worker -> Nat]
          /\ isCJS \in [Path -> BOOLEAN] /\ callName \in [Path -> Nat]
      BY DEF IInv, TypeOK
    <3>2. CASE Spawn(w) \/ DereferenceNull(w)
      <4>1. /\ pc[w] \in {"spawn", "callee"} /\ at' = at
            /\ pos'[w] = pos[w] \/ pc'[w] = "parse"
        BY <3>1, <3>2 DEF Spawn, DereferenceNull, IsAt, AfterLocation, Advance
      <4>2. Dep(w)' = Dep(w)
        BY <1>1, <2>2, <4>1 DEF Dep
      <4> QED
        BY <1>1, <1>2, <2>2, <4>1, <4>2
    <3>3. CASE MarkNew(w)
      <4>1. Dep(w)' = Dep(w)
        BY <1>1, <3>3 DEF MarkNew, Dep
      <4>2. PICK c \in Path : c = Dep(w).to
        BY <2>2, <4>1
      <4>3. /\ isCJS' = [isCJS EXCEPT ![c] = isCJS[c] \/ TRUE]
            /\ callName' = [callName EXCEPT ![c] = seen[w] + 1]
        BY <2>2, <3>3, <4>1, <4>2 DEF MarkNew, NameFrom
      <4>4. isCJS'[c]
        BY <3>1, <4>3, Zenon
      <4>5. callName'[c] # 0
        BY <3>1, <4>3
      <4> QED
        BY <4>1, <4>2, <4>4, <4>5
    <3>4. CASE LocateExisting(w)
      <4>1. /\ pc[w] = "parse" /\ pos[w] \in DOMAIN program.deps[at[w]] /\ at[w] \in Path
            /\ Dep(w).to \in Range(table) /\ w \in Busy /\ pos[w] \in Nat
        BY <3>4 DEF LocateExisting, Located, ToResolve, AtEdge, IsAt, Known, IInv, TypeOK, Busy
      <4>2. Dep(w).kind = "require"
        BY <2>2, <3>1, <3>4 DEF LocateExisting, AfterLocation
      <4>3. Passed(at[w], pos[w])
        BY <4>1, <4>2 DEF FoundByRequire, RequiresIn, Dep
      <4> QED
        BY <4>1, <4>3 DEF Passed
    <3>5. CASE NotLocated(w)
      <4>1. Dep(w).kind = "require"
        BY <2>2, <3>1, <3>5 DEF NotLocated, AfterLocation
      <4>2. UNCHANGED <<at, pos>>
        BY <3>5, <4>1 DEF NotLocated, Advance
      <4> QED
        BY <1>1, <2>2, <3>5, <4>2 DEF NotLocated, Dep
    <3>6. CASE TakeTask(w) \/ StartFile(w) \/ LocateNew(w) \/ NextName(w) \/ CountName(w)
      BY <2>2, <3>1, <3>6 DEF TakeTask, StartFile, LocateNew, NextName, CountName, Goto
    <3>7. CASE ReadCallee(w) \/ EndFile(w) \/ TaskDone(w) \/ TaskNotify(w)
      BY <2>2, <3>1, <3>7 DEF ReadCallee, EndFile, TaskDone, TaskNotify, Goto
    <3>8. CASE ImportExternal(w)
      BY <2>2, <3>8 DEF ImportExternal, AtEdge, IsAt
    <3> QED
      BY <1>4, <3>2, <3>3, <3>4, <3>5, <3>6, <3>7, <3>8 DEF Work
  <2> QED
    BY <2>1, <2>2 DEF NamedFirst
<1> QED
  BY <1>3, <1>4 DEF Next

(* A module keeps its name while the require() that names it is behind.      *)
LEMMA RequiredKept ==
  ASSUME RequiredOnce(program), IInv, NEW w \in Worker, Work(w),
         NEW p \in Path, NEW i \in RequiresIn(p) \intersect LocatedIn(p),
         MarkNew(w) => at[w] # p \/ i < pos[w]
  PROVE  LET t == program.deps[p][i].to IN isCJS'[t] = isCJS[t] /\ callName'[t] = callName[t]
<1> DEFINE t == program.deps[p][i].to
<1>1. t \in Path /\ i \in DOMAIN program.deps[p] /\ i \in Nat /\ pos[w] \in Nat
      /\ isCJS \in [Path -> BOOLEAN] /\ callName \in [Path -> Nat]
  BY Positions DEF LocatedIn, IInv, TypeOK
<1>2. CASE MarkNew(w)
  <2>1. w \in Creating /\ pos[w] \in DOMAIN program.deps[at[w]] /\ at[w] \in Path
    BY <1>2 DEF MarkNew, Goto, IsAt, Creating, IInv, TypeOK, Positioned
  <2>2. Dep(w).to # t
    BY <1>1, <1>2, <2>1 DEF RequiredOnce, RequiresIn, Dep
  <2> HIDE DEF t
  <2>3. /\ isCJS' = [isCJS EXCEPT ![Dep(w).to] = @ \/ Dep(w).kind = "require"]
        /\ \E name : callName' = [callName EXCEPT ![Dep(w).to] = name]
    BY <1>2 DEF MarkNew
  <2>4. isCJS'[t] = isCJS[t]
    BY <1>1, <2>2, <2>3, Zenon
  <2> QED
    BY <1>1, <2>2, <2>3, <2>4 DEF t
<1>3. CASE ~MarkNew(w)
  BY <1>3 DEF Work, TakeTask, StartFile, ImportExternal, NotLocated, LocateExisting, LocateNew,
     NextName, CountName, Spawn, ReadCallee, DereferenceNull, EndFile, TaskDone, TaskNotify, fields
<1> QED
  BY <1>2, <1>3

(* ... and so do the calls of a module that are named already.               *)
LEMMA CallsKept ==
  ASSUME RequiredOnce(program), IInv, NEW w \in Worker, Work(w), program' = program,
         NEW p \in Path, NEW I \in SUBSET (RequiresIn(p) \intersect LocatedIn(p)), NEW s,
         \A i \in I : MarkNew(w) => at[w] # p \/ i < pos[w],
         Calls(s, p, I)
  PROVE  Calls(s, p, I)'
<1>1. \A i \in I : /\ isCJS'[program.deps[p][i].to] = isCJS[program.deps[p][i].to]
                   /\ callName'[program.deps[p][i].to] = callName[program.deps[p][i].to]
  BY RequiredKept
<1> QED
  BY <1>1 DEF Calls

(* What the listener's steps do to the require() calls that are behind.      *)
LEMMA CalledKept ==
  ASSUME IInv, NEW w \in Worker,
         \/ ImportExternal(w) \/ NotLocated(w) \/ LocateExisting(w) \/ LocateNew(w) \/ NextName(w)
         \/ CountName(w) \/ MarkNew(w) \/ Spawn(w) \/ DereferenceNull(w)
  PROVE  at' = at /\ pc[w] \in Reading /\ Called(w)' = Called(w)
<1> PICK p, n : p = at[w] /\ n = pos[w]
  OBVIOUS
<1>1. UNCHANGED <<program, at>>
  BY DEF ImportExternal, NotLocated, LocateExisting, LocateNew, NextName, CountName, MarkNew,
         Spawn, DereferenceNull
<1>2. /\ p \in Path /\ n \in Nat /\ pos \in [Worker -> Nat \ {0}]
      /\ RequiresIn(p) \subseteq Nat /\ RequiresIn(p)' = RequiresIn(p)
  BY <1>1, Positions DEF IInv, TypeOK, RequiresIn
<1>3. pc[w] \in Reading
  BY DEF ImportExternal, NotLocated, LocateExisting, LocateNew, NextName, CountName, MarkNew, Spawn,
         DereferenceNull, Located, ToResolve, AtEdge, IsAt, Goto, Reading
<1>4. pos'[w] = n \/ (pos'[w] = n + 1 /\ n \notin RequiresIn(p))
  <2>1. CASE ImportExternal(w)
    BY <1>2, <2>1 DEF ImportExternal, RequiresIn, Dep
  <2>2. CASE NotLocated(w) \/ LocateExisting(w) \/ Spawn(w)
    BY <1>2, <2>2 DEF NotLocated, LocateExisting, Spawn, Advance, RequiresIn, Dep
  <2>3. CASE LocateNew(w) \/ NextName(w) \/ CountName(w) \/ MarkNew(w) \/ DereferenceNull(w)
    BY <2>3 DEF LocateNew, NextName, CountName, MarkNew, DereferenceNull
  <2> QED
    BY <2>1, <2>2, <2>3
<1>5. \A i \in RequiresIn(p) : i < pos'[w] <=> i < n
  BY <1>2, <1>4
<1>6. /\ Called(w)' = {i \in RequiresIn(p) : i < pos'[w]}
      /\ Called(w) = {i \in RequiresIn(p) : i < n}
  BY <1>1, <1>2 DEF Called
<1> QED
  BY <1>1, <1>3, <1>5, <1>6

(* Each require() that is passed has been given its module's name.           *)
LEMMA NextCalls ==
  ASSUME RequiredOnce(program), IInv, OInv, Progress, Blank, NamedFirst, CallsSoFar, [Next]_vars
  PROVE  CallsSoFar'
<1>1. program' = program
  BY NextGrows DEF Grows
<1>2. CASE Main \/ UNCHANGED vars
  <2>1. UNCHANGED <<program, isCJS, callName, callees, pc, at, pos>>
    BY <1>2, MainLeaves
  <2>2. \A v \in Worker : Called(v)' = Called(v) /\ LocatedIn(at[v])' = LocatedIn(at[v])
    BY <2>1 DEF Called, RequiresIn, LocatedIn
  <2> QED
    BY <2>1, <2>2 DEF CallsSoFar, Calls
<1>3. ASSUME NEW w \in Worker, Work(w) PROVE CallsSoFar'
  <2>1. ASSUME NEW v \in Worker, pc[v] \in Reading, pc'[v] \in Reading, at'[v] = at[v],
               callees'[at[v]] = callees[at[v]], Called(v)' = Called(v)
        PROVE  (Called(v) \subseteq LocatedIn(at[v]))' /\ Calls(callees[at[v]], at[v], Called(v))'
    <3> PICK p, s, I : p = at[v] /\ s = callees[p] /\ I = Called(v)
      OBVIOUS
    <3>1. /\ p \in Path /\ I \subseteq LocatedIn(p) /\ Calls(s, p, I) /\ I \subseteq RequiresIn(p)
          /\ \A i \in I : i < pos[v]
      BY <2>1 DEF CallsSoFar, Called, IInv, TypeOK
    <3>2. \A i \in I : MarkNew(w) => at[w] # p \/ i < pos[w]
      <4>1. MarkNew(w) => w \in Busy
        BY DEF MarkNew, Goto, IsAt, Busy
      <4> QED
        BY <2>1, <3>1, <4>1, Holds
    <3>3. Calls(s, p, I)'
      BY <1>1, <1>3, <3>1, <3>2, CallsKept
    <3>4. LocatedIn(p)' = LocatedIn(p)
      BY <1>1 DEF LocatedIn
    <3> QED
      BY <1>1, <2>1, <3>1, <3>3, <3>4 DEF Calls
  <2>2. ASSUME NEW v \in Worker, v # w, pc'[v] \in Reading
        PROVE  (Called(v) \subseteq LocatedIn(at[v]))' /\ Calls(callees[at[v]], at[v], Called(v))'
    BY <1>3, <2>1, <2>2, OthersRead
  <2>3. ASSUME pc'[w] \in Reading
        PROVE  (Called(w) \subseteq LocatedIn(at[w]))' /\ Calls(callees[at[w]], at[w], Called(w))'
    <3> PICK p, n, s, I : p = at[w] /\ n = pos[w] /\ s = callees[p] /\ I = Called(w)
      OBVIOUS
    <3>1. /\ p \in Path /\ callees \in [Path -> Seq(Nat)] /\ n \in Nat
          /\ pc \in [Worker -> Control] /\ pos \in [Worker -> Nat \ {0}] /\ callName \in [Path -> Nat]
          /\ RequiresIn(p) \subseteq Nat /\ LocatedIn(p)' = LocatedIn(p) /\ RequiresIn(p)' = RequiresIn(p)
      BY <1>1, Positions DEF IInv, TypeOK, RequiresIn, LocatedIn
    <3>2. CASE \/ ImportExternal(w) \/ NotLocated(w) \/ LocateExisting(w) \/ LocateNew(w)
               \/ NextName(w) \/ CountName(w) \/ MarkNew(w) \/ Spawn(w) \/ DereferenceNull(w)
      <4>1. at' = at /\ pc[w] \in Reading /\ Called(w)' = Called(w)
        BY <3>2, CalledKept
      <4>2. callees' = callees
        BY <3>2 DEF ImportExternal, NotLocated, LocateExisting, LocateNew, NextName, CountName,
                    MarkNew, Spawn, DereferenceNull, fields
      <4> QED
        BY <2>1, <2>3, <4>1, <4>2
    <3>3. CASE ReadCallee(w)
      <4>1. /\ pc[w] = "callee" /\ pos'[w] = n + 1 /\ UNCHANGED <<at, isCJS, callName>>
            /\ program.trace /\ Dep(w).to \in Path /\ n \in DOMAIN program.deps[p]
            /\ callees' = [callees EXCEPT ![p] = Append(s, callName[Dep(w).to])]
        BY <3>1, <3>3 DEF ReadCallee, Goto, IsAt, IInv, Positioned
      <4>2. Dep(w).kind = "require" /\ isCJS[Dep(w).to] /\ callName[Dep(w).to] # 0
        BY <4>1 DEF Progress, Come, NamedFirst
      <4>3. n \in RequiresIn(p) /\ n \in LocatedIn(p)
        BY <4>1, <4>2 DEF RequiresIn, LocatedIn, Dep
      <4>4. /\ I = {i \in RequiresIn(p) : i < n} /\ I \subseteq LocatedIn(p) /\ Calls(s, p, I)
        BY <4>1 DEF Called, CallsSoFar, Reading
      <4>5. Called(w)' = I \union {n}
        <5>1. Called(w)' = {i \in RequiresIn(p) : i < n + 1}
          BY <3>1, <4>1 DEF Called
        <5>2. \A i \in RequiresIn(p) : i < n + 1 <=> i < n \/ i = n
          BY <3>1
        <5> QED
          BY <4>3, <4>4, <5>1, <5>2
      <4>6. I \in SUBSET Nat /\ IsFiniteSet(I) /\ \A i \in I : i < n
        BY <3>1, <4>4, Positions DEF RequiresIn, IInv
      <4>7. Calls(Append(s, callName[Dep(w).to]), p, I \union {n})
        <5>1. s \in Seq(Nat) /\ callName[Dep(w).to] \in Nat
          BY <3>1, <4>1
        <5> QED
          BY <3>1, <4>2, <4>4, <4>6, <5>1, CallsAppend DEF Dep
      <4>8. callees'[p] = Append(s, callName[Dep(w).to]) /\ at'[w] = p
        BY <3>1, <4>1
      <4>9. Calls(callees[at[w]], at[w], Called(w))'
        <5> PICK a, J : a = Append(s, callName[Dep(w).to]) /\ J = I \union {n}
          OBVIOUS
        <5>1. callees'[at'[w]] = a /\ at'[w] = p /\ Called(w)' = J /\ Calls(a, p, J)
          BY <4>5, <4>7, <4>8
        <5>2. UNCHANGED <<program, isCJS, callName>>
          BY <1>1, <4>1
        <5> QED
          BY <5>1, <5>2 DEF Calls
      <4> QED
        BY <3>1, <4>3, <4>4, <4>5, <4>8, <4>9
    <3>4. CASE StartFile(w)
      <4>1. pc[w] = "start" /\ w \in Busy /\ callees' = callees /\ at' = at /\ pos'[w] = 1
        BY <3>1, <3>4 DEF StartFile, Goto, IsAt, fields, Busy
      <4>2. callees[p] = <<>>
        BY <3>1, <4>1 DEF Blank, Untouched
      <4>3. Called(w)' = {}
        <5>1. \A i \in RequiresIn(p) : ~(i < 1)
          <6>1. program.deps[p] \in Seq(Edge)
            BY <3>1, Positions DEF IInv
          <6> QED
            BY <6>1 DEF RequiresIn
        <5> QED
          BY <3>1, <4>1, <5>1 DEF Called
      <4>4. Calls(<<>>, p, {})
        BY EmptyLists
      <4> QED
        BY <1>1, <4>1, <4>2, <4>3, <4>4 DEF Calls
    <3>5. CASE TakeTask(w) \/ EndFile(w) \/ TaskDone(w) \/ TaskNotify(w)
      BY <2>3, <3>1, <3>5 DEF TakeTask, EndFile, TaskDone, TaskNotify, Goto, Reading
    <3> QED
      BY <1>3, <3>2, <3>3, <3>4, <3>5 DEF Work
  <2> QED
    BY <2>2, <2>3 DEF CallsSoFar
<1> QED
  BY <1>2, <1>3 DEF Next

(* When its parser has come to the end, every call of a module has its name. *)
LEMMA NextBound ==
  ASSUME RequiredOnce(program), IInv, OInv, CallsSoFar, RequiresLocated, RequiresAreBound, [Next]_vars
  PROVE  RequiresLocated' /\ RequiresAreBound'
<1>1. program' = program
  BY NextGrows DEF Grows
<1>2. CASE Main \/ UNCHANGED vars
  <2>1. UNCHANGED <<program, parsed, isCJS, callName, callees>>
    BY <1>2, MainLeaves
  <2>2. \A p \in parsed : RequiresIn(p)' = RequiresIn(p) /\ LocatedIn(p)' = LocatedIn(p)
    BY <2>1 DEF RequiresIn, LocatedIn
  <2> QED
    BY <2>1, <2>2 DEF RequiresLocated, RequiresAreBound, Calls
<1>3. ASSUME NEW w \in Worker, Work(w), NEW p \in parsed'
      PROVE  (RequiresIn(p) \subseteq LocatedIn(p))' /\ Calls(callees[p], p, RequiresIn(p))'
  <2> PICK s, I : s = callees[p] /\ I = RequiresIn(p)
    OBVIOUS
  <2>1. p \in parsed \/ (EndFile(w) /\ p = at[w])
    BY <1>3 DEF Work, TakeTask, StartFile, ImportExternal, NotLocated, LocateExisting, LocateNew,
       NextName, CountName, MarkNew, Spawn, ReadCallee, DereferenceNull, EndFile, TaskDone,
       TaskNotify, fields
  <2>2. CASE EndFile(w) /\ p = at[w]
    <3>1. /\ pc[w] = "parse" /\ pos[w] \notin DOMAIN program.deps[p] /\ pos[w] \in Nat \ {0}
          /\ program.deps[p] \in Seq(Edge) /\ UNCHANGED <<callees, isCJS, callName>>
      BY <2>2, Positions DEF EndFile, Goto, IsAt, IInv, TypeOK
    <3>2. \A i \in DOMAIN program.deps[p] : i < pos[w]
      BY <3>1
    <3>3. Called(w) = I
      BY <2>2, <3>1, <3>2 DEF Called, RequiresIn
    <3>4. I \subseteq LocatedIn(p) /\ Calls(s, p, I)
      BY <2>2, <3>1, <3>3 DEF CallsSoFar, Reading
    <3>5. RequiresIn(p)' = I /\ LocatedIn(p)' = LocatedIn(p)
      BY <1>1 DEF RequiresIn, LocatedIn
    <3> QED
      BY <1>1, <3>1, <3>4, <3>5 DEF Calls
  <2>3. CASE p \in parsed
    <3>1. p \in Path /\ I \subseteq LocatedIn(p) /\ Calls(s, p, I)
      BY <2>3 DEF RequiresLocated, RequiresAreBound, IInv, TypeOK
    <3>2. pc[w] \in Reading => at[w] # p
      BY <2>3, Holds
    <3>3. callees'[p] = s
      <4>1. callees \in [Path -> Seq(Nat)]
        BY DEF IInv, TypeOK
      <4> QED
        BY <1>3, <3>1, <3>2, <4>1, Writes, WritesOwn
    <3>4. MarkNew(w) => at[w] # p
      BY <3>2 DEF MarkNew, Goto, IsAt, Reading
    <3>5. Calls(s, p, I)'
      BY <1>1, <1>3, <3>1, <3>4, CallsKept
    <3>6. RequiresIn(p)' = I /\ LocatedIn(p)' = LocatedIn(p)
      BY <1>1 DEF RequiresIn, LocatedIn
    <3> QED
      BY <3>1, <3>3, <3>5, <3>6 DEF Calls
  <2> QED
    BY <2>1, <2>2, <2>3
<1> QED
  BY <1>2, <1>3 DEF Next, RequiresLocated, RequiresAreBound

(* At first there are no calls.                                              *)
LEMMA InitBInv == Init => BInv
<1> SUFFICES ASSUME Init PROVE BInv
  OBVIOUS
<1>1. Range(table) = {}
  BY DEF Init, Range
<1> QED
  BY <1>1 DEF Init, BInv, FoundByRequire, NamedFirst, CallsSoFar, RequiresLocated, RequiresAreBound,
              Reading

(* With the lock of ReadableNameGenerator no two CommonJS modules are given  *)
(* one call name.                                                           *)
THEOREM NamesDistinct == Spec => [](NextLocks => CallNamesDistinct)
<1>1. IInv /\ OInv /\ DInv /\ (NextLocks => NInv) /\ [Next]_vars => (NextLocks => NInv)'
  <2>1. IInv /\ [Next]_vars => (NextLocks' <=> NextLocks)
    BY NextGrows DEF Grows, NextLocks
  <2> QED
    BY <2>1, NextNInv DEF DInv
<1>2. Spec => []OInv
  BY InitOInv, NextOInv, Invariance, PTL DEF Spec
<1>3. Spec => []DInv
  BY <1>2, InitDInv, NextDInv, Invariance, PTL DEF Spec
<1>4. (NextLocks => NInv) => (NextLocks => CallNamesDistinct)
  BY DEF NInv
<1> QED
  BY <1>1, <1>2, <1>3, <1>4, InitNInv, Invariance, PTL DEF Spec

(* Where each required module is required from one place, every require()    *)
(* call of a parsed module has the name its module is declared under.        *)
THEOREM CallsBound == Spec => [](RequiredOnce(program) => RequiresAreBound)
<1> DEFINE Once == RequiredOnce(program)
<1>1. IInv /\ [Next]_vars => (Once' <=> Once)
  BY NextGrows DEF Grows, RequiredOnce
<1>2. IInv /\ OInv /\ DInv /\ SInv /\ (Once => BInv) /\ [Next]_vars => (Once => BInv)'
  BY <1>1, NextFound, NextNamedFirst, NextCalls, NextBound DEF BInv, DInv, SInv
<1>3. IInv /\ OInv /\ DInv /\ SInv /\ [Next]_vars => SInv'
  BY NextBlank, NextRefs, NextInOrder DEF SInv, DInv
<1>4. Spec => []OInv
  BY InitOInv, NextOInv, Invariance, PTL DEF Spec
<1>5. Spec => []DInv
  BY <1>4, InitDInv, NextDInv, Invariance, PTL DEF Spec
<1>6. Spec => []SInv
  BY <1>3, <1>4, <1>5, InitSInv, Invariance, PTL DEF Spec
<1>7. (Once => BInv) => (Once => RequiresAreBound)
  BY DEF BInv
<1> QED
  BY <1>2, <1>4, <1>5, <1>6, <1>7, InitBInv, Invariance, PTL DEF Spec

(* A require() call has the name of the module it means, and, with the       *)
(* generator's lock, no other module is declared under it.                   *)
THEOREM NamesAgree == Spec => []CallNamesAgree
<1>1. (RequiredOnce(program) => RequiresAreBound) /\ (NextLocks => CallNamesDistinct) => CallNamesAgree
  BY DEF CallNamesAgree, NextLocks
<1> QED
  BY <1>1, CallsBound, NamesDistinct, PTL

=============================================================================
