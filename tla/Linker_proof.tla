----------------------------- MODULE Linker_proof -----------------------------
(***************************************************************************)
(* Proofs about linking, for any programs, modules and alphabets of names:  *)
(* every step leads on to the end, no two declarations of the bundle's one  *)
(* scope get a name in common, and no scope between an identifier and the   *)
(* variable of its module it stands for, or the global, is given its name.  *)
(***************************************************************************)
EXTENDS LinkedProgram, NameGenerator_proof

-----------------------------------------------------------------------------
(* What the steps of linking keep in order: where it is, which modules it has *)
(* walked over, which generators it has, and that no scope has infinitely     *)
(* many variables to name.                                                    *)
StageNames == {"collect", "inner", "externals", "roots", "imports", "done", "failed"}
CInv ==
  /\ prog \in Programs
  /\ stage \in StageNames
  /\ stack \in Seq(Modules) /\ visited \subseteq Modules
  /\ counters \in [Inner -> Nat \union {NotYet}]
  /\ stage \in {"collect", "inner"} =>
       \E n, o, l, x :
         /\ sym = [name |-> n, own |-> o, local |-> l, index |-> x]
         /\ \A s \in Inner : s \in DOMAIN o /\ IsFiniteSet(o[s])

(* The image of a finite set is finite. *)
LEMMA FiniteImage ==
  ASSUME NEW S, IsFiniteSet(S), NEW f, DOMAIN f = S
  PROVE  IsFiniteSet({f[x] : x \in S}) /\ Cardinality({f[x] : x \in S}) <= Cardinality(S)
<1>1. PICK T : T = {f[x] : x \in S}
  OBVIOUS
<1> DEFINE g == [x \in S |-> f[x]]
<1>2. g \in Surjection(S, T)
  BY <1>1 DEF Surjection
<1> HIDE DEF g
<1>3. IsFiniteSet(T) /\ Cardinality(T) <= Cardinality(S)
  BY <1>2, FS_Surjection
<1> QED
  BY <1>1, <1>3

(* The generator an inner scope starts from is one, whatever its children. *)
LEMMA ChildGeneratorIs ==
  ASSUME CInv, NEW s \in Inner, \A t \in Children(s) : counters[t] # NotYet
  PROVE  IsGen(ChildGenerator(s))
<1>1. IsFiniteSet(Children(s)) /\ Children(s) \subseteq Inner
  BY LinkerAssumption, FS_Subset DEF Children
<1>2. PICK f : f = [t \in Children(s) |-> counters[t]]
  OBVIOUS
<1>3. PICK T : T = {f[t] : t \in Children(s)}
  OBVIOUS
<1>4. IsFiniteSet(T)
  BY <1>1, <1>2, <1>3, FiniteImage
<1>5. T = {counters[t] : t \in Children(s)} /\ T \subseteq Nat
  BY <1>1, <1>2, <1>3 DEF CInv
<1>6. PICK U : U = {0} \union T
  OBVIOUS
<1>7. U \in SUBSET Nat /\ U # {} /\ IsFiniteSet(U)
  <2>1. IsFiniteSet(T \union {0})
    BY <1>4, FS_AddElement
  <2>2. U = T \union {0}
    BY <1>6
  <2> QED
    BY <1>5, <1>6, <2>1, <2>2, SMTT(30)
<1>8. Max(U) \in Nat
  BY <1>7, Greatest
<1>9. ChildGenerator(s) = [minify |-> TRUE, used |-> {}, counter |-> Max(U)]
  BY <1>5, <1>6 DEF ChildGenerator, Merge
<1>10. IsFiniteSet({})
  BY FS_EmptySet
<1> QED
  BY <1>8, <1>9, <1>10 DEF IsGen

(* An order of a finite set is as long as the set is large. *)
LEMMA OrderOf ==
  ASSUME NEW S, IsFiniteSet(S), NEW order \in SetToSeqs(S), NEW T
  PROVE  /\ Len(Wanted(T, order)) \in Nat /\ Len(Wanted(T, order)) = Cardinality(S)
         /\ DOMAIN order = 1 .. Cardinality(S)
<1>1. PICK n : n = Cardinality(S)
  OBVIOUS
<1>2. n \in Nat /\ order \in [1 .. n -> S]
  BY <1>1, FS_CardinalityType DEF SetToSeqs
<1>3. PICK w : w = Wanted(T, order)
  OBVIOUS
<1>4. DOMAIN w = 1 .. n /\ w = [i \in 1 .. n |-> w[i]]
  BY <1>2, <1>3 DEF Wanted
<1>5. PICK X : X = {w[i] : i \in 1 .. n}
  OBVIOUS
<1>6. w \in [1 .. n -> X]
  BY <1>4, <1>5
<1>7. w \in Seq(X)
  BY <1>2, <1>6
<1>8. Len(w) = n
  BY <1>2, <1>4, <1>7
<1> QED
  BY <1>1, <1>2, <1>3, <1>8

(* Naming the variables of an inner scope. *)
LEMMA RenameInnerDoes ==
  ASSUME CInv, NEW s \in Inner, RenameInner(s)
  PROVE  /\ CInv' /\ counters[s] = NotYet /\ counters'[s] # NotYet
         /\ counters' = [counters EXCEPT ![s] = counters'[s]]
<1>1. PICK n, o, l, x :
        /\ sym = [name |-> n, own |-> o, local |-> l, index |-> x]
        /\ \A t \in Inner : t \in DOMAIN o /\ IsFiniteSet(o[t])
  BY DEF CInv, RenameInner
<1>2. PICK order \in SetToSeqs(sym.own[s]) :
        LET r == NextNames(ChildGenerator(s), Wanted(sym, order))
        IN  /\ sym' = RenameIn(sym, s, Changes(sym, order, r.names))
            /\ counters' = [counters EXCEPT ![s] = r.gen.counter]
  BY DEF RenameInner
<1>3. PICK g, w : g = ChildGenerator(s) /\ w = Wanted(sym, order)
  OBVIOUS
<1>4. IsGen(g) /\ Len(w) \in Nat
  <2>1. IsGen(g)
    BY <1>3, ChildGeneratorIs DEF RenameInner
  <2>2. IsFiniteSet(sym.own[s])
    BY <1>1
  <2> QED
    BY <1>2, <1>3, <2>1, <2>2, OrderOf
<1>5. PICK c : c = NextNames(g, w).gen.counter
  OBVIOUS
<1>6. c \in Nat
  <2>1. IsGen(NextNames(g, w).gen)
    BY <1>4, NextNamesKeep
  <2> QED
    BY <1>5, <2>1 DEF IsGen
<1>7. counters' = [counters EXCEPT ![s] = c]
  BY <1>2, <1>3, <1>5
<1>8. c # NotYet
  BY <1>6 DEF NotYet
<1>9. PICK ren : ren = Changes(sym, order, NextNames(g, w).names)
  OBVIOUS
<1>10. sym' = RenameIn(sym, s, ren)
  BY <1>2, <1>3, <1>9
<1>11. \E nn, oo, ll, xx :
         /\ sym' = [name |-> nn, own |-> oo, local |-> ll, index |-> xx]
         /\ \A t \in Inner : t \in DOMAIN oo /\ IsFiniteSet(oo[t])
  <2>1. PICK nn : nn = [v \in DOMAIN n |-> IF v \in Moved(sym, s, ren) THEN ren[n[v]] ELSE n[v]]
    OBVIOUS
  <2>2. PICK oo : oo = [o EXCEPT ![s] = o[s] \ Lost(sym, s, ren)]
    OBVIOUS
  <2>3. sym' = [name |-> nn, own |-> oo, local |-> l, index |-> x]
    BY <1>1, <1>10, <2>1, <2>2 DEF RenameIn
  <2>4. IsFiniteSet(o[s] \ Lost(sym, s, ren))
    <3>1. IsFiniteSet(o[s])
      BY <1>1
    <3> QED
      BY <3>1, FS_Subset
  <2>5. \A t \in Inner : t \in DOMAIN oo /\ IsFiniteSet(oo[t])
    BY <1>1, <2>2, <2>4
  <2> QED
    BY <2>3, <2>5
<1>12. /\ counters \in [Inner -> Nat \union {NotYet}] /\ counters[s] = NotYet
       /\ UNCHANGED <<prog, stage, stack, visited>>
  BY DEF CInv, RenameInner
<1>13. counters' \in [Inner -> Nat \union {NotYet}] /\ counters'[s] = c
  BY <1>6, <1>7, <1>12
<1> QED
  BY <1>7, <1>8, <1>11, <1>12, <1>13 DEF CInv

(* What a module refers to among the modules is a module. *)
LEMMA TopIs ==
  ASSUME CInv, stack # <<>>
  PROVE  /\ Last(stack) \in Modules /\ Len(stack) \in Nat \ {0}
         /\ Popped(stack) \in Seq(Modules) /\ Len(Popped(stack)) = Len(stack) - 1
<1>1. stack \in Seq(Modules) /\ Len(stack) \in Nat \ {0}
  BY DEF CInv
<1>2. Last(stack) \in Modules
  BY <1>1 DEF Last
<1>3. Front(stack) \in Seq(Modules) /\ Len(Front(stack)) = Len(stack) - 1
  <2>1. PICK n : n = Len(stack) - 1
    OBVIOUS
  <2>2. n \in Nat /\ n < Len(stack)
    BY <1>1, <2>1
  <2>3. Front(stack) = [i \in 1 .. n |-> stack[i]]
    BY <1>1, <2>1 DEF Front
  <2>4. \A i \in 1 .. n : stack[i] \in Modules
    BY <1>1, <2>2
  <2> QED
    BY <2>1, <2>2, <2>3, <2>4
<1> QED
  BY <1>1, <1>2, <1>3 DEF Popped

(* Every step keeps them. *)
LEMMA CStep == CInv /\ [Next]_vars => CInv'
<1> SUFFICES ASSUME CInv, [Next]_vars PROVE CInv'
  OBVIOUS
<1>1. CASE CollectExports
  BY <1>1 DEF CollectExports, CInv, StageNames
<1>2. ASSUME NEW s \in Inner, RenameInner(s) PROVE CInv'
  BY <1>2, RenameInnerDoes
<1>3. CASE MergeGenerators
  BY <1>3 DEF MergeGenerators, CInv, StageNames
<1>4. CASE GenAst
  <2>1. /\ stage' = "roots" /\ stack' = <<Entry>> /\ visited' = {Entry}
        /\ UNCHANGED <<prog, sym, counters>>
    BY <1>4 DEF GenAst
  <2> QED
    BY <2>1, LinkerAssumption DEF CInv, StageNames
<1>5. CASE Descend
  <2>1. PICK c \in Modules : stack' = Append(stack, c) /\ visited' = visited \union {c}
    BY <1>5 DEF Descend, Marks
  <2>2. UNCHANGED <<prog, stage, sym, counters>>
    BY <1>5 DEF Descend
  <2>3. stack' \in Seq(Modules) /\ visited' \subseteq Modules
    BY <2>1 DEF CInv
  <2> QED
    BY <2>2, <2>3 DEF CInv
<1>6. CASE RenameRoot
  <2>1. stack' = Popped(stack) /\ stack # <<>> /\ UNCHANGED <<prog, stage, visited, counters>>
        /\ stage = "roots"
    BY <1>6 DEF RenameRoot
  <2> QED
    BY <2>1, TopIs DEF CInv, StageNames
<1>7. CASE RootsRenamed
  <2>1. /\ stage' = "imports" /\ stack' = <<Entry>> /\ visited' = {Entry}
        /\ UNCHANGED <<prog, sym, counters>>
    BY <1>7 DEF RootsRenamed
  <2> QED
    BY <2>1, LinkerAssumption DEF CInv, StageNames
<1>8. CASE ReplaceImports
  <2>1. /\ stack # <<>> /\ stage = "imports" /\ UNCHANGED <<prog, visited, counters>>
        /\ (stack' = Popped(stack) /\ stage' = stage) \/ (stack' = <<>> /\ stage' = "failed")
    BY <1>8 DEF ReplaceImports
  <2>2. stack' \in Seq(Modules) /\ stage' \in StageNames /\ stage' \notin {"collect", "inner"}
    <3>1. CASE stack' = Popped(stack) /\ stage' = stage
      BY <2>1, <3>1, TopIs DEF StageNames
    <3>2. CASE stack' = <<>> /\ stage' = "failed"
      <4>1. <<>> \in Seq(Modules)
        OBVIOUS
      <4> QED
        BY <3>2, <4>1 DEF StageNames
    <3> QED
      BY <2>1, <3>1, <3>2
  <2> QED
    BY <2>1, <2>2 DEF CInv
<1>9. CASE Finish
  BY <1>9 DEF Finish, CInv, StageNames
<1>10. CASE UNCHANGED vars
  BY <1>10 DEF vars, CInv
<1> QED
  BY <1>1, <1>2, <1>3, <1>4, <1>5, <1>6, <1>7, <1>8, <1>9, <1>10 DEF Next, Stop

(* They hold at the start. *)
LEMMA CInit == Init => CInv
<1> SUFFICES ASSUME Init PROVE CInv
  OBVIOUS
<1>1. prog \in Programs /\ sym = SymbolsOf(prog) /\ IsProgram(prog)
  BY LinkerAssumption DEF Init
<1>2. PICK o : o = [s \in Scopes |-> {<<s, n>> : n \in prog.owns[s]}]
  OBVIOUS
<1>3. \A s \in Inner : s \in DOMAIN o /\ IsFiniteSet(o[s])
  <2> SUFFICES ASSUME NEW s \in Inner PROVE s \in DOMAIN o /\ IsFiniteSet(o[s])
    OBVIOUS
  <2>1. s \in Scopes
    BY DEF Scopes
  <2>2. IsFiniteSet(prog.owns[s])
    <3>1. prog.owns[s] \subseteq Names
      BY <1>1, <2>1 DEF IsProgram
    <3> QED
      BY <3>1, LinkerAssumption, FS_Subset
  <2>3. PICK S, f : S = prog.owns[s] /\ f = [n \in S |-> <<s, n>>]
    OBVIOUS
  <2>4. IsFiniteSet(S) /\ DOMAIN f = S
    BY <2>2, <2>3
  <2>5. IsFiniteSet({f[n] : n \in S})
    BY <2>4, FiniteImage
  <2>6. {f[n] : n \in S} = o[s]
    BY <1>2, <2>1, <2>3
  <2> QED
    BY <1>2, <2>1, <2>5, <2>6
<1>4. \E n, oo, l, x :
        /\ sym = [name |-> n, own |-> oo, local |-> l, index |-> x]
        /\ \A s \in Inner : s \in DOMAIN oo /\ IsFiniteSet(oo[s])
  BY <1>1, <1>2, <1>3 DEF SymbolsOf
<1>5. /\ stage = "collect" /\ counters = [s \in Inner |-> NotYet]
      /\ stack = <<>> /\ visited = {}
  BY DEF Init
<1>6. stack \in Seq(Modules) /\ visited \subseteq Modules /\ stage \in StageNames
  BY <1>5 DEF StageNames
<1>7. counters \in [Inner -> Nat \union {NotYet}]
  BY <1>5
<1> QED
  BY <1>1, <1>4, <1>5, <1>6, <1>7 DEF CInv

(* The walks keep to the modules, a walk has marked what it stands on, no     *)
(* inner scope is named twice, and linking always has a stage to be at.       *)
THEOREM Control == Spec => []CInv
<1>1. Init => CInv
  BY CInit
<1>2. CInv /\ [Next]_vars => CInv'
  BY CStep
<1> QED
  BY <1>1, <1>2, PTL DEF Spec

-----------------------------------------------------------------------------
(* Remaining, taken apart.                                                  *)
Stages == <<"failed", "done", "imports", "roots", "externals", "inner", "collect">>
Rank(s) == CHOOSE k \in DOMAIN Stages : Stages[k] = s
Most == 2 * Cardinality(Modules) + Cardinality(Inner) + 1
Unmarked == Cardinality(Modules \ visited)
Waiting == Cardinality({s \in Inner : counters[s] = NotYet})

(* The number of each stage.                                                *)
LEMMA Ranks ==
  /\ Rank("failed") = 1 /\ Rank("done") = 2 /\ Rank("imports") = 3 /\ Rank("roots") = 4
  /\ Rank("externals") = 5 /\ Rank("inner") = 6 /\ Rank("collect") = 7
<1>1. DOMAIN Stages = 1 .. 7
  BY DEF Stages
<1>2. \A k \in 1 .. 7 : Rank(Stages[k]) = k
  <2> SUFFICES ASSUME NEW k \in 1 .. 7 PROVE Rank(Stages[k]) = k
    OBVIOUS
  <2>1. \A j \in 1 .. 7 : Stages[j] = Stages[k] => j = k
    BY DEF Stages
  <2> QED
    BY <1>1, <2>1 DEF Rank
<1>3. /\ Stages[1] = "failed" /\ Stages[2] = "done" /\ Stages[3] = "imports"
      /\ Stages[4] = "roots" /\ Stages[5] = "externals" /\ Stages[6] = "inner"
      /\ Stages[7] = "collect"
  BY DEF Stages
<1>4. /\ Rank(Stages[1]) = 1 /\ Rank(Stages[2]) = 2 /\ Rank(Stages[3]) = 3 /\ Rank(Stages[4]) = 4
      /\ Rank(Stages[5]) = 5 /\ Rank(Stages[6]) = 6 /\ Rank(Stages[7]) = 7
  BY <1>2
<1> QED
  BY <1>3, <1>4

(* The parts are numbers.                                                    *)
LEMMA Parts ==
  /\ Cardinality(Modules) \in Nat /\ Cardinality(Inner) \in Nat
  /\ \A V : Cardinality(Modules \ V) \in 0 .. Cardinality(Modules)
  /\ \A c : Cardinality({s \in Inner : c[s] = NotYet}) \in 0 .. Cardinality(Inner)
<1>1. IsFiniteSet(Modules) /\ IsFiniteSet(Inner)
  BY LinkerAssumption
<1>2. Cardinality(Modules) \in Nat /\ Cardinality(Inner) \in Nat
  BY <1>1, FS_CardinalityType
<1>3. \A V : Cardinality(Modules \ V) \in 0 .. Cardinality(Modules)
  <2> SUFFICES ASSUME NEW V PROVE Cardinality(Modules \ V) \in 0 .. Cardinality(Modules)
    OBVIOUS
  <2>1. IsFiniteSet(Modules \ V) /\ Cardinality(Modules \ V) <= Cardinality(Modules)
    BY <1>1, FS_Subset
  <2> QED
    BY <1>2, <2>1, FS_CardinalityType
<1>4. \A c : Cardinality({s \in Inner : c[s] = NotYet}) \in 0 .. Cardinality(Inner)
  <2> SUFFICES ASSUME NEW c
               PROVE  Cardinality({s \in Inner : c[s] = NotYet}) \in 0 .. Cardinality(Inner)
    OBVIOUS
  <2>1. PICK P : P = {s \in Inner : c[s] = NotYet}
    OBVIOUS
  <2>2. IsFiniteSet(P) /\ Cardinality(P) <= Cardinality(Inner)
    BY <1>1, <2>1, FS_Subset
  <2> QED
    BY <1>2, <2>1, <2>2, FS_CardinalityType
<1> QED
  BY <1>2, <1>3, <1>4

(* One step within a stage leaves less of one of the parts; a step to a later *)
(* stage may leave more of them, and less than a stage is worth.             *)
LEMMA LessIsLeft ==
  ASSUME CInv, CInv',
         \/ /\ stage' = stage
            /\ 2 * Unmarked' + Len(stack') + Waiting' = 2 * Unmarked + Len(stack) + Waiting - 1
         \/ /\ \E i, j \in 1 .. 7 : Rank(stage) = i /\ Rank(stage') = j /\ j < i
            /\ 2 * Unmarked' + Len(stack') + Waiting'
                 <= 2 * Unmarked + Len(stack) + Waiting + 2 * Cardinality(Modules)
  PROVE  Remaining' < Remaining
<1>1. /\ Remaining = Most * Rank(stage) + 2 * Unmarked + Len(stack) + Waiting
      /\ Remaining' = Most * Rank(stage') + 2 * Unmarked' + Len(stack') + Waiting'
  BY DEF Remaining, Most, Rank, Stages, Unmarked, Waiting
<1>11. /\ Cardinality(Modules) \in Nat /\ Cardinality(Inner) \in Nat
       /\ Unmarked \in Nat /\ Unmarked' \in Nat /\ Waiting \in Nat /\ Waiting' \in Nat
  <2>1. /\ Unmarked = Cardinality(Modules \ visited) /\ Unmarked' = Cardinality(Modules \ visited')
        /\ Waiting = Cardinality({s \in Inner : counters[s] = NotYet})
        /\ Waiting' = Cardinality({s \in Inner : counters'[s] = NotYet})
    BY DEF Unmarked, Waiting
  <2>2. /\ Cardinality(Modules \ visited) \in 0 .. Cardinality(Modules)
        /\ Cardinality(Modules \ visited') \in 0 .. Cardinality(Modules)
    BY Parts
  <2>3. /\ Cardinality({s \in Inner : counters[s] = NotYet}) \in 0 .. Cardinality(Inner)
        /\ Cardinality({s \in Inner : counters'[s] = NotYet}) \in 0 .. Cardinality(Inner)
    BY Parts, Zenon
  <2>4. Cardinality(Modules) \in Nat /\ Cardinality(Inner) \in Nat
    BY Parts
  <2>5. \A a, b \in Nat : 0 .. a \subseteq Nat
    OBVIOUS
  <2> QED
    BY <2>1, <2>2, <2>3, <2>4, <2>5
<1>12. Len(stack) \in Nat /\ Len(stack') \in Nat
  BY DEF CInv
<1>2. PICK n, k : n = Cardinality(Modules) /\ k = Cardinality(Inner)
  OBVIOUS
<1>3. PICK u, l, w : u = Unmarked /\ l = Len(stack) /\ w = Waiting
  OBVIOUS
<1>4. PICK u2, l2, w2 : u2 = Unmarked' /\ l2 = Len(stack') /\ w2 = Waiting'
  OBVIOUS
<1>5. PICK r, r2 : r = Rank(stage) /\ r2 = Rank(stage')
  OBVIOUS
<1>6. /\ n \in Nat /\ k \in Nat /\ u \in Nat /\ l \in Nat /\ w \in Nat
      /\ u2 \in Nat /\ l2 \in Nat /\ w2 \in Nat
      /\ Remaining = Most * r + 2 * u + l + w /\ Remaining' = Most * r2 + 2 * u2 + l2 + w2
      /\ Most = 2 * n + k + 1
  BY <1>1, <1>2, <1>3, <1>4, <1>5, <1>11, <1>12 DEF Most
<1>7. r \in 1 .. 7
  BY <1>5, Ranks DEF CInv, StageNames
<1>8. CASE /\ stage' = stage
           /\ 2 * u2 + l2 + w2 = 2 * u + l + w - 1
  <2>1. r2 = r
    BY <1>5, <1>8
  <2>2. PICK m : m = Most * r
    OBVIOUS
  <2>3. m \in Int
    BY <1>6, <1>7, <2>2
  <2> QED
    BY <1>6, <1>8, <2>1, <2>2, <2>3
<1>9. CASE /\ r2 \in 1 .. 7 /\ r2 < r
           /\ 2 * u2 + l2 + w2 <= 2 * u + l + w + 2 * n
  <2>1. PICK m : m = Most
    OBVIOUS
  <2>2. m \in Nat /\ m >= 2 * n + 1
    BY <1>6, <2>1
  <2>3. m * (r2 + 1) <= m * r /\ m * (r2 + 1) = m * r2 + m
    <3>1. r2 + 1 <= r
      BY <1>7, <1>9
    <3>2. \E d \in Nat : r = r2 + 1 + d
      <4>1. r - (r2 + 1) \in Nat /\ r = r2 + 1 + (r - (r2 + 1))
        BY <1>7, <1>9
      <4> QED
        BY <4>1
    <3>3. PICK d \in Nat : r = r2 + 1 + d
      BY <3>2
    <3>4. m * r = m * (r2 + 1) + m * d
      BY <1>7, <1>9, <2>2, <3>3
    <3>5. m * d \in Nat
      BY <2>2
    <3>6. m * (r2 + 1) = m * r2 + m /\ m * (r2 + 1) \in Int
      BY <1>9, <2>2
    <3> QED
      BY <3>4, <3>5, <3>6
  <2>4. PICK p, q : p = m * r2 /\ q = m * r
    OBVIOUS
  <2>5. p \in Int /\ q \in Int /\ p + m <= q
    BY <1>7, <1>9, <2>2, <2>3, <2>4
  <2>6. Remaining = q + 2 * u + l + w /\ Remaining' = p + 2 * u2 + l2 + w2
    BY <1>6, <2>1, <2>4
  <2> QED
    BY <1>6, <1>9, <2>2, <2>5, <2>6
<1> QED
  BY <1>2, <1>3, <1>4, <1>5, <1>8, <1>9

(* A walk that begins has marked the entry and stands on it.                 *)
LEMMA WalkBegins ==
  ASSUME CInv, stack' = <<Entry>>, visited' = {Entry}, counters' = counters
  PROVE  /\ 2 * Unmarked' + Len(stack') + Waiting'
              <= 2 * Unmarked + Len(stack) + Waiting + 2 * Cardinality(Modules)
<1>1. Waiting' = Waiting
  BY DEF Waiting
<1>2. Len(stack') = 1
  OBVIOUS
<1>3. Unmarked' = Cardinality(Modules) - 1
  <2>1. IsFiniteSet(Modules) /\ Entry \in Modules
    BY LinkerAssumption
  <2>2. Cardinality(Modules \ {Entry}) = Cardinality(Modules) - 1
    BY <2>1, FS_RemoveElement
  <2> QED
    BY <2>2 DEF Unmarked
<1>4. PICK n, u, w : n = Cardinality(Modules) /\ u = Unmarked /\ w = Waiting
  OBVIOUS
<1>5. n \in Nat /\ u \in Nat /\ w \in Nat /\ Len(stack) \in Nat
  <2>1. u \in 0 .. n /\ n \in Nat
    BY <1>4, Parts DEF Unmarked
  <2>2. w \in 0 .. Cardinality(Inner) /\ Cardinality(Inner) \in Nat
    BY <1>4, Parts, Zenon DEF Waiting
  <2> QED
    BY <2>1, <2>2 DEF CInv
<1> QED
  BY <1>1, <1>2, <1>3, <1>4, <1>5, SMTT(30)

(* Naming an inner scope leaves one less of them.                            *)
LEMMA OneLessWaits ==
  ASSUME CInv, NEW s \in Inner, counters[s] = NotYet, counters'[s] # NotYet,
         counters' = [counters EXCEPT ![s] = counters'[s]]
  PROVE  Waiting' = Waiting - 1
<1>1. PICK c, P : c = counters'[s] /\ P = {t \in Inner : counters[t] = NotYet}
  OBVIOUS
<1>2. counters \in [Inner -> Nat \union {NotYet}]
  BY DEF CInv
<1>3. {t \in Inner : counters'[t] = NotYet} = P \ {s}
  <2>1. counters' = [counters EXCEPT ![s] = c] /\ c # NotYet
    BY <1>1
  <2>2. \A t \in Inner : counters'[t] = IF t = s THEN c ELSE counters[t]
    BY <1>2, <2>1
  <2> QED
    BY <1>1, <2>1, <2>2
<1>4. IsFiniteSet(P) /\ s \in P
  BY <1>1, LinkerAssumption, FS_Subset
<1>5. Cardinality(P \ {s}) = Cardinality(P) - 1
  BY <1>4, FS_RemoveElement
<1> QED
  BY <1>1, <1>3, <1>5 DEF Waiting

(* Each action but Stop.                                                     *)
LEMMA ActionLeadsOn ==
  ASSUME CInv, CInv', Next, ~ Stop
  PROVE  Remaining' < Remaining
<1> DEFINE Same == UNCHANGED <<counters, stack, visited>>
<1>1. /\ Unmarked \in Nat /\ Waiting \in Nat /\ Len(stack) \in Nat
      /\ Cardinality(Modules) \in Nat
  <2>1. Unmarked \in 0 .. Cardinality(Modules) /\ Cardinality(Modules) \in Nat
    BY Parts DEF Unmarked
  <2>2. Waiting \in 0 .. Cardinality(Inner) /\ Cardinality(Inner) \in Nat
    BY Parts, Zenon DEF Waiting
  <2> QED
    BY <2>1, <2>2 DEF CInv
<1>2. Same => 2 * Unmarked' + Len(stack') + Waiting' = 2 * Unmarked + Len(stack) + Waiting
  BY DEF Unmarked, Waiting
<1>3. ASSUME Same, \E i, j \in 1 .. 7 : Rank(stage) = i /\ Rank(stage') = j /\ j < i
      PROVE  Remaining' < Remaining
  <2>1. 2 * Unmarked' + Len(stack') + Waiting'
          <= 2 * Unmarked + Len(stack) + Waiting + 2 * Cardinality(Modules)
    BY <1>1, <1>2, <1>3
  <2> QED
    BY <1>3, <2>1, LessIsLeft
<1>4. CASE CollectExports
  <2>1. stage = "collect" /\ (stage' = "inner" \/ stage' = "externals") /\ Same
    BY <1>4 DEF CollectExports
  <2> QED
    BY <1>3, <2>1, Ranks
<1>5. ASSUME NEW s \in Inner, RenameInner(s) PROVE Remaining' < Remaining
  <2>1. Waiting' = Waiting - 1
    BY <1>5, RenameInnerDoes, OneLessWaits
  <2>2. stage' = stage /\ stack' = stack /\ Unmarked' = Unmarked
    BY <1>5 DEF RenameInner, Unmarked
  <2>3. 2 * Unmarked' + Len(stack') + Waiting' = 2 * Unmarked + Len(stack) + Waiting - 1
    BY <1>1, <2>1, <2>2
  <2> QED
    BY <2>2, <2>3, LessIsLeft
<1>6. CASE MergeGenerators
  <2>1. stage = "inner" /\ stage' = "externals" /\ Same
    BY <1>6 DEF MergeGenerators
  <2> QED
    BY <1>3, <2>1, Ranks
<1>7. CASE GenAst
  <2>1. /\ stage = "externals" /\ stage' = "roots"
        /\ stack' = <<Entry>> /\ visited' = {Entry} /\ counters' = counters
    BY <1>7 DEF GenAst
  <2> QED
    BY <2>1, Ranks, WalkBegins, LessIsLeft
<1>8. CASE Descend
  <2>1. PICK k \in DOMAIN References(Last(stack)) :
          /\ References(Last(stack))[k] \in Modules \ visited
          /\ stack' = Append(stack, References(Last(stack))[k])
          /\ visited' = visited \union {References(Last(stack))[k]}
    BY <1>8 DEF Descend, Marks
  <2>2. PICK m : m = References(Last(stack))[k]
    OBVIOUS
  <2>3. m \in Modules \ visited /\ stack' = Append(stack, m) /\ visited' = visited \union {m}
    BY <2>1, <2>2
  <2>4. Unmarked' = Unmarked - 1
    <3>1. IsFiniteSet(Modules \ visited)
      BY LinkerAssumption, FS_Subset
    <3>2. Cardinality((Modules \ visited) \ {m}) = Cardinality(Modules \ visited) - 1
      BY <2>3, <3>1, FS_RemoveElement
    <3>3. Modules \ visited' = (Modules \ visited) \ {m}
      BY <2>3
    <3> QED
      BY <3>2, <3>3 DEF Unmarked
  <2>5. Len(stack') = Len(stack) + 1
    BY <2>3 DEF CInv
  <2>6. stage' = stage /\ Waiting' = Waiting
    BY <1>8 DEF Descend, Waiting
  <2>7. 2 * Unmarked' + Len(stack') + Waiting' = 2 * Unmarked + Len(stack) + Waiting - 1
    BY <1>1, <2>4, <2>5, <2>6
  <2> QED
    BY <2>6, <2>7, LessIsLeft
<1>9. ASSUME stack # <<>>, stack' = Popped(stack), UNCHANGED <<stage, visited, counters>>
      PROVE  Remaining' < Remaining
  <2>1. Len(stack') = Len(stack) - 1
    BY <1>9, TopIs
  <2>2. Unmarked' = Unmarked /\ Waiting' = Waiting
    BY <1>9 DEF Unmarked, Waiting
  <2>3. 2 * Unmarked' + Len(stack') + Waiting' = 2 * Unmarked + Len(stack) + Waiting - 1
    BY <1>1, <2>1, <2>2
  <2> QED
    BY <1>9, <2>3, LessIsLeft
<1>10. CASE RenameRoot
  <2>1. stack # <<>> /\ stack' = Popped(stack) /\ UNCHANGED <<stage, visited, counters>>
    BY <1>10 DEF RenameRoot
  <2> QED
    BY <1>9, <2>1
<1>11. CASE RootsRenamed
  <2>1. /\ stage = "roots" /\ stage' = "imports"
        /\ stack' = <<Entry>> /\ visited' = {Entry} /\ counters' = counters
    BY <1>11 DEF RootsRenamed
  <2> QED
    BY <2>1, Ranks, WalkBegins, LessIsLeft
<1>12. CASE ReplaceImports
  <2>1. /\ stack # <<>> /\ stage = "imports" /\ UNCHANGED <<visited, counters>>
        /\ (stack' = Popped(stack) /\ stage' = stage) \/ (stack' = <<>> /\ stage' = "failed")
    BY <1>12 DEF ReplaceImports
  <2>2. CASE stack' = Popped(stack) /\ stage' = stage
    BY <1>9, <2>1, <2>2
  <2>3. CASE stack' = <<>> /\ stage' = "failed"
    <3>1. Len(stack') = 0 /\ Unmarked' = Unmarked /\ Waiting' = Waiting
      BY <2>1, <2>3 DEF Unmarked, Waiting
    <3>2. 2 * Unmarked' + Len(stack') + Waiting'
            <= 2 * Unmarked + Len(stack) + Waiting + 2 * Cardinality(Modules)
      BY <1>1, <3>1
    <3> QED
      BY <2>1, <2>3, <3>2, Ranks, LessIsLeft
  <2> QED
    BY <2>1, <2>2, <2>3
<1>13. CASE Finish
  <2>1. stage = "imports" /\ stage' = "done" /\ Same
    BY <1>13 DEF Finish
  <2> QED
    BY <1>3, <2>1, Ranks
<1> QED
  BY <1>4, <1>5, <1>6, <1>7, <1>8, <1>10, <1>11, <1>12, <1>13 DEF Next

(* Whatever the program, and along cycles of imports too, every step of       *)
(* linking brings its end closer: nothing is named or walked for ever, and     *)
(* what remains at the start bounds the steps there can be.                  *)
THEOREM LinkingEnds == Spec => LeadsOn
<1>1. CInv /\ CInv' /\ [Next]_vars => [Remaining' < Remaining]_vars
  <2> SUFFICES ASSUME CInv, CInv', Next, ~ UNCHANGED vars PROVE Remaining' < Remaining
    OBVIOUS
  <2>1. ~ Stop
    BY DEF Stop
  <2> QED
    BY <2>1, ActionLeadsOn
<1> QED
  BY <1>1, Control, PTL DEF Spec, LeadsOn

-----------------------------------------------------------------------------
(* A walk visits what it stands on and has left a module only after all       *)
(* modules that one refers to; so it ends with all modules visited.          *)
On(s) == {s[i] : i \in 1 .. Len(s)}
Once(s) == \A i, j \in 1 .. Len(s) : s[i] = s[j] => i = j
Walked == visited \ On(stack)
WInv ==
  /\ On(stack) \subseteq visited /\ Once(stack)
  /\ stage # "failed" => \A m \in Walked : RefMods(m) \subseteq visited
  /\ stage \in {"roots", "imports", "done"} => Entry \in visited
  /\ stage \in {"collect", "inner", "externals"} => stack = <<>> /\ visited = {}

(* One more at the end, as a module on the stack. *)
LEMMA OnAppend ==
  ASSUME NEW X, NEW s \in Seq(X), NEW c \in X, Once(s), c \notin On(s)
  PROVE  On(Append(s, c)) = On(s) \union {c} /\ Once(Append(s, c))
<1>1. PICK n, t : n = Len(s) /\ t = Append(s, c)
  OBVIOUS
<1>2. n \in Nat /\ Len(t) = n + 1 /\ t[n + 1] = c /\ \A i \in 1 .. n : t[i] = s[i]
  BY <1>1
<1>3. 1 .. n + 1 = (1 .. n) \union {n + 1}
  BY <1>2
<1>4. On(t) = On(s) \union {c}
  BY <1>1, <1>2, <1>3 DEF On
<1>5. \A i \in 1 .. n : s[i] # c
  BY <1>1 DEF On
<1>6. Once(t)
  BY <1>1, <1>2, <1>3, <1>5 DEF Once
<1> QED
  BY <1>1, <1>4, <1>6

(* The last module off the stack. *)
LEMMA OnPopped ==
  ASSUME NEW s \in Seq(Modules), s # <<>>, Once(s)
  PROVE  /\ On(Popped(s)) = On(s) \ {Last(s)} /\ Once(Popped(s)) /\ Last(s) \in On(s)
         /\ Popped(s) \in Seq(Modules)
<1>1. PICK n : n = Len(s) - 1
  OBVIOUS
<1>2. n \in Nat /\ Len(s) = n + 1 /\ Last(s) = s[n + 1]
  BY <1>1 DEF Last
<1>3. PICK t : t = [i \in 1 .. n |-> s[i]]
  OBVIOUS
<1>4. Popped(s) = t
  BY <1>1, <1>2, <1>3 DEF Popped, Front
<1>5. t \in Seq(Modules) /\ Len(t) = n /\ \A i \in 1 .. n : t[i] = s[i]
  <2>1. \A i \in 1 .. n : s[i] \in Modules
    BY <1>2
  <2> QED
    BY <1>2, <1>3, <2>1
<1>6. 1 .. n + 1 = (1 .. n) \union {n + 1} /\ n + 1 \notin 1 .. n
  BY <1>2
<1>7. \A i \in 1 .. n : s[i] # s[n + 1]
  BY <1>2, <1>6 DEF Once
<1>8. On(t) = On(s) \ {s[n + 1]} /\ s[n + 1] \in On(s)
  BY <1>2, <1>5, <1>6, <1>7 DEF On
<1>9. Once(t)
  BY <1>2, <1>5, <1>6 DEF Once
<1> QED
  BY <1>2, <1>4, <1>5, <1>8, <1>9

(* What a walk begins with. *)
LEMMA OnEntry == On(<<Entry>>) = {Entry} /\ Once(<<Entry>>) /\ On(<<>>) = {} /\ Once(<<>>)
<1>1. PICK s : s = <<Entry>>
  OBVIOUS
<1>2. Len(s) = 1 /\ s[1] = Entry /\ 1 .. 1 = {1}
  BY <1>1
<1>3. On(s) = {Entry} /\ Once(s)
  BY <1>2 DEF On, Once
<1>4. On(<<>>) = {} /\ Once(<<>>)
  BY DEF On, Once
<1> QED
  BY <1>1, <1>3, <1>4

(* The child is one of ref_mods. *)
LEMMA DescendDoes ==
  ASSUME CInv, WInv, Descend
  PROVE  \E c \in Modules \ visited :
           /\ stack' = Append(stack, c) /\ visited' = visited \union {c}
           /\ Walked' = Walked /\ WInv'
<1>1. PICK k \in DOMAIN References(Last(stack)) :
        /\ References(Last(stack))[k] \in Modules \ visited
        /\ stack' = Append(stack, References(Last(stack))[k])
        /\ visited' = visited \union {References(Last(stack))[k]}
  BY DEF Descend, Marks
<1>2. PICK c : c = References(Last(stack))[k]
  OBVIOUS
<1>3. c \in Modules \ visited /\ stack' = Append(stack, c) /\ visited' = visited \union {c}
  BY <1>1, <1>2
<1>4. UNCHANGED <<prog, stage>> /\ stack # <<>>
  BY DEF Descend
<1>5. On(stack') = On(stack) \union {c} /\ Once(stack')
  BY <1>3, OnAppend DEF CInv, WInv
<1>6. Walked' = Walked
  BY <1>3, <1>5 DEF Walked
<1>7. \A m : RefMods(m)' = RefMods(m)
  BY <1>4 DEF RefMods, ReferredTo, ReferencesOf
<1>8. WInv'
  <2>1. stage \notin {"collect", "inner", "externals"}
    BY <1>4 DEF WInv
  <2>2. stage' # "failed" => \A m \in Walked' : RefMods(m)' \subseteq visited'
    BY <1>3, <1>4, <1>6, <1>7 DEF WInv
  <2>3. On(stack') \subseteq visited' /\ Once(stack')
    BY <1>3, <1>5 DEF WInv
  <2>4. stage' \in {"roots", "imports", "done"} => Entry \in visited'
    BY <1>3, <1>4 DEF WInv
  <2>5. WInv' <=> /\ On(stack') \subseteq visited' /\ Once(stack')
                  /\ stage' # "failed" => \A m \in Walked' : RefMods(m)' \subseteq visited'
                  /\ stage' \in {"roots", "imports", "done"} => Entry \in visited'
                  /\ stage' \in {"collect", "inner", "externals"} => stack' = <<>> /\ visited' = {}
    BY DEF WInv
  <2> QED
    BY <1>4, <2>1, <2>2, <2>3, <2>4, <2>5
<1> QED
  BY <1>3, <1>6, <1>8

(* A module is left when all it refers to is visited. *)
LEMMA LeaveDoes ==
  ASSUME CInv, WInv, stack # <<>>, Ready, stack' = Popped(stack), UNCHANGED <<prog, stage, visited>>
  PROVE  /\ Last(stack) \in Modules /\ Last(stack) \notin Walked
         /\ Walked' = Walked \union {Last(stack)} /\ WInv'
<1>1. /\ On(stack') = On(stack) \ {Last(stack)} /\ Once(stack') /\ Last(stack) \in On(stack)
  BY OnPopped DEF CInv, WInv
<1>2. Walked' = Walked \union {Last(stack)} /\ Last(stack) \notin Walked
  BY <1>1 DEF Walked, WInv
<1>3. Last(stack) \in Modules
  BY TopIs
<1>4. \A m : RefMods(m)' = RefMods(m)
  BY DEF RefMods, ReferredTo, ReferencesOf
<1>5. stage' # "failed" => \A m \in Walked' : RefMods(m)' \subseteq visited'
  BY <1>2, <1>4 DEF WInv, Ready
<1>6. WInv' <=> /\ On(stack') \subseteq visited' /\ Once(stack')
                /\ stage' # "failed" => \A m \in Walked' : RefMods(m)' \subseteq visited'
                /\ stage' \in {"roots", "imports", "done"} => Entry \in visited'
                /\ stage' \in {"collect", "inner", "externals"} => stack' = <<>> /\ visited' = {}
  BY DEF WInv
<1> QED
  BY <1>1, <1>2, <1>3, <1>5, <1>6 DEF WInv

(* A walk that begins has left no module. *)
LEMMA BeginDoes ==
  ASSUME stack' = <<Entry>>, visited' = {Entry}, stage' \in {"roots", "imports"}
  PROVE  Walked' = {} /\ WInv'
<1>1. On(stack') = {Entry} /\ Once(stack')
  BY OnEntry
<1>2. Walked' = {}
  BY <1>1 DEF Walked
<1>3. WInv' <=> /\ On(stack') \subseteq visited' /\ Once(stack')
                /\ stage' # "failed" => \A m \in Walked' : RefMods(m)' \subseteq visited'
                /\ stage' \in {"roots", "imports", "done"} => Entry \in visited'
                /\ stage' \in {"collect", "inner", "externals"} => stack' = <<>> /\ visited' = {}
  BY DEF WInv
<1> QED
  BY <1>1, <1>2, <1>3

(* At the end of a walk it has left all modules. *)
LEMMA AllWalked ==
  ASSUME CInv, WInv, stage \in {"roots", "imports", "done"}, stack = <<>>
  PROVE  Walked = Modules
<1>1. Walked = visited
  BY OnEntry DEF Walked
<1>2. Entry \in visited /\ \A m \in visited : RefMods(m) \subseteq visited
  BY <1>1 DEF WInv
<1>3. IsProgram(prog) /\ visited \in SUBSET Modules
  BY LinkerAssumption DEF CInv
<1>4. \A m \in visited : ReferredTo(prog, m) \subseteq visited
  BY <1>2 DEF RefMods
<1>5. visited = Modules
  BY <1>2, <1>3, <1>4 DEF IsProgram
<1> QED
  BY <1>1, <1>5

-----------------------------------------------------------------------------
(* The tables of symbols: what a scope owns are variables of its own, and     *)
(* every variable of the sources stays known.                                *)
OwnVars(s) == {<<s, n>> : n \in prog.owns[s]}
IsSym(T) ==
  /\ \E n, o, l, x : T = [name |-> n, own |-> o, local |-> l, index |-> x]
  /\ DOMAIN T.own = Scopes
  /\ \A s \in Scopes : \A v \in T.own[s] : v \in DOMAIN T.name /\ v[1] = s
  /\ \A s \in Scopes : OwnVars(s) \subseteq DOMAIN T.name
  /\ \A v \in DOMAIN T.name : v[1] \in Scopes /\ (v[2] = DefaultVar => v[1] \in Modules)

(* The variables of m are those of its source and have their names there.     *)
Untouched(T, m) ==
  /\ T.own[m] = OwnVars(m)
  /\ \A v \in DOMAIN T.name : v[1] = m => v \in OwnVars(m) /\ T.name[v] = v[2]

(* What a change of names in scope s does to the tables.                     *)
Changed(T, U, s, ren) ==
  /\ IsSym(U)
  /\ DOMAIN U.name = DOMAIN T.name
  /\ \A v \in DOMAIN T.name :
       U.name[v] = IF v \in Moved(T, s, ren) THEN ren[T.name[v]] ELSE T.name[v]
  /\ \A t \in Scopes \ {s} : U.own[t] = T.own[t]

(* Names and owners decide it. *)
LEMMA RenameChanges ==
  ASSUME NEW T, IsSym(T), NEW s \in Scopes, NEW ren, NEW U,
         \E nn, oo, l, x :
           /\ U = [name |-> nn, own |-> oo, local |-> l, index |-> x]
           /\ nn = [v \in DOMAIN T.name |->
                      IF v \in Moved(T, s, ren) THEN ren[T.name[v]] ELSE T.name[v]]
           /\ oo = [T.own EXCEPT ![s] = T.own[s] \ Lost(T, s, ren)]
  PROVE  Changed(T, U, s, ren)
<1>1. PICK nn, oo, l, x :
        /\ U = [name |-> nn, own |-> oo, local |-> l, index |-> x]
        /\ nn = [v \in DOMAIN T.name |->
                   IF v \in Moved(T, s, ren) THEN ren[T.name[v]] ELSE T.name[v]]
        /\ oo = [T.own EXCEPT ![s] = T.own[s] \ Lost(T, s, ren)]
  OBVIOUS
<1>2. U.name = nn /\ U.own = oo /\ DOMAIN nn = DOMAIN T.name
  BY <1>1
<1>3. DOMAIN oo = Scopes /\ \A t \in Scopes : oo[t] \subseteq T.own[t] /\ (t # s => oo[t] = T.own[t])
  BY <1>1 DEF IsSym
<1>4. IsSym(U)
  <2>1. \E n, o, ll, xx : U = [name |-> n, own |-> o, local |-> ll, index |-> xx]
    BY <1>1
  <2> QED
    BY <1>2, <1>3, <2>1 DEF IsSym
<1>5. \A v \in DOMAIN T.name :
        U.name[v] = IF v \in Moved(T, s, ren) THEN ren[T.name[v]] ELSE T.name[v]
  BY <1>1, <1>2
<1> QED
  BY <1>2, <1>3, <1>4, <1>5 DEF Changed

(* The exports of a module go with its names. *)
LEMMA OtherFields ==
  ASSUME NEW R, NEW U, NEW n, NEW o, NEW l, NEW x, NEW s, NEW c, NEW d,
         R = [name |-> n, own |-> o, local |-> l, index |-> x],
         U = [R EXCEPT !.local[s] = c, !.index[s] = d]
  PROVE  U = [name |-> n, own |-> o, local |-> [l EXCEPT ![s] = c], index |-> [x EXCEPT ![s] = d]]
OBVIOUS

(* Both BatchRenameSymbols do that. *)
LEMMA ScopeRenames ==
  ASSUME NEW T, IsSym(T), NEW s \in Scopes, NEW ren
  PROVE  /\ Changed(T, RenameIn(T, s, ren), s, ren)
         /\ s \in Modules => Changed(T, RenameInModule(T, s, ren), s, ren)
<1>1. PICK n, o, l, x : T = [name |-> n, own |-> o, local |-> l, index |-> x]
  BY DEF IsSym
<1>2. PICK nn, oo :
        /\ nn = [v \in DOMAIN n |-> IF v \in Moved(T, s, ren) THEN ren[n[v]] ELSE n[v]]
        /\ oo = [o EXCEPT ![s] = o[s] \ Lost(T, s, ren)]
  OBVIOUS
<1>4. T.name = n /\ T.own = o
  BY <1>1
<1>3. RenameIn(T, s, ren) = [name |-> nn, own |-> oo, local |-> l, index |-> x]
  <2>1. PICK M, K : M = Moved(T, s, ren) /\ K = Lost(T, s, ren)
    OBVIOUS
  <2>2. RenameIn(T, s, ren) =
          [T EXCEPT !.name = [v \in DOMAIN T.name |-> IF v \in M THEN ren[T.name[v]] ELSE T.name[v]],
                    !.own[s] = T.own[s] \ K]
    BY <1>1, <2>1 DEF RenameIn
  <2>3. /\ nn = [v \in DOMAIN T.name |-> IF v \in M THEN ren[T.name[v]] ELSE T.name[v]]
        /\ oo = [o EXCEPT ![s] = T.own[s] \ K]
    BY <1>2, <1>4, <2>1
  <2>4. PICK k : k = T.own[s] \ K
    OBVIOUS
  <2>5. RenameIn(T, s, ren) = [T EXCEPT !.name = nn, !.own[s] = k]
    BY <2>2, <2>3, <2>4
  <2>6. oo = [o EXCEPT ![s] = k]
    BY <2>3, <2>4
  <2> QED
    BY <1>1, <2>5, <2>6
<1>5. Changed(T, RenameIn(T, s, ren), s, ren)
  <2>1. PICK U : U = RenameIn(T, s, ren)
    OBVIOUS
  <2>2. \E a, b, c, d :
           /\ U = [name |-> a, own |-> b, local |-> c, index |-> d]
           /\ a = [v \in DOMAIN T.name |->
                      IF v \in Moved(T, s, ren) THEN ren[T.name[v]] ELSE T.name[v]]
           /\ b = [T.own EXCEPT ![s] = T.own[s] \ Lost(T, s, ren)]
    BY <1>2, <1>3, <1>4, <2>1
  <2> QED
    BY <2>1, <2>2, RenameChanges
<1>6. ASSUME s \in Modules PROVE Changed(T, RenameInModule(T, s, ren), s, ren)
  <2>1. PICK U : U = RenameInModule(T, s, ren)
    OBVIOUS
  <2>2. \E ll, xx : U = [RenameIn(T, s, ren) EXCEPT !.local[s] = ll, !.index[s] = xx]
    BY <2>1 DEF RenameInModule
  <2>3. \E c, d : U = [name |-> nn, own |-> oo, local |-> c, index |-> d]
    <3>1. PICK ll, xx : U = [RenameIn(T, s, ren) EXCEPT !.local[s] = ll, !.index[s] = xx]
      BY <2>2
    <3>2. PICK R : R = RenameIn(T, s, ren)
      OBVIOUS
    <3>3. U = [name |-> nn, own |-> oo, local |-> [l EXCEPT ![s] = ll], index |-> [x EXCEPT ![s] = xx]]
      <4>1. R = [name |-> nn, own |-> oo, local |-> l, index |-> x]
        BY <1>3, <3>2
      <4>2. U = [R EXCEPT !.local[s] = ll, !.index[s] = xx]
        BY <3>1, <3>2
      <4> QED
        BY <4>1, <4>2, OtherFields
    <3> QED
      BY <3>3
  <2>4. \E a, b, c, d :
           /\ U = [name |-> a, own |-> b, local |-> c, index |-> d]
           /\ a = [v \in DOMAIN T.name |->
                      IF v \in Moved(T, s, ren) THEN ren[T.name[v]] ELSE T.name[v]]
           /\ b = [T.own EXCEPT ![s] = T.own[s] \ Lost(T, s, ren)]
    BY <1>2, <1>4, <2>3
  <2> QED
    BY <2>1, <2>4, RenameChanges
<1> QED
  BY <1>5, <1>6

(* An order of a set goes through all of it, once. *)
LEMMA OrderCovers ==
  ASSUME NEW S, IsFiniteSet(S), NEW order \in SetToSeqs(S)
  PROVE  /\ Cardinality(S) \in Nat /\ DOMAIN order = 1 .. Cardinality(S)
         /\ \A i \in 1 .. Cardinality(S) : order[i] \in S
         /\ \A i, j \in 1 .. Cardinality(S) : order[i] = order[j] => i = j
         /\ \A v \in S : \E i \in 1 .. Cardinality(S) : order[i] = v
<1>1. PICK n, D : n = Cardinality(S) /\ D = 1 .. n
  OBVIOUS
<1>2. n \in Nat /\ order \in [D -> S] /\ \A i, j \in D : order[i] = order[j] => i = j
  BY <1>1, FS_CardinalityType DEF SetToSeqs
<1>3. order \in Injection(D, S)
  BY <1>2 DEF Injection, IsInjective
<1>4. Cardinality(D) = n
  <2>1. 1 \in Int /\ n \in Int /\ n - 1 + 1 = n
    BY <1>2
  <2>2. Cardinality(1 .. n) = IF 1 > n THEN 0 ELSE n - 1 + 1
    BY <2>1, FS_Interval
  <2> QED
    BY <1>1, <1>2, <2>1, <2>2
<1>5. order \in Surjection(D, S)
  BY <1>1, <1>3, <1>4, FS_Injection
<1>6. \A v \in S : \E i \in D : order[i] = v
  BY <1>5 DEF Surjection
<1> QED
  BY <1>1, <1>2, <1>6

(* The changeset of an order gives every variable its name, whichever of     *)
(* them have that name already.                                              *)
Renamed(T, U, s, order, names) ==
  /\ IsSym(T) /\ s \in Scopes
  /\ IsFiniteSet(T.own[s]) /\ order \in SetToSeqs(T.own[s])
  /\ \A v, w \in T.own[s] : T.name[v] = T.name[w] => v = w
  /\ Changed(T, U, s, Changes(T, order, names))

(* So it does, and to no other variables. *)
LEMMA ChangesName ==
  ASSUME NEW T, NEW U, NEW s, NEW order, NEW names, Renamed(T, U, s, order, names)
  PROVE  /\ \A i \in 1 .. Cardinality(T.own[s]) : U.name[order[i]] = names[i]
         /\ \A v \in DOMAIN T.name \ T.own[s] : U.name[v] = T.name[v]
<1>0. /\ IsSym(T) /\ s \in Scopes
      /\ IsFiniteSet(T.own[s]) /\ order \in SetToSeqs(T.own[s])
      /\ \A v, w \in T.own[s] : T.name[v] = T.name[w] => v = w
      /\ Changed(T, U, s, Changes(T, order, names))
  BY DEF Renamed
<1>1. PICK S, n, ren : S = T.own[s] /\ n = Cardinality(S) /\ ren = Changes(T, order, names)
  OBVIOUS
<1>2. /\ n \in Nat /\ DOMAIN order = 1 .. n /\ \A i \in 1 .. n : order[i] \in S
      /\ \A i, j \in 1 .. n : order[i] = order[j] => i = j
  BY <1>0, <1>1, OrderCovers
<1>3. PICK C : C = {i \in DOMAIN order : names[i] # T.name[order[i]]}
  OBVIOUS
<1>4. ren = [x \in {T.name[order[i]] : i \in C} |-> names[CHOOSE i \in C : T.name[order[i]] = x]]
  BY <1>1, <1>3 DEF Changes
<1>5. S \subseteq DOMAIN T.name
  BY <1>0, <1>1 DEF IsSym
<1>6. \A v \in DOMAIN T.name :
        U.name[v] = IF v \in Moved(T, s, ren) THEN ren[T.name[v]] ELSE T.name[v]
  BY <1>0, <1>1 DEF Changed
<1>7. \A v : v \in Moved(T, s, ren) <=> v \in S /\ \E i \in C : T.name[v] = T.name[order[i]]
  BY <1>1, <1>4 DEF Moved
<1>8. ASSUME NEW i \in 1 .. n PROVE U.name[order[i]] = names[i]
  <2>1. order[i] \in S /\ order[i] \in DOMAIN T.name
    BY <1>2, <1>5
  <2>2. \A j \in C : T.name[order[j]] = T.name[order[i]] => j = i
    <3> SUFFICES ASSUME NEW j \in C, T.name[order[j]] = T.name[order[i]] PROVE j = i
      OBVIOUS
    <3>1. j \in 1 .. n /\ order[j] \in S
      BY <1>2, <1>3
    <3>2. order[j] = order[i]
      BY <1>0, <1>1, <2>1, <3>1
    <3> QED
      BY <1>2, <3>1, <3>2
  <2>3. CASE i \in C
    <3>1. order[i] \in Moved(T, s, ren)
      BY <1>7, <2>1, <2>3
    <3>2. (CHOOSE j \in C : T.name[order[j]] = T.name[order[i]]) = i
      BY <2>2, <2>3
    <3>3. ren[T.name[order[i]]] = names[i]
      BY <1>4, <2>3, <3>2
    <3> QED
      BY <1>6, <2>1, <3>1, <3>3
  <2>4. CASE i \notin C
    <3>1. order[i] \notin Moved(T, s, ren)
      BY <1>7, <2>2, <2>4
    <3>2. names[i] = T.name[order[i]]
      BY <1>2, <1>3, <2>4
    <3> QED
      BY <1>6, <2>1, <3>1, <3>2
  <2> QED
    BY <2>3, <2>4
<1>9. ASSUME NEW v \in DOMAIN T.name \ S PROVE U.name[v] = T.name[v]
  BY <1>6, <1>7
<1> QED
  BY <1>1, <1>8, <1>9

(* The variable for export default is one more. *)
LEMMA DefaultAdded ==
  ASSUME NEW T, IsSym(T), NEW m \in Modules, NEW d
  PROVE  /\ IsSym(AddDefault(T, m, d))
         /\ DOMAIN AddDefault(T, m, d).name = DOMAIN T.name \union {<<m, DefaultVar>>}
         /\ \A v \in DOMAIN T.name \ {<<m, DefaultVar>>} : AddDefault(T, m, d).name[v] = T.name[v]
         /\ AddDefault(T, m, d).name[<<m, DefaultVar>>] = d
         /\ \A t \in Scopes \ {m} : AddDefault(T, m, d).own[t] = T.own[t]
<1>1. PICK n, o, l, x : T = [name |-> n, own |-> o, local |-> l, index |-> x]
  BY DEF IsSym
<1>2. T.name = n /\ T.own = o /\ T.local = l
  BY <1>1
<1>3. PICK b : b = <<m, DefaultVar>>
  OBVIOUS
<1>4. PICK nn : nn = [v \in DOMAIN n \union {b} |-> IF v = b THEN d ELSE n[v]]
  OBVIOUS
<1>5. /\ DOMAIN nn = DOMAIN n \union {b} /\ nn[b] = d
      /\ \A v \in DOMAIN n \ {b} : nn[v] = n[v]
  BY <1>4
<1>6. PICK oo, c : oo = [o EXCEPT ![m] = o[m] \union {b}] /\ c = [l[m] EXCEPT ![DefaultName] = d]
  OBVIOUS
<1>7. PICK U : U = AddDefault(T, m, d)
  OBVIOUS
<1>8. U = [name |-> nn, own |-> oo, local |-> [l EXCEPT ![m] = c], index |-> x]
  <2>1. U = [T EXCEPT !.name = [v \in DOMAIN T.name \union {b} |-> IF v = b THEN d ELSE T.name[v]],
                      !.own[m] = T.own[m] \union {b},
                      !.local[m] = [T.local[m] EXCEPT ![DefaultName] = d]]
    BY <1>3, <1>7 DEF AddDefault
  <2>2. PICK k : k = o[m] \union {b}
    OBVIOUS
  <2>3. U = [T EXCEPT !.name = nn, !.own[m] = k, !.local[m] = c]
    BY <1>2, <1>4, <1>6, <2>1, <2>2
  <2>4. oo = [o EXCEPT ![m] = k]
    BY <1>6, <2>2
  <2> QED
    BY <1>1, <2>3, <2>4
<1>9. U.name = nn /\ U.own = oo
  BY <1>8
<1>10. m \in Scopes
  BY DEF Scopes
<1>11. DOMAIN oo = Scopes /\ oo[m] = o[m] \union {b} /\ \A t \in Scopes \ {m} : oo[t] = o[t]
  BY <1>2, <1>6, <1>10 DEF IsSym
<1>12. IsSym(U)
  <2>1. \A s \in Scopes : \A v \in oo[s] : v \in DOMAIN nn /\ v[1] = s
    BY <1>2, <1>3, <1>5, <1>11 DEF IsSym
  <2>2. \A s \in Scopes : OwnVars(s) \subseteq DOMAIN nn
    BY <1>2, <1>5 DEF IsSym
  <2>3. \A v \in DOMAIN nn : v[1] \in Scopes /\ (v[2] = DefaultVar => v[1] \in Modules)
    BY <1>2, <1>3, <1>5, <1>10 DEF IsSym
  <2>4. \E a, b2, c2, d2 : U = [name |-> a, own |-> b2, local |-> c2, index |-> d2]
    BY <1>8
  <2> QED
    BY <1>9, <1>11, <2>1, <2>2, <2>3, <2>4 DEF IsSym
<1> QED
  BY <1>2, <1>3, <1>5, <1>7, <1>9, <1>11, <1>12

-----------------------------------------------------------------------------
(* The tables while the stages go by: a module the first walk has not left   *)
(* has its variables as the parser made them, and no library has a name      *)
(* before GenAst.                                                            *)
SInv ==
  /\ IsSym(sym)
  /\ stage \in {"collect", "inner", "externals", "roots"} =>
       \A m \in Modules \ Walked : Untouched(sym, m)
  /\ stage \in {"collect", "inner", "externals"} => external = [l \in Libraries |-> NoImports]
  /\ stage = "inner" => prog.minify

(* What follows for the program. *)
LEMMA ProgramIs ==
  ASSUME CInv
  PROVE  /\ IsProgram(prog)
         /\ \A s \in Scopes : prog.owns[s] \subseteq Names /\ IsFiniteSet(OwnVars(s))
         /\ \A m \in Modules : m \in Scopes /\ m \notin Inner
<1>1. IsProgram(prog)
  BY LinkerAssumption DEF CInv
<1>2. ASSUME NEW s \in Scopes PROVE prog.owns[s] \subseteq Names /\ IsFiniteSet(OwnVars(s))
  <2>1. prog.owns[s] \subseteq Names
    BY <1>1 DEF IsProgram
  <2>2. IsFiniteSet(prog.owns[s])
    BY <2>1, LinkerAssumption, FS_Subset
  <2>3. PICK S, f : S = prog.owns[s] /\ f = [n \in S |-> <<s, n>>]
    OBVIOUS
  <2>4. IsFiniteSet(S) /\ DOMAIN f = S
    BY <2>2, <2>3
  <2>5. IsFiniteSet({f[n] : n \in S})
    BY <2>4, FiniteImage
  <2>6. {f[n] : n \in S} = OwnVars(s)
    BY <2>3 DEF OwnVars
  <2> QED
    BY <2>1, <2>5, <2>6
<1>3. \A m \in Modules : m \in Scopes /\ m \notin Inner
  BY LinkerAssumption DEF Scopes
<1> QED
  BY <1>1, <1>2, <1>3

(* They hold at the start. *)
LEMMA SInit == Init => WInv /\ SInv
<1> SUFFICES ASSUME Init PROVE WInv /\ SInv
  OBVIOUS
<1>1. CInv
  BY CInit
<1>2. /\ stage = "collect" /\ stack = <<>> /\ visited = {} /\ sym = SymbolsOf(prog)
      /\ external = [l \in Libraries |-> NoImports]
  BY DEF Init
<1>3. WInv
  BY <1>2, OnEntry DEF WInv, Walked
<1>4. PICK V : V = UNION {OwnVars(s) : s \in Scopes}
  OBVIOUS
<1>5. /\ sym.name = [v \in V |-> v[2]]
      /\ sym.own = [s \in Scopes |-> OwnVars(s)]
      /\ \E n, o, l, x : sym = [name |-> n, own |-> o, local |-> l, index |-> x]
  BY <1>2, <1>4 DEF SymbolsOf, OwnVars
<1>6. \A s \in Scopes : \A v \in OwnVars(s) : v \in V /\ v[1] = s
  BY <1>4 DEF OwnVars
<1>7. \A v \in V : \E s \in Scopes : v \in OwnVars(s)
  BY <1>4
<1>8. IsSym(sym)
  <2>1. DOMAIN sym.own = Scopes /\ DOMAIN sym.name = V
    BY <1>5
  <2>2. \A s \in Scopes : \A v \in sym.own[s] : v \in DOMAIN sym.name /\ v[1] = s
    BY <1>5, <1>6
  <2>3. \A s \in Scopes : OwnVars(s) \subseteq DOMAIN sym.name
    BY <2>1, <1>6
  <2>4. \A v \in DOMAIN sym.name : v[1] \in Scopes /\ (v[2] = DefaultVar => v[1] \in Modules)
    <3>1. ASSUME NEW s \in Scopes, NEW v \in OwnVars(s) PROVE v[2] # DefaultVar
      <4>1. PICK n \in prog.owns[s] : v = <<s, n>>
        BY <3>1 DEF OwnVars
      <4>2. n \in Names
        BY <1>1, ProgramIs
      <4> QED
        BY <4>1, <4>2, LinkerAssumption
    <3> QED
      BY <2>1, <1>6, <1>7, <3>1
  <2> QED
    BY <1>5, <2>1, <2>2, <2>3, <2>4 DEF IsSym
<1>9. ASSUME NEW m \in Modules PROVE Untouched(sym, m)
  <2>1. m \in Scopes
    BY DEF Scopes
  <2>2. \A v \in DOMAIN sym.name : v[1] = m => v \in OwnVars(m) /\ sym.name[v] = v[2]
    BY <1>5, <1>6, <1>7
  <2> QED
    BY <1>5, <2>1, <2>2 DEF Untouched
<1> QED
  BY <1>2, <1>3, <1>8, <1>9 DEF SInv

(* Naming an inner scope touches no variable of a module. *)
LEMMA InnerTouches ==
  ASSUME CInv, WInv, SInv, NEW s \in Inner, RenameInner(s)
  PROVE  WInv' /\ SInv'
<1>1. PICK order, names : sym' = RenameIn(sym, s, Changes(sym, order, names))
  BY DEF RenameInner
<1>2. /\ UNCHANGED <<prog, stage, stack, visited, external>> /\ stage = "inner"
  BY DEF RenameInner
<1>3. PICK ren : ren = Changes(sym, order, names)
  OBVIOUS
<1>4. s \in Scopes /\ \A m \in Modules : m # s /\ m \in Scopes
  BY ProgramIs DEF Scopes
<1>5. Changed(sym, sym', s, ren)
  BY <1>1, <1>3, <1>4, ScopeRenames DEF SInv
<1>6. IsSym(sym)' <=> /\ \E n, o, l, x : sym' = [name |-> n, own |-> o, local |-> l, index |-> x]
                      /\ DOMAIN sym'.own = Scopes
                      /\ \A t \in Scopes : \A v \in sym'.own[t] : v \in DOMAIN sym'.name /\ v[1] = t
                      /\ \A t \in Scopes : OwnVars(t) \subseteq DOMAIN sym'.name
                      /\ \A v \in DOMAIN sym'.name :
                           v[1] \in Scopes /\ (v[2] = DefaultVar => v[1] \in Modules)
  BY <1>2 DEF IsSym, OwnVars
<1>7. IsSym(sym)'
  BY <1>5, <1>6 DEF Changed, IsSym
<1>8. Walked' = Walked
  BY <1>2 DEF Walked
<1>9. WInv'
  BY <1>2, <1>8 DEF WInv, RefMods, ReferredTo, ReferencesOf
<1>10. ASSUME NEW m \in Modules \ Walked PROVE Untouched(sym, m)'
  <2>1. Untouched(sym, m)
    BY <1>2 DEF SInv
  <2>2. sym'.own[m] = sym.own[m]
    BY <1>4, <1>5 DEF Changed
  <2>3. \A v \in DOMAIN sym'.name : v[1] = m => v \in DOMAIN sym.name /\ sym'.name[v] = sym.name[v]
    <3>1. \A v \in sym.own[s] : v[1] = s
      BY <1>4 DEF SInv, IsSym
    <3>2. \A v : v[1] = m => v \notin Moved(sym, s, ren)
      BY <1>4, <3>1 DEF Moved
    <3> QED
      BY <1>5, <3>2 DEF Changed
  <2>4. Untouched(sym, m)' <=>
          /\ sym'.own[m] = OwnVars(m)
          /\ \A v \in DOMAIN sym'.name : v[1] = m => v \in OwnVars(m) /\ sym'.name[v] = v[2]
    BY <1>2 DEF Untouched, OwnVars
  <2> QED
    BY <2>1, <2>2, <2>3, <2>4 DEF Untouched
<1> QED
  BY <1>2, <1>7, <1>8, <1>9, <1>10 DEF SInv

(* What is said of the next tables can be said of them in this state. *)
LEMMA SymNext ==
  ASSUME prog' = prog
  PROVE  /\ IsSym(sym)' <=> IsSym(sym')
         /\ \A m : Untouched(sym, m)' <=> Untouched(sym', m)
         /\ \A m : OwnVars(m)' = OwnVars(m)
BY DEF IsSym, Untouched, OwnVars

(* Naming the variables of a module: they get the names the generator gives,  *)
(* and those of other modules stay.                                          *)
LEMMA RootTables ==
  ASSUME CInv, WInv, SInv, RenameRoot, NEW m, m = Last(stack)
  PROVE  /\ m \in Modules \ Walked /\ Walked' = Walked \union {m} /\ WInv' /\ SInv'
         /\ \A v \in DOMAIN sym'.name :
              v[1] # m => v \in DOMAIN sym.name /\ sym'.name[v] = sym.name[v]
         /\ \E order \in SetToSeqs(OwnVars(m)) : \E r, d :
              /\ r = NextNames(gen, Wanted(sym, order)) /\ d = NextName(r.gen, <<"_default">>)
              /\ \A i \in DOMAIN order : sym'.name[order[i]] = r.names[i]
              /\ \/ /\ gen' = r.gen
                    /\ \A v \in DOMAIN sym'.name : v[1] = m => v \in OwnVars(m)
                 \/ /\ gen' = d.gen
                    /\ \A v \in DOMAIN sym'.name : v[1] = m =>
                         v \in OwnVars(m) \/ (v = <<m, DefaultVar>> /\ sym'.name[v] = d.name)
<1>1. /\ stack # <<>> /\ Ready /\ stack' = Popped(stack) /\ stage = "roots"
      /\ UNCHANGED <<prog, stage, visited, external>>
  BY DEF RenameRoot
<1>2. m \in Modules \ Walked /\ Walked' = Walked \union {m} /\ WInv'
  BY <1>1, LeaveDoes
<1>3. Untouched(sym, m) /\ IsSym(sym) /\ m \in Scopes
  BY <1>1, <1>2, ProgramIs DEF SInv
<1>4. PICK order \in SetToSeqs(sym.own[m]) : \E r, T, d :
        /\ r = NextNames(gen, Wanted(sym, order))
        /\ T = RenameInModule(sym, m, Changes(sym, order, r.names))
        /\ d = NextName(r.gen, <<"_default">>)
        /\ IF HasDefault(m) THEN sym' = AddDefault(T, m, d.name) /\ gen' = d.gen
                            ELSE sym' = T /\ gen' = r.gen
  BY DEF RenameRoot
<1>5. PICK r, T, d :
        /\ r = NextNames(gen, Wanted(sym, order))
        /\ T = RenameInModule(sym, m, Changes(sym, order, r.names))
        /\ d = NextName(r.gen, <<"_default">>)
        /\ IF HasDefault(m) THEN sym' = AddDefault(T, m, d.name) /\ gen' = d.gen
                            ELSE sym' = T /\ gen' = r.gen
  BY <1>4
<1>6. PICK S, b : S = OwnVars(m) /\ b = <<m, DefaultVar>>
  OBVIOUS
<1>7. sym.own[m] = S /\ IsFiniteSet(S) /\ order \in SetToSeqs(S)
  BY <1>3, <1>4, <1>6, ProgramIs DEF Untouched
<1>8. /\ DOMAIN order = 1 .. Cardinality(S)
      /\ \A v \in S : \E i \in DOMAIN order : order[i] = v
      /\ \A i \in DOMAIN order : order[i] \in S
  BY <1>7, OrderCovers
<1>9. b \notin S /\ \A v \in S : v[1] = m
  BY <1>3, <1>6, ProgramIs, LinkerAssumption DEF OwnVars
<1>10. Changed(sym, T, m, Changes(sym, order, r.names))
  BY <1>2, <1>3, <1>5, ScopeRenames
<1>11. \A v, w \in S : sym.name[v] = sym.name[w] => v = w
  <2>1. \A v \in S : v \in DOMAIN sym.name /\ v[1] = m
    BY <1>3, <1>7 DEF IsSym
  <2>2. \A v \in S : sym.name[v] = v[2]
    BY <1>3, <2>1 DEF Untouched
  <2>3. \A v \in S : v = <<m, v[2]>>
    BY <1>6 DEF OwnVars
  <2> QED
    BY <2>2, <2>3
<1>12. /\ \A i \in DOMAIN order : T.name[order[i]] = r.names[i]
       /\ \A v \in DOMAIN sym.name \ S : T.name[v] = sym.name[v]
  <2>1. Renamed(sym, T, m, order, r.names)
    BY <1>3, <1>4, <1>7, <1>10, <1>11 DEF Renamed
  <2>2. /\ \A i \in 1 .. Cardinality(sym.own[m]) : T.name[order[i]] = r.names[i]
        /\ \A v \in DOMAIN sym.name \ sym.own[m] : T.name[v] = sym.name[v]
    BY <2>1, ChangesName
  <2> QED
    BY <1>7, <1>8, <2>2
<1>13. IsSym(T) /\ DOMAIN T.name = DOMAIN sym.name /\ \A t \in Scopes \ {m} : T.own[t] = sym.own[t]
  BY <1>10 DEF Changed
<1>14. PICK e : e = d.name
  OBVIOUS
<1>15. \/ sym' = T /\ gen' = r.gen
       \/ sym' = AddDefault(T, m, e) /\ gen' = d.gen
  BY <1>5, <1>14
<1>16. /\ IsSym(sym') /\ \A t \in Scopes \ {m} : sym'.own[t] = sym.own[t]
       /\ \A v \in DOMAIN sym.name : v # b => sym'.name[v] = T.name[v]
       /\ \/ sym' = T /\ gen' = r.gen /\ DOMAIN sym'.name = DOMAIN sym.name
          \/ gen' = d.gen /\ DOMAIN sym'.name = DOMAIN sym.name \union {b} /\ sym'.name[b] = e
  <2>1. CASE sym' = T /\ gen' = r.gen
    BY <1>13, <2>1
  <2>2. CASE sym' = AddDefault(T, m, e) /\ gen' = d.gen
    <3>1. PICK U : U = AddDefault(T, m, e)
      OBVIOUS
    <3>2. /\ IsSym(U) /\ DOMAIN U.name = DOMAIN T.name \union {b}
          /\ \A v \in DOMAIN T.name \ {b} : U.name[v] = T.name[v]
          /\ U.name[b] = e /\ \A t \in Scopes \ {m} : U.own[t] = T.own[t]
      BY <1>2, <1>6, <1>13, <3>1, DefaultAdded
    <3> QED
      BY <1>13, <2>2, <3>1, <3>2
  <2> QED
    BY <1>15, <2>1, <2>2
<1>17. \A v \in DOMAIN sym.name : v[1] = m => v \in S
  BY <1>3, <1>6 DEF Untouched
<1>18. \A i \in DOMAIN order : sym'.name[order[i]] = r.names[i]
  <2> SUFFICES ASSUME NEW i \in DOMAIN order PROVE sym'.name[order[i]] = r.names[i]
    OBVIOUS
  <2>1. order[i] \in S /\ order[i] # b
    BY <1>8, <1>9
  <2>2. order[i] \in DOMAIN sym.name
    BY <1>3, <1>7, <2>1 DEF IsSym
  <2> QED
    BY <1>12, <1>16, <2>1, <2>2
<1>19. \A v \in DOMAIN sym'.name :
         v[1] # m => v \in DOMAIN sym.name /\ sym'.name[v] = sym.name[v]
  <2> SUFFICES ASSUME NEW v \in DOMAIN sym'.name, v[1] # m
               PROVE  v \in DOMAIN sym.name /\ sym'.name[v] = sym.name[v]
    OBVIOUS
  <2>1. v # b /\ v \notin S
    BY <1>6, <1>9
  <2>2. v \in DOMAIN sym.name
    BY <1>16, <2>1
  <2> QED
    BY <1>12, <1>16, <2>1, <2>2
<1>20. \/ /\ gen' = r.gen
          /\ \A v \in DOMAIN sym'.name : v[1] = m => v \in S
       \/ /\ gen' = d.gen
          /\ \A v \in DOMAIN sym'.name : v[1] = m => v \in S \/ (v = b /\ sym'.name[v] = d.name)
  BY <1>14, <1>16, <1>17
<1>21. SInv'
  <2>1. IsSym(sym)'
    BY <1>1, <1>16, SymNext
  <2>2. ASSUME NEW t \in Modules \ Walked' PROVE Untouched(sym, t)'
    <3>1. t \in Modules \ Walked /\ t # m /\ t \in Scopes
      BY <1>2, <2>2, ProgramIs
    <3>2. Untouched(sym, t) /\ sym'.own[t] = sym.own[t]
      BY <1>1, <1>16, <3>1 DEF SInv
    <3>3. Untouched(sym', t)
      BY <1>19, <3>1, <3>2 DEF Untouched
    <3> QED
      BY <1>1, <3>3, SymNext
  <2> QED
    BY <1>1, <2>1, <2>2 DEF SInv
<1>22. \E r2, d2 :
              /\ r2 = NextNames(gen, Wanted(sym, order)) /\ d2 = NextName(r2.gen, <<"_default">>)
              /\ \A i \in DOMAIN order : sym'.name[order[i]] = r2.names[i]
              /\ \/ /\ gen' = r2.gen
                    /\ \A v \in DOMAIN sym'.name : v[1] = m => v \in S
                 \/ /\ gen' = d2.gen
                    /\ \A v \in DOMAIN sym'.name : v[1] = m =>
                         v \in S \/ (v = b /\ sym'.name[v] = d2.name)
  BY <1>5, <1>18, <1>20
<1> QED
  BY <1>2, <1>6, <1>7, <1>19, <1>21, <1>22

-----------------------------------------------------------------------------
(* The names of the bundle's one scope that are settled so far: those of the  *)
(* CommonJS modules, of the libraries, and of the variables that the first    *)
(* walk has named and the second will not rename.                            *)
CallBindings ==
  {[name |-> Called(prog).names[k], is |-> <<"call", <<ToString(k)>>>>] : k \in DOMAIN prog.calls}
LibraryBindings == UNION {ExternalBindings(l) : l \in Libraries}
Settled ==
  CASE stage = "roots" -> {v \in DOMAIN sym.name : v[1] \in Walked}
    [] stage \in {"imports", "done"} ->
         {v \in DOMAIN sym.name : v[1] \in Modules /\ (v[1] \notin Walked \/ Declared(v))}
    [] OTHER -> {}
VariableBindings == {[name |-> sym.name[v], is |-> v] : v \in Settled}
Bound == CallBindings \union LibraryBindings \union VariableBindings

(* The name of b is not one to be avoided; readable, it is one a source has    *)
(* for it, or one with a number.                                            *)
Meant(g, b) == IF g.minify THEN b.name \notin g.used ELSE IsNumbered(b.name) \/ b.name \in SourceNames(b.is)

(* The generator knows the names in B, they are meant for what has them, and  *)
(* no two things have one.                                                  *)
Taken(g, B) ==
  /\ \A b \in B : Given(g, b.name) /\ Meant(g, b)
  /\ \A b, c \in B : b.name = c.name => b = c

(* h is g after it has given names.                                          *)
Later(g, h) ==
  /\ h.minify = g.minify /\ (g.minify => h.used = g.used)
  /\ \A x : Given(g, x) => Given(h, x)

Assumed == NoNumberedNames /\ CallNamesKnown
NInv == Assumed => Sound(gen) /\ gen.minify = prog.minify /\ Taken(gen, Bound)

(* Fewer things have fewer names. *)
LEMMA TakenFewer ==
  ASSUME NEW g, NEW B, NEW C, C \subseteq B, Taken(g, B)
  PROVE  Taken(g, C)
BY DEF Taken

(* New names for more things. *)
LEMMA TakenMore ==
  ASSUME NEW g, NEW h, NEW B, NEW C, Taken(g, B), Taken(h, C),
         Later(g, h), \A c \in C : ~ Given(g, c.name)
  PROVE  Taken(h, B \union C)
BY DEF Taken, Later, Meant

(* ... and later yet. *)
LEMMA LaterYet ==
  ASSUME NEW g, NEW h, NEW k, Later(g, h), Later(h, k)
  PROVE  Later(g, k)
BY DEF Later

(* What a variable, a library's export or a CommonJS module is called. *)
LEMMA SourceNamesAre ==
  /\ \A s \in Scopes : \A n : n # DefaultVar => SourceNames(<<s, n>>) = {n}
  /\ \A m \in Modules : SourceNames(<<m, DefaultVar>>) = {<<"_default">>}
  /\ \A l \in Libraries : \A x : SourceNames(<<l, x>>) = {x} \union LocalsOf(l)
  /\ \A k : SourceNames(<<"call", k>>) = ToSet(prog.calls)
BY LinkerAssumption DEF SourceNames, Scopes

(* A list of names given to things: to the i-th, f[i]. *)
GivenTo(g, w, C, f) ==
  /\ Sound(g) /\ Len(w) \in Nat
  /\ \A i \in 1 .. Len(w) : g.minify \/ (Plain(w[i]) /\ w[i] \in SourceNames(f[i]))
  /\ \A c \in C : \E i \in 1 .. Len(w) : c = [name |-> NextNames(g, w).names[i], is |-> f[i]]

(* They are new and no two are the same. *)
LEMMA NamesTaken ==
  ASSUME NumeralsDiffer, NEW g, NEW w, NEW C, NEW f, GivenTo(g, w, C, f)
  PROVE  /\ Taken(NextNames(g, w).gen, C) /\ \A c \in C : ~ Given(g, c.name)
         /\ Later(g, NextNames(g, w).gen) /\ Sound(NextNames(g, w).gen)
<1>1. PICK r, n : r = NextNames(g, w) /\ n = r.names
  OBVIOUS
<1>0. /\ Sound(g) /\ Len(w) \in Nat
      /\ \A i \in 1 .. Len(w) : g.minify \/ (Plain(w[i]) /\ w[i] \in SourceNames(f[i]))
  BY DEF GivenTo
<1>2. /\ \A i \in 1 .. Len(w) : ~ Given(g, n[i]) /\ Given(r.gen, n[i])
      /\ \A i, j \in 1 .. Len(w) : n[i] = n[j] => i = j
      /\ \A x : Given(g, x) => Given(r.gen, x)
      /\ Sound(r.gen) /\ r.gen.minify = g.minify
  BY <1>0, <1>1, NextNamesFresh
<1>6. (\A i \in 1 .. Len(w) : Chosen(g, r.gen, w[i], n[i])) /\ (g.minify => r.gen.used = g.used)
  BY <1>0, <1>1, NextNamesAre DEF Sound
<1>3. \A c \in C : \E i \in 1 .. Len(w) : c = [name |-> n[i], is |-> f[i]]
  BY <1>1 DEF GivenTo
<1>4. \A c \in C : ~ Given(g, c.name) /\ Given(r.gen, c.name)
  BY <1>2, <1>3
<1>5. ASSUME NEW b \in C, NEW c \in C, b.name = c.name PROVE b = c
  <2>1. PICK i \in 1 .. Len(w) : b = [name |-> n[i], is |-> f[i]]
    BY <1>3
  <2>2. PICK j \in 1 .. Len(w) : c = [name |-> n[j], is |-> f[j]]
    BY <1>3
  <2>3. i = j
    BY <1>2, <1>5, <2>1, <2>2
  <2> QED
    BY <2>1, <2>2, <2>3
<1>7. ASSUME NEW c \in C PROVE Meant(r.gen, c)
  <2>1. PICK i \in 1 .. Len(w) : c = [name |-> n[i], is |-> f[i]]
    BY <1>3
  <2>2. c.name = n[i] /\ c.is = f[i] /\ Chosen(g, r.gen, w[i], n[i])
    BY <1>6, <2>1
  <2> QED
    BY <1>0, <1>2, <1>6, <2>2 DEF Meant, Chosen
<1>8. Taken(r.gen, C)
  BY <1>4, <1>5, <1>7 DEF Taken
<1>9. Later(g, r.gen)
  BY <1>2, <1>6 DEF Later
<1> QED
  BY <1>1, <1>2, <1>4, <1>8, <1>9

(* Names of the sources are plain. *)
LEMMA PlainNames ==
  ASSUME CInv, NoNumberedNames
  PROVE  /\ \A s \in Scopes : \A n \in prog.owns[s] : prog.minify \/ Plain(n)
         /\ Len(prog.calls) \in Nat /\ DOMAIN prog.calls = 1 .. Len(prog.calls)
         /\ \A i \in 1 .. Len(prog.calls) : prog.minify \/ Plain(prog.calls[i])
         /\ \A i \in 1 .. Len(prog.calls) : prog.calls[i] \in ToSet(prog.calls)
<1>1. IsProgram(prog)
  BY ProgramIs
<1>2. ASSUME NEW n \in Names, ~ IsNumbered(n) PROVE Plain(n)
  BY <1>2, LinkerAssumption DEF Plain, Unnamed
<1>3. \A s \in Scopes : \A n \in prog.owns[s] : prog.minify \/ Plain(n)
  BY <1>1, <1>2, ProgramIs DEF NoNumberedNames
<1>4. /\ Len(prog.calls) \in Nat /\ DOMAIN prog.calls = 1 .. Len(prog.calls)
      /\ \A i \in 1 .. Len(prog.calls) : prog.minify \/ Plain(prog.calls[i])
      /\ \A i \in 1 .. Len(prog.calls) : prog.calls[i] \in ToSet(prog.calls)
  <2>1. PICK c : c = prog.calls
    OBVIOUS
  <2>2. c \in Seq(Names)
    BY <1>1, <2>1 DEF IsProgram
  <2>3. Len(c) \in Nat /\ DOMAIN c = 1 .. Len(c) /\ \A i \in 1 .. Len(c) : c[i] \in Names
    BY <2>2
  <2>4. \A i \in 1 .. Len(c) : c[i] \in ToSet(c)
    BY <2>3 DEF ToSet
  <2> QED
    BY <1>2, <2>1, <2>3, <2>4 DEF NoNumberedNames
<1> QED
  BY <1>3, <1>4

(* Which variables are settled at which stage. *)
LEMMA SettledIs ==
  /\ stage = "roots" => Settled = {v \in DOMAIN sym.name : v[1] \in Walked}
  /\ stage \in {"imports", "done"} =>
       Settled = {v \in DOMAIN sym.name : v[1] \in Modules /\ (v[1] \notin Walked \/ Declared(v))}
  /\ stage \in {"collect", "inner", "externals", "failed"} => Settled = {}
BY DEF Settled

(* ... and in the next state. *)
LEMMA SettledNext ==
  ASSUME prog' = prog
  PROVE  /\ stage' = "roots" => Settled' = {v \in DOMAIN sym'.name : v[1] \in Walked'}
         /\ stage' \in {"imports", "done"} =>
              Settled' = {v \in DOMAIN sym'.name : v[1] \in Modules /\ (v[1] \notin Walked' \/ Declared(v))}
         /\ stage' \in {"collect", "inner", "externals", "failed"} => Settled' = {}
<1>1. \A v : Declared(v)' <=> Declared(v)
  BY DEF Declared, ImportsOf
<1>2. ASSUME stage' \in {"imports", "done"}
      PROVE  Settled' = {v \in DOMAIN sym'.name : v[1] \in Modules /\ (v[1] \notin Walked' \/ Declared(v)')}
  BY <1>2 DEF Settled
<1>3. stage' \in {"collect", "inner", "externals", "failed"} => Settled' = {}
  BY DEF Settled
<1>4. stage' = "roots" => Settled' = {v \in DOMAIN sym'.name : v[1] \in Walked'}
  BY DEF Settled
<1> QED
  BY <1>1, <1>2, <1>3, <1>4

(* What is bound in the next state. *)
LEMMA BoundNext ==
  ASSUME prog' = prog
  PROVE  /\ Bound' = CallBindings \union LibraryBindings' \union VariableBindings'
         /\ external' = external => LibraryBindings' = LibraryBindings
         /\ Settled' = {} => VariableBindings' = {}
         /\ (\A v \in Settled' : v \in Settled /\ sym'.name[v] = sym.name[v])
              => VariableBindings' \subseteq VariableBindings
         /\ Assumed' <=> Assumed
<1>1. CallBindings' = CallBindings
  BY DEF CallBindings, Called
<1>2. external' = external => LibraryBindings' = LibraryBindings
  BY DEF LibraryBindings, ExternalBindings
<1>3. VariableBindings' = {[name |-> sym'.name[v], is |-> v] : v \in Settled'}
  BY DEF VariableBindings
<1>4. ASSUME \A v \in Settled' : v \in Settled /\ sym'.name[v] = sym.name[v]
      PROVE  VariableBindings' \subseteq VariableBindings
  BY <1>3, <1>4 DEF VariableBindings
<1>5. Assumed' <=> Assumed
  BY DEF Assumed, NoNumberedNames, CallNamesKnown
<1>6. Bound' = CallBindings \union LibraryBindings' \union VariableBindings'
  BY <1>1 DEF Bound
<1> QED
  BY <1>2, <1>3, <1>4, <1>5, <1>6

(* The invariant of the next state, from what is bound there. *)
LEMMA NNext ==
  ASSUME prog' = prog, Assumed => Sound(gen') /\ gen'.minify = prog.minify /\ Taken(gen', Bound')
  PROVE  NInv'
<1>1. Assumed' <=> Assumed
  BY BoundNext
<1>2. NInv' <=> (Assumed' => Sound(gen') /\ gen'.minify = prog.minify /\ Taken(gen', Bound'))
  BY DEF NInv, Sound, IsGen, Taken, Given, Meant, SourceNames, LocalsOf
<1> QED
  BY <1>1, <1>2

(* The generator has given more names, and only names it had not given.      *)
Grown == Later(gen, gen') /\ \A b \in Bound' : b \in Bound \/ ~ Given(gen, b.name)

(* A step that gives no name. *)
LEMMA Quiet ==
  ASSUME NInv, UNCHANGED <<prog, external, gen>>,
         \A v \in Settled' : v \in Settled /\ sym'.name[v] = sym.name[v]
  PROVE  NInv' /\ Grown
<1>1. Bound' \subseteq Bound
  BY BoundNext DEF Bound
<1>2. Assumed => Taken(gen, Bound')
  BY <1>1, TakenFewer DEF NInv
<1>3. Assumed => Sound(gen') /\ gen'.minify = prog.minify /\ Taken(gen', Bound')
  BY <1>2 DEF NInv
<1>4. Grown
  BY <1>1 DEF Grown, Later
<1> QED
  BY <1>3, <1>4, NNext

(* No library has a name before GenAst. *)
LEMMA NoLibraryBindings ==
  ASSUME external = [l \in Libraries |-> NoImports]
  PROVE  LibraryBindings = {}
<1>1. ASSUME NEW l \in Libraries PROVE ExternalBindings(l) = {}
  <2>1. external[l].ns = Unnamed /\ external[l].default = Unnamed /\ external[l].names = <<>>
    BY DEF NoImports
  <2>2. ToSet(Named(external[l].ns)) = {} /\ ToSet(Named(external[l].default)) = {}
    BY <2>1 DEF Named, ToSet
  <2>3. ToSet(external[l].names) = {}
    BY <2>1 DEF ToSet
  <2> QED
    BY <2>2, <2>3 DEF ExternalBindings
<1> QED
  BY <1>1 DEF LibraryBindings

(* The names of the CommonJS modules. *)
LEMMA NInit ==
  ASSUME NumeralsDiffer, Init
  PROVE  NInv
<1> SUFFICES ASSUME Assumed PROVE Sound(gen) /\ gen.minify = prog.minify /\ Taken(gen, Bound)
  BY DEF NInv
<1>1. /\ stage = "collect" /\ gen = Called(prog).gen /\ external = [l \in Libraries |-> NoImports]
      /\ CInv
  BY CInit DEF Init
<1>2. PICK g, w : g = [minify |-> prog.minify, used |-> {}, counter |-> 0] /\ w = prog.calls
  OBVIOUS
<1>3. Called(prog) = NextNames(g, w)
  BY <1>2 DEF Called
<1>4. Sound(g)
  <2>1. IsProgram(prog)
    BY <1>1, ProgramIs
  <2>2. prog.minify \in BOOLEAN /\ IsFiniteSet({})
    BY <2>1, FS_EmptySet DEF IsProgram
  <2>3. IsGen(g)
    BY <1>2, <2>2 DEF IsGen
  <2> QED
    BY <1>2, <2>3 DEF Sound
<1>5. /\ Len(w) \in Nat /\ DOMAIN w = 1 .. Len(w)
      /\ \A i \in 1 .. Len(w) : (g.minify \/ Plain(w[i])) /\ w[i] \in ToSet(prog.calls)
  BY <1>1, <1>2, PlainNames DEF Assumed
<1>6. PICK f : f = [i \in 1 .. Len(w) |-> <<"call", <<ToString(i)>>>>]
  OBVIOUS
<1>7. \A c \in CallBindings : \E i \in 1 .. Len(w) : c = [name |-> NextNames(g, w).names[i], is |-> f[i]]
  BY <1>2, <1>3, <1>5, <1>6 DEF CallBindings
<1>8. /\ Taken(NextNames(g, w).gen, CallBindings) /\ Sound(NextNames(g, w).gen)
      /\ NextNames(g, w).gen.minify = g.minify
  <2>1. \A i \in 1 .. Len(w) : w[i] \in SourceNames(f[i])
    BY <1>5, <1>6, SourceNamesAre
  <2>2. GivenTo(g, w, CallBindings, f)
    BY <1>4, <1>5, <1>7, <2>1 DEF GivenTo
  <2> QED
    BY <2>2, NamesTaken DEF Later
<1>9. Settled = {} /\ LibraryBindings = {}
  BY <1>1, SettledIs, NoLibraryBindings
<1>10. Bound = CallBindings
  BY <1>9 DEF Bound, VariableBindings
<1> QED
  BY <1>1, <1>2, <1>3, <1>8, <1>10

(* The generators of all inner scopes, merged: no name is settled yet. *)
LEMMA NMerge ==
  ASSUME CInv, SInv, NInv, MergeGenerators
  PROVE  NInv' /\ (Assumed => Bound' = {})
<1>1. /\ stage = "inner" /\ stage' = "externals" /\ AllRenamed /\ gen' = RootGenerator
      /\ UNCHANGED <<prog, external>>
  BY DEF MergeGenerators
<1>2. prog.minify = TRUE /\ external = [l \in Libraries |-> NoImports]
  <2>1. prog.minify \in BOOLEAN
    BY ProgramIs DEF IsProgram
  <2> QED
    BY <1>1, <2>1 DEF SInv
<1>3. PICK c, u : u = Globals /\ c = Max({0} \union {counters[s] : s \in Inner})
  OBVIOUS
<1>4. gen' = [minify |-> TRUE, used |-> u, counter |-> c]
  BY <1>1, <1>3 DEF RootGenerator, Merge
<1>5. c \in Nat
  <2>1. PICK S : S = {counters[s] : s \in Inner}
    OBVIOUS
  <2>2. IsFiniteSet(S)
    <3>1. DOMAIN counters = Inner /\ IsFiniteSet(Inner)
      BY LinkerAssumption DEF CInv
    <3> QED
      BY <2>1, <3>1, FiniteImage
  <2>3. S \subseteq Nat
    BY <1>1, <2>1 DEF CInv, AllRenamed
  <2>4. IsFiniteSet({0} \union S)
    BY <2>2, FS_Singleton, FS_Union
  <2>5. {0} \union S \in SUBSET Nat /\ {0} \union S # {}
    BY <2>3
  <2>6. Max({0} \union S) \in {0} \union S
    BY <2>4, <2>5, Greatest
  <2> QED
    BY <1>3, <2>1, <2>5, <2>6
<1>6. IsFiniteSet(u)
  <2>1. Globals \subseteq Names
    BY ProgramIs DEF Globals, IsProgram
  <2> QED
    BY <1>3, <2>1, LinkerAssumption, FS_Subset
<1>7. Sound(gen') /\ gen'.minify = prog.minify
  <2>1. IsGen(gen') /\ gen'.minify = TRUE
    BY <1>4, <1>5, <1>6 DEF IsGen
  <2> QED
    BY <1>2, <2>1 DEF Sound
<1>8. ASSUME Assumed PROVE Bound' = {}
  <2>1. prog.calls = <<>>
    BY <1>2, <1>8 DEF Assumed, CallNamesKnown
  <2>2. CallBindings = {}
    BY <2>1 DEF CallBindings
  <2>3. LibraryBindings' = {} /\ Settled' = {}
    BY <1>1, <1>2, BoundNext, NoLibraryBindings, SettledNext
  <2> QED
    BY <1>1, <2>2, <2>3, BoundNext
<1>9. Assumed => Sound(gen') /\ gen'.minify = prog.minify /\ Taken(gen', Bound')
  BY <1>7, <1>8 DEF Taken
<1> QED
  BY <1>1, <1>8, <1>9, NNext

(* Naming the variables of a module: every name is new. *)
LEMMA NRoot ==
  ASSUME NumeralsDiffer, CInv, WInv, SInv, NInv, RenameRoot
  PROVE  NInv' /\ (Assumed => Grown)
<1> SUFFICES ASSUME Assumed PROVE Sound(gen') /\ gen'.minify = prog.minify /\ Taken(gen', Bound') /\ Grown
  <2>1. prog' = prog
    BY DEF RenameRoot
  <2> QED
    BY <2>1, NNext
<1>1. UNCHANGED <<prog, stage, external>> /\ stage = "roots"
  BY DEF RenameRoot
<1>2. PICK m : m = Last(stack)
  OBVIOUS
<1>3. /\ m \in Modules \ Walked /\ Walked' = Walked \union {m}
      /\ \A v \in DOMAIN sym'.name : v[1] # m => v \in DOMAIN sym.name /\ sym'.name[v] = sym.name[v]
  BY <1>2, RootTables
<1>4. PICK order \in SetToSeqs(OwnVars(m)) : \E r, d :
        /\ r = NextNames(gen, Wanted(sym, order)) /\ d = NextName(r.gen, <<"_default">>)
        /\ \A i \in DOMAIN order : sym'.name[order[i]] = r.names[i]
        /\ \/ /\ gen' = r.gen
              /\ \A v \in DOMAIN sym'.name : v[1] = m => v \in OwnVars(m)
           \/ /\ gen' = d.gen
              /\ \A v \in DOMAIN sym'.name : v[1] = m =>
                   v \in OwnVars(m) \/ (v = <<m, DefaultVar>> /\ sym'.name[v] = d.name)
  BY <1>2, RootTables
<1>5. PICK r, d :
        /\ r = NextNames(gen, Wanted(sym, order)) /\ d = NextName(r.gen, <<"_default">>)
        /\ \A i \in DOMAIN order : sym'.name[order[i]] = r.names[i]
        /\ \/ /\ gen' = r.gen
              /\ \A v \in DOMAIN sym'.name : v[1] = m => v \in OwnVars(m)
           \/ /\ gen' = d.gen
              /\ \A v \in DOMAIN sym'.name : v[1] = m =>
                   v \in OwnVars(m) \/ (v = <<m, DefaultVar>> /\ sym'.name[v] = d.name)
  BY <1>4
<1>6. PICK S, w : S = OwnVars(m) /\ w = Wanted(sym, order)
  OBVIOUS
<1>7. m \in Modules /\ m \in Scopes /\ IsFiniteSet(S) /\ Untouched(sym, m) /\ IsSym(sym)
  BY <1>1, <1>3, <1>6, ProgramIs DEF SInv
<1>8. /\ Cardinality(S) \in Nat /\ DOMAIN order = 1 .. Cardinality(S)
      /\ \A i \in 1 .. Cardinality(S) : order[i] \in S
      /\ \A v \in S : \E i \in 1 .. Cardinality(S) : order[i] = v
  BY <1>4, <1>6, <1>7, OrderCovers
<1>9. Len(w) = Cardinality(S) /\ w = [i \in DOMAIN order |-> sym.name[order[i]]]
  BY <1>6, <1>8 DEF Wanted
<1>10. ASSUME NEW i \in 1 .. Len(w) PROVE gen.minify \/ (Plain(w[i]) /\ w[i] \in SourceNames(order[i]))
  <2>1. order[i] \in S /\ w[i] = sym.name[order[i]]
    BY <1>8, <1>9
  <2>2. PICK n \in prog.owns[m] : order[i] = <<m, n>>
    BY <1>6, <2>1 DEF OwnVars
  <2>3. order[i] \in DOMAIN sym.name
    BY <1>6, <1>7, <2>1 DEF IsSym
  <2>4. sym.name[order[i]] = n
    BY <1>7, <2>2, <2>3 DEF Untouched
  <2>5. gen.minify \/ Plain(n)
    BY <1>7, <2>2, PlainNames DEF Assumed, NInv
  <2>6. n # DefaultVar
    BY <1>7, <2>2, ProgramIs, LinkerAssumption
  <2>7. n \in SourceNames(order[i])
    BY <1>7, <2>2, <2>6, SourceNamesAre
  <2> QED
    BY <2>1, <2>4, <2>5, <2>7
<1>11. PICK C : C = {[name |-> sym'.name[v], is |-> v] : v \in S}
  OBVIOUS
<1>12. GivenTo(gen, w, C, order)
  <2>1. \A c \in C : \E i \in 1 .. Len(w) : c = [name |-> NextNames(gen, w).names[i], is |-> order[i]]
    <3> SUFFICES ASSUME NEW c \in C
                 PROVE  \E i \in 1 .. Len(w) : c = [name |-> NextNames(gen, w).names[i], is |-> order[i]]
      OBVIOUS
    <3>1. PICK v \in S : c = [name |-> sym'.name[v], is |-> v]
      BY <1>11
    <3>2. PICK i \in 1 .. Cardinality(S) : order[i] = v
      BY <1>8
    <3>3. sym'.name[v] = NextNames(gen, w).names[i]
      BY <1>5, <1>6, <1>8, <3>2
    <3> QED
      BY <1>9, <3>1, <3>2, <3>3
  <2>2. Sound(gen) /\ Len(w) \in Nat
    BY <1>8, <1>9 DEF NInv
  <2> QED
    BY <1>10, <2>1, <2>2 DEF GivenTo
<1>13. /\ Taken(r.gen, C) /\ \A c \in C : ~ Given(gen, c.name)
       /\ Later(gen, r.gen) /\ Sound(r.gen)
  <2>1. r = NextNames(gen, w)
    BY <1>5, <1>6
  <2> QED
    BY <1>12, <2>1, NamesTaken
<1>14. Taken(gen, Bound) /\ gen.minify = prog.minify
  BY DEF NInv
<1>15. Taken(r.gen, Bound \union C)
  BY <1>13, <1>14, TakenMore
<1>16. PICK b : b = [name |-> d.name, is |-> <<m, DefaultVar>>]
  OBVIOUS
<1>17. Plain(<<"_default">>)
  <2>1. PICK x : x = "_default"
    OBVIOUS
  <2>2. <<x>> \in Seq({x}) /\ Len(<<x>>) = 1 /\ <<x>> # <<>>
    OBVIOUS
  <2>3. ~ IsNumbered(<<x>>)
    BY <2>2 DEF IsNumbered
  <2> QED
    BY <2>1, <2>2, <2>3 DEF Plain
<1>18. /\ Sound(d.gen) /\ Later(r.gen, d.gen)
       /\ ~ Given(r.gen, d.name) /\ Given(d.gen, d.name) /\ Meant(d.gen, b)
  <2>1. /\ Sound(d.gen) /\ d.gen.minify = r.gen.minify
        /\ ~ Given(r.gen, d.name) /\ Given(d.gen, d.name) /\ \A x : Given(r.gen, x) => Given(d.gen, x)
    BY <1>5, <1>13, <1>17, NextNameFresh
  <2>2. Chosen(r.gen, d.gen, <<"_default">>, d.name) /\ (r.gen.minify => d.gen.used = r.gen.used)
    BY <1>5, <1>13, <1>17, NextNameIs DEF Sound
  <2>3. SourceNames(b.is) = {<<"_default">>} /\ b.name = d.name
    BY <1>7, <1>16, SourceNamesAre
  <2> QED
    BY <2>1, <2>2, <2>3 DEF Later, Meant, Chosen
<1>19. Taken(d.gen, (Bound \union C) \union {b})
  <2>1. Taken(d.gen, {b}) /\ \A c \in {b} : ~ Given(r.gen, c.name)
    <3>1. b.name = d.name
      BY <1>16
    <3> QED
      BY <1>18, <3>1 DEF Taken
  <2> QED
    BY <1>15, <1>18, <2>1, TakenMore
<1>20. /\ Settled = {v \in DOMAIN sym.name : v[1] \in Walked}
       /\ Settled' = {v \in DOMAIN sym'.name : v[1] \in Walked \union {m}}
  BY <1>1, <1>3, SettledIs, SettledNext
<1>21. /\ Bound' = CallBindings \union LibraryBindings \union VariableBindings'
       /\ VariableBindings' = {[name |-> sym'.name[v], is |-> v] : v \in Settled'}
       /\ Bound = CallBindings \union LibraryBindings \union VariableBindings
       /\ VariableBindings = {[name |-> sym.name[v], is |-> v] : v \in Settled}
  <2>1. LibraryBindings' = LibraryBindings
    BY <1>1, BoundNext
  <2>2. Bound' = CallBindings \union LibraryBindings' \union VariableBindings'
    BY <1>1, BoundNext
  <2> QED
    BY <2>1, <2>2 DEF Bound, VariableBindings
<1>22. ASSUME NEW v \in Settled', v[1] # m PROVE [name |-> sym'.name[v], is |-> v] \in Bound
  <2>1. v \in Settled /\ sym'.name[v] = sym.name[v]
    BY <1>3, <1>20, <1>22
  <2> QED
    BY <1>21, <2>1
<1>23. CASE gen' = r.gen /\ \A v \in DOMAIN sym'.name : v[1] = m => v \in OwnVars(m)
  <2>1. ASSUME NEW v \in Settled' PROVE [name |-> sym'.name[v], is |-> v] \in Bound \union C
    BY <1>6, <1>11, <1>20, <1>22, <1>23
  <2>2. Bound' \subseteq Bound \union C
    BY <1>21, <2>1
  <2> QED
    BY <1>13, <1>14, <1>15, <1>23, <2>2, TakenFewer DEF Later, Grown
<1>24. CASE /\ gen' = d.gen
            /\ \A v \in DOMAIN sym'.name : v[1] = m =>
                 v \in OwnVars(m) \/ (v = <<m, DefaultVar>> /\ sym'.name[v] = d.name)
  <2>1. ASSUME NEW v \in Settled' PROVE [name |-> sym'.name[v], is |-> v] \in (Bound \union C) \union {b}
    BY <1>6, <1>11, <1>16, <1>20, <1>22, <1>24
  <2>2. Bound' \subseteq (Bound \union C) \union {b}
    BY <1>21, <2>1
  <2> QED
    <3>1. Later(gen, d.gen)
      BY <1>13, <1>18, LaterYet
    <3>2. ~ Given(gen, b.name)
      BY <1>13, <1>16, <1>18 DEF Later
    <3>3. gen' = d.gen /\ Sound(d.gen) /\ gen'.minify = prog.minify
      BY <1>14, <1>18, <1>24, <3>1 DEF Later
    <3>4. Grown
      BY <1>13, <2>2, <3>1, <3>2, <3>3 DEF Grown
    <3> QED
      BY <1>19, <2>2, <3>3, <3>4, TakenFewer
<1> QED
  BY <1>5, <1>23, <1>24

-----------------------------------------------------------------------------
(* ReplaceImports goes through the import declarations of a module one by one. *)
Start == [sym |-> sym, getters |-> getters, ok |-> TRUE]
ReplaceSteps(m, n, h) ==
  /\ DOMAIN h = 0 .. n
  /\ h[0] = Start
  /\ \A k \in 1 .. n : h[k] = ReplaceImport(m, h[k - 1], prog.imports[m][k])

(* There are such steps, and they lead to Replaced. *)
LEMMA ReplacedSteps ==
  ASSUME NEW m, Len(prog.imports[m]) \in Nat
  PROVE  \E h : ReplaceSteps(m, Len(prog.imports[m]), h) /\ Replaced(m) = h[Len(prog.imports[m])]
<1> DEFINE N == Len(prog.imports[m])
           One(acc, k) == ReplaceImport(m, acc, prog.imports[m][k])
           Def(h) == [k \in 0 .. N |-> IF k = 0 THEN Start ELSE One(h[k - 1], k)]
           T == {k \in Nat : \E h : ReplaceSteps(m, k, h)}
<1>1. ASSUME NEW k \in Nat, \A j \in 0 .. k - 1 : j \in T PROVE k \in T
  <2>1. CASE k = 0
    <3> DEFINE h == [i \in 0 .. 0 |-> Start]
    <3>1. DOMAIN h = 0 .. 0 /\ h[0] = Start /\ 1 .. 0 = {}
      OBVIOUS
    <3>2. ReplaceSteps(m, 0, h)
      BY <3>1 DEF ReplaceSteps
    <3> QED
      BY <2>1, <3>2
  <2>2. CASE k # 0
    <3>1. k - 1 \in 0 .. k - 1 /\ k - 1 \in Nat
      BY <2>2
    <3>2. PICK h : ReplaceSteps(m, k - 1, h)
      BY <1>1, <3>1
    <3> DEFINE f == [i \in 0 .. k |-> IF i = k THEN One(h[k - 1], k) ELSE h[i]]
    <3>3. DOMAIN f = 0 .. k /\ f[0] = Start
      BY <2>2, <3>2 DEF ReplaceSteps
    <3>4. ASSUME NEW i \in 1 .. k PROVE f[i] = One(f[i - 1], i)
      <4>1. f[i - 1] = h[i - 1]
        OBVIOUS
      <4>2. CASE i = k
        BY <4>1, <4>2
      <4>3. CASE i # k
        <5>1. i \in 1 .. k - 1 /\ f[i] = h[i]
          BY <4>3
        <5> QED
          BY <3>2, <4>1, <5>1 DEF ReplaceSteps
      <4> QED
        BY <4>2, <4>3
    <3> HIDE DEF f
    <3>5. ReplaceSteps(m, k, f)
      BY <3>3, <3>4 DEF ReplaceSteps
    <3> QED
      BY <3>5
  <2> QED
    BY <2>1, <2>2
<1>2. T \in SUBSET Nat
  OBVIOUS
<1>3. T = Nat
  <2> HIDE DEF T
  <2> QED
    BY <1>1, <1>2, StrongInduction
<1>4. PICK h : ReplaceSteps(m, N, h)
  BY <1>3
<1> DEFINE d == [k \in 0 .. N |-> h[k]]
<1>5. d = Def(d)
  BY <1>4 DEF ReplaceSteps
<1>6. PICK a : a = CHOOSE f : f = Def(f)
  OBVIOUS
<1> HIDE DEF d
<1>7. a = Def(a)
  BY <1>5, <1>6
<1>8. ReplaceSteps(m, N, a)
  <2>1. DOMAIN a = 0 .. N /\ a[0] = Start
    BY <1>7
  <2>2. ASSUME NEW k \in 1 .. N PROVE a[k] = One(a[k - 1], k)
    <3>1. k \in 0 .. N /\ k # 0
      OBVIOUS
    <3> HIDE DEF One
    <3> QED
      BY <1>7, <3>1
  <2> QED
    BY <2>1, <2>2 DEF ReplaceSteps
<1>9. Replaced(m) = a[N]
  BY <1>6 DEF Replaced, Start
<1> QED
  BY <1>8, <1>9

(* The namespace of a module stays a variable; any other import is replaced.  *)
(* Records like those ReplaceImport makes. *)
LEMMA ResultFields ==
  ASSUME NEW S, NEW g, NEW ok, NEW A, NEW h, NEW o,
         NEW acc, acc = [sym |-> S, getters |-> g, ok |-> ok]
  PROVE  /\ \A U : U = [acc EXCEPT !.sym = A] => U = [sym |-> A, getters |-> g, ok |-> ok]
         /\ \A U : U = [acc EXCEPT !.ok = o] => U = [sym |-> S, getters |-> g, ok |-> o]
         /\ \A U : U = [acc EXCEPT !.getters = h] => U = [sym |-> S, getters |-> h, ok |-> ok]
<1>1. ASSUME NEW U, U = [acc EXCEPT !.sym = A] PROVE U = [sym |-> A, getters |-> g, ok |-> ok]
  BY <1>1
<1>2. ASSUME NEW U, U = [acc EXCEPT !.ok = o] PROVE U = [sym |-> S, getters |-> g, ok |-> o]
  BY <1>2
<1>3. ASSUME NEW U, U = [acc EXCEPT !.getters = h] PROVE U = [sym |-> S, getters |-> h, ok |-> ok]
  BY <1>3
<1> QED
  BY <1>1, <1>2, <1>3

(* One import declaration renames the variables that have the name of the     *)
(* import, or none.                                                          *)
ReplacedBy(S, m, i, R) ==
  /\ \E s, h : \E o \in BOOLEAN : R = [sym |-> s, getters |-> h, ok |-> o]
  /\ \/ R.sym = S
     \/ /\ ~ IsNamespace(i)
        /\ \E n : R.sym = RenameInModule(S, m, [o \in {S.name[<<m, i.local>>]} |-> n])

(* The tables as they are, whatever else is in the result, *)
LEMMA LeftAlone ==
  ASSUME NEW S, NEW m, NEW i, NEW R, NEW h, NEW o \in BOOLEAN, R = [sym |-> S, getters |-> h, ok |-> o]
  PROVE  ReplacedBy(S, m, i, R)
<1>1. R.sym = S
  OBVIOUS
<1>2. \E s1, h1 : \E o1 \in BOOLEAN : R = [sym |-> s1, getters |-> h1, ok |-> o1]
  OBVIOUS
<1> QED
  BY <1>1, <1>2 DEF ReplacedBy

(* ... or with the import renamed. *)
LEMMA RenamedOnce ==
  ASSUME NEW S, NEW m, NEW i, NEW R, NEW h, NEW o \in BOOLEAN, NEW n, NEW A,
         A = RenameInModule(S, m, [x \in {S.name[<<m, i.local>>]} |-> n]),
         R = [sym |-> A, getters |-> h, ok |-> o], ~ IsNamespace(i)
  PROVE  ReplacedBy(S, m, i, R)
<1>1. R.sym = A
  OBVIOUS
<1>2. \E s1, h1 : \E o1 \in BOOLEAN : R = [sym |-> s1, getters |-> h1, ok |-> o1]
  OBVIOUS
<1> QED
  BY <1>1, <1>2 DEF ReplacedBy

(* So it does. *)
LEMMA ReplaceOne ==
  ASSUME NEW m, NEW i, NEW S, NEW g, NEW ok \in BOOLEAN,
         NEW acc, acc = [sym |-> S, getters |-> g, ok |-> ok]
  PROVE  ReplacedBy(S, m, i, ReplaceImport(m, acc, i))
<1>1. PICK now : now = S.name[<<m, i.local>>]
  OBVIOUS
<1>2. PICK R, rest, found, lib, own :
        /\ R = ReplaceImport(m, acc, i)
        /\ rest = g \union {[of |-> i.from, export |-> e, name |-> S.local[i.from][e]] :
                              e \in DOMAIN S.local[i.from]}
        /\ found = FindLocalExport(i.from, i.source)
        /\ lib = ExternalName(S, m, i) /\ own = S.local[found[1]][found[2]]
  OBVIOUS
<1>3. PICK A, B : A = RenameInModule(S, m, [o \in {now} |-> lib]) /\ B = RenameInModule(S, m, [o \in {now} |-> own])
  OBVIOUS
<1>4. acc.sym = S /\ acc.getters = g /\ acc.ok = ok
  OBVIOUS
<1>5. R = CASE ~ ok -> acc
            [] ok /\ i.from \in Libraries ->
                 IF Owned(S, m, now) THEN [acc EXCEPT !.sym = A] ELSE acc
            [] ok /\ i.from \in Modules /\ i.source = Star ->
                 IF Owned(S, m, now) THEN [acc EXCEPT !.getters = rest] ELSE acc
            [] OTHER -> IF found = NotFound \/ ~ Owned(S, m, now) THEN [acc EXCEPT !.ok = FALSE]
                        ELSE [acc EXCEPT !.sym = B]
  BY ONLY <1>1, <1>2, <1>3, <1>4 DEF ReplaceImport
<1>6. ASSUME NEW h, R = [sym |-> S, getters |-> h, ok |-> ok] PROVE ReplacedBy(S, m, i, R)
  BY <1>6, LeftAlone
<1>7. CASE ~ ok
  <2>1. R = acc
    BY <1>5, <1>7
  <2> QED
    BY <1>2, <1>6, <2>1
<1>8. CASE ok /\ i.from \in Libraries
  <2>1. i.from \notin Modules
    BY <1>8, LinkerAssumption
  <2>2. R = acc \/ R = [acc EXCEPT !.sym = A]
    BY <1>5, <1>8, <2>1
  <2>3. R = [sym |-> S, getters |-> g, ok |-> ok] \/ R = [sym |-> A, getters |-> g, ok |-> ok]
    BY <2>2, ResultFields
  <2>4. ~ IsNamespace(i)
    BY <2>1 DEF IsNamespace
  <2>5. R = [sym |-> A, getters |-> g, ok |-> ok] => ReplacedBy(S, m, i, R)
    BY <1>1, <1>3, <2>4, RenamedOnce
  <2> QED
    BY <1>2, <1>6, <2>3, <2>5
<1>9. CASE ok /\ i.from \notin Libraries /\ i.from \in Modules /\ i.source = Star
  <2>1. R = acc \/ R = [acc EXCEPT !.getters = rest]
    BY <1>5, <1>9
  <2>2. R = [sym |-> S, getters |-> g, ok |-> ok] \/ R = [sym |-> S, getters |-> rest, ok |-> ok]
    BY <2>1, ResultFields
  <2> QED
    BY <1>2, <1>6, <2>2
<1>10. CASE ok /\ i.from \notin Libraries /\ ~ (i.from \in Modules /\ i.source = Star)
  <2>1. R = [acc EXCEPT !.ok = FALSE] \/ R = [acc EXCEPT !.sym = B]
    BY <1>5, <1>10
  <2>2. ~ IsNamespace(i)
    BY <1>10 DEF IsNamespace
  <2>3. CASE R = [acc EXCEPT !.ok = FALSE]
    <3>1. PICK no \in BOOLEAN : no = FALSE
      OBVIOUS
    <3>2. R = [acc EXCEPT !.ok = no]
      BY <2>3, <3>1
    <3>3. R = [sym |-> S, getters |-> g, ok |-> no]
      BY <3>2, ResultFields
    <3> QED
      BY <1>2, <3>3, LeftAlone
  <2>4. CASE R = [acc EXCEPT !.sym = B]
    <3>1. R = [sym |-> B, getters |-> g, ok |-> ok]
      BY <2>4, ResultFields
    <3> QED
      BY <1>1, <1>2, <1>3, <2>2, <3>1, RenamedOnce
  <2> QED
    BY <2>1, <2>3, <2>4
<1> QED
  BY <1>7, <1>8, <1>9, <1>10

(* The variables of m that have been replaced after k of its imports. *)
Gone(m, k) ==
  {<<m, prog.imports[m][j].local>> : j \in {j \in 1 .. k : ~ IsNamespace(prog.imports[m][j])}}

(* One import declaration more: where no two variables of m have a name in   *)
(* common, only the import loses its name.                                   *)
RInv(m, k, acc) ==
  /\ \E s, g : \E ok \in BOOLEAN : acc = [sym |-> s, getters |-> g, ok |-> ok]
  /\ IsSym(acc.sym) /\ DOMAIN acc.sym.name = DOMAIN sym.name
  /\ \A v \in DOMAIN sym.name : v[1] # m => acc.sym.name[v] = sym.name[v]
  /\ (\A v, w \in DOMAIN sym.name : v[1] = m /\ w[1] = m /\ sym.name[v] = sym.name[w] => v = w)
       => \A v \in DOMAIN sym.name \ Gone(m, k) : acc.sym.name[v] = sym.name[v]

(* So it does. *)
LEMMA ReplaceKeeps ==
  ASSUME CInv, SInv, NEW m \in Modules, NEW n \in Nat, n = Len(prog.imports[m]),
         NEW k \in 1 .. n, NEW acc, RInv(m, k - 1, acc)
  PROVE  RInv(m, k, ReplaceImport(m, acc, prog.imports[m][k]))
<1>1. PICK i, R : i = prog.imports[m][k] /\ R = ReplaceImport(m, acc, i)
  OBVIOUS
<1>2. PICK S : S = acc.sym
  OBVIOUS
<1>3. /\ IsSym(S) /\ DOMAIN S.name = DOMAIN sym.name
      /\ \A v \in DOMAIN sym.name : v[1] # m => S.name[v] = sym.name[v]
      /\ \E g : \E ok \in BOOLEAN : acc = [sym |-> S, getters |-> g, ok |-> ok]
      /\ (\A v, w \in DOMAIN sym.name : v[1] = m /\ w[1] = m /\ sym.name[v] = sym.name[w] => v = w)
           => \A v \in DOMAIN sym.name \ Gone(m, k - 1) : S.name[v] = sym.name[v]
  <2>1. PICK s, g : \E ok \in BOOLEAN : acc = [sym |-> s, getters |-> g, ok |-> ok]
    BY DEF RInv
  <2>2. PICK ok \in BOOLEAN : acc = [sym |-> s, getters |-> g, ok |-> ok]
    BY <2>1
  <2>3. s = S /\ acc = [sym |-> S, getters |-> g, ok |-> ok]
    BY <1>2, <2>2
  <2>4. /\ IsSym(S) /\ DOMAIN S.name = DOMAIN sym.name
        /\ \A v \in DOMAIN sym.name : v[1] # m => S.name[v] = sym.name[v]
        /\ (\A v, w \in DOMAIN sym.name : v[1] = m /\ w[1] = m /\ sym.name[v] = sym.name[w] => v = w)
             => \A v \in DOMAIN sym.name \ Gone(m, k - 1) : S.name[v] = sym.name[v]
    BY <1>2 DEF RInv
  <2> QED
    BY <2>3, <2>4
<1>4. ReplacedBy(S, m, i, R)
  <2>1. PICK g : \E ok \in BOOLEAN : acc = [sym |-> S, getters |-> g, ok |-> ok]
    BY <1>3
  <2>2. PICK ok \in BOOLEAN : acc = [sym |-> S, getters |-> g, ok |-> ok]
    BY <2>1
  <2> QED
    BY <1>1, <2>2, ReplaceOne
<1>5. Gone(m, k - 1) \subseteq Gone(m, k)
  BY DEF Gone
<1>6. \E s, g : \E ok \in BOOLEAN : R = [sym |-> s, getters |-> g, ok |-> ok]
  BY <1>4 DEF ReplacedBy
<1>7. CASE R.sym = S
  <2>1. /\ IsSym(R.sym) /\ DOMAIN R.sym.name = DOMAIN sym.name
        /\ \A v \in DOMAIN sym.name : v[1] # m => R.sym.name[v] = sym.name[v]
        /\ (\A v, w \in DOMAIN sym.name : v[1] = m /\ w[1] = m /\ sym.name[v] = sym.name[w] => v = w)
             => \A v \in DOMAIN sym.name \ Gone(m, k) : R.sym.name[v] = sym.name[v]
    BY <1>3, <1>5, <1>7
  <2> QED
    BY <1>1, <1>6, <2>1 DEF RInv
<1>8. CASE /\ ~ IsNamespace(i)
           /\ \E x : R.sym = RenameInModule(S, m, [o \in {S.name[<<m, i.local>>]} |-> x])
  <2>1. PICK x : R.sym = RenameInModule(S, m, [o \in {S.name[<<m, i.local>>]} |-> x])
    BY <1>8
  <2>2. PICK now, ren, U : now = S.name[<<m, i.local>>] /\ ren = [o \in {now} |-> x] /\ U = R.sym
    OBVIOUS
  <2>3. m \in Scopes
    BY ProgramIs
  <2>4. Changed(S, U, m, ren)
    BY <1>3, <2>1, <2>2, <2>3, ScopeRenames
  <2>5. /\ IsSym(U) /\ DOMAIN U.name = DOMAIN S.name
        /\ \A v \in DOMAIN S.name : U.name[v] = S.name[v] \/ v \in Moved(S, m, ren)
    BY <2>4 DEF Changed
  <2>6. \A v \in Moved(S, m, ren) : v[1] = m /\ v \in DOMAIN S.name /\ S.name[v] = now
    BY <1>3, <2>2, <2>3 DEF Moved, IsSym
  <2>7. \A v \in DOMAIN sym.name : v[1] # m => U.name[v] = sym.name[v]
    BY <1>3, <2>5, <2>6
  <2>8. ASSUME \A v, w \in DOMAIN sym.name : v[1] = m /\ w[1] = m /\ sym.name[v] = sym.name[w] => v = w,
               NEW v \in DOMAIN sym.name \ Gone(m, k)
        PROVE  U.name[v] = sym.name[v]
    <3>1. S.name[v] = sym.name[v]
      BY <1>3, <1>5, <2>8
    <3>2. SUFFICES ASSUME v \in Moved(S, m, ren) PROVE FALSE
      BY <1>3, <2>5, <3>1
    <3>3. PICK w : w = <<m, i.local>>
      OBVIOUS
    <3>4. k \in DOMAIN prog.imports[m] /\ \A j \in 1 .. k : j \in DOMAIN prog.imports[m]
      <4>1. PICK s : s = prog.imports[m]
        OBVIOUS
      <4>2. s \in Seq([from : Modules \union Libraries, source : Exportable \union {Star}, local : Names])
        BY <4>1, ProgramIs DEF IsProgram
      <4>3. DOMAIN s = 1 .. n
        BY <4>1, <4>2
      <4> QED
        BY <4>1, <4>3
    <3>5. w \in Gone(m, k)
      BY SMTT(30), <1>1, <1>8, <3>3 DEF Gone, IsNamespace
    <3>6. w \notin Gone(m, k - 1)
      <4>1. \A a, b \in DOMAIN prog.imports[m] :
              prog.imports[m][a].local = prog.imports[m][b].local => a = b
        BY ProgramIs DEF IsProgram
      <4> SUFFICES ASSUME NEW j \in 1 .. k - 1, <<m, prog.imports[m][j].local>> = w PROVE FALSE
        BY DEF Gone
      <4>2. prog.imports[m][j].local = prog.imports[m][k].local
        BY <1>1, <3>3
      <4>3. j \in 1 .. k /\ j # k
        OBVIOUS
      <4> QED
        BY <3>4, <4>1, <4>2, <4>3
    <3>7. w \in DOMAIN sym.name /\ w[1] = m
      <4>1. i.local \in prog.owns[m]
        BY <1>1, <3>4, ProgramIs DEF IsProgram
      <4>2. w \in OwnVars(m)
        BY <3>3, <4>1 DEF OwnVars
      <4> QED
        BY <2>3, <3>3, <4>2 DEF SInv, IsSym
    <3>8. S.name[w] = sym.name[w]
      BY <1>3, <2>8, <3>6, <3>7
    <3>9. sym.name[v] = sym.name[w] /\ v[1] = m
      BY <2>2, <2>6, <3>1, <3>2, <3>3, <3>8
    <3>10. v = w
      BY <2>8, <3>7, <3>9
    <3> QED
      BY <2>8, <3>5, <3>10
  <2> QED
    BY <1>1, <1>3, <1>6, <2>2, <2>5, <2>7, <2>8 DEF RInv
<1> QED
  BY <1>4, <1>7, <1>8 DEF ReplacedBy

(* All import declarations of a module. *)
LEMMA ReplacedIs ==
  ASSUME CInv, SInv, NEW m \in Modules, NEW n \in Nat, n = Len(prog.imports[m])
  PROVE  RInv(m, n, Replaced(m))
<1>1. PICK h : ReplaceSteps(m, n, h) /\ Replaced(m) = h[n]
  BY ReplacedSteps
<1>2. RInv(m, 0, h[0])
  <2>1. PICK yes \in BOOLEAN : yes = TRUE
    OBVIOUS
  <2>2. PICK S : S = sym
    OBVIOUS
  <2>3. h[0] = [sym |-> S, getters |-> getters, ok |-> yes]
    BY <1>1, <2>1, <2>2 DEF ReplaceSteps, Start
  <2>4. h[0].sym = S
    BY <2>3
  <2>5. \E s, g : \E ok \in BOOLEAN : h[0] = [sym |-> s, getters |-> g, ok |-> ok]
    BY <2>3
  <2>6. IsSym(S)
    BY <2>2 DEF SInv
  <2> QED
    BY <2>2, <2>4, <2>5, <2>6 DEF RInv
<1> DEFINE T == {k \in Nat : k <= n => RInv(m, k, h[k])}
<1>3. ASSUME NEW k \in Nat, \A j \in 0 .. k - 1 : j \in T PROVE k \in T
  <2>1. CASE k = 0
    BY <1>2, <2>1
  <2>2. CASE k > n
    BY <2>2
  <2>3. CASE k # 0 /\ k <= n
    <3>1. k - 1 \in 0 .. k - 1 /\ k - 1 <= n /\ k \in 1 .. n
      BY <2>3
    <3>2. RInv(m, k - 1, h[k - 1])
      BY <1>3, <3>1
    <3>3. h[k] = ReplaceImport(m, h[k - 1], prog.imports[m][k])
      BY <1>1, <3>1 DEF ReplaceSteps
    <3>4. RInv(m, k, h[k])
      BY <3>1, <3>2, <3>3, ReplaceKeeps
    <3> QED
      BY <3>4
  <2> QED
    BY <2>1, <2>2, <2>3
<1>4. T \in SUBSET Nat
  OBVIOUS
<1>5. T = Nat
  <2> HIDE DEF T
  <2> QED
    BY <1>3, <1>4, StrongInduction
<1>6. n \in T
  BY <1>5
<1> QED
  BY <1>1, <1>6

(* Replacing the imports of a module renames nothing that is settled. *)
LEMMA NReplace ==
  ASSUME CInv, WInv, SInv, NInv, ReplaceImports
  PROVE  WInv' /\ SInv' /\ NInv' /\ (Assumed => Grown)
<1>1. /\ stage = "imports" /\ stack # <<>> /\ Ready
      /\ UNCHANGED <<prog, gen, external, visited>>
  BY DEF ReplaceImports
<1>2. PICK m, r : m = Last(stack) /\ r = Replaced(m)
  OBVIOUS
<1>3. /\ sym' = r.sym
      /\ stack' = (IF r.ok THEN Popped(stack) ELSE <<>>)
      /\ stage' = (IF r.ok THEN stage ELSE "failed")
  BY <1>2 DEF ReplaceImports
<1>4. m \in Modules
  BY <1>1, <1>2, TopIs
<1>5. PICK n \in Nat : n = Len(prog.imports[m]) /\ DOMAIN prog.imports[m] = 1 .. n
  <2>1. PICK s : s = prog.imports[m]
    OBVIOUS
  <2>2. s \in Seq([from : Modules \union Libraries, source : Exportable \union {Star}, local : Names])
    BY <1>4, <2>1, ProgramIs DEF IsProgram
  <2>3. DOMAIN s = 1 .. Len(s) /\ Len(s) \in Nat
    BY <2>2
  <2> QED
    BY <2>1, <2>3
<1>6. RInv(m, n, r)
  BY <1>2, <1>4, <1>5, ReplacedIs
<1>7. r.ok \in BOOLEAN
  <2>1. PICK s, g : \E ok \in BOOLEAN : r = [sym |-> s, getters |-> g, ok |-> ok]
    BY <1>6 DEF RInv
  <2> QED
    BY <2>1
<1>8. /\ IsSym(sym') /\ DOMAIN sym'.name = DOMAIN sym.name
      /\ \A v \in DOMAIN sym.name : v[1] # m => sym'.name[v] = sym.name[v]
  BY <1>3, <1>6 DEF RInv
<1>9. SInv'
  <2>1. IsSym(sym)'
    BY <1>1, <1>8, SymNext
  <2>2. stage' \in {"imports", "failed"}
    BY <1>1, <1>3, <1>7
  <2> QED
    BY <2>1, <2>2 DEF SInv
<1>10. CASE ~ r.ok
  <2>1. stack' = <<>> /\ stage' = "failed"
    BY <1>3, <1>10
  <2>2. WInv'
    BY <1>1, <2>1, OnEntry DEF WInv
  <2>3. Settled' = {}
    BY <1>1, <2>1, SettledNext
  <2>4. NInv' /\ Grown
    BY <1>1, <2>3, Quiet
  <2> QED
    BY <1>9, <2>2, <2>4
<1>11. CASE r.ok
  <2>1. stack' = Popped(stack) /\ stage' = stage
    BY <1>3, <1>11
  <2>2. m \notin Walked /\ Walked' = Walked \union {m} /\ WInv'
    BY <1>1, <1>2, <2>1, LeaveDoes
  <2>3. /\ Settled = {v \in DOMAIN sym.name : v[1] \in Modules /\ (v[1] \notin Walked \/ Declared(v))}
        /\ Settled' = {v \in DOMAIN sym'.name : v[1] \in Modules /\ (v[1] \notin Walked' \/ Declared(v))}
    BY <1>1, <2>1, SettledIs, SettledNext
  <2>4. ASSUME NEW v \in Settled' PROVE v \in Settled
    BY <1>8, <2>2, <2>3
  <2>5. ASSUME Assumed PROVE \A v \in Settled' : sym'.name[v] = sym.name[v]
    <3>1. ASSUME NEW v \in DOMAIN sym.name, NEW w \in DOMAIN sym.name,
                 v[1] = m, w[1] = m, sym.name[v] = sym.name[w]
          PROVE  v = w
      <4>1. v \in Settled /\ w \in Settled
        BY <1>4, <2>2, <2>3, <3>1
      <4>2. PICK b, c : b = [name |-> sym.name[v], is |-> v] /\ c = [name |-> sym.name[w], is |-> w]
        OBVIOUS
      <4>3. b \in Bound /\ c \in Bound
        BY <4>1, <4>2 DEF Bound, VariableBindings
      <4>4. b.name = c.name
        BY <3>1, <4>2
      <4>5. b = c
        BY <2>5, <4>3, <4>4 DEF NInv, Taken
      <4> QED
        BY <4>2, <4>5
    <3>2. \A v \in DOMAIN sym.name \ Gone(m, n) : sym'.name[v] = sym.name[v]
      BY <1>3, <1>6, <3>1 DEF RInv
    <3>3. ASSUME NEW v \in Settled', v[1] = m PROVE v \notin Gone(m, n)
      <4>1. Declared(v)
        BY <2>2, <2>3, <3>3
      <4> SUFFICES ASSUME NEW j \in 1 .. n, ~ IsNamespace(prog.imports[m][j]),
                          v = <<m, prog.imports[m][j].local>>
                   PROVE  FALSE
        BY DEF Gone
      <4>2. v[1] = m /\ v[2] = prog.imports[m][j].local
        OBVIOUS
      <4>3. prog.imports[m][j] \in ImportsOf(v[1], v[2])
        BY <1>5, <4>2 DEF ImportsOf, ToSet
      <4>4. v[1] \in Modules
        BY <2>3, <3>3
      <4> QED
        BY <4>1, <4>3, <4>4 DEF Declared, IsNamespace
    <3> QED
      BY <1>8, <2>3, <3>2, <3>3
  <2>6. NInv' /\ (Assumed => Grown)
    <3>1. CASE Assumed
      BY <1>1, <2>4, <2>5, <3>1, Quiet
    <3>2. CASE ~ Assumed
      BY <1>1, <3>2, NNext
    <3> QED
      BY <3>1, <3>2
  <2> QED
    BY <1>9, <2>2, <2>6
<1> QED
  BY <1>7, <1>10, <1>11

-----------------------------------------------------------------------------
(* GenAst goes through the import declarations of libraries one by one, ... *)
NoneHandled == [infos |-> external, ids |-> <<>>]
HandleSteps(w, n, h) ==
  /\ DOMAIN h = 0 .. n
  /\ h[0] = NoneHandled
  /\ \A k \in 1 .. n : h[k] = HandleImport(h[k - 1], w[k])

(* There are such steps, and they lead to Handled. *)
LEMMA HandledSteps ==
  ASSUME NEW w, Len(w) \in Nat
  PROVE  \E h : HandleSteps(w, Len(w), h) /\ Handled(w) = h[Len(w)]
<1> DEFINE N == Len(w)
           One(acc, k) == HandleImport(acc, w[k])
           Def(h) == [k \in 0 .. N |-> IF k = 0 THEN NoneHandled ELSE One(h[k - 1], k)]
           T == {k \in Nat : \E h : HandleSteps(w, k, h)}
<1>1. ASSUME NEW k \in Nat, \A j \in 0 .. k - 1 : j \in T PROVE k \in T
  <2>1. CASE k = 0
    <3> DEFINE h == [i \in 0 .. 0 |-> NoneHandled]
    <3>1. DOMAIN h = 0 .. 0 /\ h[0] = NoneHandled /\ 1 .. 0 = {}
      OBVIOUS
    <3>2. HandleSteps(w, 0, h)
      BY <3>1 DEF HandleSteps
    <3> QED
      BY <2>1, <3>2
  <2>2. CASE k # 0
    <3>1. k - 1 \in 0 .. k - 1 /\ k - 1 \in Nat
      BY <2>2
    <3>2. PICK h : HandleSteps(w, k - 1, h)
      BY <1>1, <3>1
    <3> DEFINE f == [i \in 0 .. k |-> IF i = k THEN One(h[k - 1], k) ELSE h[i]]
    <3>3. DOMAIN f = 0 .. k /\ f[0] = NoneHandled
      BY <2>2, <3>2 DEF HandleSteps
    <3>4. ASSUME NEW i \in 1 .. k PROVE f[i] = One(f[i - 1], i)
      <4>1. f[i - 1] = h[i - 1]
        OBVIOUS
      <4>2. CASE i = k
        BY <4>1, <4>2
      <4>3. CASE i # k
        <5>1. i \in 1 .. k - 1 /\ f[i] = h[i]
          BY <4>3
        <5> QED
          BY <3>2, <4>1, <5>1 DEF HandleSteps
      <4> QED
        BY <4>2, <4>3
    <3> HIDE DEF f
    <3>5. HandleSteps(w, k, f)
      BY <3>3, <3>4 DEF HandleSteps
    <3> QED
      BY <3>5
  <2> QED
    BY <2>1, <2>2
<1>2. T \in SUBSET Nat
  OBVIOUS
<1>3. T = Nat
  <2> HIDE DEF T
  <2> QED
    BY <1>1, <1>2, StrongInduction
<1>4. PICK h : HandleSteps(w, N, h)
  BY <1>3
<1> DEFINE d == [k \in 0 .. N |-> h[k]]
<1>5. d = Def(d)
  BY <1>4 DEF HandleSteps
<1>6. PICK a : a = CHOOSE f : f = Def(f)
  OBVIOUS
<1> HIDE DEF d
<1>7. a = Def(a)
  BY <1>5, <1>6
<1>8. HandleSteps(w, N, a)
  <2>1. DOMAIN a = 0 .. N /\ a[0] = NoneHandled
    BY <1>7
  <2>2. ASSUME NEW k \in 1 .. N PROVE a[k] = One(a[k - 1], k)
    <3>1. k \in 0 .. N /\ k # 0
      OBVIOUS
    <3> HIDE DEF One
    <3> QED
      BY <1>7, <3>1
  <2> QED
    BY <2>1, <2>2 DEF HandleSteps
<1>9. Handled(w) = a[N]
  BY <1>6 DEF Handled, NoneHandled
<1> QED
  BY <1>8, <1>9

(* ... and then through the libraries. *)
NoneDistributed(acc0) == [gen |-> gen, infos |-> acc0.infos]
DistributeSteps(acc0, n, h) ==
  /\ DOMAIN h = 0 .. n
  /\ h[0] = NoneDistributed(acc0)
  /\ \A k \in 1 .. n : h[k] = Distribute(h[k - 1], acc0.ids[k])

(* There are such steps, and they lead to Distributed. *)
LEMMA DistributedSteps ==
  ASSUME NEW acc0, Len(acc0.ids) \in Nat
  PROVE  \E h : DistributeSteps(acc0, Len(acc0.ids), h) /\ Distributed(acc0) = h[Len(acc0.ids)]
<1> DEFINE N == Len(acc0.ids)
           One(acc, k) == Distribute(acc, acc0.ids[k])
           Def(h) == [k \in 0 .. N |-> IF k = 0 THEN NoneDistributed(acc0) ELSE One(h[k - 1], k)]
           T == {k \in Nat : \E h : DistributeSteps(acc0, k, h)}
<1>1. ASSUME NEW k \in Nat, \A j \in 0 .. k - 1 : j \in T PROVE k \in T
  <2>1. CASE k = 0
    <3> DEFINE h == [i \in 0 .. 0 |-> NoneDistributed(acc0)]
    <3>1. DOMAIN h = 0 .. 0 /\ h[0] = NoneDistributed(acc0) /\ 1 .. 0 = {}
      OBVIOUS
    <3>2. DistributeSteps(acc0, 0, h)
      BY <3>1 DEF DistributeSteps
    <3> QED
      BY <2>1, <3>2
  <2>2. CASE k # 0
    <3>1. k - 1 \in 0 .. k - 1 /\ k - 1 \in Nat
      BY <2>2
    <3>2. PICK h : DistributeSteps(acc0, k - 1, h)
      BY <1>1, <3>1
    <3> DEFINE f == [i \in 0 .. k |-> IF i = k THEN One(h[k - 1], k) ELSE h[i]]
    <3>3. DOMAIN f = 0 .. k /\ f[0] = NoneDistributed(acc0)
      BY <2>2, <3>2 DEF DistributeSteps
    <3>4. ASSUME NEW i \in 1 .. k PROVE f[i] = One(f[i - 1], i)
      <4>1. f[i - 1] = h[i - 1]
        OBVIOUS
      <4>2. CASE i = k
        BY <4>1, <4>2
      <4>3. CASE i # k
        <5>1. i \in 1 .. k - 1 /\ f[i] = h[i]
          BY <4>3
        <5> QED
          BY <3>2, <4>1, <5>1 DEF DistributeSteps
      <4> QED
        BY <4>2, <4>3
    <3> HIDE DEF f
    <3>5. DistributeSteps(acc0, k, f)
      BY <3>3, <3>4 DEF DistributeSteps
    <3> QED
      BY <3>5
  <2> QED
    BY <2>1, <2>2
<1>2. T \in SUBSET Nat
  OBVIOUS
<1>3. T = Nat
  <2> HIDE DEF T
  <2> QED
    BY <1>1, <1>2, StrongInduction
<1>4. PICK h : DistributeSteps(acc0, N, h)
  BY <1>3
<1> DEFINE d == [k \in 0 .. N |-> h[k]]
<1>5. d = Def(d)
  BY <1>4 DEF DistributeSteps
<1>6. PICK a : a = CHOOSE f : f = Def(f)
  OBVIOUS
<1> HIDE DEF d
<1>7. a = Def(a)
  BY <1>5, <1>6
<1>8. DistributeSteps(acc0, N, a)
  <2>1. DOMAIN a = 0 .. N /\ a[0] = NoneDistributed(acc0)
    BY <1>7
  <2>2. ASSUME NEW k \in 1 .. N PROVE a[k] = One(a[k - 1], k)
    <3>1. k \in 0 .. N /\ k # 0
      OBVIOUS
    <3> HIDE DEF One
    <3> QED
      BY <1>7, <3>1
  <2> QED
    BY <2>1, <2>2 DEF DistributeSteps
<1>9. Distributed(acc0) = a[N]
  BY <1>6 DEF Distributed, NoneDistributed
<1> QED
  BY <1>8, <1>9

(* The sources' names, those of what is imported from l, and what the info of  *)
(* l may be after them.                                                     *)
Sourced == {n \in Names : prog.minify \/ ~ IsNumbered(n)}
Local(l) == LocalsOf(l) \intersect Sourced
IsInfo(l, x) ==
  \E n, d \in Local(l) \union {Unnamed} : \E s \in Seq(Sourced) : \E a :
    x = [ns |-> n, default |-> d, names |-> s, alias |-> a]
LibraryImport(i) ==
  i.from \in Libraries /\ i.local \in Local(i.from) /\ i.source \in Sourced \union {Star, DefaultName}
HInv(acc) ==
  /\ \E f, d : acc = [infos |-> f, ids |-> d]
  /\ DOMAIN acc.infos = Libraries /\ \A l \in Libraries : IsInfo(l, acc.infos[l])
  /\ acc.ids \in Seq(Libraries) /\ Once(acc.ids)
  /\ \A l \in Libraries \ On(acc.ids) : acc.infos[l] = NoImports

(* What makes an info one. *)
LEMMA InfoIs ==
  ASSUME NEW l, NEW n \in Local(l) \union {Unnamed}, NEW d \in Local(l) \union {Unnamed}, NEW s \in Seq(Sourced),
         NEW a, NEW x, x = [ns |-> n, default |-> d, names |-> s, alias |-> a]
  PROVE  IsInfo(l, x)
BY DEF IsInfo

(* A record like an info with some fields changed. *)
LEMMA InfoFields ==
  ASSUME NEW n, NEW d, NEW s, NEW a, NEW v, NEW w, NEW x, x = [ns |-> n, default |-> d, names |-> s, alias |-> a]
  PROVE  /\ \A y : y = [x EXCEPT !.ns = v, !.names = w] => y = [ns |-> v, default |-> d, names |-> w, alias |-> a]
         /\ \A y : y = [x EXCEPT !.default = v] => y = [ns |-> n, default |-> v, names |-> s, alias |-> a]
         /\ \A y : y = [x EXCEPT !.names = v] => y = [ns |-> n, default |-> d, names |-> v, alias |-> a]
<1>1. ASSUME NEW y, y = [x EXCEPT !.ns = v, !.names = w]
      PROVE  y = [ns |-> v, default |-> d, names |-> w, alias |-> a]
  BY <1>1
<1>2. ASSUME NEW y, y = [x EXCEPT !.default = v] PROVE y = [ns |-> n, default |-> v, names |-> s, alias |-> a]
  BY <1>2
<1>3. ASSUME NEW y, y = [x EXCEPT !.names = v] PROVE y = [ns |-> n, default |-> d, names |-> v, alias |-> a]
  BY <1>3
<1> QED
  BY <1>1, <1>2, <1>3

(* An import makes an info of an info. *)
LEMMA ImportedIs ==
  ASSUME NEW i, LibraryImport(i), NEW x, IsInfo(i.from, x)
  PROVE  IsInfo(i.from, Imported(x, i))
<1>1. PICK l, local, source : l = i.from /\ local = i.local /\ source = i.source
  OBVIOUS
<1>2. l \in Libraries /\ local \in Local(l) /\ local \in Sourced /\ source \in Sourced \union {Star, DefaultName}
  BY <1>1 DEF LibraryImport, Local
<1>3. PICK n \in Local(l) \union {Unnamed}, e \in Local(l) \union {Unnamed} : \E s \in Seq(Sourced) : \E a :
        x = [ns |-> n, default |-> e, names |-> s, alias |-> a]
  BY <1>1 DEF IsInfo
<1>4. PICK s \in Seq(Sourced) : \E a : x = [ns |-> n, default |-> e, names |-> s, alias |-> a]
  BY <1>3
<1>5. PICK a : x = [ns |-> n, default |-> e, names |-> s, alias |-> a]
  BY <1>4
<1>6. x.names = s
  BY <1>5
<1>7. PICK y : y = Imported(x, i)
  OBVIOUS
<1>8. CASE source = Star
  <2>1. PICK p : p = Append(s, local)
    OBVIOUS
  <2>2. p \in Seq(Sourced)
    BY <1>2, <2>1
  <2>3. y = [x EXCEPT !.ns = local, !.names = p]
    <3>1. y = [x EXCEPT !.ns = i.local, !.names = Append(@, i.local)]
      BY <1>1, <1>7, <1>8 DEF Imported, Star, DefaultName
    <3>2. y = [x EXCEPT !.ns = local, !.names = Append(x.names, local)]
      BY <1>1, <3>1
    <3> QED
      BY <1>6, <2>1, <3>2
  <2>4. y = [ns |-> local, default |-> e, names |-> p, alias |-> a]
    BY <1>5, <2>3, InfoFields
  <2> QED
    BY <1>1, <1>2, <1>3, <1>7, <2>2, <2>4, InfoIs
<1>9. CASE source = DefaultName
  <2>1. source # Star
    BY <1>9 DEF Star, DefaultName
  <2>2. y = [x EXCEPT !.default = local]
    BY <1>1, <1>7, <1>9, <2>1 DEF Imported
  <2>3. y = [ns |-> n, default |-> local, names |-> s, alias |-> a]
    BY <1>5, <2>2, InfoFields
  <2> QED
    BY <1>1, <1>2, <1>3, <1>7, <2>3, InfoIs
<1>10. CASE source # Star /\ source # DefaultName
  <2>1. PICK p : p = Append(s, source)
    OBVIOUS
  <2>2. p \in Seq(Sourced)
    BY <1>2, <1>10, <2>1
  <2>3. y = [x EXCEPT !.names = p]
    BY <1>1, <1>6, <1>7, <1>10, <2>1 DEF Imported
  <2>4. y = [ns |-> n, default |-> e, names |-> p, alias |-> a]
    BY <1>5, <2>3, InfoFields
  <2> QED
    BY <1>1, <1>2, <1>3, <1>7, <2>2, <2>4, InfoIs
<1> QED
  BY <1>8, <1>9, <1>10

(* One import declaration more. *)
LEMMA HandleKeeps ==
  ASSUME NEW acc, HInv(acc), NEW i, LibraryImport(i)
  PROVE  HInv(HandleImport(acc, i))
<1>1. PICK f, d : acc = [infos |-> f, ids |-> d]
  BY DEF HInv
<1>2. acc.infos = f /\ acc.ids = d
  BY <1>1
<1>3. /\ DOMAIN f = Libraries /\ (\A l \in Libraries : IsInfo(l, f[l]))
      /\ d \in Seq(Libraries) /\ Once(d) /\ \A l \in Libraries \ On(d) : f[l] = NoImports
  BY <1>2 DEF HInv
<1>4. PICK l : l = i.from
  OBVIOUS
<1>5. l \in Libraries
  BY <1>4 DEF LibraryImport
<1>6. PICK U, e, x : /\ x = Imported(f[l], i) /\ U = [f EXCEPT ![l] = x]
                     /\ e = IF Contains(d, l) THEN d ELSE Append(d, l)
  OBVIOUS
<1>7. HandleImport(acc, i) = [infos |-> U, ids |-> e]
  BY <1>2, <1>4, <1>6 DEF HandleImport
<1>8. IsInfo(l, x)
  BY <1>3, <1>4, <1>5, <1>6, ImportedIs
<1>9. DOMAIN U = Libraries /\ (\A k \in Libraries : IsInfo(k, U[k])) /\ \A k \in Libraries \ {l} : U[k] = f[k]
  BY <1>3, <1>5, <1>6, <1>8
<1>10. Contains(d, l) <=> l \in On(d)
  BY DEF Contains, On
<1>11. e \in Seq(Libraries) /\ Once(e) /\ On(e) = On(d) \union {l}
  <2>1. CASE l \in On(d)
    BY <1>3, <1>6, <1>10, <2>1
  <2>2. CASE l \notin On(d)
    <3>1. e = Append(d, l)
      BY <1>6, <1>10, <2>2
    <3> QED
      BY <1>3, <1>5, <2>2, <3>1, OnAppend
  <2> QED
    BY <2>1, <2>2
<1>12. \A k \in Libraries \ On(e) : U[k] = NoImports
  BY <1>3, <1>9, <1>11
<1>13. PICK r : r = HandleImport(acc, i)
  OBVIOUS
<1>14. r.infos = U /\ r.ids = e /\ \E g, c : r = [infos |-> g, ids |-> c]
  <2>1. r = [infos |-> U, ids |-> e]
    BY <1>7, <1>13
  <2>2. r.infos = U /\ r.ids = e
    BY <2>1
  <2> QED
    BY <2>1, <2>2
<1> QED
  BY <1>9, <1>11, <1>12, <1>13, <1>14 DEF HInv

(* All of them. *)
LEMMA HandledIs ==
  ASSUME external = [l \in Libraries |-> NoImports], NEW w, Len(w) \in Nat,
         \A k \in 1 .. Len(w) : LibraryImport(w[k])
  PROVE  HInv(Handled(w))
<1>1. PICK n : n = Len(w)
  OBVIOUS
<1>2. PICK h : HandleSteps(w, n, h) /\ Handled(w) = h[n]
  BY <1>1, HandledSteps
<1>3. HInv(h[0])
  <2>1. PICK f, d : f = [l \in Libraries |-> NoImports] /\ d = <<>>
    OBVIOUS
  <2>2. h[0] = [infos |-> f, ids |-> d]
    BY <1>2, <2>1 DEF HandleSteps, NoneHandled
  <2>3. h[0].infos = f /\ h[0].ids = d
    BY <2>2
  <2>4. \A l : IsInfo(l, NoImports)
    <3>1. (\A l : Unnamed \in Local(l) \union {Unnamed}) /\ <<>> \in Seq(Sourced)
      OBVIOUS
    <3> QED
      BY <3>1 DEF IsInfo, NoImports
  <2>5. DOMAIN f = Libraries /\ \A l \in Libraries : f[l] = NoImports
    BY <2>1
  <2>6. d \in Seq(Libraries) /\ Once(d)
    BY <2>1, OnEntry
  <2> QED
    BY <2>2, <2>3, <2>4, <2>5, <2>6 DEF HInv
<1> DEFINE T == {k \in Nat : k <= n => HInv(h[k])}
<1>4. ASSUME NEW k \in Nat, \A j \in 0 .. k - 1 : j \in T PROVE k \in T
  <2>1. CASE k = 0
    BY <1>3, <2>1
  <2>2. CASE k > n
    BY <1>1, <2>2
  <2>3. CASE k # 0 /\ k <= n
    <3>1. k - 1 \in 0 .. k - 1 /\ k - 1 <= n /\ k \in 1 .. n
      BY <1>1, <2>3
    <3>2. HInv(h[k - 1])
      BY <1>4, <3>1
    <3>3. h[k] = HandleImport(h[k - 1], w[k])
      BY <1>2, <3>1 DEF HandleSteps
    <3>4. HInv(h[k])
      BY <1>1, <3>1, <3>2, <3>3, HandleKeeps
    <3> QED
      BY <3>4
  <2> QED
    BY <1>1, <2>1, <2>2, <2>3
<1>5. T \in SUBSET Nat
  OBVIOUS
<1>6. T = Nat
  <2> HIDE DEF T
  <2> QED
    BY <1>4, <1>5, StrongInduction
<1>7. n \in T
  BY <1>1, <1>6
<1> QED
  BY <1>2, <1>7

(* The names of the sources are plain. *)
LEMMA SourcedPlain == \A n \in Sourced : (prog.minify \/ Plain(n)) /\ n # Unnamed
BY LinkerAssumption DEF Sourced, Plain, Unnamed

(* The names an info wants. *)
Wants(l, n, d, s, both, w) ==
  /\ n \in Local(l) \union {Unnamed} /\ d \in Local(l) \union {Unnamed} /\ s \in Seq(Sourced)
  /\ both = Named(n) \o Named(d) /\ w = both \o s

(* They have places for the namespace and the default. *)
LEMMA WantedOf ==
  ASSUME NEW l, NEW n, NEW d, NEW s, NEW both, NEW w, Wants(l, n, d, s, both, w)
  PROVE  /\ Len(both) \in Nat /\ Len(s) \in Nat /\ Len(w) = Len(both) + Len(s) /\ DOMAIN s = 1 .. Len(s)
         /\ \A i \in 1 .. Len(w) : prog.minify \/ Plain(w[i])
         /\ n # Unnamed => Len(both) >= 1 /\ w[1] = n
         /\ d # Unnamed => Len(both) >= 1 /\ (n # Unnamed => Len(both) # 1) /\ w[Len(both)] = d
         /\ \A i \in 1 .. Len(s) : w[Len(both) + i] = s[i]
         /\ \A i \in 1 .. Len(both) :
              \/ i = 1 /\ n # Unnamed
              \/ i = Len(both) /\ d # Unnamed /\ (i = 1 => n = Unnamed)
<1>0. /\ n \in Sourced \union {Unnamed} /\ d \in Sourced \union {Unnamed} /\ s \in Seq(Sourced)
      /\ both = Named(n) \o Named(d) /\ w = both \o s
  BY DEF Wants, Local
<1>1. PICK N, D : N = Named(n) /\ D = Named(d)
  OBVIOUS
<1>2. /\ N \in Seq(Sourced) /\ Len(N) = (IF n = Unnamed THEN 0 ELSE 1)
      /\ D \in Seq(Sourced) /\ Len(D) = (IF d = Unnamed THEN 0 ELSE 1)
  BY <1>0, <1>1 DEF Named
<1>3. both = N \o D /\ Len(N) \in Nat /\ Len(D) \in Nat
  BY <1>0, <1>1, <1>2
<1>4. both \in Seq(Sourced) /\ Len(both) = Len(N) + Len(D)
  BY <1>2, <1>3, ConcatProperties
<1>5. w \in Seq(Sourced) /\ Len(w) = Len(both) + Len(s)
  BY <1>0, <1>4, ConcatProperties
<1>6. \A i \in 1 .. Len(w) : prog.minify \/ Plain(w[i])
  BY <1>5, SourcedPlain
<1>7. \A i \in 1 .. Len(both) : w[i] = both[i]
  BY <1>0, <1>4, <1>5, ConcatProperties
<1>8. \A i \in 1 .. Len(s) : w[Len(both) + i] = s[i]
  <2>1. \A i \in 1 .. Len(both) + Len(s) : (both \o s)[i] = IF i <= Len(both) THEN both[i] ELSE s[i - Len(both)]
    BY <1>0, <1>4, ConcatProperties
  <2> SUFFICES ASSUME NEW i \in 1 .. Len(s) PROVE w[Len(both) + i] = s[i]
    OBVIOUS
  <2>2. PICK j : j = Len(both) + i
    OBVIOUS
  <2>3. Len(both) \in Nat /\ Len(s) \in Nat
    BY <1>0, <1>2, <1>3, <1>4
  <2>4. j \in 1 .. Len(both) + Len(s) /\ ~ (j <= Len(both)) /\ j - Len(both) = i
    BY <2>2, <2>3
  <2> QED
    BY <1>0, <2>1, <2>2, <2>4
<1>9. n # Unnamed => Len(N) = 1 /\ N[1] = n
  BY <1>1 DEF Named
<1>10. d # Unnamed => Len(D) = 1 /\ D[1] = d
  BY <1>1 DEF Named
<1>11. \A i \in 1 .. Len(N) + Len(D) : both[i] = IF i <= Len(N) THEN N[i] ELSE D[i - Len(N)]
  BY <1>2, <1>3, ConcatProperties
<1>12. n # Unnamed => both[1] = n
  BY <1>2, <1>3, <1>9, <1>11
<1>13. d # Unnamed => both[Len(both)] = d
  <2>1. CASE n = Unnamed
    BY <1>2, <1>3, <1>4, <1>10, <1>11, <2>1
  <2>2. CASE n # Unnamed
    BY <1>2, <1>3, <1>4, <1>10, <1>11, <2>2
  <2> QED
    BY <2>1, <2>2
<1>14. Len(both) = (IF n = Unnamed THEN 0 ELSE 1) + (IF d = Unnamed THEN 0 ELSE 1)
  BY <1>2, <1>4
<1>15. \A i \in 1 .. Len(both) :
         \/ i = 1 /\ n # Unnamed
         \/ i = Len(both) /\ d # Unnamed /\ (i = 1 => n = Unnamed)
  BY <1>14
<1> QED
  BY <1>0, <1>2, <1>3, <1>4, <1>5, <1>6, <1>7, <1>8, <1>12, <1>13, <1>14, <1>15, SMTT(30)

(* Only a name is named. *)
LEMMA NamedIs == \A y : \A x \in ToSet(Named(y)) : y # Unnamed
<1> SUFFICES ASSUME NEW x \in ToSet(Named(Unnamed)) PROVE FALSE
  OBVIOUS
<1> QED
  BY DEF Named, ToSet

(* What a library's info binds. *)
BindingsOf(l, info) ==
  {[name |-> info.ns, is |-> <<l, Star>>] : x \in ToSet(Named(info.ns))}
  \union {[name |-> info.default, is |-> <<l, DefaultName>>] : x \in ToSet(Named(info.default))}
  \union {[name |-> IF n \in DOMAIN info.alias THEN info.alias[n] ELSE n, is |-> <<l, n>>] :
            n \in ToSet(info.names)}

(* The bindings of a library are those of its info. *)
LEMMA ExternalBindingsAre == \A l : ExternalBindings(l) = BindingsOf(l, external[l])
BY DEF ExternalBindings, BindingsOf

(* The aliases of an info, those in A of the k names it has.                  *)
Aliases(s, k, given, A, al) ==
  /\ k \in Nat /\ DOMAIN s = 1 .. k
  /\ A \subseteq 1 .. k /\ \A i \in (1 .. k) \ A : given[i] = s[i]
  /\ al = [x \in {s[i] : i \in A} |-> given[Max({i \in A : s[i] = x})]]

(* An imported name is bound to one of the names given for it: its alias, or  *)
(* itself where no other was given.                                         *)
LEMMA AliasIs ==
  ASSUME NEW s, NEW k, NEW given, NEW A, NEW al, Aliases(s, k, given, A, al), NEW x \in ToSet(s)
  PROVE  \E j \in 1 .. k : s[j] = x /\ (IF x \in DOMAIN al THEN al[x] ELSE x) = given[j]
<1>0. /\ k \in Nat /\ DOMAIN s = 1 .. k
      /\ A \subseteq 1 .. k /\ \A i \in (1 .. k) \ A : given[i] = s[i]
      /\ al = [z \in {s[i] : i \in A} |-> given[Max({i \in A : s[i] = z})]]
  BY DEF Aliases
<1>1. CASE x \in DOMAIN al
  <2>1. PICK M : M = {i \in A : s[i] = x}
    OBVIOUS
  <2>2. M # {} /\ M \subseteq 1 .. k
    BY <1>0, <1>1, <2>1
  <2>3. IsFiniteSet(1 .. k) /\ 1 .. k \subseteq Nat
    BY <1>0, FS_Interval
  <2>4. IsFiniteSet(M) /\ M \in SUBSET Nat
    BY <2>2, <2>3, FS_Subset
  <2>5. Max(M) \in M
    BY <2>2, <2>4, Greatest
  <2>6. al[x] = given[Max(M)]
    BY <1>0, <1>1, <2>1
  <2> QED
    BY <1>1, <2>1, <2>2, <2>5, <2>6
<1>2. CASE x \notin DOMAIN al
  <2>1. PICK j \in DOMAIN s : s[j] = x
    BY DEF ToSet
  <2>2. j \in (1 .. k) \ A
    BY <1>0, <1>2, <2>1
  <2> QED
    BY <1>0, <1>2, <2>1, <2>2
<1> QED
  BY <1>1, <1>2

(* The info a library gets from the names r for the wanted ones w. *)
Receives(n, d, s, both, r, A, al, info) ==
  /\ A = {i \in DOMAIN s : r.gen.minify \/ r.names[Len(both) + i] # s[i]}
  /\ al = [x \in {s[i] : i \in A} |-> r.names[Len(both) + Max({i \in A : s[i] = x})]]
  /\ info = [ns |-> IF n = Unnamed THEN Unnamed ELSE r.names[1],
             default |-> IF d = Unnamed THEN Unnamed ELSE r.names[Len(both)],
             names |-> s, alias |-> al]

(* The names for one library are new: for its namespace, its default and     *)
(* every name imported from it.                                             *)
LEMMA LibraryTaken ==
  ASSUME NumeralsDiffer, NEW G, Sound(G), NEW l, NEW n, NEW d, NEW s, NEW both, NEW w,
         Wants(l, n, d, s, both, w), NEW r, r = NextNames(G, w), NEW A, NEW al, NEW info,
         Receives(n, d, s, both, r, A, al, info), l \in Libraries, G.minify = prog.minify
  PROVE  /\ Sound(r.gen) /\ Later(G, r.gen)
         /\ Taken(r.gen, BindingsOf(l, info)) /\ \A b \in BindingsOf(l, info) : ~ Given(G, b.name)
<1>1. PICK c, k : c = Len(both) /\ k = Len(s)
  OBVIOUS
<1>2. /\ c \in Nat /\ k \in Nat /\ Len(w) = c + k /\ DOMAIN s = 1 .. k
      /\ \A i \in 1 .. Len(w) : prog.minify \/ Plain(w[i])
      /\ n # Unnamed => c >= 1 /\ w[1] = n
      /\ d # Unnamed => c >= 1 /\ (n # Unnamed => c # 1) /\ w[c] = d
      /\ \A i \in 1 .. k : w[c + i] = s[i]
      /\ \A i \in 1 .. c : (i = 1 /\ n # Unnamed) \/ (i = c /\ d # Unnamed /\ (i = 1 => n = Unnamed))
  <2>1. /\ Len(both) \in Nat /\ Len(s) \in Nat /\ Len(w) = Len(both) + Len(s) /\ DOMAIN s = 1 .. Len(s)
        /\ \A i \in 1 .. Len(w) : prog.minify \/ Plain(w[i])
        /\ n # Unnamed => Len(both) >= 1 /\ w[1] = n
        /\ d # Unnamed => Len(both) >= 1 /\ (n # Unnamed => Len(both) # 1) /\ w[Len(both)] = d
        /\ \A i \in 1 .. Len(s) : w[Len(both) + i] = s[i]
        /\ \A i \in 1 .. Len(both) :
             (i = 1 /\ n # Unnamed) \/ (i = Len(both) /\ d # Unnamed /\ (i = 1 => n = Unnamed))
    BY WantedOf
  <2> QED
    BY <1>1, <2>1
<1>3. PICK f : f = [i \in 1 .. c + k |->
                      IF i > c THEN <<l, s[i - c]>>
                      ELSE IF i = 1 /\ n # Unnamed THEN <<l, Star>> ELSE <<l, DefaultName>>]
  OBVIOUS
<1>4. PICK names : names = r.names
  OBVIOUS
<1>5. PICK given : given = [i \in 1 .. k |-> names[c + i]]
  OBVIOUS
<1>6. /\ A = {i \in 1 .. k : r.gen.minify \/ names[c + i] # s[i]}
      /\ al = [x \in {s[i] : i \in A} |-> names[c + Max({i \in A : s[i] = x})]]
  BY <1>1, <1>2, <1>4 DEF Receives
<1>7. A \subseteq 1 .. k /\ \A i \in (1 .. k) \ A : given[i] = s[i]
  BY <1>5, <1>6
<1>8. al = [x \in {s[i] : i \in A} |-> given[Max({i \in A : s[i] = x})]]
  <2>1. ASSUME NEW x \in {s[i] : i \in A}
        PROVE  names[c + Max({i \in A : s[i] = x})] = given[Max({i \in A : s[i] = x})]
    <3>1. PICK M : M = {i \in A : s[i] = x}
      OBVIOUS
    <3>2. M # {} /\ M \subseteq 1 .. k
      BY <1>6, <3>1
    <3>3. IsFiniteSet(1 .. k) /\ 1 .. k \subseteq Nat
      <4>1. 1 \in Int /\ k \in Int /\ 1 .. k \subseteq Nat
        BY <1>2
      <4> QED
        BY <4>1, FS_Interval
    <3>4. IsFiniteSet(M) /\ M \in SUBSET Nat
      BY <3>2, <3>3, FS_Subset
    <3>5. Max(M) \in M
      BY <3>2, <3>4, Greatest
    <3> QED
      BY <1>5, <3>1, <3>2, <3>5
  <2> QED
    BY <1>6, <2>1
<1>9. info.ns = (IF n = Unnamed THEN Unnamed ELSE names[1]) /\ info.names = s /\ info.alias = al
      /\ info.default = (IF d = Unnamed THEN Unnamed ELSE names[c])
  BY <1>1, <1>4 DEF Receives
<1>10. \A b \in BindingsOf(l, info) : \E i \in 1 .. c + k : b = [name |-> names[i], is |-> f[i]]
  <2>1. ASSUME NEW x \in ToSet(Named(info.ns))
        PROVE  \E i \in 1 .. c + k : [name |-> info.ns, is |-> <<l, Star>>] = [name |-> names[i], is |-> f[i]]
    <3>1. info.ns # Unnamed
      BY <2>1, NamedIs
    <3>2. n # Unnamed /\ info.ns = names[1]
      BY <1>9, <3>1
    <3>3. 1 \in 1 .. c + k /\ f[1] = <<l, Star>>
      BY <1>2, <1>3, <3>2
    <3> QED
      BY <3>2, <3>3
  <2>2. ASSUME NEW x \in ToSet(Named(info.default))
        PROVE  \E i \in 1 .. c + k :
                 [name |-> info.default, is |-> <<l, DefaultName>>] = [name |-> names[i], is |-> f[i]]
    <3>1. info.default # Unnamed
      BY <2>2, NamedIs
    <3>2. d # Unnamed /\ info.default = names[c]
      BY <1>9, <3>1
    <3>3. c \in 1 .. c + k /\ f[c] = <<l, DefaultName>>
      BY <1>2, <1>3, <3>2
    <3> QED
      BY <3>2, <3>3
  <2>3. ASSUME NEW x \in ToSet(info.names)
        PROVE  \E i \in 1 .. c + k :
                 [name |-> IF x \in DOMAIN info.alias THEN info.alias[x] ELSE x, is |-> <<l, x>>]
                   = [name |-> names[i], is |-> f[i]]
    <3>0. Aliases(s, k, given, A, al)
      BY <1>2, <1>7, <1>8 DEF Aliases
    <3>9. PICK y : y = (IF x \in DOMAIN info.alias THEN info.alias[x] ELSE x)
      OBVIOUS
    <3>8. x \in ToSet(s)
      BY <1>9, <2>3
    <3>7. \E j \in 1 .. k : s[j] = x /\ (IF x \in DOMAIN al THEN al[x] ELSE x) = given[j]
      BY <3>0, <3>8, AliasIs
    <3>1. PICK j \in 1 .. k : s[j] = x /\ y = given[j]
      BY <1>9, <3>7, <3>9
    <3>2. PICK i : i = c + j
      OBVIOUS
    <3>3. i \in 1 .. c + k /\ i > c /\ i - c = j
      BY <1>2, <3>2
    <3>4. f[i] = <<l, x>> /\ y = names[i]
      BY <1>3, <1>5, <3>1, <3>2, <3>3
    <3> QED
      BY <3>3, <3>4, <3>9
  <2>4. ASSUME NEW b \in {[name |-> info.ns, is |-> <<l, Star>>] : x \in ToSet(Named(info.ns))}
        PROVE  \E i \in 1 .. c + k : b = [name |-> names[i], is |-> f[i]]
    BY <2>1, <2>4
  <2>5. ASSUME NEW b \in {[name |-> info.default, is |-> <<l, DefaultName>>] : x \in ToSet(Named(info.default))}
        PROVE  \E i \in 1 .. c + k : b = [name |-> names[i], is |-> f[i]]
    BY <2>2, <2>5
  <2>6. ASSUME NEW b \in {[name |-> IF x \in DOMAIN info.alias THEN info.alias[x] ELSE x, is |-> <<l, x>>] :
                            x \in ToSet(info.names)}
        PROVE  \E i \in 1 .. c + k : b = [name |-> names[i], is |-> f[i]]
    <3>1. PICK x \in ToSet(info.names) :
            b = [name |-> IF x \in DOMAIN info.alias THEN info.alias[x] ELSE x, is |-> <<l, x>>]
      BY <2>6
    <3> QED
      BY <2>3, <3>1
  <2> QED
    BY <2>4, <2>5, <2>6 DEF BindingsOf
<1>11. GivenTo(G, w, BindingsOf(l, info), f)
  <2>1. \A b \in BindingsOf(l, info) :
          \E i \in 1 .. Len(w) : b = [name |-> NextNames(G, w).names[i], is |-> f[i]]
    <3>1. names = NextNames(G, w).names
      BY <1>4
    <3>2. 1 .. Len(w) = 1 .. c + k
      BY <1>2
    <3> QED
      BY <1>10, <3>1, <3>2
  <2>2. Len(w) \in Nat
    BY <1>2
  <2>3. ASSUME NEW i \in 1 .. Len(w) PROVE w[i] \in SourceNames(f[i])
    <3>1. n \in LocalsOf(l) \union {Unnamed} /\ d \in LocalsOf(l) \union {Unnamed}
      BY DEF Wants, Local
    <3>2. \A x : SourceNames(<<l, x>>) = {x} \union LocalsOf(l)
      BY SourceNamesAre
    <3>3. CASE i > c
      <4>1. PICK j : j = i - c
        OBVIOUS
      <4>2. j \in 1 .. k /\ i = c + j
        BY <1>2, <3>3, <4>1
      <4>3. f[i] = <<l, s[j]>> /\ w[i] = s[j]
        BY <1>2, <1>3, <3>3, <4>1, <4>2
      <4> QED
        BY <3>2, <4>3
    <3>4. CASE ~ (i > c)
      <4>1. i \in 1 .. c /\ i \in 1 .. c + k
        BY <1>2, <3>4
      <4>2. f[i] = IF i = 1 /\ n # Unnamed THEN <<l, Star>> ELSE <<l, DefaultName>>
        BY <1>3, <3>4, <4>1
      <4>3. CASE i = 1 /\ n # Unnamed
        <5>1. w[i] = n /\ f[i] = <<l, Star>>
          BY <1>2, <4>2, <4>3
        <5> QED
          BY <3>1, <3>2, <4>3, <5>1
      <4>4. CASE ~ (i = 1 /\ n # Unnamed)
        <5>1. i = c /\ d # Unnamed
          BY <1>2, <4>1, <4>4
        <5>2. w[i] = d /\ f[i] = <<l, DefaultName>>
          BY <1>2, <4>2, <4>4, <5>1
        <5> QED
          BY <3>1, <3>2, <5>1, <5>2
      <4> QED
        BY <4>3, <4>4
    <3> QED
      BY <3>3, <3>4
  <2> QED
    BY <1>2, <2>1, <2>2, <2>3 DEF GivenTo
<1> QED
  BY <1>11, NamesTaken

(* Distribute by what it reads.                                              *)
DistributeOf(G, f, l, n, d, s, both, r) ==
  [gen |-> r.gen,
   infos |-> [f EXCEPT ![l] =
     [ns |-> IF n = Unnamed THEN Unnamed ELSE r.names[1],
      default |-> IF d = Unnamed THEN Unnamed ELSE r.names[Len(both)],
      names |-> s,
      alias |-> [x \in {s[i] : i \in {i \in DOMAIN s : G.minify \/ r.names[Len(both) + i] # s[i]}} |->
                   r.names[Len(both) + Max({i \in {i \in DOMAIN s : G.minify \/ r.names[Len(both) + i] # s[i]} :
                                              s[i] = x})]]]]]

(* It depends on nothing else.                                               *)
LEMMA DistributeReads ==
  ASSUME NEW acc, NEW l
  PROVE  Distribute(acc, l)
           = DistributeOf(acc.gen, acc.infos, l, acc.infos[l].ns, acc.infos[l].default, acc.infos[l].names,
                          Named(acc.infos[l].ns) \o Named(acc.infos[l].default),
                          NextNames(acc.gen, (Named(acc.infos[l].ns) \o Named(acc.infos[l].default))
                                               \o acc.infos[l].names))
BY DEF Distribute, DistributeOf

(* The names of one library are given. *)
DistributedTo(G, f, l, R) ==
  /\ \E h, U : R = [gen |-> h, infos |-> U]
  /\ DOMAIN R.infos = Libraries /\ \A k \in Libraries \ {l} : R.infos[k] = f[k]
  /\ Sound(R.gen) /\ Later(G, R.gen)
  /\ Taken(R.gen, BindingsOf(l, R.infos[l])) /\ \A b \in BindingsOf(l, R.infos[l]) : ~ Given(G, b.name)

(* So they are. *)
LEMMA DistributeDoes ==
  ASSUME NumeralsDiffer, NEW G, Sound(G), NEW f, DOMAIN f = Libraries, NEW l \in Libraries, IsInfo(l, f[l]),
         NEW acc, acc = [gen |-> G, infos |-> f], G.minify = prog.minify
  PROVE  DistributedTo(G, f, l, Distribute(acc, l))
<1>1. PICK n \in Local(l) \union {Unnamed}, d \in Local(l) \union {Unnamed} : \E s \in Seq(Sourced) : \E a :
        f[l] = [ns |-> n, default |-> d, names |-> s, alias |-> a]
  BY DEF IsInfo
<1>2. PICK s \in Seq(Sourced) : \E a : f[l] = [ns |-> n, default |-> d, names |-> s, alias |-> a]
  BY <1>1
<1>3. f[l].ns = n /\ f[l].default = d /\ f[l].names = s
  BY <1>2
<1>4. acc.gen = G /\ acc.infos = f
  OBVIOUS
<1>5. PICK both : both = Named(n) \o Named(d)
  OBVIOUS
<1>6. PICK w, r : w = both \o s /\ r = NextNames(G, w)
  OBVIOUS
<1>7. Wants(l, n, d, s, both, w)
  BY <1>1, <1>2, <1>5, <1>6 DEF Wants
<1>8. r.gen.minify = G.minify
  <2>1. Len(w) \in Nat
    <3>1. Len(w) = Len(both) + Len(s) /\ Len(both) \in Nat /\ Len(s) \in Nat
      BY <1>7, WantedOf
    <3> QED
      BY <3>1
  <2> QED
    BY <1>6, <2>1, NextNamesKeep DEF Sound
<1>9. PICK A : A = {i \in DOMAIN s : G.minify \/ r.names[Len(both) + i] # s[i]}
  OBVIOUS
<1>10. PICK al : al = [x \in {s[i] : i \in A} |-> r.names[Len(both) + Max({i \in A : s[i] = x})]]
  OBVIOUS
<1>11. PICK info : info = [ns |-> IF n = Unnamed THEN Unnamed ELSE r.names[1],
                           default |-> IF d = Unnamed THEN Unnamed ELSE r.names[Len(both)],
                           names |-> s, alias |-> al]
  OBVIOUS
<1>12. Receives(n, d, s, both, r, A, al, info)
  BY <1>8, <1>9, <1>10, <1>11 DEF Receives
<1>13. PICK U : U = [f EXCEPT ![l] = info]
  OBVIOUS
<1>14. Distribute(acc, l) = [gen |-> r.gen, infos |-> U]
  <2>1. Distribute(acc, l) = DistributeOf(G, f, l, n, d, s, both, r)
    <3>1. acc.infos[l].ns = n /\ acc.infos[l].default = d /\ acc.infos[l].names = s
      BY <1>3, <1>4
    <3> QED
      BY <1>4, <1>5, <1>6, <3>1, DistributeReads
  <2>2. DistributeOf(G, f, l, n, d, s, both, r) = [gen |-> r.gen, infos |-> U]
    BY <1>9, <1>10, <1>11, <1>13 DEF DistributeOf
  <2> QED
    BY <2>1, <2>2
<1>15. DOMAIN U = Libraries /\ U[l] = info /\ \A k \in Libraries \ {l} : U[k] = f[k]
  BY <1>13
<1>16. /\ Sound(r.gen) /\ Later(G, r.gen)
       /\ Taken(r.gen, BindingsOf(l, info)) /\ \A b \in BindingsOf(l, info) : ~ Given(G, b.name)
  BY <1>6, <1>7, <1>12, LibraryTaken
<1>17. PICK R : R = Distribute(acc, l)
  OBVIOUS
<1>18. R.gen = r.gen /\ R.infos = U /\ \E h, V : R = [gen |-> h, infos |-> V]
  <2>1. R = [gen |-> r.gen, infos |-> U]
    BY <1>14, <1>17
  <2> QED
    BY <2>1
<1> QED
  BY <1>15, <1>16, <1>17, <1>18 DEF DistributedTo

(* After the first k libraries. *)
NamesOf(ids, k, infos) == UNION {BindingsOf(ids[j], infos[ids[j]]) : j \in 1 .. k}
DInv(acc0, k, acc) ==
  /\ \E g, U : acc = [gen |-> g, infos |-> U]
  /\ Sound(acc.gen) /\ acc.gen.minify = prog.minify /\ Later(gen, acc.gen)
  /\ DOMAIN acc.infos = Libraries
  /\ \A l \in Libraries : (\A j \in 1 .. k : acc0.ids[j] # l) => acc.infos[l] = acc0.infos[l]
  /\ Taken(acc.gen, CallBindings \union NamesOf(acc0.ids, k, acc.infos))
  /\ \A b \in NamesOf(acc0.ids, k, acc.infos) : ~ Given(gen, b.name)

(* One library more. *)
LEMMA DistributeKeeps ==
  ASSUME NumeralsDiffer, NEW acc0, HInv(acc0), NEW n \in Nat, n = Len(acc0.ids), NEW k \in 1 .. n,
         NEW acc, DInv(acc0, k - 1, acc)
  PROVE  DInv(acc0, k, Distribute(acc, acc0.ids[k]))
<1>1. PICK ids, l : ids = acc0.ids /\ l = ids[k]
  OBVIOUS
<1>2. ids \in Seq(Libraries) /\ Once(ids) /\ n = Len(ids)
  BY <1>1 DEF HInv
<1>3. l \in Libraries /\ \A j \in 1 .. k - 1 : ids[j] # l /\ ids[j] \in Libraries /\ j \in 1 .. n
  BY <1>1, <1>2 DEF Once
<1>4. PICK G, f : acc = [gen |-> G, infos |-> f]
  BY DEF DInv
<1>5. acc.gen = G /\ acc.infos = f
  BY <1>4
<1>6. /\ Sound(G) /\ G.minify = prog.minify /\ Later(gen, G) /\ DOMAIN f = Libraries
      /\ \A b \in NamesOf(ids, k - 1, f) : ~ Given(gen, b.name)
      /\ \A x \in Libraries : (\A j \in 1 .. k - 1 : ids[j] # x) => f[x] = acc0.infos[x]
      /\ Taken(G, CallBindings \union NamesOf(ids, k - 1, f))
  BY <1>1, <1>5 DEF DInv
<1>7. IsInfo(l, f[l])
  BY <1>3, <1>6 DEF HInv
<1>8. PICK R : R = Distribute(acc, l)
  OBVIOUS
<1>9. DistributedTo(G, f, l, R)
  BY <1>3, <1>4, <1>6, <1>7, <1>8, DistributeDoes
<1>10. /\ DOMAIN R.infos = Libraries /\ \A x \in Libraries \ {l} : R.infos[x] = f[x]
       /\ Sound(R.gen) /\ R.gen.minify = prog.minify /\ Later(G, R.gen)
       /\ \E g, U : R = [gen |-> g, infos |-> U]
  BY <1>6, <1>9 DEF DistributedTo, Later
<1>11. Taken(R.gen, (CallBindings \union NamesOf(ids, k - 1, f)) \union BindingsOf(l, R.infos[l]))
  <2>1. /\ Later(G, R.gen)
        /\ Taken(R.gen, BindingsOf(l, R.infos[l])) /\ \A b \in BindingsOf(l, R.infos[l]) : ~ Given(G, b.name)
    BY <1>9 DEF DistributedTo
  <2> QED
    BY <1>6, <2>1, TakenMore
<1>12. NamesOf(ids, k, R.infos) \subseteq NamesOf(ids, k - 1, f) \union BindingsOf(l, R.infos[l])
  <2> SUFFICES ASSUME NEW j \in 1 .. k, NEW b \in BindingsOf(ids[j], R.infos[ids[j]])
               PROVE  b \in NamesOf(ids, k - 1, f) \union BindingsOf(l, R.infos[l])
    BY DEF NamesOf
  <2>1. CASE j = k
    BY <1>1, <2>1
  <2>2. CASE j # k
    <3>1. j \in 1 .. k - 1
      BY <2>2
    <3>2. R.infos[ids[j]] = f[ids[j]]
      BY <1>3, <1>10, <3>1
    <3> QED
      BY <3>1, <3>2 DEF NamesOf
  <2> QED
    BY <2>1, <2>2
<1>13. Taken(R.gen, CallBindings \union NamesOf(ids, k, R.infos))
  BY <1>11, <1>12, TakenFewer
<1>14. ASSUME NEW x \in Libraries, \A j \in 1 .. k : ids[j] # x PROVE R.infos[x] = acc0.infos[x]
  <2>1. x # l /\ \A j \in 1 .. k - 1 : ids[j] # x
    BY <1>1, <1>14
  <2> QED
    BY <1>6, <1>10, <2>1
<1>15. Later(gen, R.gen)
  BY <1>6, <1>10, LaterYet
<1>16. ASSUME NEW b \in NamesOf(ids, k, R.infos) PROVE ~ Given(gen, b.name)
  <2>1. \A c \in BindingsOf(l, R.infos[l]) : ~ Given(G, c.name)
    BY <1>9 DEF DistributedTo
  <2> QED
    BY <1>6, <1>12, <2>1 DEF Later
<1> QED
  BY <1>1, <1>8, <1>10, <1>13, <1>14, <1>15, <1>16 DEF DInv

(* All libraries. *)
LEMMA DistributedIs ==
  ASSUME NumeralsDiffer, NEW acc0, HInv(acc0), NEW n \in Nat, n = Len(acc0.ids),
         Sound(gen), gen.minify = prog.minify, Taken(gen, CallBindings)
  PROVE  DInv(acc0, n, Distributed(acc0))
<1>2. PICK h : DistributeSteps(acc0, n, h) /\ Distributed(acc0) = h[n]
  BY DistributedSteps
<1>3. DInv(acc0, 0, h[0])
  <2>1. PICK G, f : G = gen /\ f = acc0.infos
    OBVIOUS
  <2>2. h[0] = [gen |-> G, infos |-> f]
    BY <1>2, <2>1 DEF DistributeSteps, NoneDistributed
  <2>3. h[0].gen = G /\ h[0].infos = f
    BY <2>2
  <2>4. NamesOf(acc0.ids, 0, f) = {}
    BY DEF NamesOf
  <2>5. DOMAIN f = Libraries
    BY <2>1 DEF HInv
  <2> QED
    BY <2>1, <2>2, <2>3, <2>4, <2>5 DEF DInv, Later
<1> DEFINE T == {k \in Nat : k <= n => DInv(acc0, k, h[k])}
<1>4. ASSUME NEW k \in Nat, \A j \in 0 .. k - 1 : j \in T PROVE k \in T
  <2>1. CASE k = 0
    BY <1>3, <2>1
  <2>2. CASE k > n
    BY <2>2
  <2>3. CASE k # 0 /\ k <= n
    <3>1. k - 1 \in 0 .. k - 1 /\ k - 1 <= n /\ k \in 1 .. n
      BY <2>3
    <3>2. DInv(acc0, k - 1, h[k - 1])
      BY <1>4, <3>1
    <3>3. h[k] = Distribute(h[k - 1], acc0.ids[k])
      BY <1>2, <3>1 DEF DistributeSteps
    <3>4. DInv(acc0, k, h[k])
      BY <3>1, <3>2, <3>3, DistributeKeeps
    <3> QED
      BY <3>4
  <2> QED
    BY <2>1, <2>2, <2>3
<1>5. T \in SUBSET Nat
  OBVIOUS
<1>6. T = Nat
  <2> HIDE DEF T
  <2> QED
    BY <1>4, <1>5, StrongInduction
<1>7. n \in T
  BY <1>6
<1> QED
  BY <1>2, <1>7

(* The import declarations of libraries that one module has. *)
ImportsFrom(m) == {<<m, k>> : k \in {k \in DOMAIN prog.imports[m] : prog.imports[m][k].from \in Libraries}}

(* There are finitely many declarations. *)
LEMMA LibraryImportsFinite ==
  ASSUME CInv
  PROVE  /\ IsFiniteSet(LibraryImports)
         /\ \A v \in LibraryImports :
              /\ v[1] \in Modules /\ v[2] \in DOMAIN prog.imports[v[1]]
              /\ prog.imports[v[1]][v[2]].from \in Libraries
<1>1. ASSUME NEW m \in Modules PROVE IsFiniteSet(ImportsFrom(m))
  <2>1. PICK s : s = prog.imports[m]
    OBVIOUS
  <2>2. s \in Seq([from : Modules \union Libraries, source : Exportable \union {Star}, local : Names])
    BY <2>1, ProgramIs DEF IsProgram
  <2>3. PICK n \in Nat : DOMAIN s = 1 .. n
    BY <2>2
  <2>4. IsFiniteSet(1 .. n)
    BY FS_Interval
  <2>5. PICK K, f : K = {k \in DOMAIN s : s[k].from \in Libraries} /\ f = [k \in K |-> <<m, k>>]
    OBVIOUS
  <2>6. IsFiniteSet(K)
    <3>1. K \subseteq 1 .. n
      BY <2>3, <2>5
    <3> QED
      BY <2>4, <3>1, FS_Subset
  <2>7. DOMAIN f = K
    BY <2>5
  <2>8. IsFiniteSet({f[k] : k \in K})
    BY <2>6, <2>7, FiniteImage
  <2>9. {f[k] : k \in K} = ImportsFrom(m)
    BY <2>1, <2>5 DEF ImportsFrom
  <2> QED
    BY <2>8, <2>9
<1>2. PICK g : g = [m \in Modules |-> ImportsFrom(m)]
  OBVIOUS
<1>3. IsFiniteSet({g[m] : m \in Modules})
  <2>1. DOMAIN g = Modules /\ IsFiniteSet(Modules)
    BY <1>2, LinkerAssumption
  <2> QED
    BY <2>1, FiniteImage
<1>4. \A P \in {g[m] : m \in Modules} : IsFiniteSet(P)
  BY <1>1, <1>2
<1>5. IsFiniteSet(UNION {g[m] : m \in Modules})
  BY <1>3, <1>4, FS_UNION
<1>6. LibraryImports = UNION {ImportsFrom(m) : m \in Modules}
  BY DEF LibraryImports, ImportsFrom
<1>7. {g[m] : m \in Modules} = {ImportsFrom(m) : m \in Modules}
  BY <1>2
<1>8. ASSUME NEW v \in LibraryImports
      PROVE  /\ v[1] \in Modules /\ v[2] \in DOMAIN prog.imports[v[1]]
             /\ prog.imports[v[1]][v[2]].from \in Libraries
  <2>1. PICK m \in Modules : v \in ImportsFrom(m)
    BY <1>6
  <2>2. PICK k \in DOMAIN prog.imports[m] : prog.imports[m][k].from \in Libraries /\ v = <<m, k>>
    BY <2>1 DEF ImportsFrom
  <2>3. v[1] = m /\ v[2] = k
    BY <2>2
  <2> QED
    BY <2>2, <2>3
<1> QED
  BY <1>5, <1>6, <1>7, <1>8

(* The declarations as they arrive. *)
Arrived(arrival) == [k \in DOMAIN arrival |-> prog.imports[arrival[k][1]][arrival[k][2]]]

(* All are of libraries. *)
LEMMA ArrivedAre ==
  ASSUME CInv, NoNumberedNames, NEW arrival \in Arrivals
  PROVE  /\ Len(Arrived(arrival)) \in Nat
         /\ \A k \in 1 .. Len(Arrived(arrival)) : LibraryImport(Arrived(arrival)[k])
<1>1. PICK n : n = Cardinality(LibraryImports)
  OBVIOUS
<1>2. n \in Nat /\ DOMAIN arrival = 1 .. n /\ \A i \in 1 .. n : arrival[i] \in LibraryImports
  BY <1>1, LibraryImportsFinite, OrderCovers DEF Arrivals
<1>3. PICK w : w = Arrived(arrival)
  OBVIOUS
<1>4. /\ DOMAIN w = 1 .. n
      /\ \A k \in 1 .. n : w[k] = prog.imports[arrival[k][1]][arrival[k][2]]
  BY <1>2, <1>3 DEF Arrived
<1>5. Len(w) = n
  <2>1. \E x : w = [k \in 1 .. n |-> prog.imports[arrival[k][1]][arrival[k][2]]]
    BY <1>2, <1>3 DEF Arrived
  <2> QED
    BY <1>2, <2>1
<1>6. ASSUME NEW k \in 1 .. n PROVE LibraryImport(w[k])
  <2>1. PICK m, j : m = arrival[k][1] /\ j = arrival[k][2]
    OBVIOUS
  <2>2. m \in Modules /\ j \in DOMAIN prog.imports[m] /\ prog.imports[m][j].from \in Libraries
    BY <1>2, <2>1, LibraryImportsFinite
  <2>3. PICK s, i : s = prog.imports[m] /\ i = s[j]
    OBVIOUS
  <2>4. s \in Seq([from : Modules \union Libraries, source : Exportable \union {Star}, local : Names])
    BY <2>2, <2>3, ProgramIs DEF IsProgram
  <2>5. i \in [from : Modules \union Libraries, source : Exportable \union {Star}, local : Names]
    <3>1. PICK X : X = [from : Modules \union Libraries, source : Exportable \union {Star}, local : Names]
      OBVIOUS
    <3>2. s \in Seq(X) /\ j \in DOMAIN s
      BY <2>2, <2>3, <2>4, <3>1
    <3>3. s[j] \in X
      BY <3>2
    <3> QED
      BY <2>3, <3>1, <3>3
  <2>6. i.source \in Names \union {DefaultName, Star} /\ i.local \in Names
    BY <2>5 DEF Exportable
  <2>7. i.local \in prog.owns[m] /\ m \in Scopes
    BY <2>2, <2>3, ProgramIs DEF IsProgram
  <2>8. i \in ToSet(s)
    BY <2>2, <2>3 DEF ToSet
  <2>9. prog.minify \/ (~ IsNumbered(i.source) /\ ~ IsNumbered(i.local))
    BY <2>2, <2>3, <2>7, <2>8 DEF NoNumberedNames
  <2>11. i.local \in LocalsOf(i.from)
    BY <2>2, <2>3, <2>8 DEF LocalsOf
  <2>10. w[k] = i
    BY <1>4, <2>1, <2>3
  <2> QED
    BY <2>2, <2>3, <2>6, <2>9, <2>10, <2>11 DEF LibraryImport, Sourced, Local
<1> QED
  BY <1>3, <1>5, <1>6

(* Naming what is imported from libraries: every name is new. *)
LEMMA NGenAst ==
  ASSUME NumeralsDiffer, CInv, WInv, SInv, NInv, GenAst
  PROVE  WInv' /\ SInv' /\ NInv' /\ (Assumed => Grown)
<1>1. /\ stage = "externals" /\ stage' = "roots" /\ stack' = <<Entry>> /\ visited' = {Entry}
      /\ UNCHANGED <<prog, sym>>
  BY DEF GenAst
<1>2. Walked' = {} /\ WInv'
  BY <1>1, BeginDoes
<1>3. SInv'
  <2>1. IsSym(sym) /\ \A m \in Modules : Untouched(sym, m)
    <3>1. Walked = {}
      BY <1>1 DEF WInv, Walked
    <3> QED
      BY <1>1, <3>1 DEF SInv
  <2>2. IsSym(sym)' /\ \A m \in Modules : Untouched(sym, m)'
    BY <1>1, <2>1, SymNext
  <2> QED
    BY <1>1, <2>2 DEF SInv
<1>4. ASSUME Assumed PROVE Sound(gen') /\ gen'.minify = prog.minify /\ Taken(gen', Bound') /\ Grown
  <2>1. PICK arrival \in Arrivals : /\ gen' = Distributed(Handled(Arrived(arrival))).gen
                                    /\ external' = Distributed(Handled(Arrived(arrival))).infos
    BY DEF GenAst, Arrived
  <2>2. PICK acc0, R : acc0 = Handled(Arrived(arrival)) /\ R = Distributed(acc0)
    OBVIOUS
  <2>3. HInv(acc0)
    <3>1. external = [l \in Libraries |-> NoImports]
      BY <1>1 DEF SInv
    <3>2. PICK w : w = Arrived(arrival)
      OBVIOUS
    <3>3. Len(w) \in Nat /\ \A k \in 1 .. Len(w) : LibraryImport(w[k])
      BY <1>4, <3>2, ArrivedAre DEF Assumed
    <3>4. HInv(Handled(w))
      BY <3>1, <3>3, HandledIs
    <3> QED
      BY <2>2, <3>2, <3>4
  <2>4. PICK n, ids : ids = acc0.ids /\ n = Len(ids)
    OBVIOUS
  <2>5. n \in Nat /\ ids \in Seq(Libraries) /\ \A l \in Libraries \ On(ids) : acc0.infos[l] = NoImports
    BY <2>3, <2>4 DEF HInv
  <2>6. Sound(gen) /\ gen.minify = prog.minify /\ Taken(gen, CallBindings)
    <3>1. Taken(gen, Bound) /\ CallBindings \subseteq Bound
      BY <1>4 DEF NInv, Bound
    <3> QED
      BY <1>4, <3>1, TakenFewer DEF NInv
  <2>7. DInv(acc0, n, R)
    BY <2>2, <2>3, <2>4, <2>5, <2>6, DistributedIs
  <2>8. gen' = R.gen /\ external' = R.infos
    BY <2>1, <2>2
  <2>9. /\ Sound(gen') /\ gen'.minify = prog.minify
        /\ \A l \in Libraries : (\A j \in 1 .. n : ids[j] # l) => external'[l] = acc0.infos[l]
        /\ Taken(gen', CallBindings \union NamesOf(ids, n, external'))
        /\ Later(gen, gen') /\ \A b \in NamesOf(ids, n, external') : ~ Given(gen, b.name)
    BY <2>4, <2>7, <2>8 DEF DInv
  <2>10. ASSUME NEW l \in Libraries PROVE BindingsOf(l, external'[l]) \subseteq NamesOf(ids, n, external')
    <3>1. CASE l \in On(ids)
      <4>1. PICK j \in 1 .. n : ids[j] = l
        BY <2>4, <3>1 DEF On
      <4> QED
        BY <4>1 DEF NamesOf
    <3>2. CASE l \notin On(ids)
      <4>1. external'[l] = NoImports
        BY <2>4, <2>5, <2>9, <2>10, <3>2 DEF On
      <4>2. PICK info : info = NoImports
        OBVIOUS
      <4>3. info.ns = Unnamed /\ info.default = Unnamed /\ info.names = <<>>
        BY <4>2 DEF NoImports
      <4>4. ToSet(Named(info.ns)) = {} /\ ToSet(Named(info.default)) = {} /\ ToSet(info.names) = {}
        BY <4>3 DEF Named, ToSet
      <4>5. BindingsOf(l, info) = {}
        BY <4>4 DEF BindingsOf
      <4> QED
        BY <4>1, <4>2, <4>5
    <3> QED
      BY <3>1, <3>2
  <2>11. LibraryBindings' \subseteq NamesOf(ids, n, external')
    <3>1. \A l : ExternalBindings(l)' = BindingsOf(l, external'[l])
      BY DEF ExternalBindings, BindingsOf
    <3>2. LibraryBindings' = UNION {ExternalBindings(l)' : l \in Libraries}
      BY DEF LibraryBindings
    <3> QED
      BY <2>10, <3>1, <3>2
  <2>12. Bound' \subseteq CallBindings \union NamesOf(ids, n, external')
    <3>1. Settled' = {}
      BY <1>1, <1>2, SettledNext
    <3>2. Bound' = CallBindings \union LibraryBindings' \union VariableBindings' /\ VariableBindings' = {}
      BY <1>1, <3>1, BoundNext
    <3> QED
      BY <2>11, <3>2
  <2>13. Grown
    BY <2>9, <2>12 DEF Grown, Bound
  <2> QED
    BY <2>9, <2>12, <2>13, TakenFewer
<1>5. NInv'
  BY <1>1, <1>4, NNext
<1> QED
  BY <1>2, <1>3, <1>4, <1>5

(* What is settled changes with the tables, the stage and the walk only. *)
LEMMA SettledStays ==
  ASSUME CInv, UNCHANGED <<prog, stage, sym>>, Walked' = Walked
  PROVE  Settled' = Settled
<1>1. stage \in {"collect", "inner", "externals", "roots", "imports", "done", "failed"}
  BY DEF CInv, StageNames
<1>2. CASE stage = "roots"
  BY <1>2, SettledIs, SettledNext
<1>3. CASE stage \in {"imports", "done"}
  BY <1>3, SettledIs, SettledNext
<1>4. CASE stage \in {"collect", "inner", "externals", "failed"}
  BY <1>4, SettledIs, SettledNext
<1> QED
  BY <1>1, <1>2, <1>3, <1>4

(* The steps that change neither names nor owners. *)
LEMMA SymStays ==
  ASSUME SInv, UNCHANGED <<prog, sym, external>>, Walked' = Walked,
         stage' \in {"collect", "inner", "externals", "roots"} => stage \in {"collect", "inner", "externals", "roots"},
         stage' \in {"collect", "inner", "externals"} => stage \in {"collect", "inner", "externals"},
         stage' = "inner" => prog.minify
  PROVE  SInv'
<1>1. IsSym(sym)'
  BY SymNext DEF SInv
<1>2. stage' \in {"collect", "inner", "externals", "roots"} =>
        \A m \in Modules \ Walked' : Untouched(sym, m)'
  BY SymNext DEF SInv
<1>3. stage' \in {"collect", "inner", "externals"} => external' = [l \in Libraries |-> NoImports]
  BY DEF SInv
<1> QED
  BY <1>1, <1>2, <1>3 DEF SInv

LInv == WInv /\ SInv /\ NInv

(* Every step keeps the names apart, and all but one give only new ones. *)
LEMMA LStep ==
  ASSUME NumeralsDiffer, CInv, LInv, [Next]_vars
  PROVE  LInv' /\ (Assumed => Grown \/ MergeGenerators)
<1> USE DEF LInv
<1> SUFFICES WInv' /\ SInv' /\ NInv' /\ (Assumed => Grown \/ MergeGenerators)
  OBVIOUS
<1>1. CASE CollectExports
  <2>1. /\ stage = "collect" /\ stage' = (IF prog.minify THEN "inner" ELSE "externals")
        /\ UNCHANGED <<prog, sym, external, gen, stack, visited>>
    BY <1>1 DEF CollectExports
  <2>2. Walked' = Walked
    BY <2>1 DEF Walked
  <2>3. stage' \in {"inner", "externals"} /\ (stage' = "inner" => prog.minify)
    BY <2>1
  <2>4. WInv'
    BY <2>1, <2>2, <2>3 DEF WInv, Walked
  <2>5. SInv'
    BY <2>1, <2>2, <2>3, SymStays
  <2>6. Settled' = {}
    BY <2>1, <2>3, SettledNext
  <2>7. NInv' /\ Grown
    BY <2>1, <2>6, Quiet
  <2> QED
    BY <2>4, <2>5, <2>7
<1>2. ASSUME NEW s \in Inner, RenameInner(s) PROVE WInv' /\ SInv' /\ NInv' /\ Grown
  <2>1. WInv' /\ SInv'
    BY <1>2, InnerTouches
  <2>2. UNCHANGED <<prog, stage, external, gen>> /\ stage = "inner"
    BY <1>2 DEF RenameInner
  <2>3. Settled' = {}
    BY <2>2, SettledNext
  <2>4. NInv' /\ Grown
    BY <2>2, <2>3, Quiet
  <2> QED
    BY <2>1, <2>4
<1>3. CASE MergeGenerators
  <2>1. stage = "inner" /\ stage' = "externals" /\ UNCHANGED <<prog, sym, external, stack, visited>>
    BY <1>3 DEF MergeGenerators
  <2>2. Walked' = Walked
    BY <2>1 DEF Walked
  <2>3. WInv'
    BY <2>1, <2>2 DEF WInv, Walked
  <2>4. SInv'
    BY <2>1, <2>2, SymStays
  <2>5. NInv'
    BY <1>3, NMerge
  <2> QED
    BY <1>3, <2>3, <2>4, <2>5
<1>4. CASE GenAst
  BY <1>4, NGenAst
<1>5. CASE Descend
  <2>1. Walked' = Walked /\ WInv'
    BY <1>5, DescendDoes
  <2>2. UNCHANGED <<prog, stage, sym, external, gen>>
    BY <1>5 DEF Descend
  <2>3. SInv'
    <3>1. stage = "inner" => prog.minify
      BY DEF SInv
    <3> QED
      BY <2>1, <2>2, <3>1, SymStays
  <2>4. Settled' = Settled
    BY <2>1, <2>2, SettledStays
  <2>5. NInv' /\ Grown
    BY <2>2, <2>4, Quiet
  <2> QED
    BY <2>1, <2>3, <2>5
<1>6. CASE RenameRoot
  <2>1. WInv' /\ SInv'
    <3>1. PICK m : m = Last(stack)
      OBVIOUS
    <3> QED
      BY <1>6, <3>1, RootTables
  <2>2. NInv' /\ (Assumed => Grown)
    BY <1>6, NRoot
  <2> QED
    BY <2>1, <2>2
<1>7. CASE RootsRenamed
  <2>1. /\ stage = "roots" /\ stack = <<>> /\ stage' = "imports" /\ stack' = <<Entry>> /\ visited' = {Entry}
        /\ UNCHANGED <<prog, sym, external, gen>>
    BY <1>7 DEF RootsRenamed
  <2>2. Walked' = {} /\ WInv'
    BY <2>1, BeginDoes
  <2>3. SInv'
    <3>1. IsSym(sym)'
      BY <2>1, SymNext DEF SInv
    <3> QED
      BY <2>1, <3>1 DEF SInv
  <2>4. Walked = Modules
    BY <2>1, AllWalked
  <2>5. /\ Settled = {v \in DOMAIN sym.name : v[1] \in Walked}
        /\ Settled' = {v \in DOMAIN sym'.name : v[1] \in Modules /\ (v[1] \notin Walked' \/ Declared(v))}
    BY <2>1, SettledIs, SettledNext
  <2>6. NInv' /\ Grown
    BY <2>1, <2>4, <2>5, Quiet
  <2> QED
    BY <2>2, <2>3, <2>6
<1>8. CASE ReplaceImports
  BY <1>8, NReplace
<1>9. CASE Finish
  <2>1. /\ stage = "imports" /\ stage' = "done"
        /\ UNCHANGED <<prog, sym, external, gen, stack, visited>>
    BY <1>9 DEF Finish
  <2>2. Walked' = Walked
    BY <2>1 DEF Walked
  <2>3. \A m : RefMods(m)' = RefMods(m)
    BY <2>1 DEF RefMods, ReferredTo, ReferencesOf
  <2>4. WInv'
    BY <2>1, <2>2, <2>3 DEF WInv
  <2>5. SInv'
    BY <2>1, <2>2, SymStays
  <2>6. Settled' = Settled
    BY <2>1, <2>2, SettledIs, SettledNext
  <2>7. NInv' /\ Grown
    BY <2>1, <2>6, Quiet
  <2> QED
    BY <2>4, <2>5, <2>7
<1>10. CASE UNCHANGED vars
  <2>1. UNCHANGED <<prog, stage, sym, external, gen, stack, visited>>
    BY <1>10 DEF vars
  <2>2. Walked' = Walked
    BY <2>1 DEF Walked
  <2>3. \A m : RefMods(m)' = RefMods(m)
    BY <2>1 DEF RefMods, ReferredTo, ReferencesOf
  <2>4. WInv'
    BY <2>1, <2>2, <2>3 DEF WInv
  <2>5. SInv'
    <3>1. stage = "inner" => prog.minify
      BY DEF SInv
    <3> QED
      BY <2>1, <2>2, <3>1, SymStays
  <2>6. Settled' = Settled
    BY <2>1, <2>2, SettledStays
  <2>7. NInv' /\ Grown
    BY <2>1, <2>6, Quiet
  <2> QED
    BY <2>4, <2>5, <2>7
<1> QED
  BY <1>1, <1>2, <1>3, <1>4, <1>5, <1>6, <1>7, <1>8, <1>9, <1>10 DEF Next, Stop

(* At the end all names of the bundle's one scope are settled. *)
LEMMA RootsAreBound ==
  ASSUME CInv, WInv, SInv, Done
  PROVE  RootBindings \subseteq Bound
<1>1. stage = "done"
  BY DEF Done
<1>2. Settled = {v \in DOMAIN sym.name : v[1] \in Modules /\ (v[1] \notin Walked \/ Declared(v))}
  BY <1>1, SettledIs
<1>3. ASSUME NEW v \in DOMAIN sym.name, v[2] = DefaultVar \/ (v[1] \in Modules /\ Declared(v))
      PROVE  v \in Settled
  <2>1. CASE v[2] = DefaultVar
    <3>1. v[1] \in Modules
      BY <2>1 DEF SInv, IsSym
    <3>2. Declared(v)
      <4> SUFFICES ASSUME NEW i \in ImportsOf(v[1], v[2]) PROVE FALSE
        BY DEF Declared
      <4>1. PICK s, m : s = prog.imports[m] /\ m = v[1]
        OBVIOUS
      <4>2. s \in Seq([from : Modules \union Libraries, source : Exportable \union {Star}, local : Names])
        BY <3>1, <4>1, ProgramIs DEF IsProgram
      <4>3. PICK k \in DOMAIN s : i = s[k] /\ i.local = DefaultVar
        BY <2>1, <4>1 DEF ImportsOf, ToSet
      <4>4. i.local \in Names
        <5>1. PICK X : X = [from : Modules \union Libraries, source : Exportable \union {Star}, local : Names]
          OBVIOUS
        <5>2. s \in Seq(X) /\ k \in DOMAIN s
          BY <4>2, <5>1
        <5>3. s[k] \in X
          BY <5>2
        <5> QED
          BY <4>3, <5>1, <5>3
      <4> QED
        BY <4>3, <4>4, LinkerAssumption
    <3> QED
      BY <1>2, <3>1, <3>2
  <2>2. CASE v[1] \in Modules /\ Declared(v)
    BY <1>2, <2>2
  <2> QED
    BY <1>3, <2>1, <2>2
<1>4. {[name |-> sym.name[v], is |-> v] :
         v \in {v \in DOMAIN sym.name : v[2] = DefaultVar \/ (v[1] \in Modules /\ Declared(v))}}
        \subseteq VariableBindings
  BY <1>3 DEF VariableBindings
<1>5. RootBindings =
        ({[name |-> sym.name[v], is |-> v] :
            v \in {v \in DOMAIN sym.name : v[2] = DefaultVar \/ (v[1] \in Modules /\ Declared(v))}}
         \union LibraryBindings) \union CallBindings
  BY DEF RootBindings, LibraryBindings, CallBindings
<1> QED
  BY <1>4, <1>5 DEF Bound

(* No two declarations of the bundle's one scope have a name in common: the   *)
(* generator gives a name once, and what was named stays named so.  That      *)
(* numbers have different numerals is a hypothesis: the provers know nothing  *)
(* of ToString.                                                             *)
THEOREM NamesDistinct ==
  ASSUME NumeralsDiffer
  PROVE  Spec => []RootNamesDistinct
<1>1. Init => CInv /\ LInv
  BY CInit, SInit, NInit DEF LInv
<1>2. CInv /\ LInv /\ [Next]_vars => (CInv /\ LInv)'
  <2> SUFFICES ASSUME CInv, LInv, [Next]_vars PROVE CInv' /\ LInv'
    OBVIOUS
  <2> QED
    BY CStep, LStep
<1>3. CInv /\ LInv => RootNamesDistinct
  <2> SUFFICES ASSUME CInv, LInv, Done, Assumed,
                      NEW b \in RootBindings, NEW c \in RootBindings, b.name = c.name
               PROVE  b = c
    BY DEF RootNamesDistinct, Assumed
  <2>1. b \in Bound /\ c \in Bound
    BY RootsAreBound DEF LInv
  <2> QED
    BY <2>1 DEF LInv, NInv, Taken
<1> QED
  BY <1>1, <1>2, <1>3, PTL DEF Spec

-----------------------------------------------------------------------------
(* The scopes around a scope: Chain is computed by recursion over Parent,     *)
(* which ends because every scope is inside a module.                        *)

(* The least number of a set. *)
LEMMA Least ==
  ASSUME NEW S \in SUBSET Nat, S # {}
  PROVE  Min(S) \in S /\ \A y \in S : Min(S) <= y
<1>1. PICK x \in S : \A y \in S : x <= y
  BY LeastNatural
<1> QED
  BY <1>1 DEF Min

IsChain(s, q) ==
  /\ q \in Seq(Scopes) /\ Len(q) \in Nat \ {0} /\ q[1] = s
  /\ \A k \in 1 .. Len(q) - 1 : q[k] \in Inner /\ q[k + 1] = Parent[q[k]]
  /\ q[Len(q)] \in Modules

(* A module is a chain of its own, ... *)
LEMMA ModuleChain ==
  ASSUME NEW s \in Modules
  PROVE  IsChain(s, <<s>>)
<1>1. s \in Scopes
  BY DEF Scopes
<1>2. <<s>> \in Seq(Scopes) /\ Len(<<s>>) = 1 /\ <<s>>[1] = s
  BY <1>1
<1> QED
  BY <1>2 DEF IsChain

(* ... and an inner scope goes before the chain of its parent. *)
LEMMA InnerChain ==
  ASSUME NEW s \in Inner, NEW q, IsChain(Parent[s], q)
  PROVE  IsChain(s, <<s>> \o q)
<1>1. /\ q \in Seq(Scopes) /\ Len(q) \in Nat \ {0} /\ q[1] = Parent[s]
      /\ \A k \in 1 .. Len(q) - 1 : q[k] \in Inner /\ q[k + 1] = Parent[q[k]]
      /\ q[Len(q)] \in Modules
  BY DEF IsChain
<1>2. s \in Scopes
  BY DEF Scopes
<1>3. PICK r, n : r = <<s>> \o q /\ n = Len(q)
  OBVIOUS
<1>4. /\ r \in Seq(Scopes) /\ Len(r) = n + 1 /\ r[1] = s
      /\ \A k \in 1 .. n : r[k + 1] = q[k]
  BY <1>1, <1>2, <1>3
<1>5. n \in Nat \ {0}
  BY <1>1, <1>3
<1>6. ASSUME NEW k \in 1 .. n PROVE r[k] \in Inner /\ r[k + 1] = Parent[r[k]]
  <2>1. CASE k = 1
    BY <1>1, <1>4, <1>5, <2>1
  <2>2. CASE k # 1
    <3>1. PICK j : j = k - 1
      OBVIOUS
    <3>2. j \in 1 .. n - 1 /\ j \in 1 .. n /\ j + 1 = k
      BY <1>5, <2>2, <3>1
    <3>3. r[k] = q[j] /\ r[k + 1] = q[k]
      BY <1>4, <3>2
    <3>4. q[j] \in Inner /\ q[k] = Parent[q[j]]
      BY <1>1, <1>3, <3>2
    <3> QED
      BY <3>3, <3>4
  <2> QED
    BY <2>1, <2>2
<1>7. r[n + 1] \in Modules
  BY <1>1, <1>3, <1>4, <1>5
<1>8. /\ Len(r) \in Nat \ {0} /\ \A k \in 1 .. Len(r) - 1 : r[k] \in Inner /\ r[k + 1] = Parent[r[k]]
      /\ r[Len(r)] \in Modules
  BY <1>4, <1>5, <1>6, <1>7
<1> QED
  BY <1>3, <1>4, <1>8 DEF IsChain

(* A scope has one chain. *)
LEMMA ChainsAgree ==
  ASSUME NEW s, NEW q, NEW r, IsChain(s, q), IsChain(s, r)
  PROVE  q = r
<1>1. /\ q \in Seq(Scopes) /\ Len(q) \in Nat \ {0} /\ q[1] = s
      /\ \A k \in 1 .. Len(q) - 1 : q[k] \in Inner /\ q[k + 1] = Parent[q[k]]
      /\ q[Len(q)] \in Modules
  BY DEF IsChain
<1>2. /\ r \in Seq(Scopes) /\ Len(r) \in Nat \ {0} /\ r[1] = s
      /\ \A k \in 1 .. Len(r) - 1 : r[k] \in Inner /\ r[k + 1] = Parent[r[k]]
      /\ r[Len(r)] \in Modules
  BY DEF IsChain
<1>3. PICK m, n : m = Len(q) /\ n = Len(r)
  OBVIOUS
<1> DEFINE T == {k \in Nat : k + 1 <= m /\ k + 1 <= n => q[k + 1] = r[k + 1]}
<1>4. ASSUME NEW k \in Nat, \A j \in 0 .. k - 1 : j \in T PROVE k \in T
  <2> SUFFICES ASSUME k + 1 <= m, k + 1 <= n PROVE q[k + 1] = r[k + 1]
    OBVIOUS
  <2>1. CASE k = 0
    BY <1>1, <1>2, <2>1
  <2>2. CASE k # 0
    <3>1. PICK j : j = k - 1
      OBVIOUS
    <3>2. j \in 0 .. k - 1 /\ j + 1 = k /\ k \in 1 .. m - 1 /\ k \in 1 .. n - 1
      BY <1>1, <1>2, <1>3, <2>2, <3>1
    <3>3. q[k] = r[k]
      <4>1. j \in T /\ j + 1 <= m /\ j + 1 <= n
        BY <1>1, <1>2, <1>3, <1>4, <3>2
      <4>2. q[j + 1] = r[j + 1]
        BY <4>1
      <4> QED
        BY <3>2, <4>2
    <3> QED
      BY <1>1, <1>2, <1>3, <3>2, <3>3
  <2> QED
    BY <2>1, <2>2
<1>5. T \in SUBSET Nat
  OBVIOUS
<1>6. T = Nat
  <2> HIDE DEF T
  <2> QED
    BY <1>4, <1>5, StrongInduction
<1>7. ASSUME NEW i \in Nat \ {0}, i <= m, i <= n PROVE q[i] = r[i]
  <2>1. PICK k : k = i - 1
    OBVIOUS
  <2>2. k \in Nat /\ k + 1 = i
    BY <2>1
  <2>3. k \in T
    BY <1>6, <2>2
  <2> QED
    BY <1>7, <2>2, <2>3
<1>8. m = n
  <2>1. m \in Nat \ {0} /\ n \in Nat \ {0}
    BY <1>1, <1>2, <1>3
  <2>2. CASE m < n
    <3>1. q[m] = r[m] /\ m \in 1 .. n - 1
      BY <1>7, <2>1, <2>2
    <3>2. q[m] \in Modules /\ r[m] \in Inner
      BY <1>1, <1>2, <1>3, <3>1
    <3> QED
      BY <3>1, <3>2, LinkerAssumption
  <2>3. CASE n < m
    <3>1. q[n] = r[n] /\ n \in 1 .. m - 1
      BY <1>7, <2>1, <2>3
    <3>2. r[n] \in Modules /\ q[n] \in Inner
      BY <1>1, <1>2, <1>3, <3>1
    <3> QED
      BY <3>1, <3>2, LinkerAssumption
  <2> QED
    BY <2>1, <2>2, <2>3
<1>9. \A i \in 1 .. m : q[i] = r[i]
  BY <1>7, <1>8
<1>10. q = [i \in 1 .. m |-> q[i]] /\ r = [i \in 1 .. m |-> r[i]]
  <2>1. ASSUME NEW t \in Seq(Scopes) PROVE t = [i \in 1 .. Len(t) |-> t[i]]
    OBVIOUS
  <2>2. q = [i \in 1 .. Len(q) |-> q[i]] /\ r = [i \in 1 .. Len(r) |-> r[i]]
    BY <1>1, <1>2, <2>1
  <2> QED
    BY <1>3, <1>8, <2>2
<1> QED
  BY <1>9, <1>10

(* Every scope has one, and Chain is it. *)
LEMMA ChainIs ==
  ASSUME NEW s \in Scopes
  PROVE  IsChain(s, Chain[s])
<1> DEFINE S == {t \in Scopes : \E q : IsChain(t, q)}
           Of(c, t) == IF t \in Modules THEN <<t>> ELSE <<t>> \o c[Parent[t]]
           the(t) == CHOOSE q : IsChain(t, q)
           f == [t \in Scopes |-> the(t)]
<1>1. \A t \in Scopes \ Modules : t \in Inner /\ Parent[t] \in Scopes
  BY LinkerAssumption DEF Scopes
<1>2. S = Scopes
  <2>1. S \in SUBSET Scopes
    OBVIOUS
  <2>2. Modules \subseteq S
    BY ModuleChain DEF Scopes
  <2>3. \A t \in Inner : Parent[t] \in S => t \in S
    BY InnerChain DEF Scopes
  <2> HIDE DEF S
  <2> QED
    BY <2>1, <2>2, <2>3, LinkerAssumption
<1>3. \A t \in Scopes : IsChain(t, f[t])
  <2>1. ASSUME NEW t \in Scopes PROVE IsChain(t, the(t))
    <3>1. \E q : IsChain(t, q)
      BY <1>2
    <3> QED
      BY <3>1
  <2> QED
    BY <2>1
<1> HIDE DEF the
<1>4. ASSUME NEW t \in Scopes PROVE f[t] = Of(f, t)
  <2>1. IsChain(t, f[t])
    BY <1>3
  <2> HIDE DEF f
  <2>2. CASE t \in Modules
    BY <2>1, <2>2, ModuleChain, ChainsAgree
  <2>3. CASE t \notin Modules
    <3>1. t \in Inner /\ IsChain(Parent[t], f[Parent[t]])
      BY <1>1, <1>3, <2>3
    <3>2. IsChain(t, <<t>> \o f[Parent[t]])
      BY <3>1, InnerChain
    <3>3. f[t] = <<t>> \o f[Parent[t]]
      BY <2>1, <3>2, ChainsAgree
    <3> QED
      BY <2>3, <3>3
  <2> QED
    BY <2>2, <2>3
<1>5. f = [t \in Scopes |-> Of(f, t)]
  <2>1. f = [t \in Scopes |-> f[t]]
    OBVIOUS
  <2> HIDE DEF f, Of
  <2> QED
    BY <1>4, <2>1
<1>6. Chain = CHOOSE c : c = [t \in Scopes |-> Of(c, t)]
  BY DEF Chain
<1> HIDE DEF f, Of
<1>7. Chain = [t \in Scopes |-> Of(Chain, t)]
  BY <1>5, <1>6
<1> USE DEF Of
<1>8. \A t \in Modules : Chain[t] = <<t>>
  BY <1>7 DEF Scopes
<1>9. \A t \in Inner : Chain[t] = <<t>> \o Chain[Parent[t]]
  BY <1>7, LinkerAssumption DEF Scopes
<1> DEFINE R == {t \in Scopes : IsChain(t, Chain[t])}
<1>10. R = Scopes
  <2>1. R \in SUBSET Scopes
    OBVIOUS
  <2>2. Modules \subseteq R
    BY <1>8, ModuleChain DEF Scopes
  <2>3. \A t \in Inner : Parent[t] \in R => t \in R
    BY <1>9, InnerChain DEF Scopes
  <2> HIDE DEF R
  <2> QED
    BY <2>1, <2>2, <2>3, LinkerAssumption
<1> QED
  BY <1>10

-----------------------------------------------------------------------------
(* The names of inner scopes.  Readable they stay those of the source;        *)
(* minified a scope is named after the scopes inside it, with numbers from    *)
(* low on that none of those has.                                            *)
NamedFrom(s, low) ==
  /\ low \in Nat
  /\ \A t \in Children(s) : counters[t] # NotYet /\ counters[t] <= low
  /\ \A v \in OwnVars(s) : \E i \in Nat : low <= i /\ i < counters[s] /\ sym.name[v] = GenAName(i)
  /\ low <= counters[s] /\ \A v, w \in OwnVars(s) : sym.name[v] = sym.name[w] => v = w
KInv ==
  /\ prog.minify /\ stage \notin {"collect", "inner"} => AllRenamed
  /\ ~ prog.minify => \A s \in Inner : counters[s] = NotYet
  /\ \A s \in Inner : counters[s] = NotYet =>
       /\ \A v \in OwnVars(s) : sym.name[v] = v[2]
       /\ stage \in {"collect", "inner"} => sym.own[s] = OwnVars(s)
  /\ \A s \in Inner : counters[s] # NotYet => \E low : NamedFrom(s, low)

(* At the start no scope has been named. *)
LEMMA KInit == Init => KInv
<1> SUFFICES ASSUME Init PROVE KInv
  OBVIOUS
<1>1. /\ stage = "collect" /\ sym = SymbolsOf(prog) /\ counters = [s \in Inner |-> NotYet]
  BY DEF Init
<1>2. PICK V : V = UNION {OwnVars(s) : s \in Scopes}
  OBVIOUS
<1>3. /\ sym.name = [v \in V |-> v[2]]
      /\ sym.own = [s \in Scopes |-> OwnVars(s)]
  BY <1>1, <1>2 DEF SymbolsOf, OwnVars
<1>4. \A s \in Inner : s \in Scopes /\ \A v \in OwnVars(s) : v \in V
  BY <1>2 DEF Scopes
<1>5. \A s \in Inner : /\ counters[s] = NotYet /\ sym.own[s] = OwnVars(s)
                       /\ \A v \in OwnVars(s) : sym.name[v] = v[2]
  BY <1>1, <1>3, <1>4
<1> QED
  BY <1>1, <1>5 DEF KInv

(* The numbers a scope's names have, where no scope inside it has them. *)
LEMMA ChildrenBelow ==
  ASSUME CInv, NEW s \in Inner, \A t \in Children(s) : counters[t] # NotYet
  PROVE  /\ IsGen(ChildGenerator(s)) /\ ChildGenerator(s).minify = TRUE
         /\ ChildGenerator(s).counter \in Nat
         /\ \A t \in Children(s) : counters[t] <= ChildGenerator(s).counter
<1>1. IsGen(ChildGenerator(s))
  BY ChildGeneratorIs
<1>2. IsFiniteSet(Children(s)) /\ Children(s) \subseteq Inner
  BY LinkerAssumption, FS_Subset DEF Children
<1>3. PICK f : f = [t \in Children(s) |-> counters[t]]
  OBVIOUS
<1>4. PICK T, U : T = {f[t] : t \in Children(s)} /\ U = {0} \union T
  OBVIOUS
<1>5. IsFiniteSet(T)
  BY <1>2, <1>3, <1>4, FiniteImage
<1>6. T = {counters[t] : t \in Children(s)} /\ T \subseteq Nat
  BY <1>2, <1>3, <1>4 DEF CInv
<1>7. IsFiniteSet(U)
  <2>1. IsFiniteSet({0} \union T)
    BY <1>5, FS_Singleton, FS_Union
  <2> QED
    BY <1>4, <2>1
<1>8. U \in SUBSET Nat /\ U # {}
  BY <1>4, <1>6
<1>9. Max(U) \in U /\ \A y \in U : Max(U) >= y
  BY <1>7, <1>8, Greatest
<1>10. ChildGenerator(s) = [minify |-> TRUE, used |-> {}, counter |-> Max(U)]
  BY <1>4, <1>6 DEF ChildGenerator, Merge
<1>11. \A t \in Children(s) : counters[t] \in U
  BY <1>4, <1>6
<1>12. ChildGenerator(s).minify = TRUE /\ ChildGenerator(s).counter = Max(U)
  BY <1>10
<1>13. Max(U) \in Nat
  BY <1>8, <1>9
<1>14. \A t \in Children(s) : counters[t] <= Max(U)
  BY <1>8, <1>9, <1>11, <1>13
<1> QED
  BY <1>1, <1>12, <1>13, <1>14

(* Naming an inner scope: the names are new to the scopes inside it, and the  *)
(* scopes around it are still to be named.                                   *)
LEMMA KInner ==
  ASSUME NumeralsDiffer, CInv, SInv, KInv, NEW s \in Inner, RenameInner(s)
  PROVE  KInv'
<1>1. /\ stage = "inner" /\ counters[s] = NotYet /\ \A t \in Children(s) : counters[t] # NotYet
      /\ UNCHANGED <<prog, stage>>
  BY DEF RenameInner
<1>2. PICK order \in SetToSeqs(sym.own[s]) :
        LET r == NextNames(ChildGenerator(s), Wanted(sym, order))
        IN  /\ sym' = RenameIn(sym, s, Changes(sym, order, r.names))
            /\ counters' = [counters EXCEPT ![s] = r.gen.counter]
  BY DEF RenameInner
<1>3. PICK g, w, r : g = ChildGenerator(s) /\ w = Wanted(sym, order) /\ r = NextNames(g, w)
  OBVIOUS
<1>4. /\ sym' = RenameIn(sym, s, Changes(sym, order, r.names))
      /\ counters' = [counters EXCEPT ![s] = r.gen.counter]
  BY <1>2, <1>3
<1>5. PICK low : low = g.counter
  OBVIOUS
<1>6. /\ IsGen(g) /\ g.minify = TRUE /\ low \in Nat
      /\ \A t \in Children(s) : counters[t] <= low
  BY <1>1, <1>3, <1>5, ChildrenBelow
<1>7. PICK S, n : S = OwnVars(s) /\ n = Cardinality(S)
  OBVIOUS
<1>8. s \in Scopes /\ IsFiniteSet(S) /\ sym.own[s] = S /\ \A v \in S : sym.name[v] = v[2]
  BY <1>1, <1>7, ProgramIs DEF Scopes, KInv
<1>9. /\ n \in Nat /\ DOMAIN order = 1 .. n /\ \A i \in 1 .. n : order[i] \in S
      /\ \A i, j \in 1 .. n : order[i] = order[j] => i = j
      /\ \A v \in S : \E i \in 1 .. n : order[i] = v
  BY <1>2, <1>7, <1>8, OrderCovers
<1>10. Len(w) = n
  BY <1>3, <1>9 DEF Wanted
<1>11. Sound(g)
  BY <1>6 DEF Sound
<1>12. /\ \A i, j \in 1 .. n : r.names[i] = r.names[j] => i = j
       /\ \A i \in 1 .. n : Chosen(g, r.gen, w[i], r.names[i])
       /\ IsGen(r.gen) /\ r.gen.counter >= low
  <2>1. \A i, j \in 1 .. Len(w) : r.names[i] = r.names[j] => i = j
    BY <1>3, <1>6, <1>9, <1>10, <1>11, NextNamesFresh
  <2>2. \A i \in 1 .. Len(w) : Chosen(g, r.gen, w[i], r.names[i])
    BY <1>3, <1>6, <1>9, <1>10, NextNamesAre
  <2>3. IsGen(r.gen) /\ r.gen.counter >= low
    BY <1>3, <1>5, <1>6, <1>9, <1>10, NextNamesKeep
  <2> QED
    BY <1>10, <2>1, <2>2, <2>3
<1>13. PICK c : c = r.gen.counter
  OBVIOUS
<1>14. c \in Nat /\ c >= low
  BY <1>12, <1>13 DEF IsGen
<1>15. Renamed(sym, sym', s, order, r.names)
  <2>1. Changed(sym, sym', s, Changes(sym, order, r.names))
    BY <1>4, <1>8, ScopeRenames DEF SInv
  <2>2. \A v, x \in S : sym.name[v] = sym.name[x] => v = x
    <3>1. \A v \in S : v = <<s, v[2]>>
      BY <1>7 DEF OwnVars
    <3> QED
      BY <1>8, <3>1
  <2> QED
    BY <1>2, <1>8, <2>1, <2>2 DEF Renamed, SInv
<1>16. /\ \A i \in 1 .. n : sym'.name[order[i]] = r.names[i]
       /\ \A v \in DOMAIN sym.name \ S : sym'.name[v] = sym.name[v]
  BY <1>7, <1>8, <1>15, ChangesName
<1>17. counters \in [Inner -> Nat \union {NotYet}] /\ counters' = [counters EXCEPT ![s] = c]
  BY <1>4, <1>13 DEF CInv
<1>18. /\ counters'[s] = c /\ c # NotYet
       /\ \A t \in Inner : t # s => counters'[t] = counters[t]
  BY <1>14, <1>17 DEF NotYet
<1>19. \A t : OwnVars(t)' = OwnVars(t)
  BY <1>1, SymNext
<1>20. \A t \in Inner : t # s => \A v \in OwnVars(t) : sym'.name[v] = sym.name[v]
  <2> SUFFICES ASSUME NEW t \in Inner, t # s, NEW v \in OwnVars(t) PROVE sym'.name[v] = sym.name[v]
    OBVIOUS
  <2>1. v \in DOMAIN sym.name
    BY DEF SInv, IsSym, Scopes
  <2>2. v \notin S
    BY <1>7 DEF OwnVars
  <2> QED
    BY <1>16, <2>1, <2>2
<1>21. \A t \in Inner : t # s => sym'.own[t] = sym.own[t]
  BY <1>15 DEF Renamed, Changed, Scopes
<1>22. s \notin Children(s)
  BY <1>1
<1>23. NamedFrom(s, low)'
  <2>1. \A t \in Children(s) : counters'[t] # NotYet /\ counters'[t] <= low
    BY <1>1, <1>6, <1>18, <1>22 DEF Children
  <2>2. ASSUME NEW v \in S
        PROVE  \E i \in Nat : low <= i /\ i < counters'[s] /\ sym'.name[v] = GenAName(i)
    <3>1. PICK i \in 1 .. n : order[i] = v
      BY <1>9
    <3>2. Chosen(g, r.gen, w[i], r.names[i]) /\ sym'.name[v] = r.names[i]
      BY <1>12, <1>16, <3>1
    <3> QED
      BY <1>5, <1>6, <1>13, <1>18, <3>2 DEF Chosen
  <2>3. ASSUME NEW v \in S, NEW x \in S, sym'.name[v] = sym'.name[x] PROVE v = x
    <3>1. PICK i \in 1 .. n : order[i] = v
      BY <1>9
    <3>2. PICK j \in 1 .. n : order[j] = x
      BY <1>9
    <3>3. i = j
      BY <1>12, <1>16, <2>3, <3>1, <3>2
    <3> QED
      BY <3>1, <3>2, <3>3
  <2>4. low <= counters'[s]
    BY <1>6, <1>14, <1>18
  <2>5. NamedFrom(s, low)' <=>
          /\ low \in Nat
          /\ \A t \in Children(s) : counters'[t] # NotYet /\ counters'[t] <= low
          /\ \A v \in OwnVars(s) : \E i \in Nat : low <= i /\ i < counters'[s] /\ sym'.name[v] = GenAName(i)
          /\ low <= counters'[s] /\ \A v, x \in OwnVars(s) : sym'.name[v] = sym'.name[x] => v = x
    BY <1>19 DEF NamedFrom, Children
  <2> QED
    BY <1>6, <1>7, <2>1, <2>2, <2>3, <2>4, <2>5
<1>24. ASSUME NEW t \in Inner, t # s, counters'[t] # NotYet PROVE \E l : NamedFrom(t, l)'
  <2>1. counters[t] # NotYet /\ counters'[t] = counters[t]
    BY <1>18, <1>24
  <2>2. PICK l : NamedFrom(t, l)
    BY <2>1 DEF KInv
  <2>3. s \notin Children(t)
    BY <1>1, <2>2 DEF NamedFrom
  <2>4. \A x \in Children(t) : counters'[x] = counters[x]
    BY <1>18, <2>3 DEF Children
  <2>5. \A v \in OwnVars(t) : sym'.name[v] = sym.name[v]
    BY <1>20, <1>24
  <2>6. NamedFrom(t, l)' <=>
          /\ l \in Nat
          /\ \A x \in Children(t) : counters'[x] # NotYet /\ counters'[x] <= l
          /\ \A v \in OwnVars(t) : \E i \in Nat : l <= i /\ i < counters'[t] /\ sym'.name[v] = GenAName(i)
          /\ l <= counters'[t] /\ \A v, x \in OwnVars(t) : sym'.name[v] = sym'.name[x] => v = x
    BY <1>19 DEF NamedFrom, Children
  <2>7. NamedFrom(t, l)'
    BY <2>1, <2>2, <2>4, <2>5, <2>6 DEF NamedFrom
  <2> QED
    BY <2>7
<1>25. \A t \in Inner : counters'[t] # NotYet => \E l : NamedFrom(t, l)'
  BY <1>23, <1>24
<1>26. \A t \in Inner : counters'[t] = NotYet =>
         /\ \A v \in OwnVars(t)' : sym'.name[v] = v[2]
         /\ stage' \in {"collect", "inner"} => sym'.own[t] = OwnVars(t)'
  BY <1>1, <1>18, <1>19, <1>20, <1>21 DEF KInv
<1>27. prog.minify
  BY <1>1 DEF SInv
<1> QED
  BY <1>1, <1>25, <1>26, <1>27 DEF KInv

(* Other steps leave the names of inner scopes as they are. *)
InnerStays == \A s \in Inner : \A v \in OwnVars(s) : sym'.name[v] = sym.name[v]
Early == {"collect", "inner"}
LEMMA KSame ==
  ASSUME KInv, UNCHANGED <<prog, counters>>, InnerStays,
         stage' \in Early => stage \in Early /\ \A s \in Inner : sym'.own[s] = sym.own[s],
         prog.minify /\ stage' \notin Early => AllRenamed
  PROVE  KInv'
<1>1. \A s : OwnVars(s)' = OwnVars(s)
  BY SymNext
<1>2. \A s \in Inner : counters'[s] = NotYet =>
         /\ \A v \in OwnVars(s)' : sym'.name[v] = v[2]
         /\ stage' \in {"collect", "inner"} => sym'.own[s] = OwnVars(s)'
  BY <1>1 DEF KInv, InnerStays, Early
<1>3. ASSUME NEW s \in Inner, counters'[s] # NotYet PROVE \E l : NamedFrom(s, l)'
  <2>1. PICK l : NamedFrom(s, l)
    BY <1>3 DEF KInv
  <2>2. NamedFrom(s, l)' <=>
          /\ l \in Nat
          /\ \A x \in Children(s) : counters'[x] # NotYet /\ counters'[x] <= l
          /\ \A v \in OwnVars(s) : \E i \in Nat : l <= i /\ i < counters'[s] /\ sym'.name[v] = GenAName(i)
          /\ l <= counters'[s] /\ \A v, x \in OwnVars(s) : sym'.name[v] = sym'.name[x] => v = x
    BY <1>1 DEF NamedFrom, Children
  <2>3. NamedFrom(s, l)'
    BY <2>1, <2>2 DEF NamedFrom, InnerStays
  <2> QED
    BY <2>3
<1>4. ~ prog'.minify => \A s \in Inner : counters'[s] = NotYet
  BY DEF KInv
<1>5. prog'.minify /\ stage' \notin {"collect", "inner"} => AllRenamed'
  BY DEF Early, AllRenamed
<1> QED
  BY <1>2, <1>3, <1>4, <1>5 DEF KInv

(* Every step keeps what is known of them. *)
LEMMA KStep ==
  ASSUME NumeralsDiffer, CInv, LInv, KInv, [Next]_vars
  PROVE  KInv' /\ prog' = prog /\ ((\E s \in Inner : RenameInner(s)) \/ InnerStays)
<1>1. SInv /\ WInv
  BY DEF LInv
<1>2. ASSUME UNCHANGED <<prog, counters, sym>>, stage' \in Early => stage \in Early,
             prog.minify /\ stage' \notin Early => stage \notin Early \/ AllRenamed
      PROVE  KInv' /\ prog' = prog /\ InnerStays
  <2>1. InnerStays
    BY <1>2 DEF InnerStays
  <2>2. prog.minify /\ stage' \notin Early => AllRenamed
    BY <1>2 DEF KInv, Early
  <2> QED
    BY <1>2, <2>1, <2>2, KSame
<1>3. \A s \in Inner : \A v \in OwnVars(s) : v \in DOMAIN sym.name /\ v[1] = s /\ s \notin Modules
  BY <1>1, ProgramIs DEF SInv, IsSym, OwnVars, Scopes
<1>4. CASE CollectExports
  <2>1. /\ stage = "collect" /\ stage' = (IF prog.minify THEN "inner" ELSE "externals")
        /\ UNCHANGED <<prog, counters, sym>>
    BY <1>4 DEF CollectExports
  <2> QED
    BY <1>2, <2>1 DEF Early
<1>5. CASE \E s \in Inner : RenameInner(s)
  <2>1. PICK s \in Inner : RenameInner(s)
    BY <1>5
  <2>2. prog' = prog
    BY <2>1 DEF RenameInner
  <2> QED
    BY <1>1, <1>5, <2>1, <2>2, KInner
<1>6. CASE MergeGenerators
  <2>1. AllRenamed /\ stage' = "externals" /\ UNCHANGED <<prog, counters, sym>>
    BY <1>6 DEF MergeGenerators
  <2> QED
    BY <1>2, <2>1 DEF Early
<1>7. CASE GenAst
  <2>1. stage = "externals" /\ stage' = "roots" /\ UNCHANGED <<prog, counters, sym>>
    BY <1>7 DEF GenAst
  <2> QED
    BY <1>2, <2>1 DEF Early
<1>8. CASE Descend
  <2>1. UNCHANGED <<prog, counters, sym, stage>>
    BY <1>8 DEF Descend
  <2> QED
    BY <1>2, <2>1
<1>9. CASE RenameRoot
  <2>1. stage = "roots" /\ UNCHANGED <<prog, counters, stage>>
    BY <1>9 DEF RenameRoot
  <2>2. PICK m : m = Last(stack)
    OBVIOUS
  <2>3. /\ SInv' /\ m \in Modules
        /\ \A v \in DOMAIN sym'.name : v[1] # m => v \in DOMAIN sym.name /\ sym'.name[v] = sym.name[v]
    BY <1>1, <1>9, <2>2, RootTables
  <2>4. \A s \in Inner : OwnVars(s) \subseteq DOMAIN sym'.name
    <3>1. IsSym(sym')
      BY <2>1, <2>3, SymNext DEF SInv
    <3> QED
      BY <3>1 DEF IsSym, Scopes
  <2>5. InnerStays
    BY <1>3, <2>3, <2>4 DEF InnerStays
  <2>6. stage \notin Early
    BY <2>1 DEF Early
  <2>7. prog.minify => AllRenamed
    BY <2>6 DEF KInv, Early
  <2> QED
    BY <2>1, <2>5, <2>6, <2>7, KSame
<1>10. CASE RootsRenamed
  <2>1. stage = "roots" /\ stage' = "imports" /\ UNCHANGED <<prog, counters, sym>>
    BY <1>10 DEF RootsRenamed
  <2> QED
    BY <1>2, <2>1 DEF Early
<1>11. CASE ReplaceImports
  <2>1. stage = "imports" /\ stack # <<>> /\ UNCHANGED <<prog, counters>>
    BY <1>11 DEF ReplaceImports
  <2>2. PICK m, r : m = Last(stack) /\ r = Replaced(m)
    OBVIOUS
  <2>3. sym' = r.sym /\ (stage' = stage \/ stage' = "failed")
    BY <1>11, <2>2 DEF ReplaceImports
  <2>4. m \in Modules
    BY <2>1, <2>2, TopIs
  <2>5. PICK n \in Nat : n = Len(prog.imports[m])
    <3>1. PICK s : s = prog.imports[m]
      OBVIOUS
    <3>2. s \in Seq([from : Modules \union Libraries, source : Exportable \union {Star}, local : Names])
      BY <2>4, <3>1, ProgramIs DEF IsProgram
    <3>3. Len(s) \in Nat
      BY <3>2
    <3> QED
      BY <3>1, <3>3
  <2>6. RInv(m, n, r)
    BY <1>1, <2>2, <2>4, <2>5, ReplacedIs
  <2>7. InnerStays
    BY <1>3, <2>3, <2>4, <2>6 DEF InnerStays, RInv
  <2>8. stage \notin Early /\ stage' \notin Early
    BY <2>1, <2>3 DEF Early
  <2>9. prog.minify => AllRenamed
    BY <2>8 DEF KInv, Early
  <2> QED
    BY <2>1, <2>7, <2>8, <2>9, KSame
<1>12. CASE Finish
  <2>1. stage = "imports" /\ stage' = "done" /\ UNCHANGED <<prog, counters, sym>>
    BY <1>12 DEF Finish
  <2> QED
    BY <1>2, <2>1 DEF Early
<1>13. CASE UNCHANGED vars
  <2>1. UNCHANGED <<prog, counters, sym, stage>>
    BY <1>13 DEF vars
  <2> QED
    BY <1>2, <2>1
<1> QED
  BY <1>4, <1>5, <1>6, <1>7, <1>8, <1>9, <1>10, <1>11, <1>12, <1>13 DEF Next, Stop

-----------------------------------------------------------------------------
(* Minified, the names of inner scopes are apart from those of the root       *)
(* scope, which are apart from the globals.                                  *)
AInv == Assumed /\ prog.minify /\ stage \notin Early =>
  /\ gen.used = Globals
  /\ \A s \in Inner : \A v \in OwnVars(s) :
       Given(gen, sym.name[v]) /\ \A b \in Bound : b.name # sym.name[v]

(* The generator for the root scope starts above the numbers of all inner     *)
(* scopes.                                                                  *)
LEMMA AMerge ==
  ASSUME CInv, SInv, NInv, KInv, MergeGenerators, Assumed
  PROVE  /\ gen'.used = Globals /\ Bound' = {}
         /\ \A s \in Inner : \A v \in OwnVars(s) : Given(gen', sym.name[v])
<1>1. AllRenamed /\ gen' = RootGenerator
  BY DEF MergeGenerators
<1>2. PICK S, U : S = {counters[s] : s \in Inner} /\ U = {0} \union S
  OBVIOUS
<1>3. IsFiniteSet(S)
  <2>1. DOMAIN counters = Inner /\ IsFiniteSet(Inner)
    BY LinkerAssumption DEF CInv
  <2> QED
    BY <1>2, <2>1, FiniteImage
<1>4. S \subseteq Nat
  BY <1>1, <1>2 DEF CInv, AllRenamed
<1>5. IsFiniteSet(U)
  <2>1. IsFiniteSet({0} \union S)
    BY <1>3, FS_Singleton, FS_Union
  <2> QED
    BY <1>2, <2>1
<1>6. U \in SUBSET Nat /\ U # {}
  BY <1>2, <1>4
<1>7. Max(U) \in U /\ \A y \in U : Max(U) >= y
  BY <1>5, <1>6, Greatest
<1>8. PICK c, u : c = Max(U) /\ u = Globals
  OBVIOUS
<1>9. gen' = [minify |-> TRUE, used |-> u, counter |-> c]
  BY <1>1, <1>2, <1>8 DEF RootGenerator, Merge
<1>10. gen'.minify = TRUE /\ gen'.used = u /\ gen'.counter = c
  BY <1>9
<1>11. c \in Nat /\ \A s \in Inner : counters[s] \in Nat /\ counters[s] <= c
  BY <1>2, <1>4, <1>6, <1>7, <1>8
<1>12. ASSUME NEW s \in Inner, NEW v \in OwnVars(s) PROVE Given(gen', sym.name[v])
  <2>1. PICK low : NamedFrom(s, low)
    BY <1>1 DEF KInv, AllRenamed
  <2>2. PICK i \in Nat : i < counters[s] /\ sym.name[v] = GenAName(i)
    BY <2>1 DEF NamedFrom
  <2>3. i < c
    BY <1>11, <2>2
  <2> QED
    BY <1>10, <2>2, <2>3 DEF Given
<1>13. Bound' = {}
  BY NMerge
<1> QED
  BY <1>8, <1>10, <1>12, <1>13

(* Every step keeps them apart. *)
LEMMA AStep ==
  ASSUME NumeralsDiffer, CInv, LInv, KInv, AInv, [Next]_vars
  PROVE  AInv'
<1>1. SInv /\ NInv /\ prog' = prog
  BY KStep DEF LInv
<1>2. /\ \A s : OwnVars(s)' = OwnVars(s)
      /\ Assumed' <=> Assumed
      /\ Globals' = Globals
  BY <1>1, SymNext, BoundNext DEF Globals, Owners
<1> SUFFICES ASSUME Assumed, prog.minify, stage' \notin Early
             PROVE  /\ gen'.used = Globals
                    /\ \A s \in Inner : \A v \in OwnVars(s) :
                         Given(gen', sym'.name[v]) /\ \A b \in Bound' : b.name # sym'.name[v]
  <2>1. AInv' <=> (Assumed' /\ prog'.minify /\ stage' \notin Early =>
           /\ gen'.used = Globals'
           /\ \A s \in Inner : \A v \in OwnVars(s)' :
                Given(gen', sym'.name[v]) /\ \A b \in Bound' : b.name # sym'.name[v])
    BY DEF AInv, Given, Early
  <2> QED
    BY <1>1, <1>2, <2>1
<1>3. CASE MergeGenerators
  <2>1. sym' = sym
    BY <1>3 DEF MergeGenerators
  <2> QED
    BY <1>1, <1>3, <2>1, AMerge
<1>4. CASE ~ MergeGenerators
  <2>1. Grown
    BY <1>4, LStep
  <2>2. stage \notin Early
    BY <1>4 DEF Early, Next, vars, CollectExports, RenameInner, GenAst, Descend, RenameRoot,
       RootsRenamed, ReplaceImports, Finish, Stop
  <2>3. InnerStays
    <3>1. ~ \E s \in Inner : RenameInner(s)
      BY <2>2 DEF RenameInner, Early
    <3> QED
      BY <3>1, KStep
  <2>4. /\ gen.used = Globals
        /\ \A s \in Inner : \A v \in OwnVars(s) :
             Given(gen, sym.name[v]) /\ \A b \in Bound : b.name # sym.name[v]
    BY <2>2 DEF AInv
  <2>5. gen.minify
    BY <1>1 DEF NInv
  <2> QED
    BY <2>1, <2>3, <2>4, <2>5 DEF Grown, Later, InnerStays
<1> QED
  BY <1>3, <1>4

-----------------------------------------------------------------------------
(* At the end: the names within one inner scope, ... *)
LEMMA InnerNames ==
  ASSUME CInv, KInv, Done, NEW s \in Inner
  PROVE  /\ ~ prog.minify => \A v \in OwnVars(s) : sym.name[v] = v[2]
         /\ prog.minify => counters[s] \in Nat /\ \E low : NamedFrom(s, low)
         /\ \A v, w \in OwnVars(s) : sym.name[v] = sym.name[w] => v = w
<1>1. stage \notin {"collect", "inner"}
  BY DEF Done
<1>2. CASE prog.minify
  <2>1. counters[s] # NotYet
    BY <1>1, <1>2 DEF KInv, AllRenamed
  <2>2. PICK low : NamedFrom(s, low)
    BY <2>1 DEF KInv
  <2>3. counters[s] \in Nat
    BY <2>1 DEF CInv
  <2> QED
    BY <1>2, <2>2, <2>3 DEF NamedFrom
<1>3. CASE ~ prog.minify
  <2>1. \A v \in OwnVars(s) : sym.name[v] = v[2]
    BY <1>3 DEF KInv
  <2>2. \A v \in OwnVars(s) : v = <<s, v[2]>>
    BY DEF OwnVars
  <2> QED
    BY <1>3, <2>1, <2>2
<1> QED
  BY <1>2, <1>3

(* ... and, minified, those of a scope and of one around it: the counters     *)
(* grow from scope to parent, and each scope is named from its children's.   *)
LEMMA NamesClimb ==
  ASSUME CInv, KInv, Done, prog.minify, NEW q, NEW r \in Scopes, IsChain(r, q),
         NEW j \in 1 .. Len(q) - 1, NEW k \in 1 .. Len(q) - 1, j < k,
         NEW v \in OwnVars(q[j]), NEW w \in OwnVars(q[k])
  PROVE  sym.name[v] # sym.name[w]
<1>1. PICK n : n = Len(q) - 1
  OBVIOUS
<1>2. n \in Nat /\ \A i \in 1 .. n : q[i] \in Inner /\ q[i + 1] = Parent[q[i]]
  BY <1>1 DEF IsChain
<1>3. ASSUME NEW i \in 1 .. n
      PROVE counters[q[i]] \in Nat /\ \E low : NamedFrom(q[i], low)
  BY <1>2, InnerNames
<1>4. ASSUME NEW i \in 1 .. n, NEW h, h = i + 1, h \in 1 .. n, NEW low, NamedFrom(q[h], low)
      PROVE  counters[q[i]] <= low /\ low <= counters[q[h]] /\ low \in Nat
  <2>1. q[i] \in Children(q[h])
    BY <1>2, <1>4 DEF Children
  <2> QED
    BY <1>4, <2>1 DEF NamedFrom
<1>5. ASSUME NEW i \in 1 .. n, NEW h, h = i + 1, h \in 1 .. n
      PROVE  counters[q[i]] <= counters[q[h]]
  <2>1. PICK low : NamedFrom(q[h], low)
    BY <1>3, <1>5
  <2>2. counters[q[i]] <= low /\ low <= counters[q[h]] /\ low \in Nat
    BY <1>4, <1>5, <2>1
  <2>3. counters[q[i]] \in Nat /\ counters[q[h]] \in Nat
    BY <1>3, <1>5
  <2> QED
    BY <2>2, <2>3
<1> DEFINE T == {d \in Nat : \A i \in 1 .. n : i + d <= n => counters[q[i]] <= counters[q[i + d]]}
<1>6. ASSUME NEW d \in Nat, \A e \in 0 .. d - 1 : e \in T PROVE d \in T
  <2> SUFFICES ASSUME NEW i \in 1 .. n, i + d <= n PROVE counters[q[i]] <= counters[q[i + d]]
    OBVIOUS
  <2>1. CASE d = 0
    <3>1. i + d = i /\ counters[q[i]] \in Nat
      BY <1>2, <1>3, <2>1
    <3> QED
      BY <3>1
  <2>2. CASE d # 0
    <3>1. PICK e, h, z : e = d - 1 /\ h = i + e /\ z = i + d
      OBVIOUS
    <3>2. e \in 0 .. d - 1 /\ h \in 1 .. n /\ z \in 1 .. n /\ z = h + 1 /\ i + e <= n
      <4>1. n \in Nat /\ i \in Nat /\ i >= 1 /\ d \in Nat /\ d >= 1 /\ i + d <= n
        BY <1>2, <2>2
      <4>2. e \in Nat /\ e <= d - 1 /\ i + e <= n /\ i + e >= 1 /\ i + d = (i + e) + 1
        BY <3>1, <4>1
      <4> QED
        BY <3>1, <4>1, <4>2
    <3>3. counters[q[i]] <= counters[q[h]]
      <4>1. e \in T
        BY <1>6, <3>2
      <4>2. counters[q[i]] <= counters[q[i + e]]
        BY <3>2, <4>1
      <4> QED
        BY <3>1, <4>2
    <3>4. counters[q[h]] <= counters[q[z]]
      BY <1>5, <3>2
    <3>5. counters[q[i]] \in Nat /\ counters[q[h]] \in Nat /\ counters[q[z]] \in Nat
      BY <1>3, <3>2
    <3> QED
      BY <3>1, <3>3, <3>4, <3>5, SMTT(30)
  <2> QED
    BY <2>1, <2>2
<1>7. T \in SUBSET Nat
  OBVIOUS
<1>8. T = Nat
  <2> HIDE DEF T
  <2> QED
    BY <1>6, <1>7, StrongInduction
<1>9. PICK h, d : h = k - 1 /\ d = h - j
  OBVIOUS
<1>10. h \in 1 .. n /\ d \in Nat /\ j + d = h /\ k = h + 1 /\ j \in 1 .. n /\ k \in 1 .. n /\ j + d <= n
  BY <1>1, <1>2, <1>9
<1>11. counters[q[j]] <= counters[q[h]]
  <2>1. d \in T
    BY <1>8, <1>10
  <2>2. counters[q[j]] <= counters[q[j + d]]
    BY <1>10, <2>1
  <2> QED
    BY <1>10, <2>2
<1>12. PICK low : NamedFrom(q[k], low)
  BY <1>3, <1>10
<1>13. counters[q[h]] <= low /\ low \in Nat
  BY <1>4, <1>10, <1>12
<1>14. PICK b : NamedFrom(q[j], b)
  BY <1>3, <1>10
<1>15. PICK x \in Nat : x < counters[q[j]] /\ sym.name[v] = GenAName(x)
  BY <1>14 DEF NamedFrom
<1>16. PICK y \in Nat : low <= y /\ sym.name[w] = GenAName(y)
  BY <1>12 DEF NamedFrom
<1>17. x < y
  <2>1. counters[q[j]] \in Nat /\ counters[q[h]] \in Nat
    BY <1>3, <1>10
  <2> QED
    BY <1>11, <1>13, <1>15, <1>16, <2>1
<1> QED
  BY <1>15, <1>16, <1>17, NamesInjective

-----------------------------------------------------------------------------
(* What an identifier of the output is bound to.                            *)

(* The nearest scope that declares the name wins, ... *)
LEMMA FoundInside ==
  ASSUME CInv, KInv, Done, NEW s \in Scopes, NEW q, q = Chain[s], NEW k \in 1 .. Len(q) - 1,
         NEW b \in OwnVars(q[k]),
         \A j \in 1 .. k - 1 : \A v \in OwnVars(q[j]) : sym.name[v] # sym.name[b]
  PROVE  Lookup(s, sym.name[b]) = {b}
<1>1. PICK D, e : e = sym.name[b] /\ D = Declarers(s, e)
  OBVIOUS
<1>2. /\ Len(q) \in Nat \ {0} /\ DOMAIN q = 1 .. Len(q)
      /\ \A i \in 1 .. Len(q) - 1 : q[i] \in Inner
  BY ChainIs DEF IsChain
<1>3. \A t : Declares(t, e) = {v \in OwnVars(t) : sym.name[v] = e}
  BY DEF Declares, OwnVars
<1>4. D = {i \in 1 .. Len(q) : q[i] \in Inner /\ Declares(q[i], e) # {}}
  BY <1>1, <1>2 DEF Declarers
<1>5. k \in D
  <2>1. k \in 1 .. Len(q) /\ q[k] \in Inner
    BY <1>2
  <2>2. b \in Declares(q[k], e)
    BY <1>1, <1>3
  <2> QED
    BY <1>4, <2>1, <2>2
<1>6. D \in SUBSET Nat
  BY <1>2, <1>4
<1>7. Min(D) \in D /\ Min(D) <= k
  BY <1>5, <1>6, Least
<1>8. Min(D) = k
  <2>1. PICK i : i = Min(D)
    OBVIOUS
  <2>2. i \in 1 .. Len(q) /\ i <= k /\ \E v \in OwnVars(q[i]) : sym.name[v] = e
    BY <1>3, <1>4, <1>7, <2>1
  <2>3. i \notin 1 .. k - 1
    BY <1>1, <2>2
  <2> QED
    BY <1>2, <2>1, <2>2, <2>3
<1>9. Declares(q[k], e) = {b}
  <2>1. \A v \in OwnVars(q[k]) : sym.name[v] = e => v = b
    BY <1>1, <1>2, InnerNames
  <2> QED
    BY <1>1, <1>3, <2>1
<1>10. Lookup(s, e) = Declares(q[k], e)
  BY <1>1, <1>5, <1>8 DEF Lookup
<1> QED
  BY <1>1, <1>9, <1>10

(* ... and where no inner scope does, the root scope is asked. *)
LEMMA FoundAtRoot ==
  ASSUME NEW s \in Scopes, NEW q, q = Chain[s], NEW e,
         \A j \in 1 .. Len(q) - 1 : \A v \in OwnVars(q[j]) : sym.name[v] # e
  PROVE  Lookup(s, e) = AtRoot(e)
<1>1. /\ Len(q) \in Nat \ {0} /\ DOMAIN q = 1 .. Len(q)
      /\ q[Len(q)] \in Modules
  BY ChainIs DEF IsChain
<1>2. \A t : Declares(t, e) = {v \in OwnVars(t) : sym.name[v] = e}
  BY DEF Declares, OwnVars
<1>3. Declarers(s, e) = {}
  <2> SUFFICES ASSUME NEW i \in Declarers(s, e) PROVE FALSE
    OBVIOUS
  <2>1. i \in 1 .. Len(q) /\ q[i] \in Inner /\ Declares(q[i], e) # {}
    BY <1>1 DEF Declarers
  <2>2. i # Len(q)
    BY <1>1, <2>1, LinkerAssumption
  <2>3. i \in 1 .. Len(q) - 1
    BY <1>1, <2>1, <2>2
  <2> QED
    BY <1>2, <2>1, <2>3
<1> QED
  BY <1>3 DEF Lookup

(* What the root scope declares has its name to itself. *)
LEMMA RootFinds ==
  ASSUME CInv, LInv, Done, Assumed, NEW b \in RootBindings
  PROVE  AtRoot(b.name) = {b.is}
<1>1. RootBindings \subseteq Bound /\ Taken(gen, Bound)
  BY RootsAreBound DEF LInv, NInv
<1>2. \A c \in RootBindings : c.name = b.name => c = b
  BY <1>1 DEF Taken
<1>3. {c.is : c \in {c \in RootBindings : c.name = b.name}} = {b.is}
  BY <1>2
<1> QED
  BY <1>3 DEF AtRoot

(* The places of a name's owners in the chain. *)
LEMMA Nearest ==
  ASSUME NEW s \in Scopes, NEW q, q = Chain[s], NEW n
  PROVE  /\ Owners(s, n) = {} =>
              /\ \A j \in 1 .. Len(q) : n \notin prog.owns[q[j]]
              /\ Binding(s, n) = <<"global", n>>
         /\ Owners(s, n) # {} =>
              \E k \in 1 .. Len(q) : /\ n \in prog.owns[q[k]] /\ Binding(s, n) = <<q[k], n>>
                                     /\ \A j \in 1 .. k - 1 : n \notin prog.owns[q[j]]
<1>1. Len(q) \in Nat \ {0} /\ DOMAIN q = 1 .. Len(q)
  BY ChainIs DEF IsChain
<1>2. Owners(s, n) = {j \in 1 .. Len(q) : n \in prog.owns[q[j]]}
  BY <1>1 DEF Owners
<1>3. CASE Owners(s, n) = {}
  BY <1>2, <1>3 DEF Binding
<1>4. CASE Owners(s, n) # {}
  <2>1. PICK k : k = Min(Owners(s, n))
    OBVIOUS
  <2>2. Owners(s, n) \in SUBSET Nat
    BY <1>1, <1>2
  <2>3. k \in Owners(s, n) /\ \A j \in Owners(s, n) : k <= j
    BY <1>4, <2>1, <2>2, Least
  <2>4. Binding(s, n) = <<q[k], n>>
    BY <1>4, <2>1 DEF Binding
  <2>5. k \in 1 .. Len(q) /\ n \in prog.owns[q[k]]
    BY <1>2, <2>3
  <2>6. ASSUME NEW j \in 1 .. k - 1, n \in prog.owns[q[j]] PROVE FALSE
    <3>1. j \in 1 .. Len(q) /\ ~ (k <= j)
      BY <1>1, <2>5
    <3> QED
      BY <1>2, <2>3, <2>6, <3>1
  <2> QED
    BY <1>4, <2>4, <2>5, <2>6
<1> QED
  BY <1>3, <1>4

(* A variable that is no import means itself. *)
LEMMA MeansItself ==
  ASSUME NEW s, NEW n, NEW t, Binding(s, n) = <<t, n>>, Declared(<<t, n>>)
  PROVE  Meaning(s, n) = {<<t, n>>}
<1>1. PICK b : b = <<t, n>>
  OBVIOUS
<1>2. b[1] = t /\ b[2] = n
  BY <1>1
<1>3. Meaning(s, n) = IF t \in Modules /\ ImportsOf(t, n) # {}
                      THEN UNION {ImportMeans(t, i) : i \in ImportsOf(t, n)} ELSE {b}
  BY <1>1, <1>2 DEF Meaning, VariableMeans
<1>4. ASSUME t \in Modules, NEW i \in ImportsOf(t, n) PROVE ImportMeans(t, i) = {b}
  <2>1. i.from \in Modules /\ i.source = Star
    BY <1>1, <1>2, <1>4 DEF Declared, IsNamespace
  <2>2. i.from \notin Libraries
    BY <2>1, LinkerAssumption
  <2>3. i.local = n
    BY <1>4 DEF ImportsOf
  <2> QED
    BY <1>1, <2>1, <2>2, <2>3 DEF ImportMeans, IsNamespace
<1> QED
  BY <1>1, <1>3, <1>4

(* An identifier its own module binds is bound to the same variable: readable *)
(* the scopes between have other names, in the source and in the bundle;      *)
(* minified they have other numbers.                                        *)
LEMMA OwnStays ==
  ASSUME CInv, LInv, KInv, AInv
  PROVE  OwnKept
<1> SUFFICES ASSUME Done, Assumed, NEW u \in prog.uses, IsOwn(u) PROVE Kept(u)
  BY DEF OwnKept, Assumed
<1>1. PICK s, n : s = u[1] /\ n = u[2]
  OBVIOUS
<1>2. s \in Scopes /\ n \in Names
  BY <1>1, ProgramIs DEF IsProgram
<1>3. PICK q : q = Chain[s]
  OBVIOUS
<1>4. /\ Len(q) \in Nat \ {0} /\ q[Len(q)] \in Modules /\ IsChain(s, q)
      /\ \A i \in 1 .. Len(q) - 1 : q[i] \in Inner
  BY <1>2, <1>3, ChainIs DEF IsChain
<1>5. Owners(s, n) # {} /\ Declared(Binding(s, n))
  BY <1>1 DEF IsOwn, IsGlobal
<1>6. PICK k \in 1 .. Len(q) : /\ n \in prog.owns[q[k]] /\ Binding(s, n) = <<q[k], n>>
                              /\ \A j \in 1 .. k - 1 : n \notin prog.owns[q[j]]
  BY <1>2, <1>3, <1>5, Nearest
<1>7. PICK b, e : b = <<q[k], n>> /\ e = sym.name[b]
  OBVIOUS
<1>8. b[1] = q[k] /\ b[2] = n /\ b \in OwnVars(q[k])
  BY <1>6, <1>7 DEF OwnVars
<1>9. Meaning(s, n) = {b}
  BY <1>5, <1>6, <1>7, MeansItself
<1>10. Emitted(s, n) = e
  BY <1>5, <1>6, <1>7 DEF Emitted
<1>11. ASSUME NEW j \in 1 .. k - 1, NEW v \in OwnVars(q[j]) PROVE j \in 1 .. Len(q) - 1 /\ v[2] # n
  <2>1. j \in 1 .. Len(q) - 1
    BY <1>4
  <2>2. v[2] \in prog.owns[q[j]]
    BY DEF OwnVars
  <2> QED
    BY <1>6, <2>1, <2>2
<1>12. CASE k # Len(q)
  <2>1. k \in 1 .. Len(q) - 1
    BY <1>4, <1>12
  <2>2. ASSUME NEW j \in 1 .. k - 1, NEW v \in OwnVars(q[j]) PROVE sym.name[v] # e
    <3>1. CASE prog.minify
      <4>1. j \in 1 .. Len(q) - 1 /\ j < k
        BY <1>11, <2>1
      <4> QED
        BY <1>2, <1>4, <1>7, <1>8, <2>1, <3>1, <4>1, NamesClimb
    <3>2. CASE ~ prog.minify
      <4>1. q[j] \in Inner /\ q[k] \in Inner /\ v[2] # n
        BY <1>4, <1>11, <2>1
      <4>2. sym.name[v] = v[2] /\ e = n
        BY <1>7, <1>8, <3>2, <4>1, InnerNames
      <4> QED
        BY <4>1, <4>2
    <3> QED
      BY <3>1, <3>2
  <2>3. Lookup(s, e) = {b}
    <3>1. \A j \in 1 .. k - 1 : \A v \in OwnVars(q[j]) : sym.name[v] # sym.name[b]
      BY <1>7, <2>2
    <3>2. Lookup(s, sym.name[b]) = {b}
      BY <1>2, <1>3, <1>8, <2>1, <3>1, FoundInside
    <3> QED
      BY <1>7, <3>2
  <2> QED
    BY <1>1, <1>9, <1>10, <2>3 DEF Kept
<1>13. CASE k = Len(q)
  <2>1. q[k] \in Modules /\ q[k] \in Scopes
    BY <1>4, <1>13, ProgramIs
  <2>2. PICK c : c = [name |-> e, is |-> b]
    OBVIOUS
  <2>3. c \in RootBindings /\ c.name = e /\ c.is = b
    <3>1. b \in DOMAIN sym.name
      BY <1>8, <2>1 DEF LInv, SInv, IsSym
    <3>2. Declared(b)
      BY <1>5, <1>6, <1>7
    <3>3. b \in {v \in DOMAIN sym.name : v[2] = DefaultVar \/ (v[1] \in Modules /\ Declared(v))}
      BY <1>8, <2>1, <3>1, <3>2
    <3>4. c \in {[name |-> sym.name[v], is |-> v] :
                   v \in {v \in DOMAIN sym.name : v[2] = DefaultVar \/ (v[1] \in Modules /\ Declared(v))}}
      BY <1>7, <2>2, <3>3
    <3> QED
      BY <2>2, <3>4 DEF RootBindings
  <2>4. c \in Bound /\ Taken(gen, Bound) /\ gen.minify = prog.minify
    BY <2>3, RootsAreBound DEF LInv, NInv
  <2>5. ASSUME NEW j \in 1 .. Len(q) - 1, NEW v \in OwnVars(q[j]) PROVE sym.name[v] # e
    <3>1. q[j] \in Inner /\ q[j] \in Scopes
      BY <1>4 DEF Scopes
    <3>2. CASE prog.minify
      <4>1. stage \notin Early
        BY DEF Done, Early
      <4>2. c.name # sym.name[v]
        BY <2>4, <3>1, <3>2, <4>1 DEF AInv
      <4> QED
        BY <2>3, <4>2
    <3>3. CASE ~ prog.minify
      <4>1. Meant(gen, c)
        BY <2>4 DEF Taken
      <4>2. IsNumbered(e) \/ e \in SourceNames(b)
        BY <2>3, <2>4, <3>3, <4>1 DEF Meant
      <4>3. n # DefaultVar
        BY <1>2, LinkerAssumption
      <4>4. IsNumbered(e) \/ e = n
        BY <1>7, <2>1, <4>2, <4>3, SourceNamesAre
      <4>5. sym.name[v] = v[2] /\ v[2] # n
        BY <1>11, <1>13, <3>1, <3>3, InnerNames
      <4>6. ~ IsNumbered(v[2])
        BY <3>1, <3>3 DEF Assumed, NoNumberedNames, OwnVars
      <4> QED
        BY <4>4, <4>5, <4>6
    <3> QED
      BY <3>2, <3>3
  <2>6. Lookup(s, e) = AtRoot(e)
    BY <1>2, <1>3, <2>5, FoundAtRoot
  <2>7. AtRoot(e) = {b}
    BY <2>3, RootFinds
  <2> QED
    BY <1>1, <1>9, <1>10, <2>6, <2>7 DEF Kept
<1> QED
  BY <1>12, <1>13

(* A global stays one: no scope around it has been given its name. *)
LEMMA GlobalsStay ==
  ASSUME CInv, LInv, KInv, AInv
  PROVE  GlobalsKept
<1> SUFFICES ASSUME Done, Assumed, NEW u \in prog.uses, IsGlobal(u),
                    IF prog.minify THEN \A t \in InnerAround(u[1]) : prog.owns[t] = {}
                    ELSE ~ IsNumbered(u[2]) /\ \A b \in RootBindings : u[2] \notin SourceNames(b.is)
             PROVE  Kept(u)
  BY DEF GlobalsKept, Assumed
<1>1. PICK s, n : s = u[1] /\ n = u[2]
  OBVIOUS
<1>2. s \in Scopes /\ n \in Names
  BY <1>1, ProgramIs DEF IsProgram
<1>3. PICK q : q = Chain[s]
  OBVIOUS
<1>4. /\ q \in Seq(Scopes) /\ Len(q) \in Nat \ {0}
      /\ \A i \in 1 .. Len(q) - 1 : q[i] \in Inner
  BY <1>2, <1>3, ChainIs DEF IsChain
<1>5. Owners(s, n) = {}
  BY <1>1 DEF IsGlobal
<1>6. Binding(s, n) = <<"global", n>> /\ \A j \in 1 .. Len(q) : n \notin prog.owns[q[j]]
  BY <1>2, <1>3, <1>5, Nearest
<1>7. Meaning(s, n) = {<<"global", n>>} /\ Emitted(s, n) = n
  <2>1. "global" \notin Modules
    BY LinkerAssumption DEF Scopes
  <2> QED
    BY <1>5, <1>6, <2>1 DEF Meaning, VariableMeans, Emitted
<1>8. RootBindings \subseteq Bound /\ Taken(gen, Bound) /\ gen.minify = prog.minify
  BY RootsAreBound DEF LInv, NInv
<1>9. ASSUME NEW j \in 1 .. Len(q) - 1, NEW v \in OwnVars(q[j]) PROVE sym.name[v] # n
  <2>1. q[j] \in Inner /\ j \in 1 .. Len(q)
    BY <1>4
  <2>2. v[2] \in prog.owns[q[j]]
    BY DEF OwnVars
  <2>3. CASE prog.minify
    <3>1. q[j] \in InnerAround(s)
      BY <1>3, <1>4, <2>1 DEF InnerAround, ToSet
    <3> QED
      BY <1>1, <2>2, <2>3, <3>1
  <2>4. CASE ~ prog.minify
    <3>1. sym.name[v] = v[2]
      BY <2>1, <2>4, InnerNames
    <3> QED
      BY <1>6, <2>1, <2>2, <3>1
  <2> QED
    BY <2>3, <2>4
<1>10. ASSUME NEW b \in RootBindings PROVE b.name # n
  <2>1. Meant(gen, b)
    BY <1>8 DEF Taken
  <2>2. CASE prog.minify
    <3>1. gen.used = Globals
      BY <2>2 DEF AInv, Done, Early
    <3>2. n \in Globals
      BY <1>1, <1>5 DEF Globals
    <3> QED
      BY <1>8, <2>1, <2>2, <3>1, <3>2 DEF Meant
  <2>3. CASE ~ prog.minify
    BY <1>1, <1>8, <2>1, <2>3 DEF Meant
  <2> QED
    BY <2>2, <2>3
<1>11. Lookup(s, n) = AtRoot(n)
  BY <1>2, <1>3, <1>9, FoundAtRoot
<1>12. AtRoot(n) = {<<"global", n>>}
  <2>1. {b.is : b \in {b \in RootBindings : b.name = n}} = {}
    BY <1>10
  <2> QED
    BY <2>1 DEF AtRoot
<1> QED
  BY <1>1, <1>7, <1>11, <1>12 DEF Kept

(* What the renaming of one module touches keeps its meaning: an identifier   *)
(* is bound in the bundle to the variable of its module it was bound to       *)
(* there, and a global stays one.                                            *)
THEOREM NamesStay ==
  ASSUME NumeralsDiffer
  PROVE  Spec => []NamesKept
<1>1. Init => CInv /\ LInv /\ KInv /\ AInv
  BY CInit, SInit, NInit, KInit DEF LInv, AInv, Early, Init
<1>2. CInv /\ LInv /\ KInv /\ AInv /\ [Next]_vars => (CInv /\ LInv /\ KInv /\ AInv)'
  <2> SUFFICES ASSUME CInv, LInv, KInv, AInv, [Next]_vars PROVE CInv' /\ LInv' /\ KInv' /\ AInv'
    OBVIOUS
  <2> QED
    BY CStep, LStep, KStep, AStep
<1>3. CInv /\ LInv /\ KInv /\ AInv => NamesKept
  BY OwnStays, GlobalsStay DEF NamesKept
<1> QED
  BY <1>1, <1>2, <1>3, PTL DEF Spec
==============================================================================
