-------------------------- MODULE ConcatModules_proof --------------------------
(***************************************************************************)
(* Proofs about ConcatModules for every set of modules and every reference *)
(* graph: the bundle has exactly the modules the entry reaches, each once, *)
(* and the entry last.                                                     *)
(***************************************************************************)
EXTENDS ConcatModules, FiniteSetTheorems, SequenceTheorems, TLAPS

(* What an element more does to a sequence. *)
LEMMA AppendRange ==
  ASSUME NEW S, NEW s \in Seq(S), NEW e \in S
  PROVE  Append(s, e) \in Seq(S) /\ Range(Append(s, e)) = Range(s) \union {e}
<1> DEFINE a == Append(s, e)
<1>1. /\ a \in Seq(S) /\ DOMAIN s = 1 .. Len(s) /\ DOMAIN a = 1 .. Len(s) + 1
      /\ Len(s) \in Nat /\ a[Len(s) + 1] = e /\ \A i \in 1 .. Len(s) : a[i] = s[i]
  BY AppendProperties
<1> HIDE DEF a
<1>2. ASSUME NEW x \in Range(a) PROVE x \in Range(s) \union {e}
  <2>1. PICK i \in 1 .. Len(s) + 1 : x = a[i]
    BY <1>1, <1>2 DEF Range
  <2>2. i \in 1 .. Len(s) \/ i = Len(s) + 1
    BY <1>1
  <2> QED
    BY <1>1, <2>1, <2>2 DEF Range
<1>3. ASSUME NEW x \in Range(s) \union {e} PROVE x \in Range(a)
  <2>1. CASE x = e
    BY <1>1, <2>1 DEF Range
  <2>2. CASE x \in Range(s)
    <3>1. PICK i \in 1 .. Len(s) : x = s[i]
      BY <1>1, <2>2 DEF Range
    <3> QED
      BY <1>1, <3>1 DEF Range
  <2> QED
    BY <1>3, <2>1, <2>2
<1> QED
  BY <1>1, <1>2, <1>3 DEF a

(* Taking the last element off a sequence. *)
LEMMA FrontLast ==
  ASSUME NEW S, NEW s \in Seq(S), s # <<>>
  PROVE  /\ Front(s) \in Seq(S) /\ Last(s) \in S
         /\ Len(s) \in Nat \ {0} /\ Len(Front(s)) = Len(s) - 1
         /\ \A i \in 1 .. Len(s) - 1 : Front(s)[i] = s[i]
         /\ Range(s) = Range(Front(s)) \union {Last(s)}
<1> DEFINE n == Len(s)
           f == Front(s)
<1>1. n \in Nat \ {0} /\ DOMAIN s = 1 .. n /\ Last(s) = s[n] /\ Last(s) \in S
  BY EmptySeq DEF Last
<1>2. f = SubSeq(s, 1, n - 1)
  BY DEF Front
<1>3. f \in Seq(S) /\ Len(f) = n - 1 /\ DOMAIN f = 1 .. n - 1
      /\ \A i \in 1 .. n - 1 : f[i] = s[i]
  BY <1>1, <1>2, SubSeqProperties
<1> HIDE DEF n, f
<1>4. ASSUME NEW x \in Range(s) PROVE x \in Range(f) \union {Last(s)}
  <2>1. PICK i \in 1 .. n : x = s[i]
    BY <1>1, <1>4 DEF Range
  <2>2. i \in 1 .. n - 1 \/ i = n
    BY <1>1
  <2> QED
    BY <1>1, <1>3, <2>1, <2>2 DEF Range
<1>5. ASSUME NEW x \in Range(f) \union {Last(s)} PROVE x \in Range(s)
  <2>1. CASE x = Last(s)
    BY <1>1, <2>1 DEF Range
  <2>2. CASE x \in Range(f)
    <3>1. PICK i \in 1 .. n - 1 : x = f[i]
      BY <1>3, <2>2 DEF Range
    <3>2. i \in 1 .. n
      BY <1>1
    <3> QED
      BY <1>1, <1>3, <3>1, <3>2 DEF Range
  <2> QED
    BY <1>5, <2>1, <2>2
<1> QED
  BY <1>1, <1>3, <1>4, <1>5 DEF n, f

(* A new element keeps the elements of a sequence distinct, *)
LEMMA DistinctAppend ==
  ASSUME NEW S, NEW s \in Seq(S), NEW e \in S, e \notin Range(s), IsInjective(s),
         NEW q, q = Append(s, e)
  PROVE  IsInjective(q)
<1> DEFINE n == Len(s)
<1>1. /\ n \in Nat /\ DOMAIN s = 1 .. n /\ DOMAIN q = 1 .. n + 1
      /\ q[n + 1] = e /\ \A i \in 1 .. n : q[i] = s[i]
  BY AppendProperties
<1>2. \A i \in 1 .. n : s[i] # e
  BY <1>1 DEF Range
<1> HIDE DEF n
<1>3. ASSUME NEW i \in 1 .. n + 1, NEW j \in 1 .. n + 1, q[i] = q[j]
      PROVE  i = j
  <2>1. i \in 1 .. n \/ i = n + 1
    BY <1>1
  <2>2. j \in 1 .. n \/ j = n + 1
    BY <1>1
  <2> QED
    BY <1>1, <1>2, <1>3, <2>1, <2>2 DEF IsInjective
<1> QED
  BY <1>1, <1>3 DEF IsInjective

(* ... and the last of distinct elements is not among the others. *)
LEMMA DistinctFront ==
  ASSUME NEW S, NEW s \in Seq(S), s # <<>>, IsInjective(s)
  PROVE  IsInjective(Front(s)) /\ Last(s) \notin Range(Front(s))
<1> DEFINE n == Len(s)
           f == Front(s)
<1>1. /\ n \in Nat \ {0} /\ DOMAIN s = 1 .. n /\ DOMAIN f = 1 .. n - 1
      /\ Last(s) = s[n] /\ \A i \in 1 .. n - 1 : f[i] = s[i]
  <2>1. f \in Seq(S) /\ Len(f) = n - 1 /\ n \in Nat \ {0}
        /\ \A i \in 1 .. n - 1 : f[i] = s[i]
    BY FrontLast
  <2>2. DOMAIN s = 1 .. n /\ Last(s) = s[n]
    BY DEF Last
  <2>3. DOMAIN f = 1 .. Len(f)
    BY <2>1
  <2> QED
    BY <2>1, <2>2, <2>3
<1> HIDE DEF n, f
<1>2. \A i, j \in 1 .. n : s[i] = s[j] => i = j
  BY <1>1 DEF IsInjective
<1>3. \A i \in 1 .. n - 1 : i \in 1 .. n /\ i # n
  BY <1>1
<1>4. IsInjective(f)
  BY <1>1, <1>2, <1>3 DEF IsInjective
<1>5. Last(s) \notin Range(f)
  BY <1>1, <1>2, <1>3 DEF Range
<1> QED
  BY <1>4, <1>5 DEF f

-----------------------------------------------------------------------------
(* The invariant.  What was visited is in spare_stack or in the bundle; what a *)
(* visited module refers to was visited or is on the stack; only modules the   *)
(* entry reaches get there; the entry is the first one visited, so it is at    *)
(* the bottom of spare_stack and the last one written.                         *)
Collected == Range(spare) \union Range(output) = visited
Followed == \A m \in visited : Range(refs[m]) \subseteq visited \union Range(stack)
Rooted == Entry \in visited \union Range(stack)
OnlyReachable == visited \union Range(stack) \subseteq ReachableFrom(Entry)
EntryAtBottom ==
  \/ spare = <<>> /\ output = <<>> /\ stack # <<>> /\ Last(stack) = Entry /\ visited = {}
  \/ spare # <<>> /\ spare[1] = Entry /\ (stack # <<>> => output = <<>>)
  \/ spare = <<>> /\ output # <<>> /\ Last(output) = Entry /\ stack = <<>>

IInv ==
  /\ TypeOK /\ EmittedOnce /\ Collected /\ Followed /\ Rooted /\ OnlyReachable
  /\ EntryAtBottom

(* The modules a module refers to are modules.                              *)
LEMMA TypedRefs ==
  ASSUME TypeOK, NEW m \in Module
  PROVE  refs[m] \in Seq(Module) /\ Range(refs[m]) \subseteq Module
<1>1. refs \in [Module -> Seq(Module)]
  BY ConcatAssumption DEF TypeOK
<1>2. refs[m] \in Seq(Module)
  BY <1>1
<1> QED
  BY <1>2 DEF Range

(* What a reachable module refers to is reachable. *)
LEMMA ReachableClosed ==
  ASSUME NEW m \in ReachableFrom(Entry), NEW n \in Module, n \in Range(refs[m])
  PROVE  n \in ReachableFrom(Entry)
<1> SUFFICES ASSUME NEW S \in SUBSET Module,
                    Entry \in S, \A p \in S : Range(refs[p]) \subseteq S
             PROVE  n \in S
  BY DEF ReachableFrom
<1>1. m \in S
  BY DEF ReachableFrom
<1> QED
  BY <1>1

(* The entry is reachable from itself.                                      *)
LEMMA EntryReachable == Entry \in ReachableFrom(Entry)
BY ConcatAssumption DEF ReachableFrom

(* Before the first step nothing is visited and nothing is emitted.         *)
LEMMA Initially == Init => IInv
<1> SUFFICES ASSUME Init PROVE IInv
  OBVIOUS
<1>1. stack = <<Entry>> /\ visited = {} /\ spare = <<>> /\ output = <<>> /\ refs \in Graph
  BY DEF Init
<1>2. /\ stack \in Seq(Module) /\ spare \in Seq(Module) /\ output \in Seq(Module)
      /\ stack # <<>> /\ Last(stack) = Entry
  BY <1>1, ConcatAssumption DEF Last
<1>3. Range(stack) = {Entry} /\ Range(spare) = {} /\ Range(output) = {}
  BY <1>1 DEF Range
<1>4. TypeOK
  BY <1>1, <1>2 DEF TypeOK
<1>5. EmittedOnce
  BY <1>1, <1>3 DEF EmittedOnce, IsInjective
<1>6. Collected /\ Followed /\ Rooted
  BY <1>1, <1>3 DEF Collected, Followed, Rooted
<1>7. OnlyReachable
  BY <1>1, <1>3, EntryReachable DEF OnlyReachable
<1>8. EntryAtBottom
  BY <1>1, <1>2 DEF EntryAtBottom
<1> QED
  BY <1>4, <1>5, <1>6, <1>7, <1>8 DEF IInv

(* A module that is met again is left alone.                                *)
LEMMA SkipStep == IInv /\ SkipVisited => IInv'
<1> SUFFICES ASSUME IInv, SkipVisited PROVE IInv'
  OBVIOUS
<1> DEFINE f == Front(stack)
<1>1. /\ stack \in Seq(Module) /\ stack # <<>> /\ Last(stack) \in visited
      /\ stack' = f /\ UNCHANGED <<refs, visited, spare, output>>
  BY DEF IInv, TypeOK, SkipVisited, Marked, Popped
<1>2. f \in Seq(Module) /\ Range(stack) = Range(f) \union {Last(stack)}
  BY <1>1, FrontLast
<1> HIDE DEF f
<1>3. TypeOK' /\ EmittedOnce' /\ Collected'
  BY <1>1, <1>2 DEF IInv, TypeOK, EmittedOnce, Collected
<1>4. Followed'
  BY <1>1, <1>2 DEF IInv, Followed
<1>5. Rooted'
  BY <1>1, <1>2 DEF IInv, Rooted
<1>6. ReachableFrom(Entry)' = ReachableFrom(Entry)
  BY <1>1 DEF ReachableFrom
<1>7. OnlyReachable'
  BY <1>1, <1>2, <1>6 DEF IInv, OnlyReachable
<1>8. EntryAtBottom'
  BY <1>1 DEF IInv, EntryAtBottom
<1> QED
  BY <1>3, <1>4, <1>5, <1>7, <1>8 DEF IInv

(* A module that is met for the first time goes on the stack.               *)
LEMMA VisitStep == IInv /\ Visit => IInv'
<1> SUFFICES ASSUME IInv, Visit PROVE IInv'
  OBVIOUS
<1> DEFINE f == Front(stack)
           m == Last(stack)
           r == refs[m]
           s == f \o r
           a == Append(spare, m)
<1>1. /\ stack \in Seq(Module) /\ spare \in Seq(Module) /\ output \in Seq(Module)
      /\ visited \subseteq Module /\ stack # <<>> /\ m \notin visited
      /\ stack' = s /\ spare' = a /\ visited' = visited \union {m}
      /\ UNCHANGED <<refs, output>>
  BY DEF IInv, TypeOK, Visit, Marked, Popped, Push
<1>2. f \in Seq(Module) /\ m \in Module /\ Range(stack) = Range(f) \union {m}
  BY <1>1, FrontLast
<1>3. r \in Seq(Module) /\ Range(r) \subseteq Module
  BY <1>2, TypedRefs DEF IInv
<1>4. s \in Seq(Module) /\ Range(s) = Range(f) \union Range(r)
  BY <1>2, <1>3, RangeConcatenation
<1>5. a \in Seq(Module) /\ Range(a) = Range(spare) \union {m}
  BY <1>1, <1>2, AppendRange
<1>6. m \notin Range(spare) /\ m \notin Range(output)
  BY <1>1 DEF IInv, Collected
<1>7. IsInjective(a)
  BY <1>1, <1>2, <1>6, DistinctAppend DEF IInv, EmittedOnce
<1>8. a # <<>> /\ a[1] = IF spare = <<>> THEN m ELSE spare[1]
  BY <1>1, <1>2
<1>9. output = <<>>
  BY <1>1 DEF IInv, EntryAtBottom
<1> HIDE DEF s, a, f, r
<1>10. TypeOK'
  BY <1>1, <1>2, <1>4, <1>5 DEF IInv, TypeOK
<1>11. EmittedOnce'
  BY <1>1, <1>5, <1>6, <1>7 DEF IInv, EmittedOnce
<1>12. Collected'
  BY <1>1, <1>5 DEF IInv, Collected
<1>13. Followed'
  BY <1>1, <1>2, <1>4 DEF IInv, Followed, r
<1>14. Rooted'
  BY <1>1, <1>2, <1>4 DEF IInv, Rooted
<1>15. ReachableFrom(Entry)' = ReachableFrom(Entry)
  BY <1>1 DEF ReachableFrom
<1>16. OnlyReachable'
  <2>1. m \in ReachableFrom(Entry)
    BY <1>2 DEF IInv, OnlyReachable
  <2>2. Range(r) \subseteq ReachableFrom(Entry)
    BY <1>3, <2>1, ReachableClosed DEF r
  <2> QED
    BY <1>1, <1>2, <1>4, <1>15, <2>1, <2>2 DEF IInv, OnlyReachable
<1>17. EntryAtBottom'
  BY <1>1, <1>8, <1>9 DEF IInv, EntryAtBottom
<1> QED
  BY <1>10, <1>11, <1>12, <1>13, <1>14, <1>16, <1>17 DEF IInv

(* A module whose references are done is emitted.                           *)
LEMMA EmitStep == IInv /\ Emit => IInv'
<1> SUFFICES ASSUME IInv, Emit PROVE IInv'
  OBVIOUS
<1> DEFINE f == Front(spare)
           m == Last(spare)
           a == Append(output, m)
<1>1. /\ spare \in Seq(Module) /\ output \in Seq(Module) /\ spare # <<>> /\ stack = <<>>
      /\ output' = a /\ spare' = f /\ UNCHANGED <<refs, stack, visited>>
  BY DEF IInv, TypeOK, Emit
<1>2. /\ f \in Seq(Module) /\ m \in Module /\ Range(spare) = Range(f) \union {m}
      /\ Len(spare) \in Nat \ {0} /\ Len(f) = Len(spare) - 1
      /\ \A i \in 1 .. Len(spare) - 1 : f[i] = spare[i]
  BY <1>1, FrontLast
<1>3. a \in Seq(Module) /\ Range(a) = Range(output) \union {m}
  BY <1>1, <1>2, AppendRange
<1>4. IsInjective(f) /\ m \notin Range(f)
  BY <1>1, DistinctFront DEF IInv, EmittedOnce
<1>5. m \notin Range(output)
  BY <1>2 DEF IInv, EmittedOnce
<1>6. IsInjective(a)
  BY <1>1, <1>2, <1>5, DistinctAppend DEF IInv, EmittedOnce
<1>7. a # <<>> /\ Last(a) = m
  BY <1>1, <1>2 DEF Last
<1>8. spare[1] = Entry
  BY <1>1 DEF IInv, EntryAtBottom
<1>9. (f = <<>> /\ m = Entry) \/ (f # <<>> /\ f[1] = Entry)
  <2>1. CASE Len(spare) = 1
    BY <1>1, <1>2, <1>8, <2>1 DEF Last
  <2>2. CASE Len(spare) # 1
    <3>1. 1 \in 1 .. Len(spare) - 1 /\ Len(f) # 0
      BY <1>2, <2>2
    <3> QED
      BY <1>2, <1>8, <3>1
  <2> QED
    BY <2>1, <2>2
<1> HIDE DEF a, f, m
<1>10. TypeOK'
  BY <1>1, <1>2, <1>3 DEF IInv, TypeOK
<1>11. EmittedOnce'
  BY <1>1, <1>2, <1>3, <1>4, <1>6 DEF IInv, EmittedOnce
<1>12. Collected'
  BY <1>1, <1>2, <1>3 DEF IInv, Collected
<1>13. Followed' /\ Rooted'
  BY <1>1 DEF IInv, Followed, Rooted
<1>14. ReachableFrom(Entry)' = ReachableFrom(Entry)
  BY <1>1 DEF ReachableFrom
<1>15. OnlyReachable'
  BY <1>1, <1>14 DEF IInv, OnlyReachable
<1>16. EntryAtBottom'
  BY <1>1, <1>7, <1>9 DEF EntryAtBottom
<1> QED
  BY <1>10, <1>11, <1>12, <1>13, <1>15, <1>16 DEF IInv

(* The invariant holds in every reachable state. *)
THEOREM Invariance == Spec => []IInv
<1>1. IInv /\ [Next]_vars => IInv'
  <2> SUFFICES ASSUME IInv, [Next]_vars PROVE IInv'
    OBVIOUS
  <2>1. CASE SkipVisited
    BY <2>1, SkipStep
  <2>2. CASE Visit
    BY <2>2, VisitStep
  <2>3. CASE Emit
    BY <2>3, EmitStep
  <2>4. CASE UNCHANGED vars
    <3>1. UNCHANGED <<refs, stack, visited, spare, output>>
      BY <2>4 DEF vars
    <3>2. ReachableFrom(Entry)' = ReachableFrom(Entry)
      BY <3>1 DEF ReachableFrom
    <3>3. TypeOK' /\ EmittedOnce'
      BY <3>1 DEF IInv, TypeOK, EmittedOnce
    <3>4. Collected' /\ Followed' /\ Rooted' /\ EntryAtBottom'
      BY <3>1 DEF IInv, Collected, Followed, Rooted, EntryAtBottom
    <3>5. OnlyReachable'
      BY <3>1, <3>2 DEF IInv, OnlyReachable
    <3> QED
      BY <3>3, <3>4, <3>5 DEF IInv
  <2> QED
    BY <2>1, <2>2, <2>3, <2>4 DEF Next
<1> QED
  BY Initially, <1>1, PTL DEF Spec

(* ConcatModules never appends a module's fragment twice. *)
THEOREM NoDuplicates == Spec => []EmittedOnce
<1>1. IInv => EmittedOnce
  BY DEF IInv
<1> QED
  BY Invariance, <1>1, PTL

(* When it is done, exactly the modules the entry reaches were appended. *)
THEOREM Complete == Spec => []EmitsReachable
<1>1. IInv => EmitsReachable
  <2> SUFFICES ASSUME IInv, Finished PROVE Range(output) = ReachableFrom(Entry)
    BY DEF EmitsReachable
  <2>1. Range(stack) = {} /\ Range(spare) = {}
    BY DEF Finished, Range
  <2>2. Range(output) = visited
    BY <2>1 DEF IInv, Collected
  <2>3. visited \subseteq ReachableFrom(Entry)
    BY DEF IInv, OnlyReachable
  <2>4. ReachableFrom(Entry) \subseteq visited
    <3>1. visited \in SUBSET Module /\ Entry \in visited
      BY <2>1 DEF IInv, TypeOK, Rooted
    <3>2. \A p \in visited : Range(refs[p]) \subseteq visited
      BY <2>1 DEF IInv, Followed
    <3> QED
      BY <3>1, <3>2 DEF ReachableFrom
  <2> QED
    BY <2>2, <2>3, <2>4
<1> QED
  BY Invariance, <1>1, PTL

(* The entry's fragment is the last one. *)
THEOREM EntryIsLast == Spec => []EntryLast
<1>1. IInv => EntryLast
  BY DEF IInv, EntryAtBottom, EntryLast, Finished
<1> QED
  BY Invariance, <1>1, PTL

(* The bundle is whole, on any graph. *)
THEOREM Whole == Spec => []BundleIsWhole
<1>1. EmitsReachable /\ EntryLast => BundleIsWhole
  BY DEF BundleIsWhole
<1> QED
  BY Complete, EntryIsLast, <1>1, PTL
-----------------------------------------------------------------------------
(* The order, where no module is referred to twice.  p was visited before q:  *)
(* it is further down in spare_stack, or further on in the bundle.            *)
Before(s, p, q) == \E i, j \in DOMAIN s : i < j /\ s[i] = p /\ s[j] = q
Earlier(p, q) ==
  \/ Before(spare, p, q)
  \/ p \in Range(spare) /\ q \in Range(output)
  \/ Before(output, q, p)

(* A module is pushed when the one that refers to it is visited, and what is  *)
(* on the stack, each module once, is all unvisited, with all it reaches.      *)
Pushed == \A x \in Range(stack) : x = Entry \/ \E m \in visited : x \in Range(refs[m])
Ahead ==
  /\ IsInjective(stack)
  /\ \A x \in Range(stack) : ReachableFrom(x) \intersect visited = {}

(* A module is visited before those it refers to, and what its later          *)
(* references reach before what its earlier ones do, which is deeper in the    *)
(* stack.                                                                     *)
ParentsFirst == \A m \in visited : \A x \in Range(refs[m]) \intersect visited : Earlier(m, x)
Nested ==
  \A m \in visited : \A i, j \in DOMAIN refs[m] : i < j =>
    \A a, b \in DOMAIN stack :
      stack[a] \in ReachableFrom(refs[m][i]) /\ stack[b] \in ReachableFrom(refs[m][j]) => a < b
LaterFirst ==
  \A m \in visited : \A i, j \in DOMAIN refs[m] : i < j =>
    \A p \in ReachableFrom(refs[m][i]) \intersect visited, q \in ReachableFrom(refs[m][j]) :
      q \in visited /\ Earlier(q, p)

TreeInv == IsTree => Pushed /\ Ahead /\ ParentsFirst /\ Nested /\ LaterFirst
-----------------------------------------------------------------------------
(* What a module reaches: itself, *)
LEMMA ReachSelf ==
  ASSUME NEW x \in Module
  PROVE  x \in ReachableFrom(x) /\ ReachableFrom(x) \subseteq Module
BY DEF ReachableFrom

(* ... what a module it reaches refers to, *)
LEMMA ReachStep ==
  ASSUME TypeOK, NEW x \in Module, NEW n \in ReachableFrom(x), NEW k \in Range(refs[n])
  PROVE  k \in ReachableFrom(x)
<1>1. n \in Module /\ k \in Module
  BY ReachSelf, TypedRefs
<1> SUFFICES ASSUME NEW S \in SUBSET Module,
                    x \in S, \A p \in S : Range(refs[p]) \subseteq S
             PROVE  k \in S
  BY <1>1 DEF ReachableFrom
<1>2. n \in S
  BY DEF ReachableFrom
<1> QED
  BY <1>2

(* ... and what that one reaches; *)
LEMMA ReachTrans ==
  ASSUME TypeOK, NEW x \in Module, NEW y \in ReachableFrom(x)
  PROVE  ReachableFrom(y) \subseteq ReachableFrom(x)
<1>1. x \in ReachableFrom(x) /\ ReachableFrom(x) \in SUBSET Module /\ y \in Module
  BY ReachSelf
<1>2. \A p \in ReachableFrom(x) : Range(refs[p]) \subseteq ReachableFrom(x)
  BY ReachStep
<1>3. PICK S : S = ReachableFrom(x)
  OBVIOUS
<1>4. S \in SUBSET Module /\ y \in S /\ \A p \in S : Range(refs[p]) \subseteq S
  BY <1>1, <1>2, <1>3
<1>5. ReachableFrom(y) \subseteq S
  BY <1>4 DEF ReachableFrom
<1> QED
  BY <1>3, <1>5

(* ... and each module but itself through one that refers to it.             *)
LEMMA ReachPred ==
  ASSUME TypeOK, NEW x \in Module, NEW n \in ReachableFrom(x), n # x
  PROVE  \E y \in ReachableFrom(x) : n \in Range(refs[y])
<1> SUFFICES ASSUME \A y \in ReachableFrom(x) : n \notin Range(refs[y]) PROVE FALSE
  OBVIOUS
<1>1. PICK S : S = ReachableFrom(x) \ {n}
  OBVIOUS
<1>2. S \in SUBSET Module /\ x \in S /\ n \notin S
  BY <1>1, ReachSelf
<1>3. \A p \in S : Range(refs[p]) \subseteq S
  BY <1>1, ReachStep
<1>4. n \in S
  BY <1>2, <1>3 DEF ReachableFrom
<1> QED
  BY <1>2, <1>4

(* What a visited module reaches is visited when none of it is on the stack. *)
LEMMA VisitedClosed ==
  ASSUME TypeOK, Followed, NEW x \in visited, ReachableFrom(x) \intersect Range(stack) = {}
  PROVE  ReachableFrom(x) \subseteq visited
<1>1. visited \subseteq Module /\ x \in Module
  BY DEF TypeOK
<1>2. PICK S : S = visited \intersect ReachableFrom(x)
  OBVIOUS
<1>3. S \in SUBSET Module /\ x \in S
  BY <1>1, <1>2, ReachSelf
<1>4. ASSUME NEW p \in S, NEW k \in Range(refs[p]) PROVE k \in S
  <2>1. k \in ReachableFrom(x)
    BY <1>1, <1>2, ReachStep
  <2>2. k \in visited
    BY <1>2, <2>1 DEF Followed
  <2> QED
    BY <1>2, <2>1, <2>2
<1>5. ReachableFrom(x) \subseteq S
  BY <1>3, <1>4 DEF ReachableFrom
<1> QED
  BY <1>2, <1>5

(* In a tree a module has one referrer, and the entry none. *)
LEMMA OneReferrer ==
  ASSUME IsTree, NEW m \in Module, NEW n \in Module, NEW x \in Range(refs[m])
  PROVE  x # Entry /\ (x \in Range(refs[n]) => m = n)
BY DEF IsTree, Range

(* So what is on the stack is reached from nothing that is unvisited and      *)
(* reaches nothing visited, but from itself; *)
LEMMA StackApart ==
  ASSUME TypeOK, IsTree, Pushed, Ahead, NEW s \in Range(stack), NEW w \in Range(stack),
         NEW y \in ReachableFrom(w)
  PROVE  s \notin Range(refs[y]) /\ (s \in ReachableFrom(w) => s = w)
<1>1. /\ visited \subseteq Module /\ stack \in Seq(Module) /\ s \in Module /\ w \in Module
  BY DEF TypeOK, Range
<1>2. ASSUME NEW z \in ReachableFrom(w), s \in Range(refs[z]) PROVE FALSE
  <2>1. z \in Module /\ s # Entry
    BY <1>1, <1>2, ReachSelf, OneReferrer
  <2>2. PICK p \in visited : s \in Range(refs[p])
    BY <2>1 DEF Pushed
  <2>3. p = z
    BY <1>1, <1>2, <2>1, <2>2, OneReferrer
  <2> QED
    BY <1>2, <2>2, <2>3 DEF Ahead
<1>3. s \in ReachableFrom(w) => s = w
  BY <1>1, <1>2, ReachPred
<1> QED
  BY <1>2, <1>3

(* ... and no module on the stack leads back to itself. *)
LEMMA NoCycle ==
  ASSUME TypeOK, IsTree, Pushed, Ahead, NEW v \in Range(stack), NEW x \in Range(refs[v])
  PROVE  /\ v \notin ReachableFrom(x) /\ x \in Module /\ x \in ReachableFrom(v)
         /\ ReachableFrom(x) \subseteq ReachableFrom(v)
<1>1. v \in Module /\ v \in ReachableFrom(v) /\ x \in Module /\ x \in ReachableFrom(v)
  <2>1. v \in Module
    BY DEF TypeOK, Range
  <2> QED
    BY <2>1, ReachSelf, ReachStep, TypedRefs
<1>2. ReachableFrom(x) \subseteq ReachableFrom(v)
  BY <1>1, ReachTrans
<1>3. ASSUME v \in ReachableFrom(x) PROVE FALSE
  <2>1. CASE v = x
    BY <1>1, <2>1, StackApart
  <2>2. CASE v # x
    <3>1. PICK y \in ReachableFrom(x) : v \in Range(refs[y])
      BY <1>1, <1>3, <2>2, ReachPred
    <3> QED
      BY <1>2, <3>1, StackApart
  <2> QED
    BY <2>1, <2>2
<1> QED
  BY <1>1, <1>2, <1>3
(* The stack when its top v is visited: v's references take its place. *)
StackOf(f, v, r) ==
  /\ f \in Seq(Module) /\ v \in Module /\ r \in Seq(Module) /\ Len(f) \in Nat
  /\ DOMAIN f = 1 .. Len(f) /\ DOMAIN r = 1 .. Len(r) /\ Len(r) \in Nat /\ r = refs[v]
  /\ DOMAIN stack = 1 .. Len(f) + 1 /\ stack[Len(f) + 1] = v
  /\ \A a \in 1 .. Len(f) : stack[a] = f[a]
  /\ DOMAIN stack' = 1 .. Len(f) + Len(r)
  /\ \A a \in 1 .. Len(f) : stack'[a] = f[a]
  /\ \A k \in 1 .. Len(r) : stack'[Len(f) + k] = r[k]

(* The elements of two sequences put together. *)
LEMMA Joined ==
  ASSUME NEW f \in Seq(Module), NEW r \in Seq(Module)
  PROVE  /\ DOMAIN (f \o r) = 1 .. Len(f) + Len(r)
         /\ \A a \in 1 .. Len(f) : (f \o r)[a] = f[a]
         /\ \A k \in 1 .. Len(r) : (f \o r)[Len(f) + k] = r[k]
<1>1. Len(f) \in Nat /\ Len(r) \in Nat
  OBVIOUS
<1>2. f \o r \in Seq(Module) /\ Len(f \o r) = Len(f) + Len(r)
  OBVIOUS
<1>3. \A a \in 1 .. Len(f) + Len(r) :
        (f \o r)[a] = IF a <= Len(f) THEN f[a] ELSE r[a - Len(f)]
  BY <1>1
<1>4. ASSUME NEW k \in 1 .. Len(r) PROVE (f \o r)[Len(f) + k] = r[k]
  <2>1. Len(f) + k \in 1 .. Len(f) + Len(r) /\ ~ Len(f) + k <= Len(f) /\ Len(f) + k - Len(f) = k
    BY <1>1
  <2> QED
    BY <1>3, <2>1
<1>5. ASSUME NEW a \in 1 .. Len(f) PROVE (f \o r)[a] = f[a]
  BY <1>1, <1>3
<1> QED
  BY <1>1, <1>2, <1>4, <1>5

(* What a visit does. *)
LEMMA VisitDoes ==
  ASSUME IInv, Visit
  PROVE  \E f, v, r : /\ StackOf(f, v, r) /\ v \notin visited /\ v \in Range(stack)
                      /\ visited' = visited \union {v} /\ spare' = Append(spare, v)
                      /\ refs' = refs /\ output' = output /\ output = <<>>
<1>1. PICK f, v, r : f = Front(stack) /\ v = Last(stack) /\ r = refs[v]
  OBVIOUS
<1>2. /\ stack \in Seq(Module) /\ stack # <<>> /\ v \notin visited /\ stack' = f \o r
      /\ visited' = visited \union {v} /\ spare' = Append(spare, v)
      /\ refs' = refs /\ output' = output /\ output = <<>>
  BY <1>1 DEF IInv, TypeOK, Visit, Marked, Popped, Push, EntryAtBottom
<1>3. /\ f \in Seq(Module) /\ v \in Module /\ Len(f) = Len(stack) - 1
      /\ Len(stack) \in Nat \ {0} /\ v \in Range(stack)
      /\ \A a \in 1 .. Len(stack) - 1 : f[a] = stack[a]
  BY <1>1, <1>2, FrontLast
<1>4. r \in Seq(Module)
  BY <1>1, <1>3, TypedRefs DEF IInv
<1>5. /\ DOMAIN stack = 1 .. Len(stack) /\ stack[Len(stack)] = v
      /\ DOMAIN f = 1 .. Len(f) /\ Len(f) \in Nat /\ DOMAIN r = 1 .. Len(r) /\ Len(r) \in Nat
  BY <1>1, <1>2, <1>3, <1>4 DEF Last
<1>6. PICK s : s = f \o r
  OBVIOUS
<1>7. /\ DOMAIN s = 1 .. Len(f) + Len(r)
      /\ \A a \in 1 .. Len(f) : s[a] = f[a]
      /\ \A k \in 1 .. Len(r) : s[Len(f) + k] = r[k]
  BY <1>3, <1>4, <1>5, <1>6, Joined
<1>8. StackOf(f, v, r)
  BY <1>1, <1>2, <1>3, <1>4, <1>5, <1>6, <1>7 DEF StackOf
<1> QED
  BY <1>2, <1>3, <1>8

(* A visit comes after the visits before it. *)
LEMMA VisitEarlier ==
  ASSUME IInv, NEW v \in Module, spare' = Append(spare, v), output' = output, output = <<>>,
         NEW p
  PROVE  /\ p \in visited => Earlier(p, v)'
         /\ \A q : Earlier(p, q) => Earlier(p, q)'
<1>1. PICK s, a : s = spare /\ a = Append(s, v)
  OBVIOUS
<1>2. /\ s \in Seq(Module) /\ Len(s) \in Nat /\ DOMAIN s = 1 .. Len(s)
      /\ DOMAIN a = 1 .. Len(s) + 1 /\ a[Len(s) + 1] = v
      /\ \A i \in 1 .. Len(s) : a[i] = s[i]
  BY <1>1 DEF IInv, TypeOK
<1>3. spare' = a
  BY <1>1
<1>4. Range(output) = {} /\ \A x, y : ~ Before(output, x, y)
  BY DEF Range, Before
<1>5. ASSUME p \in visited PROVE Earlier(p, v)'
  <2>1. p \in Range(s)
    BY <1>1, <1>4, <1>5 DEF IInv, Collected
  <2>2. PICK i \in 1 .. Len(s) : s[i] = p
    BY <1>2, <2>1 DEF Range
  <2>3. i < Len(s) + 1 /\ a[i] = p /\ i \in DOMAIN a /\ Len(s) + 1 \in DOMAIN a
    BY <1>2, <2>2
  <2>4. Before(a, p, v)
    BY <1>2, <2>3 DEF Before
  <2> QED
    BY <1>3, <2>4 DEF Earlier, Before
<1>6. ASSUME NEW q, Earlier(p, q) PROVE Earlier(p, q)'
  <2>1. Before(s, p, q)
    BY <1>1, <1>4, <1>6 DEF Earlier
  <2>2. PICK i \in 1 .. Len(s), j \in 1 .. Len(s) : i < j /\ s[i] = p /\ s[j] = q
    BY <1>2, <2>1 DEF Before
  <2>3. Before(a, p, q)
    BY <1>2, <2>2 DEF Before
  <2> QED
    BY <1>3, <2>3 DEF Earlier, Before
<1> QED
  BY <1>5, <1>6

(* What is reached does not change. *)
LEMMA ReachSame == refs' = refs => \A x : ReachableFrom(x)' = ReachableFrom(x)
BY DEF ReachableFrom

(* A visit keeps the tree's invariant. *)
LEMMA VisitTree == ASSUME IInv, IsTree, TreeInv, Visit PROVE TreeInv'
<1>1. PICK f, v, r : /\ StackOf(f, v, r) /\ v \notin visited /\ v \in Range(stack)
                     /\ visited' = visited \union {v} /\ spare' = Append(spare, v)
                     /\ refs' = refs /\ output' = output /\ output = <<>>
  BY VisitDoes
<1> DEFINE n == Len(f)
<1>2. TypeOK /\ Followed /\ Pushed /\ Ahead /\ ParentsFirst /\ Nested /\ LaterFirst
      /\ visited \subseteq Module
  BY DEF TreeInv, IInv, TypeOK
<1>3. /\ n \in Nat /\ Len(r) \in Nat /\ DOMAIN f = 1 .. n /\ DOMAIN r = 1 .. Len(r)
      /\ DOMAIN stack = 1 .. n + 1 /\ stack[n + 1] = v /\ v \in Module
      /\ \A a \in 1 .. n : stack[a] = f[a] /\ stack'[a] = f[a]
      /\ DOMAIN stack' = 1 .. n + Len(r)
      /\ \A k \in 1 .. Len(r) : stack'[n + k] = r[k]
      /\ r = refs[v]
  BY <1>1 DEF StackOf
<1>4. \A a \in DOMAIN stack' : a \in 1 .. n \/ \E k \in 1 .. Len(r) : a = n + k
  <2> TAKE a \in DOMAIN stack'
  <2>1. CASE a <= n
    BY <1>3, <2>1
  <2>2. CASE a > n
    <3>1. a - n \in 1 .. Len(r) /\ a = n + (a - n)
      BY <1>3, <2>2
    <3> QED
      BY <3>1
  <2> QED
    BY <1>3, <2>1, <2>2
<1>5. \A a \in 1 .. n : f[a] \in Range(stack) /\ f[a] # v /\ f[a] \in Module
  <2> TAKE a \in 1 .. n
  <2>1. a \in DOMAIN stack /\ n + 1 \in DOMAIN stack /\ a # n + 1
    BY <1>3
  <2>2. stack[a] # stack[n + 1]
    BY <1>2, <2>1 DEF Ahead, IsInjective
  <2> QED
    BY <1>2, <1>3, <2>1, <2>2 DEF Range, TypeOK
<1>6. \A a \in 1 .. n : f[a] \notin ReachableFrom(v) /\ v \notin ReachableFrom(f[a])
  BY <1>1, <1>2, <1>5, ReachSelf, StackApart
<1>7. \A k \in 1 .. Len(r) :
        /\ r[k] \in Range(refs[v]) /\ r[k] \in Module /\ r[k] \in ReachableFrom(v)
        /\ ReachableFrom(r[k]) \subseteq ReachableFrom(v) /\ v \notin ReachableFrom(r[k])
        /\ r[k] \in ReachableFrom(r[k])
  <2> TAKE k \in 1 .. Len(r)
  <2>1. r[k] \in Range(refs[v])
    BY <1>3 DEF Range
  <2> QED
    BY <1>1, <1>2, <2>1, NoCycle, ReachSelf
<1>8. ReachableFrom(v) \intersect visited = {} /\ v \in ReachableFrom(v)
  BY <1>1, <1>2, <1>3, ReachSelf DEF Ahead
<1>9. \A x : ReachableFrom(x)' = ReachableFrom(x)
  BY <1>1, ReachSame
<1>10. \A x \in Range(stack') : (\E a \in 1 .. n : x = f[a]) \/ (\E k \in 1 .. Len(r) : x = r[k])
  BY <1>3, <1>4 DEF Range
<1>11. IsInjective(refs[v]) /\ \A k, l \in 1 .. Len(r) : r[k] = r[l] => k = l
  BY <1>3 DEF IsTree, IsInjective
(* v is in between, for a module that v refers to. *)
<1>12. ASSUME NEW w \in Module, NEW k \in 1 .. Len(r), r[k] \in ReachableFrom(w), r[k] # w
       PROVE  v \in ReachableFrom(w)
  <2>1. PICK y \in ReachableFrom(w) : r[k] \in Range(refs[y])
    BY <1>2, <1>12, ReachPred
  <2>2. y \in Module
    BY ReachSelf
  <2> QED
    BY <1>3, <1>7, <2>1, <2>2, OneReferrer
<1>13. Pushed'
  <2> SUFFICES ASSUME NEW x \in Range(stack'), x # Entry
               PROVE  \E m \in visited' : x \in Range(refs[m])
    BY <1>1 DEF Pushed, Range
  <2>1. ASSUME NEW a \in 1 .. n, x = f[a] PROVE \E m \in visited' : x \in Range(refs[m])
    BY <1>1, <1>2, <1>5, <2>1 DEF Pushed
  <2>2. ASSUME NEW k \in 1 .. Len(r), x = r[k] PROVE \E m \in visited' : x \in Range(refs[m])
    BY <1>1, <1>7, <2>2
  <2> QED
    BY <1>10, <2>1, <2>2
<1>14. Ahead'
  <2>1. ASSUME NEW a \in DOMAIN stack', NEW b \in DOMAIN stack', stack'[a] = stack'[b]
        PROVE  a = b
    <3>1. CASE a \in 1 .. n /\ b \in 1 .. n
      <4>1. stack[a] = stack[b] /\ a \in DOMAIN stack /\ b \in DOMAIN stack
        BY <1>3, <2>1, <3>1
      <4> QED
        BY <1>2, <4>1 DEF Ahead, IsInjective
    <3>2. ASSUME NEW c \in 1 .. n, NEW k \in 1 .. Len(r), f[c] = r[k] PROVE FALSE
      BY <1>6, <1>7, <3>2
    <3>3. ASSUME NEW k \in 1 .. Len(r), NEW l \in 1 .. Len(r), a = n + k, b = n + l
          PROVE  a = b
      <4>1. stack'[a] = r[k] /\ stack'[b] = r[l]
        BY <1>3, <3>3
      <4>2. k = l
        BY <1>11, <2>1, <4>1
      <4> QED
        BY <3>3, <4>2
    <3>4. ASSUME NEW c \in 1 .. n, NEW k \in 1 .. Len(r),
                 (a = c /\ b = n + k) \/ (b = c /\ a = n + k)
          PROVE  FALSE
      <4>1. stack'[c] = f[c] /\ stack'[n + k] = r[k] /\ stack'[c] = stack'[n + k]
        BY <1>3, <2>1, <3>4
      <4> QED
        BY <3>2, <4>1
    <3> QED
      BY <1>4, <2>1, <3>1, <3>3, <3>4, Zenon
  <2>2. ASSUME NEW x \in Range(stack')
        PROVE  ReachableFrom(x) \intersect (visited \union {v}) = {}
    <3>1. ASSUME NEW a \in 1 .. n, x = f[a]
          PROVE  ReachableFrom(x) \intersect (visited \union {v}) = {}
      BY <1>2, <1>5, <1>6, <3>1 DEF Ahead
    <3>2. ASSUME NEW k \in 1 .. Len(r), x = r[k]
          PROVE  ReachableFrom(x) \intersect (visited \union {v}) = {}
      BY <1>7, <1>8, <3>2
    <3> QED
      BY <1>10, <2>2, <3>1, <3>2
  <2> QED
    BY <1>1, <1>9, <2>1, <2>2 DEF Ahead, IsInjective, Range
<1>15. \A p : (p \in visited => Earlier(p, v)') /\ \A q : Earlier(p, q) => Earlier(p, q)'
  BY <1>1, <1>3, VisitEarlier
<1>16. ParentsFirst'
  <2>1. ASSUME NEW m \in visited \union {v}, NEW x \in Range(refs[m]) \intersect (visited \union {v})
        PROVE  Earlier(m, x)'
    <3>1. CASE m \in visited /\ x \in visited
      <4>1. Earlier(m, x)
        BY <1>2, <2>1, <3>1 DEF ParentsFirst
      <4> QED
        BY <1>15, <4>1
    <3>2. CASE m \in visited /\ x = v
      BY <1>15, <3>2
    <3>3. CASE m = v
      <4>1. PICK k \in 1 .. Len(r) : x = r[k]
        BY <1>3, <2>1, <3>3 DEF Range
      <4> QED
        BY <1>7, <1>8, <2>1, <4>1
    <3> QED
      BY <2>1, <3>1, <3>2, <3>3
  <2>2. \A m : Range(refs[m])' = Range(refs[m])
    BY <1>1 DEF Range
  <2>3. ParentsFirst' <=> \A m \in visited' : \A x \in Range(refs[m])' \intersect visited' :
                            Earlier(m, x)'
    BY DEF ParentsFirst
  <2> QED
    BY <1>1, <2>1, <2>2, <2>3
<1>17. ASSUME NEW m \in visited \union {v}, NEW i \in DOMAIN refs[m], NEW j \in DOMAIN refs[m],
              i < j
       PROVE  /\ m \in Module /\ refs[m][i] \in Module /\ refs[m][j] \in Module
              /\ refs[m][i] \in Range(refs[m]) /\ refs[m][j] \in Range(refs[m])
  <2>1. m \in Module
    BY <1>2, <1>3
  <2> QED
    BY <1>2, <2>1, TypedRefs DEF Range
<1>18. ASSUME NEW m \in visited, NEW i \in DOMAIN refs[m], refs[m][i] \in Module,
              NEW k \in 1 .. Len(r), r[k] \in ReachableFrom(refs[m][i])
       PROVE  v \in ReachableFrom(refs[m][i])
  <2>1. r[k] # refs[m][i]
    <3>1. ASSUME r[k] = refs[m][i] PROVE FALSE
      <4>1. r[k] \in Range(refs[m]) /\ r[k] \in Range(refs[v]) /\ m \in Module
        BY <1>2, <1>7, <3>1 DEF Range
      <4> QED
        BY <1>1, <1>3, <4>1, OneReferrer
    <3> QED
      BY <3>1
  <2> QED
    BY <1>12, <1>18, <2>1
<1>19. Nested'
  <2>1. ASSUME NEW m \in visited \union {v}, NEW i \in DOMAIN refs[m],
               NEW j \in DOMAIN refs[m], i < j, NEW a \in DOMAIN stack', NEW b \in DOMAIN stack',
               stack'[a] \in ReachableFrom(refs[m][i]), stack'[b] \in ReachableFrom(refs[m][j])
        PROVE  a < b
    <3>1. refs[m][i] \in Module /\ refs[m][j] \in Module
      BY <1>17, <2>1
    <3>2. CASE m \in visited
      <4>1. \A c, d \in DOMAIN stack :
              stack[c] \in ReachableFrom(refs[m][i]) /\ stack[d] \in ReachableFrom(refs[m][j])
                => c < d
        BY <1>2, <2>1, <3>2 DEF Nested
      <4>2. n + 1 \in DOMAIN stack
        BY <1>3
      <4>3. CASE a \in 1 .. n /\ b \in 1 .. n
        BY <1>3, <2>1, <4>1, <4>3
      <4>4. ASSUME NEW k \in 1 .. Len(r), a = n + k PROVE v \in ReachableFrom(refs[m][i])
        BY <1>3, <1>18, <2>1, <3>1, <3>2, <4>4
      <4>5. ASSUME NEW k \in 1 .. Len(r), b = n + k PROVE v \in ReachableFrom(refs[m][j])
        BY <1>3, <1>18, <2>1, <3>1, <3>2, <4>5
      <4>6. ASSUME NEW k \in 1 .. Len(r), a = n + k, b \in 1 .. n PROVE FALSE
        <5>1. v \in ReachableFrom(refs[m][i]) /\ stack[b] \in ReachableFrom(refs[m][j])
              /\ b \in DOMAIN stack
          BY <1>3, <2>1, <4>4, <4>6
        <5>2. n + 1 < b
          BY <1>3, <4>1, <4>2, <5>1
        <5> QED
          BY <1>3, <4>6, <5>2
      <4>7. ASSUME NEW k \in 1 .. Len(r), NEW l \in 1 .. Len(r), a = n + k, b = n + l
            PROVE  FALSE
        <5>1. v \in ReachableFrom(refs[m][i]) /\ v \in ReachableFrom(refs[m][j])
          BY <4>4, <4>5, <4>7
        <5>2. n + 1 < n + 1
          BY <1>3, <4>1, <4>2, <5>1
        <5> QED
          BY <1>3, <5>2
      <4>8. ASSUME NEW k \in 1 .. Len(r), b = n + k, a \in 1 .. n PROVE a < b
        BY <1>3, <4>8
      <4> QED
        BY <1>4, <2>1, <4>3, <4>6, <4>7, <4>8
    <3>3. CASE m = v
      <4>1. i \in 1 .. Len(r) /\ j \in 1 .. Len(r) /\ refs[m][i] = r[i] /\ refs[m][j] = r[j]
        BY <1>3, <2>1, <3>3
      <4>2. ASSUME NEW k \in 1 .. Len(r), NEW l \in 1 .. Len(r), r[k] \in ReachableFrom(r[l])
            PROVE  k = l
        BY <1>7, <1>11, <1>12, <4>2
      <4>3. ASSUME NEW c \in 1 .. n, NEW l \in 1 .. Len(r), f[c] \in ReachableFrom(r[l])
            PROVE  FALSE
        BY <1>6, <1>7, <4>3
      <4>4. PICK k \in 1 .. Len(r) : a = n + k
        BY <1>3, <1>4, <2>1, <4>1, <4>3
      <4>5. PICK l \in 1 .. Len(r) : b = n + l
        BY <1>3, <1>4, <2>1, <4>1, <4>3
      <4>6. k = i /\ l = j
        BY <1>3, <2>1, <4>1, <4>2, <4>4, <4>5
      <4> QED
        BY <1>3, <2>1, <4>4, <4>5, <4>6
    <3> QED
      BY <2>1, <3>2, <3>3
  <2> QED
    BY <1>1, <1>9, <2>1 DEF Nested
<1>20. LaterFirst'
  <2>1. ASSUME NEW m \in visited \union {v}, NEW i \in DOMAIN refs[m],
               NEW j \in DOMAIN refs[m], i < j,
               NEW p \in ReachableFrom(refs[m][i]) \intersect (visited \union {v}),
               NEW q \in ReachableFrom(refs[m][j])
        PROVE  q \in visited \union {v} /\ Earlier(q, p)'
    <3>1. refs[m][i] \in Module /\ refs[m][j] \in Module /\ refs[m][j] \in Range(refs[m])
      BY <1>17, <2>1
    <3>2. CASE m = v
      <4>1. i \in 1 .. Len(r) /\ refs[m][i] = r[i]
        BY <1>3, <2>1, <3>2
      <4> QED
        BY <1>7, <1>8, <2>1, <4>1
    <3>3. CASE m \in visited /\ p \in visited
      <4>1. q \in visited /\ Earlier(q, p)
        BY <1>2, <2>1, <3>3 DEF LaterFirst
      <4> QED
        BY <1>15, <4>1
    <3>4. CASE m \in visited /\ p = v
      <4>1. \A d \in DOMAIN stack : stack[d] \notin ReachableFrom(refs[m][j])
        <5> TAKE d \in DOMAIN stack
        <5>1. n + 1 \in DOMAIN stack /\ d <= n + 1 /\ d \in Nat
          BY <1>3
        <5>2. stack[n + 1] \in ReachableFrom(refs[m][i])
          BY <1>3, <2>1, <3>4
        <5>3. stack[d] \in ReachableFrom(refs[m][j]) => n + 1 < d
          BY <1>2, <2>1, <3>4, <5>1, <5>2 DEF Nested
        <5> QED
          BY <1>3, <5>1, <5>3
      <4>2. ReachableFrom(refs[m][j]) \intersect Range(stack) = {}
        BY <4>1 DEF Range
      <4>3. refs[m][j] \in visited
        BY <1>2, <3>1, <3>4, <4>2, ReachSelf DEF Followed
      <4>4. q \in visited
        BY <1>2, <2>1, <4>2, <4>3, VisitedClosed
      <4> QED
        BY <1>15, <3>4, <4>4
    <3> QED
      BY <2>1, <3>2, <3>3, <3>4
  <2>2. \A m, i, j : ReachableFrom(refs[m][i])' = ReachableFrom(refs[m][i])
    BY <1>1 DEF ReachableFrom
  <2>3. LaterFirst' <=>
          \A m \in visited' : \A i, j \in DOMAIN refs'[m] : i < j =>
            \A p \in ReachableFrom(refs[m][i])' \intersect visited',
               q \in ReachableFrom(refs[m][j])' :
              q \in visited' /\ Earlier(q, p)'
    BY DEF LaterFirst
  <2> QED
    BY <1>1, <2>1, <2>2, <2>3
<1> QED
  BY <1>13, <1>14, <1>16, <1>19, <1>20 DEF TreeInv

(* What was visited earlier stays earlier when a module is written out. *)
LEMMA EmitEarlier ==
  ASSUME IInv, Emit, NEW p, NEW q, Earlier(p, q)
  PROVE  Earlier(p, q)'
<1>1. PICK s, o, z, b, c : /\ s = spare /\ o = output /\ z = Last(s) /\ b = Front(s)
                           /\ c = Append(o, z)
  OBVIOUS
<1>2. /\ spare' = b /\ output' = c /\ s \in Seq(Module) /\ s # <<>> /\ o \in Seq(Module)
  BY <1>1 DEF IInv, TypeOK, Emit
<1>3. /\ b \in Seq(Module) /\ z \in Module /\ Len(b) = Len(s) - 1
      /\ Len(s) \in Nat \ {0} /\ \A a \in 1 .. Len(s) - 1 : b[a] = s[a]
  BY <1>1, <1>2, FrontLast
<1>4. /\ DOMAIN s = 1 .. Len(s) /\ DOMAIN b = 1 .. Len(s) - 1 /\ s[Len(s)] = z
      /\ DOMAIN o = 1 .. Len(o) /\ Len(o) \in Nat
      /\ DOMAIN c = 1 .. Len(o) + 1 /\ c[Len(o) + 1] = z
      /\ \A i \in 1 .. Len(o) : c[i] = o[i]
  BY <1>1, <1>2, <1>3 DEF Last
<1>5. Len(o) + 1 \in DOMAIN c /\ \A i \in DOMAIN o : i \in DOMAIN c /\ i < Len(o) + 1
  BY <1>4
<1>6. z \in Range(c) /\ Range(o) \subseteq Range(c)
  BY <1>4, <1>5 DEF Range
<1>7. Before(b, p, q) \/ (p \in Range(b) /\ q \in Range(c)) \/ Before(c, q, p)
  <2>1. CASE Before(s, p, q)
    <3>1. PICK i \in 1 .. Len(s), j \in 1 .. Len(s) : i < j /\ s[i] = p /\ s[j] = q
      BY <1>4, <2>1 DEF Before
    <3>2. i \in DOMAIN b /\ b[i] = p
      BY <1>3, <1>4, <3>1
    <3>3. CASE j = Len(s)
      BY <1>4, <1>6, <3>1, <3>2, <3>3 DEF Range
    <3>4. CASE j # Len(s)
      <4>1. j \in 1 .. Len(s) - 1
        <5>1. \A k \in Nat : \A l \in 1 .. k : l # k => l \in 1 .. k - 1
          OBVIOUS
        <5> QED
          BY <1>3, <3>1, <3>4, <5>1
      <4>2. j \in DOMAIN b /\ b[j] = q
        BY <1>3, <1>4, <3>1, <4>1
      <4> QED
        BY <3>1, <3>2, <4>2 DEF Before
    <3> QED
      BY <3>3, <3>4
  <2>2. CASE p \in Range(s) /\ q \in Range(o)
    <3>1. PICK i \in 1 .. Len(s) : s[i] = p
      BY <1>4, <2>2 DEF Range
    <3>2. CASE i = Len(s)
      <4>1. PICK j \in DOMAIN o : o[j] = q
        BY <2>2 DEF Range
      <4>2. p = z /\ c[j] = q /\ c[Len(o) + 1] = p /\ j < Len(o) + 1
            /\ j \in DOMAIN c /\ Len(o) + 1 \in DOMAIN c
        BY <1>4, <1>5, <3>1, <3>2, <4>1
      <4> QED
        BY <4>2 DEF Before
    <3>3. CASE i # Len(s)
      <4>1. i \in DOMAIN b /\ b[i] = p
        BY <1>3, <1>4, <3>1, <3>3
      <4> QED
        BY <1>6, <2>2, <4>1 DEF Range
    <3> QED
      BY <3>2, <3>3
  <2>3. CASE Before(o, q, p)
    <3>1. PICK i \in DOMAIN o, j \in DOMAIN o : i < j /\ o[i] = q /\ o[j] = p
      BY <2>3 DEF Before
    <3>2. i \in DOMAIN c /\ j \in DOMAIN c /\ c[i] = q /\ c[j] = p
      BY <1>4, <1>5, <3>1
    <3> QED
      BY <3>1, <3>2 DEF Before
  <2> QED
    BY <1>1, <2>1, <2>2, <2>3 DEF Earlier
<1> QED
  BY <1>2, <1>7 DEF Earlier, Before

(* Writing a module out keeps the tree's invariant. *)
LEMMA EmitTree == ASSUME IInv, IsTree, TreeInv, Emit PROVE TreeInv'
<1>1. stack = <<>> /\ refs' = refs /\ stack' = stack /\ visited' = visited
  BY DEF Emit
<1>2. DOMAIN stack' = {} /\ Range(stack)' = {}
  BY <1>1 DEF Range
<1>3. ParentsFirst /\ LaterFirst
  BY DEF TreeInv
<1>4. \A p, q : Earlier(p, q) => Earlier(p, q)'
  BY EmitEarlier
<1>5. \A m : Range(refs[m])' = Range(refs[m])
  BY <1>1 DEF Range
<1>6. \A m, i : ReachableFrom(refs[m][i])' = ReachableFrom(refs[m][i])
  BY <1>1 DEF ReachableFrom
<1>7. Pushed' /\ Ahead' /\ Nested'
  BY <1>2 DEF Pushed, Ahead, Nested, IsInjective
<1>8. ParentsFirst'
  <2>1. ParentsFirst' <=> \A m \in visited' : \A x \in Range(refs[m])' \intersect visited' :
                            Earlier(m, x)'
    BY DEF ParentsFirst
  <2> QED
    BY <1>1, <1>3, <1>4, <1>5, <2>1 DEF ParentsFirst
<1>9. LaterFirst'
  <2>1. LaterFirst' <=>
          \A m \in visited' : \A i, j \in DOMAIN refs'[m] : i < j =>
            \A p \in ReachableFrom(refs[m][i])' \intersect visited',
               q \in ReachableFrom(refs[m][j])' :
              q \in visited' /\ Earlier(q, p)'
    BY DEF LaterFirst
  <2> QED
    BY <1>1, <1>3, <1>4, <1>6, <2>1 DEF LaterFirst
<1> QED
  BY <1>7, <1>8, <1>9 DEF TreeInv

(* The tree's invariant holds at the start, *)
LEMMA TreeAtStart == Init => TreeInv
<1> SUFFICES ASSUME Init PROVE Pushed /\ Ahead /\ ParentsFirst /\ Nested /\ LaterFirst
  BY DEF TreeInv
<1>1. stack = <<Entry>> /\ visited = {} /\ DOMAIN stack = {1} /\ stack[1] = Entry
  BY DEF Init
<1> QED
  BY <1>1 DEF Pushed, Ahead, ParentsFirst, Nested, LaterFirst, IsInjective, Range

(* ... and after every step: nothing in a tree is dropped. *)
LEMMA TreeStep == IInv /\ TreeInv /\ [Next]_vars => TreeInv'
<1> SUFFICES ASSUME IInv, TreeInv, [Next]_vars, IsTree' PROVE TreeInv'
  BY DEF TreeInv
<1>1. refs' = refs
  BY DEF Next, SkipVisited, Visit, Emit, vars
<1>2. IsTree
  BY <1>1 DEF IsTree
<1>3. ASSUME SkipVisited PROVE FALSE
  <2>1. stack \in Seq(Module) /\ stack # <<>> /\ Last(stack) \in visited
    BY <1>3 DEF SkipVisited, Marked, IInv, TypeOK
  <2>2. Last(stack) \in Range(stack) /\ Last(stack) \in Module
    BY <2>1, FrontLast
  <2> QED
    BY <1>2, <2>1, <2>2, ReachSelf DEF TreeInv, Ahead
<1>4. CASE UNCHANGED vars
  <2>1. UNCHANGED <<refs, stack, visited, spare, output>>
    BY <1>4 DEF vars
  <2>2. Pushed' /\ Ahead'
    BY <1>2, <2>1 DEF TreeInv, Pushed, Ahead, ReachableFrom, Range, IsInjective
  <2>3. \A p, q : Earlier(p, q)' <=> Earlier(p, q)
    BY <2>1 DEF Earlier, Before
  <2>4. \A m, i : ReachableFrom(refs[m][i])' = ReachableFrom(refs[m][i])
    BY <2>1 DEF ReachableFrom
  <2>5. ParentsFirst'
    <3>1. \A m : Range(refs[m])' = Range(refs[m])
      BY <2>1 DEF Range
    <3>2. ParentsFirst' <=> \A m \in visited' : \A x \in Range(refs[m])' \intersect visited' :
                              Earlier(m, x)'
      BY DEF ParentsFirst
    <3> QED
      BY <1>2, <2>1, <2>3, <3>1, <3>2 DEF TreeInv, ParentsFirst
  <2>6. Nested'
    <3>1. Nested' <=>
            \A m \in visited' : \A i, j \in DOMAIN refs'[m] : i < j =>
              \A a, b \in DOMAIN stack' :
                stack'[a] \in ReachableFrom(refs[m][i])' /\ stack'[b] \in ReachableFrom(refs[m][j])'
                  => a < b
      BY DEF Nested
    <3> QED
      BY <1>2, <2>1, <2>4, <3>1 DEF TreeInv, Nested
  <2>7. LaterFirst'
    <3>1. LaterFirst' <=>
            \A m \in visited' : \A i, j \in DOMAIN refs'[m] : i < j =>
              \A p \in ReachableFrom(refs[m][i])' \intersect visited',
                 q \in ReachableFrom(refs[m][j])' :
                q \in visited' /\ Earlier(q, p)'
      BY DEF LaterFirst
    <3> QED
      BY <1>2, <2>1, <2>3, <2>4, <3>1 DEF TreeInv, LaterFirst
  <2> QED
    BY <2>2, <2>5, <2>6, <2>7 DEF TreeInv
<1> QED
  BY <1>2, <1>3, <1>4, VisitTree, EmitTree DEF Next

(* In the finished bundle, earlier visited is later written. *)
LEMMA EarlierWritten ==
  ASSUME IInv, Finished, NEW p, NEW q, Earlier(p, q)
  PROVE  Position(q) < Position(p)
<1>1. spare = <<>> /\ output \in Seq(Module) /\ IsInjective(output)
  BY DEF Finished, IInv, TypeOK, EmittedOnce
<1>2. Before(output, q, p)
  BY <1>1 DEF Earlier, Before, Range
<1>3. PICK i \in DOMAIN output, j \in DOMAIN output : i < j /\ output[i] = q /\ output[j] = p
  BY <1>2 DEF Before
<1>4. ASSUME NEW k \in DOMAIN output, NEW m, output[k] = m PROVE Position(m) = k
  BY <1>1, <1>4 DEF Position, IsInjective
<1> QED
  BY <1>3, <1>4

(* On a graph in which no module is referred to twice, the bundle is in the   *)
(* post-order of the references: what a module refers to is written before it, *)
(* and the whole tree of a reference before that of the next one.             *)
THEOREM Postorder == Spec => []TreeInPostorder
<1>1. IInv /\ TreeInv => TreeInPostorder
  <2> SUFFICES ASSUME IInv, TreeInv, Finished, IsTree,
                      NEW m \in Range(output), NEW i \in DOMAIN refs[m]
               PROVE  /\ Position(refs[m][i]) < Position(m)
                      /\ \A j \in DOMAIN refs[m] : i < j =>
                           \A p \in ReachableFrom(refs[m][i]), q \in ReachableFrom(refs[m][j]) :
                             Position(p) < Position(q)
    BY DEF TreeInPostorder
  <2>1. Range(stack) = {} /\ Range(spare) = {}
    BY DEF Finished, Range
  <2>2. m \in visited /\ TypeOK /\ Followed /\ m \in Module
    BY <2>1 DEF IInv, Collected, TypeOK
  <2>3. ASSUME NEW j \in DOMAIN refs[m]
        PROVE  /\ refs[m][j] \in visited /\ refs[m][j] \in Range(refs[m])
               /\ ReachableFrom(refs[m][j]) \subseteq visited
    <3>1. refs[m][j] \in Range(refs[m])
      BY DEF Range
    <3>2. refs[m][j] \in visited
      BY <2>1, <2>2, <3>1 DEF Followed
    <3> QED
      BY <2>1, <2>2, <3>1, <3>2, VisitedClosed
  <2>4. Position(refs[m][i]) < Position(m)
    <3>1. Earlier(m, refs[m][i])
      BY <2>2, <2>3 DEF TreeInv, ParentsFirst
    <3> QED
      BY <3>1, EarlierWritten
  <2>5. ASSUME NEW j \in DOMAIN refs[m], i < j,
               NEW p \in ReachableFrom(refs[m][i]), NEW q \in ReachableFrom(refs[m][j])
        PROVE  Position(p) < Position(q)
    <3>1. Earlier(q, p)
      BY <2>2, <2>3, <2>5 DEF TreeInv, LaterFirst
    <3> QED
      BY <3>1, EarlierWritten
  <2> QED
    BY <2>4, <2>5
<1>2. TreeInv /\ (IInv /\ [Next]_vars) => TreeInv'
  BY TreeStep
<1> QED
  BY TreeAtStart, Invariance, <1>1, <1>2, PTL DEF Spec
==============================================================================
