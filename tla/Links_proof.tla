------------------------------ MODULE Links_proof ------------------------------
(***************************************************************************)
(* Proofs about what crosses modules, for any programs, modules and         *)
(* alphabets of names: an imported identifier is bound to what the import   *)
(* resolves to, no variable is lost, the bundle exports what its entry does *)
(* and linking a program that ECMAScript accepts succeeds.                  *)
(***************************************************************************)
EXTENDS Linker_proof

-----------------------------------------------------------------------------
(* A closure widens the set as often as there are elements.                   *)
WidenSteps(f, S, n, h) ==
  /\ DOMAIN h = 0 .. n
  /\ h[0] = S
  /\ \A k \in 1 .. n : h[k] = Widened(f, h[k - 1])

(* There are such steps, and they lead to it. *)
LEMMA ClosureSteps ==
  ASSUME NEW f, Cardinality(DOMAIN f) \in Nat, NEW S
  PROVE  \E h : WidenSteps(f, S, Cardinality(DOMAIN f), h) /\ Closure(f, S) = h[Cardinality(DOMAIN f)]
<1> DEFINE N == Cardinality(DOMAIN f)
           Def(h) == [k \in 0 .. N |-> IF k = 0 THEN S ELSE Widened(f, h[k - 1])]
           T == {k \in Nat : \E h : WidenSteps(f, S, k, h)}
<1>1. ASSUME NEW k \in Nat, \A j \in 0 .. k - 1 : j \in T PROVE k \in T
  <2>1. CASE k = 0
    <3> DEFINE h == [i \in 0 .. 0 |-> S]
    <3>1. DOMAIN h = 0 .. 0 /\ h[0] = S /\ 1 .. 0 = {}
      OBVIOUS
    <3>2. WidenSteps(f, S, 0, h)
      BY <3>1 DEF WidenSteps
    <3> QED
      BY <2>1, <3>2
  <2>2. CASE k # 0
    <3>1. k - 1 \in 0 .. k - 1 /\ k - 1 \in Nat
      BY <2>2
    <3>2. PICK h : WidenSteps(f, S, k - 1, h)
      BY <1>1, <3>1
    <3> DEFINE g == [i \in 0 .. k |-> IF i = k THEN Widened(f, h[k - 1]) ELSE h[i]]
    <3>3. DOMAIN g = 0 .. k /\ g[0] = S
      BY <2>2, <3>2 DEF WidenSteps
    <3>4. ASSUME NEW i \in 1 .. k PROVE g[i] = Widened(f, g[i - 1])
      <4>1. g[i - 1] = h[i - 1]
        OBVIOUS
      <4>2. CASE i = k
        BY <4>1, <4>2
      <4>3. CASE i # k
        <5>1. i \in 1 .. k - 1 /\ g[i] = h[i]
          BY <4>3
        <5> QED
          BY <3>2, <4>1, <5>1 DEF WidenSteps
      <4> QED
        BY <4>2, <4>3
    <3> HIDE DEF g
    <3>5. WidenSteps(f, S, k, g)
      BY <3>3, <3>4 DEF WidenSteps
    <3> QED
      BY <3>5
  <2> QED
    BY <2>1, <2>2
<1>2. T \in SUBSET Nat
  OBVIOUS
<1>3. T = Nat
  <2> HIDE DEF T
  <2> QED
    BY <1>1, <1>2, StrongInduction
<1>4. PICK h : WidenSteps(f, S, N, h)
  BY <1>3
<1> DEFINE d == [k \in 0 .. N |-> h[k]]
<1>5. d = Def(d)
  BY <1>4 DEF WidenSteps
<1>6. PICK a : a = CHOOSE g : g = Def(g)
  OBVIOUS
<1> HIDE DEF d
<1>7. a = Def(a)
  BY <1>5, <1>6
<1>8. WidenSteps(f, S, N, a)
  <2>1. DOMAIN a = 0 .. N /\ a[0] = S
    BY <1>7
  <2>2. ASSUME NEW k \in 1 .. N PROVE a[k] = Widened(f, a[k - 1])
    <3>1. k \in 0 .. N /\ k # 0
      OBVIOUS
    <3> QED
      BY <1>7, <3>1
  <2> QED
    BY <2>1, <2>2 DEF WidenSteps
<1>9. Closure(f, S) = a[N]
  BY <1>6 DEF Closure
<1> QED
  BY <1>8, <1>9

(* It has what it starts from and all that f leads to from there, and no more: *)
(* with each step that widens it there is one element more in it.             *)
LEMMA ClosureIs ==
  ASSUME NEW X, IsFiniteSet(X), NEW f, DOMAIN f = X, \A x \in X : f[x] \subseteq X,
         NEW S, S \subseteq X
  PROVE  /\ S \subseteq Closure(f, S) /\ Closure(f, S) \subseteq X
         /\ \A x \in Closure(f, S) : f[x] \subseteq Closure(f, S)
         /\ \A Y : S \subseteq Y /\ (\A x \in Y : x \in X => f[x] \subseteq Y) => Closure(f, S) \subseteq Y
<1>1. PICK n \in Nat : n = Cardinality(X)
  BY FS_CardinalityType
<1>2. PICK h : WidenSteps(f, S, n, h) /\ Closure(f, S) = h[n]
  BY <1>1, ClosureSteps
<1> DEFINE Ok(k) == /\ S \subseteq h[k] /\ h[k] \subseteq X
                    /\ Cardinality(h[k]) >= k \/ Widened(f, h[k]) = h[k]
                    /\ \A Y : S \subseteq Y /\ (\A x \in Y : x \in X => f[x] \subseteq Y) => h[k] \subseteq Y
           T == {k \in Nat : k <= n => Ok(k)}
<1>3. ASSUME NEW k \in Nat, \A j \in 0 .. k - 1 : j \in T PROVE k \in T
  <2> SUFFICES ASSUME k <= n PROVE Ok(k)
    OBVIOUS
  <2>1. CASE k = 0
    <3>1. h[0] = S
      BY <1>2 DEF WidenSteps
    <3>2. Cardinality(S) >= 0
      BY FS_Subset, FS_CardinalityType
    <3> QED
      BY <2>1, <3>1, <3>2
  <2>2. CASE k # 0
    <3>1. k - 1 \in 0 .. k - 1 /\ k - 1 \in Nat /\ k \in 1 .. n
      BY <2>2
    <3>2. Ok(k - 1)
      BY <1>3, <3>1
    <3>3. PICK A, B : A = h[k - 1] /\ B = h[k]
      OBVIOUS
    <3>4. B = Widened(f, A)
      BY <1>2, <3>1, <3>3 DEF WidenSteps
    <3>5. A \subseteq X /\ B \subseteq X /\ A \subseteq B
      BY <3>2, <3>3, <3>4 DEF Widened
    <3>6. IsFiniteSet(B) /\ Cardinality(A) <= Cardinality(B) /\ Cardinality(A) \in Nat /\ Cardinality(B) \in Nat
      <4>1. A \in SUBSET X /\ B \in SUBSET X /\ A \in SUBSET B
        BY <3>5
      <4>2. IsFiniteSet(A) /\ IsFiniteSet(B)
        BY <4>1, FS_Subset
      <4> QED
        BY <4>1, <4>2, FS_Subset, FS_CardinalityType
    <3>7. Cardinality(B) >= k \/ Widened(f, B) = B
      <4>1. CASE A = B
        BY <3>4, <4>1
      <4>2. CASE A # B
        <5>1. Widened(f, A) # A
          BY <3>4, <4>2
        <5>2. Cardinality(A) >= k - 1
          BY <3>2, <3>3, <5>1
        <5>3. Cardinality(A) # Cardinality(B)
          BY <3>5, <3>6, <4>2, FS_Subset
        <5> QED
          BY <3>6, <5>2, <5>3
      <4> QED
        BY <4>1, <4>2
    <3>8. ASSUME NEW Y, S \subseteq Y, \A x \in Y : x \in X => f[x] \subseteq Y PROVE B \subseteq Y
      <4>1. A \subseteq Y
        BY <3>2, <3>3, <3>8
      <4> QED
        BY <3>4, <3>5, <3>8, <4>1 DEF Widened
    <3> QED
      BY <3>2, <3>3, <3>5, <3>7, <3>8
  <2> QED
    BY <2>1, <2>2
<1>4. T = Nat
  <2>1. T \in SUBSET Nat
    OBVIOUS
  <2> HIDE DEF T
  <2> QED
    BY <1>3, <2>1, StrongInduction
<1>5. Ok(n)
  BY <1>4
<1>6. PICK C : C = Closure(f, S)
  OBVIOUS
<1>7. /\ S \subseteq C /\ C \subseteq X 
      /\ Cardinality(C) >= n \/ Widened(f, C) = C
      /\ \A Y : S \subseteq Y /\ (\A x \in Y : x \in X => f[x] \subseteq Y) => C \subseteq Y
  BY <1>2, <1>5, <1>6
<1>8. \A x \in C : f[x] \subseteq C
  <2>1. CASE Widened(f, C) = C
    BY <2>1 DEF Widened
  <2>2. CASE Cardinality(C) >= n
    <3>1. C \in SUBSET X
      BY <1>7
    <3>2. Cardinality(C) <= n /\ Cardinality(C) \in Nat
      BY <1>1, <3>1, FS_Subset, FS_CardinalityType
    <3>3. C = X
      BY <1>1, <2>2, <3>1, <3>2, FS_Subset
    <3> QED
      BY <3>3
  <2> QED
    BY <1>7, <2>1, <2>2
<1> QED
  BY <1>6, <1>7, <1>8

(* The elements of a sequence. *)
LEMMA ElementsOf ==
  ASSUME NEW S, NEW s \in Seq(S)
  PROVE  /\ Len(s) \in Nat /\ DOMAIN s = 1 .. Len(s)
         /\ \A i \in DOMAIN s : s[i] \in S
         /\ \A z \in ToSet(s) : z \in S /\ \E i \in 1 .. Len(s) : z = s[i]
<1>1. Len(s) \in Nat /\ DOMAIN s = 1 .. Len(s) /\ \A i \in DOMAIN s : s[i] \in S
  OBVIOUS
<1> QED
  BY <1>1 DEF ToSet

(* What is in the lists of a program. *)
LEMMA ListsAre ==
  ASSUME CInv, NEW m \in Modules
  PROVE  /\ \A z \in ToSet(prog.exports[m]) :
              /\ z.export \in Exportable /\ z.local \in Names \union {Unnamed}
              /\ z.local = Unnamed => z.export = DefaultName
         /\ \A d \in ToSet(prog.reexports[m]) :
              /\ d.from \in Modules /\ d.from \in RefMods(m) /\ d.all \in BOOLEAN
              /\ \A z \in ToSet(d.names) : z.source \in Exportable /\ z.export \in Exportable
         /\ \A i \in ToSet(prog.imports[m]) :
              /\ i.from \in Modules \union Libraries /\ i.source \in Exportable \union {Star}
              /\ i.local \in Names /\ i.local \in prog.owns[m]
              /\ i.from \in Modules => i.from \in RefMods(m)
         /\ \A i, j \in ToSet(prog.imports[m]) : i.local = j.local => i = j
<1>1. PICK x, r, s : x = prog.exports[m] /\ r = prog.reexports[m] /\ s = prog.imports[m]
  OBVIOUS
<1>2. /\ x \in Seq([export : Exportable, local : Names \union {Unnamed}])
      /\ \A z \in ToSet(x) : z.local = Unnamed => z.export = DefaultName
      /\ r \in Seq([from : Modules, all : BOOLEAN, names : Seq([source : Exportable, export : Exportable])])
      /\ s \in Seq([from : Modules \union Libraries, source : Exportable \union {Star}, local : Names])
      /\ \A i \in DOMAIN s : s[i].local \in prog.owns[m]
      /\ \A i, j \in DOMAIN s : s[i].local = s[j].local => i = j
  BY <1>1, ProgramIs DEF IsProgram
<1>3. DOMAIN x = 1 .. Len(x) /\ DOMAIN r = 1 .. Len(r) /\ DOMAIN s = 1 .. Len(s)
  BY <1>2
<1>4. \A i \in DOMAIN x : x[i] \in [export : Exportable, local : Names \union {Unnamed}]
  BY <1>2, ElementsOf
<1>5. \A i \in DOMAIN r : r[i] \in [from : Modules, all : BOOLEAN, names : Seq([source : Exportable, export : Exportable])]
  BY <1>2, ElementsOf
<1>6. \A i \in DOMAIN s : s[i] \in [from : Modules \union Libraries, source : Exportable \union {Star}, local : Names]
  BY <1>2, ElementsOf
<1>7. PICK f, g : f = [i \in DOMAIN s |-> s[i].from] /\ g = [i \in DOMAIN r |-> r[i].from]
  OBVIOUS
<1>8. /\ f \in Seq(Modules \union Libraries) /\ Len(f) = Len(s) /\ Len(s) \in Nat
      /\ g \in Seq(Modules \union Libraries) /\ Len(g) = Len(r) /\ Len(r) \in Nat
  BY <1>2, <1>3, <1>5, <1>6, <1>7
<1>9. RefMods(m) = ToSet(f \o g) \intersect Modules
  BY <1>1, <1>7 DEF RefMods, ReferredTo, ReferencesOf
<1>10. \A i \in DOMAIN s : f[i] \in ToSet(f \o g)
  <2>1. ASSUME NEW i \in DOMAIN s PROVE f[i] \in ToSet(f \o g)
    <3>1. i \in 1 .. Len(f) /\ i \in 1 .. Len(f \o g) /\ (f \o g)[i] = f[i]
      BY <1>3, <1>8, <2>1
    <3>2. DOMAIN (f \o g) = 1 .. Len(f \o g)
      BY <1>8
    <3> QED
      BY <3>1, <3>2 DEF ToSet
  <2> QED
    BY <2>1
<1>11. \A i \in DOMAIN r : g[i] \in ToSet(f \o g)
  <2>1. ASSUME NEW i \in DOMAIN r PROVE g[i] \in ToSet(f \o g)
    <3>1. Len(f) + i \in 1 .. Len(f \o g) /\ (f \o g)[Len(f) + i] = g[i]
      BY <1>3, <1>8, <2>1
    <3>2. DOMAIN (f \o g) = 1 .. Len(f \o g)
      BY <1>8
    <3> QED
      BY <3>1, <3>2 DEF ToSet
  <2> QED
    BY <2>1
<1>12. \A z \in ToSet(x) : z.export \in Exportable /\ z.local \in Names \union {Unnamed} /\ (z.local = Unnamed => z.export = DefaultName)
  BY <1>2, <1>4 DEF ToSet
<1>13. ASSUME NEW d \in ToSet(r)
       PROVE  /\ d.from \in Modules /\ d.from \in RefMods(m) /\ d.all \in BOOLEAN
              /\ \A z \in ToSet(d.names) : z.source \in Exportable /\ z.export \in Exportable
  <2>1. PICK i \in DOMAIN r : d = r[i]
    BY <1>13 DEF ToSet
  <2>2. d \in [from : Modules, all : BOOLEAN, names : Seq([source : Exportable, export : Exportable])]
    BY <1>5, <2>1
  <2>3. d.from = g[i]
    BY <1>7, <2>1
  <2>4. PICK n : n = d.names
    OBVIOUS
  <2>5. n \in Seq([source : Exportable, export : Exportable])
    BY <2>2, <2>4
  <2>6. \A j \in DOMAIN n : n[j] \in [source : Exportable, export : Exportable]
    BY <2>5, ElementsOf
  <2>7. \A z \in ToSet(n) : z.source \in Exportable /\ z.export \in Exportable
    BY <2>6 DEF ToSet
  <2> QED
    BY <1>9, <1>11, <2>2, <2>3, <2>4, <2>7
<1>14. ASSUME NEW d \in ToSet(s)
       PROVE  /\ d.from \in Modules \union Libraries /\ d.source \in Exportable \union {Star}
              /\ d.local \in Names /\ d.local \in prog.owns[m]
              /\ d.from \in Modules => d.from \in RefMods(m)
  <2>1. PICK i \in DOMAIN s : d = s[i]
    BY <1>14 DEF ToSet
  <2>2. d \in [from : Modules \union Libraries, source : Exportable \union {Star}, local : Names]
    BY <1>6, <2>1
  <2>3. d.from = f[i] /\ d.local \in prog.owns[m]
    BY <1>2, <1>7, <2>1
  <2> QED
    BY <1>9, <1>10, <2>2, <2>3
<1>15. \A i, j \in ToSet(s) : i.local = j.local => i = j
  BY <1>2 DEF ToSet
<1> QED
  BY <1>1, <1>12, <1>13, <1>14, <1>15

(* The modules a module leads to.                                            *)
LEMMA ReachedIs ==
  ASSUME NEW m \in Modules
  PROVE  /\ RefMods(m) \subseteq Reached(m) /\ Reached(m) \subseteq Modules
         /\ \A k \in Reached(m) : RefMods(k) \subseteq Reached(m) /\ Reached(k) \subseteq Reached(m)
         /\ \A Y : RefMods(m) \subseteq Y /\ (\A k \in Y : k \in Modules => RefMods(k) \subseteq Y) => Reached(m) \subseteq Y
<1> DEFINE f == [k \in Modules |-> RefMods(k)]
<1>1. \A k \in Modules : RefMods(k) \subseteq Modules
  BY DEF RefMods, ReferredTo
<1>2. DOMAIN f = Modules /\ \A k \in Modules : f[k] = RefMods(k) /\ f[k] \subseteq Modules
  BY <1>1
<1>3. IsFiniteSet(Modules)
  BY LinkerAssumption
<1>4. \A k : Reached(k) = Closure(f, RefMods(k))
  BY DEF Reached
<1> HIDE DEF f
<1>5. /\ RefMods(m) \subseteq Closure(f, RefMods(m)) /\ Closure(f, RefMods(m)) \subseteq Modules
      /\ \A x \in Closure(f, RefMods(m)) : f[x] \subseteq Closure(f, RefMods(m))
      /\ \A Y : RefMods(m) \subseteq Y /\ (\A x \in Y : x \in Modules => f[x] \subseteq Y) => Closure(f, RefMods(m)) \subseteq Y
  BY <1>1, <1>2, <1>3, ClosureIs
<1>6. /\ RefMods(m) \subseteq Reached(m) /\ Reached(m) \subseteq Modules
      /\ \A x \in Reached(m) : RefMods(x) \subseteq Reached(m)
      /\ \A Y : RefMods(m) \subseteq Y /\ (\A x \in Y : x \in Modules => RefMods(x) \subseteq Y) => Reached(m) \subseteq Y
  BY <1>2, <1>4, <1>5
<1>7. ASSUME NEW k \in Reached(m) PROVE Reached(k) \subseteq Reached(m)
  <2>1. k \in Modules /\ RefMods(k) \subseteq Modules
    BY <1>1, <1>6
  <2>2. \A Y : RefMods(k) \subseteq Y /\ (\A x \in Y : x \in Modules => f[x] \subseteq Y) => Closure(f, RefMods(k)) \subseteq Y
    BY <1>2, <1>3, <2>1, ClosureIs
  <2>3. PICK Y : Y = Reached(m)
    OBVIOUS
  <2>4. RefMods(k) \subseteq Y /\ \A x \in Y : x \in Modules => f[x] \subseteq Y
    BY <1>2, <1>6, <2>3
  <2>5. Closure(f, RefMods(k)) \subseteq Y
    BY <2>2, <2>4
  <2> QED
    BY <1>4, <2>3, <2>5
<1> QED
  BY <1>6, <1>7

(* What an export leads to, itself first.                                    *)
Ons == [x \in Exports |-> Onward(x)]
After(x) == Closure(Ons, {x})

(* It leads on to exports of modules its own refers to.                      *)
LEMMA OnwardIs ==
  ASSUME CInv, NEW x \in Exports
  PROVE  Onward(x) \subseteq Exports /\ \A y \in Onward(x) : y[1] \in RefMods(x[1])
<1>1. PICK m \in Modules, e \in Exportable : x = <<m, e>>
  BY DEF Exports
<1>2. x[1] = m /\ x[2] = e
  BY <1>1
<1>3. \A i \in ExportedImports(x) : i \in ToSet(prog.imports[m])
  BY <1>2 DEF ExportedImports, ImportsOf
<1>4. ASSUME NEW i \in ExportedImports(x), i.from \in Modules, i.source # Star
      PROVE  <<i.from, i.source>> \in Exports /\ i.from \in RefMods(m)
  BY <1>3, <1>4, ListsAre DEF Exports
<1>5. ASSUME NEW d \in ToSet(prog.reexports[m]), NEW z \in ToSet(d.names)
      PROVE  <<d.from, z.source>> \in Exports /\ d.from \in RefMods(m)
  BY <1>5, ListsAre DEF Exports
<1>6. ASSUME NEW d \in ToSet(prog.reexports[m])
      PROVE  <<d.from, e>> \in Exports /\ d.from \in RefMods(m)
  BY <1>6, ListsAre DEF Exports
<1>7. Listed(x) \subseteq Exports /\ \A y \in Listed(x) : y[1] \in RefMods(m)
  BY <1>2, <1>5 DEF Listed, Lists
<1>8. Starred(x) \subseteq Exports /\ \A y \in Starred(x) : y[1] \in RefMods(m)
  BY <1>2, <1>6 DEF Starred, Stars
<1>9. PICK I : I = {<<i.from, i.source>> : i \in {i \in ExportedImports(x) : i.from \in Modules /\ i.source # Star}}
  OBVIOUS
<1>10. I \subseteq Exports /\ \A y \in I : y[1] \in RefMods(m)
  BY <1>4, <1>9
<1>11. Onward(x) = I \/ Onward(x) = Listed(x) \/ Onward(x) = Starred(x)
  BY <1>9 DEF Onward
<1> QED
  BY <1>2, <1>7, <1>8, <1>10, <1>11

(* What it leads to is what those lead to that it leads on to.                *)
LEMMA AfterIs ==
  ASSUME CInv, NEW x \in Exports
  PROVE  /\ x \in After(x) /\ After(x) \subseteq Exports
         /\ \A y \in After(x) : Onward(y) \subseteq After(x) /\ After(y) \subseteq After(x)
         /\ \A y \in After(x) : y = x \/ \E z \in Onward(x) : y \in After(z)
         /\ \A y \in After(x) : y[1] = x[1] \/ y[1] \in Reached(x[1])
<1>1. DOMAIN Ons = Exports /\ \A y \in Exports : Ons[y] = Onward(y) /\ Ons[y] \subseteq Exports
  BY OnwardIs DEF Ons
<1>2. IsFiniteSet(Exports)
  <2>1. IsFiniteSet(Exportable)
    BY LinkerAssumption, FS_AddElement DEF Exportable
  <2> QED
    BY <2>1, LinkerAssumption, FS_Product DEF Exports
<1>3. ASSUME NEW y \in Exports
      PROVE  /\ y \in After(y) /\ After(y) \subseteq Exports
             /\ \A z \in After(y) : Onward(z) \subseteq After(y)
             /\ \A Y : y \in Y /\ (\A z \in Y : z \in Exports => Onward(z) \subseteq Y) => After(y) \subseteq Y
  <2>1. {y} \subseteq Exports
    OBVIOUS
  <2>2. /\ {y} \subseteq Closure(Ons, {y}) /\ Closure(Ons, {y}) \subseteq Exports
        /\ \A z \in Closure(Ons, {y}) : Ons[z] \subseteq Closure(Ons, {y})
        /\ \A Y : {y} \subseteq Y /\ (\A z \in Y : z \in Exports => Ons[z] \subseteq Y) => Closure(Ons, {y}) \subseteq Y
    BY <1>1, <1>2, <2>1, ClosureIs
  <2> QED
    BY <1>1, <2>2, ZenonT(40) DEF After
<1>4. \A y \in After(x) : After(y) \subseteq After(x)
  BY <1>3
<1>5. \A y \in After(x) : y = x \/ \E z \in Onward(x) : y \in After(z)
  <2> DEFINE Y == {y \in Exports : y = x \/ \E z \in Onward(x) : y \in After(z)}
  <2>1. \A y \in Y : Onward(y) \subseteq Y
    <3>1. ASSUME NEW y \in Y, NEW z \in Onward(y) PROVE z \in Y
      <4>1. z \in Exports
        BY OnwardIs
      <4>2. CASE y = x
        BY <1>3, <4>1, <4>2
      <4>3. CASE y # x
        <5>1. PICK w \in Onward(x) : y \in After(w)
          BY <4>3
        <5>2. w \in Exports
          BY OnwardIs
        <5>3. z \in After(w)
          BY <1>3, <5>1, <5>2
        <5> QED
          BY <4>1, <5>1, <5>3
      <4> QED
        BY <4>2, <4>3
    <3> QED
      BY <3>1
  <2>2. x \in Y
    OBVIOUS
  <2> HIDE DEF Y
  <2>3. After(x) \subseteq Y
    BY <1>3, <2>1, <2>2
  <2> USE DEF Y
  <2> QED
    BY <2>3
<1>6. \A y \in After(x) : y[1] = x[1] \/ y[1] \in Reached(x[1])
  <2> DEFINE Y == {y \in Exports : y[1] = x[1] \/ y[1] \in Reached(x[1])}
  <2>1. x[1] \in Modules
    BY DEF Exports
  <2>2. \A y \in Y : Onward(y) \subseteq Y
    <3>1. ASSUME NEW y \in Y, NEW z \in Onward(y) PROVE z \in Y
      <4>1. z \in Exports /\ z[1] \in RefMods(y[1])
        BY OnwardIs
      <4>2. z[1] \in Reached(x[1])
        BY <2>1, <4>1, ReachedIs
      <4> QED
        BY <4>1, <4>2
    <3> QED
      BY <3>1
  <2>3. x \in Y
    OBVIOUS
  <2> HIDE DEF Y
  <2>4. After(x) \subseteq Y
    BY <1>3, <2>2, <2>3
  <2> USE DEF Y
  <2> QED
    BY <2>4
<1> QED
  BY <1>3, <1>4, <1>5, <1>6

(* So it means what it is itself and what those mean.                        *)
LEMMA MeansStep ==
  ASSUME CInv, NEW m \in Modules, NEW e \in Exportable, NEW x, x = <<m, e>>
  PROVE  /\ \A v \in ExportMeans(m, e) : v \in Direct(x) \/ \E y \in Onward(x) : v \in ExportMeans(y[1], y[2])
         /\ Direct(x) \subseteq ExportMeans(m, e)
         /\ \A y \in After(x) : ExportMeans(y[1], y[2]) \subseteq ExportMeans(m, e)
<1>1. x \in Exports
  BY DEF Exports
<1>2. \A y \in Exports : ExportMeans(y[1], y[2]) = UNION {Direct(z) : z \in After(y)}
  <2>1. ASSUME NEW y \in Exports PROVE <<y[1], y[2]>> = y
    BY DEF Exports
  <2> QED
    BY <2>1 DEF ExportMeans, After, Ons
<1>3. ExportMeans(m, e) = UNION {Direct(z) : z \in After(x)}
  BY DEF ExportMeans, After, Ons
<1>4. \A y \in Onward(x) : y \in Exports
  BY <1>1, OnwardIs
<1> QED
  BY <1>1, <1>2, <1>3, <1>4, AfterIs

(* The import declaration of a variable that is replaced. *)
IsImported(m, n, i) ==
  /\ i \in ToSet(prog.imports[m]) /\ i.local = n /\ ~ IsNamespace(i) /\ ImportsOf(m, n) = {i}
  /\ i.from \in Libraries \/ (i.from \in Modules /\ i.source \in Exportable)

(* A variable of a module means itself, or what its import means.            *)
LEMMA VariableMeansIs ==
  ASSUME CInv, NEW m \in Modules, NEW n, NEW v, v = <<m, n>>
  PROVE  /\ Declared(v) => VariableMeans(v) = {v}
         /\ ~ Declared(v) => \E i : IsImported(m, n, i) /\ VariableMeans(v) = ImportMeans(m, i)
<1>1. v[1] = m /\ v[2] = n
  OBVIOUS
<1>2. VariableMeans(v) = IF ImportsOf(m, n) # {} THEN UNION {ImportMeans(m, i) : i \in ImportsOf(m, n)} ELSE {v}
  BY <1>1 DEF VariableMeans
<1>3. CASE Declared(v)
  <2>1. \A i \in ImportsOf(m, n) : IsNamespace(i) /\ i.local = n /\ i.from \notin Libraries
    BY <1>1, <1>3, LinkerAssumption DEF Declared, IsNamespace, ImportsOf
  <2>2. \A i \in ImportsOf(m, n) : ImportMeans(m, i) = {v}
    BY <2>1 DEF ImportMeans
  <2>3. VariableMeans(v) = {v}
    BY <1>2, <2>2
  <2> QED
    BY <1>3, <2>3
<1>4. CASE ~ Declared(v)
  <2>1. PICK i \in ImportsOf(m, n) : ~ IsNamespace(i)
    BY <1>1, <1>4 DEF Declared
  <2>2. i \in ToSet(prog.imports[m]) /\ i.local = n
    BY <2>1 DEF ImportsOf
  <2>3. \A j \in ImportsOf(m, n) : j = i
    BY <2>2, ListsAre DEF ImportsOf
  <2>4. ImportsOf(m, n) = {i}
    BY <2>1, <2>3
  <2>5. i.from \in Libraries \/ (i.from \in Modules /\ i.source \in Exportable)
    BY <2>1, <2>2, ListsAre DEF IsNamespace
  <2>6. VariableMeans(v) = ImportMeans(m, i)
    BY <1>2, <2>4
  <2> QED
    BY <1>4, <2>1, <2>2, <2>4, <2>5, <2>6 DEF IsImported
<1> QED
  BY <1>3, <1>4

(* The module that declares a local export, and the name it has there.        *)
LEMMA LocalsAre ==
  ASSUME CInv, Accepted, NEW m \in Modules, NEW z \in ToSet(prog.exports[m]), NEW x, x = <<m, z.export>>
  PROVE  /\ x \in Exports /\ ExportedLocals(x) = {z.local}
         /\ ExportedImports(x) = ImportsOf(m, z.local)
         /\ z.local = Unnamed => ImportsOf(m, Unnamed) = {}
         /\ z.local = Unnamed \/ z.local \in prog.owns[m]
         /\ ImportsOf(m, DefaultVar) = {}
<1>1. x[1] = m /\ x[2] = z.export
  OBVIOUS
<1>2. \A y \in ToSet(prog.exports[m]) : y.export = z.export => y = z
  BY DEF Accepted, ExportsDiffer
<1>3. ExportedLocals(x) = {z.local}
  BY <1>1, <1>2 DEF ExportedLocals
<1>4. ExportedImports(x) = ImportsOf(m, z.local)
  BY <1>1, <1>3 DEF ExportedImports
<1>5. x \in Exports
  BY ListsAre DEF Exports
<1>6. ImportsOf(m, Unnamed) = {} /\ ImportsOf(m, DefaultVar) = {}
  BY ListsAre, LinkerAssumption DEF ImportsOf
<1>7. z.local = Unnamed \/ z.local \in prog.owns[m]
  BY DEF Accepted
<1> QED
  BY <1>3, <1>4, <1>5, <1>6, <1>7

(* Any variable of a module, the one made for export default included, means  *)
(* one thing.                                                               *)
LEMMA MeansOne ==
  ASSUME CInv, Accepted, NEW m \in Modules, NEW n, NEW v, v = <<m, n>>
  PROVE  \E w : VariableMeans(v) = {w}
<1>1. CASE Declared(v)
  BY <1>1, VariableMeansIs
<1>2. CASE ~ Declared(v)
  <2>1. PICK i : IsImported(m, n, i) /\ VariableMeans(v) = ImportMeans(m, i)
    BY <1>2, VariableMeansIs
  <2>2. CASE i.from \in Libraries
    BY <2>1, <2>2 DEF ImportMeans
  <2>3. CASE i.from \notin Libraries
    <3>1. i.from \in Modules /\ i \in ToSet(prog.imports[m]) /\ ~ IsNamespace(i)
      BY <2>1, <2>3 DEF IsImported
    <3>2. ImportMeans(m, i) = ExportMeans(i.from, i.source)
      BY <2>3, <3>1 DEF ImportMeans
    <3>3. Resolved(<<i.from, i.source>>)
      BY <3>1 DEF Accepted
    <3>4. \E w : ExportMeans(i.from, i.source) = {w}
      BY <3>3 DEF Resolved
    <3> QED
      BY <2>1, <3>2, <3>4
  <2> QED
    BY <2>2, <2>3
<1> QED
  BY <1>1, <1>2

(* A local export means what its variable does. *)
LEMMA LocalMeans ==
  ASSUME CInv, Accepted, NEW m \in Modules, NEW z \in ToSet(prog.exports[m]),
         NEW v, v = VariableOf(m, z.local)
  PROVE  ExportMeans(m, z.export) = VariableMeans(v)
<1>1. PICK x : x = <<m, z.export>>
  OBVIOUS
<1>2. PICK n : n = z.local
  OBVIOUS
<1>3. /\ x \in Exports /\ ExportedLocals(x) = {n} /\ ExportedImports(x) = ImportsOf(m, n)
      /\ n = Unnamed => ImportsOf(m, Unnamed) = {}
      /\ ImportsOf(m, DefaultVar) = {}
  BY <1>1, <1>2, LocalsAre
<1>4. x[1] = m /\ x[2] = z.export /\ z.export \in Exportable
  BY <1>1, <1>3 DEF Exports
<1>5. PICK k : v = <<m, k>> /\ k = IF n = Unnamed THEN DefaultVar ELSE n
  BY <1>2 DEF VariableOf
<1>6. ImportsOf(m, k) = ImportsOf(m, n)
  BY <1>3, <1>5
<1>7. {VariableOf(x[1], y) : y \in ExportedLocals(x)} = {v}
  BY <1>2, <1>3, <1>4
<1>8. /\ \A u \in ExportMeans(m, z.export) : u \in Direct(x) \/ \E y \in Onward(x) : u \in ExportMeans(y[1], y[2])
      /\ Direct(x) \subseteq ExportMeans(m, z.export)
      /\ \A y \in After(x) : ExportMeans(y[1], y[2]) \subseteq ExportMeans(m, z.export)
  BY <1>1, <1>4, MeansStep
<1>9. Onward(x) \subseteq After(x)
  BY <1>3, AfterIs
<1>10. Onward(x) = {<<i.from, i.source>> : i \in {i \in ImportsOf(m, n) : i.from \in Modules /\ i.source # Star}}
  BY <1>3 DEF Onward
<1>11. Direct(x) = {u \in {v} : Declared(u)}
                     \union {<<i.from, i.source>> : i \in {i \in ImportsOf(m, n) : i.from \in Libraries}}
  BY <1>3, <1>7 DEF Direct
<1>12. CASE Declared(v)
  <2>1. v[1] = m /\ v[2] = k
    BY <1>5
  <2>2. \A i \in ImportsOf(m, n) : i.from \in Modules /\ i.source = Star /\ i.from \notin Libraries
    BY <1>6, <1>12, <2>1, LinkerAssumption DEF Declared, IsNamespace
  <2>3. Onward(x) = {} /\ Direct(x) = {v}
    BY <1>10, <1>11, <1>12, <2>2
  <2>4. VariableMeans(v) = {v}
    BY <1>5, <1>12, VariableMeansIs
  <2> QED
    BY <1>8, <2>3, <2>4
<1>13. CASE ~ Declared(v)
  <2>1. PICK i : IsImported(m, k, i) /\ VariableMeans(v) = ImportMeans(m, i)
    BY <1>5, <1>13, VariableMeansIs
  <2>2. ImportsOf(m, n) = {i} /\ ~ IsNamespace(i)
    BY <1>6, <2>1 DEF IsImported
  <2>3. CASE i.from \in Libraries
    <3>1. i.from \notin Modules
      BY <2>3, LinkerAssumption
    <3>2. Onward(x) = {} /\ Direct(x) = {<<i.from, i.source>>}
      BY <1>10, <1>11, <1>13, <2>2, <2>3, <3>1
    <3>3. ImportMeans(m, i) = {<<i.from, i.source>>}
      BY <2>2, <2>3 DEF ImportMeans
    <3> QED
      BY <1>8, <2>1, <3>2, <3>3
  <2>4. CASE i.from \notin Libraries
    <3>1. i.from \in Modules /\ i.source # Star
      BY <2>1, <2>2, <2>4 DEF IsImported, IsNamespace
    <3>2. Onward(x) = {<<i.from, i.source>>} /\ Direct(x) = {}
      BY <1>10, <1>11, <1>13, <2>2, <2>4, <3>1
    <3>3. ImportMeans(m, i) = ExportMeans(i.from, i.source)
      BY <2>2, <2>4 DEF ImportMeans
    <3>4. PICK y : y = <<i.from, i.source>>
      OBVIOUS
    <3>5. y[1] = i.from /\ y[2] = i.source
      BY <3>4
    <3>6. ExportMeans(y[1], y[2]) \subseteq ExportMeans(m, z.export)
      BY <1>8, <1>9, <3>2, <3>4
    <3>7. \A u \in ExportMeans(m, z.export) : u \in ExportMeans(y[1], y[2])
      BY <1>8, <3>2, <3>4
    <3> QED
      BY <2>1, <3>3, <3>5, <3>6, <3>7
  <2> QED
    BY <2>3, <2>4
<1> QED
  BY <1>12, <1>13

(* A search goes through the declarations of a module in the order of its map. *)
SearchSteps(Look, m, e, acc, n, h) ==
  /\ DOMAIN h = 0 .. n
  /\ h[0] = acc
  /\ \A k \in 1 .. n : h[k] = SearchIn(Look, e, h[k - 1], mapOrder[m][k])

(* There are such steps, and they lead to its end. *)
LEMMA SearchAllSteps ==
  ASSUME NEW Look, NEW m, NEW e, NEW acc, Len(mapOrder[m]) \in Nat
  PROVE  \E h : SearchSteps(Look, m, e, acc, Len(mapOrder[m]), h)
                /\ SearchAll(Look, m, e, acc) = h[Len(mapOrder[m])]
<1> DEFINE N == Len(mapOrder[m])
           One(a, k) == SearchIn(Look, e, a, mapOrder[m][k])
           Def(h) == [k \in 0 .. N |-> IF k = 0 THEN acc ELSE One(h[k - 1], k)]
           T == {k \in Nat : \E h : SearchSteps(Look, m, e, acc, k, h)}
<1>1. ASSUME NEW k \in Nat, \A j \in 0 .. k - 1 : j \in T PROVE k \in T
  <2>1. CASE k = 0
    <3> DEFINE h == [i \in 0 .. 0 |-> acc]
    <3>1. DOMAIN h = 0 .. 0 /\ h[0] = acc /\ 1 .. 0 = {}
      OBVIOUS
    <3>2. SearchSteps(Look, m, e, acc, 0, h)
      BY <3>1 DEF SearchSteps
    <3> QED
      BY <2>1, <3>2
  <2>2. CASE k # 0
    <3>1. k - 1 \in 0 .. k - 1 /\ k - 1 \in Nat
      BY <2>2
    <3>2. PICK h : SearchSteps(Look, m, e, acc, k - 1, h)
      BY <1>1, <3>1
    <3> DEFINE g == [i \in 0 .. k |-> IF i = k THEN One(h[k - 1], k) ELSE h[i]]
    <3>3. DOMAIN g = 0 .. k /\ g[0] = acc
      BY <2>2, <3>2 DEF SearchSteps
    <3>4. ASSUME NEW i \in 1 .. k PROVE g[i] = One(g[i - 1], i)
      <4>1. g[i - 1] = h[i - 1]
        OBVIOUS
      <4>2. CASE i = k
        BY <4>1, <4>2
      <4>3. CASE i # k
        <5>1. i \in 1 .. k - 1 /\ g[i] = h[i]
          BY <4>3
        <5> QED
          BY <3>2, <4>1, <5>1 DEF SearchSteps
      <4> QED
        BY <4>2, <4>3
    <3> HIDE DEF g
    <3>5. SearchSteps(Look, m, e, acc, k, g)
      BY <3>3, <3>4 DEF SearchSteps
    <3> QED
      BY <3>5
  <2> QED
    BY <2>1, <2>2
<1>2. T \in SUBSET Nat
  OBVIOUS
<1>3. T = Nat
  <2> HIDE DEF T
  <2> QED
    BY <1>1, <1>2, StrongInduction
<1>4. PICK h : SearchSteps(Look, m, e, acc, N, h)
  BY <1>3
<1> DEFINE d == [k \in 0 .. N |-> h[k]]
<1>5. d = Def(d)
  BY <1>4 DEF SearchSteps
<1>6. PICK a : a = CHOOSE g : g = Def(g)
  OBVIOUS
<1> HIDE DEF d
<1>7. a = Def(a)
  BY <1>5, <1>6
<1>8. SearchSteps(Look, m, e, acc, N, a)
  <2>1. DOMAIN a = 0 .. N /\ a[0] = acc
    BY <1>7
  <2>2. ASSUME NEW k \in 1 .. N PROVE a[k] = One(a[k - 1], k)
    <3>1. k \in 0 .. N /\ k # 0
      OBVIOUS
    <3> HIDE DEF One
    <3> QED
      BY <1>7, <3>1
  <2> QED
    BY <2>1, <2>2 DEF SearchSteps
<1>9. SearchAll(Look, m, e, acc) = a[N]
  BY <1>6 DEF SearchAll
<1> QED
  BY <1>8, <1>9

(* The maps of the declarations keep to the program's.                        *)
MInv == \A m \in Modules : mapOrder[m] \in Seq(ToSet(prog.reexports[m]))

(* So they do at the start. *)
LEMMA MInit == Init => MInv
<1> SUFFICES ASSUME Init, NEW m \in Modules PROVE mapOrder[m] \in Seq(ToSet(prog.reexports[m]))
  BY DEF MInv
<1>1. PICK r : r = prog.reexports[m]
  OBVIOUS
<1>2. r \in Seq([from : Modules, all : BOOLEAN, names : Seq([source : Exportable, export : Exportable])])
  BY <1>1, LinkerAssumption DEF Init, IsProgram
<1>3. DOMAIN r = 1 .. Len(r) /\ Len(r) \in Nat
  BY <1>2
<1>4. PICK F : F = {d.from : d \in ToSet(r)}
  OBVIOUS
<1> DEFINE At(f) == {i \in DOMAIN r : r[i].from = f}
           g == [f \in F |-> r[Max(At(f))]]
<1>5. ASSUME NEW f \in F PROVE g[f] \in ToSet(r)
  <2>1. At(f) # {} /\ At(f) \in SUBSET Nat /\ \A i \in At(f) : i <= Len(r)
    BY <1>3, <1>4 DEF ToSet
  <2>2. Max(At(f)) \in At(f)
    <3> HIDE DEF At
    <3>1. IsFiniteSet(At(f))
      BY <1>3, <2>1, FS_BoundedSetOfNaturals
    <3> QED
      BY <2>1, <3>1, Greatest
  <2> QED
    BY <2>2 DEF ToSet
<1>6. IsFiniteSet(F)
  <2>1. PICK a : a = [i \in 1 .. Len(r) |-> r[i].from]
    OBVIOUS
  <2>2. IsFiniteSet(1 .. Len(r)) /\ DOMAIN a = 1 .. Len(r)
    BY <1>3, <2>1, FS_Interval
  <2>3. IsFiniteSet({a[i] : i \in 1 .. Len(r)})
    BY <2>2, FiniteImage
  <2>4. F = {a[i] : i \in 1 .. Len(r)}
    BY <1>3, <1>4, <2>1 DEF ToSet
  <2> QED
    BY <2>3, <2>4
<1>7. PICK S : S = {g[f] : f \in F}
  OBVIOUS
<1>8. IsFiniteSet(S) /\ S \subseteq ToSet(r)
  <2>1. DOMAIN g = F /\ \A f \in F : g[f] \in ToSet(r)
    BY <1>5
  <2> HIDE DEF g
  <2>2. IsFiniteSet({g[f] : f \in F})
    BY <1>6, <2>1, FiniteImage
  <2> QED
    BY <1>7, <2>1, <2>2
<1>9. ExternalMap(prog, m) = S
  <2>1. ExternalMap(prog, m) = {r[Max(At(f))] : f \in F}
    BY <1>1, <1>4 DEF ExternalMap
  <2> HIDE DEF At
  <2> QED
    BY <1>7, <2>1
<1>10. mapOrder[m] \in SetToSeqs(S)
  BY <1>9 DEF Init
<1>11. PICK o : o = mapOrder[m]
  OBVIOUS
<1>12. o \in [1 .. Cardinality(S) -> S]
  BY <1>10, <1>11 DEF SetToSeqs
<1>13. Cardinality(S) \in Nat
  BY <1>8, FS_CardinalityType
<1>14. o \in [1 .. Cardinality(S) -> ToSet(r)]
  BY <1>8, <1>12
<1> QED
  BY <1>1, <1>11, <1>13, <1>14

(* Searches: the module, the name and the modules visited; each further one   *)
(* has fewer left to visit.                                                  *)
Queries == Modules \X Exportable \X (SUBSET Modules)
Left(q) == Cardinality(Modules \ q[3])
Body(F, q) ==
  CASE q[1] \in q[3] -> [info |-> NotFound, seen |-> q[3], stop |-> FALSE]
    [] q[1] \notin q[3] /\ q[2] \in DOMAIN sym.local[q[1]] ->
         [info |-> <<q[1], q[2]>>, seen |-> q[3] \union {q[1]}, stop |-> TRUE]
    [] OTHER -> SearchAll(F, q[1], q[2], [info |-> NotFound, seen |-> q[3] \union {q[1]}, stop |-> FALSE])
SeenGrows(q, r) == r.seen \in SUBSET Modules /\ q[3] \subseteq r.seen
LowAgree(F, G, q) == \A p \in Queries : Left(p) < Left(q) => F[p] = G[p] /\ SeenGrows(p, F[p])

(* A search that declaration d of m has for the name e. *)
Leads(m, e, d, p) ==
  /\ d \in ToSet(prog.reexports[m]) /\ p \in Queries /\ p[1] = d.from
  /\ IF d.all THEN p[2] = e ELSE \E z \in ToSet(d.names) : z.export = e /\ z.source = p[2]

(* One declaration: the search stays as it is, or is one of another module.   *)
Unmoved(q, a, d) == \A F : SearchIn(F, q[2], a, d) = a
MovesTo(q, a, d, p, b) ==
  /\ Leads(q[1], q[2], d, p) /\ p[3] = a.seen /\ Left(p) < Left(q)
  /\ \A F : SearchIn(F, q[2], a, d) = [info |-> F[p].info, seen |-> F[p].seen, stop |-> b \/ F[p].info # NotFound]

(* What a search leaves to visit. *)
LEMMA LeftIs ==
  ASSUME NEW q \in Queries
  PROVE  /\ Left(q) \in Nat /\ q[1] \in Modules /\ q[2] \in Exportable /\ q[3] \in SUBSET Modules
         /\ \A p \in Queries : q[1] \notin q[3] /\ q[3] \union {q[1]} \subseteq p[3] => Left(p) < Left(q)
<1>1. q[1] \in Modules /\ q[2] \in Exportable /\ q[3] \in SUBSET Modules
  BY DEF Queries
<1>2. IsFiniteSet(Modules \ q[3])
  <2>1. Modules \ q[3] \in SUBSET Modules
    OBVIOUS
  <2> QED
    BY <2>1, LinkerAssumption, FS_Subset
<1>3. ASSUME NEW p \in Queries, q[1] \notin q[3], q[3] \union {q[1]} \subseteq p[3] PROVE Left(p) < Left(q)
  <2>1. Modules \ p[3] \in SUBSET (Modules \ q[3]) /\ Modules \ p[3] # Modules \ q[3]
    BY <1>1, <1>3
  <2>2. Left(p) <= Left(q) /\ Left(p) # Left(q)
    BY <1>2, <2>1, FS_Subset DEF Left
  <2>3. IsFiniteSet(Modules \ p[3])
    BY <1>2, <2>1, FS_Subset
  <2>4. Left(p) \in Nat /\ Left(q) \in Nat
    BY <1>2, <2>3, FS_CardinalityType DEF Left
  <2> QED
    BY <2>2, <2>4
<1>4. Left(q) \in Nat
  BY <1>2, FS_CardinalityType DEF Left
<1> QED
  BY <1>1, <1>3, <1>4

(* So it is. *)
LEMMA SearchInIs ==
  ASSUME CInv, MInv, NEW q \in Queries, q[1] \notin q[3], NEW k \in 1 .. Len(mapOrder[q[1]]),
         NEW d, d = mapOrder[q[1]][k], NEW acc, acc.seen \in SUBSET Modules, q[3] \union {q[1]} \subseteq acc.seen
  PROVE  Unmoved(q, acc, d) \/ \E p \in Queries : \E b \in BOOLEAN : MovesTo(q, acc, d, p, b)
<1>1. PICK m \in Modules, e \in Exportable : m = q[1] /\ e = q[2]
  BY LeftIs
<1>2. d \in ToSet(prog.reexports[m])
  <2>1. mapOrder[m] \in Seq(ToSet(prog.reexports[m]))
    BY DEF MInv
  <2> QED
    BY <1>1, <2>1
<1>3. d.from \in Modules /\ d.all \in BOOLEAN /\ \A z \in ToSet(d.names) : z.source \in Exportable
  BY <1>2, ListsAre
<1>4. PICK listed : listed = {x \in ToSet(d.names) : x.export = e}
  OBVIOUS
<1> DEFINE wanted == IF d.all THEN e ELSE (CHOOSE x \in listed : TRUE).source
<1>5. wanted = IF d.all THEN e ELSE (CHOOSE x \in listed : TRUE).source
  OBVIOUS
<1>6. PICK p : p = <<d.from, wanted, acc.seen>>
  OBVIOUS
<1>7. \A F : SearchIn(F, e, acc, d) = IF acc.stop \/ (~ d.all /\ listed = {}) THEN acc
                                     ELSE [info |-> F[p].info, seen |-> F[p].seen, stop |-> ~ d.all \/ F[p].info # NotFound]
  BY <1>4, <1>5, <1>6 DEF SearchIn
<1> HIDE DEF wanted
<1>8. CASE acc.stop \/ (~ d.all /\ listed = {})
  BY <1>1, <1>7, <1>8 DEF Unmoved
<1>9. CASE ~ (acc.stop \/ (~ d.all /\ listed = {}))
  <2>1. wanted \in Exportable /\ IF d.all THEN wanted = e ELSE \E z \in ToSet(d.names) : z.export = e /\ z.source = wanted
    <3>1. CASE d.all
      BY <1>5, <3>1
    <3>2. CASE ~ d.all
      <4>1. PICK c : c = CHOOSE x \in listed : TRUE
        OBVIOUS
      <4>2. c \in listed
        BY <1>9, <3>2, <4>1
      <4>3. wanted = c.source
        BY <1>5, <3>2, <4>1, Zenon
      <4>4. c \in ToSet(d.names) /\ c.export = e /\ c.source \in Exportable
        BY <1>3, <1>4, <4>2
      <4> QED
        BY <3>2, <4>3, <4>4
    <3> QED
      BY <3>1, <3>2
  <2>2. p \in Queries /\ p[1] = d.from /\ p[2] = wanted /\ p[3] = acc.seen
    BY <1>3, <1>6, <2>1 DEF Queries
  <2>3. Left(p) < Left(q)
    BY <2>2, LeftIs
  <2>4. Leads(m, e, d, p)
    BY <1>2, <2>1, <2>2 DEF Leads
  <2>5. PICK b \in BOOLEAN : b = ~ d.all
    OBVIOUS
  <2>6. \A F : SearchIn(F, e, acc, d) = [info |-> F[p].info, seen |-> F[p].seen, stop |-> b \/ F[p].info # NotFound]
    BY <1>7, <1>9, <2>5
  <2>7. MovesTo(q, acc, d, p, b)
    BY <1>1, <2>2, <2>3, <2>4, <2>6 DEF MovesTo
  <2> QED
    BY <2>2, <2>7
<1> QED
  BY <1>8, <1>9

(* So a search reads only results of searches with less left to visit. *)
LEMMA BodyReads ==
  ASSUME CInv, MInv, NEW q \in Queries, NEW F, NEW G, LowAgree(F, G, q)
  PROVE  Body(F, q) = Body(G, q) /\ SeenGrows(q, Body(F, q))
<1>1. PICK m \in Modules, e \in Exportable : m = q[1] /\ e = q[2]
  BY LeftIs
<1>2. q[3] \in SUBSET Modules
  BY LeftIs
<1>3. CASE q[1] \in q[3]
  BY <1>2, <1>3 DEF Body, SeenGrows
<1>4. CASE q[1] \notin q[3] /\ q[2] \in DOMAIN sym.local[q[1]]
  BY <1>1, <1>2, <1>4 DEF Body, SeenGrows
<1>5. CASE q[1] \notin q[3] /\ q[2] \notin DOMAIN sym.local[q[1]]
  <2>1. PICK n \in Nat : n = Len(mapOrder[m])
    BY DEF MInv
  <2>2. PICK marked, acc : marked = q[3] \union {m} /\ acc = [info |-> NotFound, seen |-> marked, stop |-> FALSE]
    OBVIOUS
  <2>3. Body(F, q) = SearchAll(F, m, e, acc) /\ Body(G, q) = SearchAll(G, m, e, acc)
    BY <1>1, <1>5, <2>2 DEF Body
  <2>4. PICK h : SearchSteps(F, m, e, acc, n, h) /\ SearchAll(F, m, e, acc) = h[n]
    BY <2>1, SearchAllSteps
  <2>5. PICK g : SearchSteps(G, m, e, acc, n, g) /\ SearchAll(G, m, e, acc) = g[n]
    BY <2>1, SearchAllSteps
  <2> DEFINE Ok(k) == h[k] = g[k] /\ h[k].seen \in SUBSET Modules /\ marked \subseteq h[k].seen
             T == {k \in Nat : k <= n => Ok(k)}
  <2>6. ASSUME NEW k \in Nat, \A j \in 0 .. k - 1 : j \in T PROVE k \in T
    <3> SUFFICES ASSUME k <= n PROVE Ok(k)
      OBVIOUS
    <3>1. CASE k = 0
      <4>1. h[0] = acc /\ g[0] = acc
        BY <2>4, <2>5 DEF SearchSteps
      <4>2. acc.seen = marked /\ marked \in SUBSET Modules
        BY <1>2, <2>2
      <4> QED
        BY <3>1, <4>1, <4>2
    <3>2. CASE k # 0
      <4>1. k - 1 \in 0 .. k - 1 /\ k \in 1 .. n
        BY <3>2
      <4>2. Ok(k - 1)
        BY <2>6, <4>1
      <4>3. PICK a, d : a = h[k - 1] /\ d = mapOrder[m][k]
        OBVIOUS
      <4>4. h[k] = SearchIn(F, e, a, d) /\ g[k] = SearchIn(G, e, a, d)
        BY <2>4, <2>5, <4>1, <4>2, <4>3 DEF SearchSteps
      <4>5. a.seen \in SUBSET Modules /\ q[3] \union {q[1]} \subseteq a.seen
        BY <1>1, <2>2, <4>2, <4>3
      <4>6. k \in 1 .. Len(mapOrder[q[1]]) /\ d = mapOrder[q[1]][k]
        BY <1>1, <2>1, <4>1, <4>3
      <4>7. Unmoved(q, a, d) \/ \E p \in Queries : \E b \in BOOLEAN : MovesTo(q, a, d, p, b)
        BY <1>5, <4>5, <4>6, SearchInIs
      <4>8. CASE Unmoved(q, a, d)
        BY <1>1, <4>2, <4>3, <4>4, <4>8 DEF Unmoved
      <4>9. ASSUME NEW p \in Queries, NEW b \in BOOLEAN, MovesTo(q, a, d, p, b) PROVE Ok(k)
        <5>1. /\ p[3] = a.seen /\ Left(p) < Left(q)
              /\ \A H : SearchIn(H, e, a, d) = [info |-> H[p].info, seen |-> H[p].seen,
                                                stop |-> b \/ H[p].info # NotFound]
          BY <1>1, <4>9 DEF MovesTo
        <5>2. F[p] = G[p] /\ SeenGrows(p, F[p])
          BY <5>1 DEF LowAgree
        <5> DEFINE One(H) == [info |-> H[p].info, seen |-> H[p].seen, stop |-> b \/ H[p].info # NotFound]
        <5>9. SearchIn(F, e, a, d) = One(F) /\ SearchIn(G, e, a, d) = One(G)
          BY <5>1
        <5>10. One(F) = One(G) /\ One(F).seen = F[p].seen
          BY <5>2
        <5> HIDE DEF One
        <5>3. h[k] = g[k] /\ h[k].seen = F[p].seen
          BY <4>4, <5>9, <5>10
        <5>4. marked \subseteq a.seen
          BY <1>1, <2>2, <4>5
        <5> QED
          BY <5>1, <5>2, <5>3, <5>4 DEF SeenGrows
      <4> QED
        BY <4>7, <4>8, <4>9
    <3> QED
      BY <3>1, <3>2
  <2>7. T = Nat
    <3>1. T \in SUBSET Nat
      OBVIOUS
    <3> HIDE DEF T
    <3> QED
      BY <2>6, <3>1, StrongInduction
  <2>8. Ok(n)
    BY <2>7
  <2> QED
    BY <2>2, <2>3, <2>4, <2>5, <2>8 DEF SeenGrows
<1> QED
  BY <1>3, <1>4, <1>5

(* There are results for all searches, by what is left to visit, and Find has  *)
(* them.                                                                    *)
LEMMA FindIs ==
  ASSUME CInv, MInv, NEW q \in Queries
  PROVE  Find[q] = Body(Find, q) /\ SeenGrows(q, Find[q])
<1> DEFINE Good(F, n) == /\ DOMAIN F = Queries /\ F = [p \in Queries |-> F[p]]
                         /\ \A p \in Queries : Left(p) < n => F[p] = Body(F, p) /\ SeenGrows(p, F[p])
           T == {n \in Nat : \E F : Good(F, n)}
<1>1. ASSUME NEW n \in Nat, \A j \in 0 .. n - 1 : j \in T PROVE n \in T
  <2>1. CASE n = 0
    <3> DEFINE F == [p \in Queries |-> 0]
    <3>1. \A p \in Queries : ~ (Left(p) < 0)
      BY LeftIs
    <3>2. DOMAIN F = Queries /\ F = [p \in Queries |-> F[p]]
      OBVIOUS
    <3> HIDE DEF F
    <3>3. Good(F, 0)
      BY <3>1, <3>2
    <3> QED
      BY <2>1, <3>3
  <2>2. CASE n # 0
    <3>1. n - 1 \in 0 .. n - 1 /\ n - 1 \in Nat
      BY <2>2
    <3>2. PICK F : Good(F, n - 1)
      BY <1>1, <3>1
    <3> DEFINE G == [p \in Queries |-> Body(F, p)]
    <3>3. \A p \in Queries : Left(p) < n - 1 => F[p] = G[p] /\ SeenGrows(p, F[p])
      BY <3>2
    <3>4. ASSUME NEW p \in Queries, Left(p) < n PROVE G[p] = Body(G, p) /\ SeenGrows(p, G[p])
      <4>1. \A r \in Queries : Left(r) < Left(p) => Left(r) < n - 1
        BY <3>4, LeftIs
      <4>2. G[p] = Body(F, p)
        OBVIOUS
      <4> HIDE DEF G
      <4>3. LowAgree(F, G, p)
        BY <3>3, <4>1 DEF LowAgree
      <4> QED
        BY <4>2, <4>3, BodyReads
    <3>5. DOMAIN G = Queries /\ G = [p \in Queries |-> G[p]]
      OBVIOUS
    <3> HIDE DEF G
    <3>6. Good(G, n)
      BY <3>4, <3>5
    <3> QED
      BY <3>6
  <2> QED
    BY <2>1, <2>2
<1>2. T = Nat
  <2>1. T \in SUBSET Nat
    OBVIOUS
  <2> HIDE DEF T
  <2> QED
    BY <1>1, <2>1, StrongInduction
<1>3. PICK N \in Nat : \A p \in Queries : Left(p) < N
  <2>1. Cardinality(Modules) \in Nat
    BY LinkerAssumption, FS_CardinalityType
  <2>2. ASSUME NEW p \in Queries PROVE Left(p) < Cardinality(Modules) + 1
    <3>1. Modules \ p[3] \in SUBSET Modules
      OBVIOUS
    <3>2. Left(p) <= Cardinality(Modules)
      BY <3>1, LinkerAssumption, FS_Subset DEF Left
    <3>3. Left(p) \in Nat
      BY LeftIs
    <3> QED
      BY <2>1, <3>2, <3>3
  <2> QED
    BY <2>1, <2>2
<1>4. PICK F : Good(F, N)
  <2>1. N \in T
    BY <1>2
  <2> QED
    BY <2>1
<1>5. F = [p \in Queries |-> F[p]]
  BY <1>4
<1>6. \A p \in Queries : F[p] = Body(F, p)
  BY <1>3, <1>4
<1>7. F = [p \in Queries |-> Body(F, p)]
  BY <1>4, <1>6
<1>8. Find = CHOOSE H : H = [p \in Queries |-> Body(H, p)]
  BY DEF Find, Queries, Body
<1>9. Find = [p \in Queries |-> Body(Find, p)]
  BY <1>7, <1>8
<1>10. PICK H : H = Find
  OBVIOUS
<1>11. DOMAIN H = Queries /\ \A p \in Queries : H[p] = Body(H, p)
  BY <1>9, <1>10
<1> DEFINE U == {n \in Nat : \A p \in Queries : Left(p) < n => SeenGrows(p, H[p])}
<1>12. ASSUME NEW n \in Nat, \A j \in 0 .. n - 1 : j \in U PROVE n \in U
  <2> SUFFICES ASSUME NEW p \in Queries, Left(p) < n PROVE SeenGrows(p, H[p])
    OBVIOUS
  <2>1. n - 1 \in 0 .. n - 1 /\ n - 1 \in Nat
    BY LeftIs
  <2>2. \A r \in Queries : Left(r) < n - 1 => SeenGrows(r, H[r])
    BY <1>12, <2>1
  <2>3. \A r \in Queries : Left(r) < Left(p) => Left(r) < n - 1
    BY LeftIs
  <2>4. LowAgree(H, H, p)
    BY <2>2, <2>3 DEF LowAgree
  <2>5. SeenGrows(p, Body(H, p))
    BY <2>4, BodyReads
  <2> QED
    BY <1>11, <2>5
<1>13. U = Nat
  <2>1. U \in SUBSET Nat
    OBVIOUS
  <2> HIDE DEF U
  <2> QED
    BY <1>12, <2>1, StrongInduction
<1>14. SeenGrows(q, H[q])
  <2>1. N \in U
    BY <1>13
  <2> QED
    BY <1>3, <2>1
<1> QED
  BY <1>10, <1>11, <1>14

(* A search that does not end in its first module finds what a search a        *)
(* declaration leads to finds, or nothing.                                   *)
LEMMA FindLeads ==
  ASSUME CInv, MInv, NEW q \in Queries, q[1] \notin q[3], q[2] \notin DOMAIN sym.local[q[1]]
  PROVE  \/ Find[q].info = NotFound
         \/ \E p \in Queries : \E d : Leads(q[1], q[2], d, p) /\ Left(p) < Left(q) /\ Find[q].info = Find[p].info
<1>1. PICK m \in Modules, e \in Exportable : m = q[1] /\ e = q[2]
  BY LeftIs
<1>2. PICK n \in Nat : n = Len(mapOrder[m])
  BY DEF MInv
<1>3. PICK marked, acc : marked = q[3] \union {m} /\ acc = [info |-> NotFound, seen |-> marked, stop |-> FALSE]
  OBVIOUS
<1>4. Find[q] = SearchAll(Find, m, e, acc)
  BY <1>1, <1>3, FindIs DEF Body
<1>5. PICK F : F = Find
  OBVIOUS
<1>6. PICK h : SearchSteps(F, m, e, acc, n, h) /\ SearchAll(F, m, e, acc) = h[n]
  BY <1>2, SearchAllSteps
<1>7. \A p \in Queries : SeenGrows(p, F[p])
  BY <1>5, FindIs
<1> DEFINE Found(a) == \/ a.info = NotFound
                       \/ \E p \in Queries : \E d : Leads(m, e, d, p) /\ Left(p) < Left(q) /\ a.info = F[p].info
           Ok(k) == Found(h[k]) /\ h[k].seen \in SUBSET Modules /\ marked \subseteq h[k].seen
           T == {k \in Nat : k <= n => Ok(k)}
<1>8. ASSUME NEW k \in Nat, \A j \in 0 .. k - 1 : j \in T PROVE k \in T
  <2> SUFFICES ASSUME k <= n PROVE Ok(k)
    OBVIOUS
  <2>1. CASE k = 0
    <3>1. h[0] = acc
      BY <1>6 DEF SearchSteps
    <3>2. acc.seen = marked /\ marked \in SUBSET Modules /\ acc.info = NotFound
      BY <1>3, LeftIs
    <3> QED
      BY <2>1, <3>1, <3>2
  <2>2. CASE k # 0
    <3>1. k - 1 \in 0 .. k - 1 /\ k \in 1 .. n
      BY <2>2
    <3>2. Ok(k - 1)
      BY <1>8, <3>1
    <3>3. PICK a, d : a = h[k - 1] /\ d = mapOrder[m][k]
      OBVIOUS
    <3>4. h[k] = SearchIn(F, e, a, d)
      BY <1>6, <3>1, <3>3 DEF SearchSteps
    <3>5. a.seen \in SUBSET Modules /\ q[3] \union {q[1]} \subseteq a.seen /\ marked \subseteq a.seen
      BY <1>1, <1>3, <3>2, <3>3
    <3>6. k \in 1 .. Len(mapOrder[q[1]]) /\ d = mapOrder[q[1]][k]
      BY <1>1, <1>2, <3>1, <3>3
    <3>7. Unmoved(q, a, d) \/ \E p \in Queries : \E b \in BOOLEAN : MovesTo(q, a, d, p, b)
      BY <3>5, <3>6, SearchInIs
    <3>8. CASE Unmoved(q, a, d)
      <4>1. h[k] = a
        BY <1>1, <3>4, <3>8 DEF Unmoved
      <4> HIDE DEF Found
      <4> QED
        BY <3>2, <3>3, <4>1
    <3>9. ASSUME NEW p \in Queries, NEW b \in BOOLEAN, MovesTo(q, a, d, p, b) PROVE Ok(k)
      <4>1. /\ Leads(m, e, d, p) /\ p[3] = a.seen /\ Left(p) < Left(q)
            /\ SearchIn(F, e, a, d) = [info |-> F[p].info, seen |-> F[p].seen, stop |-> b \/ F[p].info # NotFound]
        BY <1>1, <3>9 DEF MovesTo
      <4>2. h[k].info = F[p].info /\ h[k].seen = F[p].seen
        BY <3>4, <4>1
      <4>3. Found(h[k])
        BY <4>1, <4>2
      <4>4. h[k].seen \in SUBSET Modules /\ marked \subseteq h[k].seen
        BY <1>7, <3>5, <4>1, <4>2 DEF SeenGrows
      <4> QED
        BY <4>3, <4>4
    <3> QED
      BY <3>7, <3>8, <3>9
  <2> QED
    BY <2>1, <2>2
<1>9. T = Nat
  <2>1. T \in SUBSET Nat
    OBVIOUS
  <2> HIDE DEF T
  <2> QED
    BY <1>8, <2>1, StrongInduction
<1>10. Found(h[n])
  <2>1. n \in T
    BY <1>9
  <2> QED
    BY <2>1
<1>11. Find[q] = h[n]
  BY <1>4, <1>5, <1>6
<1>12. Found(Find[q])
  <2> HIDE DEF Found
  <2> QED
    BY <1>10, <1>11
<1> QED
  BY <1>1, <1>5, <1>12

(* The tables have the names that modules export. *)
TablesTyped == \A m \in Modules : DOMAIN sym.local[m] = ExportNames(prog, m)

(* Something exported under that name. *)
LEMMA ExportedAs ==
  ASSUME NEW m, NEW e, e \in ExportNames(prog, m)
  PROVE  \E z \in ToSet(prog.exports[m]) : z.export = e
BY DEF ExportNames

(* An export that is none of the module's own is one a list or a star leads to. *)
LEMMA NotItsOwn ==
  ASSUME CInv, NEW m \in Modules, NEW e \in Exportable, e \notin ExportNames(prog, m), NEW x, x = <<m, e>>
  PROVE  /\ ExportedLocals(x) = {} /\ Direct(x) = {}
         /\ Listed(x) # {} => Onward(x) = Listed(x)
         /\ Listed(x) = {} => Onward(x) = Starred(x)
         /\ Listed(x) # {} => \E d \in Lists(m) : \E z \in ToSet(d.names) : z.export = e
         /\ \A d \in Lists(m) : \A z \in ToSet(d.names) : z.export = e => <<d.from, z.source>> \in Listed(x)
         /\ \A d \in Stars(m) : e # DefaultName => <<d.from, e>> \in Starred(x)
         /\ e = DefaultName => Starred(x) = {}
<1>1. x[1] = m /\ x[2] = e
  OBVIOUS
<1>2. ExportedLocals(x) = {}
  BY <1>1 DEF ExportedLocals, ExportNames
<1>3. Direct(x) = {}
  <2>1. ExportedImports(x) = {}
    BY <1>2 DEF ExportedImports
  <2> QED
    BY <1>2, <2>1 DEF Direct
<1>4. (Listed(x) # {} => Onward(x) = Listed(x)) /\ (Listed(x) = {} => Onward(x) = Starred(x))
  BY <1>2 DEF Onward
<1>5. Listed(x) # {} => \E d \in Lists(m) : \E z \in ToSet(d.names) : z.export = e
  BY <1>1 DEF Listed
<1>6. \A d \in Lists(m) : \A z \in ToSet(d.names) : z.export = e => <<d.from, z.source>> \in Listed(x)
  BY <1>1 DEF Listed
<1>7. (\A d \in Stars(m) : e # DefaultName => <<d.from, e>> \in Starred(x)) /\ (e = DefaultName => Starred(x) = {})
  BY <1>1 DEF Starred
<1> QED
  BY <1>2, <1>3, <1>4, <1>5, <1>6, <1>7

(* A search finds a local export that the export means leads to, one passed   *)
(* on by a star that a list hides not.                                       *)
LEMMA FindSound ==
  ASSUME CInv, MInv, LinksKeepable, TablesTyped, NEW q \in Queries, Find[q].info # NotFound,
         q[2] = DefaultName => ExportMeans(q[1], q[2]) # {}
  PROVE  \E r \in Modules : \E z \in ToSet(prog.exports[r]) :
           Find[q].info = <<r, z.export>> /\ <<r, z.export>> \in After(<<q[1], q[2]>>)
<1> DEFINE Sought(p) == Find[p].info # NotFound /\ (p[2] = DefaultName => ExportMeans(p[1], p[2]) # {})
           Got(p) == \E r \in Modules : \E z \in ToSet(prog.exports[r]) :
                       Find[p].info = <<r, z.export>> /\ <<r, z.export>> \in After(<<p[1], p[2]>>)
           T == {n \in Nat : \A p \in Queries : Left(p) = n /\ Sought(p) => Got(p)}
<1>1. ASSUME NEW n \in Nat, \A j \in 0 .. n - 1 : j \in T PROVE n \in T
  <2> SUFFICES ASSUME NEW p \in Queries, Left(p) = n, Sought(p) PROVE Got(p)
    OBVIOUS
  <2>1. PICK m \in Modules, e \in Exportable : m = p[1] /\ e = p[2]
    BY LeftIs
  <2>2. PICK x : x = <<m, e>>
    OBVIOUS
  <2>3. x \in Exports
    BY <2>2 DEF Exports
  <2>4. \A s \in Queries : Left(s) < n /\ Sought(s) => Got(s)
    <3>1. ASSUME NEW s \in Queries, Left(s) < n, Sought(s) PROVE Got(s)
      <4>1. Left(s) \in 0 .. n - 1
        BY <3>1, LeftIs
      <4>2. Left(s) \in T
        BY <1>1, <4>1
      <4> QED
        BY <3>1, <4>2
    <3> QED
      BY <3>1
  <2>5. Find[p] = Body(Find, p)
    BY FindIs
  <2>6. CASE p[1] \in p[3]
    <3>1. Find[p].info = NotFound
      BY <2>5, <2>6 DEF Body
    <3> QED
      BY <3>1
  <2>7. CASE p[1] \notin p[3] /\ p[2] \in DOMAIN sym.local[p[1]]
    <3>1. Find[p].info = <<m, e>>
      BY <2>1, <2>5, <2>7 DEF Body
    <3>2. PICK z \in ToSet(prog.exports[m]) : z.export = e
      BY <2>1, <2>7, ExportedAs DEF TablesTyped
    <3>3. x \in After(x)
      BY <2>3, AfterIs
    <3> QED
      BY <2>1, <2>2, <3>1, <3>2, <3>3
  <2>8. CASE p[1] \notin p[3] /\ p[2] \notin DOMAIN sym.local[p[1]]
    <3>1. \E s \in Queries : \E d : Leads(m, e, d, s) /\ Left(s) < n /\ Find[p].info = Find[s].info
      <4>1. \/ Find[p].info = NotFound
            \/ \E s \in Queries : \E d : Leads(p[1], p[2], d, s) /\ Left(s) < Left(p) /\ Find[p].info = Find[s].info
        BY <2>8, FindLeads
      <4>2. PICK s \in Queries : \E d : Leads(p[1], p[2], d, s) /\ Left(s) < Left(p) /\ Find[p].info = Find[s].info
        BY <4>1
      <4> QED
        BY <2>1, <4>2
    <3>21. PICK s \in Queries : \E d : Leads(m, e, d, s) /\ Left(s) < n /\ Find[p].info = Find[s].info
      BY <3>1
    <3>22. PICK d : Leads(m, e, d, s) /\ Left(s) < n /\ Find[p].info = Find[s].info
      BY <3>21
    <3>2. e \notin ExportNames(prog, m)
      BY <2>1, <2>8 DEF TablesTyped
    <3>3. /\ ExportedLocals(x) = {} /\ Direct(x) = {}
          /\ Listed(x) # {} => Onward(x) = Listed(x)
          /\ Listed(x) = {} => Onward(x) = Starred(x)
          /\ Listed(x) # {} => \E c \in Lists(m) : \E z \in ToSet(c.names) : z.export = e
          /\ \A c \in Lists(m) : \A z \in ToSet(c.names) : z.export = e => <<c.from, z.source>> \in Listed(x)
          /\ \A c \in Stars(m) : e # DefaultName => <<c.from, e>> \in Starred(x)
          /\ e = DefaultName => Starred(x) = {}
      BY <2>2, <3>2, NotItsOwn
    <3>4. PICK y : y = <<s[1], s[2]>>
      OBVIOUS
    <3>5. y \in Exports /\ d \in ToSet(prog.reexports[m]) /\ s[1] = d.from /\ Find[s].info # NotFound
      BY <3>22, <3>4, LeftIs DEF Leads, Exports
    <3>6. ASSUME y \in Onward(x), s[2] = DefaultName => ExportMeans(s[1], s[2]) # {} PROVE Got(p)
      <4>1. Got(s)
        BY <2>4, <3>22, <3>5, <3>6
      <4>4. PICK r \in Modules :
              \E z \in ToSet(prog.exports[r]) : Find[s].info = <<r, z.export>> /\ <<r, z.export>> \in After(y)
        BY <3>4, <4>1
      <4>2. PICK z \in ToSet(prog.exports[r]) : Find[s].info = <<r, z.export>> /\ <<r, z.export>> \in After(y)
        BY <4>4
      <4>3. After(y) \subseteq After(x)
        BY <2>3, <3>6, AfterIs
      <4> QED
        BY <2>1, <2>2, <3>22, <4>2, <4>3
    <3>7. CASE ~ d.all
      <4>1. d \in Lists(m)
        BY <3>5, <3>7 DEF Lists
      <4>2. PICK z \in ToSet(d.names) : z.export = e /\ z.source = s[2]
        BY <3>22, <3>7 DEF Leads
      <4>3. y \in Onward(x)
        BY <3>3, <3>4, <3>5, <4>1, <4>2
      <4>4. Resolved(<<d.from, z.source>>)
        BY <4>1, <4>2 DEF LinksKeepable, Accepted
      <4>5. ExportMeans(s[1], s[2]) # {}
        BY <3>5, <4>2, <4>4 DEF Resolved
      <4> QED
        BY <3>6, <4>3, <4>5
    <3>8. CASE d.all
      <4>1. d \in Stars(m) /\ s[2] = e
        BY <3>22, <3>5, <3>8 DEF Stars, Leads
      <4>2. \A c \in Lists(m) : \A z \in ToSet(c.names) : z.export # DefaultName /\ ExportMeans(d.from, z.export) = {}
        BY <4>1 DEF LinksKeepable, ListsHideNothing
      <4>3. CASE Listed(x) # {}
        <5>1. e # DefaultName /\ ExportMeans(s[1], s[2]) = {}
          BY <3>3, <3>5, <4>1, <4>2, <4>3
        <5>2. Got(s)
          BY <2>4, <3>22, <3>5, <4>1, <5>1
        <5>10. PICK r \in Modules : \E z \in ToSet(prog.exports[r]) : <<r, z.export>> \in After(y)
          BY <3>4, <5>2
        <5>3. PICK z \in ToSet(prog.exports[r]) : <<r, z.export>> \in After(y)
          BY <5>10
        <5>4. PICK w : w = <<r, z.export>>
          OBVIOUS
        <5>5. w[1] = r /\ w[2] = z.export
          BY <5>4
        <5>6. s[1] \in Modules /\ s[2] \in Exportable
          BY LeftIs
        <5>7. ExportMeans(r, z.export) \subseteq ExportMeans(s[1], s[2])
          BY <3>4, <5>3, <5>4, <5>5, <5>6, MeansStep
        <5>8. PICK k : VariableOf(r, z.local) = <<r, k>>
          BY DEF VariableOf
        <5>11. \E v : VariableMeans(VariableOf(r, z.local)) = {v}
          BY <5>8, MeansOne DEF LinksKeepable
        <5>9. \E v : ExportMeans(r, z.export) = {v}
          BY <5>11, LocalMeans DEF LinksKeepable
        <5> QED
          BY <5>1, <5>7, <5>9
      <4>4. CASE Listed(x) = {}
        <5>1. e # DefaultName
          <6>1. SUFFICES ASSUME e = DefaultName PROVE FALSE
            OBVIOUS
          <6>2. PICK v : v \in ExportMeans(m, e)
            BY <2>1, <6>1
          <6>3. v \in Direct(x) \/ \E w \in Onward(x) : v \in ExportMeans(w[1], w[2])
            BY <2>2, <6>2, MeansStep
          <6> QED
            BY <3>3, <4>4, <6>1, <6>3
        <5>2. y \in Onward(x)
          BY <3>3, <3>4, <3>5, <4>1, <4>4, <5>1
        <5> QED
          BY <3>6, <4>1, <5>1, <5>2
      <4> QED
        BY <4>3, <4>4
    <3>9. d.all \in BOOLEAN
      BY <3>5, ListsAre
    <3> QED
      BY <3>7, <3>8
  <2> QED
    BY <2>6, <2>7, <2>8
<1>2. T = Nat
  <2>1. T \in SUBSET Nat
    OBVIOUS
  <2> HIDE DEF T
  <2> QED
    BY <1>1, <2>1, StrongInduction
<1>3. Left(q) \in T
  BY <1>2, LeftIs
<1>4. Sought(q)
  OBVIOUS
<1> QED
  BY <1>3, <1>4

(* What an import declaration finds means what the import does, and is        *)
(* exported by a module this one leads to.                                   *)
LEMMA FoundMeans ==
  ASSUME CInv, MInv, LinksKeepable, TablesTyped, NEW m \in Modules, NEW i \in ToSet(prog.imports[m]),
         i.from \in Modules, ~ IsNamespace(i), FindLocalExport(i.from, i.source) # NotFound
  PROVE  \E r \in Reached(m) : \E z \in ToSet(prog.exports[r]) :
           /\ FindLocalExport(i.from, i.source) = <<r, z.export>>
           /\ VariableMeans(VariableOf(r, z.local)) = ImportMeans(m, i)
<1>1. i.from \in Modules /\ i.source \in Exportable /\ i.from \in RefMods(m)
  BY ListsAre DEF IsNamespace
<1>2. PICK q : q = <<i.from, i.source, {}>>
  OBVIOUS
<1>3. q \in Queries /\ q[1] = i.from /\ q[2] = i.source
  BY <1>1, <1>2 DEF Queries
<1>4. Find[q].info = FindLocalExport(i.from, i.source)
  BY <1>2 DEF FindLocalExport
<1>5. Resolved(<<i.from, i.source>>)
  BY <1>1 DEF LinksKeepable, Accepted
<1>6. PICK w : ExportMeans(i.from, i.source) = {w}
  BY <1>5 DEF Resolved
<1>16. \E r \in Modules : \E z \in ToSet(prog.exports[r]) :
        Find[q].info = <<r, z.export>> /\ <<r, z.export>> \in After(<<q[1], q[2]>>)
  BY <1>3, <1>4, <1>6, FindSound
<1>17. PICK r \in Modules : \E z \in ToSet(prog.exports[r]) :
        Find[q].info = <<r, z.export>> /\ <<r, z.export>> \in After(<<q[1], q[2]>>)
  BY <1>16
<1>7. PICK z \in ToSet(prog.exports[r]) :
        Find[q].info = <<r, z.export>> /\ <<r, z.export>> \in After(<<q[1], q[2]>>)
  BY <1>17
<1>8. PICK x, y : x = <<i.from, i.source>> /\ y = <<r, z.export>>
  OBVIOUS
<1>9. x \in Exports /\ x[1] = i.from /\ y[1] = r /\ y[2] = z.export /\ y \in After(x)
  BY <1>1, <1>3, <1>7, <1>8 DEF Exports
<1>10. r \in Reached(m)
  <2>1. r = i.from \/ r \in Reached(i.from)
    BY <1>9, AfterIs
  <2> QED
    BY <1>1, <2>1, ReachedIs
<1>11. ExportMeans(r, z.export) \subseteq {w}
  BY <1>1, <1>6, <1>8, <1>9, MeansStep
<1>12. PICK k : VariableOf(r, z.local) = <<r, k>>
  BY DEF VariableOf
<1>13. PICK u : VariableMeans(VariableOf(r, z.local)) = {u}
  BY <1>12, MeansOne DEF LinksKeepable
<1>14. ExportMeans(r, z.export) = {u}
  BY <1>13, LocalMeans DEF LinksKeepable
<1>15. ImportMeans(m, i) = {w}
  <2>1. i.from \notin Libraries
    BY <1>1, LinkerAssumption
  <2> QED
    BY <1>6, <2>1 DEF ImportMeans
<1> QED
  BY <1>4, <1>7, <1>10, <1>11, <1>13, <1>14, <1>15

(* Each module on the stack refers to the one above it. *)
PInv == \A i \in 1 .. Len(stack) - 1 : stack[i + 1] \in RefMods(stack[i])

(* A step leaves the program and the order of its maps as they are. *)
LEMMA ProgramStays ==
  ASSUME [Next]_vars
  PROVE  /\ prog' = prog /\ mapOrder' = mapOrder
         /\ \A m : RefMods(m)' = RefMods(m)
         /\ MInv => MInv'
<1>1. prog' = prog /\ mapOrder' = mapOrder
  BY DEF Next, vars, CollectExports, RenameInner, MergeGenerators, GenAst, Descend, RenameRoot,
         RootsRenamed, ReplaceImports, Finish, Stop
<1>2. \A m : RefMods(m)' = RefMods(m)
  BY <1>1 DEF RefMods, ReferredTo, ReferencesOf
<1>3. MInv => MInv'
  BY <1>1 DEF MInv
<1> QED
  BY <1>1, <1>2, <1>3

(* The walk goes on at a module that the last one refers to. *)
LEMMA PStep ==
  ASSUME CInv, PInv, [Next]_vars
  PROVE  PInv'
<1>1. prog' = prog
  BY ProgramStays
<1>3. SUFFICES ASSUME NEW i \in 1 .. Len(stack') - 1 PROVE stack'[i + 1] \in RefMods(stack'[i])
  BY <1>1 DEF PInv, RefMods, ReferredTo, ReferencesOf
<1>4. CASE stack' = stack
  BY <1>3, <1>4 DEF PInv
<1>5. CASE stack' = <<Entry>> \/ stack' = <<>>
  <2>1. Len(stack') \in {0, 1}
    BY <1>5
  <2> QED
    BY <1>3, <2>1
<1>6. CASE stack # <<>> /\ stack' = Popped(stack)
  <2>1. \A j \in 1 .. Len(stack) - 1 : stack'[j] = stack[j]
    BY <1>6 DEF Popped, Front, CInv
  <2>2. Len(stack) \in Nat \ {0} /\ Len(stack') = Len(stack) - 1
    BY <1>6, TopIs
  <2>3. i \in 1 .. Len(stack) - 1 /\ i + 1 \in 1 .. Len(stack) - 1
    BY <1>3, <2>2
  <2> QED
    BY <2>1, <2>3 DEF PInv
<1>7. CASE Descend
  <2>1. PICK k \in DOMAIN References(Last(stack)) :
          References(Last(stack))[k] \in Modules /\ stack' = Append(stack, References(Last(stack))[k])
    BY <1>7 DEF Descend
  <2>2. PICK c : c = References(Last(stack))[k]
    OBVIOUS
  <2>3. c \in RefMods(Last(stack))
    BY <2>1, <2>2 DEF RefMods, ReferredTo, References, ToSet
  <2>4. stack # <<>> /\ stack \in Seq(Modules) /\ Len(stack) \in Nat
    BY <1>7 DEF Descend, CInv
  <2>5. Len(stack') = Len(stack) + 1 /\ (\A j \in 1 .. Len(stack) : stack'[j] = stack[j]) /\ stack'[Len(stack) + 1] = c
    BY <2>1, <2>2, <2>4
  <2>6. CASE i = Len(stack)
    BY <2>3, <2>4, <2>5, <2>6 DEF Last
  <2>7. CASE i # Len(stack)
    <3>1. i \in 1 .. Len(stack) - 1 /\ i + 1 \in 1 .. Len(stack) /\ i \in 1 .. Len(stack)
      BY <1>3, <2>4, <2>5, <2>7
    <3> QED
      BY <2>5, <3>1 DEF PInv
  <2> QED
    BY <2>6, <2>7
<1>8. CASE Next
  <2>1. CASE CollectExports \/ MergeGenerators \/ Finish \/ Stop \/ \E s \in Inner : RenameInner(s)
    BY <1>4, <2>1 DEF CollectExports, MergeGenerators, Finish, Stop, RenameInner, vars
  <2>2. CASE GenAst \/ RootsRenamed
    BY <1>5, <2>2 DEF GenAst, RootsRenamed
  <2>3. CASE RenameRoot
    BY <1>6, <2>3 DEF RenameRoot
  <2>4. CASE ReplaceImports
    BY <1>5, <1>6, <2>4 DEF ReplaceImports
  <2> QED
    BY <1>7, <1>8, <2>1, <2>2, <2>3, <2>4 DEF Next
<1> QED
  BY <1>4, <1>8 DEF vars

(* The last module on the stack is one that each of the others leads to. *)
LEMMA LastReached ==
  ASSUME CInv, PInv, stack # <<>>, NEW y \in On(stack)
  PROVE  y = Last(stack) \/ Last(stack) \in Reached(y)
<1>1. PICK m : m = Last(stack)
  OBVIOUS
<1>2. PICK n \in Nat \ {0} : n = Len(stack)
  BY TopIs
<1>3. m = stack[n] /\ \A i \in 1 .. n : stack[i] \in Modules
  BY <1>1, <1>2 DEF Last, CInv
<1> DEFINE T == {k \in Nat : 1 <= k /\ k <= n - 1 => m \in Reached(stack[n - k])}
<1>4. ASSUME NEW k \in Nat, \A j \in 0 .. k - 1 : j \in T PROVE k \in T
  <2> SUFFICES ASSUME 1 <= k, k <= n - 1 PROVE m \in Reached(stack[n - k])
    OBVIOUS
  <2>1. n - k \in 1 .. n - 1 /\ (n - k) + 1 \in 1 .. n /\ n - k \in 1 .. n
    BY <1>2
  <2>2. stack[(n - k) + 1] \in RefMods(stack[n - k])
    BY <1>2, <2>1 DEF PInv
  <2>3. stack[(n - k) + 1] \in Reached(stack[n - k])
    BY <1>3, <2>1, <2>2, ReachedIs
  <2>4. CASE k = 1
    <3>1. (n - k) + 1 = n
      BY <1>2, <2>4
    <3> QED
      BY <1>3, <2>3, <3>1
  <2>5. CASE k # 1
    <3>1. k - 1 \in 0 .. k - 1 /\ 1 <= k - 1 /\ k - 1 <= n - 1 /\ n - (k - 1) = (n - k) + 1
      BY <1>2, <2>5
    <3>2. m \in Reached(stack[n - (k - 1)])
      BY <1>4, <3>1
    <3>3. m \in Reached(stack[(n - k) + 1])
      BY <3>1, <3>2
    <3> QED
      BY <1>3, <2>1, <2>3, <3>3, ReachedIs
  <2> QED
    BY <2>4, <2>5
<1>5. T = Nat
  <2>1. T \in SUBSET Nat
    OBVIOUS
  <2> HIDE DEF T
  <2> QED
    BY <1>4, <2>1, StrongInduction
<1>6. PICK i \in 1 .. n : y = stack[i]
  BY <1>2 DEF On
<1>7. CASE i = n
  BY <1>1, <1>3, <1>6, <1>7
<1>8. CASE i # n
  <2>1. n - i \in Nat /\ 1 <= n - i /\ n - i <= n - 1 /\ n - (n - i) = i
    BY <1>2, <1>8
  <2>2. n - i \in T
    BY <1>5, <2>1
  <2>3. m \in Reached(stack[n - (n - i)])
    BY <2>1, <2>2
  <2> QED
    BY <1>1, <1>6, <2>1, <2>3
<1> QED
  BY <1>7, <1>8

(* When a module is renamed, those it leads to are, but for one on a cycle or *)
(* reached from one, which exports nothing that it imports.                  *)
LEMMA AheadIs ==
  ASSUME CInv, WInv, PInv, stage # "failed", stack # <<>>, Ready, ImportsNotExportedPastCycles,
         NEW m, m = Last(stack), NEW r \in Reached(m)
  PROVE  r \in Modules /\ (r \in Walked \/ \A z \in ToSet(prog.exports[r]) : ImportsOf(r, z.local) = {})
<1>1. m \in Modules
  BY TopIs
<1>2. r \in Modules
  BY <1>1, ReachedIs
<1>3. CASE m \in Reached(m)
  BY <1>1, <1>2, <1>3 DEF ImportsNotExportedPastCycles
<1>4. CASE m \notin Reached(m)
  <2> DEFINE Y == Walked \intersect Reached(m)
  <2>1. ASSUME NEW x \in visited, x \in Reached(m) PROVE x \in Y
    <3>1. x \in Modules
      BY <1>1, <2>1, ReachedIs
    <3>2. x \notin On(stack)
      <4>1. SUFFICES ASSUME x \in On(stack) PROVE FALSE
        OBVIOUS
      <4>2. x = m \/ m \in Reached(x)
        BY <4>1, LastReached
      <4>3. Reached(x) \subseteq Reached(m)
        BY <1>1, <2>1, ReachedIs
      <4> QED
        BY <1>4, <2>1, <4>2, <4>3
    <3> QED
      BY <2>1, <3>2 DEF Walked
  <2>2. RefMods(m) \subseteq visited /\ RefMods(m) \subseteq Reached(m)
    BY <1>1, ReachedIs DEF Ready
  <2>3. RefMods(m) \subseteq Y
    BY <2>1, <2>2
  <2>4. ASSUME NEW x \in Y PROVE RefMods(x) \subseteq Y
    <3>1. RefMods(x) \subseteq visited
      BY <2>4 DEF WInv
    <3>2. RefMods(x) \subseteq Reached(m)
      BY <1>1, <2>4, ReachedIs
    <3> QED
      BY <2>1, <3>1, <3>2
  <2>5. Reached(m) \subseteq Y
    <3> HIDE DEF Y
    <3> QED
      BY <1>1, <2>3, <2>4, ReachedIs
  <2> QED
    BY <1>2, <2>5
<1> QED
  BY <1>3, <1>4

(* The tables of exports have the modules. *)
IsTables(T) == IsSym(T) /\ DOMAIN T.local = Modules /\ DOMAIN T.index = Modules

(* What a change of names in module m does to its exports.                   *)
ExportsMoved(T, U, m, ren, hit) ==
  /\ \A k \in Modules \ {m} : U.local[k] = T.local[k] /\ U.index[k] = T.index[k]
  /\ DOMAIN U.local[m] = DOMAIN T.local[m]
  /\ \A e \in DOMAIN T.local[m] :
       U.local[m][e] = IF T.local[m][e] \in hit /\ T.index[m][T.local[m][e]] = e
                       THEN ren[T.local[m][e]] ELSE T.local[m][e]
  /\ DOMAIN U.index[m] = (DOMAIN T.index[m] \ hit) \union {ren[o] : o \in hit}
  /\ \A l \in DOMAIN U.index[m] :
       \/ \E o \in hit : ren[o] = l /\ U.index[m][l] = T.index[m][o]
       \/ (\A o \in hit : ren[o] # l) /\ U.index[m][l] = T.index[m][l]

(* BatchRenameSymbols of a module, field by field. *)
LEMMA ModuleRenames ==
  ASSUME NEW T, IsTables(T), NEW m \in Modules, NEW ren, NEW U, U = RenameInModule(T, m, ren)
  PROVE  /\ IsTables(U) /\ Changed(T, U, m, ren)
         /\ U.own[m] = T.own[m] \ Lost(T, m, ren)
         /\ ExportsMoved(T, U, m, ren, DOMAIN ren \intersect DOMAIN T.index[m])
<1>1. PICK n, o, l, x : T = [name |-> n, own |-> o, local |-> l, index |-> x]
  BY DEF IsTables, IsSym
<1>2. T.name = n /\ T.own = o /\ T.local = l /\ T.index = x
  BY <1>1
<1>3. m \in Scopes
  BY DEF Scopes
<1>4. DOMAIN o = Scopes /\ DOMAIN l = Modules /\ DOMAIN x = Modules
  BY <1>2 DEF IsTables, IsSym
<1>5. PICK hit : hit = DOMAIN ren \intersect DOMAIN T.index[m]
  OBVIOUS
<1>6. PICK M, K : M = Moved(T, m, ren) /\ K = T.own[m] \ Lost(T, m, ren)
  OBVIOUS
<1>7. PICK nn : nn = [v \in DOMAIN n |-> IF v \in M THEN ren[n[v]] ELSE n[v]]
  OBVIOUS
<1>8. RenameIn(T, m, ren) = [name |-> nn, own |-> [o EXCEPT ![m] = K], local |-> l, index |-> x]
  <2>1. RenameIn(T, m, ren) =
          [T EXCEPT !.name = [v \in DOMAIN T.name |-> IF v \in M THEN ren[T.name[v]] ELSE T.name[v]],
                    !.own[m] = K]
    BY <1>1, <1>6 DEF RenameIn
  <2>2. RenameIn(T, m, ren) = [T EXCEPT !.name = nn, !.own[m] = K]
    BY <1>2, <1>7, <2>1
  <2> QED
    BY <1>1, <2>2
<1>9. PICK ll : ll = [e \in DOMAIN l[m] |-> IF l[m][e] \in hit /\ x[m][l[m][e]] = e THEN ren[l[m][e]] ELSE l[m][e]]
  OBVIOUS
<1>10. PICK xx : xx = [k \in (DOMAIN x[m] \ hit) \union {ren[p] : p \in hit} |->
                         IF \E p \in hit : ren[p] = k THEN x[m][CHOOSE p \in hit : ren[p] = k] ELSE x[m][k]]
  OBVIOUS
<1>11. PICK R : R = RenameIn(T, m, ren)
  OBVIOUS
<1>12. R.local = l /\ R.index = x
  BY <1>8, <1>11
<1>13. U = [R EXCEPT !.local[m] = ll, !.index[m] = xx]
  <2>1. U = [R EXCEPT
          !.local[m] = [e \in DOMAIN @ |->
                          IF @[e] \in hit /\ T.index[m][@[e]] = e THEN ren[@[e]] ELSE @[e]],
          !.index[m] = [k \in (DOMAIN @ \ hit) \union {ren[p] : p \in hit} |->
                          IF \E p \in hit : ren[p] = k THEN @[CHOOSE p \in hit : ren[p] = k] ELSE @[k]]]
    BY <1>5, <1>11 DEF RenameInModule
  <2>2. U = [R EXCEPT
          !.local[m] = [e \in DOMAIN R.local[m] |->
                          IF R.local[m][e] \in hit /\ x[m][R.local[m][e]] = e THEN ren[R.local[m][e]] ELSE R.local[m][e]],
          !.index[m] = [k \in (DOMAIN R.index[m] \ hit) \union {ren[p] : p \in hit} |->
                          IF \E p \in hit : ren[p] = k THEN R.index[m][CHOOSE p \in hit : ren[p] = k] ELSE R.index[m][k]]]
    BY <1>2, <2>1
  <2> QED
    BY <1>9, <1>10, <1>12, <2>2
<1>14. U = [name |-> nn, own |-> [o EXCEPT ![m] = K], local |-> [l EXCEPT ![m] = ll], index |-> [x EXCEPT ![m] = xx]]
  <2>1. PICK ok : ok = [o EXCEPT ![m] = K]
    OBVIOUS
  <2>2. R = [name |-> nn, own |-> ok, local |-> l, index |-> x]
    BY <1>8, <1>11, <2>1
  <2>3. U = [name |-> nn, own |-> ok, local |-> [l EXCEPT ![m] = ll], index |-> [x EXCEPT ![m] = xx]]
    BY <1>13, <2>2, OtherFields
  <2> QED
    BY <2>1, <2>3
<1>15. /\ U.own[m] = K /\ U.local[m] = ll /\ U.index[m] = xx
       /\ DOMAIN U.local = Modules /\ DOMAIN U.index = Modules
       /\ \A k \in Modules \ {m} : U.local[k] = l[k] /\ U.index[k] = x[k]
  BY <1>3, <1>4, <1>14
<1>16. Changed(T, U, m, ren)
  BY <1>3, ScopeRenames DEF IsTables
<1>17. IsTables(U)
  BY <1>15, <1>16 DEF IsTables, Changed
<1>18. ExportsMoved(T, U, m, ren, hit)
  <2>1. /\ DOMAIN U.local[m] = DOMAIN T.local[m]
        /\ \A e \in DOMAIN T.local[m] :
             U.local[m][e] = IF T.local[m][e] \in hit /\ T.index[m][T.local[m][e]] = e
                             THEN ren[T.local[m][e]] ELSE T.local[m][e]
    BY <1>2, <1>9, <1>15
  <2>2. DOMAIN U.index[m] = (DOMAIN T.index[m] \ hit) \union {ren[p] : p \in hit}
    BY <1>2, <1>10, <1>15
  <2>3. ASSUME NEW k \in DOMAIN U.index[m]
        PROVE  \/ \E p \in hit : ren[p] = k /\ U.index[m][k] = T.index[m][p]
               \/ (\A p \in hit : ren[p] # k) /\ U.index[m][k] = T.index[m][k]
    <3>1. CASE \E p \in hit : ren[p] = k
      <4>1. PICK p : p = CHOOSE q \in hit : ren[q] = k
        OBVIOUS
      <4>2. p \in hit /\ ren[p] = k
        BY <3>1, <4>1
      <4>3. U.index[m][k] = x[m][CHOOSE q \in hit : ren[q] = k]
        BY <1>10, <1>15, <2>3, <3>1
      <4> QED
        BY <1>2, <4>1, <4>2, <4>3
    <3>2. CASE ~ \E p \in hit : ren[p] = k
      BY <1>2, <1>10, <1>15, <2>3, <3>2
    <3> QED
      BY <3>1, <3>2
  <2> QED
    BY <1>2, <1>15, <2>1, <2>2, <2>3 DEF ExportsMoved
<1> QED
  BY <1>5, <1>6, <1>15, <1>16, <1>17, <1>18

(* The variables of modules in tables T, and the imports that are still to be  *)
(* renamed to what they stand for.                                           *)
ModuleVars(T) == {v \in DOMAIN T.name : v[1] \in Modules}
Pending == {v \in ModuleVars(sym) : ~ Declared(v) /\ v[1] \notin Walked}

(* In the one scope, n is the name of the one variable in W: the declaration   *)
(* of a module or the import of a library.                                   *)
KnownAs(T, n, W) == \E w \in W :
  /\ W = {w}
  /\ \/ w \in ModuleVars(T) /\ Declared(w) /\ T.name[w] = n
     \/ [name |-> n, is |-> w] \in LibraryBindings

(* What holds of the tables T while the imports Q are pending and the getters  *)
(* G are made.  Every local export has the name of its variable;             *)
LExports(T) == \A m \in Modules :
  /\ DOMAIN T.local[m] = ExportNames(prog, m)
  /\ \A z \in ToSet(prog.exports[m]) :
       /\ VariableOf(m, z.local) \in DOMAIN T.name
       /\ T.local[m][z.export] = T.name[VariableOf(m, z.local)]

(* that of a pending import is found by its name;                            *)
LIndex(T, Q) == \A m \in Modules : \A z \in ToSet(prog.exports[m]) : VariableOf(m, z.local) \in Q =>
  /\ T.name[VariableOf(m, z.local)] \in DOMAIN T.index[m]
  /\ T.index[m][T.name[VariableOf(m, z.local)]] = z.export

(* variables with one name mean the same, and a pending import shares its     *)
(* name with none;                                                          *)
LNames(T, Q) ==
  /\ \A v, w \in ModuleVars(T) : T.name[v] = T.name[w] => VariableMeans(v) = VariableMeans(w)
  /\ \A u \in Q : u \in T.own[u[1]] /\ \A w \in ModuleVars(T) : T.name[w] = T.name[u] => w = u

(* what has the name of a library's binding stands for that, or was imported   *)
(* by the name that the binding has an alias for;                             *)
LLibs(T, Q) == \A v \in ModuleVars(T) : \A b \in LibraryBindings : T.name[v] = b.name =>
  /\ v \notin Q /\ ~ Declared(v)
  /\ b.is[2] \in {Star, DefaultName} => VariableMeans(v) = {b.is}
  /\ b.is[2] \notin {Star, DefaultName} => \A u \in Q : T.name[u] # b.is[2]

(* a variable that its scope has lost has the name of one that it has;        *)
LOwn(T) == \A v \in ModuleVars(T) : v \notin T.own[v[1]] => \E w \in T.own[v[1]] : T.name[w] = T.name[v]

(* what is not pending is known by its name, and so is what a getter returns.  *)
LKnown(T, Q) == \A v \in ModuleVars(T) \ Q :
  ~ ByName(VariableMeans(v)) => KnownAs(T, T.name[v], VariableMeans(v))
LGetters(T, G) == \A g \in G :
  ~ ByName(ExportMeans(g.of, g.export)) => KnownAs(T, g.name, ExportMeans(g.of, g.export))

Linked(T, Q, G) ==
  /\ IsTables(T)
  /\ LExports(T) /\ LIndex(T, Q) /\ LNames(T, Q) /\ LLibs(T, Q) /\ LOwn(T) /\ LKnown(T, Q) /\ LGetters(T, G)

(* A name that a pending import u can be given: nothing has it but what means  *)
(* the same, and it is known.                                                *)
Fits(T, Q, u, n) ==
  /\ \A w \in ModuleVars(T) \ {u} : T.name[w] = n => VariableMeans(w) = VariableMeans(u) /\ w \notin Q
  /\ ~ ByName(VariableMeans(u)) => KnownAs(T, n, VariableMeans(u))
  /\ \A b \in LibraryBindings : b.name = n =>
       /\ b.is[2] \in {Star, DefaultName} => VariableMeans(u) = {b.is}
       /\ b.is[2] \notin {Star, DefaultName} => \A q \in Q \ {u} : T.name[q] # b.is[2]

(* An import u of module m, renamed from now to n. *)
Gives(T, U, Q, u, n, m, now) ==
  /\ IsTables(T) /\ IsTables(U) /\ m \in Modules /\ Q \subseteq ModuleVars(T)
  /\ u \in Q /\ u[1] = m /\ u[2] \in Names /\ u = <<m, u[2]>> /\ ~ Declared(u) /\ now = T.name[u]
  /\ \A w \in ModuleVars(T) : T.name[w] = now => w = u
  /\ ModuleVars(U) = ModuleVars(T) /\ DOMAIN U.name = DOMAIN T.name
  /\ \A v \in DOMAIN T.name \ {u} : v[1] \in Modules => U.name[v] = T.name[v]
  /\ U.name[u] = n
  /\ \A k \in Modules \ {m} : U.own[k] = T.own[k]
  /\ U.own[m] = T.own[m] \ {v \in T.own[m] : T.name[v] # now /\ T.name[v] = n}
  /\ ExportsMoved(T, U, m, [o \in {now} |-> n], {now} \intersect DOMAIN T.index[m])

(* So it is renamed. *)
LEMMA RenamingGives ==
  ASSUME NEW T, NEW Q, NEW u \in Q, NEW n, NEW m \in Modules, NEW now, NEW U,
         IsTables(T), Q \subseteq ModuleVars(T), LNames(T, Q),
         u[1] = m, u[2] \in Names, u = <<m, u[2]>>, ~ Declared(u), now = T.name[u],
         U = RenameInModule(T, m, [o \in {now} |-> n])
  PROVE  Gives(T, U, Q, u, n, m, now)
<1>1. PICK ren : ren = [o \in {now} |-> n]
  OBVIOUS
<1>2. DOMAIN ren = {now} /\ ren[now] = n /\ Range(ren) = {n}
  BY <1>1 DEF Range
<1>3. /\ IsTables(U) /\ Changed(T, U, m, ren)
      /\ U.own[m] = T.own[m] \ Lost(T, m, ren)
      /\ ExportsMoved(T, U, m, ren, DOMAIN ren \intersect DOMAIN T.index[m])
  <2>1. U = RenameInModule(T, m, ren)
    BY <1>1
  <2> QED
    BY <2>1, ModuleRenames, ZenonT(40)
<1>4. m \in Scopes /\ u \in T.own[m] /\ \A w \in ModuleVars(T) : T.name[w] = now => w = u
  BY DEF LNames, Scopes
<1>5. \A v \in T.own[m] : v \in ModuleVars(T)
  BY <1>4 DEF IsTables, IsSym, ModuleVars
<1>6. Moved(T, m, ren) = {u}
  BY <1>2, <1>4, <1>5 DEF Moved
<1>7. DOMAIN U.name = DOMAIN T.name /\ \A v \in DOMAIN T.name :
        U.name[v] = IF v \in {u} THEN ren[T.name[v]] ELSE T.name[v]
  BY <1>3, <1>6 DEF Changed
<1>8. U.name[u] = n /\ \A v \in DOMAIN T.name \ {u} : U.name[v] = T.name[v]
  BY <1>2, <1>4, <1>7 DEF IsTables, IsSym
<1>9. Lost(T, m, ren) = {v \in T.own[m] : T.name[v] # now /\ T.name[v] = n}
  <2>1. \A v \in T.own[m] : v \notin Moved(T, m, ren) <=> T.name[v] # now
    BY <1>4, <1>5, <1>6
  <2> QED
    BY <1>2, <2>1 DEF Lost
<1>10. \A k \in Modules \ {m} : U.own[k] = T.own[k]
  BY <1>3 DEF Changed, Scopes
<1>11. ModuleVars(U) = ModuleVars(T)
  BY <1>7 DEF ModuleVars
<1> QED
  BY <1>1, <1>2, <1>3, <1>4, <1>7, <1>8, <1>9, <1>10, <1>11 DEF Gives

(* What is known stays known. *)
LEMMA KnownStays ==
  ASSUME NEW T, NEW U, NEW Q, NEW u, NEW n, NEW m, NEW now, Gives(T, U, Q, u, n, m, now),
         NEW x, NEW W, KnownAs(T, x, W)
  PROVE  KnownAs(U, x, W)
<1>1. PICK w \in W :
        /\ W = {w}
        /\ \/ w \in ModuleVars(T) /\ Declared(w) /\ T.name[w] = x
           \/ [name |-> x, is |-> w] \in LibraryBindings
  BY DEF KnownAs
<1>2. CASE w \in ModuleVars(T) /\ Declared(w) /\ T.name[w] = x
  <2>1. w # u /\ w \in ModuleVars(U) /\ U.name[w] = T.name[w]
    BY <1>2 DEF Gives, ModuleVars
  <2> QED
    BY <1>1, <1>2, <2>1 DEF KnownAs
<1>3. CASE [name |-> x, is |-> w] \in LibraryBindings
  BY <1>1, <1>3 DEF KnownAs
<1> QED
  BY <1>1, <1>2, <1>3

(* The variable of a local export of m is the import exactly when it is what   *)
(* the export names.                                                        *)
LEMMA VariableIs ==
  ASSUME NEW m \in Modules, NEW k \in Modules, NEW l \in Names \union {Unnamed}, NEW u, u = <<m, u[2]>>, u[2] \in Names
  PROVE  /\ VariableOf(k, l) = u <=> k = m /\ l = u[2]
         /\ VariableOf(k, l)[1] = k
BY LinkerAssumption DEF VariableOf

(* Renamed to a name that fits, an import is pending no more. *)
LEMMA RenamedKeeps ==
  ASSUME CInv, NEW T, NEW U, NEW Q, NEW u, NEW n, NEW m, NEW now, Gives(T, U, Q, u, n, m, now),
         NEW G, Linked(T, Q, G), Fits(T, Q, u, n)
  PROVE  Linked(U, Q \ {u}, G)
<1>1. /\ m \in Modules /\ u \in Q /\ u = <<m, u[2]>> /\ u[2] \in Names /\ now = T.name[u] /\ ~ Declared(u)
      /\ Q \subseteq ModuleVars(T) /\ ModuleVars(U) = ModuleVars(T) /\ DOMAIN U.name = DOMAIN T.name
      /\ U.name[u] = n /\ \A w \in ModuleVars(T) : T.name[w] = now => w = u
  BY DEF Gives
<1>2. \A v \in ModuleVars(T) \ {u} : U.name[v] = T.name[v]
  BY DEF Gives, ModuleVars
<1>3. PICK hit, ren : hit = {now} \intersect DOMAIN T.index[m] /\ ren = [o \in {now} |-> n]
  OBVIOUS
<1>4. /\ \A k \in Modules \ {m} : U.local[k] = T.local[k] /\ U.index[k] = T.index[k]
      /\ DOMAIN U.local[m] = DOMAIN T.local[m]
      /\ \A e \in DOMAIN T.local[m] :
           U.local[m][e] = IF T.local[m][e] \in hit /\ T.index[m][T.local[m][e]] = e
                           THEN ren[T.local[m][e]] ELSE T.local[m][e]
      /\ DOMAIN U.index[m] = (DOMAIN T.index[m] \ hit) \union {ren[o] : o \in hit}
      /\ \A l \in DOMAIN U.index[m] :
           \/ \E o \in hit : ren[o] = l /\ U.index[m][l] = T.index[m][o]
           \/ (\A o \in hit : ren[o] # l) /\ U.index[m][l] = T.index[m][l]
  <2>1. ExportsMoved(T, U, m, ren, hit)
    BY <1>3 DEF Gives
  <2> QED
    BY <2>1 DEF ExportsMoved
<1>5. ren[now] = n
  BY <1>3
<1>6. \A k \in Modules : \A z \in ToSet(prog.exports[k]) :
        /\ z.export \in DOMAIN T.local[k]
        /\ VariableOf(k, z.local) \in ModuleVars(T) /\ T.local[k][z.export] = T.name[VariableOf(k, z.local)]
        /\ VariableOf(k, z.local) = u => k = m
        /\ VariableOf(k, z.local)[1] = k
  <2>1. ASSUME NEW k \in Modules, NEW z \in ToSet(prog.exports[k])
        PROVE /\ z.export \in DOMAIN T.local[k]
              /\ VariableOf(k, z.local) \in ModuleVars(T) /\ T.local[k][z.export] = T.name[VariableOf(k, z.local)]
              /\ VariableOf(k, z.local) = u => k = m
              /\ VariableOf(k, z.local)[1] = k
    <3>1. z.local \in Names \union {Unnamed}
      BY <2>1, ListsAre
    <3>2. (VariableOf(k, z.local) = u => k = m) /\ VariableOf(k, z.local)[1] = k
      BY <1>1, <2>1, <3>1, VariableIs
    <3>3. /\ z.export \in DOMAIN T.local[k]
          /\ VariableOf(k, z.local) \in DOMAIN T.name /\ T.local[k][z.export] = T.name[VariableOf(k, z.local)]
      BY <2>1 DEF Linked, LExports, ExportNames
    <3> QED
      BY <2>1, <3>2, <3>3 DEF ModuleVars
  <2> QED
    BY <2>1
<1>7. LExports(U)
  <2>1. ASSUME NEW k \in Modules PROVE DOMAIN U.local[k] = ExportNames(prog, k)
    BY <1>4, <2>1 DEF Linked, LExports
  <2>2. ASSUME NEW k \in Modules, NEW z \in ToSet(prog.exports[k])
        PROVE  U.local[k][z.export] = U.name[VariableOf(k, z.local)]
    <3>1. PICK w, e : w = VariableOf(k, z.local) /\ e = z.export
      OBVIOUS
    <3>2. e \in DOMAIN T.local[k] /\ w \in ModuleVars(T) /\ T.local[k][e] = T.name[w] /\ (w = u => k = m)
      BY <1>6, <2>2, <3>1
    <3>3. CASE w = u
      <4>1. k = m /\ T.local[m][e] = now
        BY <1>1, <3>2, <3>3
      <4>2. now \in DOMAIN T.index[m] /\ T.index[m][now] = e
        BY <1>1, <2>2, <3>1, <3>3, <4>1, ZenonT(40) DEF Linked, LIndex
      <4>3. U.local[m][e] = ren[now]
        BY <1>3, <1>4, <3>2, <4>1, <4>2
      <4> QED
        BY <1>1, <1>5, <3>1, <3>3, <4>1, <4>3
    <3>4. CASE w # u
      <4>1. T.name[w] # now /\ U.name[w] = T.name[w]
        BY <1>1, <1>2, <3>2, <3>4
      <4>2. U.local[k][e] = T.local[k][e]
        BY <1>3, <1>4, <3>2, <4>1
      <4> QED
        BY <3>1, <3>2, <4>1, <4>2
    <3> QED
      BY <3>3, <3>4
  <2>3. \A k \in Modules : \A z \in ToSet(prog.exports[k]) : VariableOf(k, z.local) \in DOMAIN U.name
    BY <1>1, <1>6 DEF ModuleVars
  <2> QED
    BY <2>1, <2>2, <2>3 DEF LExports
<1>8. \A q \in Q \ {u} : q \in ModuleVars(T) /\ U.name[q] = T.name[q] /\ T.name[q] # n /\ T.name[q] # now
  BY <1>1, <1>2 DEF Fits
<1>9. LIndex(U, Q \ {u})
  <2> SUFFICES ASSUME NEW k \in Modules, NEW z \in ToSet(prog.exports[k]), VariableOf(k, z.local) \in Q \ {u}
               PROVE  /\ U.name[VariableOf(k, z.local)] \in DOMAIN U.index[k]
                      /\ U.index[k][U.name[VariableOf(k, z.local)]] = z.export
    BY DEF LIndex
  <2>1. PICK x : x = U.name[VariableOf(k, z.local)]
    OBVIOUS
  <2>2. x = T.name[VariableOf(k, z.local)] /\ x # n /\ x # now
    BY <1>8, <2>1
  <2>3. x \in DOMAIN T.index[k] /\ T.index[k][x] = z.export
    BY <2>2 DEF Linked, LIndex
  <2>4. CASE k = m
    <3>1. x \in DOMAIN U.index[m]
      BY <1>3, <1>4, <2>2, <2>3, <2>4
    <3>2. \A o \in hit : ren[o] # x
      BY <1>3, <1>5, <2>2
    <3>3. U.index[m][x] = T.index[m][x]
      BY <1>4, <3>1, <3>2
    <3> QED
      BY <2>1, <2>3, <2>4, <3>1, <3>3
  <2>5. CASE k # m
    BY <1>4, <2>1, <2>3, <2>5
  <2> QED
    BY <2>4, <2>5
<1>10. LNames(U, Q \ {u})
  <2>1. ASSUME NEW v \in ModuleVars(U), NEW w \in ModuleVars(U), U.name[v] = U.name[w]
        PROVE  VariableMeans(v) = VariableMeans(w)
    BY <1>1, <1>2, <2>1 DEF Linked, LNames, Fits
  <2>2. ASSUME NEW q \in Q \ {u} PROVE q \in U.own[q[1]]
    <3>1. q \in T.own[q[1]] /\ q[1] \in Modules
      BY <1>8, <2>2 DEF Linked, LNames, ModuleVars
    <3> QED
      BY <1>8, <2>2, <3>1 DEF Gives
  <2>3. ASSUME NEW q \in Q \ {u}, NEW w \in ModuleVars(U), U.name[w] = U.name[q] PROVE w = q
    <3>1. w # u
      BY <1>1, <1>8, <2>3
    <3>2. T.name[w] = T.name[q]
      BY <1>1, <1>2, <1>8, <2>3, <3>1
    <3> QED
      BY <1>1, <2>3, <3>2 DEF Linked, LNames
  <2> QED
    BY <2>1, <2>2, <2>3 DEF LNames
<1>11. LLibs(U, Q \ {u})
  <2> SUFFICES ASSUME NEW v \in ModuleVars(U), NEW b \in LibraryBindings, U.name[v] = b.name
               PROVE  /\ v \notin Q \ {u} /\ ~ Declared(v)
                      /\ b.is[2] \in {Star, DefaultName} => VariableMeans(v) = {b.is}
                      /\ b.is[2] \notin {Star, DefaultName} => \A q \in Q \ {u} : U.name[q] # b.is[2]
    BY DEF LLibs
  <2>1. CASE v = u
    BY <1>1, <1>8, <2>1 DEF Fits
  <2>2. CASE v # u
    <3>1. T.name[v] = b.name /\ v \in ModuleVars(T)
      BY <1>1, <1>2, <2>2
    <3> QED
      BY <1>8, <3>1 DEF Linked, LLibs
  <2> QED
    BY <2>1, <2>2
<1>12. LOwn(U)
  <2> SUFFICES ASSUME NEW v \in ModuleVars(U), v \notin U.own[v[1]]
               PROVE  \E w \in U.own[v[1]] : U.name[w] = U.name[v]
    BY DEF LOwn
  <2>1. v \in ModuleVars(T) /\ v[1] \in Modules /\ v[1] \in Scopes
    BY <1>1 DEF ModuleVars, Scopes
  <2>2. \A w \in T.own[v[1]] : w \in ModuleVars(T) /\ w[1] = v[1]
    BY <2>1 DEF Linked, IsTables, IsSym, ModuleVars
  <2>3. CASE v[1] # m
    <3>1. U.own[v[1]] = T.own[v[1]]
      BY <2>1, <2>3 DEF Gives
    <3>2. PICK w \in T.own[v[1]] : T.name[w] = T.name[v]
      BY <2>1, <3>1 DEF Linked, LOwn
    <3>3. w # u /\ v # u
      BY <1>1, <2>2, <2>3
    <3>4. U.name[w] = U.name[v]
      BY <1>2, <2>1, <2>2, <3>2, <3>3
    <3> QED
      BY <3>1, <3>4
  <2>4. CASE v[1] = m
    <3>1. u \in T.own[m] /\ u \in U.own[m]
      <4>1. u \in T.own[u[1]] /\ u[1] = m
        BY <1>1 DEF Linked, LNames
      <4> QED
        BY <1>1, <4>1 DEF Gives
    <3>2. v # u
      BY <2>4, <3>1
    <3>3. \A w \in T.own[m] : w \in U.own[m] \/ (w # u /\ T.name[w] = n)
      BY <1>1 DEF Gives
    <3>4. PICK w \in T.own[m] : T.name[w] = T.name[v]
      BY <2>1, <2>4 DEF Linked, LOwn
    <3>5. w # u
      BY <1>1, <2>1, <3>2, <3>4
    <3>6. U.name[w] = U.name[v] /\ U.name[v] = T.name[v]
      BY <1>2, <2>1, <2>2, <2>4, <3>2, <3>4, <3>5
    <3>7. CASE w \in U.own[m]
      BY <2>4, <3>6, <3>7
    <3>8. CASE w \notin U.own[m]
      BY <1>1, <2>4, <3>1, <3>3, <3>4, <3>6, <3>8
    <3> QED
      BY <3>7, <3>8
  <2> QED
    BY <2>3, <2>4
<1>13. LKnown(U, Q \ {u})
  <2> SUFFICES ASSUME NEW v \in ModuleVars(U) \ (Q \ {u}), ~ ByName(VariableMeans(v))
               PROVE  KnownAs(U, U.name[v], VariableMeans(v))
    BY DEF LKnown
  <2>1. CASE v = u
    <3>1. KnownAs(T, n, VariableMeans(u))
      BY <2>1 DEF Fits
    <3> QED
      BY <1>1, <2>1, <3>1, KnownStays
  <2>2. CASE v # u
    <3>1. KnownAs(T, T.name[v], VariableMeans(v))
      BY <1>1, <2>2 DEF Linked, LKnown
    <3>2. U.name[v] = T.name[v]
      BY <1>1, <1>2, <2>2
    <3> QED
      BY <3>1, <3>2, KnownStays
  <2> QED
    BY <2>1, <2>2
<1>14. LGetters(U, G)
  BY KnownStays DEF Linked, LGetters
<1>15. IsTables(U)
  BY DEF Gives
<1> QED
  BY <1>7, <1>9, <1>10, <1>11, <1>12, <1>13, <1>14, <1>15 DEF Linked

(* The info of library l has a name for its namespace and its default where a  *)
(* module imports them, and an alias only for a name that is imported.        *)
Held(l) ==
  /\ external[l].names \in Seq(Names) /\ DOMAIN external[l].alias \subseteq ToSet(external[l].names)
  /\ \A k \in Modules : \A i \in ToSet(prog.imports[k]) : i.from = l =>
       /\ i.source = Star => external[l].ns # Unnamed
       /\ i.source = DefaultName => external[l].default # Unnamed

(* It is m's turn to have its imports replaced. *)
Turn(m) ==
  /\ CInv /\ WInv /\ PInv /\ MInv /\ LinksKeepable
  /\ stage = "imports" /\ stack # <<>> /\ Ready /\ m = Last(stack)
  /\ LExports(sym) /\ IsTables(sym)
  /\ \A l \in Libraries : Held(l)
  /\ \A b, c \in LibraryBindings : b.name = c.name => b = c

(* The import k of m, to be replaced in the tables T. *)
Import(m, k, i, u, T, Q, G) ==
  /\ Turn(m) /\ m \in Modules /\ k \in 1 .. Len(prog.imports[m]) /\ i = prog.imports[m][k] /\ u = <<m, i.local>>
  /\ Q = Pending \ Gone(m, k - 1) /\ ModuleVars(T) = ModuleVars(sym) /\ Linked(T, Q, G)

(* What it is. *)
LEMMA ImportIs ==
  ASSUME NEW m, NEW k, NEW i, NEW u, NEW T, NEW Q, NEW G, Import(m, k, i, u, T, Q, G)
  PROVE  /\ i \in ToSet(prog.imports[m]) /\ i.from \in Modules \union Libraries
         /\ u \in ModuleVars(T) /\ u[1] = m /\ u[2] = i.local /\ u[2] \in Names /\ ImportsOf(m, i.local) = {i}
         /\ IsNamespace(i) => Pending \ Gone(m, k) = Q
         /\ ~ IsNamespace(i) => /\ Pending \ Gone(m, k) = Q \ {u} /\ u \in Q /\ ~ Declared(u)
                                /\ u \in T.own[m] /\ Owned(T, m, T.name[u])
                                /\ VariableMeans(u) = ImportMeans(m, i)
         /\ Q \subseteq ModuleVars(T)
         /\ \A w \in Q : \A v \in ModuleVars(T) : T.name[v] = T.name[w] => v = w
<1>1. CInv /\ WInv /\ m \in Modules /\ m \notin Walked /\ m \in Scopes
  <2>1. CInv /\ WInv /\ stack # <<>> /\ m = Last(stack)
    BY DEF Import, Turn
  <2>2. m \in On(stack)
    BY <2>1, OnPopped DEF CInv, WInv
  <2> QED
    BY <2>1, <2>2 DEF Import, Walked, Scopes
<1>2. PICK n \in Nat : n = Len(prog.imports[m]) /\ DOMAIN prog.imports[m] = 1 .. n
  <2>1. prog.imports[m] \in Seq([from : Modules \union Libraries, source : Exportable \union {Star}, local : Names])
    BY <1>1, ProgramIs DEF IsProgram
  <2> QED
    BY <2>1
<1>3. k \in 1 .. n /\ i = prog.imports[m][k] /\ u = <<m, i.local>> /\ u[1] = m /\ u[2] = i.local
  BY <1>2 DEF Import
<1>4. i \in ToSet(prog.imports[m])
  BY <1>2, <1>3 DEF ToSet
<1>5. i.from \in Modules \union Libraries /\ i.local \in Names /\ i.local \in prog.owns[m]
  BY <1>1, <1>4, ListsAre
<1>6. ImportsOf(m, i.local) = {i}
  BY <1>1, <1>4, ListsAre DEF ImportsOf
<1>7. u \in ModuleVars(T)
  BY <1>1, <1>3, <1>5 DEF Import, Turn, IsTables, IsSym, ModuleVars, OwnVars
<1>8. Q \subseteq ModuleVars(T)
  BY DEF Import, Pending
<1>9. \A w \in Q : w \in T.own[w[1]] /\ \A v \in ModuleVars(T) : T.name[v] = T.name[w] => v = w
  BY DEF Import, Linked, LNames
<1>10. Gone(m, k) = IF IsNamespace(i) THEN Gone(m, k - 1) ELSE Gone(m, k - 1) \union {u}
  <2>1. \A j \in 1 .. k : j \in 1 .. k - 1 \/ j = k
    BY <1>3
  <2>2. \A j \in 1 .. k - 1 : j \in 1 .. k
    BY <1>3
  <2>3. k \in 1 .. k
    BY <1>3
  <2>4. CASE IsNamespace(i)
    BY <1>3, <2>1, <2>2, <2>4 DEF Gone
  <2>5. CASE ~ IsNamespace(i)
    BY <1>3, <2>1, <2>2, <2>3, <2>5 DEF Gone
  <2> QED
    BY <2>4, <2>5
<1>11. ASSUME ~ IsNamespace(i)
       PROVE  u \in Q /\ ~ Declared(u) /\ VariableMeans(u) = ImportMeans(m, i)
  <2>1. ~ Declared(u)
    BY <1>1, <1>3, <1>6, <1>11 DEF Declared
  <2>2. u \notin Gone(m, k - 1)
    <3> SUFFICES ASSUME NEW j \in 1 .. k - 1, u = <<m, prog.imports[m][j].local>> PROVE FALSE
      BY DEF Gone
    <3>1. j \in 1 .. n /\ j # k
      BY <1>3
    <3>2. prog.imports[m][j].local = i.local
      BY <1>3
    <3>3. IsProgram(prog)
      BY <1>1, ProgramIs
    <3>4. \A a, b \in DOMAIN prog.imports[m] : prog.imports[m][a].local = prog.imports[m][b].local => a = b
      BY <1>1, <3>3 DEF IsProgram
    <3> QED
      BY <1>2, <1>3, <3>1, <3>2, <3>4
  <2>3. u \in Pending
    BY <1>1, <1>3, <1>7, <2>1 DEF Import, Pending
  <2>4. VariableMeans(u) = ImportMeans(m, i)
    BY <1>1, <1>3, <1>6 DEF VariableMeans
  <2> QED
    BY <2>1, <2>2, <2>3, <2>4 DEF Import
<1>12. ASSUME ~ IsNamespace(i) PROVE u \in T.own[m] /\ Owned(T, m, T.name[u])
  BY <1>3, <1>9, <1>11, <1>12 DEF Owned
<1>13. Q = Pending \ Gone(m, k - 1)
  BY DEF Import
<1> QED
  BY <1>3, <1>4, <1>5, <1>6, <1>7, <1>8, <1>9, <1>10, <1>11, <1>12, <1>13

(* What an import declaration reaches is pending no more, or never was.        *)
LEMMA AheadSettled ==
  ASSUME NEW m, Turn(m), NEW r \in Reached(m), NEW z \in ToSet(prog.exports[r])
  PROVE  r \in Modules /\ VariableOf(r, z.local) \notin Pending
<1>1. /\ CInv /\ WInv /\ PInv /\ stage # "failed" /\ stack # <<>> /\ Ready /\ m = Last(stack)
      /\ ImportsNotExportedPastCycles /\ Accepted
  BY DEF Turn, LinksKeepable
<1>2. r \in Modules /\ (r \in Walked \/ ImportsOf(r, z.local) = {})
  BY <1>1, AheadIs
<1>3. PICK t : t = VariableOf(r, z.local)
  OBVIOUS
<1>4. t[1] = r
  BY <1>3 DEF VariableOf
<1>5. CASE r \in Walked
  BY <1>2, <1>3, <1>4, <1>5 DEF Pending
<1>6. CASE ImportsOf(r, z.local) = {}
  <2>1. ImportsOf(r, DefaultVar) = {}
    BY <1>1, <1>2, LocalsAre
  <2>2. ImportsOf(t[1], t[2]) = {}
    BY <1>3, <1>6, <2>1 DEF VariableOf
  <2>3. Declared(t)
    BY <2>2 DEF Declared
  <2> QED
    BY <1>2, <1>3, <2>3 DEF Pending
<1> QED
  BY <1>2, <1>5, <1>6

(* The name of what an import declaration finds fits. *)
LEMMA ModuleFits ==
  ASSUME NEW m, NEW k, NEW i, NEW u, NEW T, NEW Q, NEW G, Import(m, k, i, u, T, Q, G),
         ~ IsNamespace(i), i.from \in Modules,
         NEW found, found = FindLocalExport(i.from, i.source), found # NotFound
  PROVE  Fits(T, Q, u, T.local[found[1]][found[2]])
<1>1. Turn(m) /\ m \in Modules /\ CInv /\ MInv /\ LinksKeepable /\ TablesTyped /\ Linked(T, Q, G)
  BY DEF Import, Turn, LExports, TablesTyped
<1>2. i \in ToSet(prog.imports[m]) /\ VariableMeans(u) = ImportMeans(m, i) /\ Q \subseteq Pending
  <2>1. i \in ToSet(prog.imports[m]) /\ VariableMeans(u) = ImportMeans(m, i)
    BY ImportIs
  <2>2. Q \subseteq Pending
    BY DEF Import
  <2> QED
    BY <2>1, <2>2
<1>3. \E r \in Reached(m) : \E z \in ToSet(prog.exports[r]) :
           /\ found = <<r, z.export>>
           /\ VariableMeans(VariableOf(r, z.local)) = ImportMeans(m, i)
  BY <1>1, <1>2, FoundMeans
<1>4. PICK r \in Reached(m) : \E z \in ToSet(prog.exports[r]) :
           /\ found = <<r, z.export>>
           /\ VariableMeans(VariableOf(r, z.local)) = ImportMeans(m, i)
  BY <1>3
<1>5. PICK z \in ToSet(prog.exports[r]) :
           /\ found = <<r, z.export>>
           /\ VariableMeans(VariableOf(r, z.local)) = ImportMeans(m, i)
  BY <1>4
<1>6. PICK t : t = VariableOf(r, z.local)
  OBVIOUS
<1>7. r \in Modules /\ t \notin Pending /\ t[1] = r
  BY <1>1, <1>6, AheadSettled DEF VariableOf
<1>8. PICK n : n = T.local[found[1]][found[2]]
  OBVIOUS
<1>9. t \in ModuleVars(T) /\ n = T.name[t]
  BY <1>1, <1>5, <1>6, <1>7, <1>8 DEF Linked, LExports, ModuleVars
<1>10. VariableMeans(t) = VariableMeans(u) /\ t \notin Q
  BY <1>2, <1>5, <1>6, <1>7
<1>11. \A w \in ModuleVars(T) \ {u} : T.name[w] = n => VariableMeans(w) = VariableMeans(u) /\ w \notin Q
  BY <1>1, <1>9, <1>10 DEF Linked, LNames
<1>12. ~ ByName(VariableMeans(u)) => KnownAs(T, n, VariableMeans(u))
  BY <1>1, <1>9, <1>10 DEF Linked, LKnown
<1>13. \A b \in LibraryBindings : b.name = n =>
         /\ b.is[2] \in {Star, DefaultName} => VariableMeans(u) = {b.is}
         /\ b.is[2] \notin {Star, DefaultName} => \A q \in Q \ {u} : T.name[q] # b.is[2]
  BY <1>1, <1>9, <1>10 DEF Linked, LLibs
<1> QED
  BY <1>8, <1>11, <1>12, <1>13 DEF Fits

(* A binding of a library. *)
LEMMA BindingIs ==
  ASSUME NEW l \in Libraries
  PROVE  /\ external[l].ns # Unnamed => [name |-> external[l].ns, is |-> <<l, Star>>] \in LibraryBindings
         /\ external[l].default # Unnamed => [name |-> external[l].default, is |-> <<l, DefaultName>>] \in LibraryBindings
         /\ \A n \in ToSet(external[l].names) :
              [name |-> IF n \in DOMAIN external[l].alias THEN external[l].alias[n] ELSE n, is |-> <<l, n>>] \in LibraryBindings
<1>1. PICK info : info = external[l]
  OBVIOUS
<1>2. BindingsOf(l, info) \subseteq LibraryBindings
  BY <1>1, ExternalBindingsAre DEF LibraryBindings
<1>3. info.ns # Unnamed => [name |-> info.ns, is |-> <<l, Star>>] \in BindingsOf(l, info)
  <2>1. info.ns # Unnamed => info.ns \in ToSet(Named(info.ns))
    BY DEF Named, ToSet
  <2> QED
    BY <2>1 DEF BindingsOf
<1>4. info.default # Unnamed => [name |-> info.default, is |-> <<l, DefaultName>>] \in BindingsOf(l, info)
  <2>1. info.default # Unnamed => info.default \in ToSet(Named(info.default))
    BY DEF Named, ToSet
  <2> QED
    BY <2>1 DEF BindingsOf
<1>5. \A n \in ToSet(info.names) :
        [name |-> IF n \in DOMAIN info.alias THEN info.alias[n] ELSE n, is |-> <<l, n>>] \in BindingsOf(l, info)
  BY DEF BindingsOf
<1> QED
  BY <1>1, <1>2, <1>3, <1>4, <1>5

(* The one name of a library's namespace or default fits, *)
LEMMA WholeFits ==
  ASSUME NEW m, NEW k, NEW i, NEW u, NEW T, NEW Q, NEW G, Import(m, k, i, u, T, Q, G),
         i.from \in Libraries, NEW x \in {Star, DefaultName}, i.source = x,
         NEW n, NEW b \in LibraryBindings, b.name = n, b.is = <<i.from, x>>
  PROVE  Fits(T, Q, u, n)
<1>1. Linked(T, Q, G) /\ b.is[2] = x /\ \A c \in LibraryBindings : c.name = n => c = b
  BY DEF Import, Turn
<1>2. ~ IsNamespace(i)
  BY LinkerAssumption DEF IsNamespace
<1>3. VariableMeans(u) = {b.is}
  BY <1>2, ImportIs DEF ImportMeans
<1>4. \A w \in ModuleVars(T) \ {u} : T.name[w] = n => VariableMeans(w) = VariableMeans(u) /\ w \notin Q
  BY <1>1, <1>3 DEF Linked, LLibs
<1>5. KnownAs(T, n, VariableMeans(u))
  <2>1. PICK w : w = b.is
    OBVIOUS
  <2>2. [name |-> n, is |-> w] = b
    BY <2>1 DEF LibraryBindings, ExternalBindings
  <2> QED
    BY <1>3, <2>1, <2>2 DEF KnownAs
<1>6. \A c \in LibraryBindings : c.name = n =>
         /\ c.is[2] \in {Star, DefaultName} => VariableMeans(u) = {c.is}
         /\ c.is[2] \notin {Star, DefaultName} => \A q \in Q \ {u} : T.name[q] # c.is[2]
  BY <1>1, <1>3
<1> QED
  BY <1>4, <1>5, <1>6 DEF Fits

(* and so does what an import by name is given. *)
LEMMA AliasFits ==
  ASSUME NEW m, NEW k, NEW i, NEW u, NEW T, NEW Q, NEW G, Import(m, k, i, u, T, Q, G),
         i.from \in Libraries, i.source \notin {Star, DefaultName}, NEW now, now = T.name[u], NEW n,
         n = IF now \in DOMAIN external[i.from].alias THEN external[i.from].alias[now] ELSE now
  PROVE  Fits(T, Q, u, n)
<1>1. /\ Linked(T, Q, G) /\ Held(i.from)
      /\ \A b, c \in LibraryBindings : c.name = b.name => c = b
  BY DEF Import, Turn
<1>2. ~ IsNamespace(i)
  BY LinkerAssumption DEF IsNamespace
<1>3. u \in Q /\ u \in ModuleVars(T) /\ \A v \in ModuleVars(T) : T.name[v] = now => v = u
  BY <1>2, ImportIs
<1>4. ByName(VariableMeans(u))
  <2>1. VariableMeans(u) = ImportMeans(m, i)
    BY <1>2, ImportIs
  <2>2. ImportMeans(m, i) = {<<i.from, i.source>>}
    BY <1>2 DEF ImportMeans
  <2> QED
    BY <2>1, <2>2 DEF ByName
<1>5. CASE now \in DOMAIN external[i.from].alias
  <2>1. now \in ToSet(external[i.from].names) /\ now \in Names
    BY <1>1, <1>5, ElementsOf DEF Held
  <2>2. PICK b \in LibraryBindings : b = [name |-> n, is |-> <<i.from, now>>]
    BY <1>5, <2>1, BindingIs
  <2>3. b.name = n /\ b.is[2] = now /\ now \notin {Star, DefaultName}
    BY <2>1, <2>2, LinkerAssumption
  <2>4. \A w \in ModuleVars(T) : T.name[w] # n
    BY <1>1, <1>3, <2>3 DEF Linked, LLibs
  <2>5. \A c \in LibraryBindings : c.name = n => c = b
    BY <1>1, <2>3
  <2>6. \A q \in Q \ {u} : T.name[q] # now
    BY <1>1, <1>3 DEF Linked, LNames
  <2> QED
    BY <1>4, <2>3, <2>4, <2>5, <2>6 DEF Fits
<1>6. CASE now \notin DOMAIN external[i.from].alias
  <2>1. n = now
    BY <1>6
  <2>2. \A b \in LibraryBindings : b.name # now
    BY <1>1, <1>3 DEF Linked, LLibs
  <2> QED
    BY <1>3, <1>4, <2>1, <2>2 DEF Fits
<1> QED
  BY <1>5, <1>6

(* The name an import of a library is given fits. *)
LEMMA LibraryFits ==
  ASSUME NEW m, NEW k, NEW i, NEW u, NEW T, NEW Q, NEW G, Import(m, k, i, u, T, Q, G), i.from \in Libraries
  PROVE  Fits(T, Q, u, ExternalName(T, m, i))
<1>1. i \in ToSet(prog.imports[m]) /\ Held(i.from) /\ u = <<m, i.local>> /\ m \in Modules
  <2>1. i \in ToSet(prog.imports[m])
    BY ImportIs
  <2>2. Held(i.from) /\ u = <<m, i.local>> /\ m \in Modules
    BY DEF Import, Turn
  <2> QED
    BY <2>1, <2>2
<1>2. Star # DefaultName
  BY DEF Star, DefaultName
<1>3. CASE i.source = Star
  <2>1. ExternalName(T, m, i) = external[i.from].ns
    BY <1>2, <1>3 DEF ExternalName
  <2>2. PICK b \in LibraryBindings : b = [name |-> external[i.from].ns, is |-> <<i.from, Star>>]
    BY <1>1, <1>3, BindingIs DEF Held
  <2> QED
    BY <1>3, <2>1, <2>2, WholeFits
<1>4. CASE i.source = DefaultName
  <2>1. ExternalName(T, m, i) = external[i.from].default
    BY <1>2, <1>4 DEF ExternalName
  <2>2. PICK b \in LibraryBindings : b = [name |-> external[i.from].default, is |-> <<i.from, DefaultName>>]
    BY <1>1, <1>4, BindingIs DEF Held
  <2> QED
    BY <1>4, <2>1, <2>2, WholeFits
<1>5. CASE i.source \notin {Star, DefaultName}
  <2>1. PICK now, n : now = T.name[u] /\ n = IF now \in DOMAIN external[i.from].alias THEN external[i.from].alias[now] ELSE now
    OBVIOUS
  <2>2. ExternalName(T, m, i) = n
    BY <1>1, <1>5, <2>1 DEF ExternalName
  <2> QED
    BY <1>5, <2>1, <2>2, AliasFits
<1> QED
  BY <1>3, <1>4, <1>5

(* What GenAst... is given for the namespace of a module. *)
ExposedBy(T, f) == {[of |-> f, export |-> e, name |-> T.local[f][e]] : e \in DOMAIN T.local[f]}

(* The getters of a namespace return what the module exports. *)
LEMMA ExposedKeeps ==
  ASSUME NEW m, NEW k, NEW i, NEW u, NEW T, NEW Q, NEW G, Import(m, k, i, u, T, Q, G), IsNamespace(i)
  PROVE  Linked(T, Q, G \union ExposedBy(T, i.from))
<1>1. Turn(m) /\ CInv /\ Accepted /\ m \in Modules /\ Linked(T, Q, G) /\ Q \subseteq Pending
  BY DEF Import, Turn, LinksKeepable
<1>2. PICK f \in Modules : f = i.from
  BY DEF IsNamespace
<1>3. f \in Reached(m)
  <2>1. i \in ToSet(prog.imports[m])
    BY ImportIs
  <2>2. f \in RefMods(m)
    BY <1>1, <1>2, <2>1, ListsAre
  <2> QED
    BY <1>1, <2>2, ReachedIs
<1>4. ASSUME NEW e \in DOMAIN T.local[f], ~ ByName(ExportMeans(f, e))
      PROVE  KnownAs(T, T.local[f][e], ExportMeans(f, e))
  <2>1. PICK z \in ToSet(prog.exports[f]) : z.export = e
    BY <1>1, <1>4, ExportedAs DEF Linked, LExports
  <2>2. PICK t : t = VariableOf(f, z.local)
    OBVIOUS
  <2>3. t \notin Pending /\ t[1] = f
    BY <1>1, <1>3, <2>2, AheadSettled DEF VariableOf
  <2>4. t \in ModuleVars(T) /\ T.local[f][e] = T.name[t]
    BY <1>1, <2>1, <2>2, <2>3 DEF Linked, LExports, ModuleVars
  <2>5. ExportMeans(f, z.export) = VariableMeans(t)
    BY <1>1, <2>2, LocalMeans
  <2> QED
    BY <1>1, <1>4, <2>1, <2>3, <2>4, <2>5 DEF Linked, LKnown
<1>5. ASSUME NEW g \in ExposedBy(T, f), ~ ByName(ExportMeans(g.of, g.export))
      PROVE  KnownAs(T, g.name, ExportMeans(g.of, g.export))
  <2>1. PICK e \in DOMAIN T.local[f] : g = [of |-> f, export |-> e, name |-> T.local[f][e]]
    BY <1>5 DEF ExposedBy
  <2>2. g.of = f /\ g.export = e /\ g.name = T.local[f][e]
    BY <2>1
  <2> QED
    BY <1>4, <1>5, <2>2
<1>6. LGetters(T, G \union ExposedBy(T, f))
  BY <1>1, <1>5 DEF Linked, LGetters
<1> QED
  BY <1>1, <1>2, <1>6 DEF Linked

(* What holds after k imports of m: all the tables promise while nothing is    *)
(* thrown, and afterwards what is left of it.                                *)
Shared(T) == LNames(T, {}) /\ LOwn(T)
QInv(m, k, acc) ==
  /\ \E T, G : \E ok \in BOOLEAN : acc = [sym |-> T, getters |-> G, ok |-> ok]
  /\ ModuleVars(acc.sym) = ModuleVars(sym) /\ DOMAIN acc.sym.name = DOMAIN sym.name
  /\ \A s \in Inner : acc.sym.own[s] = sym.own[s]
  /\ Shared(acc.sym)
  /\ acc.ok => Linked(acc.sym, Pending \ Gone(m, k), acc.getters)

(* It follows from fields. *)
LEMMA QInvIs ==
  ASSUME NEW m, NEW k, NEW T, NEW G, NEW ok \in BOOLEAN, NEW R, R = [sym |-> T, getters |-> G, ok |-> ok],
         ModuleVars(T) = ModuleVars(sym), DOMAIN T.name = DOMAIN sym.name,
         \A s \in Inner : T.own[s] = sym.own[s],
         Shared(T), ok => Linked(T, Pending \ Gone(m, k), G)
  PROVE  QInv(m, k, R)
<1>1. R.sym = T /\ R.getters = G /\ R.ok = ok
  OBVIOUS
<1>2. \E t, g : \E o \in BOOLEAN : R = [sym |-> t, getters |-> g, ok |-> o]
  OBVIOUS
<1> QED
  BY <1>1, <1>2 DEF QInv

(* One import more. *)
LEMMA ImportKeeps ==
  ASSUME NEW m, Turn(m), NEW k \in 1 .. Len(prog.imports[m]), NEW acc, QInv(m, k - 1, acc)
  PROVE  QInv(m, k, ReplaceImport(m, acc, prog.imports[m][k]))
<1>1. PICK T, G : \E ok \in BOOLEAN : acc = [sym |-> T, getters |-> G, ok |-> ok]
  BY DEF QInv
<1>2. PICK ok \in BOOLEAN : acc = [sym |-> T, getters |-> G, ok |-> ok]
  BY <1>1
<1>3. acc.sym = T /\ acc.getters = G /\ acc.ok = ok
  BY <1>2
<1>4. /\ ModuleVars(T) = ModuleVars(sym) /\ DOMAIN T.name = DOMAIN sym.name /\ Shared(T)
      /\ \A s \in Inner : T.own[s] = sym.own[s]
  BY <1>3 DEF QInv
<1>5. PICK i, Q, u : i = prog.imports[m][k] /\ Q = Pending \ Gone(m, k - 1) /\ u = <<m, i.local>>
  OBVIOUS
<1>6. ok => Linked(T, Q, G)
  BY <1>3, <1>5 DEF QInv
<1>7. m \in Modules /\ m \in Scopes
  BY TopIs DEF Turn, Scopes
<1>8. ASSUME ok PROVE Import(m, k, i, u, T, Q, G)
  BY <1>4, <1>5, <1>6, <1>7, <1>8 DEF Import
<1>9. PICK now, found, lib, own, rest :
        /\ now = T.name[u]
        /\ found = FindLocalExport(i.from, i.source)
        /\ lib = ExternalName(T, m, i) /\ own = T.local[found[1]][found[2]]
        /\ rest = G \union ExposedBy(T, i.from)
  OBVIOUS
<1>10. PICK A, B : A = RenameInModule(T, m, [o \in {now} |-> lib]) /\ B = RenameInModule(T, m, [o \in {now} |-> own])
  OBVIOUS
<1>11. PICK R : R = ReplaceImport(m, acc, i)
  OBVIOUS
<1>12. R = CASE ~ ok -> acc
             [] ok /\ i.from \in Libraries ->
                  IF Owned(T, m, now) THEN [acc EXCEPT !.sym = A] ELSE acc
             [] ok /\ i.from \in Modules /\ i.source = Star ->
                  IF Owned(T, m, now) THEN [acc EXCEPT !.getters = rest] ELSE acc
             [] OTHER -> IF found = NotFound \/ ~ Owned(T, m, now) THEN [acc EXCEPT !.ok = FALSE]
                         ELSE [acc EXCEPT !.sym = B]
  BY <1>3, <1>5, <1>9, <1>10, <1>11 DEF ReplaceImport, ExposedBy
<1>13. ASSUME NEW U, NEW H, ok, R = [sym |-> U, getters |-> H, ok |-> ok],
              ModuleVars(U) = ModuleVars(sym), DOMAIN U.name = DOMAIN sym.name,
              \A s \in Inner : U.own[s] = sym.own[s], Linked(U, Pending \ Gone(m, k), H)
       PROVE  QInv(m, k, R)
  <2>1. Shared(U)
    BY <1>13 DEF Linked, LNames, Shared
  <2> QED
    BY <1>13, <2>1, QInvIs
<1>14. ASSUME ok, ~ IsNamespace(i), NEW n, Fits(T, Q, u, n), NEW U, U = RenameInModule(T, m, [o \in {now} |-> n]),
              R = [acc EXCEPT !.sym = U]
       PROVE  QInv(m, k, R)
  <2>1. Import(m, k, i, u, T, Q, G)
    BY <1>8, <1>14
  <2>2. /\ u[1] = m /\ u[2] = i.local /\ u[2] \in Names /\ Pending \ Gone(m, k) = Q \ {u} /\ u \in Q /\ ~ Declared(u)
        /\ Q \subseteq ModuleVars(T)
    BY <1>14, <2>1, ImportIs
  <2>3. Linked(T, Q, G) /\ IsTables(T) /\ LNames(T, Q) /\ CInv /\ u = <<m, u[2]>>
    BY <1>5, <1>6, <1>14, <2>2 DEF Linked, Turn
  <2>4. Gives(T, U, Q, u, n, m, now)
    BY <1>7, <1>9, <1>14, <2>2, <2>3, RenamingGives
  <2>5. Linked(U, Q \ {u}, G)
    BY <1>14, <2>3, <2>4, RenamedKeeps
  <2>6. R = [sym |-> U, getters |-> G, ok |-> ok]
    BY <1>2, <1>14, ResultFields
  <2>7. ModuleVars(U) = ModuleVars(sym) /\ DOMAIN U.name = DOMAIN sym.name
    BY <1>4, <2>4 DEF Gives
  <2>8. \A s \in Inner : U.own[s] = sym.own[s]
    <3>1. \A s \in Scopes \ {m} : U.own[s] = T.own[s]
      BY <1>7, <1>14, <2>3, ScopeRenames DEF IsTables, Changed
    <3>2. \A s \in Inner : s \in Scopes \ {m}
      BY <1>7, LinkerAssumption DEF Scopes
    <3> QED
      BY <1>4, <3>1, <3>2
  <2> QED
    BY <1>13, <1>14, <2>2, <2>5, <2>6, <2>7, <2>8, ZenonT(40)
<1>15. CASE ~ ok
  <2>1. R = acc
    BY <1>12, <1>15
  <2> QED
    BY <1>2, <1>4, <1>5, <1>11, <1>15, <2>1, QInvIs
<1>16. CASE ok /\ i.from \in Libraries
  <2>1. Import(m, k, i, u, T, Q, G) /\ i.from \notin Modules /\ ~ IsNamespace(i)
    BY <1>8, <1>16, LinkerAssumption DEF IsNamespace
  <2>2. Owned(T, m, now)
    BY <1>9, <2>1, ImportIs
  <2>3. R = [acc EXCEPT !.sym = A]
    BY <1>12, <1>16, <2>1, <2>2
  <2>4. Fits(T, Q, u, lib)
    BY <1>9, <1>16, <2>1, LibraryFits
  <2> QED
    BY <1>5, <1>10, <1>11, <1>14, <1>16, <2>1, <2>3, <2>4
<1>17. CASE ok /\ i.from \notin Libraries /\ i.from \in Modules /\ i.source = Star
  <2>1. Import(m, k, i, u, T, Q, G) /\ IsNamespace(i)
    BY <1>8, <1>17 DEF IsNamespace
  <2>2. Pending \ Gone(m, k) = Q
    BY <2>1, ImportIs
  <2>3. Linked(T, Q, rest)
    BY <1>9, <2>1, ExposedKeeps
  <2>4. R = acc \/ R = [acc EXCEPT !.getters = rest]
    BY <1>12, <1>17
  <2>5. R = [sym |-> T, getters |-> G, ok |-> ok] \/ R = [sym |-> T, getters |-> rest, ok |-> ok]
    BY <1>2, <2>4, ResultFields
  <2> QED
    BY <1>4, <1>5, <1>6, <1>11, <1>13, <1>17, <2>2, <2>3, <2>5
<1>18. CASE ok /\ i.from \notin Libraries /\ ~ (i.from \in Modules /\ i.source = Star)
  <2>1. Import(m, k, i, u, T, Q, G) /\ ~ IsNamespace(i)
    BY <1>8, <1>18 DEF IsNamespace
  <2>2. Owned(T, m, now) /\ i.from \in Modules
    <3>1. Owned(T, m, T.name[u])
      BY <2>1, ImportIs
    <3>2. i.from \in Modules \union Libraries
      BY <2>1, ImportIs
    <3> QED
      BY <1>9, <1>18, <3>1, <3>2
  <2>3. R = IF found = NotFound THEN [acc EXCEPT !.ok = FALSE] ELSE [acc EXCEPT !.sym = B]
    BY <1>12, <1>18, <2>2
  <2>4. CASE found = NotFound
    <3>1. PICK no \in BOOLEAN : no = FALSE
      OBVIOUS
    <3>2. R = [acc EXCEPT !.ok = no]
      BY <2>3, <2>4, <3>1
    <3>3. R = [sym |-> T, getters |-> G, ok |-> no]
      BY <1>2, <3>2, ResultFields
    <3> QED
      BY <1>4, <1>5, <1>11, <3>1, <3>3, QInvIs
  <2>5. CASE found # NotFound
    <3>1. Fits(T, Q, u, own)
      BY <1>9, <2>1, <2>2, <2>5, ModuleFits
    <3>2. R = [acc EXCEPT !.sym = B]
      BY <2>3, <2>5
    <3> QED
      BY <1>5, <1>10, <1>11, <1>14, <1>18, <2>1, <3>1, <3>2
  <2> QED
    BY <2>4, <2>5
<1> QED
  BY <1>5, <1>11, <1>15, <1>16, <1>17, <1>18

(* All of them. *)
LEMMA AllReplaced ==
  ASSUME NEW m, Turn(m), Linked(sym, Pending, getters)
  PROVE  QInv(m, Len(prog.imports[m]), Replaced(m)) /\ Len(prog.imports[m]) \in Nat
<1>1. m \in Modules /\ CInv
  BY TopIs DEF Turn
<1>2. PICK n \in Nat : n = Len(prog.imports[m])
  <2>1. prog.imports[m] \in Seq([from : Modules \union Libraries, source : Exportable \union {Star}, local : Names])
    BY <1>1, ProgramIs DEF IsProgram
  <2> QED
    BY <2>1
<1>3. PICK h : ReplaceSteps(m, n, h) /\ Replaced(m) = h[n]
  BY <1>2, ReplacedSteps
<1>4. QInv(m, 0, h[0])
  <2>1. PICK yes \in BOOLEAN : yes = TRUE
    OBVIOUS
  <2>2. PICK S, H : S = sym /\ H = getters
    OBVIOUS
  <2>3. h[0] = [sym |-> S, getters |-> H, ok |-> yes]
    BY <1>3, <2>1, <2>2 DEF ReplaceSteps, Start
  <2>4. Pending \ Gone(m, 0) = Pending
    BY DEF Gone
  <2>5. Shared(S)
    BY <2>2 DEF Linked, LNames, Shared
  <2> QED
    BY <2>2, <2>3, <2>4, <2>5, QInvIs
<1> DEFINE Y == {k \in Nat : k <= n => QInv(m, k, h[k])}
<1>5. ASSUME NEW k \in Nat, \A j \in 0 .. k - 1 : j \in Y PROVE k \in Y
  <2>1. CASE k = 0
    BY <1>4, <2>1
  <2>2. CASE k > n
    BY <2>2
  <2>3. CASE k # 0 /\ k <= n
    <3>1. k - 1 \in 0 .. k - 1 /\ k - 1 <= n /\ k \in 1 .. n
      BY <2>3
    <3>2. QInv(m, k - 1, h[k - 1])
      BY <1>5, <3>1
    <3>3. h[k] = ReplaceImport(m, h[k - 1], prog.imports[m][k])
      BY <1>3, <3>1 DEF ReplaceSteps
    <3>4. QInv(m, k, h[k])
      BY <1>2, <3>1, <3>2, <3>3, ImportKeeps
    <3> QED
      BY <3>4
  <2> QED
    BY <2>1, <2>2, <2>3
<1>6. Y \in SUBSET Nat
  OBVIOUS
<1>7. Y = Nat
  <2> HIDE DEF Y
  <2> QED
    BY <1>5, <1>6, StrongInduction
<1>8. n \in Y
  BY <1>7
<1> QED
  BY <1>2, <1>3, <1>8

(* What imports and exports mean is a matter of the program alone. *)
LEMMA ExportsStay ==
  ASSUME prog' = prog
  PROVE  /\ \A m, n : ImportsOf(m, n)' = ImportsOf(m, n)
         /\ \A v : Declared(v)' <=> Declared(v)
         /\ \A m, e : ExportMeans(m, e)' = ExportMeans(m, e)
         /\ \A m : Lists(m)' = Lists(m) /\ Stars(m)' = Stars(m)
<1>1. \A m, n : ImportsOf(m, n)' = ImportsOf(m, n)
  BY DEF ImportsOf
<1>2. \A v : Declared(v)' <=> Declared(v)
  BY <1>1 DEF Declared, IsNamespace
<1>3. \A x : ExportedLocals(x)' = ExportedLocals(x)
  BY DEF ExportedLocals
<1>4. \A m : Lists(m)' = Lists(m) /\ Stars(m)' = Stars(m)
  BY DEF Lists, Stars
<1>5. \A x : ExportedImports(x)' = ExportedImports(x)
  BY <1>1, <1>3 DEF ExportedImports
<1>6. \A x : Listed(x)' = Listed(x) /\ Starred(x)' = Starred(x)
  BY <1>4 DEF Listed, Starred
<1>7. \A x : Direct(x)' = Direct(x)
  BY <1>2, <1>3, <1>5 DEF Direct, VariableOf
<1>8. \A x : Onward(x)' = Onward(x)
  BY <1>3, <1>5, <1>6 DEF Onward
<1>9. \A m, e : ExportMeans(m, e)' = ExportMeans(m, e)
  <2>1. PICK f : f = [x \in Exports |-> Onward(x)]
    OBVIOUS
  <2>2. [x \in Exports |-> Onward(x)'] = f
    BY <1>8, <2>1
  <2>3. \A m, e : ExportMeans(m, e) = UNION {Direct(x) : x \in Closure(f, {<<m, e>>})}
    BY <2>1 DEF ExportMeans
  <2>4. \A m, e : ExportMeans(m, e)' = UNION {Direct(x)' : x \in Closure(f, {<<m, e>>})}
    BY <2>2 DEF ExportMeans, Exports
  <2> QED
    BY <1>7, <2>3, <2>4
<1> QED
  BY <1>1, <1>2, <1>4, <1>9

(* So are the variables that imports stand for, and the conditions. *)
LEMMA MeaningsStay ==
  ASSUME prog' = prog
  PROVE  /\ \A v : VariableMeans(v)' = VariableMeans(v)
         /\ LinksKeepable' <=> LinksKeepable
<1>1. /\ \A m, n : ImportsOf(m, n)' = ImportsOf(m, n)
      /\ \A m, e : ExportMeans(m, e)' = ExportMeans(m, e)
      /\ \A m : Lists(m)' = Lists(m) /\ Stars(m)' = Stars(m)
  BY ExportsStay
<1>2. \A m, i : ImportMeans(m, i)' = ImportMeans(m, i)
  BY <1>1 DEF ImportMeans, IsNamespace
<1>3. \A v : VariableMeans(v)' = VariableMeans(v)
  BY <1>1, <1>2 DEF VariableMeans
<1>4. Assumed' <=> Assumed
  BY BoundNext
<1>5. \A x : Resolved(x)' <=> Resolved(x)
  BY <1>1 DEF Resolved
<1>6. Accepted' <=> Accepted
  <2>1. \A m : ExportsDiffer(m)' <=> ExportsDiffer(m)
    BY <1>1 DEF ExportsDiffer
  <2> QED
    BY <1>1, <1>5, <2>1 DEF Accepted, IsNamespace
<1>7. LocalsExportedOnce' <=> LocalsExportedOnce
  BY DEF LocalsExportedOnce
<1>8. ImportsNotExportedPastCycles' <=> ImportsNotExportedPastCycles
  <2>1. \A m : RefMods(m)' = RefMods(m)
    BY DEF RefMods, ReferredTo, ReferencesOf
  <2>2. PICK f : f = [k \in Modules |-> RefMods(k)]
    OBVIOUS
  <2>3. [k \in Modules |-> RefMods(k)'] = f
    BY <2>1, <2>2
  <2>4. \A m : Reached(m)' = Reached(m)
    BY <2>1, <2>2, <2>3 DEF Reached
  <2> QED
    BY <1>1, <2>4 DEF ImportsNotExportedPastCycles
<1>9. ListsHideNothing' <=> ListsHideNothing
  BY <1>1 DEF ListsHideNothing
<1> QED
  BY <1>3, <1>4, <1>6, <1>7, <1>8, <1>9 DEF LinksKeepable, Assumed

(* And so is what tables promise, with the names libraries have. *)
LEMMA LinkedStays ==
  ASSUME prog' = prog, external' = external, NEW T, NEW Q, NEW G
  PROVE  /\ Linked(T, Q, G)' <=> Linked(T, Q, G)
         /\ Shared(T)' <=> Shared(T)
<1>1. /\ \A v : Declared(v)' <=> Declared(v)
      /\ \A m, e : ExportMeans(m, e)' = ExportMeans(m, e)
      /\ \A v : VariableMeans(v)' = VariableMeans(v)
      /\ LibraryBindings' = LibraryBindings
  BY ExportsStay, MeaningsStay, BoundNext
<1>2. \A n, W : KnownAs(T, n, W)' <=> KnownAs(T, n, W)
  BY <1>1 DEF KnownAs, ModuleVars
<1>3. IsTables(T)' <=> IsTables(T)
  BY DEF IsTables, IsSym, OwnVars
<1>4. LExports(T)' <=> LExports(T)
  BY DEF LExports
<1>5. LIndex(T, Q)' <=> LIndex(T, Q)
  BY DEF LIndex
<1>6. \A P : LNames(T, P)' <=> LNames(T, P)
  BY <1>1 DEF LNames, ModuleVars
<1>7. LLibs(T, Q)' <=> LLibs(T, Q)
  BY <1>1 DEF LLibs, ModuleVars
<1>8. LOwn(T)' <=> LOwn(T)
  BY DEF LOwn, ModuleVars
<1>9. LKnown(T, Q)' <=> LKnown(T, Q)
  BY <1>1, <1>2 DEF LKnown, ModuleVars, ByName
<1>10. LGetters(T, G)' <=> LGetters(T, G)
  BY <1>1, <1>2 DEF LGetters, ByName
<1>11. Shared(T)' <=> Shared(T)
  BY <1>6, <1>8 DEF Shared
<1> QED
  BY <1>3, <1>4, <1>5, <1>6, <1>7, <1>8, <1>9, <1>10, <1>11 DEF Linked

(* A library's info is held to what it was. *)
LEMMA HeldStays ==
  ASSUME prog' = prog, external' = external, NEW l
  PROVE  Held(l)' <=> Held(l)
BY DEF Held

(* A changeset that gives different names loses no variable. *)
LEMMA NoneLost ==
  ASSUME NEW T, NEW U, NEW s, NEW order, NEW names, Renamed(T, U, s, order, names),
         \A v, w \in T.own[s] : U.name[v] = U.name[w] => v = w
  PROVE  /\ Lost(T, s, Changes(T, order, names)) = {}
         /\ \A x \in DOMAIN Changes(T, order, names) : \E v \in T.own[s] : T.name[v] = x
<1>1. PICK ren : ren = Changes(T, order, names)
  OBVIOUS
<1>2. \A i \in DOMAIN order : order[i] \in T.own[s]
  BY OrderCovers DEF Renamed
<1>3. \A x \in DOMAIN ren : \E v \in T.own[s] : T.name[v] = x
  BY <1>1, <1>2 DEF Changes
<1>4. /\ \A v \in DOMAIN T.name : U.name[v] = IF v \in Moved(T, s, ren) THEN ren[T.name[v]] ELSE T.name[v]
      /\ T.own[s] \subseteq DOMAIN T.name
  BY <1>1 DEF Renamed, Changed, IsSym
<1>5. SUFFICES ASSUME NEW v \in Lost(T, s, ren) PROVE FALSE
  BY <1>1, <1>3
<1>6. v \in T.own[s] /\ v \notin Moved(T, s, ren) /\ U.name[v] = T.name[v]
  BY <1>4, <1>5 DEF Lost
<1>7. PICK x \in DOMAIN ren : ren[x] = T.name[v]
  BY <1>5 DEF Lost, Range
<1>8. PICK w \in T.own[s] : T.name[w] = x
  BY <1>3
<1>9. w \in Moved(T, s, ren)
  BY <1>8 DEF Moved
<1>10. U.name[w] = ren[x]
  BY <1>4, <1>8, <1>9
<1> QED
  BY <1>6, <1>7, <1>8, <1>9, <1>10

(* The change of an inner scope touches no exports. *)
LEMMA ScopeKeepsExports ==
  ASSUME NEW T, IsSym(T), NEW s \in Scopes, NEW ren
  PROVE  /\ RenameIn(T, s, ren).local = T.local /\ RenameIn(T, s, ren).index = T.index
         /\ RenameIn(T, s, ren).own[s] = T.own[s] \ Lost(T, s, ren)
<1>1. PICK n, o, l, x : T = [name |-> n, own |-> o, local |-> l, index |-> x]
  BY DEF IsSym
<1>2. T.name = n /\ T.own = o /\ T.local = l /\ T.index = x /\ DOMAIN o = Scopes
  BY <1>1 DEF IsSym
<1>3. PICK M, K : M = Moved(T, s, ren) /\ K = T.own[s] \ Lost(T, s, ren)
  OBVIOUS
<1>4. PICK nn : nn = [v \in DOMAIN T.name |-> IF v \in M THEN ren[T.name[v]] ELSE T.name[v]]
  OBVIOUS
<1>5. RenameIn(T, s, ren) = [T EXCEPT !.name = nn, !.own[s] = K]
  BY <1>1, <1>3, <1>4 DEF RenameIn
<1>6. RenameIn(T, s, ren) = [name |-> nn, own |-> [o EXCEPT ![s] = K], local |-> l, index |-> x]
  BY <1>1, <1>5
<1> QED
  BY <1>2, <1>3, <1>6

(* The variable for export default takes the place of the export. *)
LEMMA DefaultExports ==
  ASSUME NEW T, IsTables(T), NEW m \in Modules, NEW d, DefaultName \in DOMAIN T.local[m],
         NEW U, U = AddDefault(T, m, d)
  PROVE  /\ IsTables(U) /\ U.own[m] = T.own[m] \union {<<m, DefaultVar>>}
         /\ \A k \in Modules \ {m} : U.local[k] = T.local[k]
         /\ U.index = T.index
         /\ DOMAIN U.local[m] = DOMAIN T.local[m] /\ U.local[m][DefaultName] = d
         /\ \A e \in DOMAIN T.local[m] \ {DefaultName} : U.local[m][e] = T.local[m][e]
<1>1. PICK n, o, l, x : T = [name |-> n, own |-> o, local |-> l, index |-> x]
  BY DEF IsTables, IsSym
<1>2. T.name = n /\ T.own = o /\ T.local = l /\ T.index = x
  BY <1>1
<1>3. PICK b, k, c : b = <<m, DefaultVar>> /\ k = o[m] \union {b} /\ c = [l[m] EXCEPT ![DefaultName] = d]
  OBVIOUS
<1>4. PICK nn : nn = [v \in DOMAIN n \union {b} |-> IF v = b THEN d ELSE n[v]]
  OBVIOUS
<1>5. U = [name |-> nn, own |-> [o EXCEPT ![m] = k], local |-> [l EXCEPT ![m] = c], index |-> x]
  <2>1. U = [T EXCEPT !.name = [v \in DOMAIN T.name \union {b} |-> IF v = b THEN d ELSE T.name[v]],
                      !.own[m] = T.own[m] \union {b},
                      !.local[m] = [T.local[m] EXCEPT ![DefaultName] = d]]
    BY <1>3 DEF AddDefault
  <2>2. U = [T EXCEPT !.name = nn, !.own[m] = k, !.local[m] = c]
    BY <1>2, <1>3, <1>4, <2>1
  <2> QED
    BY <1>1, <2>2
<1>6. m \in Scopes /\ DOMAIN o = Scopes /\ DOMAIN l = Modules /\ DOMAIN x = Modules
  BY <1>2 DEF IsTables, IsSym, Scopes
<1>7. /\ U.own[m] = k /\ U.local[m] = c /\ U.index = x /\ DOMAIN U.local = Modules
      /\ \A j \in Modules \ {m} : U.local[j] = l[j]
  BY <1>5, <1>6
<1>8. IsSym(U)
  BY DefaultAdded DEF IsTables
<1>9. DOMAIN c = DOMAIN l[m] /\ c[DefaultName] = d /\ \A e \in DOMAIN l[m] \ {DefaultName} : c[e] = l[m][e]
  BY <1>2, <1>3
<1> QED
  BY <1>2, <1>3, <1>6, <1>7, <1>8, <1>9 DEF IsTables

(* The exports of a module that has not been renamed are those of the source,  *)
(* those of one that has have the names of their variables, all of which it    *)
(* keeps.                                                                    *)
Fresh(T, m) ==
  /\ DOMAIN T.local[m] = ExportNames(prog, m)
  /\ \A z \in ToSet(prog.exports[m]) :
       T.local[m][z.export] = z.local /\ z.local \in DOMAIN T.index[m] /\ T.index[m][z.local] = z.export
Exported(T, m) ==
  /\ \A v \in DOMAIN T.name : v[1] = m => v \in T.own[m]
  /\ DOMAIN T.local[m] = ExportNames(prog, m)
  /\ \A z \in ToSet(prog.exports[m]) :
       /\ VariableOf(m, z.local) \in DOMAIN T.name
       /\ T.local[m][z.export] = T.name[VariableOf(m, z.local)]
       /\ z.local # Unnamed => /\ T.name[<<m, z.local>>] \in DOMAIN T.index[m]
                               /\ T.index[m][T.name[<<m, z.local>>]] = z.export

(* Names that are settled differ. *)
LEMMA NamesApart ==
  ASSUME NInv, Assumed, NEW v \in Settled, NEW w \in Settled, sym.name[v] = sym.name[w]
  PROVE  v = w
<1>1. PICK b, c : b = [name |-> sym.name[v], is |-> v] /\ c = [name |-> sym.name[w], is |-> w]
  OBVIOUS
<1>2. b \in Bound /\ c \in Bound /\ b.name = c.name
  BY <1>1 DEF Bound, VariableBindings
<1>3. b = c
  BY <1>2 DEF NInv, Taken
<1> QED
  BY <1>1, <1>3

(* After it is renamed, a module's variables have different names. *)
LEMMA RootApart ==
  ASSUME NumeralsDiffer, CInv, WInv, SInv, NInv, RenameRoot, Assumed, NEW m, m = Last(stack),
         NEW v \in DOMAIN sym'.name, NEW w \in DOMAIN sym'.name, v[1] = m, w[1] = m, sym'.name[v] = sym'.name[w]
  PROVE  v = w
<1>1. stage' = "roots" /\ prog' = prog
  BY DEF RenameRoot
<1>2. m \in Walked'
  BY RootTables
<1>3. NInv' /\ Assumed'
  BY <1>1, NRoot, BoundNext
<1>4. v \in Settled' /\ w \in Settled'
  BY <1>1, <1>2, SettledNext
<1>5. PICK b, c : b = [name |-> sym'.name[v], is |-> v] /\ c = [name |-> sym'.name[w], is |-> w]
  OBVIOUS
<1>6. b \in Bound' /\ c \in Bound' /\ b.name = c.name
  BY <1>4, <1>5 DEF Bound, VariableBindings
<1>7. b = c
  BY <1>3, <1>6 DEF NInv, Taken
<1> QED
  BY <1>5, <1>7

(* What BatchRenameSymbols leaves of the tables of a module that is named. *)
RootChange(T, m, ren) ==
  /\ IsTables(T) /\ DOMAIN T.name = DOMAIN sym.name /\ T.own[m] = OwnVars(m)
  /\ \A t \in Scopes \ {m} : T.own[t] = sym.own[t]
  /\ \A n \in prog.owns[m] : /\ <<m, n>> \in DOMAIN sym.name
                             /\ T.name[<<m, n>>] = IF n \in DOMAIN ren THEN ren[n] ELSE n
  /\ \A v, w \in OwnVars(m) : T.name[v] = T.name[w] => v = w
  /\ DOMAIN ren \subseteq prog.owns[m]
  /\ ExportsMoved(sym, T, m, ren, DOMAIN ren \intersect DOMAIN sym.index[m])

(* One export of the module: it goes with its variable. *)
LEMMA ExportMoves ==
  ASSUME CInv, LinksKeepable, NEW m \in Modules, Fresh(sym, m), NEW T, NEW ren, RootChange(T, m, ren),
         NEW z \in ToSet(prog.exports[m])
  PROVE  /\ z.local = Unnamed => T.local[m][z.export] = Unnamed
         /\ z.local # Unnamed => /\ z.local \in prog.owns[m]
                                 /\ T.local[m][z.export] = T.name[<<m, z.local>>]
                                 /\ T.name[<<m, z.local>>] \in DOMAIN T.index[m]
                                 /\ T.index[m][T.name[<<m, z.local>>]] = z.export
<1>1. PICK l, e, hit : l = z.local /\ e = z.export /\ hit = DOMAIN ren \intersect DOMAIN sym.index[m]
  OBVIOUS
<1>2. /\ e \in DOMAIN sym.local[m] /\ sym.local[m][e] = l /\ l \in DOMAIN sym.index[m] /\ sym.index[m][l] = e
  BY <1>1 DEF Fresh, ExportNames
<1>3. /\ \A x \in DOMAIN sym.local[m] :
           T.local[m][x] = IF sym.local[m][x] \in hit /\ sym.index[m][sym.local[m][x]] = x
                           THEN ren[sym.local[m][x]] ELSE sym.local[m][x]
      /\ DOMAIN T.index[m] = (DOMAIN sym.index[m] \ hit) \union {ren[o] : o \in hit}
      /\ \A x \in DOMAIN T.index[m] :
           \/ \E o \in hit : ren[o] = x /\ T.index[m][x] = sym.index[m][o]
           \/ (\A o \in hit : ren[o] # x) /\ T.index[m][x] = sym.index[m][x]
  BY <1>1 DEF RootChange, ExportsMoved
<1>4. T.local[m][e] = IF l \in DOMAIN ren THEN ren[l] ELSE l
  BY <1>1, <1>2, <1>3
<1>5. DOMAIN ren \subseteq prog.owns[m] /\ prog.owns[m] \subseteq Names
  BY ProgramIs DEF RootChange
<1>6. CASE l = Unnamed
  BY <1>1, <1>4, <1>5, <1>6, LinkerAssumption
<1>7. CASE l # Unnamed
  <2>1. l \in prog.owns[m]
    BY <1>1, <1>7 DEF LinksKeepable, Accepted
  <2>2. PICK x : x = T.name[<<m, l>>]
    OBVIOUS
  <2>3. x = IF l \in DOMAIN ren THEN ren[l] ELSE l
    BY <2>1, <2>2 DEF RootChange
  <2>4. ASSUME NEW o \in hit, ren[o] = x PROVE o = l
    <3>1. o \in prog.owns[m] /\ T.name[<<m, o>>] = x
      BY <1>1, <2>4 DEF RootChange
    <3>2. <<m, o>> \in OwnVars(m) /\ <<m, l>> \in OwnVars(m)
      BY <2>1, <3>1 DEF OwnVars
    <3>3. <<m, o>> = <<m, l>>
      BY <2>2, <3>1, <3>2 DEF RootChange
    <3> QED
      BY <3>3
  <2>5. CASE l \in DOMAIN ren
    <3>1. l \in hit /\ ren[l] = x
      BY <1>1, <1>2, <2>3, <2>5
    <3>2. x \in DOMAIN T.index[m]
      BY <1>3, <3>1
    <3>3. T.index[m][x] = e
      BY <1>2, <1>3, <2>4, <3>1, <3>2
    <3> QED
      BY <1>1, <1>4, <1>7, <2>1, <2>2, <2>3, <3>2, <3>3
  <2>6. CASE l \notin DOMAIN ren
    <3>1. l \notin hit /\ x = l
      BY <1>1, <2>3, <2>6
    <3>2. x \in DOMAIN T.index[m]
      BY <1>2, <1>3, <3>1
    <3>3. T.index[m][x] = e
      BY <1>2, <1>3, <2>4, <3>1, <3>2
    <3> QED
      BY <1>1, <1>4, <1>7, <2>1, <2>2, <2>3, <3>2, <3>3
  <2> QED
    BY <2>5, <2>6
<1> QED
  BY <1>6, <1>7

(* When the variable for export default is made, the module has all exports   *)
(* right.                                                                    *)
LEMMA RootExported ==
  ASSUME CInv, LinksKeepable, NEW m \in Modules, Fresh(sym, m), Untouched(sym, m),
         NEW T, NEW ren, RootChange(T, m, ren), NEW d,
         NEW U, U = IF HasDefault(m) THEN AddDefault(T, m, d) ELSE T
  PROVE  /\ IsTables(U) /\ Exported(U, m)
         /\ \A k \in Modules \ {m} : U.local[k] = sym.local[k] /\ U.index[k] = sym.index[k]
         /\ \A t \in Scopes \ {m} : U.own[t] = sym.own[t]
         /\ DOMAIN sym.name \subseteq DOMAIN U.name
         /\ \A v \in DOMAIN U.name : v \in DOMAIN sym.name \/ v = <<m, DefaultVar>>
<1>1. /\ IsTables(T) /\ DOMAIN T.name = DOMAIN sym.name /\ T.own[m] = OwnVars(m)
      /\ \A t \in Scopes \ {m} : T.own[t] = sym.own[t]
      /\ \A k \in Modules \ {m} : T.local[k] = sym.local[k] /\ T.index[k] = sym.index[k]
      /\ DOMAIN T.local[m] = ExportNames(prog, m)
  BY DEF RootChange, ExportsMoved, Fresh
<1>2. \A v \in DOMAIN T.name : v[1] = m => v \in OwnVars(m)
  BY <1>1 DEF Untouched
<1>3. PICK b : b = <<m, DefaultVar>>
  OBVIOUS
<1>4. b \notin DOMAIN T.name
  <2>1. b \notin OwnVars(m)
    BY <1>3, ProgramIs, LinkerAssumption DEF OwnVars
  <2> QED
    BY <1>2, <1>3, <2>1
<1>5. \A z \in ToSet(prog.exports[m]) : z.export \in DOMAIN T.local[m]
  BY <1>1 DEF ExportNames
<1>6. \A z \in ToSet(prog.exports[m]) : z.local \in prog.owns[m] => <<m, z.local>> \in DOMAIN T.name
  BY <1>1 DEF RootChange
<1>7. CASE HasDefault(m)
  <2>1. PICK x \in ToSet(prog.exports[m]) : x.local = Unnamed
    BY <1>7 DEF HasDefault
  <2>2. x.export = DefaultName
    BY <2>1, ListsAre
  <2>3. U = AddDefault(T, m, d) /\ DefaultName \in DOMAIN T.local[m]
    BY <1>5, <1>7, <2>1, <2>2
  <2>4. /\ IsTables(U) /\ U.own[m] = T.own[m] \union {b}
        /\ \A k \in Modules \ {m} : U.local[k] = T.local[k]
        /\ U.index = T.index
        /\ DOMAIN U.local[m] = DOMAIN T.local[m] /\ U.local[m][DefaultName] = d
        /\ \A e \in DOMAIN T.local[m] \ {DefaultName} : U.local[m][e] = T.local[m][e]
    BY <1>1, <1>3, <2>3, DefaultExports
  <2>5. /\ DOMAIN U.name = DOMAIN T.name \union {b} /\ U.name[b] = d
        /\ \A v \in DOMAIN T.name \ {b} : U.name[v] = T.name[v]
        /\ \A t \in Scopes \ {m} : U.own[t] = T.own[t]
    BY <1>1, <1>3, <2>3, DefaultAdded DEF IsTables
  <2>6. \A v \in DOMAIN T.name : U.name[v] = T.name[v]
    BY <1>4, <2>5
  <2>7. ASSUME NEW z \in ToSet(prog.exports[m]), z.local = Unnamed
        PROVE  VariableOf(m, z.local) \in DOMAIN U.name /\ U.local[m][z.export] = U.name[VariableOf(m, z.local)]
    <3>1. z.export = DefaultName /\ VariableOf(m, z.local) = b
      BY <1>3, <2>7, ListsAre DEF VariableOf
    <3> QED
      BY <2>4, <2>5, <3>1
  <2>8. ASSUME NEW z \in ToSet(prog.exports[m]), z.local # Unnamed
        PROVE  /\ VariableOf(m, z.local) \in DOMAIN U.name /\ U.local[m][z.export] = U.name[VariableOf(m, z.local)]
               /\ U.name[<<m, z.local>>] \in DOMAIN U.index[m]
               /\ U.index[m][U.name[<<m, z.local>>]] = z.export
    <3>1. /\ z.local \in prog.owns[m]
          /\ T.local[m][z.export] = T.name[<<m, z.local>>]
          /\ T.name[<<m, z.local>>] \in DOMAIN T.index[m]
          /\ T.index[m][T.name[<<m, z.local>>]] = z.export
      BY <2>8, ExportMoves
    <3>2. z.export # DefaultName
      BY <2>1, <2>2, <2>8 DEF LinksKeepable, Accepted, ExportsDiffer
    <3>3. VariableOf(m, z.local) = <<m, z.local>>
      BY <2>8 DEF VariableOf
    <3>4. PICK v : v = <<m, z.local>>
      OBVIOUS
    <3>5. v \in DOMAIN T.name /\ U.name[v] = T.name[v] /\ v \in DOMAIN U.name
      BY <1>6, <2>5, <2>6, <3>1, <3>4
    <3>6. U.local[m][z.export] = T.local[m][z.export]
      BY <1>5, <2>4, <3>2
    <3> QED
      BY <2>4, <3>1, <3>3, <3>4, <3>5, <3>6
  <2>9. \A v \in DOMAIN U.name : v[1] = m => v \in U.own[m]
    BY <1>1, <1>2, <2>4, <2>5
  <2>10. Exported(U, m)
    BY <1>1, <2>4, <2>7, <2>8, <2>9 DEF Exported
  <2> QED
    BY <1>1, <1>3, <2>4, <2>5, <2>10
<1>8. CASE ~ HasDefault(m)
  <2>1. U = T
    BY <1>8
  <2>2. ASSUME NEW z \in ToSet(prog.exports[m])
        PROVE  /\ VariableOf(m, z.local) \in DOMAIN T.name /\ T.local[m][z.export] = T.name[VariableOf(m, z.local)]
               /\ T.name[<<m, z.local>>] \in DOMAIN T.index[m]
               /\ T.index[m][T.name[<<m, z.local>>]] = z.export
    <3>1. z.local # Unnamed
      BY <1>8, <2>2 DEF HasDefault
    <3>2. /\ z.local \in prog.owns[m]
          /\ T.local[m][z.export] = T.name[<<m, z.local>>]
          /\ T.name[<<m, z.local>>] \in DOMAIN T.index[m]
          /\ T.index[m][T.name[<<m, z.local>>]] = z.export
      BY <3>1, ExportMoves
    <3>3. VariableOf(m, z.local) = <<m, z.local>>
      BY <3>1 DEF VariableOf
    <3> QED
      BY <1>6, <3>2, <3>3
  <2>3. Exported(T, m)
    BY <1>1, <1>2, <2>2 DEF Exported
  <2> QED
    BY <1>1, <2>1, <2>3
<1> QED
  BY <1>7, <1>8

(* The names when the variable for export default is made. *)
LEMMA DefaultNames ==
  ASSUME NEW T, IsSym(T), NEW m \in Modules, NEW d, NEW U, U = AddDefault(T, m, d)
  PROVE  /\ DOMAIN U.name = DOMAIN T.name \union {<<m, DefaultVar>>}
         /\ \A v \in DOMAIN T.name \ {<<m, DefaultVar>>} : U.name[v] = T.name[v]
<1>1. PICK b : b = <<m, DefaultVar>>
  OBVIOUS
<1> QED
  BY <1>1, DefaultAdded

(* RenameRoot does that. *)
LEMMA RootDoes ==
  ASSUME NumeralsDiffer, CInv, WInv, SInv, NInv, RenameRoot, LinksKeepable, NEW m, m = Last(stack),
         IsTables(sym), Fresh(sym, m)
  PROVE  /\ m \in Modules /\ IsTables(sym') /\ Exported(sym', m)
         /\ \A k \in Modules \ {m} : sym'.local[k] = sym.local[k] /\ sym'.index[k] = sym.index[k]
         /\ \A t \in Scopes \ {m} : sym'.own[t] = sym.own[t]
         /\ DOMAIN sym.name \subseteq DOMAIN sym'.name
         /\ \A v \in DOMAIN sym'.name : v \in DOMAIN sym.name \/ v = <<m, DefaultVar>>
<1>1. m \in Modules \ Walked /\ m \in Scopes /\ stage = "roots"
  <2>1. m \in Modules \ Walked
    BY RootTables
  <2> QED
    BY <2>1 DEF RenameRoot, Scopes
<1>2. Untouched(sym, m) /\ Assumed
  BY <1>1 DEF SInv, LinksKeepable, Assumed
<1>3. \E order \in SetToSeqs(sym.own[m]) : \E r, T, d :
        /\ T = RenameInModule(sym, m, Changes(sym, order, r.names))
        /\ sym' = IF HasDefault(m) THEN AddDefault(T, m, d) ELSE T
  BY DEF RenameRoot
<1>4. PICK order \in SetToSeqs(sym.own[m]) : \E r, T, d :
        /\ T = RenameInModule(sym, m, Changes(sym, order, r.names))
        /\ sym' = IF HasDefault(m) THEN AddDefault(T, m, d) ELSE T
  BY <1>3
<1>5. PICK r, T, d :
        /\ T = RenameInModule(sym, m, Changes(sym, order, r.names))
        /\ sym' = IF HasDefault(m) THEN AddDefault(T, m, d) ELSE T
  BY <1>4
<1>6. PICK ren, S : ren = Changes(sym, order, r.names) /\ S = OwnVars(m)
  OBVIOUS
<1>7. sym.own[m] = S /\ IsFiniteSet(S) /\ \A v \in DOMAIN sym.name : v[1] = m => v \in S /\ sym.name[v] = v[2]
  BY <1>1, <1>2, <1>6, ProgramIs DEF Untouched
<1>8. /\ IsTables(T) /\ Changed(sym, T, m, ren)
      /\ T.own[m] = sym.own[m] \ Lost(sym, m, ren)
      /\ ExportsMoved(sym, T, m, ren, DOMAIN ren \intersect DOMAIN sym.index[m])
  BY <1>1, <1>5, <1>6, ModuleRenames
<1>9. \A v \in S : v \in DOMAIN sym.name /\ v[1] = m /\ sym.name[v] = v[2] /\ v = <<m, v[2]>>
  <2>1. \A v \in S : v \in DOMAIN sym.name /\ v[1] = m
    BY <1>1, <1>7 DEF IsTables, IsSym
  <2>2. \A v \in S : v = <<m, v[2]>>
    BY <1>6 DEF OwnVars
  <2> QED
    BY <1>7, <2>1, <2>2
<1>10. DOMAIN T.name = DOMAIN sym.name /\ \A v \in DOMAIN T.name : v \in DOMAIN sym'.name /\ (v \in S => sym'.name[v] = T.name[v])
  <2>1. DOMAIN T.name = DOMAIN sym.name
    BY <1>8 DEF Changed
  <2>2. <<m, DefaultVar>> \notin S
    BY <1>1, <1>6, ProgramIs, LinkerAssumption DEF OwnVars
  <2>3. CASE HasDefault(m)
    <3>1. sym' = AddDefault(T, m, d)
      BY <1>5, <2>3
    <3>2. IsSym(T) /\ m \in Modules
      BY <1>1, <1>8 DEF IsTables
    <3>3. /\ DOMAIN AddDefault(T, m, d).name = DOMAIN T.name \union {<<m, DefaultVar>>}
          /\ \A v \in DOMAIN T.name \ {<<m, DefaultVar>>} : AddDefault(T, m, d).name[v] = T.name[v]
      <4>1. PICK U : U = AddDefault(T, m, d)
        OBVIOUS
      <4>2. /\ DOMAIN U.name = DOMAIN T.name \union {<<m, DefaultVar>>}
            /\ \A v \in DOMAIN T.name \ {<<m, DefaultVar>>} : U.name[v] = T.name[v]
        BY <3>2, <4>1, DefaultNames
      <4> QED
        BY <4>1, <4>2
    <3> QED
      BY <2>1, <2>2, <3>1, <3>3
  <2>4. CASE ~ HasDefault(m)
    <3>1. sym' = T
      BY <1>5, <2>4
    <3> QED
      BY <2>1, <3>1
  <2> QED
    BY <2>3, <2>4
<1>11. \A v, w \in S : T.name[v] = T.name[w] => v = w
  <2> SUFFICES ASSUME NEW v \in S, NEW w \in S, T.name[v] = T.name[w] PROVE v = w
    OBVIOUS
  <2>1. v \in DOMAIN sym'.name /\ w \in DOMAIN sym'.name /\ sym'.name[v] = sym'.name[w] /\ v[1] = m /\ w[1] = m
    BY <1>9, <1>10
  <2> QED
    BY <1>2, <2>1, RootApart
<1>12. Renamed(sym, T, m, order, r.names)
  <2>1. \A v, w \in S : sym.name[v] = sym.name[w] => v = w
    BY <1>9
  <2> QED
    BY <1>1, <1>4, <1>6, <1>7, <1>8, <2>1 DEF Renamed, IsTables
<1>13. Lost(sym, m, ren) = {} /\ \A x \in DOMAIN ren : \E v \in S : sym.name[v] = x
  <2>1. \A v, w \in sym.own[m] : T.name[v] = T.name[w] => v = w
    BY <1>7, <1>11
  <2>2. /\ Lost(sym, m, Changes(sym, order, r.names)) = {}
        /\ \A x \in DOMAIN Changes(sym, order, r.names) : \E v \in sym.own[m] : sym.name[v] = x
    BY <1>12, <2>1, NoneLost
  <2> QED
    BY <1>6, <1>7, <2>2
<1>14. DOMAIN ren \subseteq prog.owns[m]
  BY <1>6, <1>9, <1>13 DEF OwnVars
<1>15. ASSUME NEW n \in prog.owns[m]
       PROVE  /\ <<m, n>> \in DOMAIN sym.name
              /\ T.name[<<m, n>>] = IF n \in DOMAIN ren THEN ren[n] ELSE n
  <2>1. PICK v \in S : v = <<m, n>>
    BY <1>6 DEF OwnVars
  <2>2. v \in DOMAIN sym.name /\ sym.name[v] = n
    BY <1>9, <2>1
  <2>3. T.name[v] = IF v \in Moved(sym, m, ren) THEN ren[sym.name[v]] ELSE sym.name[v]
    BY <1>8, <2>2 DEF Changed
  <2>4. v \in Moved(sym, m, ren) <=> n \in DOMAIN ren
    BY <1>7, <2>2 DEF Moved
  <2> QED
    BY <2>1, <2>2, <2>3, <2>4
<1>16. RootChange(T, m, ren)
  <2>1. T.own[m] = OwnVars(m)
    BY <1>6, <1>7, <1>8, <1>13
  <2>2. \A t \in Scopes \ {m} : T.own[t] = sym.own[t]
    BY <1>8 DEF Changed
  <2> QED
    BY <1>6, <1>8, <1>10, <1>11, <1>14, <1>15, <2>1, <2>2 DEF RootChange
<1>17. m \in Modules
  BY <1>1
<1> QED
  BY <1>2, <1>5, <1>16, <1>17, RootExported

(* Until the imports are replaced no getter is made; the exports of the        *)
(* modules that have been renamed have the names of their variables, those of  *)
(* the others are the source's.                                              *)
Unlinked == {"collect", "inner", "externals", "roots"}
XInv == stage \in Unlinked =>
  /\ getters = {}
  /\ LinksKeepable => /\ IsTables(sym)
                      /\ \A m \in Modules \ Walked : Fresh(sym, m)
                      /\ \A m \in Walked : Exported(sym, m)

(* What is said of the next export tables can be said of them in this state. *)
LEMMA TablesNext ==
  ASSUME prog' = prog
  PROVE  /\ IsTables(sym)' <=> IsTables(sym')
         /\ \A m : Fresh(sym, m)' <=> Fresh(sym', m)
         /\ \A m : Exported(sym, m)' <=> Exported(sym', m)
<1>1. IsTables(sym)' <=> IsTables(sym')
  BY SymNext DEF IsTables
<1>2. \A m : Fresh(sym, m)' <=> Fresh(sym', m)
  BY DEF Fresh, ExportNames
<1>3. \A m : Exported(sym, m)' <=> Exported(sym', m)
  BY DEF Exported, ExportNames, VariableOf
<1> QED
  BY <1>1, <1>2, <1>3

(* The last of some places in a sequence is one of them. *)
LEMMA LatestIs ==
  ASSUME NEW Z, NEW q \in Seq(Z), NEW S, S \subseteq DOMAIN q, S # {}
  PROVE  Max(S) \in S
<1>1. Len(q) \in Nat /\ DOMAIN q = 1 .. Len(q)
  BY ElementsOf
<1>2. S \in SUBSET Nat /\ S \subseteq 1 .. Len(q)
  BY <1>1
<1>3. IsFiniteSet(1 .. Len(q))
  BY <1>1, FS_Interval
<1>4. IsFiniteSet(S)
  BY <1>2, <1>3, FS_Subset
<1> QED
  BY <1>2, <1>4, Greatest

(* The tables begin as the source has them. *)
LEMMA BeginsFresh ==
  ASSUME Init, LinksKeepable, NEW m \in Modules
  PROVE  Fresh(sym, m)
<1>1. CInv /\ sym = SymbolsOf(prog)
  BY CInit DEF Init
<1>2. PICK q : q = prog.exports[m]
  OBVIOUS
<1>3. q \in Seq([export : Exportable, local : Names \union {Unnamed}])
  BY <1>1, <1>2, ProgramIs DEF IsProgram
<1>4. DOMAIN q = 1 .. Len(q) /\ \A z \in ToSet(q) : \E i \in DOMAIN q : q[i] = z
  BY <1>3, ElementsOf
<1>5. /\ sym.local[m] = [e \in ExportNames(prog, m) |-> q[Max({i \in DOMAIN q : q[i].export = e})].local]
      /\ sym.index[m] = [l \in {x.local : x \in ToSet(q)} |-> q[Max({i \in DOMAIN q : q[i].local = l})].export]
  BY <1>1, <1>2 DEF SymbolsOf
<1>6. \A i \in DOMAIN q : q[i] \in ToSet(q)
  BY DEF ToSet
<1>7. ASSUME NEW z \in ToSet(q)
      PROVE  sym.local[m][z.export] = z.local /\ z.local \in DOMAIN sym.index[m] /\ sym.index[m][z.local] = z.export
  <2>1. PICK i \in DOMAIN q : q[i] = z
    BY <1>4
  <2>2. PICK A, B : A = {j \in DOMAIN q : q[j].export = z.export} /\ B = {j \in DOMAIN q : q[j].local = z.local}
    OBVIOUS
  <2>3. A \subseteq DOMAIN q /\ A # {} /\ B \subseteq DOMAIN q /\ B # {}
    BY <2>1, <2>2
  <2>4. Max(A) \in A /\ Max(B) \in B
    BY <1>3, <2>3, LatestIs
  <2>5. q[Max(A)] \in ToSet(q) /\ q[Max(A)].export = z.export /\ Max(B) \in DOMAIN q /\ q[Max(B)].local = z.local
    BY <1>6, <2>2, <2>4
  <2>6. q[Max(A)] = z
    BY <1>2, <2>5 DEF LinksKeepable, Accepted, ExportsDiffer
  <2>7. Max(B) = i
    BY <1>2, <2>1, <2>5 DEF LinksKeepable, LocalsExportedOnce
  <2>8. z.export \in ExportNames(prog, m) /\ z.local \in {x.local : x \in ToSet(q)}
    BY <1>2 DEF ExportNames
  <2>9. sym.local[m][z.export] = q[Max(A)].local /\ sym.index[m][z.local] = q[Max(B)].export
    BY <1>5, <2>2, <2>8
  <2> QED
    BY <1>5, <2>1, <2>6, <2>7, <2>8, <2>9
<1>8. DOMAIN sym.local[m] = ExportNames(prog, m)
  BY <1>5
<1> QED
  BY <1>2, <1>7, <1>8 DEF Fresh

(* So it is at the start, ... *)
LEMMA XInit == Init => XInv
<1> SUFFICES ASSUME Init PROVE XInv
  OBVIOUS
<1>1. WInv /\ SInv
  BY SInit
<1>2. getters = {} /\ Walked = {} /\ DOMAIN sym.local = Modules /\ DOMAIN sym.index = Modules
  <2>1. stack = <<>> /\ visited = {} /\ sym = SymbolsOf(prog) /\ getters = {}
    BY DEF Init
  <2> QED
    BY <2>1 DEF Walked, SymbolsOf
<1>3. IsTables(sym)
  BY <1>1, <1>2 DEF IsTables, SInv
<1> QED
  BY <1>2, <1>3, BeginsFresh DEF XInv

(* A step that leaves the tables, and the modules that have been renamed. *)
LEMMA XSame ==
  ASSUME XInv, stage' \in Unlinked => stage \in Unlinked, Walked' = Walked, UNCHANGED <<prog, sym, getters>>
  PROVE  XInv'
<1>1. LinksKeepable' <=> LinksKeepable
  BY MeaningsStay
<1>2. /\ IsTables(sym)' <=> IsTables(sym)
      /\ \A m : Fresh(sym, m)' <=> Fresh(sym, m)
      /\ \A m : Exported(sym, m)' <=> Exported(sym, m)
  BY TablesNext
<1> QED
  BY <1>1, <1>2 DEF XInv

(* Renaming an inner scope touches no exports. *)
LEMMA XInner ==
  ASSUME CInv, WInv, SInv, XInv, NEW s \in Inner, RenameInner(s)
  PROVE  XInv'
<1>1. PICK order, names : sym' = RenameIn(sym, s, Changes(sym, order, names))
  BY DEF RenameInner
<1>2. /\ UNCHANGED <<prog, stage, stack, visited, getters>> /\ stage = "inner"
  BY DEF RenameInner
<1>3. s \in Scopes /\ IsSym(sym)
  BY DEF Scopes, SInv
<1>4. sym'.local = sym.local /\ sym'.index = sym.index
  BY <1>1, <1>3, ScopeKeepsExports
<1>5. Walked = {} /\ Walked' = Walked
  BY <1>2 DEF WInv, Walked
<1>6. SInv'
  BY InnerTouches
<1>7. LinksKeepable' <=> LinksKeepable
  BY <1>2, MeaningsStay
<1>8. ASSUME LinksKeepable PROVE IsTables(sym)' /\ \A m \in Modules : Fresh(sym, m)'
  <2>1. IsTables(sym) /\ \A m \in Modules : Fresh(sym, m)
    BY <1>2, <1>5, <1>8 DEF XInv, Unlinked
  <2>2. IsTables(sym)'
    BY <1>4, <1>6, <2>1 DEF IsTables, SInv
  <2>3. \A m \in Modules : Fresh(sym', m)
    BY <1>4, <2>1 DEF Fresh
  <2> QED
    BY <1>2, <2>2, <2>3, TablesNext
<1>9. getters' = {}
  BY <1>2 DEF XInv, Unlinked
<1> QED
  BY <1>2, <1>5, <1>7, <1>8, <1>9 DEF XInv

(* Renaming a module gives its exports the names of its variables, and leaves  *)
(* the others.                                                               *)
LEMMA XRoot ==
  ASSUME NumeralsDiffer, CInv, WInv, SInv, NInv, XInv, RenameRoot
  PROVE  XInv'
<1>1. PICK m : m = Last(stack)
  OBVIOUS
<1>2. stage = "roots" /\ stage' = stage /\ prog' = prog /\ getters' = getters
  BY DEF RenameRoot
<1>3. LinksKeepable' <=> LinksKeepable
  BY <1>2, MeaningsStay
<1>4. /\ m \in Modules \ Walked /\ Walked' = Walked \union {m}
      /\ \A v \in DOMAIN sym'.name : v[1] # m => v \in DOMAIN sym.name /\ sym'.name[v] = sym.name[v]
  BY <1>1, RootTables
<1>5. ASSUME LinksKeepable
      PROVE  /\ IsTables(sym')
             /\ \A k \in Modules \ Walked' : Fresh(sym', k)
             /\ \A k \in Walked' : Exported(sym', k)
  <2>1. IsTables(sym) /\ (\A k \in Modules \ Walked : Fresh(sym, k)) /\ (\A k \in Walked : Exported(sym, k))
    BY <1>2, <1>5 DEF XInv, Unlinked
  <2>2. Fresh(sym, m)
    BY <1>4, <2>1
  <2>3. /\ IsTables(sym') /\ Exported(sym', m)
        /\ \A k \in Modules \ {m} : sym'.local[k] = sym.local[k] /\ sym'.index[k] = sym.index[k]
        /\ \A t \in Scopes \ {m} : sym'.own[t] = sym.own[t]
        /\ DOMAIN sym.name \subseteq DOMAIN sym'.name
    BY <1>1, <1>5, <2>1, <2>2, RootDoes
  <2>4. ASSUME NEW k \in Modules \ Walked' PROVE Fresh(sym', k)
    <3>1. k \in Modules \ {m} /\ Fresh(sym, k)
      BY <1>4, <2>1, <2>4
    <3> QED
      BY <2>3, <3>1 DEF Fresh
  <2>5. ASSUME NEW k \in Walked, k # m PROVE Exported(sym', k)
    <3>1. k \in Modules /\ k \in Scopes /\ Exported(sym, k)
      BY <2>1, <2>5 DEF Walked, CInv, Scopes
    <3>2. sym'.local[k] = sym.local[k] /\ sym'.index[k] = sym.index[k] /\ sym'.own[k] = sym.own[k]
      BY <2>3, <2>5, <3>1
    <3>3. \A l : VariableOf(k, l)[1] = k
      BY DEF VariableOf
    <3>4. \A v \in DOMAIN sym.name : v[1] = k => v \in DOMAIN sym'.name /\ sym'.name[v] = sym.name[v]
      BY <1>4, <2>3, <2>5
    <3>5. \A v \in DOMAIN sym'.name : v[1] = k => v \in DOMAIN sym.name
      BY <1>4, <2>5
    <3>6. \A v \in DOMAIN sym'.name : v[1] = k => v \in sym'.own[k]
      BY <3>1, <3>2, <3>5 DEF Exported
    <3>7. ASSUME NEW z \in ToSet(prog.exports[k])
          PROVE  /\ VariableOf(k, z.local) \in DOMAIN sym'.name
                 /\ sym'.local[k][z.export] = sym'.name[VariableOf(k, z.local)]
                 /\ z.local # Unnamed => /\ sym'.name[<<k, z.local>>] \in DOMAIN sym'.index[k]
                                         /\ sym'.index[k][sym'.name[<<k, z.local>>]] = z.export
      <4>1. /\ VariableOf(k, z.local) \in DOMAIN sym.name
            /\ sym.local[k][z.export] = sym.name[VariableOf(k, z.local)]
            /\ z.local # Unnamed => /\ sym.name[<<k, z.local>>] \in DOMAIN sym.index[k]
                                    /\ sym.index[k][sym.name[<<k, z.local>>]] = z.export
        BY <3>1 DEF Exported
      <4>2. PICK v : v = VariableOf(k, z.local)
        OBVIOUS
      <4>3. v \in DOMAIN sym'.name /\ sym'.name[v] = sym.name[v]
        BY <3>3, <3>4, <4>1, <4>2
      <4>4. z.local # Unnamed => v = <<k, z.local>>
        BY <4>2 DEF VariableOf
      <4> QED
        BY <3>2, <4>1, <4>2, <4>3, <4>4
    <3>8. DOMAIN sym'.local[k] = ExportNames(prog, k)
      BY <3>1, <3>2 DEF Exported
    <3> QED
      BY <3>6, <3>7, <3>8 DEF Exported
  <2> QED
    BY <1>4, <2>3, <2>4, <2>5
<1>6. getters' = {}
  BY <1>2 DEF XInv, Unlinked
<1> QED
  BY <1>2, <1>3, <1>5, <1>6, TablesNext DEF XInv

(* ... and every step keeps it so. *)
LEMMA XStep ==
  ASSUME NumeralsDiffer, CInv, WInv, SInv, NInv, XInv, [Next]_vars
  PROVE  XInv'
<1>1. CASE UNCHANGED vars
  BY <1>1, XSame DEF vars, Walked
<1>2. CASE CollectExports
  BY <1>2, XSame DEF CollectExports, Walked, Unlinked
<1>3. CASE \E s \in Inner : RenameInner(s)
  BY <1>3, XInner
<1>4. CASE MergeGenerators
  BY <1>4, XSame DEF MergeGenerators, Walked, Unlinked
<1>5. CASE GenAst
  <2>1. stack' = <<Entry>> /\ visited' = {Entry} /\ stage' = "roots" /\ stage = "externals"
        /\ UNCHANGED <<prog, sym, getters>>
    BY <1>5 DEF GenAst
  <2>2. Walked' = {}
    BY <2>1, BeginDoes
  <2>3. Walked = {}
    BY <2>1 DEF WInv, Walked
  <2> QED
    BY <2>1, <2>2, <2>3, XSame DEF Unlinked
<1>6. CASE Descend
  <2>1. Walked' = Walked
    BY <1>6, DescendDoes
  <2> QED
    BY <1>6, <2>1, XSame DEF Descend
<1>7. CASE RenameRoot
  BY <1>7, XRoot
<1>8. CASE RootsRenamed \/ ReplaceImports \/ Finish
  <2>1. stage' \in {"imports", "done", "failed"}
    BY <1>8 DEF RootsRenamed, ReplaceImports, Finish
  <2> QED
    BY <2>1 DEF XInv, Unlinked
<1>9. CASE Stop
  BY <1>9, XSame DEF Stop, vars, Walked
<1> QED
  BY <1>1, <1>2, <1>3, <1>4, <1>5, <1>6, <1>7, <1>8, <1>9 DEF Next

(* An info that has what x has, under names of the bundle. *)
Keeps(x, y) ==
  /\ y.names = x.names /\ DOMAIN y.alias \subseteq ToSet(y.names)
  /\ x.ns # Unnamed => y.ns # Unnamed
  /\ x.default # Unnamed => y.default # Unnamed

(* No generated name is empty. *)
LEMMA NamesNotEmpty ==
  ASSUME NEW G, Sound(G), NEW w, Len(w) \in Nat, \A i \in 1 .. Len(w) : G.minify \/ Plain(w[i]), NEW i \in 1 .. Len(w)
  PROVE  NextNames(G, w).names[i] # Unnamed
<1>1. PICK x : x = NextNames(G, w).names[i]
  OBVIOUS
<1>2. Chosen(G, NextNames(G, w).gen, w[i], x)
  BY <1>1, NextNamesAre DEF Sound
<1>3. CASE G.minify
  <2>1. PICK k \in Nat : x = GenAName(k)
    BY <1>2, <1>3 DEF Chosen
  <2> QED
    BY <1>1, <2>1, NamesInjective DEF Unnamed
<1>4. CASE ~ G.minify
  <2>1. x = w[i] \/ IsNumbered(x)
    BY <1>2, <1>4 DEF Chosen
  <2>2. w[i] # <<>>
    BY <1>4 DEF Plain
  <2>3. ~ IsNumbered(<<>>)
    BY DEF IsNumbered
  <2> QED
    BY <1>1, <2>1, <2>2, <2>3 DEF Unnamed
<1> QED
  BY <1>3, <1>4

(* A library gets names for all it had. *)
LEMMA DistributeNames ==
  ASSUME NEW G, Sound(G), NEW f, DOMAIN f = Libraries, NEW l \in Libraries, IsInfo(l, f[l]),
         NEW acc, acc = [gen |-> G, infos |-> f], G.minify = prog.minify
  PROVE  Keeps(f[l], Distribute(acc, l).infos[l])
<1>1. PICK n \in Local(l) \union {Unnamed}, d \in Local(l) \union {Unnamed} : \E s \in Seq(Sourced) : \E a :
        f[l] = [ns |-> n, default |-> d, names |-> s, alias |-> a]
  BY DEF IsInfo
<1>2. PICK s \in Seq(Sourced) : \E a : f[l] = [ns |-> n, default |-> d, names |-> s, alias |-> a]
  BY <1>1
<1>3. f[l].ns = n /\ f[l].default = d /\ f[l].names = s
  BY <1>2
<1>4. acc.gen = G /\ acc.infos = f
  OBVIOUS
<1>5. PICK both : both = Named(n) \o Named(d)
  OBVIOUS
<1>6. PICK w, r : w = both \o s /\ r = NextNames(G, w)
  OBVIOUS
<1>7. Wants(l, n, d, s, both, w)
  BY <1>1, <1>2, <1>5, <1>6 DEF Wants
<1>8. /\ Len(both) \in Nat /\ Len(s) \in Nat /\ Len(w) = Len(both) + Len(s) /\ DOMAIN s = 1 .. Len(s)
      /\ \A i \in 1 .. Len(w) : G.minify \/ Plain(w[i])
      /\ n # Unnamed \/ d # Unnamed => Len(both) >= 1
  BY <1>7, WantedOf
<1>9. \A i \in 1 .. Len(w) : r.names[i] # Unnamed
  <2>1. Len(w) \in Nat
    BY <1>8
  <2> QED
    BY <1>6, <1>8, <2>1, NamesNotEmpty
<1>10. PICK A : A = {i \in DOMAIN s : G.minify \/ r.names[Len(both) + i] # s[i]}
  OBVIOUS
<1>11. PICK al : al = [x \in {s[i] : i \in A} |-> r.names[Len(both) + Max({i \in A : s[i] = x})]]
  OBVIOUS
<1>12. PICK N, D : /\ N = (IF n = Unnamed THEN Unnamed ELSE r.names[1])
                   /\ D = (IF d = Unnamed THEN Unnamed ELSE r.names[Len(both)])
  OBVIOUS
<1>13. PICK info : info = [ns |-> N, default |-> D, names |-> s, alias |-> al]
  OBVIOUS
<1>14. PICK U : U = [f EXCEPT ![l] = info]
  OBVIOUS
<1>15. Distribute(acc, l) = [gen |-> r.gen, infos |-> U]
  <2>1. Distribute(acc, l) = DistributeOf(G, f, l, n, d, s, both, r)
    <3>1. acc.infos[l].ns = n /\ acc.infos[l].default = d /\ acc.infos[l].names = s
      BY <1>3, <1>4
    <3> QED
      BY <1>4, <1>5, <1>6, <3>1, DistributeReads
  <2>2. DistributeOf(G, f, l, n, d, s, both, r) = [gen |-> r.gen, infos |-> U]
    BY <1>10, <1>11, <1>12, <1>13, <1>14 DEF DistributeOf
  <2> QED
    BY <2>1, <2>2
<1>16. Distribute(acc, l).infos[l] = info
  BY <1>14, <1>15
<1>17. info.names = s /\ info.alias = al /\ info.ns = N /\ info.default = D
  BY <1>13
<1>18. DOMAIN al \subseteq ToSet(s)
  <2>1. DOMAIN al = {s[i] : i \in A} /\ A \subseteq DOMAIN s
    BY <1>10, <1>11
  <2> QED
    BY <2>1 DEF ToSet
<1>19. (n # Unnamed => N # Unnamed) /\ (d # Unnamed => D # Unnamed)
  <2>1. n # Unnamed => 1 \in 1 .. Len(w)
    BY <1>8
  <2>2. d # Unnamed => Len(both) \in 1 .. Len(w)
    BY <1>8
  <2> QED
    BY <1>9, <1>12, <2>1, <2>2
<1> QED
  BY <1>3, <1>16, <1>17, <1>18, <1>19 DEF Keeps

(* ... and keeps them while others get theirs. *)
EDist(acc0, k, acc) == DInv(acc0, k, acc) /\ \A j \in 1 .. k : Keeps(acc0.infos[acc0.ids[j]], acc.infos[acc0.ids[j]])

(* Naming the imports of one library keeps what was heard of all. *)
LEMMA DistributeKeepsNames ==
  ASSUME NumeralsDiffer, NEW acc0, HInv(acc0), NEW n \in Nat, n = Len(acc0.ids), NEW k \in 1 .. n,
         NEW acc, EDist(acc0, k - 1, acc)
  PROVE  EDist(acc0, k, Distribute(acc, acc0.ids[k]))
<1>1. PICK ids, l : ids = acc0.ids /\ l = ids[k]
  OBVIOUS
<1>2. ids \in Seq(Libraries) /\ Once(ids) /\ n = Len(ids)
  BY <1>1 DEF HInv
<1>3. l \in Libraries /\ \A j \in 1 .. k - 1 : ids[j] # l /\ ids[j] \in Libraries /\ j \in 1 .. n
  BY <1>1, <1>2 DEF Once
<1>4. DInv(acc0, k - 1, acc)
  BY DEF EDist
<1>5. PICK G, f : acc = [gen |-> G, infos |-> f]
  BY <1>4 DEF DInv
<1>6. acc.gen = G /\ acc.infos = f
  BY <1>5
<1>7. Sound(G) /\ G.minify = prog.minify /\ DOMAIN f = Libraries /\ f[l] = acc0.infos[l]
  BY <1>1, <1>3, <1>4, <1>6 DEF DInv
<1>8. IsInfo(l, f[l])
  BY <1>3, <1>7 DEF HInv
<1>9. PICK R : R = Distribute(acc, l)
  OBVIOUS
<1>10. Keeps(f[l], R.infos[l])
  BY <1>3, <1>5, <1>7, <1>8, <1>9, DistributeNames
<1>11. \A x \in Libraries \ {l} : R.infos[x] = f[x]
  <2>1. DistributedTo(G, f, l, R)
    BY <1>3, <1>5, <1>7, <1>8, <1>9, DistributeDoes
  <2> QED
    BY <2>1 DEF DistributedTo
<1>12. DInv(acc0, k, R)
  BY <1>1, <1>4, <1>9, DistributeKeeps
<1>13. ASSUME NEW j \in 1 .. k PROVE Keeps(acc0.infos[ids[j]], R.infos[ids[j]])
  <2>1. CASE j = k
    BY <1>1, <1>7, <1>10, <2>1
  <2>2. CASE j # k
    <3>1. j \in 1 .. k - 1
      BY <2>2
    <3>2. R.infos[ids[j]] = f[ids[j]] /\ Keeps(acc0.infos[ids[j]], f[ids[j]])
      BY <1>1, <1>3, <1>6, <1>11, <3>1 DEF EDist
    <3> QED
      BY <3>2
  <2> QED
    BY <2>1, <2>2
<1> QED
  BY <1>1, <1>9, <1>12, <1>13 DEF EDist

(* So does naming those of every library, whose imports keep their names. *)
LEMMA DistributedNames ==
  ASSUME NumeralsDiffer, NEW acc0, HInv(acc0), NEW n \in Nat, n = Len(acc0.ids),
         Sound(gen), gen.minify = prog.minify, Taken(gen, CallBindings)
  PROVE  EDist(acc0, n, Distributed(acc0))
<1>2. PICK h : DistributeSteps(acc0, n, h) /\ Distributed(acc0) = h[n]
  BY DistributedSteps
<1>3. EDist(acc0, 0, h[0])
  <2>1. PICK G, f : G = gen /\ f = acc0.infos
    OBVIOUS
  <2>2. h[0] = [gen |-> G, infos |-> f]
    BY <1>2, <2>1 DEF DistributeSteps, NoneDistributed
  <2>3. h[0].gen = G /\ h[0].infos = f
    BY <2>2
  <2>4. NamesOf(acc0.ids, 0, f) = {}
    BY DEF NamesOf
  <2>5. DOMAIN f = Libraries
    BY <2>1 DEF HInv
  <2>6. DInv(acc0, 0, h[0])
    BY <2>1, <2>2, <2>3, <2>4, <2>5 DEF DInv, Later
  <2> QED
    BY <2>6 DEF EDist
<1> DEFINE T == {k \in Nat : k <= n => EDist(acc0, k, h[k])}
<1>4. ASSUME NEW k \in Nat, \A j \in 0 .. k - 1 : j \in T PROVE k \in T
  <2>1. CASE k = 0
    BY <1>3, <2>1
  <2>2. CASE k > n
    BY <2>2
  <2>3. CASE k # 0 /\ k <= n
    <3>1. k - 1 \in 0 .. k - 1 /\ k - 1 <= n /\ k \in 1 .. n
      BY <2>3
    <3>2. EDist(acc0, k - 1, h[k - 1])
      BY <1>4, <3>1
    <3>3. h[k] = Distribute(h[k - 1], acc0.ids[k])
      BY <1>2, <3>1 DEF DistributeSteps
    <3>4. EDist(acc0, k, h[k])
      BY <3>1, <3>2, <3>3, DistributeKeepsNames
    <3> QED
      BY <3>4
  <2> QED
    BY <2>1, <2>2, <2>3
<1>5. T \in SUBSET Nat
  OBVIOUS
<1>6. T = Nat
  <2> HIDE DEF T
  <2> QED
    BY <1>4, <1>5, StrongInduction
<1>7. n \in T
  BY <1>6
<1> QED
  BY <1>2, <1>7

(* An info has what the import i wants of its library. *)
Serves(x, i) ==
  /\ i.source = Star => x.ns # Unnamed
  /\ i.source = DefaultName => x.default # Unnamed

(* After an import an info serves it, and what it served before. *)
LEMMA ImportedServes ==
  ASSUME NEW i, LibraryImport(i), NEW x, IsInfo(i.from, x)
  PROVE  /\ Serves(Imported(x, i), i)
         /\ \A j : Serves(x, j) => Serves(Imported(x, i), j)
<1>1. PICK l, local, source : l = i.from /\ local = i.local /\ source = i.source
  OBVIOUS
<1>2. local # Unnamed
  BY <1>1, SourcedPlain DEF LibraryImport, Local
<1>3. PICK n, e, s, a : x = [ns |-> n, default |-> e, names |-> s, alias |-> a]
  BY DEF IsInfo
<1>4. x.names = s /\ x.ns = n /\ x.default = e
  BY <1>3
<1>5. PICK y : y = Imported(x, i)
  OBVIOUS
<1>6. \/ source = Star /\ y.ns = local /\ y.default = e
      \/ source = DefaultName /\ y.ns = n /\ y.default = local
      \/ source # Star /\ source # DefaultName /\ y.ns = n /\ y.default = e
  <2>1. CASE source = Star
    <3>1. PICK p : p = Append(s, local)
      OBVIOUS
    <3>2. y = [x EXCEPT !.ns = i.local, !.names = Append(@, i.local)]
      BY <1>1, <1>5, <2>1 DEF Imported, Star, DefaultName
    <3>3. y = [x EXCEPT !.ns = local, !.names = p]
      BY <1>1, <1>4, <3>1, <3>2
    <3>4. y = [ns |-> local, default |-> e, names |-> p, alias |-> a]
      BY <1>3, <3>3, InfoFields
    <3> QED
      BY <2>1, <3>4
  <2>2. CASE source = DefaultName
    <3>1. source # Star
      BY <2>2 DEF Star, DefaultName
    <3>2. y = [x EXCEPT !.default = local]
      BY <1>1, <1>5, <2>2, <3>1 DEF Imported
    <3>3. y = [ns |-> n, default |-> local, names |-> s, alias |-> a]
      BY <1>3, <3>2, InfoFields
    <3> QED
      BY <2>2, <3>3
  <2>3. CASE source # Star /\ source # DefaultName
    <3>1. PICK p : p = Append(s, source)
      OBVIOUS
    <3>2. y = [x EXCEPT !.names = p]
      BY <1>1, <1>4, <1>5, <2>3, <3>1 DEF Imported
    <3>3. y = [ns |-> n, default |-> e, names |-> p, alias |-> a]
      BY <1>3, <3>2, InfoFields
    <3> QED
      BY <2>3, <3>3
  <2> QED
    BY <2>1, <2>2, <2>3
<1>7. Star # DefaultName
  BY DEF Star, DefaultName
<1> QED
  BY <1>1, <1>2, <1>4, <1>5, <1>6, <1>7 DEF Serves

(* The infos serve the first k imports. *)
Heard(w, k, acc) == HInv(acc) /\ \A j \in 1 .. k : Serves(acc.infos[w[j].from], w[j])

(* One more import declaration is heard, and the earlier ones stay heard. *)
LEMMA HandleHears ==
  ASSUME NEW w, NEW k \in Nat \ {0}, NEW acc, Heard(w, k - 1, acc), \A j \in 1 .. k : LibraryImport(w[j])
  PROVE  Heard(w, k, HandleImport(acc, w[k]))
<1>1. PICK f, d : acc = [infos |-> f, ids |-> d]
  BY DEF Heard, HInv
<1>2. acc.infos = f /\ acc.ids = d
  BY <1>1
<1>3. DOMAIN f = Libraries /\ (\A l \in Libraries : IsInfo(l, f[l])) /\ \A j \in 1 .. k - 1 : Serves(f[w[j].from], w[j])
  BY <1>2 DEF Heard, HInv
<1>4. PICK i, l : i = w[k] /\ l = i.from
  OBVIOUS
<1>5. LibraryImport(i) /\ l \in Libraries
  <2>1. k \in 1 .. k
    OBVIOUS
  <2> QED
    BY <1>4, <2>1 DEF LibraryImport
<1>6. PICK U, e, x : /\ x = Imported(f[l], i) /\ U = [f EXCEPT ![l] = x]
                     /\ e = IF Contains(d, l) THEN d ELSE Append(d, l)
  OBVIOUS
<1>7. HandleImport(acc, i) = [infos |-> U, ids |-> e]
  BY <1>2, <1>4, <1>6 DEF HandleImport
<1>8. HandleImport(acc, i).infos = U
  BY <1>7
<1>9. Serves(x, i) /\ \A j : Serves(f[l], j) => Serves(x, j)
  BY <1>3, <1>4, <1>5, <1>6, ImportedServes
<1>10. U[l] = x /\ \A m \in Libraries \ {l} : U[m] = f[m]
  BY <1>3, <1>5, <1>6
<1>11. HInv(HandleImport(acc, i))
  BY <1>5, HandleKeeps DEF Heard
<1>12. ASSUME NEW j \in 1 .. k PROVE Serves(U[w[j].from], w[j])
  <2>1. CASE j = k
    BY <1>4, <1>9, <1>10, <2>1
  <2>2. CASE j # k
    <3>1. j \in 1 .. k - 1 /\ w[j].from \in Libraries
      BY <2>2 DEF LibraryImport
    <3>2. Serves(f[w[j].from], w[j])
      BY <1>3, <3>1
    <3>3. CASE w[j].from = l
      BY <1>9, <1>10, <3>2, <3>3
    <3>4. CASE w[j].from # l
      BY <1>10, <3>1, <3>2, <3>4
    <3> QED
      BY <3>3, <3>4
  <2> QED
    BY <2>1, <2>2
<1> QED
  BY <1>4, <1>8, <1>11, <1>12 DEF Heard

(* At the end all of them are. *)
LEMMA HandledHears ==
  ASSUME external = [l \in Libraries |-> NoImports], NEW w, Len(w) \in Nat,
         \A k \in 1 .. Len(w) : LibraryImport(w[k])
  PROVE  Heard(w, Len(w), Handled(w))
<1>1. PICK n : n = Len(w)
  OBVIOUS
<1>2. PICK h : HandleSteps(w, n, h) /\ Handled(w) = h[n]
  BY <1>1, HandledSteps
<1>3. Heard(w, 0, h[0])
  <2>1. PICK f, d : f = [l \in Libraries |-> NoImports] /\ d = <<>>
    OBVIOUS
  <2>2. h[0] = [infos |-> f, ids |-> d]
    BY <1>2, <2>1 DEF HandleSteps, NoneHandled
  <2>3. h[0].infos = f /\ h[0].ids = d
    BY <2>2
  <2>4. \A l : IsInfo(l, NoImports)
    <3>1. (\A l : Unnamed \in Local(l) \union {Unnamed}) /\ <<>> \in Seq(Sourced)
      OBVIOUS
    <3> QED
      BY <3>1 DEF IsInfo, NoImports
  <2>5. DOMAIN f = Libraries /\ \A l \in Libraries : f[l] = NoImports
    BY <2>1
  <2>6. d \in Seq(Libraries) /\ Once(d)
    BY <2>1, OnEntry
  <2>7. HInv(h[0])
    BY <2>2, <2>3, <2>4, <2>5, <2>6 DEF HInv
  <2> QED
    BY <2>7 DEF Heard
<1> DEFINE T == {k \in Nat : k <= n => Heard(w, k, h[k])}
<1>4. ASSUME NEW k \in Nat, \A j \in 0 .. k - 1 : j \in T PROVE k \in T
  <2>1. CASE k = 0
    BY <1>3, <2>1
  <2>2. CASE k > n
    BY <1>1, <2>2
  <2>3. CASE k # 0 /\ k <= n
    <3>1. k - 1 \in 0 .. k - 1 /\ k - 1 <= n /\ k \in 1 .. n /\ k \in Nat \ {0}
      BY <1>1, <2>3
    <3>2. Heard(w, k - 1, h[k - 1])
      BY <1>4, <3>1
    <3>3. h[k] = HandleImport(h[k - 1], w[k])
      BY <1>2, <3>1 DEF HandleSteps
    <3>4. \A j \in 1 .. k : LibraryImport(w[j])
      BY <1>1, <2>3
    <3>5. Heard(w, k, h[k])
      BY <3>1, <3>2, <3>3, <3>4, HandleHears
    <3> QED
      BY <3>5
  <2> QED
    BY <1>1, <2>1, <2>2, <2>3
<1>5. T \in SUBSET Nat
  OBVIOUS
<1>6. T = Nat
  <2> HIDE DEF T
  <2> QED
    BY <1>4, <1>5, StrongInduction
<1>7. n \in T
  BY <1>1, <1>6
<1> QED
  BY <1>1, <1>2, <1>7

(* Every import of a library arrives. *)
LEMMA AllArrive ==
  ASSUME CInv, NEW arrival \in Arrivals, NEW m \in Modules, NEW i \in ToSet(prog.imports[m]), i.from \in Libraries
  PROVE  \E k \in 1 .. Len(Arrived(arrival)) : Arrived(arrival)[k] = i
<1>1. PICK n : n = Cardinality(LibraryImports)
  OBVIOUS
<1>2. n \in Nat /\ DOMAIN arrival = 1 .. n /\ \A v \in LibraryImports : \E k \in 1 .. n : arrival[k] = v
  BY <1>1, LibraryImportsFinite, OrderCovers DEF Arrivals
<1>3. PICK w : w = Arrived(arrival)
  OBVIOUS
<1>4. /\ DOMAIN w = 1 .. n /\ Len(w) = n
      /\ \A k \in 1 .. n : w[k] = prog.imports[arrival[k][1]][arrival[k][2]]
  <2>1. w = [k \in 1 .. n |-> prog.imports[arrival[k][1]][arrival[k][2]]]
    BY <1>2, <1>3 DEF Arrived
  <2> QED
    BY <1>2, <2>1
<1>5. PICK j \in DOMAIN prog.imports[m] : prog.imports[m][j] = i
  BY DEF ToSet
<1>6. PICK v : v = <<m, j>>
  OBVIOUS
<1>7. v \in LibraryImports
  BY <1>5, <1>6 DEF LibraryImports
<1>8. PICK k \in 1 .. n : arrival[k] = v
  BY <1>2, <1>7
<1>9. w[k] = i
  BY <1>4, <1>5, <1>6, <1>8
<1> QED
  BY <1>3, <1>4, <1>9

(* From then on the infos of all libraries have what any import wants. *)
EInv == Assumed /\ stage \in {"roots", "imports", "done", "failed"} => \A l \in Libraries : Held(l)

(* What is held in the next state can be said in this one. *)
LEMMA HeldNext ==
  ASSUME prog' = prog, NEW l, NEW x, x = external'[l],
         x.names \in Seq(Names) /\ DOMAIN x.alias \subseteq ToSet(x.names),
         \A k \in Modules : \A i \in ToSet(prog.imports[k]) : i.from = l => Serves(x, i)
  PROVE  Held(l)'
BY DEF Held, Serves

(* GenAst hears every import of a library. *)
LEMMA EGenAst ==
  ASSUME NumeralsDiffer, CInv, WInv, SInv, NInv, Assumed, GenAst, NEW l \in Libraries
  PROVE  Held(l)'
<1>1. stage = "externals" /\ prog' = prog
  BY DEF GenAst
<1>2. PICK arrival \in Arrivals : external' = Distributed(Handled(Arrived(arrival))).infos
  BY DEF GenAst, Arrived
<1>3. PICK w, acc0, R : w = Arrived(arrival) /\ acc0 = Handled(w) /\ R = Distributed(acc0)
  OBVIOUS
<1>4. external = [k \in Libraries |-> NoImports]
  BY <1>1 DEF SInv
<1>5. Len(w) \in Nat /\ \A k \in 1 .. Len(w) : LibraryImport(w[k])
  BY <1>3, ArrivedAre DEF Assumed
<1>6. Heard(w, Len(w), acc0)
  BY <1>3, <1>4, <1>5, HandledHears
<1>7. HInv(acc0) /\ \A j \in 1 .. Len(w) : Serves(acc0.infos[w[j].from], w[j])
  BY <1>6 DEF Heard
<1>8. PICK n, ids : ids = acc0.ids /\ n = Len(ids)
  OBVIOUS
<1>9. n \in Nat /\ ids \in Seq(Libraries) /\ \A k \in Libraries \ On(ids) : acc0.infos[k] = NoImports
  BY <1>7, <1>8 DEF HInv
<1>10. Sound(gen) /\ gen.minify = prog.minify /\ Taken(gen, CallBindings)
  <2>1. Taken(gen, Bound) /\ CallBindings \subseteq Bound
    BY DEF NInv, Bound
  <2> QED
    BY <2>1, TakenFewer DEF NInv
<1>11. EDist(acc0, n, R)
  BY <1>3, <1>7, <1>8, <1>9, <1>10, DistributedNames
<1>12. /\ \A k \in Libraries : (\A j \in 1 .. n : ids[j] # k) => R.infos[k] = acc0.infos[k]
       /\ \A j \in 1 .. n : Keeps(acc0.infos[ids[j]], R.infos[ids[j]])
  BY <1>8, <1>11 DEF EDist, DInv
<1>13. PICK x, y : x = acc0.infos[l] /\ y = R.infos[l]
  OBVIOUS
<1>14. x.names \in Seq(Names)
  <2>1. PICK s \in Seq(Sourced) : x.names = s
    <3>1. IsInfo(l, x)
      BY <1>7, <1>13 DEF HInv
    <3>2. PICK a, b : \E s \in Seq(Sourced) : \E c : x = [ns |-> a, default |-> b, names |-> s, alias |-> c]
      BY <3>1 DEF IsInfo
    <3>3. PICK s \in Seq(Sourced) : \E c : x = [ns |-> a, default |-> b, names |-> s, alias |-> c]
      BY <3>2
    <3>4. x.names = s
      BY <3>3
    <3> QED
      BY <3>4
  <2>2. Sourced \subseteq Names
    BY DEF Sourced
  <2> QED
    BY <2>1, <2>2, Wider
<1>15. Keeps(x, y)
  <2>1. CASE l \in On(ids)
    <3>1. PICK j \in 1 .. n : ids[j] = l
      BY <1>8, <2>1 DEF On
    <3> QED
      BY <1>12, <1>13, <3>1
  <2>2. CASE l \notin On(ids)
    <3>1. x = NoImports
      BY <1>9, <1>13, <2>2
    <3>2. y = x
      BY <1>8, <1>12, <1>13, <2>2 DEF On
    <3>3. x.alias = <<>> /\ DOMAIN x.alias = {}
      BY <3>1 DEF NoImports
    <3> QED
      BY <3>2, <3>3 DEF Keeps
  <2> QED
    BY <2>1, <2>2
<1>16. ASSUME NEW k \in Modules, NEW i \in ToSet(prog.imports[k]), i.from = l PROVE Serves(y, i)
  <2>1. PICK j \in 1 .. Len(w) : w[j] = i
    BY <1>3, <1>16, AllArrive
  <2>2. Serves(x, i)
    BY <1>7, <1>13, <1>16, <2>1
  <2> QED
    BY <1>15, <2>2 DEF Serves, Keeps
<1>17. y = external'[l]
  BY <1>2, <1>3, <1>13
<1>18. y.names \in Seq(Names) /\ DOMAIN y.alias \subseteq ToSet(y.names)
  BY <1>14, <1>15 DEF Keeps
<1> QED
  BY <1>1, <1>16, <1>17, <1>18, HeldNext

(* The infos are held from there on. *)
LEMMA EStep ==
  ASSUME NumeralsDiffer, CInv, WInv, SInv, NInv, EInv, [Next]_vars
  PROVE  EInv'
<1>1. prog' = prog /\ (Assumed' <=> Assumed)
  BY ProgramStays, BoundNext
<1>2. CASE GenAst
  BY <1>1, <1>2, EGenAst DEF EInv
<1>3. CASE ~ GenAst
  <2>1. external' = external
    BY <1>3 DEF Next, vars, CollectExports, RenameInner, MergeGenerators, Descend, RenameRoot, RootsRenamed,
                ReplaceImports, Finish, Stop
  <2>2. stage' \in {"roots", "imports", "done", "failed"} => stage \in {"roots", "imports", "done", "failed"}
    BY <1>3 DEF Next, vars, CollectExports, RenameInner, MergeGenerators, Descend, RenameRoot, RootsRenamed,
                ReplaceImports, Finish, Stop
  <2>3. \A l : Held(l)' <=> Held(l)
    BY <1>1, <2>1, HeldStays
  <2> QED
    BY <1>1, <2>2, <2>3 DEF EInv
<1> QED
  BY <1>2, <1>3

(* Every variable is a pair. *)
VInv == \A v \in DOMAIN sym.name : v = <<v[1], v[2]>>

(* So it is at the start, ... *)
LEMMA VInit == Init => VInv
<1> SUFFICES ASSUME Init PROVE VInv
  OBVIOUS
<1>1. PICK V : V = UNION {OwnVars(s) : s \in Scopes}
  OBVIOUS
<1>2. sym.name = [v \in V |-> v[2]]
  BY <1>1 DEF Init, SymbolsOf, OwnVars
<1>3. \A v \in V : v = <<v[1], v[2]>>
  BY <1>1 DEF OwnVars
<1> QED
  BY <1>2, <1>3 DEF VInv

(* ... and no step makes another. *)
LEMMA VStep ==
  ASSUME CInv, WInv, SInv, VInv, [Next]_vars
  PROVE  VInv'
<1>1. CASE \E s \in Inner : RenameInner(s)
  <2>1. PICK s \in Inner : RenameInner(s)
    BY <1>1
  <2>2. PICK order, names : sym' = RenameIn(sym, s, Changes(sym, order, names))
    BY <2>1 DEF RenameInner
  <2>3. s \in Scopes /\ IsSym(sym)
    BY DEF Scopes, SInv
  <2>4. DOMAIN sym'.name = DOMAIN sym.name
    BY <2>2, <2>3, ScopeRenames DEF Changed
  <2> QED
    BY <2>4 DEF VInv
<1>2. CASE RenameRoot
  <2>1. PICK m : m = Last(stack)
    OBVIOUS
  <2>2. \A v \in DOMAIN sym'.name : v[1] # m => v \in DOMAIN sym.name
    BY <1>2, <2>1, RootTables
  <2>3. \A v \in DOMAIN sym'.name : v[1] = m => v \in OwnVars(m) \/ v = <<m, DefaultVar>>
    BY <1>2, <2>1, RootTables
  <2>4. \A v \in OwnVars(m) \union {<<m, DefaultVar>>} : v = <<v[1], v[2]>>
    BY DEF OwnVars
  <2> QED
    BY <2>2, <2>3, <2>4 DEF VInv
<1>3. CASE ReplaceImports
  <2>1. PICK m, r : m = Last(stack) /\ r = Replaced(m)
    OBVIOUS
  <2>2. sym' = r.sym /\ stack # <<>>
    BY <1>3, <2>1 DEF ReplaceImports
  <2>3. m \in Modules
    BY <2>1, <2>2, TopIs
  <2>4. PICK n : n = Len(prog.imports[m])
    OBVIOUS
  <2>5. n \in Nat
    <3>1. prog.imports[m] \in Seq([from : Modules \union Libraries, source : Exportable \union {Star}, local : Names])
      BY <2>3, ProgramIs DEF IsProgram
    <3> QED
      BY <2>4, <3>1, ElementsOf
  <2>6. RInv(m, n, r)
    BY <2>1, <2>3, <2>4, <2>5, ReplacedIs
  <2>7. DOMAIN sym'.name = DOMAIN sym.name
    BY <2>2, <2>6 DEF RInv
  <2> QED
    BY <2>7 DEF VInv
<1>4. CASE sym' = sym
  BY <1>4 DEF VInv
<1>5. \/ sym' = sym \/ \E s \in Inner : RenameInner(s)
      \/ RenameRoot \/ ReplaceImports
  BY DEF Next, vars, CollectExports, MergeGenerators, GenAst, Descend, RootsRenamed, Finish, Stop
<1> QED
  BY <1>1, <1>2, <1>3, <1>4, <1>5

(* What is said of the next tables can be said of them in this state. *)
LEMMA LinkedNext ==
  ASSUME prog' = prog, external' = external, NEW T, T = sym', NEW Q, Q = Pending', NEW G, G = getters'
  PROVE  /\ Linked(sym, Pending, getters)' <=> Linked(T, Q, G)
         /\ Shared(sym)' <=> Shared(T)
<1>1. /\ \A v : Declared(v)' <=> Declared(v)
      /\ \A m, e : ExportMeans(m, e)' = ExportMeans(m, e)
      /\ \A v : VariableMeans(v)' = VariableMeans(v)
      /\ LibraryBindings' = LibraryBindings
  BY ExportsStay, MeaningsStay, BoundNext
<1>2. ModuleVars(sym)' = ModuleVars(T)
  BY DEF ModuleVars
<1>3. \A n, W : KnownAs(sym, n, W)' <=> KnownAs(T, n, W)
  BY <1>1, <1>2 DEF KnownAs
<1>4. IsTables(sym)' <=> IsTables(T)
  BY DEF IsTables, IsSym, OwnVars
<1>5. LExports(sym)' <=> LExports(T)
  BY DEF LExports
<1>6. LIndex(sym, Pending)' <=> LIndex(T, Q)
  BY DEF LIndex
<1>7. LNames(sym, Pending)' <=> LNames(T, Q)
  BY <1>1, <1>2 DEF LNames
<1>8. LLibs(sym, Pending)' <=> LLibs(T, Q)
  BY <1>1, <1>2 DEF LLibs
<1>9. LOwn(sym)' <=> LOwn(T)
  BY <1>2 DEF LOwn
<1>10. LKnown(sym, Pending)' <=> LKnown(T, Q)
  BY <1>1, <1>2, <1>3 DEF LKnown, ByName
<1>11. LGetters(sym, getters)' <=> LGetters(T, G)
  BY <1>1, <1>3 DEF LGetters, ByName
<1>12. Shared(sym)' <=> Shared(T)
  <2>1. LNames(sym, {})' <=> LNames(T, {})
    BY <1>1, <1>2 DEF LNames
  <2> QED
    BY <1>9, <2>1 DEF Shared
<1> QED
  BY <1>4, <1>5, <1>6, <1>7, <1>8, <1>9, <1>10, <1>11, <1>12 DEF Linked

(* Once the imports are replaced, what is left under a name is what it means; *)
(* when that fails, what is lost has its name still.                          *)
JInv == LinksKeepable =>
  /\ stage \in {"imports", "done"} => Linked(sym, Pending, getters)
  /\ stage = "failed" => Shared(sym)

(* Nothing a library has is a variable. *)
LEMMA LibraryNotModule == \A b \in LibraryBindings : b.is[1] \in Libraries /\ b.is[1] \notin Modules
<1> SUFFICES ASSUME NEW l \in Libraries, NEW b \in BindingsOf(l, external[l])
             PROVE  b.is[1] \in Libraries /\ b.is[1] \notin Modules
  BY ExternalBindingsAre DEF LibraryBindings
<1>1. b.is[1] = l
  BY DEF BindingsOf
<1> QED
  BY <1>1, LinkerAssumption

(* So it is when all modules have their names. *)
LEMMA LinkedAtFirst ==
  ASSUME CInv, NInv, XInv, VInv, LinksKeepable, stage = "roots", Walked = Modules,
         NEW T, T = sym, NEW Q, Q = {v \in ModuleVars(T) : ~ Declared(v)}
  PROVE  Linked(T, Q, {})
<1>1. IsTables(T) /\ \A m \in Modules : Exported(T, m)
  BY DEF XInv, Unlinked
<1>2. Settled = ModuleVars(T)
  BY SettledIs DEF ModuleVars
<1>3. Assumed
  BY DEF LinksKeepable, Assumed
<1>4. \A v, w \in ModuleVars(T) : T.name[v] = T.name[w] => v = w
  BY <1>2, <1>3, NamesApart
<1>5. \A v \in ModuleVars(T) : v[1] \in Modules /\ v \in DOMAIN T.name /\ v \in T.own[v[1]] /\ v = <<v[1], v[2]>>
  BY <1>1 DEF ModuleVars, Exported, VInv
<1>6. LExports(T)
  BY <1>1 DEF LExports, Exported
<1>7. LIndex(T, Q)
  <2> SUFFICES ASSUME NEW m \in Modules, NEW z \in ToSet(prog.exports[m]), VariableOf(m, z.local) \in Q
               PROVE  /\ T.name[VariableOf(m, z.local)] \in DOMAIN T.index[m]
                      /\ T.index[m][T.name[VariableOf(m, z.local)]] = z.export
    BY DEF LIndex
  <2>1. z.local # Unnamed
    <3> SUFFICES ASSUME z.local = Unnamed PROVE FALSE
      OBVIOUS
    <3>1. PICK v : v = <<m, DefaultVar>>
      OBVIOUS
    <3>2. v \in Q
      BY <3>1 DEF VariableOf
    <3>3. ImportsOf(m, DefaultVar) = {}
      BY LocalsAre DEF LinksKeepable
    <3>4. Declared(v)
      BY <3>1, <3>3 DEF Declared
    <3> QED
      BY <3>2, <3>4
  <2>2. VariableOf(m, z.local) = <<m, z.local>>
    BY <2>1 DEF VariableOf
  <2> QED
    BY <1>1, <2>1, <2>2 DEF Exported
<1>8. LNames(T, Q)
  BY <1>4, <1>5 DEF LNames
<1>9. LLibs(T, Q)
  <2> SUFFICES ASSUME NEW v \in ModuleVars(T), NEW b \in LibraryBindings, T.name[v] = b.name PROVE FALSE
    BY DEF LLibs
  <2>1. PICK c : c = [name |-> sym.name[v], is |-> v]
    OBVIOUS
  <2>2. c \in Bound /\ b \in Bound /\ c.name = b.name
    BY <1>2, <2>1 DEF Bound, VariableBindings
  <2>3. c = b
    BY <1>3, <2>2 DEF NInv, Taken
  <2>4. b.is = v
    BY <2>1, <2>3
  <2> QED
    BY <1>5, <2>4, LibraryNotModule
<1>10. LOwn(T)
  BY <1>5 DEF LOwn
<1>11. LKnown(T, Q)
  <2> SUFFICES ASSUME NEW v \in ModuleVars(T) \ Q PROVE KnownAs(T, T.name[v], VariableMeans(v))
    BY DEF LKnown
  <2>1. Declared(v)
    OBVIOUS
  <2>2. PICK m, n : m = v[1] /\ n = v[2]
    OBVIOUS
  <2>3. m \in Modules /\ v = <<m, n>>
    BY <1>5, <2>2
  <2>4. VariableMeans(v) = {v}
    BY <2>1, <2>3, VariableMeansIs
  <2> QED
    BY <2>1, <2>4 DEF KnownAs
<1>12. LGetters(T, {})
  BY DEF LGetters
<1> QED
  BY <1>1, <1>6, <1>7, <1>8, <1>9, <1>10, <1>11, <1>12 DEF Linked

(* The second walk begins with every import pending. *)
LEMMA JBegins ==
  ASSUME CInv, WInv, NInv, XInv, VInv, RootsRenamed, LinksKeepable
  PROVE  Linked(sym, Pending, getters)'
<1>1. /\ stage = "roots" /\ stack = <<>> /\ stage' = "imports" /\ stack' = <<Entry>> /\ visited' = {Entry}
      /\ UNCHANGED <<prog, sym, external, getters>>
  BY DEF RootsRenamed
<1>2. Walked = Modules /\ Walked' = {}
  BY <1>1, AllWalked, BeginDoes
<1>3. PICK T, Q, G : T = sym' /\ Q = Pending' /\ G = getters'
  OBVIOUS
<1>4. T = sym /\ G = {}
  BY <1>1, <1>3 DEF XInv, Unlinked
<1>5. Q = {v \in ModuleVars(T) : ~ Declared(v)}
  <2>1. \A v : Declared(v)' <=> Declared(v)
    BY <1>1, ExportsStay
  <2>2. ModuleVars(sym)' = ModuleVars(T)
    BY <1>3 DEF ModuleVars
  <2>3. Pending' = {v \in ModuleVars(sym)' : ~ Declared(v)' /\ v[1] \notin Walked'}
    BY DEF Pending
  <2> QED
    BY <1>2, <1>3, <2>1, <2>2, <2>3
<1>6. Linked(T, Q, {})
  BY <1>1, <1>2, <1>4, <1>5, LinkedAtFirst
<1> QED
  BY <1>1, <1>3, <1>4, <1>6, LinkedNext

(* A module whose imports are replaced waits for none of them. *)
LEMMA PendingLeft ==
  ASSUME CInv, VInv, NEW m \in Modules, NEW n \in Nat, n = Len(prog.imports[m]), DOMAIN prog.imports[m] = 1 .. n,
         prog' = prog, Walked' = Walked \union {m}, ModuleVars(sym') = ModuleVars(sym)
  PROVE  Pending' = Pending \ Gone(m, n)
<1>1. \A v : Declared(v)' <=> Declared(v)
  BY ExportsStay
<1>2. ModuleVars(sym)' = ModuleVars(sym)
  BY DEF ModuleVars
<1>3. Pending' = {v \in ModuleVars(sym) : ~ Declared(v) /\ v[1] \notin Walked \union {m}}
  BY <1>1, <1>2 DEF Pending
<1>4. \A v \in Gone(m, n) : v[1] = m
  BY DEF Gone
<1>5. ASSUME NEW v \in Pending, v[1] = m PROVE v \in Gone(m, n)
  <2>1. v = <<m, v[2]>> /\ ~ Declared(v)
    BY <1>5 DEF Pending, ModuleVars, VInv
  <2>2. PICK i \in ImportsOf(m, v[2]) : ~ IsNamespace(i)
    BY <1>5, <2>1 DEF Declared
  <2>3. i \in ToSet(prog.imports[m]) /\ i.local = v[2]
    BY <2>2 DEF ImportsOf
  <2>4. PICK j \in 1 .. n : prog.imports[m][j] = i
    BY <2>3 DEF ToSet
  <2> QED
    BY <2>1, <2>2, <2>3, <2>4 DEF Gone
<1>6. \A v : v \in Pending <=> v \in ModuleVars(sym) /\ ~ Declared(v) /\ v[1] \notin Walked
  BY DEF Pending
<1> QED
  BY <1>3, <1>4, <1>5, <1>6

(* Replacing a module's imports links them; a failure keeps what is shared. *)
LEMMA JReplaces ==
  ASSUME CInv, WInv, SInv, NInv, MInv, PInv, EInv, VInv, JInv, ReplaceImports, LinksKeepable
  PROVE  /\ stage' # "failed" => Linked(sym, Pending, getters)'
         /\ Shared(sym)'
         /\ DOMAIN sym'.name = DOMAIN sym.name /\ \A s \in Inner : sym'.own[s] = sym.own[s]
<1>1. /\ stage = "imports" /\ stack # <<>> /\ Ready
      /\ UNCHANGED <<prog, gen, external, visited>>
  BY DEF ReplaceImports
<1>2. PICK m, r : m = Last(stack) /\ r = Replaced(m)
  OBVIOUS
<1>3. /\ sym' = r.sym /\ getters' = r.getters
      /\ stack' = (IF r.ok THEN Popped(stack) ELSE <<>>)
      /\ stage' = (IF r.ok THEN stage ELSE "failed")
  BY <1>2 DEF ReplaceImports
<1>4. m \in Modules
  BY <1>1, <1>2, TopIs
<1>5. PICK n \in Nat : n = Len(prog.imports[m]) /\ DOMAIN prog.imports[m] = 1 .. n
  <2>1. prog.imports[m] \in Seq([from : Modules \union Libraries, source : Exportable \union {Star}, local : Names])
    BY <1>4, ProgramIs DEF IsProgram
  <2> QED
    BY <2>1, ElementsOf
<1>6. Assumed
  BY DEF LinksKeepable, Assumed
<1>7. Linked(sym, Pending, getters)
  BY <1>1 DEF JInv
<1>8. Turn(m)
  <2>1. LExports(sym) /\ IsTables(sym)
    BY <1>7 DEF Linked
  <2>2. \A l \in Libraries : Held(l)
    BY <1>1, <1>6 DEF EInv
  <2>3. \A b, c \in LibraryBindings : b.name = c.name => b = c
    BY <1>6 DEF NInv, Taken, Bound
  <2> QED
    BY <1>1, <1>2, <2>1, <2>2, <2>3 DEF Turn
<1>9. QInv(m, n, r)
  BY <1>2, <1>5, <1>7, <1>8, AllReplaced
<1>10. ModuleVars(r.sym) = ModuleVars(sym) /\ Shared(r.sym) /\ (r.ok => Linked(r.sym, Pending \ Gone(m, n), r.getters))
  BY <1>9 DEF QInv
<1>11. PICK T, Q, G : T = sym' /\ Q = Pending' /\ G = getters'
  OBVIOUS
<1>12. Shared(sym)'
  <2>1. Shared(T)
    BY <1>3, <1>10, <1>11
  <2> QED
    BY <1>1, <1>11, <2>1, LinkedNext
<1>13. ASSUME r.ok PROVE Linked(sym, Pending, getters)'
  <2>1. stack' = Popped(stack) /\ stage' = stage
    BY <1>3, <1>13
  <2>2. Walked' = Walked \union {m}
    BY <1>1, <1>2, <2>1, LeaveDoes
  <2>3. ModuleVars(sym') = ModuleVars(sym)
    BY <1>3, <1>10
  <2>4. Q = Pending \ Gone(m, n)
    BY <1>1, <1>4, <1>5, <1>11, <2>2, <2>3, PendingLeft
  <2>5. Linked(T, Q, G)
    BY <1>3, <1>10, <1>11, <1>13, <2>4
  <2> QED
    BY <1>1, <1>11, <2>5, LinkedNext
<1>14. r.ok \in BOOLEAN
  <2>1. PICK s, g : \E ok \in BOOLEAN : r = [sym |-> s, getters |-> g, ok |-> ok]
    BY <1>9 DEF QInv
  <2> QED
    BY <2>1
<1>15. DOMAIN sym'.name = DOMAIN sym.name /\ \A s \in Inner : sym'.own[s] = sym.own[s]
  BY <1>3, <1>9 DEF QInv
<1> QED
  BY <1>3, <1>12, <1>13, <1>14, <1>15

(* A step that changes no name. *)
LEMMA JSame ==
  ASSUME JInv, UNCHANGED <<prog, sym, external, getters>>, Walked' = Walked,
         stage' \in {"imports", "done"} => stage \in {"imports", "done"}, stage' = "failed" => stage = "failed"
  PROVE  JInv'
<1>1. LinksKeepable' <=> LinksKeepable
  BY MeaningsStay
<1>2. PICK T, Q, G : T = sym' /\ Q = Pending' /\ G = getters'
  OBVIOUS
<1>3. Pending' = Pending
  <2>1. \A v : Declared(v)' <=> Declared(v)
    BY ExportsStay
  <2>2. ModuleVars(sym)' = ModuleVars(sym)
    BY DEF ModuleVars
  <2> QED
    BY <2>1, <2>2 DEF Pending
<1>4. T = sym /\ Q = Pending /\ G = getters
  BY <1>2, <1>3
<1>5. /\ Linked(sym, Pending, getters)' <=> Linked(T, Q, G)
      /\ Shared(sym)' <=> Shared(T)
  BY <1>2, LinkedNext
<1> QED
  BY <1>1, <1>4, <1>5 DEF JInv

(* Every step keeps the bindings linked. *)
LEMMA JStep ==
  ASSUME CInv, LInv, MInv, PInv, EInv, XInv, VInv, JInv, [Next]_vars
  PROVE  JInv'
<1>1. WInv /\ SInv /\ NInv
  BY DEF LInv
<1>2. prog' = prog /\ (LinksKeepable' <=> LinksKeepable)
  BY ProgramStays, MeaningsStay
<1>3. CASE UNCHANGED vars \/ Stop
  <2>1. UNCHANGED <<prog, sym, external, getters, stage, stack, visited>>
    BY <1>3 DEF Stop, vars
  <2> QED
    BY <2>1, JSame DEF Walked
<1>4. CASE CollectExports \/ MergeGenerators \/ GenAst \/ RenameRoot \/ \E s \in Inner : RenameInner(s)
  <2>1. stage' \notin {"imports", "done", "failed"}
    BY <1>4 DEF CollectExports, MergeGenerators, GenAst, RenameRoot, RenameInner
  <2> QED
    BY <2>1 DEF JInv
<1>5. CASE Descend
  <2>1. Walked' = Walked
    BY <1>1, <1>5, DescendDoes
  <2> QED
    BY <1>5, <2>1, JSame DEF Descend
<1>6. CASE RootsRenamed
  <2>1. stage' = "imports"
    BY <1>6 DEF RootsRenamed
  <2>2. LinksKeepable => Linked(sym, Pending, getters)'
    BY <1>1, <1>6, JBegins
  <2> QED
    BY <1>2, <2>1, <2>2 DEF JInv
<1>7. CASE ReplaceImports
  <2>1. LinksKeepable => (stage' # "failed" => Linked(sym, Pending, getters)') /\ Shared(sym)'
    BY <1>1, <1>7, JReplaces
  <2> QED
    BY <1>2, <2>1 DEF JInv
<1>8. CASE Finish
  <2>1. UNCHANGED <<prog, sym, external, getters, stack, visited>> /\ stage = "imports" /\ stage' = "done"
    BY <1>8 DEF Finish
  <2> QED
    BY <2>1, JSame DEF Walked
<1> QED
  BY <1>3, <1>4, <1>5, <1>6, <1>7, <1>8 DEF Next

(* The walk is over when linking is. *)
OverInv == Done => stack = <<>>

(* Nothing but the end of the walk leads there. *)
LEMMA OverStep ==
  ASSUME OverInv, [Next]_vars
  PROVE  OverInv'
BY DEF OverInv, Done, Next, vars, CollectExports, RenameInner, MergeGenerators, GenAst, Descend, RenameRoot,
       RootsRenamed, ReplaceImports, Finish, Stop

(* No import is pending then. *)
LEMMA NonePending ==
  ASSUME CInv, WInv, OverInv, Done
  PROVE  Pending = {}
<1>1. stage = "done" /\ stack = <<>>
  BY DEF Done, OverInv
<1>2. Walked = Modules
  BY <1>1, AllWalked
<1> QED
  BY <1>2 DEF Pending, ModuleVars

(* What is known by a name is what the root scope has under it. *)
LEMMA KnownAtRoot ==
  ASSUME CInv, LInv, Done, Assumed, NEW n, NEW W, KnownAs(sym, n, W)
  PROVE  /\ AtRoot(n) = W
         /\ \E w \in W : [name |-> n, is |-> w] \in RootBindings
<1>1. PICK w \in W : /\ W = {w}
                     /\ \/ w \in ModuleVars(sym) /\ Declared(w) /\ sym.name[w] = n
                        \/ [name |-> n, is |-> w] \in LibraryBindings
  BY DEF KnownAs
<1>2. PICK b : b = [name |-> n, is |-> w]
  OBVIOUS
<1>3. b.name = n /\ b.is = w
  BY <1>2
<1>4. b \in RootBindings
  <2>1. CASE w \in ModuleVars(sym) /\ Declared(w) /\ sym.name[w] = n
    <3>1. w \in {v \in DOMAIN sym.name : v[2] = DefaultVar \/ (v[1] \in Modules /\ Declared(v))}
      BY <2>1 DEF ModuleVars
    <3>2. b \in {[name |-> sym.name[v], is |-> v] :
                   v \in {v \in DOMAIN sym.name : v[2] = DefaultVar \/ (v[1] \in Modules /\ Declared(v))}}
      BY <1>2, <2>1, <3>1
    <3> QED
      BY <3>2 DEF RootBindings
  <2>2. CASE b \in LibraryBindings
    BY <2>2 DEF RootBindings, LibraryBindings
  <2> QED
    BY <1>1, <1>2, <2>1, <2>2
<1>5. AtRoot(b.name) = {b.is}
  BY <1>4, RootFinds
<1> QED
  BY <1>1, <1>2, <1>3, <1>4, <1>5

(* A scope around an identifier does not have the name of what it means. *)
LEMMA NoneBetween ==
  ASSUME CInv, LInv, KInv, AInv, Done, Assumed,
         NEW s \in Scopes, NEW n, Unshadowed(<<s, n>>), NEW b \in RootBindings, b.is \in Meaning(s, n),
         NEW q, q = Chain[s], NEW j \in 1 .. Len(q) - 1, NEW v \in OwnVars(q[j])
  PROVE  sym.name[v] # b.name
<1>1. Len(q) \in Nat /\ DOMAIN q = 1 .. Len(q) /\ j \in 1 .. Len(q) /\ q[j] \in Inner /\ q[j] \in Scopes
  <2>1. Len(q) \in Nat /\ DOMAIN q = 1 .. Len(q) /\ q[j] \in Inner
    BY ChainIs DEF IsChain
  <2> QED
    BY <2>1 DEF Scopes
<1>2. b \in Bound /\ Taken(gen, Bound) /\ gen.minify = prog.minify
  BY RootsAreBound DEF LInv, NInv
<1>3. CASE prog.minify
  <2>1. stage \notin Early
    BY DEF Done, Early
  <2> QED
    BY <1>1, <1>2, <1>3, <2>1 DEF AInv
<1>4. CASE ~ prog.minify
  <2>1. IsNumbered(b.name) \/ b.name \in SourceNames(b.is)
    BY <1>2, <1>4 DEF Meant, Taken
  <2>2. v[2] \in prog.owns[q[j]] /\ sym.name[v] = v[2]
    BY <1>1, <1>4, InnerNames DEF OwnVars
  <2>3. ~ IsNumbered(v[2])
    BY <1>1, <1>4, <2>2 DEF Assumed, NoNumberedNames
  <2>4. q[j] \in InnerAround(s)
    BY <1>1 DEF InnerAround, ToSet
  <2>5. SourceNames(b.is) \intersect prog.owns[q[j]] = {}
    BY <1>4, <2>4 DEF Unshadowed
  <2> QED
    BY <2>1, <2>2, <2>3, <2>5
<1> QED
  BY <1>3, <1>4

(* An imported identifier is bound to what it means: its module had the import *)
(* renamed to a name that is known.                                          *)
LEMMA ImportsReach ==
  ASSUME CInv, LInv, KInv, AInv, JInv, OverInv
  PROVE  ImportsBound
<1> SUFFICES ASSUME Done, LinksKeepable, NEW u \in prog.uses, IsImport(u),
                    ~ ByName(Meaning(u[1], u[2])), Unshadowed(u)
             PROVE  Kept(u)
  BY DEF ImportsBound
<1>1. PICK s, n : s = u[1] /\ n = u[2]
  OBVIOUS
<1>2. s \in Scopes /\ n \in Names /\ u = <<s, n>>
  BY <1>1, ProgramIs DEF IsProgram
<1>3. PICK q : q = Chain[s]
  OBVIOUS
<1>4. Len(q) \in Nat \ {0} /\ q[Len(q)] \in Modules /\ \A i \in 1 .. Len(q) - 1 : q[i] \in Inner
  BY <1>2, <1>3, ChainIs DEF IsChain
<1>5. Owners(s, n) # {} /\ ~ Declared(Binding(s, n))
  BY <1>1 DEF IsImport, IsGlobal
<1>6. PICK k \in 1 .. Len(q) : n \in prog.owns[q[k]] /\ Binding(s, n) = <<q[k], n>>
  BY <1>2, <1>3, <1>5, Nearest
<1>7. PICK v : v = <<q[k], n>>
  OBVIOUS
<1>8. v[1] = q[k] /\ v \in OwnVars(q[k])
  BY <1>6, <1>7 DEF OwnVars
<1>9. q[k] \in Modules /\ q[k] \in Scopes
  <2>1. q[k] \in Modules
    BY <1>5, <1>6, <1>7, <1>8 DEF Declared
  <2> QED
    BY <2>1 DEF Scopes
<1>10. v \in ModuleVars(sym)
  BY <1>8, <1>9 DEF ModuleVars, LInv, SInv, IsSym
<1>11. PICK e, W : e = sym.name[v] /\ W = Meaning(s, n)
  OBVIOUS
<1>12. W = VariableMeans(v) /\ Emitted(s, n) = e
  BY <1>5, <1>6, <1>7, <1>11 DEF Meaning, Emitted
<1>13. Assumed /\ WInv
  BY DEF LinksKeepable, Assumed, LInv
<1>14. KnownAs(sym, e, W)
  <2>1. Linked(sym, Pending, getters) /\ Pending = {}
    BY <1>13, NonePending DEF JInv, Done
  <2>2. ~ ByName(VariableMeans(v))
    BY <1>1, <1>11, <1>12
  <2> QED
    BY <1>10, <1>11, <1>12, <2>1, <2>2 DEF Linked, LKnown
<1>15. AtRoot(e) = W /\ \E w \in W : [name |-> e, is |-> w] \in RootBindings
  BY <1>13, <1>14, KnownAtRoot
<1>16. PICK w \in W : [name |-> e, is |-> w] \in RootBindings
  BY <1>15
<1>17. PICK b : b = [name |-> e, is |-> w]
  OBVIOUS
<1>18. b \in RootBindings /\ b.name = e /\ b.is \in Meaning(s, n) /\ Unshadowed(<<s, n>>)
  BY <1>2, <1>11, <1>16, <1>17
<1>19. \A j \in 1 .. Len(q) - 1 : \A w2 \in OwnVars(q[j]) : sym.name[w2] # e
  BY <1>2, <1>3, <1>13, <1>18, NoneBetween
<1>20. Lookup(s, e) = AtRoot(e)
  BY <1>2, <1>3, <1>19, FoundAtRoot
<1> QED
  BY <1>1, <1>11, <1>12, <1>15, <1>20 DEF Kept

(* The getters of a namespace return what the exports mean. *)
LEMMA GettersReach ==
  ASSUME CInv, LInv, JInv
  PROVE  GettersBound
<1> SUFFICES ASSUME Done, LinksKeepable, NEW r \in getters, ~ ByName(ExportMeans(r.of, r.export))
             PROVE  AtRoot(r.name) = ExportMeans(r.of, r.export)
  BY DEF GettersBound
<1>1. Linked(sym, Pending, getters) /\ Assumed
  BY DEF JInv, Done, LinksKeepable, Assumed
<1>2. KnownAs(sym, r.name, ExportMeans(r.of, r.export))
  BY <1>1 DEF Linked, LGetters
<1> QED
  BY <1>1, <1>2, KnownAtRoot

(* What the proof keeps from step to step. *)
AllInv == CInv /\ LInv /\ KInv /\ AInv /\ MInv /\ PInv /\ XInv /\ EInv /\ VInv /\ JInv /\ OverInv

(* It holds at the start, ... *)
LEMMA AllInit ==
  ASSUME NumeralsDiffer, Init
  PROVE  AllInv
<1>1. stage = "collect" /\ stack = <<>>
  BY DEF Init
<1>2. CInv /\ LInv /\ KInv /\ AInv
  BY CInit, SInit, NInit, KInit DEF LInv, AInv, Early, Init
<1>5. MInv /\ XInv /\ VInv
  BY MInit, XInit, VInit
<1>3. PInv
  <2>1. Len(stack) = 0
    BY <1>1
  <2> QED
    BY <2>1 DEF PInv
<1>4. EInv /\ JInv /\ OverInv
  BY <1>1 DEF EInv, JInv, OverInv, Done
<1> QED
  BY <1>2, <1>3, <1>4, <1>5 DEF AllInv

(* ... and every step keeps it. *)
LEMMA AllStep ==
  ASSUME NumeralsDiffer, AllInv, [Next]_vars
  PROVE  AllInv'
<1>1. CInv /\ LInv /\ KInv /\ AInv /\ MInv /\ PInv /\ XInv /\ EInv /\ VInv /\ JInv /\ OverInv /\ WInv /\ SInv /\ NInv
  BY DEF AllInv, LInv
<1>2. CInv' /\ LInv' /\ KInv' /\ AInv'
  BY <1>1, CStep, LStep, KStep, AStep
<1>3. MInv' /\ PInv' /\ XInv' /\ EInv' /\ VInv' /\ JInv' /\ OverInv'
  BY <1>1, ProgramStays, PStep, XStep, EStep, VStep, JStep, OverStep
<1> QED
  BY <1>2, <1>3 DEF AllInv

(* What crosses modules is bound to the variable that is meant: an imported   *)
(* identifier to the variable ECMAScript resolves the import to, along any    *)
(* chain of re-exports, and the getters of a namespace to what it exports.    *)
THEOREM LinksStay ==
  ASSUME NumeralsDiffer
  PROVE  Spec => []LinksBound
<1>1. Init => AllInv
  BY AllInit
<1>2. AllInv /\ [Next]_vars => AllInv'
  BY AllStep
<1>3. AllInv => LinksBound
  BY ImportsReach, GettersReach DEF AllInv, LinksBound
<1> QED
  BY <1>1, <1>2, <1>3, PTL DEF Spec

(* The variables of an inner scope have different names, named or not. *)
InnersApart == \A s \in Inner : \A v, w \in OwnVars(s) : sym.name[v] = sym.name[w] => v = w
(* So the inner invariant says. *)
LEMMA KApart == KInv => InnersApart
<1> SUFFICES ASSUME KInv, NEW s \in Inner, NEW v \in OwnVars(s), NEW w \in OwnVars(s), sym.name[v] = sym.name[w]
             PROVE  v = w
  BY DEF InnersApart
<1>1. CASE counters[s] = NotYet
  <2>1. sym.name[v] = v[2] /\ sym.name[w] = w[2]
    BY <1>1 DEF KInv
  <2>2. v = <<s, v[2]>> /\ w = <<s, w[2]>>
    BY DEF OwnVars
  <2> QED
    BY <2>1, <2>2
<1>2. CASE counters[s] # NotYet
  BY <1>2 DEF KInv, NamedFrom
<1> QED
  BY <1>1, <1>2

(* Inner scopes keep all their variables. *)
WholeInv == LinksKeepable => \A s \in Inner :
  /\ sym.own[s] = OwnVars(s)
  /\ \A v \in DOMAIN sym.name : v[1] = s => v \in OwnVars(s)

(* At the start no variable is lost, ... *)
LEMMA WholeInit == Init => WholeInv
<1> SUFFICES ASSUME Init, NEW s \in Inner
             PROVE  sym.own[s] = OwnVars(s) /\ \A v \in DOMAIN sym.name : v[1] = s => v \in OwnVars(s)
  BY DEF WholeInv
<1>1. sym = SymbolsOf(prog) /\ s \in Scopes
  BY DEF Init, Scopes
<1>2. sym.own[s] = OwnVars(s)
  BY <1>1 DEF SymbolsOf, OwnVars
<1>3. DOMAIN sym.name = UNION {OwnVars(t) : t \in Scopes}
  BY <1>1 DEF SymbolsOf, OwnVars
<1>4. ASSUME NEW t \in Scopes, NEW v \in OwnVars(t), v[1] = s PROVE v \in OwnVars(s)
  BY <1>4 DEF OwnVars
<1> QED
  BY <1>2, <1>3, <1>4

(* A step that keeps them. *)
LEMMA WholeSame ==
  ASSUME WholeInv, prog' = prog,
         LinksKeepable => /\ \A v \in DOMAIN sym'.name : v[1] \in Inner => v \in DOMAIN sym.name
                          /\ \A s \in Inner : sym'.own[s] = sym.own[s]
  PROVE  WholeInv'
<1>1. LinksKeepable' <=> LinksKeepable
  BY MeaningsStay
<1>2. \A s : OwnVars(s)' = OwnVars(s)
  BY SymNext
<1> QED
  BY <1>1, <1>2 DEF WholeInv

(* Naming an inner scope loses none: the names differ. *)
LEMMA WholeInner ==
  ASSUME NumeralsDiffer, CInv, WInv, SInv, KInv, WholeInv, LinksKeepable, NEW s \in Inner, RenameInner(s)
  PROVE  /\ \A v \in DOMAIN sym'.name : v[1] \in Inner => v \in DOMAIN sym.name
         /\ \A t \in Inner : sym'.own[t] = sym.own[t]
<1>1. PICK order \in SetToSeqs(sym.own[s]) : \E names : sym' = RenameIn(sym, s, Changes(sym, order, names))
  BY DEF RenameInner
<1>2. PICK names : sym' = RenameIn(sym, s, Changes(sym, order, names))
  BY <1>1
<1>3. PICK T, ren : T = sym' /\ ren = Changes(sym, order, names)
  OBVIOUS
<1>4. s \in Scopes /\ sym.own[s] = OwnVars(s) /\ IsFiniteSet(OwnVars(s)) /\ prog' = prog
  BY ProgramIs DEF Scopes, WholeInv, RenameInner
<1>5. IsSym(sym) /\ Changed(sym, T, s, ren)
  BY <1>2, <1>3, <1>4, ScopeRenames DEF SInv
<1>6. \A v, w \in sym.own[s] : sym.name[v] = sym.name[w] => v = w
  BY <1>4, KApart DEF InnersApart
<1>7. Renamed(sym, T, s, order, names)
  BY <1>1, <1>3, <1>4, <1>5, <1>6 DEF Renamed
<1>8. KInv'
  BY KInner
<1>9. InnersApart'
  <2>1. KInv => InnersApart
    BY KApart
  <2> QED
    BY <1>8, KApart, PTL
<1>10. \A v, w \in sym.own[s] : T.name[v] = T.name[w] => v = w
  <2>1. OwnVars(s)' = OwnVars(s)
    BY <1>4, SymNext
  <2> QED
    BY <1>3, <1>4, <1>9, <2>1 DEF InnersApart
<1>11. Lost(sym, s, ren) = {}
  BY <1>3, <1>7, <1>10, NoneLost
<1>12. T.own[s] = sym.own[s]
  <2>1. RenameIn(sym, s, ren).own[s] = sym.own[s] \ Lost(sym, s, ren)
    BY <1>4, <1>5, ScopeKeepsExports
  <2>2. T = RenameIn(sym, s, ren)
    BY <1>2, <1>3
  <2> QED
    BY <1>11, <2>1, <2>2
<1> QED
  BY <1>3, <1>5, <1>12 DEF Changed, Scopes

(* ... and no step loses one. *)
LEMMA WholeStep ==
  ASSUME NumeralsDiffer, AllInv, WholeInv, [Next]_vars
  PROVE  WholeInv'
<1>1. /\ CInv /\ WInv /\ SInv /\ NInv /\ KInv /\ MInv /\ PInv /\ EInv /\ XInv /\ VInv /\ JInv
      /\ prog' = prog
  BY ProgramStays DEF AllInv, LInv
<1>2. CASE \E s \in Inner : RenameInner(s)
  <2>1. PICK s \in Inner : RenameInner(s)
    BY <1>2
  <2>2. LinksKeepable => /\ \A v \in DOMAIN sym'.name : v[1] \in Inner => v \in DOMAIN sym.name
                         /\ \A t \in Inner : sym'.own[t] = sym.own[t]
    BY <1>1, <2>1, WholeInner
  <2> QED
    BY <1>1, <2>2, WholeSame
<1>3. CASE RenameRoot
  <2>1. ASSUME LinksKeepable
        PROVE  /\ \A v \in DOMAIN sym'.name : v[1] \in Inner => v \in DOMAIN sym.name
               /\ \A t \in Inner : sym'.own[t] = sym.own[t]
    <3>1. PICK m : m = Last(stack)
      OBVIOUS
    <3>2. m \in Modules \ Walked /\ m \in Modules /\ stage = "roots"
      BY <1>1, <1>3, <3>1, RootTables DEF RenameRoot
    <3>3. IsTables(sym) /\ Fresh(sym, m)
      BY <1>1, <2>1, <3>2 DEF XInv, Unlinked
    <3>4. /\ \A t \in Scopes \ {m} : sym'.own[t] = sym.own[t]
          /\ \A v \in DOMAIN sym'.name : v \in DOMAIN sym.name \/ v = <<m, DefaultVar>>
      BY <1>1, <1>3, <2>1, <3>1, <3>3, RootDoes
    <3>5. m \notin Inner /\ Inner \subseteq Scopes
      BY <1>1, <3>2, ProgramIs DEF Scopes
    <3>6. <<m, DefaultVar>>[1] = m
      OBVIOUS
    <3> QED
      BY <3>4, <3>5, <3>6
  <2> QED
    BY <1>1, <2>1, WholeSame
<1>4. CASE ReplaceImports
  <2>1. LinksKeepable => /\ \A v \in DOMAIN sym'.name : v[1] \in Inner => v \in DOMAIN sym.name
                         /\ \A t \in Inner : sym'.own[t] = sym.own[t]
    BY <1>1, <1>4, JReplaces
  <2> QED
    BY <1>1, <2>1, WholeSame
<1>5. CASE sym' = sym
  BY <1>1, <1>5, WholeSame
<1>6. \/ sym' = sym \/ \E s \in Inner : RenameInner(s)
      \/ RenameRoot \/ ReplaceImports
  BY DEF Next, vars, CollectExports, MergeGenerators, GenAst, Descend, RootsRenamed, Finish, Stop
<1> QED
  BY <1>2, <1>3, <1>4, <1>5, <1>6

(* What a scope has lost shares its name with a variable it has, which means   *)
(* the same.                                                                 *)
LEMMA LossesShared ==
  ASSUME AllInv, WholeInv
  PROVE  NoVariableLost
<1>1. CInv /\ SInv /\ XInv /\ JInv
  BY DEF AllInv, LInv
<1> SUFFICES ASSUME LinksKeepable, NEW v \in DOMAIN sym.name, v \notin sym.own[v[1]]
             PROVE  \E w \in sym.own[v[1]] : sym.name[w] = sym.name[v] /\ VariableMeans(v) = VariableMeans(w)
  BY DEF NoVariableLost
<1>2. v[1] \in Scopes
  BY <1>1 DEF SInv, IsSym
<1>3. v[1] \notin Inner
  BY DEF WholeInv
<1>4. v[1] \in Modules /\ v \in ModuleVars(sym)
  BY <1>2, <1>3 DEF Scopes, ModuleVars
<1>5. stage \notin Unlinked
  <2> SUFFICES ASSUME stage \in Unlinked PROVE FALSE
    OBVIOUS
  <2>1. CASE v[1] \in Walked
    BY <1>1, <2>1 DEF XInv, Exported
  <2>2. CASE v[1] \notin Walked
    <3>1. Untouched(sym, v[1])
      BY <1>1, <1>4, <2>2 DEF SInv, Unlinked
    <3> QED
      BY <3>1 DEF Untouched
  <2> QED
    BY <2>1, <2>2
<1>6. stage \in {"imports", "done", "failed"}
  BY <1>1, <1>5 DEF CInv, StageNames, Unlinked
<1>7. /\ LOwn(sym)
      /\ \A x, y \in ModuleVars(sym) : sym.name[x] = sym.name[y] => VariableMeans(x) = VariableMeans(y)
  BY <1>1, <1>6 DEF JInv, Linked, Shared, LNames
<1>8. PICK w \in sym.own[v[1]] : sym.name[w] = sym.name[v]
  BY <1>4, <1>7 DEF LOwn
<1>9. w \in ModuleVars(sym)
  BY <1>1, <1>2, <1>4, <1>8 DEF ModuleVars, SInv, IsSym
<1> QED
  BY <1>4, <1>7, <1>8, <1>9

(* Renaming loses no variable of a scope, except one of two imports of the    *)
(* same variable, which keep one name.                                       *)
THEOREM VariablesKept ==
  ASSUME NumeralsDiffer
  PROVE  Spec => []NoVariableLost
<1>1. Init => AllInv /\ WholeInv
  BY AllInit, WholeInit
<1>2. AllInv /\ WholeInv /\ [Next]_vars => (AllInv /\ WholeInv)'
  <2> SUFFICES ASSUME AllInv, WholeInv, [Next]_vars PROVE AllInv' /\ WholeInv'
    OBVIOUS
  <2> QED
    BY AllStep, WholeStep
<1>3. AllInv /\ WholeInv => NoVariableLost
  BY LossesShared
<1> QED
  BY <1>1, <1>2, <1>3, PTL DEF Spec

(* The exported variables of a module are those pushed by its declarations, in  *)
(* the order of its map.                                                     *)
PushSteps(Push, m, acc, n, h) ==
  /\ DOMAIN h = 0 .. n
  /\ h[0] = acc
  /\ \A k \in 1 .. n : h[k] = PushFrom(Push, h[k - 1], mapOrder[m][k])

(* There are such steps, and they lead to all of them. *)
LEMMA PushAllSteps ==
  ASSUME NEW Push, NEW m, NEW acc, Len(mapOrder[m]) \in Nat
  PROVE  \E h : PushSteps(Push, m, acc, Len(mapOrder[m]), h)
                /\ PushAll(Push, m, acc) = h[Len(mapOrder[m])]
<1> DEFINE N == Len(mapOrder[m])
           One(a, k) == PushFrom(Push, a, mapOrder[m][k])
           Def(h) == [k \in 0 .. N |-> IF k = 0 THEN acc ELSE One(h[k - 1], k)]
           T == {k \in Nat : \E h : PushSteps(Push, m, acc, k, h)}
<1>1. ASSUME NEW k \in Nat, \A j \in 0 .. k - 1 : j \in T PROVE k \in T
  <2>1. CASE k = 0
    <3> DEFINE h == [i \in 0 .. 0 |-> acc]
    <3>1. DOMAIN h = 0 .. 0 /\ h[0] = acc /\ 1 .. 0 = {}
      OBVIOUS
    <3>2. PushSteps(Push, m, acc, 0, h)
      BY <3>1 DEF PushSteps
    <3> QED
      BY <2>1, <3>2
  <2>2. CASE k # 0
    <3>1. k - 1 \in 0 .. k - 1 /\ k - 1 \in Nat
      BY <2>2
    <3>2. PICK h : PushSteps(Push, m, acc, k - 1, h)
      BY <1>1, <3>1
    <3> DEFINE g == [i \in 0 .. k |-> IF i = k THEN One(h[k - 1], k) ELSE h[i]]
    <3>3. DOMAIN g = 0 .. k /\ g[0] = acc
      BY <2>2, <3>2 DEF PushSteps
    <3>4. ASSUME NEW i \in 1 .. k PROVE g[i] = One(g[i - 1], i)
      <4>1. g[i - 1] = h[i - 1]
        OBVIOUS
      <4>2. CASE i = k
        BY <4>1, <4>2
      <4>3. CASE i # k
        <5>1. i \in 1 .. k - 1 /\ g[i] = h[i]
          BY <4>3
        <5> QED
          BY <3>2, <4>1, <5>1 DEF PushSteps
      <4> QED
        BY <4>2, <4>3
    <3> HIDE DEF g
    <3>5. PushSteps(Push, m, acc, k, g)
      BY <3>3, <3>4 DEF PushSteps
    <3> QED
      BY <3>5
  <2> QED
    BY <2>1, <2>2
<1>2. T \in SUBSET Nat
  OBVIOUS
<1>3. T = Nat
  <2> HIDE DEF T
  <2> QED
    BY <1>1, <1>2, StrongInduction
<1>4. PICK h : PushSteps(Push, m, acc, N, h)
  BY <1>3
<1> DEFINE d == [k \in 0 .. N |-> h[k]]
<1>5. d = Def(d)
  BY <1>4 DEF PushSteps
<1>6. PICK a : a = CHOOSE g : g = Def(g)
  OBVIOUS
<1> HIDE DEF d
<1>7. a = Def(a)
  BY <1>5, <1>6
<1>8. PushSteps(Push, m, acc, N, a)
  <2>1. DOMAIN a = 0 .. N /\ a[0] = acc
    BY <1>7
  <2>2. ASSUME NEW k \in 1 .. N PROVE a[k] = One(a[k - 1], k)
    <3>1. k \in 0 .. N /\ k # 0
      OBVIOUS
    <3> HIDE DEF One
    <3> QED
      BY <1>7, <3>1
  <2> QED
    BY <2>1, <2>2 DEF PushSteps
<1>9. PushAll(Push, m, acc) = a[N]
  BY <1>6 DEF PushAll
<1> QED
  BY <1>8, <1>9

(* Calls: the module, the white list and the modules visited.                 *)
Calls == Modules \X (SUBSET Exportable) \X (SUBSET Modules)
OwnPushed(q) == [vars |-> {<<q[1], e>> : e \in DOMAIN sym.local[q[1]] \intersect q[2]}, seen |-> q[3] \union {q[1]}]
PushBody(F, q) == IF q[1] \in q[3] THEN [vars |-> {}, seen |-> q[3]] ELSE PushAll(F, q[1], OwnPushed(q))
PushGrows(q, r) == r.vars \subseteq Modules \X Exportable /\ r.seen \in SUBSET Modules /\ q[3] \subseteq r.seen
FewerAgree(F, G, q) == \A p \in Calls : Left(p) < Left(q) => F[p] = G[p] /\ PushGrows(p, F[p])

(* What a call leaves to visit. *)
LEMMA CallLeft ==
  ASSUME NEW q \in Calls
  PROVE  /\ Left(q) \in Nat /\ q[1] \in Modules /\ q[2] \subseteq Exportable /\ q[3] \in SUBSET Modules
         /\ \A p \in Calls : q[1] \notin q[3] /\ q[3] \union {q[1]} \subseteq p[3] => Left(p) < Left(q)
<1>1. q[1] \in Modules /\ q[2] \subseteq Exportable /\ q[3] \in SUBSET Modules
  BY DEF Calls
<1>2. PICK e : e = DefaultName
  OBVIOUS
<1>3. e \in Exportable
  BY <1>2 DEF Exportable
<1>4. PICK s : s = <<q[1], e, q[3]>>
  OBVIOUS
<1>5. s \in Queries /\ s[1] = q[1] /\ s[3] = q[3]
  BY <1>1, <1>3, <1>4 DEF Queries
<1>6. Left(s) = Left(q)
  BY <1>5 DEF Left
<1>7. ASSUME NEW p \in Calls, q[1] \notin q[3], q[3] \union {q[1]} \subseteq p[3] PROVE Left(p) < Left(q)
  <2>1. p[1] \in Modules /\ p[3] \in SUBSET Modules
    BY DEF Calls
  <2>2. PICK t : t = <<p[1], e, p[3]>>
    OBVIOUS
  <2>3. t \in Queries /\ t[3] = p[3]
    BY <1>3, <2>1, <2>2 DEF Queries
  <2>4. Left(t) < Left(s)
    BY <1>5, <1>7, <2>3, LeftIs
  <2>5. Left(t) = Left(p)
    BY <2>3 DEF Left
  <2> QED
    BY <1>6, <2>4, <2>5
<1>8. Left(s) \in Nat
  BY <1>5, LeftIs
<1> QED
  BY <1>1, <1>6, <1>7, <1>8

(* A declaration leads to a call of another module. *)
LEMMA PushFromIs ==
  ASSUME CInv, MInv, NEW q \in Calls, q[1] \notin q[3], NEW k \in 1 .. Len(mapOrder[q[1]]),
         NEW d, d = mapOrder[q[1]][k], NEW S \in SUBSET Modules, q[3] \union {q[1]} \subseteq S,
         NEW p, p = <<d.from, WhiteList(d), S>>
  PROVE  p \in Calls /\ p[1] = d.from /\ p[2] = WhiteList(d) /\ p[3] = S /\ Left(p) < Left(q)
         /\ d \in ToSet(prog.reexports[q[1]])
<1>1. PICK m \in Modules : m = q[1]
  BY CallLeft
<1>2. d \in ToSet(prog.reexports[m])
  <2>1. mapOrder[m] \in Seq(ToSet(prog.reexports[m]))
    BY DEF MInv
  <2> QED
    BY <1>1, <2>1
<1>3. d.from \in Modules /\ d.all \in BOOLEAN /\ \A z \in ToSet(d.names) : z.source \in Exportable
  BY <1>2, ListsAre
<1>4. WhiteList(d) \subseteq Exportable
  BY <1>3 DEF WhiteList
<1>5. p \in Calls /\ p[1] = d.from /\ p[2] = WhiteList(d) /\ p[3] = S
  BY <1>3, <1>4 DEF Calls
<1> QED
  BY <1>1, <1>2, <1>5, CallLeft

(* So a call reads only results of calls with less left to visit. *)
LEMMA PushBodyReads ==
  ASSUME CInv, MInv, NEW q \in Calls, NEW F, NEW G, FewerAgree(F, G, q)
  PROVE  PushBody(F, q) = PushBody(G, q) /\ PushGrows(q, PushBody(F, q))
<1>1. PICK m \in Modules : m = q[1]
  BY CallLeft
<1>2. q[3] \in SUBSET Modules /\ q[2] \subseteq Exportable
  BY CallLeft
<1>3. CASE q[1] \in q[3]
  BY <1>2, <1>3 DEF PushBody, PushGrows
<1>4. CASE q[1] \notin q[3]
  <2>1. PICK n \in Nat : n = Len(mapOrder[m])
    BY DEF MInv
  <2>2. PICK acc : acc = OwnPushed(q)
    OBVIOUS
  <2>3. PushBody(F, q) = PushAll(F, m, acc) /\ PushBody(G, q) = PushAll(G, m, acc)
    BY <1>1, <1>4, <2>2 DEF PushBody
  <2>4. PICK h : PushSteps(F, m, acc, n, h) /\ PushAll(F, m, acc) = h[n]
    BY <2>1, PushAllSteps
  <2>5. PICK g : PushSteps(G, m, acc, n, g) /\ PushAll(G, m, acc) = g[n]
    BY <2>1, PushAllSteps
  <2> DEFINE Ok(k) == /\ h[k] = g[k] /\ h[k].vars \subseteq Modules \X Exportable
                      /\ h[k].seen \in SUBSET Modules /\ q[3] \union {m} \subseteq h[k].seen
             T == {k \in Nat : k <= n => Ok(k)}
  <2>6. ASSUME NEW k \in Nat, \A j \in 0 .. k - 1 : j \in T PROVE k \in T
    <3> SUFFICES ASSUME k <= n PROVE Ok(k)
      OBVIOUS
    <3>1. CASE k = 0
      <4>1. h[0] = acc /\ g[0] = acc
        BY <2>4, <2>5 DEF PushSteps
      <4>2. acc.seen = q[3] \union {m} /\ q[3] \union {m} \in SUBSET Modules /\ acc.vars \subseteq Modules \X Exportable
        BY <1>1, <1>2, <2>2 DEF OwnPushed
      <4> QED
        BY <3>1, <4>1, <4>2
    <3>2. CASE k # 0
      <4>1. k - 1 \in 0 .. k - 1 /\ k \in 1 .. n
        BY <3>2
      <4>2. Ok(k - 1)
        BY <2>6, <4>1
      <4>3. PICK a, d : a = h[k - 1] /\ d = mapOrder[m][k]
        OBVIOUS
      <4>4. h[k] = PushFrom(F, a, d) /\ g[k] = PushFrom(G, a, d)
        BY <2>4, <2>5, <4>1, <4>2, <4>3 DEF PushSteps
      <4>5. a.seen \in SUBSET Modules /\ q[3] \union {q[1]} \subseteq a.seen /\ a.vars \subseteq Modules \X Exportable
        BY <1>1, <4>2, <4>3
      <4>6. k \in 1 .. Len(mapOrder[q[1]]) /\ d = mapOrder[q[1]][k]
        BY <1>1, <2>1, <4>1, <4>3
      <4>7. PICK p : p = <<d.from, WhiteList(d), a.seen>>
        OBVIOUS
      <4>8. p \in Calls /\ p[3] = a.seen /\ Left(p) < Left(q)
        BY <1>4, <4>5, <4>6, <4>7, PushFromIs
      <4>9. F[p] = G[p] /\ PushGrows(p, F[p])
        BY <4>8 DEF FewerAgree
      <4>10. h[k] = [vars |-> a.vars \union F[p].vars, seen |-> F[p].seen] /\ g[k] = h[k]
        BY <4>4, <4>7, <4>9 DEF PushFrom
      <4> QED
        BY <1>1, <4>5, <4>8, <4>9, <4>10 DEF PushGrows
    <3> QED
      BY <3>1, <3>2
  <2>7. T = Nat
    <3>1. T \in SUBSET Nat
      OBVIOUS
    <3> HIDE DEF T
    <3> QED
      BY <2>6, <3>1, StrongInduction
  <2>8. Ok(n)
    BY <2>7
  <2> QED
    BY <2>3, <2>4, <2>5, <2>8 DEF PushGrows
<1> QED
  BY <1>3, <1>4

(* There are results for all calls, and the code has them. *)
LEMMA PushIs ==
  ASSUME CInv, MInv, NEW q \in Calls
  PROVE  PushExportVars[q] = PushBody(PushExportVars, q) /\ PushGrows(q, PushExportVars[q])
<1> DEFINE Good(F, n) == /\ DOMAIN F = Calls /\ F = [p \in Calls |-> F[p]]
                         /\ \A p \in Calls : Left(p) < n => F[p] = PushBody(F, p) /\ PushGrows(p, F[p])
           T == {n \in Nat : \E F : Good(F, n)}
<1>1. ASSUME NEW n \in Nat, \A j \in 0 .. n - 1 : j \in T PROVE n \in T
  <2>1. CASE n = 0
    <3> DEFINE F == [p \in Calls |-> 0]
    <3>1. \A p \in Calls : ~ (Left(p) < 0)
      BY CallLeft
    <3>2. DOMAIN F = Calls /\ F = [p \in Calls |-> F[p]]
      OBVIOUS
    <3> HIDE DEF F
    <3>3. Good(F, 0)
      BY <3>1, <3>2
    <3> QED
      BY <2>1, <3>3
  <2>2. CASE n # 0
    <3>1. n - 1 \in 0 .. n - 1 /\ n - 1 \in Nat
      BY <2>2
    <3>2. PICK F : Good(F, n - 1)
      BY <1>1, <3>1
    <3> DEFINE G == [p \in Calls |-> PushBody(F, p)]
    <3>3. \A p \in Calls : Left(p) < n - 1 => F[p] = G[p] /\ PushGrows(p, F[p])
      BY <3>2
    <3>4. ASSUME NEW p \in Calls, Left(p) < n PROVE G[p] = PushBody(G, p) /\ PushGrows(p, G[p])
      <4>1. \A r \in Calls : Left(r) < Left(p) => Left(r) < n - 1
        BY <3>4, CallLeft
      <4>2. G[p] = PushBody(F, p)
        OBVIOUS
      <4> HIDE DEF G
      <4>3. FewerAgree(F, G, p)
        BY <3>3, <4>1 DEF FewerAgree
      <4> QED
        BY <4>2, <4>3, PushBodyReads
    <3>5. DOMAIN G = Calls /\ G = [p \in Calls |-> G[p]]
      OBVIOUS
    <3> HIDE DEF G
    <3>6. Good(G, n)
      BY <3>4, <3>5
    <3> QED
      BY <3>6
  <2> QED
    BY <2>1, <2>2
<1>2. T = Nat
  <2>1. T \in SUBSET Nat
    OBVIOUS
  <2> HIDE DEF T
  <2> QED
    BY <1>1, <2>1, StrongInduction
<1>3. PICK N \in Nat : \A p \in Calls : Left(p) < N
  <2>1. Cardinality(Modules) \in Nat
    BY LinkerAssumption, FS_CardinalityType
  <2>2. ASSUME NEW p \in Calls PROVE Left(p) < Cardinality(Modules) + 1
    <3>1. Modules \ p[3] \in SUBSET Modules
      OBVIOUS
    <3>2. Left(p) <= Cardinality(Modules)
      BY <3>1, LinkerAssumption, FS_Subset DEF Left
    <3>3. Left(p) \in Nat
      BY CallLeft
    <3> QED
      BY <2>1, <3>2, <3>3
  <2> QED
    BY <2>1, <2>2
<1>4. PICK F : Good(F, N)
  <2>1. N \in T
    BY <1>2
  <2> QED
    BY <2>1
<1>5. F = [p \in Calls |-> F[p]]
  BY <1>4
<1>6. \A p \in Calls : F[p] = PushBody(F, p)
  BY <1>3, <1>4
<1>7. F = [p \in Calls |-> PushBody(F, p)]
  BY <1>4, <1>6
<1>8. PushExportVars = CHOOSE H : H = [p \in Calls |-> PushBody(H, p)]
  BY DEF PushExportVars, Calls, PushBody, OwnPushed
<1>9. PushExportVars = [p \in Calls |-> PushBody(PushExportVars, p)]
  BY <1>7, <1>8
<1>10. PICK H : H = PushExportVars
  OBVIOUS
<1>11. DOMAIN H = Calls /\ \A p \in Calls : H[p] = PushBody(H, p)
  BY <1>9, <1>10
<1> DEFINE U == {n \in Nat : \A p \in Calls : Left(p) < n => PushGrows(p, H[p])}
<1>12. ASSUME NEW n \in Nat, \A j \in 0 .. n - 1 : j \in U PROVE n \in U
  <2> SUFFICES ASSUME NEW p \in Calls, Left(p) < n PROVE PushGrows(p, H[p])
    OBVIOUS
  <2>1. n - 1 \in 0 .. n - 1 /\ n - 1 \in Nat
    BY CallLeft
  <2>2. \A r \in Calls : Left(r) < n - 1 => PushGrows(r, H[r])
    BY <1>12, <2>1
  <2>3. \A r \in Calls : Left(r) < Left(p) => Left(r) < n - 1
    BY CallLeft
  <2>4. FewerAgree(H, H, p)
    BY <2>2, <2>3 DEF FewerAgree
  <2>5. PushGrows(p, PushBody(H, p))
    BY <2>4, PushBodyReads
  <2> QED
    BY <1>11, <2>5
<1>13. U = Nat
  <2>1. U \in SUBSET Nat
    OBVIOUS
  <2> HIDE DEF U
  <2> QED
    BY <1>12, <2>1, StrongInduction
<1>14. PushGrows(q, H[q])
  <2>1. N \in U
    BY <1>13
  <2> QED
    BY <1>3, <2>1
<1> QED
  BY <1>10, <1>11, <1>14

(* The map of a module has a declaration for each module it re-exports from, and *)
(* all of them when there is only one for each.                              *)
Covers == \A m \in Modules :
  /\ \A i, j \in 1 .. Len(mapOrder[m]) : mapOrder[m][i].from = mapOrder[m][j].from => i = j
  /\ \A d \in ToSet(prog.reexports[m]) : \E i \in 1 .. Len(mapOrder[m]) :
       mapOrder[m][i].from = d.from /\ (ReexportsApart => mapOrder[m][i] = d)

(* So it is at the start, and nothing changes the maps. *)
LEMMA CoversInit == Init => Covers
<1> SUFFICES ASSUME Init, NEW m \in Modules
    PROVE  /\ \A i, j \in 1 .. Len(mapOrder[m]) : mapOrder[m][i].from = mapOrder[m][j].from => i = j
           /\ \A d \in ToSet(prog.reexports[m]) : \E i \in 1 .. Len(mapOrder[m]) :
                mapOrder[m][i].from = d.from /\ (ReexportsApart => mapOrder[m][i] = d)
  BY DEF Covers
<1>1. PICK r : r = prog.reexports[m]
  OBVIOUS
<1>2. r \in Seq([from : Modules, all : BOOLEAN, names : Seq([source : Exportable, export : Exportable])])
  BY <1>1, LinkerAssumption DEF Init, IsProgram
<1>3. DOMAIN r = 1 .. Len(r) /\ Len(r) \in Nat
  BY <1>2
<1>4. PICK F : F = {d.from : d \in ToSet(r)}
  OBVIOUS
<1> DEFINE At(f) == {i \in DOMAIN r : r[i].from = f}
           g == [f \in F |-> r[Max(At(f))]]
<1>5. ASSUME NEW f \in F PROVE Max(At(f)) \in DOMAIN r /\ r[Max(At(f))].from = f
  <2>1. At(f) # {} /\ At(f) \in SUBSET Nat /\ \A i \in At(f) : i <= Len(r)
    BY <1>3, <1>4 DEF ToSet
  <2>2. Max(At(f)) \in At(f)
    <3> HIDE DEF At
    <3>1. IsFiniteSet(At(f))
      BY <1>3, <2>1, FS_BoundedSetOfNaturals
    <3> QED
      BY <2>1, <3>1, Greatest
  <2> QED
    BY <2>2
<1>6. IsFiniteSet(F)
  <2>1. PICK a : a = [i \in 1 .. Len(r) |-> r[i].from]
    OBVIOUS
  <2>2. IsFiniteSet(1 .. Len(r)) /\ DOMAIN a = 1 .. Len(r)
    BY <1>3, <2>1, FS_Interval
  <2>3. IsFiniteSet({a[i] : i \in 1 .. Len(r)})
    BY <2>2, FiniteImage
  <2>4. F = {a[i] : i \in 1 .. Len(r)}
    BY <1>3, <1>4, <2>1 DEF ToSet
  <2> QED
    BY <2>3, <2>4
<1>7. PICK S : S = {g[f] : f \in F}
  OBVIOUS
<1>15. \A f \in F : g[f] = r[Max(At(f))]
  OBVIOUS
<1>8. IsFiniteSet(S)
  <2>1. DOMAIN g = F
    OBVIOUS
  <2> HIDE DEF g
  <2>2. IsFiniteSet({g[f] : f \in F})
    BY <1>6, <2>1, FiniteImage
  <2> QED
    BY <1>7, <2>2
<1>9. ExternalMap(prog, m) = S
  <2>1. ExternalMap(prog, m) = {r[Max(At(f))] : f \in F}
    BY <1>1, <1>4 DEF ExternalMap
  <2> HIDE DEF At
  <2> QED
    BY <1>7, <2>1
<1>10. mapOrder[m] \in SetToSeqs(S)
  BY <1>9 DEF Init
<1>11. PICK o, n : o = mapOrder[m] /\ n = Cardinality(S)
  OBVIOUS
<1>12. /\ n \in Nat /\ DOMAIN o = 1 .. n /\ \A i \in 1 .. n : o[i] \in S
       /\ \A i, j \in 1 .. n : o[i] = o[j] => i = j
       /\ \A v \in S : \E i \in 1 .. n : o[i] = v
  BY <1>8, <1>10, <1>11, OrderCovers
<1>13. Len(o) = n
  <2>1. o \in [1 .. n -> S]
    BY <1>10, <1>11 DEF SetToSeqs
  <2>2. o \in Seq(S)
    BY <1>12, <2>1
  <2> QED
    BY <1>12, <2>2
<1> HIDE DEF g, At
<1>14. \A f \in F : g[f].from = f
  BY <1>5, <1>15
<1>16. ASSUME NEW i \in 1 .. n, NEW j \in 1 .. n, o[i].from = o[j].from PROVE i = j
  <2>1. PICK a \in F : o[i] = g[a]
    BY <1>7, <1>12
  <2>2. PICK b \in F : o[j] = g[b]
    BY <1>7, <1>12
  <2>3. a = b
    BY <1>14, <1>16, <2>1, <2>2
  <2> QED
    BY <1>12, <2>1, <2>2, <2>3
<1>17. ASSUME NEW d \in ToSet(r)
       PROVE  \E i \in 1 .. n : o[i].from = d.from /\ (ReexportsApart => o[i] = d)
  <2>1. d.from \in F
    BY <1>4
  <2>2. g[d.from] \in S
    BY <1>7, <2>1
  <2>3. PICK i \in 1 .. n : o[i] = g[d.from]
    BY <1>12, <2>2
  <2>4. o[i].from = d.from
    BY <1>14, <2>1, <2>3
  <2>5. ASSUME ReexportsApart PROVE o[i] = d
    <3>1. PICK k \in DOMAIN r : d = r[k]
      BY DEF ToSet
    <3>2. PICK l \in DOMAIN r : g[d.from] = r[l]
      BY <1>5, <1>15, <2>1
    <3>3. r[k].from = r[l].from
      BY <2>3, <2>4, <3>1, <3>2
    <3>4. k = l
      BY <1>1, <2>5, <3>3 DEF ReexportsApart
    <3> QED
      BY <2>3, <3>1, <3>2, <3>4
  <2> QED
    BY <2>4, <2>5
<1> QED
  BY <1>1, <1>11, <1>13, <1>16, <1>17

(* The maps are as they were. *)
LEMMA CoversStep == Covers /\ [Next]_vars => Covers'
<1> SUFFICES ASSUME Covers, [Next]_vars PROVE Covers'
  OBVIOUS
<1>1. prog' = prog /\ mapOrder' = mapOrder
  BY ProgramStays
<1>2. ReexportsApart' <=> ReexportsApart
  BY <1>1 DEF ReexportsApart
<1> QED
  BY <1>1, <1>2 DEF Covers

-----------------------------------------------------------------------------
(* Re-exports of modules, and the modules below one in the trees they form.    *)
Below(m) == Closure([k \in Modules |-> ReexportedFrom(k)], {m})

(* What a module re-exports from are modules. *)
LEMMA ReexportedAre ==
  ASSUME CInv, NEW m \in Modules
  PROVE  ReexportedFrom(m) \subseteq Modules /\ \A d \in ToSet(prog.reexports[m]) : d.from \in ReexportedFrom(m)
BY ListsAre DEF ReexportedFrom

(* Below a module are itself and what is below those it re-exports from.       *)
LEMMA BelowIs ==
  ASSUME CInv, NEW m \in Modules
  PROVE  /\ m \in Below(m) /\ Below(m) \subseteq Modules
         /\ \A k \in Below(m) : ReexportedFrom(k) \subseteq Below(m)
         /\ \A Y : m \in Y /\ (\A k \in Y : k \in Modules => ReexportedFrom(k) \subseteq Y) => Below(m) \subseteq Y
         /\ \A k \in ReexportedFrom(m) : Below(k) \subseteq Below(m)
         /\ \A k \in Below(m) : k = m \/ \E n \in Below(m) : k \in ReexportedFrom(n)
<1>1. PICK f : f = [k \in Modules |-> ReexportedFrom(k)]
  OBVIOUS
<1>2. IsFiniteSet(Modules) /\ DOMAIN f = Modules /\ \A k \in Modules : f[k] \subseteq Modules /\ f[k] = ReexportedFrom(k)
  BY <1>1, ReexportedAre, LinkerAssumption
<1>3. ASSUME NEW n \in Modules
      PROVE  /\ {n} \subseteq Closure(f, {n}) /\ Closure(f, {n}) \subseteq Modules
             /\ \A x \in Closure(f, {n}) : f[x] \subseteq Closure(f, {n})
             /\ \A Y : {n} \subseteq Y /\ (\A x \in Y : x \in Modules => f[x] \subseteq Y) => Closure(f, {n}) \subseteq Y
  <2>1. {n} \subseteq Modules
    OBVIOUS
  <2> QED
    BY <1>2, <2>1, ClosureIs
<1>4. \A n : Below(n) = Closure(f, {n})
  BY <1>1 DEF Below
<1>5. ASSUME NEW n \in Modules
      PROVE  /\ n \in Below(n) /\ Below(n) \subseteq Modules
             /\ \A k \in Below(n) : ReexportedFrom(k) \subseteq Below(n)
             /\ \A Y : n \in Y /\ (\A k \in Y : k \in Modules => ReexportedFrom(k) \subseteq Y) => Below(n) \subseteq Y
  <2>1. PICK C : C = Closure(f, {n})
    OBVIOUS
  <2>2. n \in C /\ C \subseteq Modules /\ \A x \in C : f[x] \subseteq C
    BY <1>3, <2>1
  <2>3. ASSUME NEW Y, n \in Y, \A k \in Y : k \in Modules => ReexportedFrom(k) \subseteq Y PROVE C \subseteq Y
    <3>1. {n} \subseteq Y /\ \A x \in Y : x \in Modules => f[x] \subseteq Y
      BY <1>2, <2>3
    <3> QED
      BY <1>3, <2>1, <3>1
  <2>4. \A k \in C : ReexportedFrom(k) \subseteq C
    BY <1>2, <2>2
  <2> QED
    BY <1>4, <2>1, <2>2, <2>3, <2>4
<1>6. ASSUME NEW k \in ReexportedFrom(m) PROVE Below(k) \subseteq Below(m)
  <2>1. k \in Modules
    BY ReexportedAre
  <2>2. k \in Below(m)
    BY <1>5
  <2> QED
    BY <1>5, <2>1, <2>2
<1>7. ASSUME NEW k \in Below(m) PROVE k = m \/ \E n \in Below(m) : k \in ReexportedFrom(n)
  <2>1. PICK Y : Y = {x \in Below(m) : x = m \/ \E n \in Below(m) : x \in ReexportedFrom(n)}
    OBVIOUS
  <2>2. m \in Y
    BY <1>5, <2>1
  <2>3. ASSUME NEW x \in Y, NEW y \in ReexportedFrom(x) PROVE y \in Y
    <3>1. x \in Below(m)
      BY <2>1
    <3>2. y \in Below(m)
      BY <1>5, <3>1
    <3> QED
      BY <2>1, <2>3, <3>1, <3>2
  <2>4. Below(m) \subseteq Y
    BY <1>5, <2>2, <2>3
  <2> QED
    BY <2>1, <2>4
<1> QED
  BY <1>5, <1>6, <1>7

(* When re-exports form trees, nothing is below two modules one re-exports from, *)
(* nor is the module itself.                                                 *)
LEMMA BelowApart ==
  ASSUME CInv, ReexportsFormTrees, NEW m \in Modules, NEW a \in ReexportedFrom(m)
  PROVE  m \notin Below(a) /\ \A b \in ReexportedFrom(m) : a # b => Below(a) \intersect Below(b) = {}
<1>1. PICK f : f = [k \in Modules |-> ReexportedFrom(k)]
  OBVIOUS
<1>2. /\ m \notin Closure(f, ReexportedFrom(m))
      /\ \A x, y \in Modules : x # y => ReexportedFrom(x) \intersect ReexportedFrom(y) = {}
  BY <1>1 DEF ReexportsFormTrees
<1>3. /\ ReexportedFrom(m) \subseteq Closure(f, ReexportedFrom(m))
      /\ \A x \in Closure(f, ReexportedFrom(m)) : x \in Modules /\ ReexportedFrom(x) \subseteq Closure(f, ReexportedFrom(m))
  <2>1. IsFiniteSet(Modules) /\ DOMAIN f = Modules /\ \A x \in Modules : f[x] \subseteq Modules /\ f[x] = ReexportedFrom(x)
    BY <1>1, ReexportedAre, LinkerAssumption
  <2>2. ReexportedFrom(m) \subseteq Modules
    BY ReexportedAre
  <2>3. /\ ReexportedFrom(m) \subseteq Closure(f, ReexportedFrom(m)) /\ Closure(f, ReexportedFrom(m)) \subseteq Modules
        /\ \A x \in Closure(f, ReexportedFrom(m)) : f[x] \subseteq Closure(f, ReexportedFrom(m))
    BY <2>1, <2>2, ClosureIs
  <2> QED
    BY <2>1, <2>3
<1>4. ASSUME NEW c \in ReexportedFrom(m) PROVE c \in Modules /\ m \notin Below(c)
  <2>1. c \in Modules
    BY ReexportedAre
  <2>2. Below(c) \subseteq Closure(f, ReexportedFrom(m))
    BY <1>3, <2>1, BelowIs
  <2> QED
    BY <1>2, <2>1, <2>2
<1>5. ASSUME NEW b \in ReexportedFrom(m), a # b PROVE Below(a) \intersect Below(b) = {}
  <2>1. a \in Modules /\ b \in Modules /\ m \notin Below(a) /\ m \notin Below(b)
    BY <1>4
  <2>2. ASSUME NEW y \in Modules, NEW c, c \in ReexportedFrom(y), c \in ReexportedFrom(m) PROVE y = m
    BY <1>2, <2>2
  <2>3. ASSUME NEW c \in Below(b), c # b, NEW y \in Modules, c \in ReexportedFrom(y) PROVE y \in Below(b)
    <3>1. PICK n \in Below(b) : c \in ReexportedFrom(n)
      BY <2>1, <2>3, BelowIs
    <3>2. n \in Modules
      BY <2>1, BelowIs
    <3> QED
      BY <1>2, <2>3, <3>1, <3>2
  <2>4. a \notin Below(b)
    BY <1>5, <2>1, <2>3
  <2>5. PICK Y : Y = Below(a) \ Below(b)
    OBVIOUS
  <2>6. a \in Y
    BY <2>1, <2>4, <2>5, BelowIs
  <2>7. ASSUME NEW y \in Y, NEW c \in ReexportedFrom(y) PROVE c \in Y
    <3>1. y \in Below(a) /\ y \in Modules /\ y \notin Below(b)
      BY <2>1, <2>5, BelowIs
    <3>2. c \in Below(a)
      BY <2>1, <3>1, BelowIs
    <3>3. c # b
      BY <2>1, <2>2, <3>1
    <3>4. c \notin Below(b)
      BY <2>3, <3>1, <3>3
    <3> QED
      BY <2>5, <3>2, <3>4
  <2>8. Below(a) \subseteq Y
    BY <2>1, <2>6, <2>7, BelowIs
  <2> QED
    BY <2>5, <2>8
<1> QED
  BY <1>4, <1>5

(* What a module passes on through stars has it, ...                          *)
LEMMA ThroughStarsIs ==
  ASSUME CInv, NEW m \in Modules
  PROVE  /\ m \in ThroughStars(m) /\ ThroughStars(m) \subseteq Modules
         /\ \A k \in ThroughStars(m) : \A d \in Stars(k) : d.from \in ThroughStars(m)
         /\ \A Y : m \in Y /\ (\A k \in Y : k \in Modules => \A d \in Stars(k) : d.from \in Y) => ThroughStars(m) \subseteq Y
         /\ \A d \in Stars(m) : ThroughStars(d.from) \subseteq ThroughStars(m)
         /\ \A k \in ThroughStars(m) : k = m \/ \E d \in Stars(m) : k \in ThroughStars(d.from)
<1>1. PICK f : f = [k \in Modules |-> {d.from : d \in Stars(k)}]
  OBVIOUS
<1>2. /\ IsFiniteSet(Modules) /\ DOMAIN f = Modules
      /\ \A k \in Modules : f[k] \subseteq Modules /\ f[k] = {d.from : d \in Stars(k)}
      /\ \A k \in Modules : \A d \in Stars(k) : d.from \in Modules
  <2>1. \A k \in Modules : \A d \in Stars(k) : d.from \in Modules
    BY ListsAre DEF Stars
  <2> QED
    BY <1>1, <2>1, LinkerAssumption
<1>3. ASSUME NEW n \in Modules
      PROVE  /\ {n} \subseteq Closure(f, {n}) /\ Closure(f, {n}) \subseteq Modules
             /\ \A x \in Closure(f, {n}) : f[x] \subseteq Closure(f, {n})
             /\ \A Y : {n} \subseteq Y /\ (\A x \in Y : x \in Modules => f[x] \subseteq Y) => Closure(f, {n}) \subseteq Y
  <2>1. {n} \subseteq Modules
    OBVIOUS
  <2> QED
    BY <1>2, <2>1, ClosureIs
<1>4. \A n : ThroughStars(n) = Closure(f, {n})
  BY <1>1 DEF ThroughStars
<1>5. ASSUME NEW n \in Modules
      PROVE  /\ n \in ThroughStars(n) /\ ThroughStars(n) \subseteq Modules
             /\ \A k \in ThroughStars(n) : \A d \in Stars(k) : d.from \in ThroughStars(n)
             /\ \A Y : n \in Y /\ (\A k \in Y : k \in Modules => \A d \in Stars(k) : d.from \in Y) => ThroughStars(n) \subseteq Y
  <2>1. PICK C : C = Closure(f, {n})
    OBVIOUS
  <2>2. n \in C /\ C \subseteq Modules /\ \A x \in C : f[x] \subseteq C
    BY <1>3, <2>1
  <2>3. ASSUME NEW Y, n \in Y, \A k \in Y : k \in Modules => \A d \in Stars(k) : d.from \in Y PROVE C \subseteq Y
    <3>1. {n} \subseteq Y /\ \A x \in Y : x \in Modules => f[x] \subseteq Y
      BY <1>2, <2>3
    <3> QED
      BY <1>3, <2>1, <3>1
  <2>4. \A k \in C : \A d \in Stars(k) : d.from \in C
    BY <1>2, <2>2
  <2> QED
    BY <1>4, <2>1, <2>2, <2>3, <2>4
<1>6. ASSUME NEW d \in Stars(m) PROVE ThroughStars(d.from) \subseteq ThroughStars(m)
  <2>1. d.from \in Modules /\ d.from \in ThroughStars(m)
    BY <1>2, <1>5
  <2> QED
    BY <1>5, <2>1
<1>7. ASSUME NEW k \in ThroughStars(m) PROVE k = m \/ \E d \in Stars(m) : k \in ThroughStars(d.from)
  <2>1. PICK Y : Y = {m} \union UNION {ThroughStars(d.from) : d \in Stars(m)}
    OBVIOUS
  <2>2. \A d \in Stars(m) : d.from \in Modules
    BY <1>2
  <2>3. ASSUME NEW x \in Y, NEW d \in Stars(x) PROVE d.from \in Y
    <3>1. CASE x = m
      <4>1. d.from \in ThroughStars(d.from)
        BY <1>5, <2>2, <2>3, <3>1
      <4> QED
        BY <2>1, <2>3, <3>1, <4>1
    <3>2. CASE \E c \in Stars(m) : x \in ThroughStars(c.from)
      <4>1. PICK c \in Stars(m) : x \in ThroughStars(c.from)
        BY <3>2
      <4>2. d.from \in ThroughStars(c.from)
        BY <1>5, <2>2, <2>3, <4>1
      <4> QED
        BY <2>1, <4>1, <4>2
    <3> QED
      BY <2>1, <3>1, <3>2
  <2>4. m \in Y
    BY <2>1
  <2>5. ThroughStars(m) \subseteq Y
    BY <1>5, <2>3, <2>4
  <2> QED
    BY <2>1, <2>5
<1> QED
  BY <1>5, <1>6, <1>7

(* The variables a module exports in the bundle: local exports of its own and of *)
(* those it passes on through stars, and those of them that these list; and    *)
(* what a declaration adds.                                                  *)
ListedFrom(d) == {x \in Exports : x[1] = d.from /\ x[2] \in WhiteList(d) \intersect ExportNames(prog, d.from)}
LocalsOfModule(m, W) == {x \in Exports : x[1] = m /\ x[2] \in W \intersect ExportNames(prog, m)}
FinalOf(m) == {x \in Exports : \E k \in ThroughStars(m) :
                 x \in LocalsOfModule(k, Exportable) \/ \E d \in Lists(k) : x \in ListedFrom(d)}
PushedBy(d) == IF d.all THEN FinalOf(d.from) ELSE ListedFrom(d)
PushedByAll(m) == {x \in Exports : \E d \in ToSet(prog.reexports[m]) : x \in PushedBy(d)}

(* A module's are its own and what its declarations add. *)
LEMMA FinalOfIs ==
  ASSUME CInv, NEW m \in Modules
  PROVE  FinalOf(m) = LocalsOfModule(m, Exportable) \union PushedByAll(m)
<1>1. ASSUME NEW x \in FinalOf(m) PROVE x \in LocalsOfModule(m, Exportable) \union PushedByAll(m)
  <2>1. PICK k \in ThroughStars(m) : x \in LocalsOfModule(k, Exportable) \/ \E d \in Lists(k) : x \in ListedFrom(d)
    BY DEF FinalOf
  <2>2. CASE k = m
    <3>1. ASSUME NEW d \in Lists(m), x \in ListedFrom(d) PROVE x \in PushedByAll(m)
      <4>1. d \in ToSet(prog.reexports[m]) /\ ~ d.all /\ x \in Exports
        BY <3>1 DEF Lists, ListedFrom
      <4> QED
        BY <3>1, <4>1 DEF PushedByAll, PushedBy
    <3> QED
      BY <2>1, <2>2, <3>1
  <2>3. ASSUME NEW d \in Stars(m), k \in ThroughStars(d.from) PROVE x \in PushedByAll(m)
    <3>1. x \in FinalOf(d.from)
      BY <2>1, <2>3 DEF FinalOf, LocalsOfModule, ListedFrom
    <3>2. d \in ToSet(prog.reexports[m]) /\ d.all /\ x \in Exports
      BY <2>3, <3>1 DEF Stars, FinalOf
    <3> QED
      BY <3>1, <3>2 DEF PushedByAll, PushedBy
  <2> QED
    BY <2>1, <2>2, <2>3, ThroughStarsIs
<1>2. ASSUME NEW x \in LocalsOfModule(m, Exportable) PROVE x \in FinalOf(m)
  BY ThroughStarsIs DEF FinalOf, LocalsOfModule
<1>3. ASSUME NEW x \in PushedByAll(m) PROVE x \in FinalOf(m)
  <2>1. PICK d \in ToSet(prog.reexports[m]) : x \in PushedBy(d) /\ x \in Exports
    BY DEF PushedByAll
  <2>2. d.all \in BOOLEAN
    BY ListsAre
  <2>3. CASE d.all
    <3>1. d \in Stars(m) /\ x \in FinalOf(d.from)
      BY <2>1, <2>3 DEF Stars, PushedBy
    <3>2. PICK k \in ThroughStars(d.from) : x \in LocalsOfModule(k, Exportable) \/ \E c \in Lists(k) : x \in ListedFrom(c)
      BY <3>1 DEF FinalOf
    <3>3. k \in ThroughStars(m)
      BY <3>1, ThroughStarsIs
    <3> QED
      BY <2>1, <3>2, <3>3 DEF FinalOf
  <2>4. CASE ~ d.all
    <3>1. d \in Lists(m) /\ x \in ListedFrom(d)
      BY <2>1, <2>4 DEF Lists, PushedBy
    <3> QED
      BY <2>1, <3>1, ThroughStarsIs DEF FinalOf
  <2> QED
    BY <2>2, <2>3, <2>4
<1> QED
  BY <1>1, <1>2, <1>3

(* A call that meets no module twice pushes the module's own on the white list  *)
(* and what its declarations add, and visits what is below the module.         *)
LEMMA PushedIs ==
  ASSUME CInv, MInv, Covers, TablesTyped, ReexportsApart, ReexportsFormTrees, ListsNameLocals,
         NEW q \in Calls, Below(q[1]) \intersect q[3] = {}
  PROVE  /\ PushExportVars[q].vars = LocalsOfModule(q[1], q[2]) \union PushedByAll(q[1])
         /\ PushExportVars[q].seen \subseteq q[3] \union Below(q[1])
<1>0. PICK P : P = PushExportVars
  OBVIOUS
<1> DEFINE Apart(c) == Below(c[1]) \intersect c[3] = {}
           Right(c) == /\ P[c].vars = LocalsOfModule(c[1], c[2]) \union PushedByAll(c[1])
                       /\ P[c].seen \subseteq c[3] \union Below(c[1])
           T == {n \in Nat : \A c \in Calls : Left(c) = n /\ Apart(c) => Right(c)}
<1>1. ASSUME NEW n \in Nat, \A j \in 0 .. n - 1 : j \in T PROVE n \in T
  <2> SUFFICES ASSUME NEW c \in Calls, Left(c) = n, Apart(c) PROVE Right(c)
    OBVIOUS
  <2>1. PICK m \in Modules : m = c[1]
    BY CallLeft
  <2>2. \A s \in Calls : Left(s) < n /\ Apart(s) => Right(s)
    <3>1. ASSUME NEW s \in Calls, Left(s) < n, Apart(s) PROVE Right(s)
      <4>1. Left(s) \in 0 .. n - 1
        BY <3>1, CallLeft
      <4>2. Left(s) \in T
        BY <1>1, <4>1
      <4> QED
        BY <3>1, <4>2
    <3> QED
      BY <3>1
  <2>3. m \in Below(m) /\ Below(m) \subseteq Modules /\ m \notin c[3]
    BY <2>1, BelowIs
  <2>4. PICK N \in Nat : N = Len(mapOrder[m])
    BY DEF MInv
  <2>5. PICK acc : acc = OwnPushed(c)
    OBVIOUS
  <2>6. P[c] = PushAll(P, m, acc)
    <3>1. PushExportVars[c] = PushBody(PushExportVars, c)
      BY PushIs
    <3> QED
      BY <1>0, <2>1, <2>3, <2>5, <3>1 DEF PushBody
  <2>7. PICK h : PushSteps(P, m, acc, N, h) /\ PushAll(P, m, acc) = h[N]
    BY <2>4, PushAllSteps
  <2>8. \A s \in Calls : PushGrows(s, P[s])
    BY <1>0, PushIs
  <2>9. /\ acc.vars = LocalsOfModule(m, c[2]) /\ acc.seen = c[3] \union {m} /\ acc.seen \in SUBSET Modules
    <3>1. DOMAIN sym.local[m] = ExportNames(prog, m)
      BY DEF TablesTyped
    <3>2. c[2] \subseteq Exportable /\ c[3] \in SUBSET Modules
      BY CallLeft
    <3>3. {<<m, e>> : e \in ExportNames(prog, m) \intersect c[2]} = LocalsOfModule(m, c[2])
      <4>1. ASSUME NEW e \in ExportNames(prog, m) \intersect c[2] PROVE <<m, e>> \in LocalsOfModule(m, c[2])
        <5>1. PICK x : x = <<m, e>>
          OBVIOUS
        <5>2. x \in Exports /\ x[1] = m /\ x[2] = e
          BY <3>2, <4>1, <5>1 DEF Exports
        <5> QED
          BY <4>1, <5>1, <5>2 DEF LocalsOfModule
      <4>2. ASSUME NEW x \in LocalsOfModule(m, c[2]) PROVE x \in {<<m, e>> : e \in ExportNames(prog, m) \intersect c[2]}
        <5>1. x \in Exports /\ x[1] = m /\ x[2] \in c[2] \intersect ExportNames(prog, m)
          BY <4>2 DEF LocalsOfModule
        <5>2. x = <<m, x[2]>>
          BY <5>1 DEF Exports
        <5> QED
          BY <5>1, <5>2
      <4> QED
        BY <4>1, <4>2
    <3> QED
      BY <2>1, <2>5, <3>1, <3>2, <3>3 DEF OwnPushed
  <2> DEFINE D(j) == mapOrder[m][j]
             Ok(k) == /\ \A x : x \in h[k].vars <=> x \in acc.vars \/ \E j \in 1 .. k : x \in PushedBy(D(j))
                      /\ \A x \in h[k].seen : x \in acc.seen \/ \E j \in 1 .. k : x \in Below(D(j).from)
                      /\ h[k].seen \in SUBSET Modules /\ acc.seen \subseteq h[k].seen
             U == {k \in Nat : k <= N => Ok(k)}
  <2>10. ASSUME NEW k \in Nat, \A j \in 0 .. k - 1 : j \in U PROVE k \in U
    <3> SUFFICES ASSUME k <= N PROVE Ok(k)
      OBVIOUS
    <3>1. CASE k = 0
      <4>1. h[0] = acc /\ 1 .. 0 = {}
        BY <2>7 DEF PushSteps
      <4> QED
        BY <2>9, <3>1, <4>1
    <3>2. CASE k # 0
      <4>1. k - 1 \in 0 .. k - 1 /\ k \in 1 .. N /\ k - 1 \in Nat /\ 1 .. k = (1 .. k - 1) \union {k}
        BY <3>2
      <4>2. Ok(k - 1)
        BY <2>10, <4>1
      <4>3. PICK a, d : a = h[k - 1] /\ d = D(k)
        OBVIOUS
      <4>4. h[k] = PushFrom(P, a, d)
        BY <2>7, <4>1, <4>3 DEF PushSteps
      <4>5. /\ \A x : x \in a.vars <=> x \in acc.vars \/ \E j \in 1 .. k - 1 : x \in PushedBy(D(j))
            /\ \A x \in a.seen : x \in acc.seen \/ \E j \in 1 .. k - 1 : x \in Below(D(j).from)
            /\ a.seen \in SUBSET Modules /\ acc.seen \subseteq a.seen
        BY <4>2, <4>3
      <4>6. k \in 1 .. Len(mapOrder[c[1]]) /\ d = mapOrder[c[1]][k]
        BY <2>1, <2>4, <4>1, <4>3
      <4>7. PICK p : p = <<d.from, WhiteList(d), a.seen>>
        OBVIOUS
      <4>8. /\ p \in Calls /\ p[1] = d.from /\ p[2] = WhiteList(d) /\ p[3] = a.seen /\ Left(p) < n
            /\ d \in ToSet(prog.reexports[m])
        <5>1. c[1] \notin c[3] /\ c[3] \union {c[1]} \subseteq a.seen
          BY <2>1, <2>3, <2>9, <4>5
        <5> QED
          BY <2>1, <4>5, <4>6, <4>7, <5>1, PushFromIs, ZenonT(40)
      <4>9. d.from \in ReexportedFrom(m) /\ d.from \in Modules /\ d.all \in BOOLEAN
        BY <4>8, ReexportedAre, ListsAre
      <4>10. Apart(p)
        <5>1. ASSUME NEW x \in Below(d.from), x \in a.seen PROVE FALSE
          <6>1. x \in Below(m)
            BY <4>9, BelowIs
          <6>2. x \notin c[3]
            BY <2>1, <6>1
          <6>3. x # m
            BY <4>9, BelowApart
          <6>4. PICK j \in 1 .. k - 1 : x \in Below(D(j).from)
            BY <2>9, <4>5, <5>1, <6>2, <6>3
          <6>5. j \in 1 .. N /\ j # k
            BY <4>1, <6>4
          <6>6. D(j) \in ToSet(prog.reexports[m])
            <7>1. mapOrder[m] \in Seq(ToSet(prog.reexports[m]))
              BY DEF MInv
            <7> QED
              BY <2>4, <6>5, <7>1
          <6>7. D(j).from \in ReexportedFrom(m) /\ D(j).from # d.from
            <7>1. \A i, l \in 1 .. Len(mapOrder[m]) : mapOrder[m][i].from = mapOrder[m][l].from => i = l
              BY DEF Covers
            <7> QED
              BY <2>4, <4>1, <4>3, <6>5, <6>6, <7>1, ReexportedAre
          <6>8. Below(d.from) \intersect Below(D(j).from) = {}
            BY <4>9, <6>7, BelowApart
          <6> QED
            BY <5>1, <6>4, <6>8
        <5> QED
          BY <4>8, <5>1
      <4>11. Right(p)
        BY <2>2, <4>8, <4>10
      <4>12. P[p].vars = PushedBy(d)
        <5>1. P[p].vars = LocalsOfModule(d.from, WhiteList(d)) \union PushedByAll(d.from)
          BY <4>8, <4>11
        <5>2. CASE d.all
          <6>1. WhiteList(d) = Exportable
            BY <5>2 DEF WhiteList
          <6>2. FinalOf(d.from) = LocalsOfModule(d.from, Exportable) \union PushedByAll(d.from)
            BY <4>9, FinalOfIs
          <6> QED
            BY <5>1, <5>2, <6>1, <6>2 DEF PushedBy
        <5>3. CASE ~ d.all
          <6>1. d \in Lists(m)
            BY <4>8, <5>3 DEF Lists
          <6>2. prog.reexports[d.from] = <<>>
            BY <6>1 DEF ListsNameLocals
          <6>3. PushedByAll(d.from) = {}
            BY <6>2 DEF PushedByAll, ToSet
          <6>4. LocalsOfModule(d.from, WhiteList(d)) = ListedFrom(d)
            BY DEF LocalsOfModule, ListedFrom
          <6> QED
            BY <5>1, <5>3, <6>3, <6>4 DEF PushedBy
        <5> QED
          BY <4>9, <5>2, <5>3
      <4>13. P[p].seen \subseteq a.seen \union Below(d.from)
        BY <4>8, <4>11
      <4>14. P[p].seen \in SUBSET Modules /\ a.seen \subseteq P[p].seen
        BY <2>8, <4>8 DEF PushGrows
      <4>15. h[k].vars = a.vars \union PushedBy(D(k)) /\ h[k].seen = P[p].seen
        BY <4>3, <4>4, <4>7, <4>12 DEF PushFrom
      <4>16. \A x : x \in h[k].vars <=> x \in acc.vars \/ \E j \in 1 .. k : x \in PushedBy(D(j))
        <5> HIDE DEF D
        <5>1. \A x : (\E j \in 1 .. k : x \in PushedBy(D(j))) <=> (\E j \in 1 .. k - 1 : x \in PushedBy(D(j))) \/ x \in PushedBy(D(k))
          BY <4>1
        <5> QED
          BY <4>5, <4>15, <5>1
      <4>17. \A x \in h[k].seen : x \in acc.seen \/ \E j \in 1 .. k : x \in Below(D(j).from)
        <5> HIDE DEF D
        <5>1. \A x : x \in Below(d.from) => \E j \in 1 .. k : x \in Below(D(j).from)
          BY <4>1, <4>3
        <5>2. \A x : (\E j \in 1 .. k - 1 : x \in Below(D(j).from)) => \E j \in 1 .. k : x \in Below(D(j).from)
          BY <4>1
        <5> QED
          BY <4>5, <4>13, <4>15, <5>1, <5>2
      <4> QED
        BY <4>5, <4>14, <4>15, <4>16, <4>17
    <3> QED
      BY <3>1, <3>2
  <2>11. U = Nat
    <3>1. U \in SUBSET Nat
      OBVIOUS
    <3> HIDE DEF U
    <3> QED
      BY <2>10, <3>1, StrongInduction
  <2>12. Ok(N)
    <3>1. N \in U
      BY <2>11
    <3> QED
      BY <3>1
  <2> QED
    <3> HIDE DEF D
    <3>1. h[N] = P[c]
      BY <2>6, <2>7
    <3>2. \A x : x \in PushedByAll(m) <=> \E j \in 1 .. N : x \in PushedBy(D(j))
      <4>1. ASSUME NEW x, NEW d \in ToSet(prog.reexports[m]), x \in PushedBy(d) PROVE \E j \in 1 .. N : x \in PushedBy(D(j))
        <5>1. PICK j \in 1 .. N : mapOrder[m][j] = d
          BY <2>4 DEF Covers
        <5> QED
          BY <4>1, <5>1 DEF D
      <4>2. ASSUME NEW x, NEW j \in 1 .. N, x \in PushedBy(D(j)) PROVE x \in PushedByAll(m)
        <5>1. mapOrder[m] \in Seq(ToSet(prog.reexports[m]))
          BY DEF MInv
        <5>2. D(j) \in ToSet(prog.reexports[m])
          BY <2>4, <5>1 DEF D
        <5>3. x \in Exports
          BY <4>2 DEF PushedBy, FinalOf, ListedFrom
        <5> QED
          BY <4>2, <5>2, <5>3 DEF PushedByAll
      <4> QED
        BY <4>1, <4>2 DEF PushedByAll
    <3>3. \A x \in h[N].seen : x \in c[3] \union Below(m)
      <4>1. ASSUME NEW j \in 1 .. N, NEW x \in Below(D(j).from) PROVE x \in Below(m)
        <5>1. mapOrder[m] \in Seq(ToSet(prog.reexports[m]))
          BY DEF MInv
        <5>2. D(j) \in ToSet(prog.reexports[m])
          BY <2>4, <5>1 DEF D
        <5> QED
          BY <4>1, <5>2, ReexportedAre, BelowIs
      <4> QED
        BY <2>3, <2>9, <2>12, <4>1
    <3>4. \A x : x \in h[N].vars <=> x \in LocalsOfModule(m, c[2]) \/ x \in PushedByAll(m)
      BY <2>9, <2>12, <3>2
    <3> QED
      BY <2>1, <3>1, <3>3, <3>4
<1>2. T = Nat
  <2>1. T \in SUBSET Nat
    OBVIOUS
  <2> HIDE DEF T
  <2> QED
    BY <1>1, <2>1, StrongInduction
<1>3. Left(q) \in T
  BY <1>2, CallLeft
<1>4. Right(q)
  BY <1>3
<1> QED
  BY <1>0, <1>4

(* Whatever the program, each table of exports has the names its module exports, *)
(* and each index leads to these.                                            *)
Tabled(T) ==
  /\ IsTables(T)
  /\ \A m \in Modules :
       /\ DOMAIN T.local[m] = ExportNames(prog, m)
       /\ \A l \in DOMAIN T.index[m] : T.index[m][l] \in ExportNames(prog, m)
TabInv == Tabled(sym)

(* So it is at the start. *)
LEMMA TabInit == Init => TabInv
<1> SUFFICES ASSUME Init PROVE Tabled(sym)
  BY DEF TabInv
<1>1. SInv /\ CInv /\ sym = SymbolsOf(prog)
  BY SInit, CInit DEF Init
<1>2. DOMAIN sym.local = Modules /\ DOMAIN sym.index = Modules
  BY <1>1 DEF SymbolsOf
<1>3. IsTables(sym)
  BY <1>1, <1>2 DEF IsTables, SInv
<1>4. ASSUME NEW m \in Modules
      PROVE  /\ DOMAIN sym.local[m] = ExportNames(prog, m)
             /\ \A l \in DOMAIN sym.index[m] : sym.index[m][l] \in ExportNames(prog, m)
  <2>1. PICK q : q = prog.exports[m]
    OBVIOUS
  <2>2. q \in Seq([export : Exportable, local : Names \union {Unnamed}])
    BY <1>1, <2>1, ProgramIs DEF IsProgram
  <2>3. /\ sym.local[m] = [e \in ExportNames(prog, m) |-> q[Max({i \in DOMAIN q : q[i].export = e})].local]
        /\ sym.index[m] = [l \in {x.local : x \in ToSet(q)} |-> q[Max({i \in DOMAIN q : q[i].local = l})].export]
    BY <1>1, <2>1 DEF SymbolsOf
  <2>4. ASSUME NEW l \in DOMAIN sym.index[m] PROVE sym.index[m][l] \in ExportNames(prog, m)
    <3>1. PICK A : A = {i \in DOMAIN q : q[i].local = l}
      OBVIOUS
    <3>2. A \subseteq DOMAIN q /\ A # {}
      BY <2>3, <3>1 DEF ToSet
    <3>3. Max(A) \in A
      BY <2>2, <3>2, LatestIs
    <3>4. q[Max(A)] \in ToSet(q)
      BY <3>2, <3>3 DEF ToSet
    <3>5. sym.index[m][l] = q[Max(A)].export
      BY <2>3, <3>1
    <3> QED
      BY <2>1, <3>4, <3>5 DEF ExportNames
  <2> QED
    BY <2>3, <2>4
<1> QED
  BY <1>3, <1>4 DEF Tabled

(* BatchRenameSymbols of a module keeps the keys of its table. *)
LEMMA TabRenames ==
  ASSUME NEW T, Tabled(T), NEW m \in Modules, NEW ren
  PROVE  Tabled(RenameInModule(T, m, ren))
<1>1. PICK U : U = RenameInModule(T, m, ren)
  OBVIOUS
<1>2. IsTables(T)
  BY DEF Tabled
<1>3. IsTables(U) /\ ExportsMoved(T, U, m, ren, DOMAIN ren \intersect DOMAIN T.index[m])
  BY <1>1, <1>2, ModuleRenames
<1>4. PICK hit : hit = DOMAIN ren \intersect DOMAIN T.index[m]
  OBVIOUS
<1>5. /\ \A k \in Modules \ {m} : U.local[k] = T.local[k] /\ U.index[k] = T.index[k]
      /\ DOMAIN U.local[m] = DOMAIN T.local[m]
      /\ DOMAIN U.index[m] = (DOMAIN T.index[m] \ hit) \union {ren[o] : o \in hit}
      /\ \A l \in DOMAIN U.index[m] :
           \/ \E o \in hit : ren[o] = l /\ U.index[m][l] = T.index[m][o]
           \/ (\A o \in hit : ren[o] # l) /\ U.index[m][l] = T.index[m][l]
  BY <1>3, <1>4 DEF ExportsMoved
<1>6. ASSUME NEW l \in DOMAIN U.index[m] PROVE U.index[m][l] \in ExportNames(prog, m)
  <2>1. \A o \in DOMAIN T.index[m] : T.index[m][o] \in ExportNames(prog, m)
    BY DEF Tabled
  <2>2. CASE \E o \in hit : ren[o] = l /\ U.index[m][l] = T.index[m][o]
    BY <1>4, <2>1, <2>2
  <2>3. CASE (\A o \in hit : ren[o] # l) /\ U.index[m][l] = T.index[m][l]
    <3>1. l \in DOMAIN T.index[m]
      BY <1>5, <1>6, <2>3
    <3> QED
      BY <2>1, <2>3, <3>1
  <2> QED
    BY <1>5, <2>2, <2>3
<1>7. ASSUME NEW k \in Modules
      PROVE  /\ DOMAIN U.local[k] = ExportNames(prog, k)
             /\ \A l \in DOMAIN U.index[k] : U.index[k][l] \in ExportNames(prog, k)
  BY <1>5, <1>6 DEF Tabled
<1> QED
  BY <1>1, <1>3, <1>7 DEF Tabled

(* What replacing imports leaves. *)
IsResult(R) == \E s, g : \E ok \in BOOLEAN : R = [sym |-> s, getters |-> g, ok |-> ok]

(* One import declaration. *)
LEMMA TabReplaceOne ==
  ASSUME NEW m \in Modules, NEW i, NEW acc, IsResult(acc), Tabled(acc.sym)
  PROVE  IsResult(ReplaceImport(m, acc, i)) /\ Tabled(ReplaceImport(m, acc, i).sym)
<1>1. PICK S, g : \E ok \in BOOLEAN : acc = [sym |-> S, getters |-> g, ok |-> ok]
  BY DEF IsResult
<1>2. PICK ok \in BOOLEAN : acc = [sym |-> S, getters |-> g, ok |-> ok]
  BY <1>1
<1>3. acc.sym = S
  BY <1>2
<1>4. ReplacedBy(S, m, i, ReplaceImport(m, acc, i))
  BY <1>2, ReplaceOne
<1>5. PICK R : R = ReplaceImport(m, acc, i)
  OBVIOUS
<1>6. CASE R.sym = S
  BY <1>3, <1>4, <1>5, <1>6 DEF ReplacedBy, IsResult
<1>7. CASE \E n : R.sym = RenameInModule(S, m, [o \in {S.name[<<m, i.local>>]} |-> n])
  <2>1. PICK n : R.sym = RenameInModule(S, m, [o \in {S.name[<<m, i.local>>]} |-> n])
    BY <1>7
  <2>2. Tabled(R.sym)
    BY <1>3, <2>1, TabRenames
  <2> QED
    BY <1>4, <1>5, <2>2 DEF ReplacedBy, IsResult
<1> QED
  BY <1>4, <1>5, <1>6, <1>7 DEF ReplacedBy

(* All of them. *)
LEMMA TabReplaced ==
  ASSUME CInv, TabInv, NEW m \in Modules
  PROVE  IsResult(Replaced(m)) /\ Tabled(Replaced(m).sym)
<1>1. PICK n \in Nat : n = Len(prog.imports[m])
  <2>1. prog.imports[m] \in Seq([from : Modules \union Libraries, source : Exportable \union {Star}, local : Names])
    BY ProgramIs DEF IsProgram
  <2> QED
    BY <2>1
<1>2. PICK h : ReplaceSteps(m, n, h) /\ Replaced(m) = h[n]
  BY <1>1, ReplacedSteps
<1> DEFINE Ok(k) == IsResult(h[k]) /\ Tabled(h[k].sym)
           T == {k \in Nat : k <= n => Ok(k)}
<1>3. ASSUME NEW k \in Nat, \A j \in 0 .. k - 1 : j \in T PROVE k \in T
  <2> SUFFICES ASSUME k <= n PROVE Ok(k)
    OBVIOUS
  <2>1. CASE k = 0
    <3>1. PICK yes \in BOOLEAN : yes = TRUE
      OBVIOUS
    <3>5. PICK S : S = sym
      OBVIOUS
    <3>2. h[0] = [sym |-> S, getters |-> getters, ok |-> yes]
      BY <1>2, <3>1, <3>5 DEF ReplaceSteps, Start
    <3>6. h[0].sym = S
      BY <3>2
    <3>7. IsResult(h[0])
      BY <3>2, Zenon DEF IsResult
    <3>3. h[0].sym = S /\ IsResult(h[0])
      BY <3>6, <3>7
    <3> QED
      BY <2>1, <3>3, <3>5 DEF TabInv
  <2>2. CASE k # 0
    <3>1. k - 1 \in 0 .. k - 1 /\ k \in 1 .. n
      BY <2>2
    <3>2. Ok(k - 1)
      BY <1>3, <3>1
    <3>3. PICK a : a = h[k - 1]
      OBVIOUS
    <3>4. h[k] = ReplaceImport(m, a, prog.imports[m][k])
      BY <1>2, <3>1, <3>3 DEF ReplaceSteps
    <3> QED
      BY <3>2, <3>3, <3>4, TabReplaceOne
  <2> QED
    BY <2>1, <2>2
<1>4. T = Nat
  <2>1. T \in SUBSET Nat
    OBVIOUS
  <2> HIDE DEF T
  <2> QED
    BY <1>3, <2>1, StrongInduction
<1>5. Ok(n)
  BY <1>4
<1> QED
  BY <1>2, <1>5

(* What is said of the next tables can be said of them in this state. *)
LEMMA TabNext == ASSUME prog' = prog PROVE TabInv' <=> Tabled(sym')
<1>1. IsTables(sym)' <=> IsTables(sym')
  BY TablesNext
<1>2. \A m : ExportNames(prog, m)' = ExportNames(prog, m)
  BY DEF ExportNames
<1> QED
  BY <1>1, <1>2 DEF TabInv, Tabled

(* Every step keeps them. *)
LEMMA TabStep ==
  ASSUME CInv, WInv, SInv, SInv', TabInv, [Next]_vars
  PROVE  TabInv'
<1>1. prog' = prog
  BY ProgramStays
<1>2. CASE UNCHANGED sym
  BY <1>1, <1>2, TabNext DEF TabInv
<1>3. ASSUME NEW s \in Inner, RenameInner(s) PROVE TabInv'
  <2>1. PICK order, names : sym' = RenameIn(sym, s, Changes(sym, order, names))
    BY <1>3 DEF RenameInner
  <2>2. s \in Scopes /\ IsSym(sym)
    BY DEF Scopes, SInv
  <2>3. sym'.local = sym.local /\ sym'.index = sym.index
    BY <2>1, <2>2, ScopeKeepsExports
  <2>4. IsSym(sym')
    BY <1>1, SymNext DEF SInv
  <2>5. IsTables(sym')
    BY <2>3, <2>4 DEF TabInv, Tabled, IsTables
  <2>6. Tabled(sym')
    BY <2>3, <2>5 DEF TabInv, Tabled
  <2> QED
    BY <1>1, <2>6, TabNext
<1>4. CASE RenameRoot
  <2>1. PICK m : m = Last(stack)
    OBVIOUS
  <2>2. m \in Modules
    BY <1>4, <2>1, RootTables
  <2>3. PICK order, names, d, T :
          /\ T = RenameInModule(sym, m, Changes(sym, order, names))
          /\ sym' = T \/ (HasDefault(m) /\ sym' = AddDefault(T, m, d))
    BY <1>4, <2>1 DEF RenameRoot
  <2>4. Tabled(T)
    BY <2>2, <2>3, TabRenames DEF TabInv
  <2>5. CASE sym' = T
    BY <1>1, <2>4, <2>5, TabNext
  <2>6. CASE HasDefault(m) /\ sym' = AddDefault(T, m, d)
    <3>1. PICK z \in ToSet(prog.exports[m]) : z.local = Unnamed
      BY <2>6 DEF HasDefault
    <3>2. z.export = DefaultName
      BY <2>2, <3>1, ListsAre
    <3>3. DefaultName \in DOMAIN T.local[m]
      BY <2>2, <2>4, <3>2 DEF Tabled, ExportNames
    <3>4. PICK U : U = AddDefault(T, m, d)
      OBVIOUS
    <3>5. IsTables(T)
      BY <2>4 DEF Tabled
    <3>6. /\ IsTables(U) /\ (\A k \in Modules \ {m} : U.local[k] = T.local[k]) /\ U.index = T.index
          /\ DOMAIN U.local[m] = DOMAIN T.local[m]
      BY <2>2, <3>3, <3>4, <3>5, DefaultExports
    <3>7. Tabled(U)
      BY <2>4, <3>6 DEF Tabled
    <3> QED
      BY <1>1, <2>6, <3>4, <3>7, TabNext
  <2> QED
    BY <2>3, <2>5, <2>6
<1>5. CASE ReplaceImports
  <2>1. PICK m : m = Last(stack)
    OBVIOUS
  <2>2. stack # <<>> /\ sym' = Replaced(m).sym
    BY <1>5, <2>1 DEF ReplaceImports
  <2>3. m \in Modules
    BY <2>1, <2>2, TopIs
  <2> QED
    BY <1>1, <2>2, <2>3, TabReplaced, TabNext
<1> QED
  BY <1>2, <1>3, <1>4, <1>5 DEF Next, vars, CollectExports, MergeGenerators, GenAst, Descend, RootsRenamed, Finish, Stop

(* What the entry exports is settled before anything is named.                 *)
Treelike == ReexportsApart /\ ReexportsFormTrees /\ ListsNameLocals
FInv ==
  /\ finalVars \subseteq Modules \X Exportable
  /\ stage # "collect" /\ Treelike => finalVars = FinalOf(Entry)

(* What depends on the program alone stays. *)
LEMMA FinalStays ==
  ASSUME prog' = prog
  PROVE  FinalOf(Entry)' = FinalOf(Entry) /\ (Treelike' <=> Treelike)
<1>1. /\ \A m : ExportNames(prog, m)' = ExportNames(prog, m)
      /\ \A m : Lists(m)' = Lists(m) /\ Stars(m)' = Stars(m)
  BY DEF ExportNames, Lists, Stars
<1>2. \A d : ListedFrom(d)' = ListedFrom(d)
  BY DEF ListedFrom, ExportNames, WhiteList
<1>3. \A m : LocalsOfModule(m, Exportable)' = LocalsOfModule(m, Exportable)
  BY DEF LocalsOfModule, ExportNames
<1>4. ThroughStars(Entry)' = ThroughStars(Entry)
  <2>1. PICK f : f = [k \in Modules |-> {d.from : d \in Stars(k)}]
    OBVIOUS
  <2>2. f = [k \in Modules |-> {d.from : d \in Stars(k)}]'
    BY <2>1 DEF Stars
  <2>3. ThroughStars(Entry) = Closure(f, {Entry})
    BY <2>1 DEF ThroughStars
  <2>4. ThroughStars(Entry)' = Closure(f, {Entry})
    BY <2>2 DEF ThroughStars, Closure, Widened
  <2> QED
    BY <2>3, <2>4
<1>5. FinalOf(Entry)' = FinalOf(Entry)
  BY <1>1, <1>2, <1>3, <1>4 DEF FinalOf
<1>6. Treelike' <=> Treelike
  <2>1. ReexportsApart' <=> ReexportsApart
    BY DEF ReexportsApart
  <2>2. ListsNameLocals' <=> ListsNameLocals
    BY <1>1 DEF ListsNameLocals
  <2>3. ReexportsFormTrees' <=> ReexportsFormTrees
    <3>1. \A m : ReexportedFrom(m)' = ReexportedFrom(m)
      BY DEF ReexportedFrom
    <3>2. PICK f : f = [k \in Modules |-> ReexportedFrom(k)]
      OBVIOUS
    <3>3. f = [k \in Modules |-> ReexportedFrom(k)]'
      BY <3>2 DEF ReexportedFrom
    <3>4. ReexportsFormTrees <=> /\ \A m \in Modules : m \notin Closure(f, ReexportedFrom(m))
                                 /\ \A m, n \in Modules : m # n => ReexportedFrom(m) \intersect ReexportedFrom(n) = {}
      BY <3>2 DEF ReexportsFormTrees
    <3>5. ReexportsFormTrees' <=> /\ \A m \in Modules : m \notin Closure(f, ReexportedFrom(m)')
                                  /\ \A m, n \in Modules : m # n => ReexportedFrom(m)' \intersect ReexportedFrom(n)' = {}
      BY <3>3 DEF ReexportsFormTrees, ReexportedFrom, Closure, Widened
    <3> QED
      BY <3>1, <3>4, <3>5
  <2> QED
    BY <2>1, <2>2, <2>3 DEF Treelike
<1> QED
  BY <1>5, <1>6

(* So it is settled, ... *)
LEMMA FStep ==
  ASSUME CInv, MInv, Covers, TabInv, FInv, [Next]_vars
  PROVE  FInv'
<1>1. prog' = prog
  BY ProgramStays
<1>2. CASE UNCHANGED finalVars /\ (stage' # "collect" => stage # "collect")
  BY <1>1, <1>2, FinalStays DEF FInv
<1>3. CASE CollectExports
  <2>1. finalVars' = PushExportVars[<<Entry, Exportable, {}>>].vars
    BY <1>3 DEF CollectExports
  <2>2. PICK q : q = <<Entry, Exportable, {}>>
    OBVIOUS
  <2>3. q \in Calls /\ q[1] = Entry /\ q[2] = Exportable /\ q[3] = {} /\ Entry \in Modules
    BY <2>2, LinkerAssumption DEF Calls
  <2>4. finalVars' \subseteq Modules \X Exportable
    BY <2>1, <2>2, <2>3, PushIs DEF PushGrows
  <2>5. ASSUME Treelike PROVE finalVars' = FinalOf(Entry)
    <3>1. TablesTyped
      BY DEF TabInv, Tabled, TablesTyped
    <3>2. PushExportVars[q].vars = LocalsOfModule(q[1], q[2]) \union PushedByAll(q[1])
      BY <2>3, <2>5, <3>1, PushedIs DEF Treelike
    <3>3. FinalOf(Entry) = LocalsOfModule(Entry, Exportable) \union PushedByAll(Entry)
      BY <2>3, FinalOfIs
    <3> QED
      BY <2>1, <2>2, <2>3, <3>2, <3>3
  <2> QED
    BY <1>1, <2>4, <2>5, FinalStays DEF FInv
<1> QED
  BY <1>2, <1>3 DEF Next, vars, RenameInner, MergeGenerators, GenAst, Descend, RenameRoot,
       RootsRenamed, ReplaceImports, Finish, Stop

(* ... beginning with nothing. *)
LEMMA FInit == Init => FInv
BY DEF Init, FInv

-----------------------------------------------------------------------------
(* What a module exports, as ECMAScript has it.                              *)

(* All that an export leads to is in any set it is in that Onward stays in. *)
LEMMA AfterLeast ==
  ASSUME CInv, NEW x \in Exports, NEW Y, x \in Y, \A y \in Y : y \in Exports => Onward(y) \subseteq Y
  PROVE  After(x) \subseteq Y
<1>1. PICK f : f = Ons
  OBVIOUS
<1>2. IsFiniteSet(Exports)
  <2>1. IsFiniteSet(Exportable)
    BY LinkerAssumption, FS_AddElement DEF Exportable
  <2> QED
    BY <2>1, LinkerAssumption, FS_Product DEF Exports
<1>3. DOMAIN f = Exports /\ \A y \in Exports : f[y] = Onward(y) /\ f[y] \subseteq Exports
  BY <1>1, OnwardIs DEF Ons
<1>4. {x} \subseteq Exports /\ {x} \subseteq Y /\ \A y \in Y : y \in Exports => f[y] \subseteq Y
  BY <1>3
<1>5. Closure(f, {x}) \subseteq Y
  BY <1>2, <1>3, <1>4, ClosureIs
<1> QED
  BY <1>1, <1>5 DEF After

(* Its exports are those of the modules it passes on. *)
LEMMA ExportedOf ==
  ASSUME CInv, NEW m \in Modules
  PROVE  /\ \A k \in ThroughStars(m) : \A e \in NamesExported(k) : e # DefaultName => e \in ExportedNames(m)
         /\ \A e \in ExportedNames(m) : \E k \in ThroughStars(m) : e \in NamesExported(k)
<1>1. PICK U : U = UNION {NamesExported(k) : k \in ThroughStars(m)}
  OBVIOUS
<1>2. \A e : e \in U <=> \E k \in ThroughStars(m) : e \in NamesExported(k)
  BY <1>1
<1>3. ExportedNames(m) = NamesExported(m) \union (U \ {DefaultName})
  BY <1>1 DEF ExportedNames
<1>4. m \in ThroughStars(m)
  BY ThroughStarsIs
<1> QED
  BY <1>2, <1>3, <1>4

(* Nothing that it does not export means something, a default aside. *)
LEMMA NotExported ==
  ASSUME CInv, NEW m \in Modules, NEW e \in Exportable, e # DefaultName, e \notin ExportedNames(m)
  PROVE  ExportMeans(m, e) = {}
<1>1. \A k \in ThroughStars(m) : k \in Modules /\ e \notin NamesExported(k)
  BY ThroughStarsIs, ExportedOf
<1>2. ASSUME NEW k \in ThroughStars(m), NEW x, x = <<k, e>>
      PROVE  Direct(x) = {} /\ Onward(x) = Starred(x)
  <2>1. e \notin ExportNames(prog, k) /\ k \in Modules
    BY <1>1, <1>2 DEF NamesExported
  <2>2. ~ \E d \in Lists(k) : \E z \in ToSet(d.names) : z.export = e
    BY <1>1, <1>2 DEF NamesExported
  <2> QED
    BY <1>2, <2>1, <2>2, NotItsOwn
<1>3. PICK Y : Y = {<<k, e>> : k \in ThroughStars(m)}
  OBVIOUS
<1>4. PICK x : x = <<m, e>>
  OBVIOUS
<1>5. x \in Exports /\ x \in Y
  BY <1>3, <1>4, ThroughStarsIs DEF Exports
<1>6. ASSUME NEW y \in Y PROVE Direct(y) = {} /\ Onward(y) \subseteq Y
  <2>1. PICK k \in ThroughStars(m) : y = <<k, e>>
    BY <1>3
  <2>2. Starred(y) = {<<d.from, e>> : d \in Stars(k)}
    <3>1. y[1] = k /\ y[2] = e
      BY <2>1
    <3> QED
      BY <3>1 DEF Starred
  <2>3. \A d \in Stars(k) : d.from \in ThroughStars(m)
    BY <2>1, ThroughStarsIs
  <2>4. Direct(y) = {} /\ Onward(y) = Starred(y)
    BY <1>2, <2>1
  <2> QED
    BY <1>3, <2>2, <2>3, <2>4
<1>7. After(x) \subseteq Y
  BY <1>5, <1>6, AfterLeast
<1>8. ExportMeans(m, e) = UNION {Direct(y) : y \in After(x)}
  BY <1>4 DEF ExportMeans, After, Ons
<1> QED
  BY <1>6, <1>7, <1>8

(* A listed name means what it lists. *)
LEMMA ListMeans ==
  ASSUME CInv, Accepted, NEW m \in Modules, NEW d \in Lists(m), NEW z \in ToSet(d.names)
  PROVE  ExportMeans(m, z.export) = ExportMeans(d.from, z.source)
<1>1. d \in ToSet(prog.reexports[m]) /\ ~ d.all
  BY DEF Lists
<1>2. z.export \in Exportable /\ z.source \in Exportable /\ d.from \in Modules
  BY <1>1, ListsAre
<1>3. PICK e, x, y : e = z.export /\ x = <<m, e>> /\ y = <<d.from, z.source>>
  OBVIOUS
<1>4. ExportsDiffer(m)
  BY DEF Accepted
<1>5. e \notin ExportNames(prog, m)
  BY <1>3, <1>4 DEF ExportsDiffer
<1>6. Listed(x) = {y}
  <2>1. x[1] = m /\ x[2] = e
    BY <1>3
  <2>2. \A c \in Lists(m) : \A w \in ToSet(c.names) : w.export = e => c = d /\ w = z
    BY <1>3, <1>4 DEF ExportsDiffer
  <2>3. Listed(x) = UNION {{<<c.from, w.source>> : w \in {w \in ToSet(c.names) : w.export = e}} : c \in Lists(m)}
    BY <2>1 DEF Listed
  <2>4. \A v : v \in Listed(x) <=> \E c \in Lists(m) : \E w \in ToSet(c.names) : w.export = e /\ v = <<c.from, w.source>>
    BY <2>3
  <2> QED
    BY <1>3, <2>2, <2>4
<1>7. Direct(x) = {} /\ Onward(x) = {y}
  BY <1>2, <1>3, <1>5, <1>6, NotItsOwn
<1>8. x \in Exports /\ y \in After(x)
  <2>1. x \in Exports
    BY <1>2, <1>3 DEF Exports
  <2> QED
    BY <1>7, <2>1, AfterIs
<1>9. y[1] = d.from /\ y[2] = z.source
  BY <1>3
<1>10. ExportMeans(d.from, z.source) \subseteq ExportMeans(m, e)
  BY <1>2, <1>3, <1>8, <1>9, MeansStep
<1>11. ExportMeans(m, e) \subseteq ExportMeans(d.from, z.source)
  BY <1>2, <1>3, <1>7, <1>9, MeansStep
<1> QED
  BY <1>3, <1>10, <1>11

(* The names a module exports are names, and through stars it has those of     *)
(* others.                                                                   *)
LEMMA ExportedNamesAre ==
  ASSUME CInv, NEW m \in Modules
  PROVE  /\ NamesExported(m) \subseteq Exportable /\ NamesExported(m) \subseteq ExportedNames(m)
         /\ ExportedNames(m) \subseteq Exportable
         /\ \A d \in Stars(m) : ExportedNames(d.from) \ {DefaultName} \subseteq ExportedNames(m)
<1>1. ASSUME NEW k \in Modules PROVE NamesExported(k) \subseteq Exportable
  <2>1. ExportNames(prog, k) \subseteq Exportable
    BY ListsAre DEF ExportNames
  <2>2. \A d \in Lists(k) : \A z \in ToSet(d.names) : z.export \in Exportable
    BY ListsAre DEF Lists
  <2> QED
    BY <2>1, <2>2 DEF NamesExported
<1>2. ASSUME NEW k \in Modules PROVE NamesExported(k) \subseteq ExportedNames(k) /\ ExportedNames(k) \subseteq Exportable
  <2>1. \A j \in ThroughStars(k) : NamesExported(j) \subseteq Exportable
    BY <1>1, ThroughStarsIs
  <2> QED
    BY <1>1, <2>1 DEF ExportedNames
<1>3. ASSUME NEW d \in Stars(m) PROVE ExportedNames(d.from) \ {DefaultName} \subseteq ExportedNames(m)
  <2>1. d.from \in Modules /\ d.from \in ThroughStars(m) /\ ThroughStars(d.from) \subseteq ThroughStars(m)
    BY ThroughStarsIs
  <2>2. \A n \in ExportedNames(d.from) \ {DefaultName} : \E k \in ThroughStars(m) : n \in NamesExported(k)
    BY <2>1, ExportedOf
  <2> QED
    BY <2>2, ExportedOf
<1> QED
  BY <1>1, <1>2, <1>3

(* What a star brings means what it does where it comes from. *)
LEMMA StarMeans ==
  ASSUME CInv, StarsApart, NEW m \in Modules, NEW d \in Stars(m), NEW e \in ExportedNames(d.from)
  PROVE  e # DefaultName /\ e \in ExportedNames(m) /\ ExportMeans(m, e) = ExportMeans(d.from, e)
<1>1. d \in ToSet(prog.reexports[m]) /\ d.all /\ d.from \in Modules
  BY ListsAre DEF Stars
<1>2. /\ e # DefaultName /\ e \notin NamesExported(m)
      /\ \A c \in Stars(m) : c # d => e \notin ExportedNames(c.from)
  BY DEF StarsApart
<1>3. e \in Exportable /\ e \in ExportedNames(m)
  BY <1>1, <1>2, ExportedNamesAre
<1>4. PICK x, y : x = <<m, e>> /\ y = <<d.from, e>>
  OBVIOUS
<1>5. Direct(x) = {} /\ Onward(x) = Starred(x)
  <2>1. e \notin ExportNames(prog, m) /\ ~ \E c \in Lists(m) : \E z \in ToSet(c.names) : z.export = e
    BY <1>2 DEF NamesExported
  <2> QED
    BY <1>3, <1>4, <2>1, NotItsOwn
<1>6. \A v : v \in Starred(x) <=> \E c \in Stars(m) : v = <<c.from, e>>
  <2>1. x[1] = m /\ x[2] = e
    BY <1>4
  <2> QED
    BY <1>2, <2>1 DEF Starred
<1>7. x \in Exports /\ y \in After(x)
  <2>1. x \in Exports
    BY <1>3, <1>4 DEF Exports
  <2> QED
    BY <1>4, <1>5, <1>6, <2>1, AfterIs
<1>8. y[1] = d.from /\ y[2] = e
  BY <1>4
<1>9. ExportMeans(d.from, e) \subseteq ExportMeans(m, e)
  BY <1>3, <1>4, <1>7, <1>8, MeansStep
<1>10. ASSUME NEW v \in ExportMeans(m, e) PROVE v \in ExportMeans(d.from, e)
  <2>1. PICK w \in Onward(x) : v \in ExportMeans(w[1], w[2])
    BY <1>3, <1>4, <1>5, MeansStep
  <2>2. PICK c \in Stars(m) : w = <<c.from, e>>
    BY <1>5, <1>6, <2>1
  <2>3. v \in ExportMeans(c.from, e)
    BY <2>1, <2>2
  <2>4. c.from \in Modules
    BY ListsAre DEF Stars
  <2>5. c = d
    BY <1>2, <1>3, <2>3, <2>4, NotExported
  <2> QED
    BY <2>3, <2>5
<1> QED
  BY <1>2, <1>3, <1>9, <1>10

(* Through stars, an export means for the entry what it does where it is.       *)
LEMMA EntryMeans ==
  ASSUME CInv, StarsApart, NEW k \in ThroughStars(Entry), NEW e \in ExportedNames(k)
  PROVE  e \in ExportedNames(Entry) /\ ExportMeans(Entry, e) = ExportMeans(k, e)
<1>1. Entry \in Modules
  BY LinkerAssumption
<1>2. PICK Y : Y = {n \in Modules : \A x \in ExportedNames(n) : x \in ExportedNames(Entry) /\ ExportMeans(Entry, x) = ExportMeans(n, x)}
  OBVIOUS
<1>3. Entry \in Y
  BY <1>1, <1>2
<1>4. ASSUME NEW n \in Y, NEW d \in Stars(n) PROVE d.from \in Y
  <2>1. n \in Modules /\ d.from \in Modules
    BY <1>2, ListsAre DEF Stars
  <2>2. \A x \in ExportedNames(d.from) : x \in ExportedNames(n) /\ ExportMeans(n, x) = ExportMeans(d.from, x)
    BY <2>1, StarMeans
  <2> QED
    BY <1>2, <2>1, <2>2
<1>5. ThroughStars(Entry) \subseteq Y
  BY <1>1, <1>3, <1>4, ThroughStarsIs
<1> QED
  BY <1>2, <1>5

(* The bundle exports what the entry does, and each name is known for what it  *)
(* means: the tables are linked at the end.                                  *)
LEMMA ExportsReach ==
  ASSUME CInv, LInv, JInv, OverInv, TabInv, FInv
  PROVE  FinalExportsRight
<1> SUFFICES ASSUME Done, LinksKeepable, ReexportsApart, ReexportsFormTrees, ListsNameLocals, StarsApart
             PROVE  /\ {v[2] : v \in finalVars} = ExportedNames(Entry)
                    /\ \A v \in finalVars :
                         ~ ByName(ExportMeans(Entry, v[2])) => AtRoot(FinalName(v)) = ExportMeans(Entry, v[2])
  BY DEF FinalExportsRight
<1>1. Entry \in Modules /\ Accepted
  BY LinkerAssumption DEF LinksKeepable
<1>2. finalVars = FinalOf(Entry)
  BY DEF FInv, Treelike, Done
<1>3. ASSUME NEW v \in finalVars
      PROVE  /\ v[1] \in Modules /\ v[2] \in ExportNames(prog, v[1])
             /\ v[2] \in ExportedNames(Entry) /\ ExportMeans(Entry, v[2]) = ExportMeans(v[1], v[2])
  <2>1. PICK k \in ThroughStars(Entry) : v \in LocalsOfModule(k, Exportable) \/ \E d \in Lists(k) : v \in ListedFrom(d)
    BY <1>2, <1>3 DEF FinalOf
  <2>2. k \in Modules
    BY <1>1, ThroughStarsIs
  <2>3. NamesExported(k) \subseteq ExportedNames(k)
    BY <2>2, ExportedNamesAre
  <2>4. CASE v \in LocalsOfModule(k, Exportable)
    <3>1. v[1] = k /\ v[2] \in ExportNames(prog, k)
      BY <2>4 DEF LocalsOfModule
    <3>2. v[2] \in ExportedNames(k)
      BY <2>3, <3>1 DEF NamesExported
    <3> QED
      BY <2>2, <3>1, <3>2, EntryMeans
  <2>5. ASSUME NEW d \in Lists(k), v \in ListedFrom(d)
        PROVE  /\ v[1] \in Modules /\ v[2] \in ExportNames(prog, v[1])
               /\ v[2] \in ExportedNames(Entry) /\ ExportMeans(Entry, v[2]) = ExportMeans(v[1], v[2])
    <3>1. v[1] = d.from /\ v[2] \in WhiteList(d) /\ v[2] \in ExportNames(prog, d.from)
      BY <2>5 DEF ListedFrom
    <3>2. d.from \in Modules /\ ~ d.all
      BY <2>2, ListsAre DEF Lists
    <3>3. PICK z \in ToSet(d.names) : v[2] = z.source
      BY <3>1, <3>2 DEF WhiteList
    <3>4. z.export = z.source
      BY <2>2, <2>5, <3>3 DEF ListsNameLocals
    <3>5. v[2] \in ExportedNames(k)
      BY <2>3, <2>5, <3>3, <3>4 DEF NamesExported
    <3>6. ExportMeans(k, v[2]) = ExportMeans(d.from, v[2])
      BY <1>1, <2>2, <2>5, <3>3, <3>4, ListMeans
    <3> QED
      BY <3>1, <3>2, <3>5, <3>6, EntryMeans
  <2> QED
    BY <2>1, <2>4, <2>5
<1>4. ASSUME NEW e \in ExportedNames(Entry) PROVE \E v \in finalVars : v[2] = e
  <2>1. PICK k \in ThroughStars(Entry) : e \in NamesExported(k)
    BY <1>1, <1>4, ThroughStarsIs DEF ExportedNames
  <2>2. k \in Modules /\ e \in Exportable
    BY <1>1, <2>1, ThroughStarsIs, ExportedNamesAre
  <2>3. CASE e \in ExportNames(prog, k)
    <3>1. PICK v : v = <<k, e>>
      OBVIOUS
    <3>2. v \in Exports /\ v[1] = k /\ v[2] = e
      BY <2>2, <3>1 DEF Exports
    <3>3. v \in LocalsOfModule(k, Exportable)
      BY <2>2, <2>3, <3>2 DEF LocalsOfModule
    <3> QED
      BY <1>2, <2>1, <3>2, <3>3 DEF FinalOf
  <2>4. ASSUME NEW d \in Lists(k), NEW z \in ToSet(d.names), z.export = e PROVE \E v \in finalVars : v[2] = e
    <3>1. z.source = e /\ e \in ExportNames(prog, d.from)
      BY <2>2, <2>4 DEF ListsNameLocals
    <3>2. d.from \in Modules /\ ~ d.all
      BY <2>2, ListsAre DEF Lists
    <3>3. PICK v : v = <<d.from, e>>
      OBVIOUS
    <3>4. v \in Exports /\ v[1] = d.from /\ v[2] = e
      BY <2>2, <3>2, <3>3 DEF Exports
    <3>5. e \in WhiteList(d)
      BY <2>4, <3>1, <3>2 DEF WhiteList
    <3>6. v \in ListedFrom(d)
      BY <3>1, <3>4, <3>5 DEF ListedFrom
    <3> QED
      BY <1>2, <2>1, <3>4, <3>6 DEF FinalOf
  <2> QED
    BY <2>1, <2>3, <2>4 DEF NamesExported
<1>5. ASSUME NEW v \in finalVars, ~ ByName(ExportMeans(Entry, v[2]))
      PROVE  AtRoot(FinalName(v)) = ExportMeans(Entry, v[2])
  <2>1. v[1] \in Modules /\ v[2] \in ExportNames(prog, v[1]) /\ ExportMeans(Entry, v[2]) = ExportMeans(v[1], v[2])
    BY <1>3
  <2>2. PICK z \in ToSet(prog.exports[v[1]]) : z.export = v[2]
    BY <2>1, ExportedAs
  <2>3. PICK w : w = VariableOf(v[1], z.local)
    OBVIOUS
  <2>4. VariableMeans(w) = ExportMeans(Entry, v[2])
    BY <1>1, <2>1, <2>2, <2>3, LocalMeans
  <2>5. Assumed /\ WInv
    BY DEF LinksKeepable, Assumed, LInv
  <2>6. Linked(sym, Pending, getters) /\ Pending = {}
    BY <2>5, NonePending DEF JInv, Done
  <2>7. w \in DOMAIN sym.name /\ FinalName(v) = sym.name[w]
    BY <2>1, <2>2, <2>3, <2>6 DEF Linked, LExports, FinalName
  <2>8. w \in ModuleVars(sym)
    <3>1. w[1] = v[1]
      BY <2>3 DEF VariableOf
    <3> QED
      BY <2>1, <2>7, <3>1 DEF ModuleVars
  <2>9. KnownAs(sym, sym.name[w], VariableMeans(w))
    BY <1>5, <2>4, <2>6, <2>8 DEF Linked, LKnown
  <2> QED
    BY <2>4, <2>5, <2>7, <2>9, KnownAtRoot
<1> QED
  BY <1>3, <1>4, <1>5

(* The bundle exports what the entry does, each name for the variable that     *)
(* ECMAScript resolves it to, along stars and lists.                         *)
THEOREM ExportsStayRight ==
  ASSUME NumeralsDiffer
  PROVE  Spec => []FinalExportsRight
<1>1. Init => AllInv /\ Covers /\ TabInv /\ FInv
  BY AllInit, CoversInit, TabInit, FInit
<1>2. AllInv /\ Covers /\ TabInv /\ FInv /\ [Next]_vars => AllInv' /\ Covers' /\ TabInv' /\ FInv'
  <2> SUFFICES ASSUME AllInv, Covers, TabInv, FInv, [Next]_vars PROVE AllInv' /\ Covers' /\ TabInv' /\ FInv'
    OBVIOUS
  <2>1. AllInv'
    BY AllStep
  <2>2. CInv /\ WInv /\ SInv /\ SInv' /\ MInv
    BY <2>1 DEF AllInv, LInv
  <2>3. Covers' /\ TabInv' /\ FInv'
    BY <2>2, CoversStep, TabStep, FStep
  <2> QED
    BY <2>1, <2>3
<1>3. AllInv /\ Covers /\ TabInv /\ FInv => FinalExportsRight
  BY ExportsReach DEF AllInv
<1> QED
  BY <1>1, <1>2, <1>3, PTL DEF Spec

-----------------------------------------------------------------------------
(* Linking a program that ECMAScript accepts.                                *)

(* One declaration of a search leaves it as it is, when it has ended or the   *)
(* declaration lists other names, or leads on to another module.              *)
SearchLeads(F, q, acc, d) ==
  \/ /\ SearchIn(F, q[2], acc, d) = acc
     /\ acc.stop \/ (~ d.all /\ \A z \in ToSet(d.names) : z.export # q[2])
  \/ /\ ~ acc.stop
     /\ \E p \in Queries :
          /\ Leads(q[1], q[2], d, p) /\ p[3] = acc.seen /\ Left(p) < Left(q)
          /\ SearchIn(F, q[2], acc, d)
               = [info |-> F[p].info, seen |-> F[p].seen, stop |-> ~ d.all \/ F[p].info # NotFound]

(* So it does. *)
LEMMA SearchInLeads ==
  ASSUME CInv, MInv, NEW q \in Queries, q[1] \notin q[3], NEW k \in 1 .. Len(mapOrder[q[1]]),
         NEW d, d = mapOrder[q[1]][k], NEW acc, acc.seen \in SUBSET Modules, q[3] \union {q[1]} \subseteq acc.seen,
         NEW F
  PROVE  SearchLeads(F, q, acc, d)
<1>1. PICK m \in Modules, e \in Exportable : m = q[1] /\ e = q[2]
  BY LeftIs
<1>2. d \in ToSet(prog.reexports[m])
  <2>1. mapOrder[m] \in Seq(ToSet(prog.reexports[m]))
    BY DEF MInv
  <2> QED
    BY <1>1, <2>1
<1>3. d.from \in Modules /\ d.all \in BOOLEAN /\ \A z \in ToSet(d.names) : z.source \in Exportable
  BY <1>2, ListsAre
<1>4. PICK listed : listed = {x \in ToSet(d.names) : x.export = e}
  OBVIOUS
<1> DEFINE wanted == IF d.all THEN e ELSE (CHOOSE x \in listed : TRUE).source
<1>5. wanted = IF d.all THEN e ELSE (CHOOSE x \in listed : TRUE).source
  OBVIOUS
<1>6. PICK p : p = <<d.from, wanted, acc.seen>>
  OBVIOUS
<1>7. SearchIn(F, e, acc, d) = IF acc.stop \/ (~ d.all /\ listed = {}) THEN acc
                               ELSE [info |-> F[p].info, seen |-> F[p].seen, stop |-> ~ d.all \/ F[p].info # NotFound]
  BY <1>4, <1>5, <1>6 DEF SearchIn
<1> HIDE DEF wanted
<1>8. CASE acc.stop \/ (~ d.all /\ listed = {})
  <2>1. listed = {} => \A z \in ToSet(d.names) : z.export # e
    BY <1>4
  <2> QED
    BY <1>1, <1>7, <1>8, <2>1 DEF SearchLeads
<1>9. CASE ~ (acc.stop \/ (~ d.all /\ listed = {}))
  <2>1. wanted \in Exportable /\ IF d.all THEN wanted = e ELSE \E z \in ToSet(d.names) : z.export = e /\ z.source = wanted
    <3>1. CASE d.all
      BY <1>5, <3>1
    <3>2. CASE ~ d.all
      <4>1. PICK c : c = CHOOSE x \in listed : TRUE
        OBVIOUS
      <4>2. c \in listed
        BY <1>9, <3>2, <4>1
      <4>3. wanted = c.source
        BY <1>5, <3>2, <4>1, Zenon
      <4>4. c \in ToSet(d.names) /\ c.export = e /\ c.source \in Exportable
        BY <1>3, <1>4, <4>2
      <4> QED
        BY <3>2, <4>3, <4>4
    <3> QED
      BY <3>1, <3>2
  <2>2. p \in Queries /\ p[1] = d.from /\ p[2] = wanted /\ p[3] = acc.seen
    BY <1>3, <1>6, <2>1 DEF Queries
  <2>3. Left(p) < Left(q)
    BY <2>2, LeftIs
  <2>4. Leads(m, e, d, p)
    BY <1>2, <2>1, <2>2 DEF Leads
  <2> QED
    BY <1>1, <1>7, <1>9, <2>2, <2>3, <2>4 DEF SearchLeads
<1> QED
  BY <1>8, <1>9

(* A declaration that has the export e.                                      *)
Provides(e, d) == IF d.all THEN ExportMeans(d.from, e) # {} ELSE \E z \in ToSet(d.names) : z.export = e

(* What means something and is not a module's own, a declaration of it has.    *)
LEMMA Provided ==
  ASSUME CInv, NEW m \in Modules, NEW e \in Exportable, e \notin ExportNames(prog, m), ExportMeans(m, e) # {}
  PROVE  \E d \in ToSet(prog.reexports[m]) : Provides(e, d)
<1>1. PICK x : x = <<m, e>>
  OBVIOUS
<1>2. /\ Direct(x) = {}
      /\ Listed(x) # {} => Onward(x) = Listed(x)
      /\ Listed(x) = {} => Onward(x) = Starred(x)
      /\ Listed(x) # {} => \E d \in Lists(m) : \E z \in ToSet(d.names) : z.export = e
  BY <1>1, NotItsOwn
<1>3. PICK v : v \in ExportMeans(m, e)
  OBVIOUS
<1>4. PICK y \in Onward(x) : v \in ExportMeans(y[1], y[2])
  BY <1>1, <1>2, <1>3, MeansStep
<1>5. CASE Listed(x) # {}
  <2>1. PICK d \in Lists(m) : \E z \in ToSet(d.names) : z.export = e
    BY <1>2, <1>5
  <2>2. d \in ToSet(prog.reexports[m]) /\ ~ d.all
    BY <2>1 DEF Lists
  <2> QED
    BY <2>1, <2>2 DEF Provides
<1>6. CASE Listed(x) = {}
  <2>1. y \in Starred(x)
    BY <1>2, <1>4, <1>6
  <2>2. x[1] = m /\ x[2] = e
    BY <1>1
  <2>3. PICK d \in Stars(m) : y = <<d.from, e>>
    BY <2>1, <2>2 DEF Starred
  <2>4. d \in ToSet(prog.reexports[m]) /\ d.all
    BY DEF Stars
  <2>5. v \in ExportMeans(d.from, e)
    BY <1>4, <2>3
  <2> QED
    BY <2>4, <2>5 DEF Provides
<1> QED
  BY <1>5, <1>6

(* A search that meets no module twice finds what means something. *)
LEMMA FindComplete ==
  ASSUME CInv, MInv, Covers, TablesTyped, Accepted, ReexportsApart, ReexportsFormTrees,
         NEW q \in Queries, Below(q[1]) \intersect q[3] = {}
  PROVE  /\ ExportMeans(q[1], q[2]) # {} => Find[q].info # NotFound
         /\ Find[q].seen \subseteq q[3] \union Below(q[1])
<1>0. PICK F : F = Find
  OBVIOUS
<1> DEFINE Apart(c) == Below(c[1]) \intersect c[3] = {}
           Right(c) == /\ ExportMeans(c[1], c[2]) # {} => F[c].info # NotFound
                       /\ F[c].seen \subseteq c[3] \union Below(c[1])
           T == {n \in Nat : \A c \in Queries : Left(c) = n /\ Apart(c) => Right(c)}
<1>1. ASSUME NEW n \in Nat, \A j \in 0 .. n - 1 : j \in T PROVE n \in T
  <2> SUFFICES ASSUME NEW c \in Queries, Left(c) = n, Apart(c) PROVE Right(c)
    OBVIOUS
  <2>1. PICK m \in Modules, e \in Exportable : m = c[1] /\ e = c[2]
    BY LeftIs
  <2>2. \A s \in Queries : Left(s) < n /\ Apart(s) => Right(s)
    <3>1. ASSUME NEW s \in Queries, Left(s) < n, Apart(s) PROVE Right(s)
      <4>1. Left(s) \in 0 .. n - 1
        BY <3>1, LeftIs
      <4>2. Left(s) \in T
        BY <1>1, <4>1
      <4> QED
        BY <3>1, <4>2
    <3> QED
      BY <3>1
  <2>3. m \in Below(m) /\ Below(m) \subseteq Modules /\ m \notin c[3] /\ c[3] \in SUBSET Modules
    BY <2>1, BelowIs, LeftIs
  <2>4. F[c] = Body(F, c)
    BY <1>0, FindIs
  <2>5. CASE e \in DOMAIN sym.local[m]
    <3>1. F[c] = [info |-> <<m, e>>, seen |-> c[3] \union {m}, stop |-> TRUE]
      BY <2>1, <2>3, <2>4, <2>5 DEF Body
    <3>2. F[c].info = <<m, e>> /\ F[c].seen = c[3] \union {m}
      BY <3>1
    <3>3. <<m, e>> # NotFound
      BY DEF NotFound
    <3> QED
      BY <2>1, <2>3, <3>2, <3>3
  <2>6. CASE e \notin DOMAIN sym.local[m]
    <3>1. PICK N \in Nat : N = Len(mapOrder[m])
      BY DEF MInv
    <3>2. PICK acc : acc = [info |-> NotFound, seen |-> c[3] \union {m}, stop |-> FALSE]
      OBVIOUS
    <3>3. F[c] = SearchAll(F, m, e, acc)
      BY <2>1, <2>3, <2>4, <2>6, <3>2 DEF Body
    <3>4. PICK h : SearchSteps(F, m, e, acc, N, h) /\ SearchAll(F, m, e, acc) = h[N]
      BY <3>1, SearchAllSteps
    <3>5. acc.info = NotFound /\ acc.seen = c[3] \union {m} /\ ~ acc.stop /\ acc.seen \in SUBSET Modules
      BY <2>3, <3>2
    <3>6. \A s \in Queries : SeenGrows(s, F[s])
      BY <1>0, FindIs
    <3> DEFINE D(j) == mapOrder[m][j]
               Ok(k) == /\ \/ h[k].stop /\ h[k].info # NotFound
                           \/ ~ h[k].stop /\ \A j \in 1 .. k : ~ Provides(e, D(j))
                        /\ \A x \in h[k].seen : x \in acc.seen \/ \E j \in 1 .. k : x \in Below(D(j).from)
                        /\ h[k].seen \in SUBSET Modules /\ acc.seen \subseteq h[k].seen
               U == {k \in Nat : k <= N => Ok(k)}
    <3>7. ASSUME NEW k \in Nat, \A j \in 0 .. k - 1 : j \in U PROVE k \in U
      <4> SUFFICES ASSUME k <= N PROVE Ok(k)
        OBVIOUS
      <4>1. CASE k = 0
        <5>1. h[0] = acc /\ 1 .. 0 = {}
          BY <3>4 DEF SearchSteps
        <5> QED
          BY <3>5, <4>1, <5>1
      <4>2. CASE k # 0
        <5>1. k - 1 \in 0 .. k - 1 /\ k \in 1 .. N /\ k - 1 \in Nat /\ 1 .. k = (1 .. k - 1) \union {k}
          BY <4>2
        <5>2. Ok(k - 1)
          BY <3>7, <5>1
        <5>3. PICK a, d : a = h[k - 1] /\ d = D(k)
          OBVIOUS
        <5>4. h[k] = SearchIn(F, e, a, d)
          BY <3>4, <5>1, <5>3 DEF SearchSteps
        <5>5. /\ \/ a.stop /\ a.info # NotFound
                 \/ ~ a.stop /\ \A j \in 1 .. k - 1 : ~ Provides(e, D(j))
              /\ \A x \in a.seen : x \in acc.seen \/ \E j \in 1 .. k - 1 : x \in Below(D(j).from)
              /\ a.seen \in SUBSET Modules /\ acc.seen \subseteq a.seen
          BY <5>2, <5>3
        <5>6. k \in 1 .. Len(mapOrder[c[1]]) /\ d = mapOrder[c[1]][k]
          BY <2>1, <3>1, <5>1, <5>3
        <5>7. \/ h[k] = a /\ (a.stop \/ (~ d.all /\ \A z \in ToSet(d.names) : z.export # e))
              \/ /\ ~ a.stop
                 /\ \E p \in Queries :
                      /\ Leads(m, e, d, p) /\ p[3] = a.seen /\ Left(p) < n
                      /\ h[k] = [info |-> F[p].info, seen |-> F[p].seen, stop |-> ~ d.all \/ F[p].info # NotFound]
          <6>1. c[1] \notin c[3] /\ c[3] \union {c[1]} \subseteq a.seen /\ a.seen \in SUBSET Modules
            BY <2>1, <2>3, <3>5, <5>5
          <6>2. SearchLeads(F, c, a, d)
            BY <5>6, <6>1, SearchInLeads
          <6> HIDE DEF D
          <6> QED
            BY <2>1, <5>4, <6>2 DEF SearchLeads
        <5>8. \A x : x \in a.seen => x \in acc.seen \/ \E j \in 1 .. k : x \in Below(D(j).from)
          <6> HIDE DEF D
          <6> QED
            BY <5>1, <5>5
        <5>9. CASE h[k] = a /\ (a.stop \/ (~ d.all /\ \A z \in ToSet(d.names) : z.export # e))
          <6>1. ASSUME ~ a.stop PROVE ~ a.stop /\ \A j \in 1 .. k : ~ Provides(e, D(j))
            <7>1. ~ Provides(e, D(k))
              BY <5>3, <5>9, <6>1 DEF Provides
            <7> HIDE DEF D
            <7> QED
              BY <5>1, <5>5, <6>1, <7>1
          <6> HIDE DEF D
          <6> QED
            BY <5>5, <5>8, <5>9, <6>1
        <5>10. ASSUME NEW p \in Queries, Leads(m, e, d, p), p[3] = a.seen, Left(p) < n, ~ a.stop,
                      h[k] = [info |-> F[p].info, seen |-> F[p].seen, stop |-> ~ d.all \/ F[p].info # NotFound]
               PROVE  Ok(k)
          <6>1. /\ d \in ToSet(prog.reexports[m]) /\ p[1] = d.from
                /\ IF d.all THEN p[2] = e ELSE \E z \in ToSet(d.names) : z.export = e /\ z.source = p[2]
            BY <5>10 DEF Leads
          <6>2. d.from \in ReexportedFrom(m) /\ d.from \in Modules /\ d.all \in BOOLEAN
            BY <6>1, ReexportedAre, ListsAre
          <6>3. Apart(p)
            <7>1. ASSUME NEW x \in Below(d.from), x \in a.seen PROVE FALSE
              <8>1. x \in Below(m)
                BY <6>2, BelowIs
              <8>2. x \notin c[3]
                BY <2>1, <8>1
              <8>3. x # m
                BY <6>2, BelowApart
              <8>4. PICK j \in 1 .. k - 1 : x \in Below(D(j).from)
                BY <3>5, <5>5, <7>1, <8>2, <8>3
              <8>5. j \in 1 .. N /\ j # k
                BY <5>1, <8>4
              <8>6. D(j) \in ToSet(prog.reexports[m])
                <9>1. mapOrder[m] \in Seq(ToSet(prog.reexports[m]))
                  BY DEF MInv
                <9> QED
                  BY <3>1, <8>5, <9>1
              <8>7. D(j).from \in ReexportedFrom(m) /\ D(j).from # d.from
                <9>1. \A i, l \in 1 .. Len(mapOrder[m]) : mapOrder[m][i].from = mapOrder[m][l].from => i = l
                  BY DEF Covers
                <9> QED
                  BY <3>1, <5>1, <5>3, <8>5, <8>6, <9>1, ReexportedAre
              <8>8. Below(d.from) \intersect Below(D(j).from) = {}
                BY <6>2, <8>7, BelowApart
              <8> QED
                BY <7>1, <8>4, <8>8
            <7> QED
              BY <5>10, <6>1, <7>1
          <6>4. Right(p)
            BY <2>2, <5>10, <6>3
          <6>5. h[k].info = F[p].info /\ h[k].seen = F[p].seen /\ (h[k].stop <=> ~ d.all \/ F[p].info # NotFound)
            <7>1. PICK b \in BOOLEAN : b = (~ d.all \/ F[p].info # NotFound)
              OBVIOUS
            <7>2. h[k] = [info |-> F[p].info, seen |-> F[p].seen, stop |-> b]
              BY <5>10, <7>1
            <7>3. h[k].info = F[p].info /\ h[k].seen = F[p].seen /\ h[k].stop = b
              BY <7>2
            <7>4. b <=> ~ d.all \/ F[p].info # NotFound
              BY <7>1, Zenon
            <7> QED
              BY <7>3, <7>4
          <6>6. F[p].seen \in SUBSET Modules /\ a.seen \subseteq F[p].seen /\ F[p].seen \subseteq a.seen \union Below(d.from)
            BY <3>6, <5>10, <6>1, <6>4 DEF SeenGrows
          <6>7. \A x \in h[k].seen : x \in acc.seen \/ \E j \in 1 .. k : x \in Below(D(j).from)
            <7>1. \A x : x \in Below(d.from) => \E j \in 1 .. k : x \in Below(D(j).from)
              BY <5>1, <5>3
            <7> HIDE DEF D
            <7> QED
              BY <5>8, <6>5, <6>6, <7>1
          <6>8. \/ h[k].stop /\ h[k].info # NotFound
                \/ ~ h[k].stop /\ \A j \in 1 .. k : ~ Provides(e, D(j))
            <7>1. CASE F[p].info # NotFound
              BY <6>5, <7>1
            <7>2. CASE F[p].info = NotFound
              <8>1. ExportMeans(d.from, p[2]) = {}
                BY <6>1, <6>4, <7>2
              <8>2. d.all
                <9> SUFFICES ASSUME ~ d.all PROVE FALSE
                  BY <6>2
                <9>1. PICK z \in ToSet(d.names) : z.export = e /\ z.source = p[2]
                  BY <6>1
                <9>2. d \in Lists(m)
                  BY <6>1 DEF Lists
                <9>3. Resolved(<<d.from, z.source>>)
                  BY <9>2 DEF Accepted
                <9> QED
                  BY <8>1, <9>1, <9>3 DEF Resolved
              <8>3. ~ Provides(e, D(k))
                BY <5>3, <6>1, <8>1, <8>2 DEF Provides
              <8>4. ~ h[k].stop
                BY <6>5, <7>2, <8>2
              <8>5. \A j \in 1 .. k - 1 : ~ Provides(e, D(j))
                BY <5>5, <5>10
              <8> HIDE DEF D
              <8> QED
                BY <5>1, <8>3, <8>4, <8>5
            <7> QED
              BY <7>1, <7>2
          <6> QED
            BY <5>5, <6>5, <6>6, <6>7, <6>8
        <5> QED
          BY <5>7, <5>9, <5>10
      <4> QED
        BY <4>1, <4>2
    <3>8. U = Nat
      <4>1. U \in SUBSET Nat
        OBVIOUS
      <4> HIDE DEF U
      <4> QED
        BY <3>7, <4>1, StrongInduction
    <3>9. Ok(N)
      <4>1. N \in U
        BY <3>8
      <4> QED
        BY <4>1
    <3>10. F[c] = h[N]
      BY <3>3, <3>4
    <3>11. \A j \in 1 .. N : mapOrder[m][j] \in ToSet(prog.reexports[m])
      <4>1. mapOrder[m] \in Seq(ToSet(prog.reexports[m]))
        BY DEF MInv
      <4> QED
        BY <3>1, <4>1
    <3>12. F[c].seen \subseteq c[3] \union Below(m)
      <4>1. ASSUME NEW j \in 1 .. N, NEW x \in Below(D(j).from) PROVE x \in Below(m)
        BY <3>11, <4>1, ReexportedAre, BelowIs
      <4> HIDE DEF D
      <4> QED
        BY <2>3, <3>5, <3>9, <3>10, <4>1
    <3>13. ASSUME ExportMeans(m, e) # {} PROVE F[c].info # NotFound
      <4>1. e \notin ExportNames(prog, m)
        BY <2>6 DEF TablesTyped
      <4>2. PICK d \in ToSet(prog.reexports[m]) : Provides(e, d)
        BY <3>13, <4>1, Provided
      <4>3. PICK j \in 1 .. N : D(j) = d
        BY <3>1, <4>2 DEF Covers
      <4> HIDE DEF D
      <4> QED
        BY <3>9, <3>10, <4>2, <4>3
    <3> QED
      BY <2>1, <3>12, <3>13
  <2> QED
    BY <2>5, <2>6
<1>2. T = Nat
  <2>1. T \in SUBSET Nat
    OBVIOUS
  <2> HIDE DEF T
  <2> QED
    BY <1>1, <2>1, StrongInduction
<1>3. Left(q) \in T
  BY <1>2, LeftIs
<1>4. Right(q)
  BY <1>3
<1> QED
  BY <1>0, <1>4

(* So what an import declaration of an accepted program names is found. *)
LEMMA ImportFound ==
  ASSUME CInv, MInv, Covers, TablesTyped, Accepted, ReexportsApart, ReexportsFormTrees,
         NEW m \in Modules, NEW i \in ToSet(prog.imports[m]), i.from \in Modules, ~ IsNamespace(i)
  PROVE  FindLocalExport(i.from, i.source) # NotFound
<1>1. i.source \in Exportable
  BY ListsAre DEF IsNamespace
<1>2. PICK q : q = <<i.from, i.source, {}>>
  OBVIOUS
<1>3. q \in Queries /\ q[1] = i.from /\ q[2] = i.source /\ q[3] = {}
  BY <1>1, <1>2 DEF Queries
<1>4. Find[q].info = FindLocalExport(i.from, i.source)
  BY <1>2 DEF FindLocalExport
<1>5. Resolved(<<i.from, i.source>>)
  BY DEF Accepted
<1>6. ExportMeans(q[1], q[2]) # {}
  BY <1>3, <1>5 DEF Resolved
<1>7. Below(q[1]) \intersect q[3] = {}
  BY <1>3
<1> QED
  BY <1>3, <1>4, <1>6, <1>7, FindComplete

(* The generator of the bundle's names keeps to its type, and gives no name     *)
(* twice, where no source has numbered names.                                *)
GInv == NoNumberedNames => Sound(gen) /\ gen.minify = prog.minify

(* Of the next state it says this. *)
LEMMA GNext ==
  ASSUME prog' = prog, NoNumberedNames => Sound(gen') /\ gen'.minify = prog.minify
  PROVE  GInv'
<1>1. NoNumberedNames' <=> NoNumberedNames
  BY DEF NoNumberedNames
<1>2. Sound(gen)' <=> Sound(gen')
  BY DEF Sound, IsGen
<1> QED
  BY <1>1, <1>2 DEF GInv

(* So it does at the start. *)
LEMMA GInit ==
  ASSUME NumeralsDiffer, Init
  PROVE  GInv
<1> SUFFICES ASSUME NoNumberedNames PROVE Sound(gen) /\ gen.minify = prog.minify
  BY DEF GInv
<1>1. gen = Called(prog).gen /\ CInv
  BY CInit DEF Init
<1>2. PICK g, w : g = [minify |-> prog.minify, used |-> {}, counter |-> 0] /\ w = prog.calls
  OBVIOUS
<1>3. Called(prog) = NextNames(g, w)
  BY <1>2 DEF Called
<1>4. Sound(g) /\ g.minify = prog.minify
  <2>1. IsProgram(prog)
    BY <1>1, ProgramIs
  <2>2. prog.minify \in BOOLEAN /\ IsFiniteSet({})
    BY <2>1, FS_EmptySet DEF IsProgram
  <2>3. IsGen(g) /\ g.minify = prog.minify
    BY <1>2, <2>2 DEF IsGen
  <2> QED
    BY <1>2, <2>3 DEF Sound
<1>5. Len(w) \in Nat /\ \A i \in 1 .. Len(w) : g.minify \/ Plain(w[i])
  BY <1>1, <1>2, <1>4, PlainNames
<1>6. Sound(NextNames(g, w).gen) /\ NextNames(g, w).gen.minify = g.minify
  BY <1>4, <1>5, NextNamesFresh
<1> QED
  BY <1>1, <1>3, <1>4, <1>6

(* The names of the libraries are given. *)
GivesOn(acc0, k, acc) ==
  /\ \E g, U : acc = [gen |-> g, infos |-> U]
  /\ Sound(acc.gen) /\ acc.gen.minify = prog.minify
  /\ DOMAIN acc.infos = Libraries
  /\ \A l \in Libraries : (\A j \in 1 .. k : acc0.ids[j] # l) => acc.infos[l] = acc0.infos[l]

(* One library more. *)
LEMMA GDistributes ==
  ASSUME NumeralsDiffer, NEW acc0, HInv(acc0), NEW n \in Nat, n = Len(acc0.ids), NEW k \in 1 .. n,
         NEW acc, GivesOn(acc0, k - 1, acc)
  PROVE  GivesOn(acc0, k, Distribute(acc, acc0.ids[k]))
<1>1. PICK ids, l : ids = acc0.ids /\ l = ids[k]
  OBVIOUS
<1>2. ids \in Seq(Libraries) /\ Once(ids) /\ n = Len(ids)
  BY <1>1 DEF HInv
<1>3. l \in Libraries /\ \A j \in 1 .. k - 1 : ids[j] # l
  BY <1>1, <1>2 DEF Once
<1>4. PICK G, f : acc = [gen |-> G, infos |-> f]
  BY DEF GivesOn
<1>5. acc.gen = G /\ acc.infos = f
  BY <1>4
<1>6. /\ Sound(G) /\ G.minify = prog.minify /\ DOMAIN f = Libraries
      /\ \A x \in Libraries : (\A j \in 1 .. k - 1 : ids[j] # x) => f[x] = acc0.infos[x]
  BY <1>1, <1>5 DEF GivesOn
<1>7. IsInfo(l, f[l])
  BY <1>3, <1>6 DEF HInv
<1>8. PICK R : R = Distribute(acc, l)
  OBVIOUS
<1>9. DistributedTo(G, f, l, R)
  BY <1>3, <1>4, <1>6, <1>7, <1>8, DistributeDoes
<1>10. /\ DOMAIN R.infos = Libraries /\ \A x \in Libraries \ {l} : R.infos[x] = f[x]
       /\ Sound(R.gen) /\ R.gen.minify = prog.minify
       /\ \E g, U : R = [gen |-> g, infos |-> U]
  BY <1>6, <1>9 DEF DistributedTo, Later
<1>11. ASSUME NEW x \in Libraries, \A j \in 1 .. k : ids[j] # x PROVE R.infos[x] = acc0.infos[x]
  <2>1. x # l /\ \A j \in 1 .. k - 1 : ids[j] # x
    BY <1>1, <1>11
  <2> QED
    BY <1>6, <1>10, <2>1
<1> QED
  BY <1>1, <1>8, <1>10, <1>11 DEF GivesOn

(* All libraries. *)
LEMMA GDistributed ==
  ASSUME NumeralsDiffer, NEW acc0, HInv(acc0), Sound(gen), gen.minify = prog.minify
  PROVE  Sound(Distributed(acc0).gen) /\ Distributed(acc0).gen.minify = prog.minify
<1>1. PICK n : n = Len(acc0.ids)
  OBVIOUS
<1>10. n \in Nat
  BY <1>1 DEF HInv
<1>2. PICK h : DistributeSteps(acc0, n, h) /\ Distributed(acc0) = h[n]
  BY <1>1, <1>10, DistributedSteps
<1>3. GivesOn(acc0, 0, h[0])
  <2>1. PICK G, f : G = gen /\ f = acc0.infos
    OBVIOUS
  <2>2. h[0] = [gen |-> G, infos |-> f]
    BY <1>2, <2>1 DEF DistributeSteps, NoneDistributed
  <2>3. h[0].gen = G /\ h[0].infos = f
    BY <2>2
  <2>4. DOMAIN f = Libraries
    BY <2>1 DEF HInv
  <2> QED
    BY <2>1, <2>2, <2>3, <2>4 DEF GivesOn
<1> DEFINE T == {k \in Nat : k <= n => GivesOn(acc0, k, h[k])}
<1>4. ASSUME NEW k \in Nat, \A j \in 0 .. k - 1 : j \in T PROVE k \in T
  <2>1. CASE k = 0
    BY <1>3, <2>1
  <2>2. CASE k > n
    BY <1>10, <2>2
  <2>3. CASE k # 0 /\ k <= n
    <3>1. k - 1 \in 0 .. k - 1 /\ k - 1 <= n /\ k \in 1 .. n
      BY <1>10, <2>3
    <3>2. GivesOn(acc0, k - 1, h[k - 1])
      BY <1>4, <3>1
    <3>3. h[k] = Distribute(h[k - 1], acc0.ids[k])
      BY <1>2, <3>1 DEF DistributeSteps
    <3>4. GivesOn(acc0, k, h[k])
      BY <1>1, <1>10, <3>1, <3>2, <3>3, GDistributes
    <3> QED
      BY <3>4
  <2> QED
    BY <1>10, <2>1, <2>2, <2>3
<1>5. T \in SUBSET Nat
  OBVIOUS
<1>6. T = Nat
  <2> HIDE DEF T
  <2> QED
    BY <1>4, <1>5, StrongInduction
<1>7. n \in T
  BY <1>6, <1>10
<1>8. GivesOn(acc0, n, h[n])
  BY <1>7, <1>10
<1> QED
  BY <1>2, <1>8 DEF GivesOn

(* "_default" is a plain name. *)
LEMMA DefaultPlain == Plain(<<"_default">>)
<1>1. PICK x : x = "_default"
  OBVIOUS
<1>2. <<x>> \in Seq({x}) /\ Len(<<x>>) = 1 /\ <<x>> # <<>>
  OBVIOUS
<1>3. ~ IsNumbered(<<x>>)
  BY <1>2 DEF IsNumbered
<1> QED
  BY <1>1, <1>2, <1>3 DEF Plain

(* What RenameRoot asks for are plain names, so it is given new ones.          *)
LEMMA RootAsks ==
  ASSUME NumeralsDiffer, CInv, SInv, GInv, NoNumberedNames, NEW m \in Modules, Untouched(sym, m),
         NEW order \in SetToSeqs(OwnVars(m)), NEW w, w = Wanted(sym, order)
  PROVE  /\ Len(w) = Cardinality(OwnVars(m)) /\ Len(w) \in Nat /\ DOMAIN order = 1 .. Len(w)
         /\ \A v \in OwnVars(m) : \E i \in 1 .. Len(w) : order[i] = v
         /\ Sound(NextNames(gen, w).gen) /\ NextNames(gen, w).gen.minify = prog.minify
         /\ \A i, j \in 1 .. Len(w) : NextNames(gen, w).names[i] = NextNames(gen, w).names[j] => i = j
<1>1. PICK S : S = OwnVars(m)
  OBVIOUS
<1>2. m \in Scopes /\ IsFiniteSet(S) /\ IsSym(sym)
  BY <1>1, ProgramIs DEF SInv
<1>3. /\ Cardinality(S) \in Nat /\ DOMAIN order = 1 .. Cardinality(S)
      /\ \A i \in 1 .. Cardinality(S) : order[i] \in S
      /\ \A v \in S : \E i \in 1 .. Cardinality(S) : order[i] = v
  BY <1>1, <1>2, OrderCovers
<1>4. Len(w) = Cardinality(S) /\ w = [i \in DOMAIN order |-> sym.name[order[i]]]
  BY <1>3 DEF Wanted
<1>5. Sound(gen) /\ gen.minify = prog.minify
  BY DEF GInv
<1>6. ASSUME NEW i \in 1 .. Len(w) PROVE gen.minify \/ Plain(w[i])
  <2>1. order[i] \in S /\ w[i] = sym.name[order[i]]
    BY <1>3, <1>4
  <2>2. PICK n \in prog.owns[m] : order[i] = <<m, n>>
    BY <1>1, <2>1 DEF OwnVars
  <2>3. order[i] \in DOMAIN sym.name
    BY <1>1, <1>2, <2>1 DEF IsSym
  <2>4. sym.name[order[i]] = n
    BY <2>2, <2>3 DEF Untouched
  <2> QED
    BY <1>2, <1>5, <2>1, <2>2, <2>4, PlainNames
<1>7. /\ Sound(NextNames(gen, w).gen) /\ NextNames(gen, w).gen.minify = gen.minify
      /\ \A i, j \in 1 .. Len(w) : NextNames(gen, w).names[i] = NextNames(gen, w).names[j] => i = j
  <2>1. Len(w) \in Nat
    BY <1>3, <1>4
  <2>2. PICK g : g = gen
    OBVIOUS
  <2>3. Sound(g) /\ \A i \in 1 .. Len(w) : g.minify \/ Plain(w[i])
    BY <1>5, <1>6, <2>2
  <2>4. /\ Sound(NextNames(g, w).gen) /\ NextNames(g, w).gen.minify = g.minify
        /\ \A i, j \in 1 .. Len(w) : NextNames(g, w).names[i] = NextNames(g, w).names[j] => i = j
    BY <2>1, <2>3, NextNamesFresh
  <2> QED
    BY <2>2, <2>4
<1> QED
  BY <1>1, <1>3, <1>4, <1>5, <1>7

(* The variables of a module have different names and are all its scope's.     *)
Apart(T, m) ==
  /\ OwnVars(m) \subseteq T.own[m]
  /\ \A v, w \in OwnVars(m) : T.name[v] = T.name[w] => v = w

(* Naming a module leaves them so, and the generator sound. *)
LEMMA RootGives ==
  ASSUME NumeralsDiffer, CInv, WInv, SInv, GInv, TabInv, RenameRoot, NoNumberedNames, NEW m, m = Last(stack)
  PROVE  /\ Apart(sym', m) /\ Sound(gen') /\ gen'.minify = prog.minify
         /\ \A t \in Scopes \ {m} : sym'.own[t] = sym.own[t]
<1>1. m \in Modules \ Walked /\ m \in Scopes /\ stage = "roots"
  <2>1. m \in Modules \ Walked
    BY RootTables
  <2> QED
    BY <2>1 DEF RenameRoot, Scopes
<1>2. Untouched(sym, m) /\ IsTables(sym) /\ IsSym(sym)
  BY <1>1 DEF SInv, TabInv, Tabled
<1>3. PICK order \in SetToSeqs(sym.own[m]) : \E r, T, d :
        /\ r = NextNames(gen, Wanted(sym, order))
        /\ T = RenameInModule(sym, m, Changes(sym, order, r.names))
        /\ d = NextName(r.gen, <<"_default">>)
        /\ IF HasDefault(m) THEN sym' = AddDefault(T, m, d.name) /\ gen' = d.gen
                            ELSE sym' = T /\ gen' = r.gen
  BY <1>1 DEF RenameRoot
<1>4. PICK r, T, d :
        /\ r = NextNames(gen, Wanted(sym, order))
        /\ T = RenameInModule(sym, m, Changes(sym, order, r.names))
        /\ d = NextName(r.gen, <<"_default">>)
        /\ IF HasDefault(m) THEN sym' = AddDefault(T, m, d.name) /\ gen' = d.gen
                            ELSE sym' = T /\ gen' = r.gen
  BY <1>3
<1>5. PICK ren, S, w : ren = Changes(sym, order, r.names) /\ S = OwnVars(m) /\ w = Wanted(sym, order)
  OBVIOUS
<1>6. sym.own[m] = S /\ IsFiniteSet(S) /\ order \in SetToSeqs(S)
  BY <1>1, <1>2, <1>3, <1>5, ProgramIs DEF Untouched
<1>7. /\ Len(w) = Cardinality(S) /\ DOMAIN order = 1 .. Len(w)
      /\ \A v \in S : \E i \in 1 .. Len(w) : order[i] = v
      /\ Sound(r.gen) /\ r.gen.minify = prog.minify
      /\ \A i, j \in 1 .. Len(w) : r.names[i] = r.names[j] => i = j
  <2>1. r = NextNames(gen, w)
    BY <1>4, <1>5
  <2> QED
    BY <1>1, <1>2, <1>5, <1>6, <2>1, RootAsks
<1>8. Sound(d.gen) /\ d.gen.minify = prog.minify
  BY <1>4, <1>7, DefaultPlain, NextNameFresh
<1>9. Sound(gen') /\ gen'.minify = prog.minify
  BY <1>4, <1>7, <1>8
<1>10. /\ IsTables(T) /\ Changed(sym, T, m, ren)
       /\ T.own[m] = sym.own[m] \ Lost(sym, m, ren)
  BY <1>1, <1>2, <1>4, <1>5, ModuleRenames
<1>11. \A v \in S : v \in DOMAIN sym.name /\ v[1] = m /\ sym.name[v] = v[2] /\ v = <<m, v[2]>>
  <2>1. \A v \in S : v \in DOMAIN sym.name /\ v[1] = m
    BY <1>1, <1>2, <1>6 DEF IsSym
  <2>2. \A v \in S : v = <<m, v[2]>>
    BY <1>5 DEF OwnVars
  <2> QED
    BY <1>2, <2>1, <2>2 DEF Untouched
<1>12. Renamed(sym, T, m, order, r.names)
  <2>1. \A v, x \in S : sym.name[v] = sym.name[x] => v = x
    BY <1>11
  <2> QED
    BY <1>1, <1>2, <1>3, <1>5, <1>6, <1>10, <2>1 DEF Renamed
<1>13. \A i \in 1 .. Len(w) : T.name[order[i]] = r.names[i]
  BY <1>6, <1>7, <1>12, ChangesName
<1>14. \A v, x \in S : T.name[v] = T.name[x] => v = x
  <2> SUFFICES ASSUME NEW v \in S, NEW x \in S, T.name[v] = T.name[x] PROVE v = x
    OBVIOUS
  <2>1. PICK i \in 1 .. Len(w) : order[i] = v
    BY <1>7
  <2>2. PICK j \in 1 .. Len(w) : order[j] = x
    BY <1>7
  <2>3. r.names[i] = r.names[j]
    BY <1>13, <2>1, <2>2
  <2> QED
    BY <1>7, <2>1, <2>2, <2>3
<1>15. T.own[m] = S
  <2>1. \A v, x \in sym.own[m] : T.name[v] = T.name[x] => v = x
    BY <1>6, <1>14
  <2>2. Lost(sym, m, Changes(sym, order, r.names)) = {}
    BY <1>12, <2>1, NoneLost
  <2> QED
    BY <1>5, <1>6, <1>10, <2>2
<1>16. \A t \in Scopes \ {m} : T.own[t] = sym.own[t]
  BY <1>10 DEF Changed
<1>17. DOMAIN T.name = DOMAIN sym.name /\ <<m, DefaultVar>> \notin S
  <2>1. <<m, DefaultVar>> \notin S
    BY <1>1, <1>5, ProgramIs, LinkerAssumption DEF OwnVars
  <2> QED
    BY <1>10, <2>1 DEF Changed
<1>18. CASE HasDefault(m)
  <2>1. PICK U, e : U = AddDefault(T, m, e) /\ sym' = U
    BY <1>4, <1>18
  <2>2. /\ \A v \in DOMAIN T.name \ {<<m, DefaultVar>>} : U.name[v] = T.name[v]
        /\ \A t \in Scopes \ {m} : U.own[t] = T.own[t]
    <3>1. IsSym(T) /\ m \in Modules
      BY <1>1, <1>10 DEF IsTables
    <3>2. \A v \in DOMAIN T.name \ {<<m, DefaultVar>>} : U.name[v] = T.name[v]
      BY <2>1, <3>1, DefaultNames
    <3>3. PICK nn, oo, ll, xx : T = [name |-> nn, own |-> oo, local |-> ll, index |-> xx]
      BY <3>1 DEF IsSym
    <3>4. T.own = oo /\ DOMAIN T.own = Scopes
      BY <3>1, <3>3 DEF IsSym
    <3>5. PICK b : b = <<m, DefaultVar>>
      OBVIOUS
    <3>6. U = [name |-> [v \in DOMAIN nn \union {b} |-> IF v = b THEN e ELSE nn[v]],
               own |-> [oo EXCEPT ![m] = oo[m] \union {b}],
               local |-> [ll EXCEPT ![m] = [ll[m] EXCEPT ![DefaultName] = e]], index |-> xx]
      BY <2>1, <3>3, <3>5 DEF AddDefault
    <3>7. U.own = [oo EXCEPT ![m] = oo[m] \union {b}] /\ DOMAIN oo = Scopes
      BY <3>4, <3>6
    <3>8. \A t \in Scopes \ {m} : U.own[t] = T.own[t]
      BY <3>4, <3>7
    <3> QED
      BY <3>2, <3>8
  <2>3. S \subseteq U.own[m]
    <3>1. PICK nn, oo, ll, xx : T = [name |-> nn, own |-> oo, local |-> ll, index |-> xx]
      BY <1>10 DEF IsTables, IsSym
    <3>2. m \in DOMAIN oo /\ oo[m] = S
      BY <1>1, <1>10, <1>15, <3>1 DEF IsTables, IsSym
    <3>3. PICK b : b = <<m, DefaultVar>>
      OBVIOUS
    <3>4. U = [name |-> [v \in DOMAIN nn \union {b} |-> IF v = b THEN e ELSE nn[v]],
               own |-> [oo EXCEPT ![m] = oo[m] \union {b}],
               local |-> [ll EXCEPT ![m] = [ll[m] EXCEPT ![DefaultName] = e]], index |-> xx]
      BY <2>1, <3>1, <3>3 DEF AddDefault
    <3>5. U.own = [oo EXCEPT ![m] = oo[m] \union {b}]
      BY <3>4
    <3> QED
      BY <3>2, <3>5
  <2>4. \A v \in S : U.name[v] = T.name[v]
    BY <1>11, <1>17, <2>2
  <2> QED
    BY <1>5, <1>9, <1>14, <1>16, <2>1, <2>2, <2>3, <2>4 DEF Apart
<1>19. CASE ~ HasDefault(m)
  <2>1. sym' = T
    BY <1>4, <1>19
  <2> QED
    BY <1>5, <1>9, <1>14, <1>15, <1>16, <2>1 DEF Apart
<1> QED
  BY <1>18, <1>19

(* Every step keeps the generator sound. *)
LEMMA GStep ==
  ASSUME NumeralsDiffer, CInv, WInv, SInv, GInv, TabInv, [Next]_vars
  PROVE  GInv'
<1>1. CASE prog' = prog /\ gen' = gen
  BY <1>1, GNext DEF GInv
<1>2. CASE MergeGenerators
  <2>1. /\ stage = "inner" /\ AllRenamed /\ gen' = RootGenerator /\ prog' = prog
    BY <1>2 DEF MergeGenerators
  <2>2. prog.minify = TRUE
    <3>1. prog.minify \in BOOLEAN
      BY ProgramIs DEF IsProgram
    <3> QED
      BY <2>1, <3>1 DEF SInv
  <2>3. PICK c, u : u = Globals /\ c = Max({0} \union {counters[s] : s \in Inner})
    OBVIOUS
  <2>4. gen' = [minify |-> TRUE, used |-> u, counter |-> c]
    BY <2>1, <2>3 DEF RootGenerator, Merge
  <2>5. c \in Nat
    <3>1. PICK S : S = {counters[s] : s \in Inner}
      OBVIOUS
    <3>2. IsFiniteSet(S)
      <4>1. DOMAIN counters = Inner /\ IsFiniteSet(Inner)
        BY LinkerAssumption DEF CInv
      <4> QED
        BY <3>1, <4>1, FiniteImage
    <3>3. S \subseteq Nat
      BY <2>1, <3>1 DEF CInv, AllRenamed
    <3>4. IsFiniteSet({0} \union S)
      BY <3>2, FS_Singleton, FS_Union
    <3>5. {0} \union S \in SUBSET Nat /\ {0} \union S # {}
      BY <3>3
    <3>6. Max({0} \union S) \in {0} \union S
      BY <3>4, <3>5, Greatest
    <3> QED
      BY <2>3, <3>1, <3>5, <3>6
  <2>6. IsFiniteSet(u)
    <3>1. Globals \subseteq Names
      BY ProgramIs DEF Globals, IsProgram
    <3> QED
      BY <2>3, <3>1, LinkerAssumption, FS_Subset
  <2>7. IsGen(gen') /\ gen'.minify = TRUE
    BY <2>4, <2>5, <2>6 DEF IsGen
  <2> QED
    BY <2>1, <2>2, <2>7, GNext DEF Sound
<1>3. CASE GenAst
  <2>1. stage = "externals" /\ prog' = prog
    BY <1>3 DEF GenAst
  <2>2. ASSUME NoNumberedNames PROVE Sound(gen') /\ gen'.minify = prog.minify
    <3>1. PICK arrival \in Arrivals : gen' = Distributed(Handled(Arrived(arrival))).gen
      BY <1>3 DEF GenAst, Arrived
    <3>2. PICK w, acc0 : w = Arrived(arrival) /\ acc0 = Handled(w)
      OBVIOUS
    <3>3. external = [l \in Libraries |-> NoImports]
      BY <2>1 DEF SInv
    <3>4. Len(w) \in Nat /\ \A k \in 1 .. Len(w) : LibraryImport(w[k])
      BY <2>2, <3>2, ArrivedAre
    <3>5. HInv(Handled(w))
      BY <3>3, <3>4, HandledIs
    <3>6. HInv(acc0)
      BY <3>2, <3>5
    <3>7. Sound(gen) /\ gen.minify = prog.minify
      BY <2>2 DEF GInv
    <3>8. Sound(Distributed(acc0).gen) /\ Distributed(acc0).gen.minify = prog.minify
      BY <3>6, <3>7, GDistributed
    <3> QED
      BY <3>1, <3>2, <3>8
  <2> QED
    BY <2>1, <2>2, GNext
<1>4. CASE RenameRoot
  <2>1. prog' = prog
    BY <1>4 DEF RenameRoot
  <2>2. PICK m : m = Last(stack)
    OBVIOUS
  <2> QED
    BY <1>4, <2>1, <2>2, RootGives, GNext
<1>5. (prog' = prog /\ gen' = gen) \/ MergeGenerators \/ GenAst \/ RenameRoot
  BY DEF Next, vars, CollectExports, RenameInner, Descend, RootsRenamed, ReplaceImports, Finish, Stop
<1> QED
  BY <1>1, <1>2, <1>3, <1>4, <1>5

(* The program is one that ECMAScript accepts, without what makes a search or   *)
(* the naming of a module fail.                                              *)
Linkable == Accepted /\ ReexportsFormTrees /\ ReexportsApart /\ NoNumberedNames

(* It depends on the program alone. *)
LEMMA LinkableStays == ASSUME prog' = prog PROVE Linkable' <=> Linkable
<1>1. /\ \A m, e : ExportMeans(m, e)' = ExportMeans(m, e)
      /\ \A m : Lists(m)' = Lists(m)
  BY ExportsStay
<1>2. \A x : Resolved(x)' <=> Resolved(x)
  BY <1>1 DEF Resolved
<1>3. \A m : ExportsDiffer(m)' <=> ExportsDiffer(m)
  BY <1>1 DEF ExportsDiffer
<1>4. Accepted' <=> Accepted
  BY <1>1, <1>2, <1>3 DEF Accepted, IsNamespace
<1>5. \A m : ReexportedFrom(m)' = ReexportedFrom(m)
  BY DEF ReexportedFrom
<1>6. PICK f : f = [k \in Modules |-> ReexportedFrom(k)]
  OBVIOUS
<1>7. [k \in Modules |-> ReexportedFrom(k)'] = f
  BY <1>5, <1>6
<1>8. ReexportsFormTrees' <=> ReexportsFormTrees
  BY <1>5, <1>6, <1>7 DEF ReexportsFormTrees
<1>9. (ReexportsApart' <=> ReexportsApart) /\ (NoNumberedNames' <=> NoNumberedNames)
  BY DEF ReexportsApart, NoNumberedNames
<1> QED
  BY <1>4, <1>8, <1>9 DEF Linkable

(* An import declaration succeeds when what it names is found and its variable  *)
(* still has an owner.                                                       *)
LEMMA ReplaceSucceeds ==
  ASSUME NEW m, NEW i, NEW S, NEW g, NEW ok \in BOOLEAN, ok = TRUE,
         NEW acc, acc = [sym |-> S, getters |-> g, ok |-> ok], Owned(S, m, S.name[<<m, i.local>>]),
         i.from \in Modules \union Libraries,
         i.from \in Modules /\ ~ IsNamespace(i) => FindLocalExport(i.from, i.source) # NotFound
  PROVE  ReplaceImport(m, acc, i).ok = TRUE
<1>1. PICK now : now = S.name[<<m, i.local>>]
  OBVIOUS
<1>2. PICK R, rest, found, lib, own :
        /\ R = ReplaceImport(m, acc, i)
        /\ rest = g \union {[of |-> i.from, export |-> e, name |-> S.local[i.from][e]] :
                              e \in DOMAIN S.local[i.from]}
        /\ found = FindLocalExport(i.from, i.source)
        /\ lib = ExternalName(S, m, i) /\ own = S.local[found[1]][found[2]]
  OBVIOUS
<1>3. PICK A, B : A = RenameInModule(S, m, [o \in {now} |-> lib]) /\ B = RenameInModule(S, m, [o \in {now} |-> own])
  OBVIOUS
<1>4. acc.sym = S /\ acc.getters = g /\ acc.ok = ok
  OBVIOUS
<1>5. R = CASE ~ ok -> acc
            [] ok /\ i.from \in Libraries ->
                 IF Owned(S, m, now) THEN [acc EXCEPT !.sym = A] ELSE acc
            [] ok /\ i.from \in Modules /\ i.source = Star ->
                 IF Owned(S, m, now) THEN [acc EXCEPT !.getters = rest] ELSE acc
            [] OTHER -> IF found = NotFound \/ ~ Owned(S, m, now) THEN [acc EXCEPT !.ok = FALSE]
                        ELSE [acc EXCEPT !.sym = B]
  BY ONLY <1>1, <1>2, <1>3, <1>4 DEF ReplaceImport
<1>6. Owned(S, m, now)
  BY <1>1
<1>7. R = [acc EXCEPT !.sym = A] \/ R = [acc EXCEPT !.getters = rest] \/ R = [acc EXCEPT !.sym = B]
  <2>1. CASE i.from \in Libraries
    <3>1. i.from \notin Modules
      BY <2>1, LinkerAssumption
    <3> QED
      BY <1>5, <1>6, <2>1, <3>1
  <2>2. CASE i.from \notin Libraries /\ i.source = Star
    BY <1>5, <1>6, <2>2
  <2>3. CASE i.from \notin Libraries /\ i.source # Star
    <3>1. found # NotFound
      BY <1>2, <2>3 DEF IsNamespace
    <3> QED
      BY <1>5, <1>6, <2>3, <3>1
  <2> QED
    BY <2>1, <2>2, <2>3
<1>8. \/ R = [sym |-> A, getters |-> g, ok |-> ok]
      \/ R = [sym |-> S, getters |-> rest, ok |-> ok]
      \/ R = [sym |-> B, getters |-> g, ok |-> ok]
  BY <1>7, ResultFields
<1>9. R.ok = ok
  <2>1. CASE R = [sym |-> A, getters |-> g, ok |-> ok]
    BY <2>1
  <2>2. CASE R = [sym |-> S, getters |-> rest, ok |-> ok]
    BY <2>2
  <2>3. CASE R = [sym |-> B, getters |-> g, ok |-> ok]
    BY <2>3
  <2> QED
    BY <1>8, <2>1, <2>2, <2>3
<1> QED
  BY <1>2, <1>9

(* The imports of m after the first k still have their names, and an owner.    *)
StillOwned(m, n, k, acc) ==
  /\ IsResult(acc) /\ Tabled(acc.sym) /\ acc.ok = TRUE
  /\ DOMAIN acc.sym.name = DOMAIN sym.name
  /\ \A t \in Scopes \ {m} : acc.sym.own[t] = sym.own[t]
  /\ \A j \in k + 1 .. n : \A u : u = <<m, prog.imports[m][j].local>> =>
       acc.sym.name[u] = sym.name[u] /\ Owned(acc.sym, m, sym.name[u])

(* One import declaration more: it takes the name from the variable that has it, *)
(* and may take the place of the owner of another name, which it then has.    *)
LEMMA WaitingOne ==
  ASSUME CInv, TabInv, NEW m \in Modules, Apart(sym, m), NEW n \in Nat, n = Len(prog.imports[m]),
         NEW k \in 1 .. n, NEW i, i = prog.imports[m][k], NEW acc, StillOwned(m, n, k - 1, acc),
         i.from \in Modules /\ ~ IsNamespace(i) => FindLocalExport(i.from, i.source) # NotFound
  PROVE  StillOwned(m, n, k, ReplaceImport(m, acc, i))
<1>1. PICK S, g : \E ok \in BOOLEAN : acc = [sym |-> S, getters |-> g, ok |-> ok]
  BY DEF StillOwned, IsResult
<1>2. PICK ok \in BOOLEAN : acc = [sym |-> S, getters |-> g, ok |-> ok]
  BY <1>1
<1>3. acc.sym = S /\ acc.ok = ok
  BY <1>2
<1>4. PICK R, u : R = ReplaceImport(m, acc, i) /\ u = <<m, i.local>>
  OBVIOUS
<1>5. DOMAIN prog.imports[m] = 1 .. n /\ i.from \in Modules \union Libraries
  <2>1. PICK s : s = prog.imports[m]
    OBVIOUS
  <2>2. s \in Seq([from : Modules \union Libraries, source : Exportable \union {Star}, local : Names])
    BY <2>1, ProgramIs DEF IsProgram
  <2>3. DOMAIN s = 1 .. Len(s) /\ Len(s) = n
    BY <2>1, <2>2
  <2>4. PICK W : W = [from : Modules \union Libraries, source : Exportable \union {Star}, local : Names]
    OBVIOUS
  <2>5. s[k] \in W
    <3>1. s \in Seq(W)
      BY <2>2, <2>4
    <3>2. k \in 1 .. Len(s)
      BY <2>3
    <3> QED
      BY <3>1, <3>2
  <2>6. i.from \in Modules \union Libraries
    BY <2>1, <2>4, <2>5
  <2> QED
    BY <2>1, <2>3, <2>6
<1>6. /\ ok = TRUE /\ Tabled(S) /\ DOMAIN S.name = DOMAIN sym.name
      /\ \A t \in Scopes \ {m} : S.own[t] = sym.own[t]
      /\ \A j \in k .. n : \A v : v = <<m, prog.imports[m][j].local>> =>
           S.name[v] = sym.name[v] /\ Owned(S, m, sym.name[v])
  <2>1. (k - 1) + 1 = k
    OBVIOUS
  <2> QED
    BY <1>3, <2>1 DEF StillOwned
<1>7. S.name[u] = sym.name[u] /\ Owned(S, m, S.name[u])
  <2>1. k \in k .. n
    OBVIOUS
  <2> QED
    BY <1>4, <1>6, <2>1
<1>8. R.ok = TRUE
  <2>1. Owned(S, m, S.name[<<m, i.local>>])
    BY <1>4, <1>7
  <2> QED
    BY <1>2, <1>4, <1>5, <1>6, <2>1, ReplaceSucceeds
<1>9. ReplacedBy(S, m, i, R)
  BY <1>2, <1>4, ReplaceOne
<1>10. IsResult(R) /\ Tabled(R.sym)
  <2>1. IsResult(acc) /\ Tabled(acc.sym)
    BY DEF StillOwned
  <2> QED
    BY <1>4, <2>1, TabReplaceOne
<1>11. CASE R.sym = S
  BY <1>4, <1>6, <1>8, <1>10, <1>11 DEF StillOwned
<1>12. CASE \E x : R.sym = RenameInModule(S, m, [o \in {S.name[<<m, i.local>>]} |-> x])
  <2>1. PICK x : R.sym = RenameInModule(S, m, [o \in {S.name[<<m, i.local>>]} |-> x])
    BY <1>12
  <2>2. PICK now, ren, U : now = S.name[u] /\ ren = [o \in {now} |-> x] /\ U = R.sym
    OBVIOUS
  <2>3. U = RenameInModule(S, m, ren) /\ IsTables(S)
    BY <1>4, <1>6, <2>1, <2>2 DEF Tabled
  <2>4. Changed(S, U, m, ren) /\ U.own[m] = S.own[m] \ Lost(S, m, ren)
    BY <2>3, ModuleRenames
  <2>5. /\ DOMAIN U.name = DOMAIN S.name /\ \A t \in Scopes \ {m} : U.own[t] = S.own[t]
        /\ \A v \in DOMAIN S.name : U.name[v] = IF v \in Moved(S, m, ren) THEN ren[S.name[v]] ELSE S.name[v]
    BY <2>4 DEF Changed
  <2>6. m \in Scopes /\ S.own[m] \subseteq DOMAIN S.name
    BY <2>3 DEF Scopes, IsTables, IsSym
  <2>7. DOMAIN ren = {now} /\ ren[now] = x
    BY <2>2
  <2>8. Moved(S, m, ren) = {v \in S.own[m] : S.name[v] = now}
    BY <2>7 DEF Moved
  <2>9. Lost(S, m, ren) = {v \in S.own[m] : S.name[v] # now /\ S.name[v] = x}
    <3>1. Range(ren) = {x}
      BY <2>7 DEF Range
    <3> QED
      BY <2>8, <3>1 DEF Lost
  <2>10. PICK y \in S.own[m] : S.name[y] = now
    BY <1>7, <2>2 DEF Owned
  <2>11. ASSUME NEW j \in k + 1 .. n, NEW v, v = <<m, prog.imports[m][j].local>>
         PROVE  U.name[v] = sym.name[v] /\ Owned(U, m, sym.name[v])
    <3>1. j \in k .. n /\ j \in 1 .. n /\ j # k
      OBVIOUS
    <3>2. S.name[v] = sym.name[v] /\ Owned(S, m, sym.name[v])
      BY <1>6, <2>11, <3>1
    <3>3. prog.imports[m][j].local # i.local /\ prog.imports[m][j].local \in prog.owns[m] /\ i.local \in prog.owns[m]
      BY <1>5, <3>1, ProgramIs DEF IsProgram
    <3>4. u \in OwnVars(m) /\ v \in OwnVars(m) /\ u # v
      BY <1>4, <2>11, <3>3 DEF OwnVars
    <3>5. sym.name[v] # now
      BY <1>7, <2>2, <3>4 DEF Apart
    <3>6. v \in DOMAIN S.name
      BY <2>3, <2>6, <3>4 DEF IsTables, IsSym
    <3>7. U.name[v] = sym.name[v]
      BY <2>5, <2>8, <3>2, <3>5, <3>6
    <3>8. PICK w \in S.own[m] : S.name[w] = sym.name[v]
      BY <3>2 DEF Owned
    <3>9. CASE sym.name[v] = x
      <4>1. y \in U.own[m] /\ U.name[y] = x
        BY <2>4, <2>5, <2>6, <2>7, <2>8, <2>9, <2>10
      <4> QED
        BY <3>7, <3>9, <4>1 DEF Owned
    <3>10. CASE sym.name[v] # x
      <4>1. w \in U.own[m] /\ U.name[w] = sym.name[v]
        BY <2>4, <2>5, <2>6, <2>8, <2>9, <3>5, <3>8, <3>10
      <4> QED
        BY <3>7, <4>1 DEF Owned
    <3> QED
      BY <3>9, <3>10
  <2> QED
    BY <1>4, <1>6, <1>8, <1>10, <2>2, <2>5, <2>11, ZenonT(40) DEF StillOwned
<1> QED
  BY <1>9, <1>11, <1>12 DEF ReplacedBy

(* So all import declarations of a module succeed. *)
LEMMA ReplacedOwned ==
  ASSUME CInv, MInv, Covers, TabInv, Linkable, NEW m \in Modules, Apart(sym, m)
  PROVE  StillOwned(m, Len(prog.imports[m]), Len(prog.imports[m]), Replaced(m))
<1>1. PICK n, s : s = prog.imports[m] /\ n = Len(s)
  OBVIOUS
<1>2. s \in Seq([from : Modules \union Libraries, source : Exportable \union {Star}, local : Names])
  BY <1>1, ProgramIs DEF IsProgram
<1>3. n \in Nat /\ DOMAIN s = 1 .. n
  BY <1>1, <1>2
<1>4. PICK h : ReplaceSteps(m, n, h) /\ Replaced(m) = h[n]
  BY <1>1, <1>3, ReplacedSteps
<1>5. m \in Scopes /\ IsSym(sym)
  BY DEF Scopes, TabInv, Tabled, IsTables
<1>6. StillOwned(m, n, 0, h[0])
  <2>1. PICK yes \in BOOLEAN : yes = TRUE
    OBVIOUS
  <2>2. PICK S : S = sym
    OBVIOUS
  <2>3. h[0] = [sym |-> S, getters |-> getters, ok |-> yes]
    BY <1>4, <2>1, <2>2 DEF ReplaceSteps, Start
  <2>4. h[0].sym = S /\ h[0].ok = yes
    BY <2>3
  <2>5. IsResult(h[0])
    BY <2>3, Zenon DEF IsResult
  <2>6. ASSUME NEW j \in 0 + 1 .. n, NEW u, u = <<m, prog.imports[m][j].local>>
        PROVE  Owned(S, m, sym.name[u])
    <3>1. j \in 1 .. n
      OBVIOUS
    <3>2. prog.imports[m][j].local \in prog.owns[m]
      BY <1>1, <1>3, <3>1, ProgramIs DEF IsProgram
    <3>3. u \in OwnVars(m)
      BY <2>6, <3>2 DEF OwnVars
    <3>4. u \in sym.own[m]
      BY <3>3 DEF Apart
    <3> QED
      BY <2>2, <3>4 DEF Owned
  <2> QED
    BY <2>1, <2>2, <2>4, <2>5, <2>6 DEF StillOwned, TabInv
<1> DEFINE T == {k \in Nat : k <= n => StillOwned(m, n, k, h[k])}
<1>7. ASSUME NEW k \in Nat, \A j \in 0 .. k - 1 : j \in T PROVE k \in T
  <2>1. CASE k = 0
    BY <1>6, <2>1
  <2>2. CASE k > n
    BY <1>3, <2>2
  <2>3. CASE k # 0 /\ k <= n
    <3>1. k - 1 \in 0 .. k - 1 /\ k - 1 <= n /\ k \in 1 .. n
      BY <1>3, <2>3
    <3>2. StillOwned(m, n, k - 1, h[k - 1])
      BY <1>7, <3>1
    <3>3. PICK a, i : a = h[k - 1] /\ i = prog.imports[m][k]
      OBVIOUS
    <3>4. h[k] = ReplaceImport(m, a, i)
      BY <1>4, <3>1, <3>3 DEF ReplaceSteps
    <3>5. i.from \in Modules /\ ~ IsNamespace(i) => FindLocalExport(i.from, i.source) # NotFound
      <4>1. i \in ToSet(prog.imports[m])
        BY <1>1, <1>3, <3>1, <3>3 DEF ToSet
      <4>2. TablesTyped
        BY DEF TabInv, Tabled, TablesTyped
      <4>3. Accepted /\ ReexportsApart /\ ReexportsFormTrees
        BY DEF Linkable
      <4> QED
        BY <4>1, <4>2, <4>3, ImportFound
    <3>6. StillOwned(m, n, k, ReplaceImport(m, a, i))
      BY <1>1, <1>3, <3>1, <3>2, <3>3, <3>5, WaitingOne
    <3> QED
      BY <3>4, <3>6
  <2> QED
    BY <1>3, <2>1, <2>2, <2>3
<1>8. T \in SUBSET Nat
  OBVIOUS
<1>9. T = Nat
  <2> HIDE DEF T
  <2> QED
    BY <1>7, <1>8, StrongInduction
<1>10. n \in T
  BY <1>3, <1>9
<1>11. StillOwned(m, n, n, h[n])
  BY <1>3, <1>10
<1> QED
  BY <1>1, <1>4, <1>11

(* Linking such a program does not fail: the modules whose imports are still to *)
(* be replaced, have their variables.                                        *)
OInv == Linkable =>
  /\ stage # "failed"
  /\ stage = "roots" => \A m \in Walked : Apart(sym, m)
  /\ stage = "imports" => \A m \in Modules \ Walked : Apart(sym, m)

(* Of the next state it says this. *)
LEMMA ONext ==
  ASSUME prog' = prog
  PROVE  OInv' <=> (Linkable =>
           /\ stage' # "failed"
           /\ stage' = "roots" => \A m \in Walked' : Apart(sym', m)
           /\ stage' = "imports" => \A m \in Modules \ Walked' : Apart(sym', m))
<1>1. \A m : Apart(sym, m)' <=> Apart(sym', m)
  BY DEF Apart, OwnVars
<1>2. Linkable' <=> Linkable
  BY LinkableStays
<1> QED
  BY <1>1, <1>2 DEF OInv

(* A module keeps its variables where what it owns and their names stay. *)
LEMMA ApartStays ==
  ASSUME NEW T, NEW U, NEW m, Apart(T, m), U.own[m] = T.own[m], \A v \in OwnVars(m) : U.name[v] = T.name[v]
  PROVE  Apart(U, m)
BY DEF Apart

(* Every step keeps that. *)
LEMMA OStep ==
  ASSUME NumeralsDiffer, CInv, WInv, SInv, SInv', MInv, Covers, TabInv, GInv, OInv, [Next]_vars
  PROVE  OInv'
<1>1. prog' = prog
  BY ProgramStays
<1> SUFFICES ASSUME Linkable
             PROVE  /\ stage' # "failed"
                    /\ stage' = "roots" => \A m \in Walked' : Apart(sym', m)
                    /\ stage' = "imports" => \A m \in Modules \ Walked' : Apart(sym', m)
  BY <1>1, ONext
<1>2. /\ stage # "failed"
      /\ stage = "roots" => \A m \in Walked : Apart(sym, m)
      /\ stage = "imports" => \A m \in Modules \ Walked : Apart(sym, m)
  BY DEF OInv
<1>3. CASE UNCHANGED vars
  <2>1. UNCHANGED <<stage, sym, visited, stack>>
    BY <1>3 DEF vars
  <2>2. Walked' = Walked
    BY <2>1 DEF Walked, On
  <2> QED
    BY <1>2, <2>1, <2>2
<1>4. CASE CollectExports \/ (\E s \in Inner : RenameInner(s)) \/ MergeGenerators
  <2>1. stage' \in {"inner", "externals"}
    BY <1>4 DEF CollectExports, RenameInner, MergeGenerators
  <2> QED
    BY <2>1
<1>5. CASE GenAst
  <2>1. stage' = "roots" /\ stack' = <<Entry>> /\ visited' = {Entry}
    BY <1>5 DEF GenAst
  <2>2. Walked' = {}
    BY <2>1, BeginDoes
  <2> QED
    BY <2>1, <2>2
<1>6. CASE Descend
  <2>1. Walked' = Walked
    BY <1>6, DescendDoes
  <2>2. UNCHANGED <<stage, sym>>
    BY <1>6 DEF Descend
  <2> QED
    BY <1>2, <2>1, <2>2
<1>7. CASE RenameRoot
  <2>1. PICK m : m = Last(stack)
    OBVIOUS
  <2>2. stage = "roots" /\ stage' = "roots"
    BY <1>7 DEF RenameRoot
  <2>3. /\ m \in Modules \ Walked /\ Walked' = Walked \union {m}
        /\ \A v \in DOMAIN sym'.name : v[1] # m => v \in DOMAIN sym.name /\ sym'.name[v] = sym.name[v]
    BY <1>7, <2>1, RootTables
  <2>4. NoNumberedNames
    BY DEF Linkable
  <2>5. Apart(sym', m) /\ \A t \in Scopes \ {m} : sym'.own[t] = sym.own[t]
    BY <1>7, <2>1, <2>4, RootGives
  <2>6. ASSUME NEW k \in Walked, k # m PROVE Apart(sym', k)
    <3>1. Apart(sym, k)
      BY <1>2, <2>2
    <3>2. k \in Scopes
      BY DEF Scopes, Walked, CInv
    <3>3. IsSym(sym')
      BY <1>1, SymNext DEF SInv
    <3>4. \A v \in OwnVars(k) : v \in DOMAIN sym'.name /\ v[1] = k
      BY <3>2, <3>3 DEF IsSym, OwnVars
    <3>5. \A v \in OwnVars(k) : sym'.name[v] = sym.name[v]
      BY <2>3, <2>6, <3>4
    <3>6. sym'.own[k] = sym.own[k]
      BY <2>5, <2>6, <3>2
    <3> QED
      BY <3>1, <3>5, <3>6, ApartStays
  <2> QED
    BY <2>2, <2>3, <2>5, <2>6
<1>8. CASE RootsRenamed
  <2>1. /\ stage = "roots" /\ stack = <<>> /\ stage' = "imports" /\ sym' = sym
        /\ stack' = <<Entry>> /\ visited' = {Entry}
    BY <1>8 DEF RootsRenamed
  <2>2. Walked = Modules
    BY <2>1, AllWalked
  <2>3. Walked' = {}
    BY <2>1, BeginDoes
  <2> QED
    BY <1>2, <2>1, <2>2, <2>3
<1>9. CASE ReplaceImports
  <2>1. PICK m, r : m = Last(stack) /\ r = Replaced(m)
    OBVIOUS
  <2>2. /\ stage = "imports" /\ stack # <<>> /\ Ready /\ sym' = r.sym /\ UNCHANGED visited
        /\ stack' = (IF r.ok THEN Popped(stack) ELSE <<>>) /\ stage' = (IF r.ok THEN stage ELSE "failed")
    BY <1>9, <2>1 DEF ReplaceImports
  <2>3. m \in Modules /\ m \notin Walked
    <3>1. m \in On(stack)
      BY <2>1, <2>2, OnPopped DEF CInv, WInv
    <3>2. m \in Modules
      BY <2>1, <2>2, TopIs
    <3> QED
      BY <3>1, <3>2 DEF Walked
  <2>4. Apart(sym, m)
    BY <1>2, <2>2, <2>3
  <2>5. PICK n : n = Len(prog.imports[m])
    OBVIOUS
  <2>6. StillOwned(m, n, n, r)
    BY <2>1, <2>3, <2>4, <2>5, ReplacedOwned
  <2>7. r.ok = TRUE /\ \A t \in Scopes \ {m} : r.sym.own[t] = sym.own[t]
    BY <2>6 DEF StillOwned
  <2>8. stack' = Popped(stack) /\ stage' = stage
    BY <2>2, <2>7
  <2>9. Walked' = Walked \union {m}
    BY <1>1, <2>1, <2>2, <2>8, LeaveDoes
  <2>10. ASSUME NEW k \in Modules \ Walked, k # m PROVE Apart(sym', k)
    <3>1. Apart(sym, k) /\ k \in Scopes
      BY <1>2, <2>2 DEF Scopes
    <3>2. n \in Nat
      <4>1. PICK s : s = prog.imports[m]
        OBVIOUS
      <4>2. s \in Seq([from : Modules \union Libraries, source : Exportable \union {Star}, local : Names])
        BY <2>3, <4>1, ProgramIs DEF IsProgram
      <4> QED
        BY <2>5, <4>1, <4>2
    <3>3. \A v \in DOMAIN sym.name : v[1] # m => sym'.name[v] = sym.name[v]
      BY <2>1, <2>2, <2>3, <2>5, <3>2, ReplacedIs DEF RInv
    <3>4. \A v \in OwnVars(k) : v \in DOMAIN sym.name /\ v[1] = k
      BY <3>1 DEF IsSym, OwnVars, SInv
    <3>5. \A v \in OwnVars(k) : sym'.name[v] = sym.name[v]
      BY <2>10, <3>3, <3>4
    <3>6. sym'.own[k] = sym.own[k]
      BY <2>2, <2>7, <2>10, <3>1
    <3> QED
      BY <3>1, <3>5, <3>6, ApartStays
  <2> QED
    BY <2>2, <2>8, <2>9, <2>10
<1>10. CASE Finish
  <2>1. stage' = "done"
    BY <1>10 DEF Finish
  <2> QED
    BY <2>1
<1> QED
  BY <1>3, <1>4, <1>5, <1>6, <1>7, <1>8, <1>9, <1>10 DEF Next, Stop

(* Linking fails only for a program ECMAScript refuses, where a module is met    *)
(* twice by re-exports, or where a source has a name like those the generator   *)
(* makes: what an import names is found, and its variable is there to rename.   *)
THEOREM LinkingSucceeds ==
  ASSUME NumeralsDiffer
  PROVE  Spec => []RejectsOnly
<1>1. Init => AllInv /\ Covers /\ TabInv /\ GInv /\ OInv
  <2>1. Init => OInv
    BY DEF Init, OInv
  <2> QED
    BY <2>1, AllInit, CoversInit, TabInit, GInit
<1>2. AllInv /\ Covers /\ TabInv /\ GInv /\ OInv /\ [Next]_vars
        => AllInv' /\ Covers' /\ TabInv' /\ GInv' /\ OInv'
  <2> SUFFICES ASSUME AllInv, Covers, TabInv, GInv, OInv, [Next]_vars
               PROVE  AllInv' /\ Covers' /\ TabInv' /\ GInv' /\ OInv'
    OBVIOUS
  <2>1. AllInv'
    BY AllStep
  <2>2. CInv /\ WInv /\ SInv /\ SInv' /\ MInv
    BY <2>1 DEF AllInv, LInv
  <2>3. Covers' /\ TabInv'
    BY <2>2, CoversStep, TabStep
  <2>4. GInv'
    BY <2>2, GStep
  <2>5. OInv'
    BY <2>2, OStep
  <2> QED
    BY <2>1, <2>3, <2>4, <2>5
<1>3. OInv => RejectsOnly
  BY DEF OInv, RejectsOnly, Linkable
<1> QED
  BY <1>1, <1>2, <1>3, PTL DEF Spec

-----------------------------------------------------------------------------
(* A name is a text; what the code writes into one, and the digits of a number, *)
(* are strings: no prover knows that of a literal.                           *)
Text == Seq(STRING) \ {<<>>}
LiteralsAreStrings ==
  /\ {"*", "default", "_default", "_"} \subseteq STRING
  /\ \A i \in Nat : ToString(i) \in STRING

(* A text of one string. *)
LEMMA OneString ==
  ASSUME NEW X, NEW x \in X
  PROVE  <<x>> \in Seq(X) /\ <<x>> # <<>>
  OBVIOUS

(* All names of sources are texts, and so are those the code has itself. *)
LEMMA SourceTexts ==
  ASSUME LiteralsAreStrings
  PROVE  Names \subseteq Text /\ {Star, DefaultName, <<"_default">>} \subseteq Text
<1>1. Names \subseteq Text
  BY LinkerAssumption DEF Text, Unnamed
<1>2. ASSUME NEW x \in STRING PROVE <<x>> \in Text
  <2>1. PICK X : X = STRING
    OBVIOUS
  <2>2. x \in X
    BY <2>1
  <2>3. <<x>> \in Seq(X) /\ <<x>> # <<>>
    BY <2>2, OneString
  <2> QED
    BY <2>1, <2>3 DEF Text
<1>3. PICK a, b, c : a = "*" /\ b = "default" /\ c = "_default"
  OBVIOUS
<1>4. a \in STRING /\ b \in STRING /\ c \in STRING
  BY <1>3 DEF LiteralsAreStrings
<1>5. <<a>> \in Text /\ <<b>> \in Text /\ <<c>> \in Text
  BY <1>2, <1>4
<1> QED
  BY <1>1, <1>3, <1>5 DEF Star, DefaultName

(* What either generator gives for a text is one. *)
LEMMA NextNameTyped ==
  ASSUME LiteralsAreStrings, NEW g, IsGen(g), NEW n \in Text
  PROVE  NextName(g, n).name \in Text
<1>1. PICK m \in BOOLEAN, c \in Nat : \E u : g = [minify |-> m, used |-> u, counter |-> c]
  BY DEF IsGen
<1>2. g.minify = m /\ g.counter = c
  BY <1>1
<1>3. CASE m
  <2>1. PICK i : i = FreeIndex(g)
    OBVIOUS
  <2>2. i \in Nat
    BY <2>1, FreeIndexIs
  <2>3. NextName(g, n).name = GenAName(i)
    BY <1>2, <1>3, <2>1 DEF NextName, MinifyNext
  <2> QED
    BY <2>2, <2>3, NamesInjective DEF Text
<1>4. CASE ~ m
  <2>1. NextName(g, n).name = n \/ NextName(g, n).name = Suffixed(g, n)
    BY <1>2, <1>4 DEF NextName, ReadableNext
  <2>2. Suffixed(g, n) \in Text
    <3>1. PICK X, a, b, s : X = STRING /\ a = "_" /\ b = ToString(c) /\ s = n \o <<a, b>>
      OBVIOUS
    <3>2. a \in X /\ b \in X /\ n \in Seq(X)
      <4>1. a \in STRING /\ b \in STRING
        BY <3>1 DEF LiteralsAreStrings
      <4>2. n \in Seq(STRING)
        BY DEF Text
      <4> QED
        BY <3>1, <4>1, <4>2
    <3>3. <<a, b>> \in Seq(X) /\ Len(n) \in Nat
      BY <3>2
    <3>4. s \in Seq(X)
      BY <3>1, <3>2, <3>3, ConcatProperties
    <3>5. Len(s) = Len(n) + 2
      <4>1. Len(n \o <<a, b>>) = Len(n) + 2
        BY <3>2, Joined
      <4> QED
        BY <3>1, <4>1
    <3>6. s # <<>>
      BY <3>3, <3>5
    <3>7. Suffixed(g, n) = s
      BY <1>2, <3>1 DEF Suffixed
    <3> QED
      BY <3>1, <3>4, <3>6, <3>7 DEF Text
  <2> QED
    BY <2>1, <2>2
<1> QED
  BY <1>3, <1>4

(* And for a list of texts as many. *)
LEMMA NextNamesTyped ==
  ASSUME LiteralsAreStrings, NEW g, IsGen(g), NEW w, Len(w) \in Nat, \A i \in 1 .. Len(w) : w[i] \in Text
  PROVE  /\ NextNames(g, w).names \in Seq(Text) /\ Len(NextNames(g, w).names) = Len(w)
         /\ IsGen(NextNames(g, w).gen)
<1>1. PICK L \in Nat : L = Len(w)
  OBVIOUS
<1>2. PICK h : Steps(g, w, L, h) /\ NextNames(g, w) = h[L]
  BY <1>1, NextNamesSteps
<1>3. PICK X : X = Text
  OBVIOUS
<1> DEFINE Ok(k) == IsGen(h[k].gen) /\ h[k].names \in Seq(X) /\ Len(h[k].names) = k
           T == {k \in Nat : k <= L => Ok(k)}
<1>4. ASSUME NEW k \in Nat, \A j \in 0 .. k - 1 : j \in T PROVE k \in T
  <2> SUFFICES ASSUME k <= L PROVE Ok(k)
    OBVIOUS
  <2>1. CASE k = 0
    <3>1. h[0].gen = g /\ h[0].names = <<>>
      BY <1>2 DEF Steps
    <3> QED
      BY <2>1, <3>1
  <2>2. CASE k # 0
    <3>1. k - 1 \in 0 .. k - 1 /\ k \in 1 .. L
      BY <1>1, <2>2
    <3>2. Ok(k - 1)
      <4>1. k - 1 \in T
        BY <1>4, <3>1
      <4>2. k - 1 <= L
        BY <1>1, <3>1
      <4> QED
        BY <4>1, <4>2
    <3>3. PICK f, n, r, s : f = h[k - 1].gen /\ n = w[k] /\ r = NextName(f, n) /\ s = h[k - 1].names
      OBVIOUS
    <3>4. h[k].gen = r.gen /\ h[k].names = Append(s, r.name)
      <4>1. h[k] = Step(h[k - 1], w[k])
        BY <1>2, <3>1 DEF Steps
      <4> QED
        BY <3>3, <4>1 DEF Step
    <3>5. IsGen(f) /\ s \in Seq(X) /\ Len(s) = k - 1 /\ n \in Text
      BY <1>1, <3>1, <3>2, <3>3
    <3>6. IsGen(r.gen) /\ r.name \in X
      BY <1>3, <3>3, <3>5, NextNameKeeps, NextNameTyped
    <3>7. Append(s, r.name) \in Seq(X) /\ Len(Append(s, r.name)) = k
      BY <3>5, <3>6
    <3> QED
      BY <3>4, <3>6, <3>7
  <2> QED
    BY <2>1, <2>2
<1>5. T = Nat
  <2>1. T \in SUBSET Nat
    OBVIOUS
  <2> HIDE DEF T
  <2> QED
    BY <1>4, <2>1, StrongInduction
<1>6. Ok(L)
  BY <1>1, <1>5
<1> QED
  BY <1>1, <1>2, <1>3, <1>6

(* A changeset that gives texts. *)
LEMMA ChangesTyped ==
  ASSUME NEW T, NEW order, NEW names, NEW k \in Nat, DOMAIN order = 1 .. k, names \in Seq(Text), Len(names) = k,
         NEW ren, ren = Changes(T, order, names)
  PROVE  \A x \in DOMAIN ren : ren[x] \in Text
<1>1. PICK changed : changed = {i \in DOMAIN order : names[i] # T.name[order[i]]}
  OBVIOUS
<1>2. ren = [n \in {T.name[order[i]] : i \in changed} |->
               names[CHOOSE i \in changed : T.name[order[i]] = n]]
  BY <1>1 DEF Changes
<1>3. \A i \in 1 .. k : names[i] \in Text
  <2>1. PICK X : X = Text
    OBVIOUS
  <2>2. names \in Seq(X)
    BY <2>1
  <2>3. \A i \in 1 .. k : names[i] \in X
    BY <2>2
  <2> QED
    BY <2>1, <2>3
<1> SUFFICES ASSUME NEW x \in DOMAIN ren PROVE ren[x] \in Text
  OBVIOUS
<1>4. \E i \in changed : T.name[order[i]] = x
  BY <1>2
<1>5. PICK j : j = CHOOSE i \in changed : T.name[order[i]] = x
  OBVIOUS
<1>6. j \in changed
  BY <1>4, <1>5
<1>7. ren[x] = names[j]
  BY <1>2, <1>5
<1> QED
  BY <1>1, <1>3, <1>6, <1>7

(* The names in tables are texts, except that an export default may have none    *)
(* yet where its module is in W.                                             *)
Typed(T, W) ==
  /\ Tabled(T)
  /\ \A v \in DOMAIN T.name : T.name[v] \in Text
  /\ \A m \in Modules : \A e \in DOMAIN T.local[m] :
       T.local[m][e] \in Text \/ (m \in W /\ e = DefaultName /\ HasDefault(m))

(* So they stay when a scope is renamed to texts: a module, ...                  *)
LEMMA ModuleTyped ==
  ASSUME NEW T, NEW W, Typed(T, W), NEW m \in Modules, NEW ren, \A x \in DOMAIN ren : ren[x] \in Text
  PROVE  Typed(RenameInModule(T, m, ren), W)
<1>1. PICK U : U = RenameInModule(T, m, ren)
  OBVIOUS
<1>2. Tabled(U) /\ IsTables(T)
  BY <1>1, TabRenames DEF Typed, Tabled
<1>3. Changed(T, U, m, ren) /\ ExportsMoved(T, U, m, ren, DOMAIN ren \intersect DOMAIN T.index[m])
  BY <1>1, <1>2, ModuleRenames
<1>4. ASSUME NEW v \in DOMAIN U.name PROVE U.name[v] \in Text
  <2>1. v \in DOMAIN T.name /\ U.name[v] = IF v \in Moved(T, m, ren) THEN ren[T.name[v]] ELSE T.name[v]
    BY <1>3 DEF Changed
  <2>2. v \in Moved(T, m, ren) => T.name[v] \in DOMAIN ren
    BY DEF Moved
  <2> QED
    BY <2>1, <2>2 DEF Typed
<1>5. ASSUME NEW k \in Modules, NEW e \in DOMAIN U.local[k]
      PROVE  U.local[k][e] \in Text \/ (k \in W /\ e = DefaultName /\ HasDefault(k))
  <2>1. CASE k # m
    <3>1. U.local[k] = T.local[k]
      BY <1>3, <2>1 DEF ExportsMoved
    <3> QED
      BY <3>1 DEF Typed
  <2>2. CASE k = m
    <3>1. PICK hit : hit = DOMAIN ren \intersect DOMAIN T.index[m]
      OBVIOUS
    <3>2. e \in DOMAIN T.local[m]
      BY <1>3, <2>2 DEF ExportsMoved
    <3>3. U.local[m][e] = IF T.local[m][e] \in hit /\ T.index[m][T.local[m][e]] = e
                          THEN ren[T.local[m][e]] ELSE T.local[m][e]
      BY <1>3, <3>1, <3>2 DEF ExportsMoved
    <3>4. T.local[m][e] \in hit => T.local[m][e] \in DOMAIN ren
      BY <3>1
    <3>5. U.local[m][e] \in Text \/ U.local[m][e] = T.local[m][e]
      BY <3>3, <3>4
    <3> QED
      BY <2>2, <3>2, <3>5 DEF Typed
  <2> QED
    BY <2>1, <2>2
<1> QED
  BY <1>1, <1>2, <1>4, <1>5 DEF Typed

(* ... or a scope inside one.                                                *)
LEMMA ScopeTyped ==
  ASSUME NEW T, NEW W, Typed(T, W), NEW s \in Inner, NEW ren, \A x \in DOMAIN ren : ren[x] \in Text
  PROVE  Typed(RenameIn(T, s, ren), W)
<1>1. PICK U : U = RenameIn(T, s, ren)
  OBVIOUS
<1>2. s \in Scopes /\ IsTables(T) /\ IsSym(T)
  BY DEF Typed, Tabled, IsTables, Scopes
<1>3. Changed(T, U, s, ren) /\ U.local = T.local /\ U.index = T.index
  BY <1>1, <1>2, ScopeRenames, ScopeKeepsExports
<1>4. IsTables(U)
  BY <1>2, <1>3 DEF Changed, IsTables
<1>5. Tabled(U)
  BY <1>3, <1>4 DEF Tabled, Typed
<1>6. ASSUME NEW v \in DOMAIN U.name PROVE U.name[v] \in Text
  <2>1. v \in DOMAIN T.name /\ U.name[v] = IF v \in Moved(T, s, ren) THEN ren[T.name[v]] ELSE T.name[v]
    BY <1>3 DEF Changed
  <2>2. v \in Moved(T, s, ren) => T.name[v] \in DOMAIN ren
    BY DEF Moved
  <2> QED
    BY <2>1, <2>2 DEF Typed
<1> QED
  BY <1>1, <1>3, <1>5, <1>6 DEF Typed

(* ReplaceExports gives an export default its name.                           *)
LEMMA DefaultTyped ==
  ASSUME CInv, NEW T, NEW W, Typed(T, W), NEW m \in Modules, NEW d \in Text,
         NEW U, U = IF HasDefault(m) THEN AddDefault(T, m, d) ELSE T
  PROVE  Typed(U, W \ {m})
<1>1. CASE ~ HasDefault(m)
  <2>1. ASSUME NEW k \in Modules, NEW e \in DOMAIN T.local[k]
        PROVE  T.local[k][e] \in Text \/ (k \in W \ {m} /\ e = DefaultName /\ HasDefault(k))
    BY <1>1 DEF Typed
  <2> QED
    BY <1>1, <2>1 DEF Typed
<1>2. CASE HasDefault(m)
  <2>1. PICK z \in ToSet(prog.exports[m]) : z.local = Unnamed
    BY <1>2 DEF HasDefault
  <2>2. z.export = DefaultName
    BY <2>1, ListsAre
  <2>3. DefaultName \in DOMAIN T.local[m] /\ IsTables(T) /\ U = AddDefault(T, m, d)
    BY <1>2, <2>2 DEF Typed, Tabled, ExportNames
  <2>4. /\ IsTables(U) /\ (\A k \in Modules \ {m} : U.local[k] = T.local[k]) /\ U.index = T.index
        /\ DOMAIN U.local[m] = DOMAIN T.local[m] /\ U.local[m][DefaultName] = d
        /\ \A e \in DOMAIN T.local[m] \ {DefaultName} : U.local[m][e] = T.local[m][e]
    BY <2>3, DefaultExports
  <2>5. Tabled(U)
    BY <2>4 DEF Tabled, Typed
  <2>6. PICK b : b = <<m, DefaultVar>>
    OBVIOUS
  <2>7. DOMAIN U.name = DOMAIN T.name \union {b} /\ \A v \in DOMAIN T.name \ {b} : U.name[v] = T.name[v]
    BY <2>3, <2>6, DefaultNames DEF IsTables
  <2>8. U.name[b] = d
    BY <2>3, <2>6, DefaultAdded DEF IsTables
  <2>9. \A v \in DOMAIN U.name : U.name[v] \in Text
    BY <2>7, <2>8 DEF Typed
  <2>10. ASSUME NEW k \in Modules, NEW e \in DOMAIN U.local[k]
         PROVE  U.local[k][e] \in Text \/ (k \in W \ {m} /\ e = DefaultName /\ HasDefault(k))
    <3>1. CASE k # m
      <4>1. U.local[k] = T.local[k]
        BY <2>4, <3>1
      <4> QED
        BY <3>1, <4>1 DEF Typed
    <3>2. CASE k = m /\ e = DefaultName
      BY <2>4, <3>2
    <3>3. CASE k = m /\ e # DefaultName
      <4>1. e \in DOMAIN T.local[m] /\ U.local[m][e] = T.local[m][e]
        BY <2>4, <3>3
      <4> QED
        BY <3>3, <4>1 DEF Typed
    <3> QED
      BY <3>1, <3>2, <3>3
  <2> QED
    BY <2>5, <2>9, <2>10 DEF Typed
<1> QED
  BY <1>1, <1>2

(* At first they have the names of the sources. *)
LEMMA TypedInit == LiteralsAreStrings => (Init => Typed(sym, Modules))
<1> SUFFICES ASSUME LiteralsAreStrings, Init PROVE Typed(sym, Modules)
  OBVIOUS
<1>1. CInv /\ Tabled(sym) /\ sym = SymbolsOf(prog)
  BY CInit, TabInit DEF Init, TabInv
<1>2. ASSUME NEW v \in DOMAIN sym.name PROVE sym.name[v] \in Text
  <2>1. DOMAIN sym.name = UNION {{<<s, n>> : n \in prog.owns[s]} : s \in Scopes} /\ sym.name[v] = v[2]
    BY <1>1 DEF SymbolsOf
  <2>2. PICK s \in Scopes : v \in {<<s, n>> : n \in prog.owns[s]}
    BY <2>1
  <2>3. v[2] \in prog.owns[s]
    BY <2>2
  <2> QED
    BY <1>1, <2>1, <2>3, ProgramIs, SourceTexts
<1>3. ASSUME NEW m \in Modules, NEW e \in DOMAIN sym.local[m]
      PROVE  sym.local[m][e] \in Text \/ (e = DefaultName /\ HasDefault(m))
  <2>1. PICK q : q = prog.exports[m]
    OBVIOUS
  <2>2. q \in Seq([export : Exportable, local : Names \union {Unnamed}])
    BY <1>1, <2>1, ProgramIs DEF IsProgram
  <2>3. sym.local[m] = [x \in ExportNames(prog, m) |-> q[Max({i \in DOMAIN q : q[i].export = x})].local]
    BY <1>1, <2>1 DEF SymbolsOf
  <2>4. PICK A : A = {i \in DOMAIN q : q[i].export = e}
    OBVIOUS
  <2>5. A \subseteq DOMAIN q /\ A # {}
    <3>1. e \in ExportNames(prog, m)
      BY <2>3
    <3> QED
      BY <2>1, <2>4, <3>1 DEF ExportNames, ToSet
  <2>6. Max(A) \in A
    BY <2>2, <2>5, LatestIs
  <2>7. q[Max(A)] \in ToSet(q) /\ q[Max(A)].export = e /\ sym.local[m][e] = q[Max(A)].local
    BY <2>3, <2>4, <2>6 DEF ToSet
  <2>8. q[Max(A)].local \in Names \union {Unnamed} /\ (q[Max(A)].local = Unnamed => e = DefaultName)
    BY <1>1, <2>1, <2>7, ListsAre
  <2>9. q[Max(A)].local = Unnamed => HasDefault(m)
    BY <2>1, <2>7 DEF HasDefault
  <2> QED
    BY <2>7, <2>8, <2>9, SourceTexts
<1> QED
  BY <1>1, <1>2, <1>3 DEF Typed

(* An info of a library has texts.                                            *)
TypedInfo(x) ==
  \E n, d \in Text \union {Unnamed} : \E s \in Seq(Text) : \E a :
    /\ x = [ns |-> n, default |-> d, names |-> s, alias |-> a]
    /\ \A k \in DOMAIN a : a[k] \in Text

(* An import of a library, in texts. *)
TextImport(i) == i.from \in Libraries /\ i.local \in Text /\ i.source \in Text

(* Such an import makes an info of an info, which serves it and what the info    *)
(* served before.                                                            *)
LEMMA ImportedTyped ==
  ASSUME NEW i, TextImport(i), NEW x, TypedInfo(x)
  PROVE  /\ TypedInfo(Imported(x, i)) /\ Serves(Imported(x, i), i)
         /\ \A j : Serves(x, j) => Serves(Imported(x, i), j)
<1>1. PICK local, source : local = i.local /\ source = i.source
  OBVIOUS
<1>2. local \in Text /\ source \in Text /\ local # Unnamed
  BY <1>1 DEF TextImport, Text, Unnamed
<1>3. PICK n, e \in Text \union {Unnamed} : \E s \in Seq(Text) : \E a :
        /\ x = [ns |-> n, default |-> e, names |-> s, alias |-> a]
        /\ \A k \in DOMAIN a : a[k] \in Text
  BY DEF TypedInfo
<1>4. PICK s \in Seq(Text) : \E a :
        /\ x = [ns |-> n, default |-> e, names |-> s, alias |-> a]
        /\ \A k \in DOMAIN a : a[k] \in Text
  BY <1>3
<1>5. PICK a : x = [ns |-> n, default |-> e, names |-> s, alias |-> a] /\ \A k \in DOMAIN a : a[k] \in Text
  BY <1>4
<1>6. x.names = s /\ x.ns = n /\ x.default = e
  BY <1>5
<1>7. PICK y : y = Imported(x, i)
  OBVIOUS
<1>8. PICK X : X = Text
  OBVIOUS
<1>9. s \in Seq(X) /\ local \in X /\ source \in X
  BY <1>2, <1>4, <1>8
<1>10. Append(s, local) \in Seq(X) /\ Append(s, source) \in Seq(X)
  BY <1>9
<1>11. Star # DefaultName
  BY DEF Star, DefaultName
<1>12. CASE source = Star
  <2>1. PICK p : p = Append(s, local)
    OBVIOUS
  <2>2. y = [x EXCEPT !.ns = i.local, !.names = Append(@, i.local)]
    BY <1>1, <1>7, <1>12, <1>11 DEF Imported
  <2>3. y = [x EXCEPT !.ns = local, !.names = p]
    BY <1>1, <1>6, <2>1, <2>2
  <2>4. y = [ns |-> local, default |-> e, names |-> p, alias |-> a]
    BY <1>5, <2>3, InfoFields
  <2>5. TypedInfo(y)
    BY <1>2, <1>3, <1>5, <1>8, <1>10, <2>1, <2>4 DEF TypedInfo
  <2>6. y.ns = local /\ y.default = e
    BY <2>4
  <2> QED
    BY <1>1, <1>2, <1>6, <1>7, <1>11, <1>12, <2>5, <2>6 DEF Serves
<1>13. CASE source = DefaultName
  <2>1. y = [x EXCEPT !.default = local]
    BY <1>1, <1>7, <1>11, <1>13 DEF Imported
  <2>2. y = [ns |-> n, default |-> local, names |-> s, alias |-> a]
    BY <1>5, <2>1, InfoFields
  <2>3. TypedInfo(y)
    BY <1>2, <1>3, <1>4, <1>5, <2>2 DEF TypedInfo
  <2>4. y.ns = n /\ y.default = local
    BY <2>2
  <2> QED
    BY <1>1, <1>2, <1>6, <1>7, <1>11, <1>13, <2>3, <2>4 DEF Serves
<1>14. CASE source # Star /\ source # DefaultName
  <2>1. PICK p : p = Append(s, source)
    OBVIOUS
  <2>2. y = [x EXCEPT !.names = p]
    BY <1>1, <1>6, <1>7, <1>14, <2>1 DEF Imported
  <2>3. y = [ns |-> n, default |-> e, names |-> p, alias |-> a]
    BY <1>5, <2>2, InfoFields
  <2>4. TypedInfo(y)
    BY <1>3, <1>5, <1>8, <1>10, <2>1, <2>3 DEF TypedInfo
  <2>5. y.ns = n /\ y.default = e
    BY <2>3
  <2> QED
    BY <1>1, <1>6, <1>7, <1>14, <2>4, <2>5 DEF Serves
<1> QED
  BY <1>12, <1>13, <1>14

(* What is heard of the first k imports, in texts.                              *)
TextHeard(w, k, acc) ==
  /\ \E f, d : acc = [infos |-> f, ids |-> d]
  /\ DOMAIN acc.infos = Libraries /\ \A l \in Libraries : TypedInfo(acc.infos[l])
  /\ acc.ids \in Seq(Libraries)
  /\ \A j \in 1 .. k : Serves(acc.infos[w[j].from], w[j])

(* One import declaration more is heard. *)
LEMMA HandleTyped ==
  ASSUME NEW w, NEW k \in Nat \ {0}, NEW acc, TextHeard(w, k - 1, acc), \A j \in 1 .. k : TextImport(w[j])
  PROVE  TextHeard(w, k, HandleImport(acc, w[k]))
<1>1. PICK f, d : acc = [infos |-> f, ids |-> d]
  BY DEF TextHeard
<1>2. acc.infos = f /\ acc.ids = d
  BY <1>1
<1>3. /\ DOMAIN f = Libraries /\ (\A l \in Libraries : TypedInfo(f[l]))
      /\ d \in Seq(Libraries) /\ \A j \in 1 .. k - 1 : Serves(f[w[j].from], w[j])
  BY <1>2 DEF TextHeard
<1>4. PICK i, l : i = w[k] /\ l = i.from
  OBVIOUS
<1>5. TextImport(i) /\ l \in Libraries
  <2>1. k \in 1 .. k
    OBVIOUS
  <2> QED
    BY <1>4, <2>1 DEF TextImport
<1>6. PICK U, e, x : /\ x = Imported(f[l], i) /\ U = [f EXCEPT ![l] = x]
                     /\ e = IF Contains(d, l) THEN d ELSE Append(d, l)
  OBVIOUS
<1>7. HandleImport(acc, i) = [infos |-> U, ids |-> e]
  BY <1>2, <1>4, <1>6 DEF HandleImport
<1>8. HandleImport(acc, i).infos = U /\ HandleImport(acc, i).ids = e
  BY <1>7
<1>9. TypedInfo(x) /\ Serves(x, i) /\ \A j : Serves(f[l], j) => Serves(x, j)
  BY <1>3, <1>4, <1>5, <1>6, ImportedTyped
<1>10. DOMAIN U = Libraries /\ U[l] = x /\ \A m \in Libraries \ {l} : U[m] = f[m]
  BY <1>3, <1>5, <1>6
<1>11. e \in Seq(Libraries)
  <2>1. Append(d, l) \in Seq(Libraries)
    BY <1>3, <1>5
  <2> QED
    BY <1>3, <1>6, <2>1
<1>12. ASSUME NEW j \in 1 .. k PROVE Serves(U[w[j].from], w[j])
  <2>1. CASE j = k
    BY <1>4, <1>9, <1>10, <2>1
  <2>2. CASE j # k
    <3>1. j \in 1 .. k - 1 /\ w[j].from \in Libraries
      BY <2>2 DEF TextImport
    <3>2. Serves(f[w[j].from], w[j])
      BY <1>3, <3>1
    <3>3. CASE w[j].from = l
      BY <1>9, <1>10, <3>2, <3>3
    <3>4. CASE w[j].from # l
      BY <1>10, <3>1, <3>2, <3>4
    <3> QED
      BY <3>3, <3>4
  <2> QED
    BY <2>1, <2>2
<1>13. \A m \in Libraries : TypedInfo(U[m])
  BY <1>3, <1>9, <1>10
<1>14. PICK r : r = HandleImport(acc, i)
  OBVIOUS
<1>15. r.infos = U /\ r.ids = e /\ \E g, c : r = [infos |-> g, ids |-> c]
  BY <1>7, <1>8, <1>14
<1> QED
  BY <1>4, <1>10, <1>11, <1>12, <1>13, <1>14, <1>15 DEF TextHeard

(* At the end all of them are. *)
LEMMA HandledTyped ==
  ASSUME DOMAIN external = Libraries, \A l \in Libraries : TypedInfo(external[l]),
         NEW w, NEW n \in Nat, n = Len(w), \A k \in 1 .. n : TextImport(w[k])
  PROVE  TextHeard(w, n, Handled(w))
<1>2. PICK h : HandleSteps(w, n, h) /\ Handled(w) = h[n]
  BY HandledSteps
<1>3. TextHeard(w, 0, h[0])
  <2>1. PICK f, d : f = external /\ d = <<>>
    OBVIOUS
  <2>2. h[0] = [infos |-> f, ids |-> d]
    BY <1>2, <2>1 DEF HandleSteps, NoneHandled
  <2>3. h[0].infos = f /\ h[0].ids = d
    BY <2>2
  <2>4. d \in Seq(Libraries)
    BY <2>1
  <2>5. PICK r : r = h[0]
    OBVIOUS
  <2>6. \E g, c : r = [infos |-> g, ids |-> c]
    BY <2>2, <2>5
  <2>7. DOMAIN f = Libraries /\ (\A l \in Libraries : TypedInfo(f[l])) /\ 1 .. 0 = {}
    BY <2>1
  <2>8. r.infos = f /\ r.ids = d
    BY <2>3, <2>5
  <2>9. TextHeard(w, 0, r)
    BY <2>4, <2>6, <2>7, <2>8 DEF TextHeard
  <2> QED
    BY <2>5, <2>9
<1> DEFINE T == {k \in Nat : k <= n => TextHeard(w, k, h[k])}
<1>4. ASSUME NEW k \in Nat, \A j \in 0 .. k - 1 : j \in T PROVE k \in T
  <2>1. CASE k = 0
    BY <1>3, <2>1
  <2>2. CASE k > n
    BY <2>2
  <2>3. CASE k # 0 /\ k <= n
    <3>1. k - 1 \in 0 .. k - 1 /\ k - 1 <= n /\ k \in 1 .. n /\ k \in Nat \ {0}
      BY <2>3
    <3>2. TextHeard(w, k - 1, h[k - 1])
      BY <1>4, <3>1
    <3>3. h[k] = HandleImport(h[k - 1], w[k])
      BY <1>2, <3>1 DEF HandleSteps
    <3>4. \A j \in 1 .. k : TextImport(w[j])
      BY <2>3
    <3>5. TextHeard(w, k, h[k])
      BY <3>1, <3>2, <3>3, <3>4, HandleTyped
    <3> QED
      BY <3>5
  <2> QED
    BY <2>1, <2>2, <2>3
<1>5. T \in SUBSET Nat
  OBVIOUS
<1>6. T = Nat
  <2> HIDE DEF T
  <2> QED
    BY <1>4, <1>5, StrongInduction
<1>7. n \in T
  BY <1>6
<1> QED
  BY <1>2, <1>7

(* The names an info wants, as texts. *)
WantsTexts(n, d, s, both, w) ==
  /\ n \in Text \union {Unnamed} /\ d \in Text \union {Unnamed} /\ s \in Seq(Text)
  /\ both = Named(n) \o Named(d) /\ w = both \o s

(* They are texts. *)
LEMMA WantedTexts ==
  ASSUME NEW n, NEW d, NEW s, NEW both, NEW w, WantsTexts(n, d, s, both, w)
  PROVE  /\ Len(both) \in Nat /\ Len(s) \in Nat /\ Len(w) = Len(both) + Len(s) /\ DOMAIN s = 1 .. Len(s)
         /\ \A i \in 1 .. Len(w) : w[i] \in Text
         /\ n # Unnamed \/ d # Unnamed => Len(both) >= 1
<1>1. PICK N, D, X : N = Named(n) /\ D = Named(d) /\ X = Text
  OBVIOUS
<1>2. /\ n \in X \union {Unnamed} /\ d \in X \union {Unnamed} /\ s \in Seq(X)
      /\ both = N \o D /\ w = both \o s
  BY <1>1 DEF WantsTexts
<1>3. /\ N \in Seq(X) /\ Len(N) = (IF n = Unnamed THEN 0 ELSE 1)
      /\ D \in Seq(X) /\ Len(D) = (IF d = Unnamed THEN 0 ELSE 1)
  BY <1>1, <1>2 DEF Named
<1>4. both \in Seq(X) /\ Len(both) = Len(N) + Len(D)
  BY <1>2, <1>3, ConcatProperties
<1>5. w \in Seq(X) /\ Len(w) = Len(both) + Len(s)
  BY <1>2, <1>4, ConcatProperties
<1>6. \A i \in 1 .. Len(w) : w[i] \in X
  BY <1>5
<1>7. Len(both) \in Nat /\ Len(s) \in Nat /\ DOMAIN s = 1 .. Len(s)
  BY <1>2, <1>4
<1>8. n # Unnamed \/ d # Unnamed => Len(both) >= 1
  BY <1>3, <1>4
<1> QED
  BY <1>1, <1>5, <1>6, <1>7, <1>8

(* A library's info with names given: texts too, for all that was wanted.        *)
GivenTexts(G, f, l, R) ==
  \E h, y :
    /\ R = [gen |-> h, infos |-> [f EXCEPT ![l] = y]]
    /\ IsGen(h) /\ TypedInfo(y) /\ \A j : Serves(f[l], j) => Serves(y, j)

(* So a library gets them. *)
LEMMA DistributeTyped ==
  ASSUME LiteralsAreStrings, NEW G, IsGen(G), NEW f, DOMAIN f = Libraries, NEW l \in Libraries, TypedInfo(f[l]),
         NEW acc, acc = [gen |-> G, infos |-> f]
  PROVE  GivenTexts(G, f, l, Distribute(acc, l))
<1>1. PICK n, d \in Text \union {Unnamed} : \E s \in Seq(Text) : \E a :
        /\ f[l] = [ns |-> n, default |-> d, names |-> s, alias |-> a]
        /\ \A k \in DOMAIN a : a[k] \in Text
  BY DEF TypedInfo
<1>2. PICK s \in Seq(Text) : \E a : f[l] = [ns |-> n, default |-> d, names |-> s, alias |-> a]
  BY <1>1
<1>3. f[l].ns = n /\ f[l].default = d /\ f[l].names = s
  BY <1>2
<1>4. acc.gen = G /\ acc.infos = f
  OBVIOUS
<1>5. PICK both : both = Named(n) \o Named(d)
  OBVIOUS
<1>6. PICK w, r : w = both \o s /\ r = NextNames(G, w)
  OBVIOUS
<1>8. /\ Len(both) \in Nat /\ Len(s) \in Nat /\ Len(w) = Len(both) + Len(s) /\ DOMAIN s = 1 .. Len(s)
      /\ \A i \in 1 .. Len(w) : w[i] \in Text
      /\ n # Unnamed \/ d # Unnamed => Len(both) >= 1
  <2>1. WantsTexts(n, d, s, both, w)
    BY <1>1, <1>2, <1>5, <1>6 DEF WantsTexts
  <2> QED
    BY <2>1, WantedTexts
<1>9. /\ IsGen(r.gen)
      /\ \A i \in 1 .. Len(w) : r.names[i] \in Text
  <2>1. Len(w) \in Nat
    BY <1>8
  <2>2. r.names \in Seq(Text) /\ Len(r.names) = Len(w) /\ IsGen(r.gen)
    BY <1>6, <1>8, <2>1, NextNamesTyped
  <2>3. PICK X : X = Text
    OBVIOUS
  <2>4. r.names \in Seq(X)
    BY <2>2, <2>3
  <2>5. \A i \in 1 .. Len(w) : r.names[i] \in X
    BY <2>2, <2>4
  <2> QED
    BY <2>2, <2>3, <2>5
<1>10. PICK A : A = {i \in DOMAIN s : G.minify \/ r.names[Len(both) + i] # s[i]}
  OBVIOUS
<1>11. PICK al : al = [x \in {s[i] : i \in A} |-> r.names[Len(both) + Max({i \in A : s[i] = x})]]
  OBVIOUS
<1>12. PICK N, D : /\ N = (IF n = Unnamed THEN Unnamed ELSE r.names[1])
                   /\ D = (IF d = Unnamed THEN Unnamed ELSE r.names[Len(both)])
  OBVIOUS
<1>13. PICK info : info = [ns |-> N, default |-> D, names |-> s, alias |-> al]
  OBVIOUS
<1>14. PICK U : U = [f EXCEPT ![l] = info]
  OBVIOUS
<1>15. Distribute(acc, l) = [gen |-> r.gen, infos |-> U]
  <2>1. Distribute(acc, l) = DistributeOf(G, f, l, n, d, s, both, r)
    <3>1. acc.infos[l].ns = n /\ acc.infos[l].default = d /\ acc.infos[l].names = s
      BY <1>3, <1>4
    <3> QED
      BY <1>4, <1>5, <1>6, <3>1, DistributeReads
  <2>2. DistributeOf(G, f, l, n, d, s, both, r) = [gen |-> r.gen, infos |-> U]
    BY <1>10, <1>11, <1>12, <1>13, <1>14 DEF DistributeOf
  <2> QED
    BY <2>1, <2>2
<1>16. ASSUME NEW x \in DOMAIN al PROVE al[x] \in Text
  <2>1. PICK B : B = {i \in A : s[i] = x}
    OBVIOUS
  <2>2. PICK k : k = Max(B)
    OBVIOUS
  <2>3. B \subseteq DOMAIN s /\ B # {}
    BY <1>10, <1>11, <2>1
  <2>4. k \in B
    BY <1>2, <2>2, <2>3, LatestIs
  <2>5. Len(both) + k \in 1 .. Len(w)
    BY <1>8, <2>3, <2>4
  <2>6. al[x] = r.names[Len(both) + k]
    BY <1>11, <2>1, <2>2
  <2> QED
    BY <1>9, <2>5, <2>6
<1>17. /\ n # Unnamed => N \in Text
       /\ d # Unnamed => D \in Text
       /\ N \in Text \union {Unnamed} /\ D \in Text \union {Unnamed}
  <2>1. n # Unnamed => 1 \in 1 .. Len(w)
    BY <1>8
  <2>2. d # Unnamed => Len(both) \in 1 .. Len(w)
    BY <1>8
  <2>3. (n # Unnamed => N \in Text) /\ (d # Unnamed => D \in Text)
    BY <1>9, <1>12, <2>1, <2>2
  <2> QED
    BY <1>12, <2>3
<1>18. Unnamed \notin Text
  BY DEF Unnamed, Text
<1>19. TypedInfo(info)
  BY <1>2, <1>13, <1>16, <1>17 DEF TypedInfo
<1>20. info.ns = N /\ info.default = D
  BY <1>13
<1>21. \A j : Serves(f[l], j) => Serves(info, j)
  BY <1>3, <1>17, <1>18, <1>20 DEF Serves
<1> QED
  BY <1>9, <1>14, <1>15, <1>19, <1>21 DEF GivenTexts

(* What libraries have while their names are given.                            *)
TextGiven(f0, R) ==
  /\ \E g, f : R = [gen |-> g, infos |-> f]
  /\ IsGen(R.gen) /\ DOMAIN R.infos = Libraries /\ \A l \in Libraries : TypedInfo(R.infos[l])
  /\ \A l \in Libraries : \A j : Serves(f0[l], j) => Serves(R.infos[l], j)

(* One library more. *)
LEMMA DistributeOneTyped ==
  ASSUME LiteralsAreStrings, NEW f0, NEW acc, TextGiven(f0, acc), NEW l \in Libraries
  PROVE  TextGiven(f0, Distribute(acc, l))
<1>1. PICK G, f : acc = [gen |-> G, infos |-> f]
  BY DEF TextGiven
<1>2. acc.gen = G /\ acc.infos = f
  BY <1>1
<1>3. /\ IsGen(G) /\ DOMAIN f = Libraries /\ (\A k \in Libraries : TypedInfo(f[k]))
      /\ \A k \in Libraries : \A j : Serves(f0[k], j) => Serves(f[k], j)
  BY <1>2 DEF TextGiven
<1>4. GivenTexts(G, f, l, Distribute(acc, l))
  BY <1>1, <1>3, DistributeTyped
<1>5. PICK h, y : /\ Distribute(acc, l) = [gen |-> h, infos |-> [f EXCEPT ![l] = y]]
                  /\ IsGen(h) /\ TypedInfo(y) /\ \A j : Serves(f[l], j) => Serves(y, j)
  BY <1>4 DEF GivenTexts
<1>6. PICK R, U : R = Distribute(acc, l) /\ U = [f EXCEPT ![l] = y]
  OBVIOUS
<1>7. R = [gen |-> h, infos |-> U]
  BY <1>5, <1>6
<1>8. R.gen = h /\ R.infos = U
  BY <1>7
<1>9. \E g, c : R = [gen |-> g, infos |-> c]
  BY <1>7
<1>10. DOMAIN U = Libraries /\ U[l] = y /\ \A k \in Libraries \ {l} : U[k] = f[k]
  BY <1>3, <1>6
<1>11. \A k \in Libraries : TypedInfo(U[k]) /\ \A j : Serves(f0[k], j) => Serves(U[k], j)
  BY <1>3, <1>5, <1>10
<1>12. TextGiven(f0, R)
  BY <1>5, <1>8, <1>9, <1>10, <1>11 DEF TextGiven
<1> QED
  BY <1>6, <1>12

(* And so all. *)
LEMMA DistributedTyped ==
  ASSUME LiteralsAreStrings, IsGen(gen), NEW acc0, NEW w, NEW j, TextHeard(w, j, acc0)
  PROVE  TextGiven(acc0.infos, Distributed(acc0))
<1>1. PICK n, ids : ids = acc0.ids /\ n = Len(ids)
  OBVIOUS
<1>2. n \in Nat /\ \A k \in 1 .. n : ids[k] \in Libraries
  BY <1>1 DEF TextHeard
<1>3. PICK h : DistributeSteps(acc0, n, h) /\ Distributed(acc0) = h[n]
  BY <1>1, <1>2, DistributedSteps
<1>4. TextGiven(acc0.infos, h[0])
  <2>1. PICK G, f : G = gen /\ f = acc0.infos
    OBVIOUS
  <2>2. PICK r : r = h[0]
    OBVIOUS
  <2>3. r = [gen |-> G, infos |-> f]
    BY <1>3, <2>1, <2>2 DEF DistributeSteps, NoneDistributed
  <2>4. r.gen = G /\ r.infos = f
    BY <2>3
  <2>5. \E g, c : r = [gen |-> g, infos |-> c]
    BY <2>3
  <2>6. DOMAIN f = Libraries /\ \A l \in Libraries : TypedInfo(f[l])
    BY <2>1 DEF TextHeard
  <2>7. TextGiven(f, r)
    BY <2>1, <2>4, <2>5, <2>6 DEF TextGiven
  <2> QED
    BY <2>1, <2>2, <2>7
<1> DEFINE T == {k \in Nat : k <= n => TextGiven(acc0.infos, h[k])}
<1>5. ASSUME NEW k \in Nat, \A i \in 0 .. k - 1 : i \in T PROVE k \in T
  <2>1. CASE k = 0
    BY <1>4, <2>1
  <2>2. CASE k > n
    BY <1>2, <2>2
  <2>3. CASE k # 0 /\ k <= n
    <3>1. k - 1 \in 0 .. k - 1 /\ k - 1 <= n /\ k \in 1 .. n
      BY <1>2, <2>3
    <3>2. TextGiven(acc0.infos, h[k - 1])
      BY <1>5, <3>1
    <3>3. h[k] = Distribute(h[k - 1], ids[k])
      BY <1>1, <1>3, <3>1 DEF DistributeSteps
    <3>4. TextGiven(acc0.infos, h[k])
      BY <1>2, <3>1, <3>2, <3>3, DistributeOneTyped
    <3> QED
      BY <3>4
  <2> QED
    BY <1>2, <2>1, <2>2, <2>3
<1>6. T \in SUBSET Nat
  OBVIOUS
<1>7. T = Nat
  <2> HIDE DEF T
  <2> QED
    BY <1>5, <1>6, StrongInduction
<1>8. n \in T
  BY <1>2, <1>7
<1> QED
  BY <1>2, <1>3, <1>8

(* The declarations arrive as texts. *)
LEMMA TextsArrive ==
  ASSUME LiteralsAreStrings, CInv, NEW arrival \in Arrivals
  PROVE  \E n \in Nat : n = Len(Arrived(arrival)) /\ \A k \in 1 .. n : TextImport(Arrived(arrival)[k])
<1>1. PICK n : n = Cardinality(LibraryImports)
  OBVIOUS
<1>2. n \in Nat /\ DOMAIN arrival = 1 .. n /\ \A i \in 1 .. n : arrival[i] \in LibraryImports
  BY <1>1, LibraryImportsFinite, OrderCovers DEF Arrivals
<1>3. PICK w : w = Arrived(arrival)
  OBVIOUS
<1>4. /\ DOMAIN w = 1 .. n
      /\ \A k \in 1 .. n : w[k] = prog.imports[arrival[k][1]][arrival[k][2]]
  BY <1>2, <1>3 DEF Arrived
<1>5. Len(w) = n
  <2>1. \E x : w = [k \in 1 .. n |-> prog.imports[arrival[k][1]][arrival[k][2]]]
    BY <1>2, <1>3 DEF Arrived
  <2> QED
    BY <1>2, <2>1
<1>6. ASSUME NEW k \in 1 .. n PROVE TextImport(w[k])
  <2>1. PICK m, j : m = arrival[k][1] /\ j = arrival[k][2]
    OBVIOUS
  <2>2. m \in Modules /\ j \in DOMAIN prog.imports[m] /\ prog.imports[m][j].from \in Libraries
    BY <1>2, <2>1, LibraryImportsFinite
  <2>3. PICK s, i : s = prog.imports[m] /\ i = s[j]
    OBVIOUS
  <2>4. i \in ToSet(s)
    BY <2>2, <2>3 DEF ToSet
  <2>5. i.source \in Names \union {DefaultName, Star} /\ i.local \in Names
    <3>1. PICK X : X = [from : Modules \union Libraries, source : Exportable \union {Star}, local : Names]
      OBVIOUS
    <3>2. s \in Seq(X) /\ j \in DOMAIN s
      BY <2>2, <2>3, <3>1, ProgramIs DEF IsProgram
    <3>3. s[j] \in X
      BY <3>2
    <3> QED
      BY <2>3, <3>1, <3>3 DEF Exportable
  <2>6. w[k] = i
    BY <1>4, <2>1, <2>3
  <2> QED
    BY <2>2, <2>3, <2>5, <2>6, SourceTexts DEF TextImport
<1> QED
  BY <1>2, <1>3, <1>5, <1>6

(* The infos of libraries have texts, and from roots on serve all imports.       *)
LibInv ==
  /\ DOMAIN external = Libraries /\ \A l \in Libraries : TypedInfo(external[l])
  /\ stage \in {"roots", "imports", "done", "failed"} =>
       \A m \in Modules : \A i \in ToSet(prog.imports[m]) : i.from \in Libraries => Serves(external[i.from], i)

(* GenAst gives the names of libraries. *)
LEMMA TypedGenAst ==
  ASSUME LiteralsAreStrings, CInv, IsGen(gen), LibInv, GenAst
  PROVE  IsGen(gen') /\ LibInv'
<1>1. prog' = prog
  BY DEF GenAst
<1>2. PICK arrival \in Arrivals : /\ gen' = Distributed(Handled(Arrived(arrival))).gen
                                  /\ external' = Distributed(Handled(Arrived(arrival))).infos
  BY DEF GenAst, Arrived
<1>3. PICK w, acc0, R : w = Arrived(arrival) /\ acc0 = Handled(w) /\ R = Distributed(acc0)
  OBVIOUS
<1>4. PICK n \in Nat : n = Len(w) /\ \A k \in 1 .. n : TextImport(w[k])
  BY <1>3, TextsArrive
<1>5. TextHeard(w, n, acc0)
  BY <1>3, <1>4, HandledTyped DEF LibInv
<1>6. TextGiven(acc0.infos, R)
  BY <1>3, <1>5, DistributedTyped
<1>7. IsGen(R.gen) /\ DOMAIN R.infos = Libraries /\ \A l \in Libraries : TypedInfo(R.infos[l])
  BY <1>6 DEF TextGiven
<1>8. ASSUME NEW m \in Modules, NEW i \in ToSet(prog.imports[m]), i.from \in Libraries
      PROVE  Serves(R.infos[i.from], i)
  <2>1. PICK k \in 1 .. n : w[k] = i
    BY <1>3, <1>4, <1>8, AllArrive
  <2>2. Serves(acc0.infos[i.from], i)
    BY <1>5, <2>1 DEF TextHeard
  <2> QED
    BY <1>6, <1>8, <2>2 DEF TextGiven
<1>9. gen' = R.gen /\ external' = R.infos
  BY <1>2, <1>3
<1>10. \A x, i : Serves(x, i)' <=> Serves(x', i')
  BY DEF Serves
<1>11. \A m \in Modules : \A i \in ToSet(prog'.imports[m]) : i.from \in Libraries => Serves(external'[i.from], i)
  BY <1>1, <1>8, <1>9
<1>12. DOMAIN external' = Libraries /\ \A l \in Libraries : TypedInfo(external'[l])
  BY <1>7, <1>9
<1> QED
  BY <1>7, <1>9, <1>11, <1>12 DEF LibInv, Serves, TypedInfo

(* What a search finds is in a module's table of exports.                      *)
LEMMA FoundIs ==
  ASSUME CInv, MInv, NEW q \in Queries
  PROVE  Find[q].info = NotFound \/ \E r \in Modules : \E e \in DOMAIN sym.local[r] : Find[q].info = <<r, e>>
<1> DEFINE Got(p) == \/ Find[p].info = NotFound
                     \/ \E r \in Modules : \E e \in DOMAIN sym.local[r] : Find[p].info = <<r, e>>
           T == {n \in Nat : \A p \in Queries : Left(p) = n => Got(p)}
<1>1. ASSUME NEW n \in Nat, \A j \in 0 .. n - 1 : j \in T PROVE n \in T
  <2> SUFFICES ASSUME NEW p \in Queries, Left(p) = n PROVE Got(p)
    OBVIOUS
  <2>1. p[1] \in Modules
    BY LeftIs
  <2>2. \A s \in Queries : Left(s) < n => Got(s)
    <3>1. ASSUME NEW s \in Queries, Left(s) < n PROVE Got(s)
      <4>1. Left(s) \in 0 .. n - 1
        BY <3>1, LeftIs
      <4>2. Left(s) \in T
        BY <1>1, <4>1
      <4> QED
        BY <4>2
    <3> QED
      BY <3>1
  <2>3. Find[p] = Body(Find, p)
    BY FindIs
  <2>4. CASE p[1] \in p[3]
    <3>1. Find[p].info = NotFound
      BY <2>3, <2>4 DEF Body
    <3> QED
      BY <3>1
  <2>5. CASE p[1] \notin p[3] /\ p[2] \in DOMAIN sym.local[p[1]]
    <3>1. Find[p].info = <<p[1], p[2]>>
      BY <2>3, <2>5 DEF Body
    <3> QED
      BY <2>1, <2>5, <3>1
  <2>6. CASE p[1] \notin p[3] /\ p[2] \notin DOMAIN sym.local[p[1]]
    <3>1. \/ Find[p].info = NotFound
          \/ \E s \in Queries : \E d : Leads(p[1], p[2], d, s) /\ Left(s) < Left(p) /\ Find[p].info = Find[s].info
      BY <2>6, FindLeads
    <3>2. CASE Find[p].info = NotFound
      BY <3>2
    <3>3. CASE Find[p].info # NotFound
      <4>1. PICK s \in Queries : Left(s) < n /\ Find[p].info = Find[s].info
        BY <3>1, <3>3
      <4>2. Got(s)
        BY <2>2, <4>1
      <4> QED
        BY <4>1, <4>2
    <3> QED
      BY <3>2, <3>3
  <2> QED
    BY <2>4, <2>5, <2>6
<1>2. T = Nat
  <2>1. T \in SUBSET Nat
    OBVIOUS
  <2> HIDE DEF T
  <2> QED
    BY <1>1, <2>1, StrongInduction
<1>3. Left(q) \in T
  BY <1>2, LeftIs
<1> QED
  BY <1>3

(* An import of a library is given a text.                                     *)
LEMMA ExternalTyped ==
  ASSUME LibInv, stage = "imports", NEW m \in Modules, NEW i \in ToSet(prog.imports[m]), i.from \in Libraries,
         NEW S, S.name[<<m, i.local>>] \in Text
  PROVE  ExternalName(S, m, i) \in Text
<1>1. PICK x, now : x = external[i.from] /\ now = S.name[<<m, i.local>>]
  OBVIOUS
<1>2. TypedInfo(x) /\ Serves(x, i) /\ now \in Text
  BY <1>1 DEF LibInv
<1>3. PICK n, d \in Text \union {Unnamed} : \E s \in Seq(Text) : \E a :
        /\ x = [ns |-> n, default |-> d, names |-> s, alias |-> a]
        /\ \A k \in DOMAIN a : a[k] \in Text
  BY <1>2 DEF TypedInfo
<1>4. PICK s \in Seq(Text) : \E a :
        /\ x = [ns |-> n, default |-> d, names |-> s, alias |-> a]
        /\ \A k \in DOMAIN a : a[k] \in Text
  BY <1>3
<1>5. PICK a : x = [ns |-> n, default |-> d, names |-> s, alias |-> a] /\ \A k \in DOMAIN a : a[k] \in Text
  BY <1>4
<1>6. x.ns = n /\ x.default = d /\ x.alias = a
  BY <1>5
<1>7. Star # DefaultName
  BY DEF Star, DefaultName
<1>8. PICK R : R = ExternalName(S, m, i)
  OBVIOUS
<1>9. R = CASE i.source = Star -> x.ns
            [] i.source = DefaultName -> x.default
            [] OTHER -> IF now \in DOMAIN x.alias THEN x.alias[now] ELSE now
  BY <1>1, <1>8 DEF ExternalName
<1>10. CASE i.source = Star
  <2>1. R = n /\ n # Unnamed
    BY <1>2, <1>6, <1>7, <1>9, <1>10 DEF Serves
  <2> QED
    BY <1>3, <1>8, <2>1
<1>11. CASE i.source = DefaultName
  <2>1. R = d /\ d # Unnamed
    BY <1>2, <1>6, <1>7, <1>9, <1>11 DEF Serves
  <2> QED
    BY <1>3, <1>8, <2>1
<1>12. CASE i.source # Star /\ i.source # DefaultName
  <2>1. R = IF now \in DOMAIN a THEN a[now] ELSE now
    BY <1>6, <1>9, <1>12
  <2> QED
    BY <1>2, <1>5, <1>8, <2>1
<1> QED
  BY <1>10, <1>11, <1>12

(* One import declaration is replaced by texts. *)
LEMMA ReplaceTyped ==
  ASSUME CInv, MInv, TabInv, LibInv, stage = "imports", NEW m \in Modules, NEW i \in ToSet(prog.imports[m]),
         NEW acc, IsResult(acc), Typed(acc.sym, {})
  PROVE  IsResult(ReplaceImport(m, acc, i)) /\ Typed(ReplaceImport(m, acc, i).sym, {})
<1>1. PICK S, g : \E ok \in BOOLEAN : acc = [sym |-> S, getters |-> g, ok |-> ok]
  BY DEF IsResult
<1>2. PICK ok \in BOOLEAN : acc = [sym |-> S, getters |-> g, ok |-> ok]
  BY <1>1
<1>3. acc.sym = S /\ acc.getters = g /\ acc.ok = ok
  BY <1>2
<1>4. PICK now : now = S.name[<<m, i.local>>]
  OBVIOUS
<1>5. PICK R, rest, found, lib, own :
        /\ R = ReplaceImport(m, acc, i)
        /\ rest = g \union {[of |-> i.from, export |-> e, name |-> S.local[i.from][e]] :
                              e \in DOMAIN S.local[i.from]}
        /\ found = FindLocalExport(i.from, i.source)
        /\ lib = ExternalName(S, m, i) /\ own = S.local[found[1]][found[2]]
  OBVIOUS
<1>6. PICK A, B : A = RenameInModule(S, m, [o \in {now} |-> lib]) /\ B = RenameInModule(S, m, [o \in {now} |-> own])
  OBVIOUS
<1>7. R = CASE ~ ok -> acc
            [] ok /\ i.from \in Libraries ->
                 IF Owned(S, m, now) THEN [acc EXCEPT !.sym = A] ELSE acc
            [] ok /\ i.from \in Modules /\ i.source = Star ->
                 IF Owned(S, m, now) THEN [acc EXCEPT !.getters = rest] ELSE acc
            [] OTHER -> IF found = NotFound \/ ~ Owned(S, m, now) THEN [acc EXCEPT !.ok = FALSE]
                        ELSE [acc EXCEPT !.sym = B]
  BY ONLY <1>3, <1>4, <1>5, <1>6 DEF ReplaceImport
<1>8. Typed(S, {}) /\ Tabled(S)
  BY <1>3 DEF Typed
<1>9. now \in Text
  <2>1. <<m, i.local>> \in OwnVars(m) /\ m \in Scopes
    BY ListsAre DEF OwnVars, Scopes
  <2>2. <<m, i.local>> \in DOMAIN S.name
    BY <1>8, <2>1 DEF Tabled, IsTables, IsSym
  <2> QED
    BY <1>4, <1>8, <2>2 DEF Typed
<1>10. i.from \in Libraries => Typed(A, {})
  <2>1. i.from \in Libraries => lib \in Text
    BY <1>4, <1>5, <1>9, ExternalTyped
  <2> SUFFICES ASSUME i.from \in Libraries PROVE Typed(A, {})
    OBVIOUS
  <2>2. lib \in Text
    BY <2>1
  <2>3. PICK ren : ren = [o \in {now} |-> lib]
    OBVIOUS
  <2>4. \A y \in DOMAIN ren : ren[y] \in Text
    BY <2>2, <2>3
  <2>5. Typed(RenameInModule(S, m, ren), {})
    BY <1>8, <2>4, ModuleTyped
  <2> QED
    BY <1>6, <2>3, <2>5
<1>11. i.from \in Modules /\ i.source # Star /\ found # NotFound => Typed(B, {})
  <2> SUFFICES ASSUME i.from \in Modules, i.source # Star, found # NotFound PROVE Typed(B, {})
    OBVIOUS
  <2>1. PICK q : q = <<i.from, i.source, {}>>
    OBVIOUS
  <2>2. q \in Queries
    BY <2>1, ListsAre DEF Queries
  <2>3. Find[q].info = found
    BY <1>5, <2>1 DEF FindLocalExport
  <2>4. PICK r \in Modules : \E x \in DOMAIN sym.local[r] : found = <<r, x>>
    BY <2>2, <2>3, FoundIs
  <2>7. PICK e \in DOMAIN sym.local[r] : found = <<r, e>>
    BY <2>4
  <2>5. e \in DOMAIN S.local[r] /\ own = S.local[r][e]
    BY <1>5, <1>8, <2>7 DEF TabInv, Tabled
  <2>6. own \in Text
    BY <1>8, <2>5 DEF Typed
  <2>8. PICK ren : ren = [o \in {now} |-> own]
    OBVIOUS
  <2>9. \A y \in DOMAIN ren : ren[y] \in Text
    BY <2>6, <2>8
  <2>10. Typed(RenameInModule(S, m, ren), {})
    BY <1>8, <2>9, ModuleTyped
  <2> QED
    BY <1>6, <2>8, <2>10
<1>12. PICK no \in BOOLEAN : no = FALSE
  OBVIOUS
<1>13. \/ R = [sym |-> S, getters |-> g, ok |-> ok] \/ R = [sym |-> S, getters |-> rest, ok |-> ok]
       \/ R = [sym |-> S, getters |-> g, ok |-> no]
       \/ R = [sym |-> A, getters |-> g, ok |-> ok] /\ i.from \in Libraries
       \/ R = [sym |-> B, getters |-> g, ok |-> ok] /\ i.from \in Modules /\ i.source # Star /\ found # NotFound
  <2>1. CASE ~ ok
    <3>1. R = acc
      BY <1>7, <2>1
    <3> QED
      BY <1>2, <3>1
  <2>2. CASE ok /\ i.from \in Libraries
    <3>1. i.from \notin Modules
      BY <2>2, LinkerAssumption
    <3>2. R = acc \/ R = [acc EXCEPT !.sym = A]
      BY <1>7, <2>2, <3>1
    <3> QED
      BY <1>2, <2>2, <3>2, ResultFields
  <2>3. CASE ok /\ i.from \notin Libraries /\ i.source = Star
    <3>1. R = acc \/ R = [acc EXCEPT !.getters = rest]
      BY <1>7, <2>3, ListsAre
    <3> QED
      BY <1>2, <3>1, ResultFields
  <2>4. CASE ok /\ i.from \notin Libraries /\ i.source # Star
    <3>1. R = [acc EXCEPT !.ok = FALSE] \/ (R = [acc EXCEPT !.sym = B] /\ found # NotFound)
      BY <1>7, <2>4
    <3>2. i.from \in Modules
      BY <2>4, ListsAre
    <3> QED
      BY <1>2, <1>12, <2>4, <3>1, <3>2, ResultFields
  <2> QED
    BY <2>1, <2>2, <2>3, <2>4
<1>14. ASSUME NEW U, NEW h, NEW o \in BOOLEAN, R = [sym |-> U, getters |-> h, ok |-> o], Typed(U, {})
       PROVE  IsResult(R) /\ Typed(R.sym, {})
  <2>1. R.sym = U
    BY <1>14
  <2>2. IsResult(R)
    BY <1>14 DEF IsResult
  <2> QED
    BY <1>14, <2>1, <2>2
<1>15. IsResult(R) /\ Typed(R.sym, {})
  BY <1>8, <1>10, <1>11, <1>12, <1>13, <1>14
<1> QED
  BY <1>5, <1>15

(* So are all of a module. *)
LEMMA ReplacedTyped ==
  ASSUME CInv, MInv, TabInv, LibInv, stage = "imports", NEW m \in Modules, Typed(sym, {})
  PROVE  Typed(Replaced(m).sym, {})
<1>1. PICK s : s = prog.imports[m]
  OBVIOUS
<1>2. s \in Seq([from : Modules \union Libraries, source : Exportable \union {Star}, local : Names])
  BY <1>1, ProgramIs DEF IsProgram
<1>3. PICK n \in Nat : n = Len(s) /\ DOMAIN s = 1 .. n
  BY <1>2
<1>4. PICK h : ReplaceSteps(m, n, h) /\ Replaced(m) = h[n]
  BY <1>1, <1>3, ReplacedSteps
<1> DEFINE Ok(k) == IsResult(h[k]) /\ Typed(h[k].sym, {})
           T == {k \in Nat : k <= n => Ok(k)}
<1>5. ASSUME NEW k \in Nat, \A j \in 0 .. k - 1 : j \in T PROVE k \in T
  <2> SUFFICES ASSUME k <= n PROVE Ok(k)
    OBVIOUS
  <2>1. CASE k = 0
    <3>1. PICK yes \in BOOLEAN : yes = TRUE
      OBVIOUS
    <3>2. PICK S : S = sym
      OBVIOUS
    <3>3. h[0] = [sym |-> S, getters |-> getters, ok |-> yes]
      BY <1>4, <3>1, <3>2 DEF ReplaceSteps, Start
    <3>4. h[0].sym = S
      BY <3>3
    <3>5. IsResult(h[0])
      BY <3>3, Zenon DEF IsResult
    <3> QED
      BY <2>1, <3>2, <3>4, <3>5
  <2>2. CASE k # 0
    <3>1. k - 1 \in 0 .. k - 1 /\ k \in 1 .. n /\ k - 1 <= n
      BY <2>2
    <3>2. Ok(k - 1)
      <4>1. k - 1 \in T
        BY <1>5, <3>1
      <4> QED
        BY <3>1, <4>1
    <3>3. PICK a, i : a = h[k - 1] /\ i = s[k]
      OBVIOUS
    <3>4. i \in ToSet(prog.imports[m])
      BY <1>1, <1>3, <3>1, <3>3 DEF ToSet
    <3>5. h[k] = ReplaceImport(m, a, i)
      BY <1>1, <1>4, <3>1, <3>3 DEF ReplaceSteps
    <3> QED
      BY <3>2, <3>3, <3>4, <3>5, ReplaceTyped
  <2> QED
    BY <2>1, <2>2
<1>6. T = Nat
  <2>1. T \in SUBSET Nat
    OBVIOUS
  <2> HIDE DEF T
  <2> QED
    BY <1>5, <2>1, StrongInduction
<1>7. Ok(n)
  BY <1>6
<1> QED
  BY <1>4, <1>7

(* The modules whose export default has no name yet: those RenameRoot is still   *)
(* to come to.                                                               *)
Undefaulted == IF stage \in Unlinked THEN Modules \ Walked ELSE {}
YInv == IsGen(gen) /\ Typed(sym, Undefaulted) /\ LibInv

(* What is said of the next tables can be said of them in this state. *)
LEMMA TypedStays ==
  ASSUME prog' = prog, NEW W, Undefaulted' = W, Typed(sym', W)
  PROVE  Typed(sym, Undefaulted)'
<1>1. Tabled(sym)' <=> Tabled(sym')
  BY TabNext DEF TabInv
<1>2. \A m : HasDefault(m)' <=> HasDefault(m)
  BY DEF HasDefault
<1> QED
  BY <1>1, <1>2 DEF Typed

(* ... and of libraries. *)
LEMMA LibStays ==
  ASSUME LibInv, prog' = prog, external' = external,
         stage' \in {"roots", "imports", "done", "failed"} => stage \in {"roots", "imports", "done", "failed"}
  PROVE  LibInv'
BY DEF LibInv, Serves, TypedInfo

(* The names that a scope's variables are given are texts. *)
LEMMA GivenTyped ==
  ASSUME LiteralsAreStrings, NEW T, NEW W, Typed(T, W), NEW s \in Scopes, IsFiniteSet(T.own[s]),
         NEW order \in SetToSeqs(T.own[s]), NEW g, IsGen(g), NEW r, r = NextNames(g, Wanted(T, order))
  PROVE  /\ IsGen(r.gen)
         /\ \A x \in DOMAIN Changes(T, order, r.names) : Changes(T, order, r.names)[x] \in Text
<1>1. PICK S, n : S = T.own[s] /\ n = Cardinality(S)
  OBVIOUS
<1>2. n \in Nat /\ DOMAIN order = 1 .. n /\ \A i \in 1 .. n : order[i] \in S
  BY <1>1, OrderCovers
<1>3. PICK w : w = Wanted(T, order)
  OBVIOUS
<1>4. Len(w) = n
  BY <1>1, <1>3, OrderOf
<1>5. ASSUME NEW i \in 1 .. Len(w) PROVE w[i] \in Text
  <2>1. w[i] = T.name[order[i]]
    BY <1>2, <1>3, <1>4 DEF Wanted
  <2>2. order[i] \in DOMAIN T.name
    BY <1>1, <1>2, <1>4 DEF Typed, Tabled, IsTables, IsSym
  <2> QED
    BY <2>1, <2>2 DEF Typed
<1>6. r.names \in Seq(Text) /\ Len(r.names) = n /\ IsGen(r.gen)
  BY <1>2, <1>3, <1>4, <1>5, NextNamesTyped
<1>7. PICK ren : ren = Changes(T, order, r.names)
  OBVIOUS
<1>8. \A x \in DOMAIN ren : ren[x] \in Text
  BY <1>2, <1>6, <1>7, ChangesTyped
<1> QED
  BY <1>6, <1>7, <1>8

(* Renaming the scopes inside modules. *)
LEMMA YInner ==
  ASSUME LiteralsAreStrings, CInv, SInv, YInv, NEW s \in Inner, RenameInner(s)
  PROVE  Typed(sym', Undefaulted)
<1>1. PICK order \in SetToSeqs(sym.own[s]) : \E r :
        /\ r = NextNames(ChildGenerator(s), Wanted(sym, order))
        /\ sym' = RenameIn(sym, s, Changes(sym, order, r.names))
  BY DEF RenameInner
<1>2. PICK r : /\ r = NextNames(ChildGenerator(s), Wanted(sym, order))
               /\ sym' = RenameIn(sym, s, Changes(sym, order, r.names))
  BY <1>1
<1>3. IsGen(ChildGenerator(s))
  BY ChildGeneratorIs DEF RenameInner
<1>4. s \in Scopes
  BY DEF Scopes
<1>5. IsFiniteSet(sym.own[s])
  BY DEF CInv, RenameInner
<1>6. PICK T, W : T = sym /\ W = Undefaulted
  OBVIOUS
<1>7. Typed(T, W)
  BY <1>6 DEF YInv
<1>8. PICK ren : ren = Changes(T, order, r.names)
  OBVIOUS
<1>9. \A x \in DOMAIN ren : ren[x] \in Text
  BY <1>2, <1>3, <1>4, <1>5, <1>6, <1>7, <1>8, GivenTyped
<1>10. Typed(RenameIn(T, s, ren), W)
  BY <1>7, <1>9, ScopeTyped
<1> QED
  BY <1>2, <1>6, <1>8, <1>10

(* Renaming the variables of a module, and naming its export default. *)
LEMMA YRoot ==
  ASSUME LiteralsAreStrings, CInv, WInv, SInv, YInv, RenameRoot, NEW m, m = Last(stack)
  PROVE  IsGen(gen') /\ Typed(sym', Undefaulted \ {m})
<1>1. stage = "roots" /\ m \in Modules \ Walked
  BY RootTables DEF RenameRoot
<1>2. sym.own[m] = OwnVars(m) /\ IsFiniteSet(OwnVars(m)) /\ m \in Scopes
  BY <1>1, ProgramIs DEF SInv, Untouched
<1>3. PICK order \in SetToSeqs(sym.own[m]) : \E r, T, d :
        /\ r = NextNames(gen, Wanted(sym, order))
        /\ T = RenameInModule(sym, m, Changes(sym, order, r.names))
        /\ d = NextName(r.gen, <<"_default">>)
        /\ IF HasDefault(m) THEN sym' = AddDefault(T, m, d.name) /\ gen' = d.gen
                            ELSE sym' = T /\ gen' = r.gen
  BY DEF RenameRoot
<1>4. PICK r, T, d :
        /\ r = NextNames(gen, Wanted(sym, order))
        /\ T = RenameInModule(sym, m, Changes(sym, order, r.names))
        /\ d = NextName(r.gen, <<"_default">>)
        /\ IF HasDefault(m) THEN sym' = AddDefault(T, m, d.name) /\ gen' = d.gen
                            ELSE sym' = T /\ gen' = r.gen
  BY <1>3
<1>5. PICK S, W, g : S = sym /\ W = Undefaulted /\ g = gen
  OBVIOUS
<1>6. Typed(S, W) /\ IsGen(g)
  BY <1>5 DEF YInv
<1>7. PICK ren : ren = Changes(S, order, r.names)
  OBVIOUS
<1>8. IsGen(r.gen) /\ \A x \in DOMAIN ren : ren[x] \in Text
  BY <1>2, <1>4, <1>5, <1>6, <1>7, GivenTyped
<1>9. Typed(T, W)
  <2>1. Typed(RenameInModule(S, m, ren), W)
    BY <1>1, <1>6, <1>8, ModuleTyped
  <2> QED
    BY <1>4, <1>5, <1>7, <2>1
<1>10. IsGen(d.gen) /\ d.name \in Text
  <2>1. <<"_default">> \in Text
    BY SourceTexts
  <2>2. PICK n \in Text : n = <<"_default">>
    BY <2>1
  <2> QED
    BY <1>4, <1>8, <2>2, NextNameKeeps, NextNameTyped
<1>11. PICK U : U = IF HasDefault(m) THEN AddDefault(T, m, d.name) ELSE T
  OBVIOUS
<1>12. Typed(U, W \ {m})
  BY <1>1, <1>9, <1>10, <1>11, DefaultTyped
<1>13. sym' = U /\ IsGen(gen')
  BY <1>4, <1>8, <1>10, <1>11
<1> QED
  BY <1>5, <1>12, <1>13

(* It holds at the start, ... *)
LEMMA YInit ==
  ASSUME LiteralsAreStrings, Init
  PROVE  YInv
<1>1. /\ stage = "collect" /\ visited = {} /\ external = [l \in Libraries |-> NoImports]
      /\ gen = Called(prog).gen /\ CInv /\ Typed(sym, Modules)
  BY CInit, TypedInit DEF Init
<1>2. IsGen(gen)
  <2>1. PICK g, w : g = [minify |-> prog.minify, used |-> {}, counter |-> 0] /\ w = prog.calls
    OBVIOUS
  <2>2. IsProgram(prog)
    BY <1>1, ProgramIs
  <2>3. prog.minify \in BOOLEAN /\ IsFiniteSet({})
    BY <2>2, FS_EmptySet DEF IsProgram
  <2>4. IsGen(g)
    BY <2>1, <2>3 DEF IsGen
  <2>5. w \in Seq(Names)
    BY <2>1, <2>2 DEF IsProgram
  <2>6. Len(w) \in Nat
    BY <2>5
  <2>7. gen = NextNames(g, w).gen
    BY <1>1, <2>1 DEF Called
  <2> QED
    BY <2>4, <2>6, <2>7, NextNamesKeep
<1>3. Undefaulted = Modules
  BY <1>1 DEF Undefaulted, Unlinked, Walked
<1>4. TypedInfo(NoImports)
  <2>1. <<>> \in Seq(Text) /\ \A k \in DOMAIN <<>> : <<>>[k] \in Text
    OBVIOUS
  <2> QED
    BY <2>1 DEF TypedInfo, NoImports
<1>5. LibInv
  BY <1>1, <1>4 DEF LibInv
<1> QED
  BY <1>1, <1>2, <1>3, <1>5 DEF YInv

(* The generators of the scopes inside modules, merged, are one. *)
LEMMA MergedIsGen ==
  ASSUME CInv, SInv, MergeGenerators
  PROVE  IsGen(gen')
<1>1. stage = "inner" /\ AllRenamed /\ gen' = RootGenerator
  BY DEF MergeGenerators
<1>2. PICK c, u : u = Globals /\ c = Max({0} \union {counters[s] : s \in Inner})
  OBVIOUS
<1>3. gen' = [minify |-> TRUE, used |-> u, counter |-> c]
  BY <1>1, <1>2 DEF RootGenerator, Merge
<1>4. c \in Nat
  <2>1. PICK S : S = {counters[s] : s \in Inner}
    OBVIOUS
  <2>2. IsFiniteSet(S)
    <3>1. DOMAIN counters = Inner /\ IsFiniteSet(Inner)
      BY LinkerAssumption DEF CInv
    <3> QED
      BY <2>1, <3>1, FiniteImage
  <2>3. S \subseteq Nat
    BY <1>1, <2>1 DEF CInv, AllRenamed
  <2>4. IsFiniteSet({0} \union S)
    BY <2>2, FS_Singleton, FS_Union
  <2>5. {0} \union S \in SUBSET Nat /\ {0} \union S # {}
    BY <2>3
  <2>6. Max({0} \union S) \in {0} \union S
    BY <2>4, <2>5, Greatest
  <2> QED
    BY <1>2, <2>1, <2>5, <2>6
<1>5. IsFiniteSet(u)
  <2>1. Globals \subseteq Names
    BY ProgramIs DEF Globals, IsProgram
  <2> QED
    BY <1>2, <2>1, LinkerAssumption, FS_Subset
<1> QED
  BY <1>3, <1>4, <1>5 DEF IsGen

(* ... and every step keeps it. *)
LEMMA YStep ==
  ASSUME LiteralsAreStrings, CInv, WInv, SInv, MInv, TabInv, YInv, [Next]_vars
  PROVE  YInv'
<1>1. prog' = prog
  BY ProgramStays
<1>2. IsGen(gen) /\ Typed(sym, Undefaulted) /\ LibInv
  BY DEF YInv
<1>3. ASSUME IsGen(gen'), LibInv', NEW W, Undefaulted' = W, Typed(sym', W) PROVE YInv'
  BY <1>1, <1>3, TypedStays DEF YInv
<1>4. ASSUME UNCHANGED <<sym, external>>, IsGen(gen'), Undefaulted' = Undefaulted,
             stage' \in {"roots", "imports", "done", "failed"} => stage \in {"roots", "imports", "done", "failed"}
      PROVE  YInv'
  <2>1. LibInv'
    BY <1>1, <1>2, <1>4, LibStays
  <2>2. Typed(sym', Undefaulted)
    BY <1>2, <1>4
  <2> QED
    BY <1>3, <1>4, <2>1, <2>2
<1>5. CASE UNCHANGED vars
  <2>1. UNCHANGED <<stage, visited, stack, gen, sym, external>>
    BY <1>5 DEF vars
  <2>2. Undefaulted' = Undefaulted
    BY <2>1 DEF Undefaulted, Walked, On
  <2> QED
    BY <1>2, <1>4, <2>1, <2>2
<1>6. CASE CollectExports
  <2>1. stage = "collect" /\ stage' \in {"inner", "externals"} /\ UNCHANGED <<visited, stack, gen, sym, external>>
    BY <1>6 DEF CollectExports
  <2>2. Undefaulted' = Undefaulted
    BY <2>1 DEF Undefaulted, Unlinked, Walked, On
  <2> QED
    BY <1>2, <1>4, <2>1, <2>2
<1>7. CASE MergeGenerators
  <2>1. stage = "inner" /\ stage' = "externals" /\ UNCHANGED <<visited, stack, sym, external>>
    BY <1>7 DEF MergeGenerators
  <2>2. Undefaulted' = Undefaulted
    BY <2>1 DEF Undefaulted, Unlinked, Walked, On
  <2>3. IsGen(gen')
    BY <1>7, MergedIsGen
  <2> QED
    BY <1>4, <2>1, <2>2, <2>3
<1>8. CASE Descend
  <2>1. UNCHANGED <<stage, gen, sym, external>>
    BY <1>8 DEF Descend
  <2>2. Walked' = Walked
    BY <1>8, DescendDoes
  <2>3. Undefaulted' = Undefaulted
    BY <2>1, <2>2 DEF Undefaulted
  <2> QED
    BY <1>2, <1>4, <2>1, <2>3
<1>9. ASSUME NEW s \in Inner, RenameInner(s) PROVE YInv'
  <2>1. UNCHANGED <<stage, visited, stack, gen, external>>
    BY <1>9 DEF RenameInner
  <2>2. Undefaulted' = Undefaulted
    BY <2>1 DEF Undefaulted, Walked, On
  <2>3. Typed(sym', Undefaulted)
    BY <1>9, YInner
  <2>4. LibInv'
    BY <1>1, <1>2, <2>1, LibStays
  <2> QED
    BY <1>2, <1>3, <2>1, <2>2, <2>3, <2>4
<1>10. CASE GenAst
  <2>1. /\ stage = "externals" /\ stage' = "roots" /\ sym' = sym
        /\ stack' = <<Entry>> /\ visited' = {Entry}
    BY <1>10 DEF GenAst
  <2>2. Walked' = {} /\ Walked = {}
    BY <2>1, BeginDoes DEF WInv, Walked
  <2>3. Undefaulted' = Undefaulted
    BY <2>1, <2>2 DEF Undefaulted, Unlinked
  <2>4. IsGen(gen') /\ LibInv'
    BY <1>2, <1>10, TypedGenAst
  <2>5. Typed(sym', Undefaulted)
    BY <1>2, <2>1
  <2> QED
    BY <1>3, <2>3, <2>4, <2>5
<1>11. CASE RenameRoot
  <2>1. PICK m : m = Last(stack)
    OBVIOUS
  <2>2. stage = "roots" /\ UNCHANGED <<stage, external>>
    BY <1>11 DEF RenameRoot
  <2>3. Walked' = Walked \union {m}
    BY <1>11, <2>1, RootTables
  <2>4. Undefaulted' = Undefaulted \ {m}
    BY <2>2, <2>3 DEF Undefaulted, Unlinked
  <2>5. IsGen(gen') /\ Typed(sym', Undefaulted \ {m})
    BY <1>11, <2>1, YRoot
  <2>6. LibInv'
    BY <1>1, <1>2, <2>2, LibStays
  <2> QED
    BY <1>3, <2>4, <2>5, <2>6
<1>12. CASE RootsRenamed
  <2>1. stage = "roots" /\ stack = <<>> /\ stage' = "imports" /\ UNCHANGED <<gen, sym, external>>
    BY <1>12 DEF RootsRenamed
  <2>2. Walked = Modules
    BY <2>1, AllWalked
  <2>3. Undefaulted' = Undefaulted
    BY <2>1, <2>2 DEF Undefaulted, Unlinked
  <2> QED
    BY <1>2, <1>4, <2>1, <2>3
<1>13. CASE ReplaceImports
  <2>1. PICK m, r : m = Last(stack) /\ r = Replaced(m)
    OBVIOUS
  <2>2. /\ stage = "imports" /\ stack # <<>> /\ sym' = r.sym /\ UNCHANGED <<gen, external>>
        /\ stage' \in {"imports", "failed"}
    BY <1>13, <2>1 DEF ReplaceImports
  <2>3. m \in Modules
    BY <2>1, <2>2, TopIs
  <2>4. Undefaulted = {} /\ Undefaulted' = {}
    BY <2>2 DEF Undefaulted, Unlinked
  <2>5. Typed(sym, {})
    BY <1>2, <2>4
  <2>6. Typed(sym', {})
    BY <1>2, <2>1, <2>2, <2>3, <2>5, ReplacedTyped
  <2>7. LibInv'
    BY <1>1, <1>2, <2>2, LibStays
  <2>8. IsGen(gen')
    BY <1>2, <2>2
  <2> QED
    BY <1>3, <2>4, <2>6, <2>7, <2>8
<1>14. CASE Finish
  <2>1. stage = "imports" /\ stage' = "done" /\ UNCHANGED <<gen, sym, external>>
    BY <1>14 DEF Finish
  <2>2. Undefaulted' = Undefaulted
    BY <2>1 DEF Undefaulted, Unlinked
  <2> QED
    BY <1>2, <1>4, <2>1, <2>2
<1> QED
  BY <1>5, <1>6, <1>7, <1>8, <1>9, <1>10, <1>11, <1>12, <1>13, <1>14 DEF Next, Stop

(* What the types are read off. *)
LEMMA TypesHold ==
  ASSUME CInv, WInv, FInv, YInv
  PROVE  TypeOK
<1>1. Typed(sym, Undefaulted) /\ IsTables(sym) /\ IsSym(sym) /\ IsGen(gen)
  BY DEF YInv, Typed, Tabled, IsTables
<1>2. \A v \in DOMAIN sym.name : v[1] \in Scopes /\ sym.name[v] \in Seq(STRING) \ {<<>>}
  BY <1>1 DEF Typed, IsSym, Text
<1>3. \A s \in Scopes : sym.own[s] \subseteq {v \in DOMAIN sym.name : v[1] = s}
  BY <1>1 DEF IsSym
<1>4. ASSUME NEW m \in Modules
      PROVE  DOMAIN sym.local[m] = ExportNames(prog, m) /\ Range(sym.index[m]) \subseteq DOMAIN sym.local[m]
  BY <1>1 DEF Typed, Tabled, Range
<1>5. gen.counter \in Nat
  BY <1>1 DEF IsGen
<1>6. ToSet(stack) \subseteq visited
  <2>1. DOMAIN stack = 1 .. Len(stack)
    BY DEF CInv
  <2> QED
    BY <2>1 DEF WInv, On, ToSet
<1> QED
  BY <1>2, <1>3, <1>4, <1>5, <1>6 DEF TypeOK, CInv, FInv, StageNames

(* Every name the linking gives is a text, every table's names are those of the  *)
(* sources' exports, and the walk keeps its marks.                           *)
THEOREM TypeCorrect ==
  ASSUME NumeralsDiffer, LiteralsAreStrings
  PROVE  Spec => []TypeOK
<1>1. Init => AllInv /\ Covers /\ TabInv /\ FInv /\ YInv
  BY AllInit, CoversInit, TabInit, FInit, YInit
<1>2. AllInv /\ Covers /\ TabInv /\ FInv /\ YInv /\ [Next]_vars
        => AllInv' /\ Covers' /\ TabInv' /\ FInv' /\ YInv'
  <2> SUFFICES ASSUME AllInv, Covers, TabInv, FInv, YInv, [Next]_vars
               PROVE  AllInv' /\ Covers' /\ TabInv' /\ FInv' /\ YInv'
    OBVIOUS
  <2>1. AllInv'
    BY AllStep
  <2>2. CInv /\ WInv /\ SInv /\ SInv' /\ MInv
    BY <2>1 DEF AllInv, LInv
  <2>3. Covers' /\ TabInv' /\ FInv'
    BY <2>2, CoversStep, TabStep, FStep
  <2>4. YInv'
    BY <2>2, YStep
  <2> QED
    BY <2>1, <2>3, <2>4
<1>3. AllInv /\ FInv /\ YInv => TypeOK
  BY TypesHold DEF AllInv, LInv
<1> QED
  BY <1>1, <1>2, <1>3, PTL DEF Spec
================================================================================
