---------------------------- MODULE SourceMap_proof ----------------------------
(***************************************************************************)
(* Proofs that the "mappings" of a source map say what was to be said: for *)
(* any items in the order of the bundle, whatever their files, lines and   *)
(* columns, the text SourceMapGenerator writes means, as the standard      *)
(* reads it, exactly these items, and jetpack's own decoder reads the same *)
(* unless a number begins with a character whose sign it misreads.         *)
(***************************************************************************)
EXTENDS SourceMap, FiniteSetTheorems, SequenceTheorems, WellFoundedInduction, TLAPS

(* A set of natural numbers has a least element. *)
LEMMA LeastNatural ==
  ASSUME NEW T \in SUBSET Nat, T # {}
  PROVE  \E x \in T : \A y \in T : x <= y
<1>1. PICK x \in T : \A y \in T : ~ (<<y, x>> \in OpToRel(<, Nat))
  BY WFMin, NatLessThanWellFounded, Zenon
<1>2. \A y \in T : ~ (y < x)
  BY <1>1 DEF OpToRel
<1> QED
  BY <1>2
-----------------------------------------------------------------------------
(* Induction.                                                               *)

(* A set that a number is in whenever all smaller ones are has them all. *)
LEMMA StrongInduction ==
  ASSUME NEW T \in SUBSET Nat, \A k \in Nat : (\A j \in 0 .. k - 1 : j \in T) => k \in T
  PROVE  T = Nat
<1> SUFFICES ASSUME Nat \ T # {} PROVE FALSE
  OBVIOUS
<1>1. PICK S : S = Nat \ T
  OBVIOUS
<1>2. PICK x \in S : \A y \in S : x <= y
  BY <1>1, LeastNatural
<1>3. \A j \in 0 .. x - 1 : j \in T
  BY <1>1, <1>2
<1> QED
  BY <1>1, <1>2, <1>3

(* What holds of 0 and goes over from each number to the next, up to n.      *)
Climbs(T, n) == 0 \in T /\ \A k \in 0 .. n - 1 : k \in T => k + 1 \in T

(* ... holds of all numbers up to n. *)
LEMMA CountingUp ==
  ASSUME NEW n \in Nat, NEW T, Climbs(T, n)
  PROVE  \A k \in 0 .. n : k \in T
<1> SUFFICES ASSUME NEW k \in 0 .. n, k \notin T PROVE FALSE
  OBVIOUS
<1>1. PICK S : S = {i \in 0 .. n : i \notin T}
  OBVIOUS
<1>2. S \in SUBSET Nat /\ k \in S
  BY <1>1
<1>3. PICK x \in S : \A y \in S : x <= y
  BY <1>2, LeastNatural
<1>4. x \in 0 .. n /\ x \notin T /\ 0 \in T
  BY <1>1, <1>3 DEF Climbs
<1>5. x # 0
  BY <1>4
<1>6. x - 1 \in 0 .. n /\ x - 1 \in 0 .. n - 1 /\ ~ (x <= x - 1) /\ x - 1 + 1 = x
  BY <1>4, <1>5
<1>7. x - 1 \in T
  BY <1>1, <1>3, <1>6
<1> QED
  BY <1>4, <1>6, <1>7 DEF Climbs

-----------------------------------------------------------------------------
(* The digits of a number.  Digits is a recursive function: it exists, as    *)
(* there is one up to every number and these agree.                          *)
DigitsOf(g, x) == IF x < Base THEN <<x>> ELSE <<(x % Base) + More>> \o g[x \div Base]
UpTo(n, g) == g = [x \in 0 .. n |-> DigitsOf(g, x)]

(* Dividing makes a number smaller. *)
LEMMA Shorter ==
  ASSUME NEW x \in Nat, ~ (x < Base)
  PROVE  x \div Base \in 0 .. x - 1 /\ x \div Base \in Nat \ {0}
  BY DEF Base

(* The functions up to two numbers agree where both are defined. *)
LEMMA UpToAgree ==
  ASSUME NEW n \in Nat, NEW m \in Nat, NEW g, NEW h, UpTo(n, g), UpTo(m, h), NEW x \in Nat,
         x <= n, x <= m
  PROVE  g[x] = h[x]
<1> DEFINE T == {k \in Nat : k <= n /\ k <= m => g[k] = h[k]}
<1>1. ASSUME NEW k \in Nat, \A j \in 0 .. k - 1 : j \in T PROVE k \in T
  <2> SUFFICES ASSUME k <= n, k <= m PROVE g[k] = h[k]
    OBVIOUS
  <2>1. g[k] = DigitsOf(g, k) /\ h[k] = DigitsOf(h, k)
    BY DEF UpTo
  <2>2. CASE k < Base
    BY <2>1, <2>2 DEF DigitsOf
  <2>3. CASE ~ (k < Base)
    <3>1. PICK q : q = k \div Base
      OBVIOUS
    <3>2. q \in 0 .. k - 1
      BY <2>3, <3>1, Shorter
    <3>3. g[q] = h[q]
      BY <1>1, <3>2
    <3>4. DigitsOf(g, k) = DigitsOf(h, k)
      BY <3>1, <3>3, Zenon DEF DigitsOf
    <3> QED
      BY <2>1, <3>4
  <2> QED
    BY <2>2, <2>3
<1>2. T \in SUBSET Nat
  OBVIOUS
<1> HIDE DEF T
<1>3. T = Nat
  BY <1>1, <1>2, StrongInduction
<1> QED
  BY <1>3 DEF T

(* There is a function up to every number. *)
LEMMA UpToExists ==
  ASSUME NEW n \in Nat
  PROVE  \E g : UpTo(n, g)
<1> DEFINE T == {k \in Nat : \E g : UpTo(k, g)}
<1>1. 0 \in T
  <2> DEFINE g == [x \in 0 .. 0 |-> <<x>>]
  <2>1. \A x \in 0 .. 0 : g[x] = DigitsOf(g, x)
    BY DEF DigitsOf, Base
  <2>2. UpTo(0, g)
    BY <2>1 DEF UpTo
  <2> QED
    BY <2>2
<1>2. ASSUME NEW k \in 0 .. n - 1, k \in T PROVE k + 1 \in T
  <2>1. PICK g : UpTo(k, g)
    BY <1>2
  <2>2. g = [x \in 0 .. k |-> DigitsOf(g, x)]
    BY <2>1 DEF UpTo
  <2> DEFINE h == [x \in 0 .. k + 1 |-> DigitsOf(g, x)]
  <2>3. \A x \in 0 .. k : h[x] = g[x]
    BY <2>2
  <2>4. ASSUME NEW x \in 0 .. k + 1 PROVE DigitsOf(g, x) = DigitsOf(h, x)
    <3>1. CASE x < Base
      BY <3>1 DEF DigitsOf
    <3>2. CASE ~ (x < Base)
      <4>1. PICK q : q = x \div Base
        OBVIOUS
      <4>2. q \in 0 .. x - 1 /\ x \in Nat
        BY <3>2, <4>1, Shorter
      <4>3. q \in 0 .. k
        BY <4>2
      <4>4. h[q] = g[q]
        BY <2>3, <4>3
      <4> HIDE DEF h
      <4> QED
        BY <4>1, <4>4, Zenon DEF DigitsOf
    <3> QED
      BY <3>1, <3>2
  <2>5. h = [x \in 0 .. k + 1 |-> DigitsOf(h, x)]
    BY <2>4
  <2> HIDE DEF h
  <2>6. UpTo(k + 1, h)
    BY <2>5 DEF UpTo
  <2> QED
    BY <2>6
<1>3. Climbs(T, n)
  BY <1>1, <1>2 DEF Climbs
<1> HIDE DEF T
<1>4. n \in T
  BY <1>3, CountingUp
<1> QED
  BY <1>4 DEF T

(* Digits is what its definition says. *)
LEMMA DigitsIs ==
  ASSUME NEW x \in Nat
  PROVE  Digits[x] = DigitsOf(Digits, x)
<1> DEFINE Def(g) == [n \in Nat |-> DigitsOf(g, n)]
           Below(n) == CHOOSE g : UpTo(n, g)
           all == [n \in Nat |-> Below(n)[n]]
<1>1. \A n \in Nat : UpTo(n, Below(n))
  BY UpToExists
<1> HIDE DEF Below
<1>2. ASSUME NEW n \in Nat PROVE all[n] = DigitsOf(all, n)
  <2>1. UpTo(n, Below(n)) /\ all[n] = Below(n)[n]
    BY <1>1
  <2>2. all[n] = DigitsOf(Below(n), n)
    BY <2>1 DEF UpTo
  <2>3. CASE n < Base
    BY <2>2, <2>3 DEF DigitsOf
  <2>4. CASE ~ (n < Base)
    <3>1. PICK k : k = n \div Base
      OBVIOUS
    <3>2. k \in Nat /\ k <= n
      BY <2>4, <3>1, Shorter
    <3>3. all[k] = Below(k)[k]
      BY <3>2
    <3>4. Below(k)[k] = Below(n)[k]
      BY <1>1, <3>2, UpToAgree
    <3> HIDE DEF all
    <3>5. DigitsOf(all, n) = DigitsOf(Below(n), n)
      BY <3>1, <3>3, <3>4, Zenon DEF DigitsOf
    <3> QED
      BY <2>2, <3>5
  <2> QED
    BY <2>3, <2>4
<1>3. all = Def(all)
  BY <1>2
<1> HIDE DEF all
<1>4. Digits = CHOOSE g : g = Def(g)
  BY DEF Digits, DigitsOf
<1>5. Digits = Def(Digits)
  BY <1>3, <1>4
<1> QED
  BY <1>5

(* The characters s are the number n, low digits first: rest holds what is   *)
(* left of n after each of them.                                             *)
Code == 0 .. 63
Leaves(s, n, rest) ==
  /\ rest \in [0 .. Len(s) -> Nat]
  /\ rest[0] = n /\ rest[Len(s)] = 0
  /\ \A i \in 1 .. Len(s) :
       /\ rest[i] = rest[i - 1] \div Base
       /\ s[i] = (rest[i - 1] % Base) + (IF i < Len(s) THEN More ELSE 0)
IsNumber(s, n) == s \in Seq(Code) /\ Len(s) # 0 /\ \E rest : Leaves(s, n, rest)

(* A sequence with one element put before it. *)
LEMMA Prefixed ==
  ASSUME NEW X, NEW d \in X, NEW r \in Seq(X)
  PROVE  /\ <<d>> \o r \in Seq(X) /\ Len(<<d>> \o r) = Len(r) + 1
         /\ (<<d>> \o r)[1] = d
         /\ \A k \in 1 .. Len(r) : (<<d>> \o r)[k + 1] = r[k]
<1>1. PICK q : q = <<d>>
  OBVIOUS
<1>2. q \in Seq(X) /\ Len(q) = 1 /\ q[1] = d /\ Len(r) \in Nat
  BY <1>1
<1>3. /\ q \o r \in Seq(X) /\ Len(q \o r) = Len(q) + Len(r)
      /\ \A k \in 1 .. Len(q) + Len(r) :
           (q \o r)[k] = IF k <= Len(q) THEN q[k] ELSE r[k - Len(q)]
  BY <1>2, ConcatProperties
<1>4. (q \o r)[1] = d
  <2>1. 1 \in 1 .. Len(q) + Len(r) /\ 1 <= Len(q)
    BY <1>2
  <2> QED
    BY <1>2, <1>3, <2>1
<1>5. ASSUME NEW k \in 1 .. Len(r) PROVE (q \o r)[k + 1] = r[k]
  <2>1. k + 1 \in 1 .. Len(q) + Len(r) /\ ~ (k + 1 <= Len(q)) /\ k + 1 - Len(q) = k
    BY <1>2
  <2> QED
    BY <1>3, <2>1
<1>6. Len(q \o r) = Len(r) + 1
  BY <1>2, <1>3
<1> QED
  BY <1>1, <1>3, <1>4, <1>5, <1>6

(* A number after a digit. *)
LEMMA OneMoreDigit ==
  ASSUME NEW x \in Nat, ~ (x < Base), NEW s, IsNumber(s, x \div Base)
  PROVE  IsNumber(<<(x % Base) + More>> \o s, x)
<1>1. PICK d : d = (x % Base) + More
  OBVIOUS
<1>2. d \in Code
  BY <1>1 DEF Code, Base, More
<1>3. PICK q : q = x \div Base
  OBVIOUS
<1>4. PICK rest : Leaves(s, q, rest)
  BY <1>3 DEF IsNumber
<1>5. s \in Seq(Code) /\ Len(s) # 0 /\ Len(s) \in Nat
  BY DEF IsNumber
<1>6. /\ rest \in [0 .. Len(s) -> Nat]
      /\ rest[0] = q /\ rest[Len(s)] = 0
      /\ \A i \in 1 .. Len(s) :
           /\ rest[i] = rest[i - 1] \div Base
           /\ s[i] = (rest[i - 1] % Base) + (IF i < Len(s) THEN More ELSE 0)
  BY <1>4 DEF Leaves
<1>7. PICK t : t = <<d>> \o s
  OBVIOUS
<1>8. /\ t \in Seq(Code) /\ Len(t) = Len(s) + 1 /\ t[1] = d
      /\ \A k \in 1 .. Len(s) : t[k + 1] = s[k]
  BY <1>2, <1>5, <1>7, Prefixed
<1>9. PICK all : all = [i \in 0 .. Len(t) |-> IF i = 0 THEN x ELSE rest[i - 1]]
  OBVIOUS
<1>10. all[0] = x /\ all[Len(t)] = 0 /\ \A i \in 1 .. Len(t) : all[i] = rest[i - 1]
  BY <1>5, <1>6, <1>8, <1>9
<1>11. all \in [0 .. Len(t) -> Nat]
  BY <1>5, <1>6, <1>8, <1>9
<1>12. ASSUME NEW i \in 1 .. Len(t)
       PROVE  /\ all[i] = all[i - 1] \div Base
              /\ t[i] = (all[i - 1] % Base) + (IF i < Len(t) THEN More ELSE 0)
  <2>1. CASE i = 1
    <3>1. all[1] = q /\ 1 < Len(t)
      BY <1>5, <1>6, <1>8, <1>10
    <3> QED
      BY <1>1, <1>3, <1>8, <1>10, <2>1, <3>1
  <2>2. CASE i # 1
    <3>1. PICK k \in 1 .. Len(s) : i = k + 1
      <4>1. i - 1 \in 1 .. Len(s) /\ i = i - 1 + 1
        BY <1>5, <1>8, <2>2
      <4> QED
        BY <4>1
    <3>2. all[k + 1] = rest[k] /\ all[k] = rest[k - 1] /\ t[k + 1] = s[k]
      <4>1. k + 1 \in 1 .. Len(t) /\ k \in 1 .. Len(t) /\ k + 1 - 1 = k
        BY <1>5, <1>8, <3>1
      <4> QED
        BY <1>8, <1>10, <4>1
    <3>3. k + 1 < Len(t) <=> k < Len(s)
      BY <1>5, <1>8
    <3>4. i - 1 = k
      BY <3>1
    <3> QED
      BY <1>6, <3>1, <3>2, <3>3, <3>4
  <2> QED
    BY <2>1, <2>2
<1>13. Leaves(t, x, all)
  BY <1>10, <1>11, <1>12 DEF Leaves
<1>14. Len(t) # 0
  BY <1>5, <1>8
<1> QED
  BY <1>1, <1>7, <1>8, <1>13, <1>14 DEF IsNumber

(* What Digits gives is the number. *)
LEMMA DigitsAreNumber ==
  ASSUME NEW n \in Nat
  PROVE  IsNumber(Digits[n], n)
<1> DEFINE T == {k \in Nat : IsNumber(Digits[k], k)}
<1>1. ASSUME NEW k \in Nat, \A j \in 0 .. k - 1 : j \in T PROVE k \in T
  <2>1. CASE k < Base
    <3>1. Digits[k] = <<k>>
      BY <2>1, DigitsIs DEF DigitsOf
    <3>2. <<k>> \in Seq(Code) /\ Len(<<k>>) = 1 /\ <<k>>[1] = k
      BY <2>1 DEF Code, Base
    <3> DEFINE rest == [i \in 0 .. 1 |-> IF i = 0 THEN k ELSE 0]
    <3>3. rest \in [0 .. 1 -> Nat] /\ rest[0] = k /\ rest[1] = 0
      OBVIOUS
    <3>4. k \div Base = 0 /\ k = (k % Base) + 0
      BY <2>1 DEF Base
    <3> HIDE DEF rest
    <3>5. Leaves(<<k>>, k, rest)
      <4>1. \A i \in 1 .. Len(<<k>>) : i = 1 /\ i - 1 = 0 /\ ~ (i < Len(<<k>>))
        BY <3>2
      <4> QED
        BY <3>2, <3>3, <3>4, <4>1 DEF Leaves
    <3>6. PICK s : s = <<k>>
      OBVIOUS
    <3>7. s \in Seq(Code) /\ Len(s) # 0 /\ Leaves(s, k, rest)
      BY <3>2, <3>5, <3>6
    <3>8. IsNumber(s, k)
      BY <3>7 DEF IsNumber
    <3> QED
      BY <3>1, <3>6, <3>8
  <2>2. CASE ~ (k < Base)
    <3>1. Digits[k] = <<(k % Base) + More>> \o Digits[k \div Base]
      BY <2>2, DigitsIs DEF DigitsOf
    <3>2. k \div Base \in T
      BY <1>1, <2>2, Shorter
    <3> QED
      BY <2>2, <3>1, <3>2, OneMoreDigit
  <2> QED
    BY <2>1, <2>2
<1>2. T \in SUBSET Nat
  OBVIOUS
<1> HIDE DEF T
<1>3. T = Nat
  BY <1>1, <1>2, StrongInduction
<1> QED
  BY <1>3 DEF T

-----------------------------------------------------------------------------
(* Reading a number.                                                        *)

(* str begins with the characters s of the number n; r follows.              *)
Begins(str, s, n, r) == n \in Nat /\ IsNumber(s, n) /\ r \in Seq(Code) /\ str = s \o r

(* The characters of a number: only the last says that no more follow.       *)
LEMMA CharactersOf ==
  ASSUME NEW n \in Nat, NEW s, IsNumber(s, n)
  PROVE  /\ s \in Seq(Code) /\ Len(s) \in Nat \ {0}
         /\ s[Len(s)] < More /\ \A i \in 1 .. Len(s) - 1 : s[i] >= More
         /\ s[1] % 2 = n % 2
<1>1. PICK rest : Leaves(s, n, rest)
  BY DEF IsNumber
<1>2. s \in Seq(Code) /\ Len(s) \in Nat \ {0}
  BY DEF IsNumber
<1>3. ASSUME NEW i \in 1 .. Len(s)
      PROVE  /\ rest[i - 1] \in Nat
             /\ s[i] = (rest[i - 1] % Base) + (IF i < Len(s) THEN More ELSE 0)
  BY <1>1, <1>2, SMTT(30) DEF Leaves
<1>4. s[Len(s)] < More
  <2>1. Len(s) \in 1 .. Len(s) /\ ~ (Len(s) < Len(s))
    BY <1>2
  <2>2. rest[Len(s) - 1] \in Nat /\ s[Len(s)] = (rest[Len(s) - 1] % Base) + 0
    BY <1>3, <2>1
  <2>3. \A x \in Nat : (x % Base) + 0 < More
    BY DEF Base, More
  <2> QED
    BY <2>2, <2>3
<1>5. ASSUME NEW i \in 1 .. Len(s) - 1 PROVE s[i] >= More
  <2>1. i \in 1 .. Len(s) /\ i < Len(s)
    BY <1>2
  <2>2. rest[i - 1] \in Nat /\ s[i] = (rest[i - 1] % Base) + More
    BY <1>3, <2>1
  <2>3. \A x \in Nat : (x % Base) + More >= More
    BY DEF Base, More
  <2> QED
    BY <2>2, <2>3
<1>6. s[1] % 2 = n % 2
  <2>1. 1 \in 1 .. Len(s) /\ 1 - 1 = 0 /\ rest[0] = n
    BY <1>1, <1>2 DEF Leaves
  <2>2. s[1] = (n % Base) + (IF 1 < Len(s) THEN More ELSE 0)
    BY <1>3, <2>1
  <2>3. ((n % Base) + More) % 2 = n % 2 /\ ((n % Base) + 0) % 2 = n % 2
    BY DEF Base, More
  <2> QED
    BY <2>2, <2>3
<1> QED
  BY <1>2, <1>4, <1>5, <1>6

(* Where the number ends, and what follows it. *)
LEMMA NumberEnds ==
  ASSUME NEW str, NEW s, NEW n, NEW r, Begins(str, s, n, r)
  PROVE  /\ str \in Seq(Code) /\ Len(str) = Len(s) + Len(r)
         /\ \A i \in 1 .. Len(s) : str[i] = s[i]
         /\ NumberLength(str) = Len(s)
         /\ AfterNumber(str) = r
<1>1. n \in Nat /\ IsNumber(s, n) /\ r \in Seq(Code) /\ str = s \o r
  BY DEF Begins
<1>2. /\ s \in Seq(Code) /\ Len(s) \in Nat \ {0}
      /\ s[Len(s)] < More /\ \A i \in 1 .. Len(s) - 1 : s[i] >= More
  BY <1>1, CharactersOf
<1>3. /\ str \in Seq(Code) /\ Len(str) = Len(s) + Len(r)
      /\ \A i \in 1 .. Len(s) + Len(r) : str[i] = IF i <= Len(s) THEN s[i] ELSE r[i - Len(s)]
  BY <1>1, <1>2, ConcatProperties
<1>4. Len(r) \in Nat
  BY <1>1
<1>5. \A i \in 1 .. Len(s) : str[i] = s[i]
  BY <1>2, <1>3, <1>4
<1>6. \A i \in 1 .. Len(str) : str[i] \in Int
  <2>1. \A i \in 1 .. Len(str) : str[i] \in Code
    BY <1>3
  <2>2. \A x \in Code : x \in Int
    BY DEF Code
  <2> QED
    BY <2>1, <2>2
<1>7. NumberLength(str) = Len(s)
  <2> DEFINE Ends(k) == str[k] < More /\ \A i \in 1 .. k - 1 : str[i] >= More
  <2>1. Len(s) \in DOMAIN str /\ Ends(Len(s))
    BY <1>2, <1>3, <1>4, <1>5
  <2>2. ASSUME NEW k \in DOMAIN str, Ends(k) PROVE k = Len(s)
    <3>1. k \in 1 .. Len(str)
      BY <1>3
    <3>2. ~ (k < Len(s))
      <4>1. SUFFICES ASSUME k < Len(s) PROVE FALSE
        OBVIOUS
      <4>2. k \in 1 .. Len(s) - 1
        BY <1>2, <3>1, <4>1
      <4>3. str[k] >= More /\ str[k] < More /\ str[k] \in Int /\ More \in Int
        BY <1>2, <1>5, <1>6, <2>2, <3>1, <4>2 DEF More, Base
      <4> QED
        BY <4>3
    <3>3. ~ (k > Len(s))
      <4>1. SUFFICES ASSUME k > Len(s) PROVE FALSE
        OBVIOUS
      <4>2. Len(s) \in 1 .. k - 1 /\ Len(s) \in 1 .. Len(str)
        BY <1>2, <3>1, <4>1
      <4>3. str[Len(s)] >= More /\ str[Len(s)] < More /\ str[Len(s)] \in Int /\ More \in Int
        BY <1>6, <2>1, <2>2, <4>2 DEF More, Base
      <4> QED
        BY <4>3
    <3> QED
      BY <1>2, <3>1, <3>2, <3>3
  <2>3. NumberLength(str) = CHOOSE k \in DOMAIN str : Ends(k)
    BY DEF NumberLength
  <2> HIDE DEF Ends
  <2> QED
    BY <2>1, <2>2, <2>3
<1>8. AfterNumber(str) = r
  <2>1. AfterNumber(str) = SubSeq(str, Len(s) + 1, Len(str))
    BY <1>7 DEF AfterNumber
  <2>2. PICK t : t = SubSeq(str, Len(s) + 1, Len(str))
    OBVIOUS
  <2>3. /\ t \in Seq(Code) /\ Len(t) = Len(r)
        /\ \A i \in 1 .. Len(t) : t[i] = str[Len(s) + i]
    <3>1. Len(s) + 1 \in Nat \ {0} /\ Len(str) \in Nat /\ Len(str) - (Len(s) + 1) + 1 = Len(r)
      BY <1>2, <1>3, <1>4
    <3>2. \A i \in Len(s) + 1 .. Len(str) : str[i] \in Code
      BY <1>2, <1>3, <1>4
    <3>3. t = [i \in 1 .. Len(str) - (Len(s) + 1) + 1 |-> str[i + (Len(s) + 1) - 1]]
      BY <1>2, <1>3, <2>2
    <3>4. \A i \in 1 .. Len(r) : t[i] = str[Len(s) + i] /\ Len(s) + i \in Len(s) + 1 .. Len(str)
      <4> TAKE i \in 1 .. Len(r)
      <4>1. i + (Len(s) + 1) - 1 = Len(s) + i /\ Len(s) + i \in Len(s) + 1 .. Len(str)
        BY <1>2, <1>3, <1>4
      <4> QED
        BY <3>1, <3>3, <4>1
    <3>5. t = [i \in 1 .. Len(r) |-> str[Len(s) + i]]
      <4>1. DOMAIN t = 1 .. Len(r)
        BY <3>1, <3>3
      <4>2. t = [i \in DOMAIN t |-> t[i]]
        BY <3>3
      <4> QED
        BY <3>4, <4>1, <4>2
    <3>6. t \in [1 .. Len(r) -> Code]
      BY <3>2, <3>4, <3>5
    <3>7. t \in Seq(Code) /\ Len(t) = Len(r)
      BY <1>4, <3>5, <3>6
    <3> QED
      BY <3>4, <3>7
  <2>4. ASSUME NEW i \in 1 .. Len(r) PROVE str[Len(s) + i] = r[i]
    <3>1. /\ Len(s) + i \in 1 .. Len(s) + Len(r) /\ ~ (Len(s) + i <= Len(s))
          /\ Len(s) + i - Len(s) = i
      BY <1>2, <1>4
    <3> QED
      BY <1>3, <3>1
  <2>5. t = r
    BY <1>1, <2>3, <2>4
  <2> QED
    BY <2>1, <2>2, <2>5
<1> QED
  BY <1>3, <1>5, <1>7, <1>8

(* Its value. *)
LEMMA MagnitudeIs ==
  ASSUME NEW str, NEW s, NEW n, NEW r, Begins(str, s, n, r)
  PROVE  Magnitude(str) = n
<1>1. n \in Nat /\ IsNumber(s, n)
  BY DEF Begins
<1>2. Len(s) \in Nat \ {0}
  BY <1>1, CharactersOf
<1>3. NumberLength(str) = Len(s) /\ \A i \in 1 .. Len(s) : str[i] = s[i]
  BY NumberEnds
<1>4. PICK rest : Leaves(s, n, rest)
  BY <1>1 DEF IsNumber
<1> DEFINE Def(v) == [k \in 0 .. Len(s) |->
                       IF k = 0 THEN 0 ELSE (str[Len(s) - k + 1] % Base) + Base * v[k - 1]]
           left == [k \in 0 .. Len(s) |-> rest[Len(s) - k]]
<1>5. ASSUME NEW k \in 1 .. Len(s)
      PROVE  left[k] = (str[Len(s) - k + 1] % Base) + Base * left[k - 1]
  <2>1. PICK i \in 1 .. Len(s) : i = Len(s) - k + 1
    BY <1>2
  <2>2. left[k] = rest[i - 1] /\ left[k - 1] = rest[i]
    <3>1. /\ Len(s) - k = i - 1 /\ Len(s) - (k - 1) = i
          /\ k \in 0 .. Len(s) /\ k - 1 \in 0 .. Len(s)
      BY <1>2, <2>1
    <3> QED
      BY <3>1
  <2>3. /\ rest[i - 1] \in Nat /\ rest[i] = rest[i - 1] \div Base
        /\ s[i] = (rest[i - 1] % Base) + (IF i < Len(s) THEN More ELSE 0)
    BY <1>2, <1>4 DEF Leaves
  <2>4. \A x \in Nat : /\ (((x % Base) + More) % Base) + Base * (x \div Base) = x
                       /\ (((x % Base) + 0) % Base) + Base * (x \div Base) = x
    BY DEF Base, More
  <2>5. str[i] = s[i]
    BY <1>3
  <2> HIDE DEF left
  <2>6. rest[i - 1] = (s[i] % Base) + Base * rest[i]
    BY <2>3, <2>4
  <2> QED
    BY <2>1, <2>2, <2>5, <2>6
<1>6. left[0] = 0
  BY <1>2, <1>4 DEF Leaves
<1>7. left = Def(left)
  <2>1. \A k \in 0 .. Len(s) :
          left[k] = IF k = 0 THEN 0 ELSE (str[Len(s) - k + 1] % Base) + Base * left[k - 1]
    <3> TAKE k \in 0 .. Len(s)
    <3>1. k = 0 \/ k \in 1 .. Len(s)
      BY <1>2
    <3> HIDE DEF left
    <3> QED
      BY <1>5, <1>6, <3>1
  <2>2. left = [k \in 0 .. Len(s) |-> left[k]]
    OBVIOUS
  <2> HIDE DEF left
  <2> QED
    BY <2>1, <2>2
<1> DEFINE value == CHOOSE v : v = Def(v)
<1>8. value = Def(value)
  <2> HIDE DEF left, Def
  <2> QED
    BY <1>7
<1>9. Magnitude(str) = value[Len(s)]
  BY <1>3 DEF Magnitude
<1> HIDE DEF value
<1>10. \A k \in 0 .. Len(s) : value[k] = left[k]
  <2> DEFINE T == {k \in 0 .. Len(s) : value[k] = left[k]}
  <2>1. 0 \in T
    BY <1>2, <1>6, <1>8
  <2>2. ASSUME NEW k \in 0 .. Len(s) - 1, k \in T PROVE k + 1 \in T
    <3>1. k + 1 \in 1 .. Len(s) /\ k + 1 \in 0 .. Len(s) /\ k + 1 # 0 /\ k + 1 - 1 = k
      BY <1>2
    <3>2. value[k + 1] = (str[Len(s) - (k + 1) + 1] % Base) + Base * value[k]
      BY <1>8, <3>1
    <3>3. left[k + 1] = (str[Len(s) - (k + 1) + 1] % Base) + Base * left[k]
      BY <1>5, <3>1
    <3> QED
      BY <2>2, <3>1, <3>2, <3>3
  <2>3. Climbs(T, Len(s))
    BY <2>1, <2>2 DEF Climbs
  <2> HIDE DEF T
  <2>4. \A k \in 0 .. Len(s) : k \in T
    BY <1>2, <2>3, CountingUp
  <2> QED
    BY <2>4 DEF T
<1>11. left[Len(s)] = n
  BY <1>2, <1>4 DEF Leaves
<1> QED
  BY <1>2, <1>9, <1>10, <1>11

(* No number of str, as a reader who looks for its start sees it, begins with *)
(* a character of misread.                                                    *)
Legible(str, misread) ==
  \A i \in 1 .. Len(str) : i = 1 \/ str[i - 1] < More => str[i] \notin misread

(* What IntToVLQ writes is read back, and what follows it is left.            *)
LEMMA IntegerRead ==
  ASSUME NEW c \in Int, NEW r \in Seq(Code), NEW misread, NEW str, str = IntToVLQ(c) \o r,
         Legible(str, misread)
  PROVE  /\ str \in Seq(Code) /\ str # <<>>
         /\ VLQToInt(str, misread) = c
         /\ AfterNumber(str) = r
         /\ Legible(r, misread)
<1>1. PICK n : n = IF c < 0 THEN -c * 2 + 1 ELSE c * 2
  OBVIOUS
<1>2. /\ n \in Nat
      /\ c < 0 => n \div 2 = -c /\ n % 2 = 1
      /\ ~ (c < 0) => n \div 2 = c /\ n % 2 = 0
  BY <1>1
<1>3. PICK s : s = Digits[n]
  OBVIOUS
<1>4. IsNumber(s, n) /\ IntToVLQ(c) = s
  BY <1>1, <1>2, <1>3, DigitsAreNumber DEF IntToVLQ
<1>5. Begins(str, s, n, r)
  BY <1>2, <1>4 DEF Begins
<1>6. /\ s \in Seq(Code) /\ Len(s) \in Nat \ {0}
      /\ s[Len(s)] < More /\ s[1] % 2 = n % 2
  BY <1>2, <1>4, CharactersOf
<1>7. /\ str \in Seq(Code) /\ Len(str) = Len(s) + Len(r)
      /\ \A i \in 1 .. Len(s) : str[i] = s[i]
      /\ AfterNumber(str) = r
  BY <1>5, NumberEnds
<1>8. Magnitude(str) = n
  BY <1>5, MagnitudeIs
<1>9. Len(r) \in Nat /\ Len(str) # 0 /\ 1 \in 1 .. Len(s) /\ 1 \in 1 .. Len(str)
  BY <1>6, <1>7
<1>10. str[1] % 2 = n % 2 /\ str[1] \notin misread
  BY <1>6, <1>7, <1>9 DEF Legible
<1>11. VLQToInt(str, misread) = c
  <2>1. VLQToInt(str, misread) = (n \div 2) * (IF n % 2 = 1 THEN -1 ELSE 1)
    <3>2. str[1] % 2 = 1 <=> n % 2 = 1
      BY <1>10
    <3>1. ((str[1] % 2 = 1) <=> (str[1] \notin misread)) <=> n % 2 = 1
      BY <1>10, <3>2
    <3> QED
      BY <1>8, <3>1 DEF VLQToInt
  <2>2. CASE c < 0
    <3>1. n \div 2 = -c /\ n % 2 = 1
      BY <1>2, <2>2
    <3> QED
      BY <2>1, <3>1
  <2>3. CASE ~ (c < 0)
    <3>1. n \div 2 = c /\ n % 2 = 0
      BY <1>2, <2>3
    <3> QED
      BY <2>1, <3>1
  <2> QED
    BY <2>2, <2>3
<1>12. Legible(r, misread)
  <2> SUFFICES ASSUME NEW i \in 1 .. Len(r), i = 1 \/ r[i - 1] < More PROVE r[i] \notin misread
    BY DEF Legible
  <2>1. \A k \in 1 .. Len(r) : str[Len(s) + k] = r[k]
    <3> TAKE k \in 1 .. Len(r)
    <3>1. str = s \o r /\ Len(s) \in Nat
      BY <1>4, <1>6
    <3>2. \A j \in 1 .. Len(s) + Len(r) : str[j] = IF j <= Len(s) THEN s[j] ELSE r[j - Len(s)]
      BY <1>6, <3>1, ConcatProperties
    <3>3. PICK j : j = Len(s) + k
      OBVIOUS
    <3>4. j \in 1 .. Len(s) + Len(r) /\ ~ (j <= Len(s)) /\ j - Len(s) = k
      BY <1>9, <3>1, <3>3
    <3>5. str[j] = r[j - Len(s)]
      BY <3>2, <3>4
    <3> QED
      BY <3>3, <3>4, <3>5
  <2>2. Len(s) + i \in 1 .. Len(str) /\ Len(s) + i - 1 = Len(s) + (i - 1)
    BY <1>6, <1>7, <1>9
  <2>3. str[Len(s) + i - 1] < More
    <3>1. CASE i = 1
      <4>1. Len(s) + i - 1 = Len(s) /\ Len(s) \in 1 .. Len(s)
        BY <1>6, <3>1
      <4> QED
        BY <1>6, <1>7, <4>1
    <3>2. CASE i # 1
      <4>1. i - 1 \in 1 .. Len(r)
        BY <1>9, <3>2
      <4> QED
        BY <2>1, <2>2, <3>2, <4>1
    <3> QED
      BY <3>1, <3>2
  <2>4. str[Len(s) + i] \notin misread
    BY <2>2, <2>3 DEF Legible
  <2> QED
    BY <2>1, <2>4
<1>13. str # <<>>
  BY <1>7, <1>9
<1> QED
  BY <1>7, <1>11, <1>12, <1>13

(* What IntToVLQ writes. *)
LEMMA IntegerTyped ==
  ASSUME NEW c \in Int
  PROVE  IntToVLQ(c) \in Seq(Code) /\ IntToVLQ(c) # <<>>
<1>1. PICK n : n = IF c < 0 THEN -c * 2 + 1 ELSE c * 2
  OBVIOUS
<1>2. n \in Nat /\ IntToVLQ(c) = Digits[n]
  BY <1>1 DEF IntToVLQ
<1>3. Digits[n] \in Seq(Code) /\ Len(Digits[n]) # 0
  BY <1>2, DigitsAreNumber DEF IsNumber
<1> QED
  BY <1>2, <1>3

-----------------------------------------------------------------------------
(* A segment is the four numbers of an item.                                *)
Segment(a, b, c, e) == IntToVLQ(a) \o (IntToVLQ(b) \o (IntToVLQ(c) \o IntToVLQ(e)))

(* A state of the decoder. *)
Reader(l, col, source, before, beforeCol, buffer, content) ==
  [line_counter |-> l, l_after_column |-> col, l_source_index |-> source,
   l_before_line |-> before, l_before_column |-> beforeCol, buffer |-> buffer,
   content |-> content]

(* A segment is a sequence of characters. *)
LEMMA SegmentTyped ==
  ASSUME NEW a \in Int, NEW b \in Int, NEW c \in Int, NEW e \in Int
  PROVE  /\ Segment(a, b, c, e) \in Seq(Code) /\ Segment(a, b, c, e) # <<>>
         /\ IntToVLQ(b) \o (IntToVLQ(c) \o IntToVLQ(e)) \in Seq(Code)
         /\ IntToVLQ(c) \o IntToVLQ(e) \in Seq(Code)
<1>1. /\ IntToVLQ(a) \in Seq(Code) /\ IntToVLQ(b) \in Seq(Code)
      /\ IntToVLQ(c) \in Seq(Code) /\ IntToVLQ(e) \in Seq(Code)
      /\ IntToVLQ(a) # <<>>
  BY IntegerTyped
<1>2. IntToVLQ(c) \o IntToVLQ(e) \in Seq(Code)
  BY <1>1, ConcatProperties
<1>3. IntToVLQ(b) \o (IntToVLQ(c) \o IntToVLQ(e)) \in Seq(Code)
  BY <1>1, <1>2, ConcatProperties
<1>4. \A x, y \in Seq(Code) : x # <<>> => x \o y \in Seq(Code) /\ x \o y # <<>>
  <2> TAKE x, y \in Seq(Code)
  <2>1. x \o y \in Seq(Code) /\ Len(x \o y) = Len(x) + Len(y)
    BY ConcatProperties
  <2>2. x # <<>> => Len(x) \in Nat \ {0}
    OBVIOUS
  <2>3. Len(y) \in Nat
    OBVIOUS
  <2>4. x # <<>> => Len(x \o y) # 0
    BY <2>1, <2>2, <2>3
  <2>5. Len(x \o y) # 0 => x \o y # <<>>
    OBVIOUS
  <2> QED
    BY <2>1, <2>4, <2>5
<1> QED
  BY <1>1, <1>2, <1>3, <1>4 DEF Segment

(* The decoder reads a segment as the item it was written for. *)
LEMMA SegmentRead ==
  ASSUME NEW a \in Int, NEW b \in Int, NEW c \in Int, NEW e \in Int, NEW misread,
         Legible(Segment(a, b, c, e), misread),
         NEW l, NEW col \in Int, NEW source \in Int, NEW before \in Int, NEW beforeCol \in Int,
         NEW content
  PROVE  DumpBufferToResult(Reader(l, col, source, before, beforeCol, Segment(a, b, c, e),
                                   content), misread)
           = Reader(l, col + a, source + b, before + c, beforeCol + e, <<>>,
                    Append(content, Mapping(l, col + a, source + b, before + c, beforeCol + e)))
<1>1. PICK r4 : r4 = IntToVLQ(e)
  OBVIOUS
<1>2. PICK r3 : r3 = IntToVLQ(c) \o r4
  OBVIOUS
<1>3. PICK r2 : r2 = IntToVLQ(b) \o r3
  OBVIOUS
<1>4. PICK r1 : r1 = IntToVLQ(a) \o r2
  OBVIOUS
<1>5. r1 = Segment(a, b, c, e) /\ Legible(r1, misread)
  BY <1>1, <1>2, <1>3, <1>4 DEF Segment
<1>6. r2 \in Seq(Code) /\ r3 \in Seq(Code) /\ r4 \in Seq(Code)
  BY <1>1, <1>2, <1>3, SegmentTyped, IntegerTyped
<1>7. /\ r1 # <<>> /\ VLQToInt(r1, misread) = a
      /\ AfterNumber(r1) = r2 /\ Legible(r2, misread)
  BY <1>4, <1>5, <1>6, IntegerRead
<1>8. VLQToInt(r2, misread) = b /\ AfterNumber(r2) = r3 /\ Legible(r3, misread)
  BY <1>3, <1>6, <1>7, IntegerRead
<1>9. VLQToInt(r3, misread) = c /\ AfterNumber(r3) = r4 /\ Legible(r4, misread)
  BY <1>2, <1>6, <1>8, IntegerRead
<1>10. VLQToInt(r4, misread) = e
  <2>1. r4 = IntToVLQ(e) \o <<>> /\ <<>> \in Seq(Code)
    BY <1>1, <1>6
  <2> QED
    BY <1>9, <2>1, IntegerRead
<1>11. PICK d : d = Reader(l, col, source, before, beforeCol, r1, content)
  OBVIOUS
<1>12. d.buffer = r1 /\ d.l_after_column = col /\ d.l_source_index = source
       /\ d.l_before_line = before /\ d.l_before_column = beforeCol /\ d.line_counter = l
       /\ d.content = content
  BY <1>11 DEF Reader
<1>13. DumpBufferToResult(d, misread)
         = [d EXCEPT !.l_after_column = col + a, !.l_source_index = source + b,
                     !.l_before_line = before + c, !.l_before_column = beforeCol + e,
                     !.buffer = <<>>,
                     !.content = Append(@, Mapping(l, col + a, source + b, before + c,
                                                   beforeCol + e))]
  BY <1>7, <1>8, <1>9, <1>10, <1>12 DEF DumpBufferToResult
<1> QED
  BY <1>5, <1>11, <1>13 DEF Reader

-----------------------------------------------------------------------------
(* The decoder's states on the way through a text.  DecodeWith's are a        *)
(* recursive function, which exists up to every position.                     *)
Reading(ds, text, misread) ==
  /\ ds[0] = Decoder
  /\ \A k \in 1 .. Len(text) : ds[k] = ReadChar(ds[k - 1], text[k], misread)

(* The decoder's result is that of its last state. *)
LEMMA DecodingSteps ==
  ASSUME NEW text, Len(text) \in Nat, NEW misread
  PROVE  \E ds : /\ Reading(ds, text, misread)
                 /\ DecodeWith(text, misread)
                      = DumpBufferToResult(ds[Len(text)], misread).content
<1> DEFINE Next(g, i) == IF i = 0 THEN Decoder ELSE ReadChar(g[i - 1], text[i], misread)
           T == {k \in 0 .. Len(text) : \E g : g = [i \in 0 .. k |-> Next(g, i)]}
<1>1. 0 \in T
  <2> DEFINE g == [i \in 0 .. 0 |-> Decoder]
  <2>1. \A i \in 0 .. 0 : Next(g, i) = Decoder
    OBVIOUS
  <2>2. g = [i \in 0 .. 0 |-> Next(g, i)]
    <3> HIDE DEF Next
    <3> QED
      BY <2>1
  <2> HIDE DEF g, Next
  <2> QED
    BY <2>2
<1>2. ASSUME NEW k \in 0 .. Len(text) - 1, k \in T PROVE k + 1 \in T
  <2>1. PICK g : g = [i \in 0 .. k |-> Next(g, i)]
    BY <1>2
  <2> DEFINE h == [i \in 0 .. k + 1 |-> Next(g, i)]
  <2>2. \A i \in 0 .. k : h[i] = g[i]
    <3> HIDE DEF Next
    <3> QED
      BY <2>1
  <2>3. ASSUME NEW i \in 0 .. k + 1 PROVE Next(g, i) = Next(h, i)
    <3>1. i = 0 \/ i - 1 \in 0 .. k
      OBVIOUS
    <3>2. i = 0 \/ h[i - 1] = g[i - 1]
      <4> HIDE DEF h
      <4> QED
        BY <2>2, <3>1
    <3> HIDE DEF h
    <3> QED
      BY <3>2
  <2>4. h = [i \in 0 .. k + 1 |-> Next(h, i)]
    <3> HIDE DEF Next
    <3> QED
      BY <2>3
  <2> HIDE DEF h
  <2> QED
    BY <2>4
<1>3. Climbs(T, Len(text))
  BY <1>1, <1>2 DEF Climbs
<1>4. Len(text) \in T
  <2> HIDE DEF T
  <2> QED
    BY <1>3, CountingUp
<1> DEFINE ds == CHOOSE g : g = [i \in 0 .. Len(text) |-> Next(g, i)]
<1>5. ds = [i \in 0 .. Len(text) |-> Next(ds, i)]
  <2>1. \E g : g = [i \in 0 .. Len(text) |-> Next(g, i)]
    BY <1>4
  <2> HIDE DEF Next
  <2> QED
    BY <2>1
<1>6. DecodeWith(text, misread) = DumpBufferToResult(ds[Len(text)], misread).content
  BY DEF DecodeWith
<1> HIDE DEF ds
<1>7. Reading(ds, text, misread)
  <2>1. ds[0] = Next(ds, 0) /\ \A k \in 1 .. Len(text) : ds[k] = Next(ds, k)
    <3> HIDE DEF Next
    <3> QED
      BY <1>5
  <2> QED
    BY <2>1 DEF Reading
<1> QED
  BY <1>6, <1>7

(* At a comma the decoder has read an item. *)
LEMMA CommaRead ==
  ASSUME NEW text, NEW misread, NEW ds, Reading(ds, text, misread),
         NEW n \in 1 .. Len(text), text[n] = Comma
  PROVE  ds[n] = DumpBufferToResult(ds[n - 1], misread)
<1>1. ds[n] = ReadChar(ds[n - 1], Comma, misread)
  BY DEF Reading
<1> QED
  BY <1>1 DEF ReadChar, Comma, Semicolon

(* Semicolons go to another line. *)
SemicolonsAfter(text, n, more) ==
  /\ Len(text) \in Nat /\ n \in Nat /\ more \in Nat \ {0} /\ n + more <= Len(text)
  /\ \A i \in 1 .. more : text[n + i] = Semicolon

(* They bring the decoder as many lines on. *)
LEMMA SemicolonsRead ==
  ASSUME NEW text, NEW misread, NEW ds, Reading(ds, text, misread), NEW n, NEW more,
         SemicolonsAfter(text, n, more),
         NEW l \in Int, NEW col, NEW source, NEW before, NEW beforeCol, NEW content,
         DumpBufferToResult(ds[n], misread)
           = Reader(l, col, source, before, beforeCol, <<>>, content)
  PROVE  ds[n + more] = Reader(l + more, 0, source, before, beforeCol, <<>>, content)
<1> USE DEF SemicolonsAfter
<1> DEFINE At(i) == Reader(l + i, 0, source, before, beforeCol, <<>>, content)
           T == {k \in 0 .. more - 1 : ds[n + (k + 1)] = At(k + 1)}
<1>1. \A x, c : DumpBufferToResult(Reader(x, c, source, before, beforeCol, <<>>, content), misread)
                  = Reader(x, c, source, before, beforeCol, <<>>, content)
  BY DEF DumpBufferToResult, Reader
<1>2. ASSUME NEW i \in 1 .. more, NEW x \in Int, NEW c,
             DumpBufferToResult(ds[n + i - 1], misread)
               = Reader(x, c, source, before, beforeCol, <<>>, content)
      PROVE  ds[n + i] = Reader(x + 1, 0, source, before, beforeCol, <<>>, content)
  <2>1. PICK k : k = n + i
    OBVIOUS
  <2>2. k \in 1 .. Len(text) /\ text[k] = Semicolon
    BY <2>1
  <2>3. ds[k] = ReadChar(ds[k - 1], Semicolon, misread)
    BY <2>2 DEF Reading
  <2>4. ds[k] = [DumpBufferToResult(ds[k - 1], misread)
                   EXCEPT !.line_counter = @ + 1, !.l_after_column = 0]
    BY <2>3 DEF ReadChar, Semicolon, Comma
  <2>5. n + i - 1 = k - 1
    BY <2>1
  <2>6. DumpBufferToResult(ds[k - 1], misread)
          = Reader(x, c, source, before, beforeCol, <<>>, content)
    BY <1>2, <2>5
  <2>7. PICK r : r = Reader(x, c, source, before, beforeCol, <<>>, content)
    OBVIOUS
  <2>8. [r EXCEPT !.line_counter = @ + 1, !.l_after_column = 0]
          = Reader(x + 1, 0, source, before, beforeCol, <<>>, content)
    <3>1. PICK y : y = r.line_counter + 1
      OBVIOUS
    <3>2. r.line_counter = x
      BY <2>7 DEF Reader
    <3>3. y = x + 1
      BY <3>1, <3>2
    <3>4. [r EXCEPT !.line_counter = y] = Reader(y, c, source, before, beforeCol, <<>>, content)
      BY <2>7 DEF Reader
    <3>5. PICK q : q = Reader(y, c, source, before, beforeCol, <<>>, content)
      OBVIOUS
    <3>6. [q EXCEPT !.l_after_column = 0]
            = Reader(y, 0, source, before, beforeCol, <<>>, content)
      BY <3>5 DEF Reader
    <3>7. [r EXCEPT !.line_counter = y, !.l_after_column = 0] = [q EXCEPT !.l_after_column = 0]
      BY <3>4, <3>5
    <3> QED
      BY <3>1, <3>3, <3>6, <3>7
  <2>9. ds[k] = [r EXCEPT !.line_counter = @ + 1, !.l_after_column = 0]
    BY <2>4, <2>6, <2>7
  <2> QED
    BY <2>1, <2>8, <2>9
<1>3. 0 \in T
  <2>1. 1 \in 1 .. more /\ n + 1 - 1 = n /\ 0 + 1 = 1
    OBVIOUS
  <2>2. ds[n + 1] = Reader(l + 1, 0, source, before, beforeCol, <<>>, content)
    BY <1>2, <2>1
  <2> QED
    BY <2>1, <2>2
<1>4. ASSUME NEW k \in 0 .. more - 1 - 1, k \in T PROVE k + 1 \in T
  <2>1. PICK j : j = k + 1
    OBVIOUS
  <2>2. ds[n + j] = At(j)
    BY <1>4, <2>1
  <2>3. /\ j + 1 \in 1 .. more /\ n + (j + 1) - 1 = n + j /\ j \in 0 .. more - 1
        /\ l + j + 1 = l + (j + 1)
        /\ l + j \in Int
    BY <2>1
  <2>4. DumpBufferToResult(ds[n + (j + 1) - 1], misread) = At(j)
    BY <1>1, <2>2, <2>3
  <2>5. ds[n + (j + 1)] = Reader(l + j + 1, 0, source, before, beforeCol, <<>>, content)
    BY <1>2, <2>3, <2>4
  <2> QED
    BY <2>1, <2>3, <2>5
<1>5. Climbs(T, more - 1)
  BY <1>3, <1>4 DEF Climbs
<1>6. more - 1 \in Nat /\ more - 1 \in 0 .. more - 1 /\ more - 1 + 1 = more
  OBVIOUS
<1>7. more - 1 \in T
  <2> HIDE DEF T
  <2> QED
    BY <1>5, <1>6, CountingUp
<1> QED
  BY <1>6, <1>7

(* Other characters are collected. *)
CharactersAfter(text, n, str) ==
  /\ Len(text) \in Nat /\ n \in Nat /\ str \in Seq(Code) /\ n + Len(str) <= Len(text)
  /\ \A i \in 1 .. Len(str) : text[n + i] = str[i]

(* They fill its buffer. *)
LEMMA CharactersRead ==
  ASSUME NEW text, NEW misread, NEW ds, Reading(ds, text, misread), NEW n, NEW str,
         CharactersAfter(text, n, str),
         NEW l, NEW col, NEW source, NEW before, NEW beforeCol, NEW content,
         ds[n] = Reader(l, col, source, before, beforeCol, <<>>, content)
  PROVE  ds[n + Len(str)] = Reader(l, col, source, before, beforeCol, str, content)
<1> USE DEF CharactersAfter
<1> DEFINE Part(k) == [i \in 1 .. k |-> str[i]]
           At(k) == Reader(l, col, source, before, beforeCol, Part(k), content)
           T == {k \in 0 .. Len(str) : ds[n + k] = At(k)}
<1>1. 0 \in T
  <2>1. Part(0) = <<>> /\ n + 0 = n
    OBVIOUS
  <2> QED
    BY <2>1
<1>2. ASSUME NEW k \in 0 .. Len(str) - 1, k \in T PROVE k + 1 \in T
  <2>1. PICK j : j = n + (k + 1)
    OBVIOUS
  <2>2. j \in 1 .. Len(text) /\ j - 1 = n + k /\ k + 1 \in 1 .. Len(str)
    BY <2>1
  <2>3. text[j] = str[k + 1] /\ str[k + 1] \in Code
    BY <2>1, <2>2
  <2>4. ds[j] = ReadChar(At(k), str[k + 1], misread)
    BY <1>2, <2>2, <2>3 DEF Reading
  <2>5. str[k + 1] # Comma /\ str[k + 1] # Semicolon
    <3>1. \A x \in Code : x # Comma /\ x # Semicolon
      BY DEF Code, Comma, Semicolon
    <3> QED
      BY <2>3, <3>1
  <2>6. ds[j] = [At(k) EXCEPT !.buffer = Append(@, str[k + 1])]
    BY <2>4, <2>5, Zenon DEF ReadChar
  <2>7. Append(Part(k), str[k + 1]) = Part(k + 1)
    <3>1. Part(k) \in Seq(Code) /\ Len(Part(k)) = k
      BY <2>3
    <3> QED
      BY <2>3, <3>1
  <2>8. ds[j] = At(k + 1)
    <3> HIDE DEF Part
    <3> QED
      BY <2>6, <2>7 DEF Reader
  <2> QED
    BY <2>1, <2>2, <2>8
<1>3. Climbs(T, Len(str))
  BY <1>1, <1>2 DEF Climbs
<1>4. Len(str) \in Nat /\ Len(str) \in 0 .. Len(str) /\ Part(Len(str)) = str
  OBVIOUS
<1>5. Len(str) \in T
  <2> HIDE DEF T
  <2> QED
    BY <1>3, <1>4, CountingUp
<1> QED
  BY <1>4, <1>5

-----------------------------------------------------------------------------
(* The generator, and the decoder that follows it through the text.         *)

Char == Code \union {Comma, Semicolon}

(* A state of the generator. *)
Writer(t, l, last, col, file, before, beforeCol) ==
  [text |-> t, line_counter |-> l, item_was_last |-> last, l_after_col |-> col,
   l_file_index |-> file, l_before_line |-> before, l_before_col |-> beforeCol]
Writers ==
  [text : Seq(Char), line_counter : Nat \ {0}, item_was_last : BOOLEAN, l_after_col : Int,
   l_file_index : Int, l_before_line : Int, l_before_col : Int]

Location == [fileId : Int, line : Int, column : Int]

(* The text begins with t. *)
StartsWith(text, t) == Len(t) <= Len(text) /\ \A i \in 1 .. Len(t) : text[i] = t[i]

(* h has written more than g. *)
Extends(g, h) == \E x \in Seq(Char) : h.text = g.text \o x

(* A reader who knows where the numbers are sees none begin with a character  *)
(* of misread.                                                                *)
SignsLegible(text, misread) ==
  \A i \in 1 .. Len(text) :
    i = 1 \/ text[i - 1] >= Comma \/ text[i - 1] < More => text[i] \notin misread

Context(ds, text, misread) ==
  Reading(ds, text, misread) /\ text \in Seq(Char) /\ SignsLegible(text, misread)

(* When the decoder has read what g has written, it remembers what g does and *)
(* has found the items found.                                                 *)
Follows(ds, text, misread, g, found) ==
  LET n == Len(g.text)
  IN /\ DumpBufferToResult(ds[n], misread)
          = Reader(g.line_counter, g.l_after_col, g.l_file_index, g.l_before_line,
                   g.l_before_col, <<>>, found)
     /\ ~ g.item_was_last => /\ DumpBufferToResult(ds[n], misread) = ds[n]
                             /\ n = 0 \/ text[n] >= Comma

(* The parts of a generator's state. *)
LEMMA WriterParts ==
  ASSUME NEW g \in Writers
  PROVE  /\ g = Writer(g.text, g.line_counter, g.item_was_last, g.l_after_col, g.l_file_index,
                       g.l_before_line, g.l_before_col)
         /\ g.text \in Seq(Char) /\ g.line_counter \in Nat \ {0} /\ g.item_was_last \in BOOLEAN
         /\ g.l_after_col \in Int /\ g.l_file_index \in Int /\ g.l_before_line \in Int
         /\ g.l_before_col \in Int
  BY DEF Writers, Writer

(* ... and a state from its parts. *)
LEMMA WriterMade ==
  ASSUME NEW t \in Seq(Char), NEW l \in Nat \ {0}, NEW last \in BOOLEAN, NEW col \in Int,
         NEW file \in Int, NEW before \in Int, NEW beforeCol \in Int, NEW h,
         h = Writer(t, l, last, col, file, before, beforeCol)
  PROVE  /\ h \in Writers
         /\ h.text = t /\ h.line_counter = l /\ h.item_was_last = last /\ h.l_after_col = col
         /\ h.l_file_index = file /\ h.l_before_line = before /\ h.l_before_col = beforeCol
  BY DEF Writers, Writer

(* A text that begins with t followed by x. *)
InPlace(text, t, x) ==
  /\ StartsWith(text, t)
  /\ Len(t) \in Nat /\ Len(x) \in Nat /\ Len(text) \in Nat
  /\ Len(t \o x) = Len(t) + Len(x) /\ Len(t) + Len(x) <= Len(text)
  /\ \A i \in 1 .. Len(x) : text[Len(t) + i] = x[i]

(* Each character of x then has its place in the text. *)
LEMMA PartOfText ==
  ASSUME NEW text \in Seq(Char), NEW t \in Seq(Char), NEW x \in Seq(Char),
         StartsWith(text, t \o x)
  PROVE  InPlace(text, t, x)
<1>1. /\ Len(t \o x) = Len(t) + Len(x)
      /\ \A i \in 1 .. Len(t) + Len(x) :
           (t \o x)[i] = IF i <= Len(t) THEN t[i] ELSE x[i - Len(t)]
  BY ConcatProperties
<1>2. Len(t) \in Nat /\ Len(x) \in Nat /\ Len(text) \in Nat
  OBVIOUS
<1>3. /\ Len(t) + Len(x) <= Len(text)
      /\ \A i \in 1 .. Len(t) + Len(x) : text[i] = (t \o x)[i]
  BY <1>1 DEF StartsWith
<1>4. ASSUME NEW i \in 1 .. Len(x) PROVE text[Len(t) + i] = x[i]
  <2>1. PICK j : j = Len(t) + i
    OBVIOUS
  <2>2. j \in 1 .. Len(t) + Len(x) /\ ~ (j <= Len(t)) /\ j - Len(t) = i
    BY <1>2, <2>1
  <2>3. text[j] = x[j - Len(t)]
    BY <1>1, <1>3, <2>2
  <2> QED
    BY <2>1, <2>2, <2>3
<1>5. StartsWith(text, t)
  <2>1. Len(t) <= Len(text)
    BY <1>2, <1>3
  <2>2. \A i \in 1 .. Len(t) : i \in 1 .. Len(t) + Len(x) /\ i <= Len(t)
    BY <1>2
  <2> QED
    BY <1>1, <1>3, <2>1, <2>2 DEF StartsWith
<1> QED
  BY <1>1, <1>2, <1>3, <1>4, <1>5 DEF InPlace

(* The lines that AddEnoughLines writes. *)
LEMMA LinesFollowed ==
  ASSUME NEW g \in Writers, NEW target \in Nat, g.line_counter <= target
  PROVE  LET h == AddEnoughLines(g, target)
         IN /\ h \in Writers /\ h.line_counter = target /\ Extends(g, h)
            /\ \A ds, text, misread, found :
                 /\ Context(ds, text, misread) /\ StartsWith(text, h.text)
                 /\ Follows(ds, text, misread, g, found)
                 => Follows(ds, text, misread, h, found)
<1>1. PICK h : h = AddEnoughLines(g, target)
  OBVIOUS
<1>2. /\ g.text \in Seq(Char) /\ g.line_counter \in Nat \ {0} /\ g.item_was_last \in BOOLEAN
      /\ g.l_after_col \in Int /\ g.l_file_index \in Int /\ g.l_before_line \in Int
      /\ g.l_before_col \in Int
  BY WriterParts
<1>3. CASE g.line_counter >= target
  <2>1. h = g /\ g.line_counter = target
    BY <1>1, <1>2, <1>3 DEF AddEnoughLines
  <2>2. Extends(g, g)
    <3>1. g.text \o <<>> = g.text /\ <<>> \in Seq(Char)
      BY <1>2
    <3> QED
      BY <3>1 DEF Extends
  <2> QED
    BY <1>1, <2>1, <2>2
<1>4. CASE ~ (g.line_counter >= target)
  <2>1. PICK m : m = target - g.line_counter
    OBVIOUS
  <2>2. m \in Nat \ {0} /\ target \in Nat \ {0} /\ g.line_counter + m = target
    BY <1>2, <1>4, <2>1
  <2>3. PICK x : x = [i \in 1 .. m |-> Semicolon]
    OBVIOUS
  <2>4. x \in Seq(Char) /\ Len(x) = m /\ \A i \in 1 .. m : x[i] = Semicolon
    <3>1. x \in [1 .. m -> Char]
      BY <2>3 DEF Char
    <3> QED
      BY <2>2, <2>3, <3>1
  <2>5. PICK t : t = g.text \o x
    OBVIOUS
  <2>6. t \in Seq(Char)
    BY <1>2, <2>4, <2>5, ConcatProperties
  <2>7. h = Writer(t, target, FALSE, 0, g.l_file_index, g.l_before_line, g.l_before_col)
    <3>1. h = [g EXCEPT !.text = t, !.line_counter = target, !.l_after_col = 0,
                        !.item_was_last = FALSE]
      BY <1>1, <1>4, <2>1, <2>3, <2>5 DEF AddEnoughLines
    <3>2. g = Writer(g.text, g.line_counter, g.item_was_last, g.l_after_col, g.l_file_index,
                     g.l_before_line, g.l_before_col)
      BY WriterParts
    <3> QED
      BY <3>1, <3>2 DEF Writer
  <2>8. /\ h \in Writers
        /\ h.text = t /\ h.line_counter = target /\ h.item_was_last = FALSE /\ h.l_after_col = 0
        /\ h.l_file_index = g.l_file_index /\ h.l_before_line = g.l_before_line
        /\ h.l_before_col = g.l_before_col
    <3>1. PICK last \in BOOLEAN : last = FALSE
      OBVIOUS
    <3>2. PICK zero \in Int : zero = 0
      OBVIOUS
    <3>3. h = Writer(t, target, last, zero, g.l_file_index, g.l_before_line, g.l_before_col)
      BY <2>7, <3>1, <3>2
    <3>4. /\ h \in Writers
          /\ h.text = t /\ h.line_counter = target /\ h.item_was_last = last
          /\ h.l_after_col = zero /\ h.l_file_index = g.l_file_index
          /\ h.l_before_line = g.l_before_line /\ h.l_before_col = g.l_before_col
      BY <1>2, <2>2, <2>6, <3>3, WriterMade
    <3> QED
      BY <3>1, <3>2, <3>4
  <2>9. Extends(g, h)
    BY <2>4, <2>5, <2>8 DEF Extends
  <2>10. ASSUME NEW ds, NEW text, NEW misread, NEW found, Context(ds, text, misread),
                StartsWith(text, h.text), Follows(ds, text, misread, g, found)
         PROVE  Follows(ds, text, misread, h, found)
    <3>1. Reading(ds, text, misread) /\ text \in Seq(Char)
      BY <2>10 DEF Context
    <3>2. PICK n : n = Len(g.text)
      OBVIOUS
    <3>3. /\ n \in Nat /\ Len(text) \in Nat /\ Len(t) = n + m /\ n + m <= Len(text)
          /\ \A i \in 1 .. m : text[n + i] = Semicolon
      <4>1. StartsWith(text, g.text \o x)
        BY <2>5, <2>8, <2>10
      <4>2. InPlace(text, g.text, x)
        BY <1>2, <2>4, <3>1, <4>1, PartOfText
      <4> QED
        BY <2>4, <2>5, <3>2, <4>2 DEF InPlace
    <3>4. DumpBufferToResult(ds[n], misread)
            = Reader(g.line_counter, g.l_after_col, g.l_file_index, g.l_before_line,
                     g.l_before_col, <<>>, found)
      BY <2>10, <3>2 DEF Follows
    <3>5. ds[n + m] = Reader(g.line_counter + m, 0, g.l_file_index, g.l_before_line,
                             g.l_before_col, <<>>, found)
      <4>1. g.line_counter \in Int
        BY <1>2
      <4>2. SemicolonsAfter(text, n, m)
        BY <2>2, <3>3 DEF SemicolonsAfter
      <4> QED
        BY <3>1, <3>4, <4>1, <4>2, SemicolonsRead
    <3>6. DumpBufferToResult(ds[n + m], misread) = ds[n + m]
      <4>1. ds[n + m].buffer = <<>>
        BY <3>5 DEF Reader
      <4> QED
        BY <4>1 DEF DumpBufferToResult
    <3>7. text[n + m] >= Comma
      <4>1. text[n + m] = Semicolon
        BY <2>2, <3>3
      <4> QED
        BY <4>1 DEF Comma, Semicolon
    <3> QED
      BY <2>2, <2>8, <3>3, <3>5, <3>6, <3>7 DEF Follows
  <2> QED
    BY <1>1, <2>8, <2>9, <2>10
<1> QED
  BY <1>2, <1>3, <1>4

(* The comma between two items of a line. *)
Separated(g) ==
  IF g.item_was_last THEN [g EXCEPT !.text = Append(@, Comma), !.item_was_last = FALSE] ELSE g

(* A comma has the decoder take over what it has in its buffer. *)
LEMMA CommaFollowed ==
  ASSUME NEW g \in Writers
  PROVE  LET h == Separated(g)
         IN /\ h \in Writers /\ h.line_counter = g.line_counter /\ ~ h.item_was_last
            /\ Extends(g, h)
            /\ \A ds, text, misread, found :
                 /\ Context(ds, text, misread) /\ StartsWith(text, h.text)
                 /\ Follows(ds, text, misread, g, found)
                 => Follows(ds, text, misread, h, found)
<1>1. PICK h : h = Separated(g)
  OBVIOUS
<1>2. /\ g.text \in Seq(Char) /\ g.line_counter \in Nat \ {0} /\ g.item_was_last \in BOOLEAN
      /\ g.l_after_col \in Int /\ g.l_file_index \in Int /\ g.l_before_line \in Int
      /\ g.l_before_col \in Int
  BY WriterParts
<1>3. CASE ~ g.item_was_last
  <2>1. h = g
    BY <1>1, <1>3 DEF Separated
  <2>2. Extends(g, g)
    <3>1. g.text \o <<>> = g.text /\ <<>> \in Seq(Char)
      BY <1>2
    <3> QED
      BY <3>1 DEF Extends
  <2> QED
    BY <1>1, <1>3, <2>1, <2>2
<1>4. CASE g.item_was_last
  <2>1. PICK x : x = <<Comma>>
    OBVIOUS
  <2>2. x \in Seq(Char) /\ Len(x) = 1 /\ x[1] = Comma
    BY <2>1 DEF Char
  <2>3. PICK t : t = g.text \o x
    OBVIOUS
  <2>4. t \in Seq(Char) /\ t = Append(g.text, Comma)
    <3>1. t \in Seq(Char)
      BY <1>2, <2>2, <2>3, ConcatProperties
    <3>2. \A s \in Seq(Char) : s \o <<Comma>> = Append(s, Comma)
      OBVIOUS
    <3> QED
      BY <1>2, <2>1, <2>3, <3>1, <3>2
  <2>5. PICK last \in BOOLEAN : last = FALSE
    OBVIOUS
  <2>6. h = Writer(t, g.line_counter, last, g.l_after_col, g.l_file_index, g.l_before_line,
                   g.l_before_col)
    <3>1. h = [g EXCEPT !.text = t, !.item_was_last = last]
      BY <1>1, <1>4, <2>4, <2>5 DEF Separated
    <3>2. g = Writer(g.text, g.line_counter, g.item_was_last, g.l_after_col, g.l_file_index,
                     g.l_before_line, g.l_before_col)
      BY WriterParts
    <3> QED
      BY <3>1, <3>2 DEF Writer
  <2>7. /\ h \in Writers
        /\ h.text = t /\ h.line_counter = g.line_counter /\ h.item_was_last = last
        /\ h.l_after_col = g.l_after_col
        /\ h.l_file_index = g.l_file_index /\ h.l_before_line = g.l_before_line
        /\ h.l_before_col = g.l_before_col
    <3>1. PICK l \in Nat \ {0} : l = g.line_counter
      BY <1>2
    <3>2. h = Writer(t, l, last, g.l_after_col, g.l_file_index, g.l_before_line, g.l_before_col)
      BY <2>6, <3>1
    <3>3. /\ h \in Writers
          /\ h.text = t /\ h.line_counter = l /\ h.item_was_last = last
          /\ h.l_after_col = g.l_after_col
          /\ h.l_file_index = g.l_file_index /\ h.l_before_line = g.l_before_line
          /\ h.l_before_col = g.l_before_col
      BY <1>2, <2>4, <3>2 DEF Writers, Writer
    <3> QED
      BY <3>1, <3>3
  <2>8. Extends(g, h)
    BY <2>2, <2>3, <2>7 DEF Extends
  <2>9. ASSUME NEW ds, NEW text, NEW misread, NEW found, Context(ds, text, misread),
               StartsWith(text, h.text), Follows(ds, text, misread, g, found)
        PROVE  Follows(ds, text, misread, h, found)
    <3>1. Reading(ds, text, misread) /\ text \in Seq(Char)
      BY <2>9 DEF Context
    <3>2. PICK n : n = Len(g.text)
      OBVIOUS
    <3>3. InPlace(text, g.text, x)
      BY <1>2, <2>2, <2>3, <2>7, <2>9, <3>1, PartOfText
    <3>4. /\ n \in Nat /\ Len(t) = n + 1 /\ n + 1 \in 1 .. Len(text)
          /\ text[n + 1] = Comma /\ n + 1 - 1 = n
      BY <2>2, <2>3, <3>2, <3>3 DEF InPlace
    <3>5. DumpBufferToResult(ds[n], misread)
            = Reader(g.line_counter, g.l_after_col, g.l_file_index, g.l_before_line,
                     g.l_before_col, <<>>, found)
      BY <2>9, <3>2 DEF Follows
    <3>6. PICK k \in 1 .. Len(text) : k = n + 1
      BY <3>4
    <3>7. ds[k] = DumpBufferToResult(ds[k - 1], misread)
      BY <3>1, <3>4, <3>6, CommaRead
    <3>8. ds[k] = Reader(g.line_counter, g.l_after_col, g.l_file_index, g.l_before_line,
                         g.l_before_col, <<>>, found)
      BY <3>4, <3>5, <3>6, <3>7
    <3>9. DumpBufferToResult(ds[k], misread) = ds[k]
      <4>1. ds[k].buffer = <<>>
        BY <3>8 DEF Reader
      <4> QED
        BY <4>1 DEF DumpBufferToResult
    <3>10. text[k] >= Comma
      BY <3>4, <3>6 DEF Comma
    <3> QED
      BY <2>7, <3>4, <3>6, <3>8, <3>9, <3>10 DEF Follows
  <2> QED
    BY <1>1, <2>5, <2>7, <2>8, <2>9
<1> QED
  BY <1>2, <1>3, <1>4

(* What AddLocation writes of the item in a line.                            *)
FoundOf(found, l, column, origin) ==
  IF origin.fileId < 0 THEN found
  ELSE Append(found, Mapping(l, column, origin.fileId, origin.line, origin.column))

(* Concatenation is associative. *)
Catenated(x, y) == x \o y
(* It is associative. *)
LEMMA Associative ==
  ASSUME NEW X, NEW r \in Seq(X), NEW s \in Seq(X), NEW t \in Seq(X)
  PROVE  Catenated(Catenated(r, s), t) = Catenated(r, Catenated(s, t)) /\ Catenated(r, s) \in Seq(X)
BY DEF Catenated

(* Five parts of a text. *)
InOrder(t, s1, s2, s3, s4) == Catenated(Catenated(Catenated(Catenated(t, s1), s2), s3), s4)
(* The four can be put together first. *)
LEMMA FiveParts ==
  ASSUME NEW X, NEW t \in Seq(X), NEW s1 \in Seq(X), NEW s2 \in Seq(X), NEW s3 \in Seq(X),
         NEW s4 \in Seq(X)
  PROVE  InOrder(t, s1, s2, s3, s4) = Catenated(t, Catenated(s1, Catenated(s2, Catenated(s3, s4))))
<1>1. PICK p1 \in Seq(X), p2 \in Seq(X), q2 \in Seq(X), q1 \in Seq(X) :
        /\ p1 = Catenated(t, s1) /\ p2 = Catenated(p1, s2)
        /\ q2 = Catenated(s3, s4) /\ q1 = Catenated(s2, q2)
  BY Associative
<1>2. Catenated(Catenated(p2, s3), s4) = Catenated(p2, Catenated(s3, s4))
  BY Associative
<1>3. Catenated(Catenated(p1, s2), q2) = Catenated(p1, Catenated(s2, q2))
  BY Associative
<1>4. Catenated(Catenated(t, s1), q1) = Catenated(t, Catenated(s1, q1))
  BY Associative
<1> QED
  BY <1>1, <1>2, <1>3, <1>4 DEF InOrder

(* What AddLocation writes is a segment. *)
LEMMA SegmentText ==
  ASSUME NEW t \in Seq(Char), NEW a \in Int, NEW b \in Int, NEW c \in Int, NEW e \in Int
  PROVE  /\ InOrder(t, IntToVLQ(a), IntToVLQ(b), IntToVLQ(c), IntToVLQ(e))
              = Catenated(t, Segment(a, b, c, e))
         /\ Segment(a, b, c, e) \in Seq(Char)
<1>1. \A x \in Code : x \in Char
  BY DEF Char
<1>2. \A s \in Seq(Code) : s \in Seq(Char)
  BY <1>1
<1>3. PICK s1 \in Seq(Char), s2 \in Seq(Char), s3 \in Seq(Char), s4 \in Seq(Char) :
        s1 = IntToVLQ(a) /\ s2 = IntToVLQ(b) /\ s3 = IntToVLQ(c) /\ s4 = IntToVLQ(e)
  BY <1>2, IntegerTyped
<1>4. InOrder(t, s1, s2, s3, s4) = Catenated(t, Catenated(s1, Catenated(s2, Catenated(s3, s4))))
  BY FiveParts
<1>5. Segment(a, b, c, e) = Catenated(s1, Catenated(s2, Catenated(s3, s4)))
  BY <1>3 DEF Segment, Catenated
<1>6. Segment(a, b, c, e) \in Seq(Char)
  BY <1>2, SegmentTyped
<1> QED
  BY <1>3, <1>4, <1>5, <1>6

(* An item's location. *)
LEMMA LocationFollowed ==
  ASSUME NEW g \in Writers, ~ g.item_was_last, NEW column \in Int, NEW origin \in Location
  PROVE  LET h == AddLocation(g, column, origin)
         IN /\ h \in Writers /\ h.line_counter = g.line_counter /\ Extends(g, h)
            /\ \A ds, text, misread, found :
                 /\ Context(ds, text, misread) /\ StartsWith(text, h.text)
                 /\ Follows(ds, text, misread, g, found)
                 => Follows(ds, text, misread, h,
                            FoundOf(found, g.line_counter, column, origin))
<1>1. PICK h : h = AddLocation(g, column, origin)
  OBVIOUS
<1>2. /\ g.text \in Seq(Char) /\ g.line_counter \in Nat \ {0} /\ g.item_was_last \in BOOLEAN
      /\ g.l_after_col \in Int /\ g.l_file_index \in Int /\ g.l_before_line \in Int
      /\ g.l_before_col \in Int
  BY WriterParts
<1>3. origin.fileId \in Int /\ origin.line \in Int /\ origin.column \in Int
  BY DEF Location
<1>4. CASE origin.fileId < 0
  <2>1. h = g /\ \A found : FoundOf(found, g.line_counter, column, origin) = found
    BY <1>1, <1>4 DEF AddLocation, FoundOf
  <2>2. Extends(g, g)
    <3>1. g.text \o <<>> = g.text /\ <<>> \in Seq(Char)
      BY <1>2
    <3> QED
      BY <3>1 DEF Extends
  <2> QED
    BY <1>1, <2>1, <2>2
<1>5. CASE ~ (origin.fileId < 0)
  <2>1. PICK a \in Int, b \in Int, c \in Int, e \in Int :
          /\ a = column - g.l_after_col /\ b = origin.fileId - g.l_file_index
          /\ c = origin.line - g.l_before_line /\ e = origin.column - g.l_before_col
    <3>1. \A u, v \in Int : v - u \in Int
      OBVIOUS
    <3>2. /\ column - g.l_after_col \in Int /\ origin.fileId - g.l_file_index \in Int
          /\ origin.line - g.l_before_line \in Int /\ origin.column - g.l_before_col \in Int
      BY <1>2, <1>3, <3>1
    <3> QED
      BY <3>2, Zenon
  <2>2. PICK x : x = Segment(a, b, c, e)
    OBVIOUS
  <2>3. x \in Seq(Code) /\ x \in Seq(Char) /\ x # <<>>
    BY <1>2, <2>2, SegmentTyped, SegmentText
  <2>4. PICK t : t = g.text \o x
    OBVIOUS
  <2>5. t \in Seq(Char)
    BY <1>2, <2>3, <2>4, ConcatProperties
  <2>6. PICK last \in BOOLEAN : last = TRUE
    OBVIOUS
  <2>7. h = Writer(t, g.line_counter, last, column, origin.fileId, origin.line, origin.column)
    <3>1. t = g.text \o IntToVLQ(a) \o IntToVLQ(b) \o IntToVLQ(c) \o IntToVLQ(e)
      <4>1. InOrder(g.text, IntToVLQ(a), IntToVLQ(b), IntToVLQ(c), IntToVLQ(e))
              = Catenated(g.text, x)
        BY <1>2, <2>2, SegmentText
      <4>2. Catenated(g.text, x) = t
        BY <2>4 DEF Catenated
      <4>3. InOrder(g.text, IntToVLQ(a), IntToVLQ(b), IntToVLQ(c), IntToVLQ(e))
              = g.text \o IntToVLQ(a) \o IntToVLQ(b) \o IntToVLQ(c) \o IntToVLQ(e)
        BY DEF InOrder, Catenated
      <4> QED
        BY <4>1, <4>2, <4>3
    <3>2. h = [g EXCEPT !.text = t, !.l_after_col = column, !.l_file_index = origin.fileId,
                        !.l_before_line = origin.line, !.l_before_col = origin.column,
                        !.item_was_last = last]
      BY <1>1, <1>5, <2>1, <2>6, <3>1 DEF AddLocation
    <3>3. g = Writer(g.text, g.line_counter, g.item_was_last, g.l_after_col, g.l_file_index,
                     g.l_before_line, g.l_before_col)
      BY WriterParts
    <3> QED
      BY <3>2, <3>3 DEF Writer
  <2>8. /\ h \in Writers
        /\ h.text = t /\ h.line_counter = g.line_counter /\ h.item_was_last = last
        /\ h.l_after_col = column /\ h.l_file_index = origin.fileId
        /\ h.l_before_line = origin.line /\ h.l_before_col = origin.column
    BY <1>2, <1>3, <2>5, <2>7 DEF Writers, Writer
  <2>9. Extends(g, h)
    BY <2>3, <2>4, <2>8 DEF Extends
  <2>10. ASSUME NEW ds, NEW text, NEW misread, NEW found, Context(ds, text, misread),
                StartsWith(text, h.text), Follows(ds, text, misread, g, found)
         PROVE  Follows(ds, text, misread, h,
                        FoundOf(found, g.line_counter, column, origin))
    <3>1. Reading(ds, text, misread) /\ text \in Seq(Char) /\ SignsLegible(text, misread)
      BY <2>10 DEF Context
    <3>2. PICK n : n = Len(g.text)
      OBVIOUS
    <3>3. InPlace(text, g.text, x)
      BY <1>2, <2>3, <2>4, <2>8, <2>10, <3>1, PartOfText
    <3>4. /\ n \in Nat /\ Len(text) \in Nat /\ Len(x) \in Nat /\ Len(t) = n + Len(x)
          /\ n + Len(x) <= Len(text) /\ \A i \in 1 .. Len(x) : text[n + i] = x[i]
      BY <2>3, <2>4, <3>2, <3>3 DEF InPlace
    <3>5. /\ ds[n] = Reader(g.line_counter, g.l_after_col, g.l_file_index, g.l_before_line,
                            g.l_before_col, <<>>, found)
          /\ n = 0 \/ text[n] >= Comma
      BY <2>10, <3>2 DEF Follows
    <3>6. CharactersAfter(text, n, x)
      BY <2>3, <3>4 DEF CharactersAfter
    <3>7. ds[n + Len(x)] = Reader(g.line_counter, g.l_after_col, g.l_file_index,
                                  g.l_before_line, g.l_before_col, x, found)
      BY <3>1, <3>5, <3>6, CharactersRead
    <3>8. Legible(x, misread)
      <4> SUFFICES ASSUME NEW i \in 1 .. Len(x), i = 1 \/ x[i - 1] < More
                   PROVE  x[i] \notin misread
        BY DEF Legible
      <4>1. PICK k : k = n + i
        OBVIOUS
      <4>2. k \in 1 .. Len(text) /\ text[k] = x[i]
        BY <3>4, <4>1
      <4>3. k = 1 \/ text[k - 1] >= Comma \/ text[k - 1] < More
        <5>1. CASE i = 1
          BY <3>4, <3>5, <4>1, <5>1
        <5>2. CASE i # 1
          <6>1. i - 1 \in 1 .. Len(x) /\ k - 1 = n + (i - 1)
            BY <3>4, <4>1, <5>2
          <6> QED
            BY <3>4, <5>2, <6>1
        <5> QED
          BY <5>1, <5>2
      <4> QED
        BY <3>1, <4>2, <4>3 DEF SignsLegible
    <3>9. DumpBufferToResult(ds[n + Len(x)], misread)
            = Reader(g.line_counter, g.l_after_col + a, g.l_file_index + b,
                     g.l_before_line + c, g.l_before_col + e, <<>>,
                     Append(found, Mapping(g.line_counter, g.l_after_col + a,
                                           g.l_file_index + b, g.l_before_line + c,
                                           g.l_before_col + e)))
      BY <1>2, <2>2, <3>7, <3>8, SegmentRead
    <3>10. /\ g.l_after_col + a = column /\ g.l_file_index + b = origin.fileId
           /\ g.l_before_line + c = origin.line /\ g.l_before_col + e = origin.column
      <4>1. \A u, v \in Int : u + (v - u) = v
        OBVIOUS
      <4> QED
        BY <1>2, <1>3, <2>1, <4>1
    <3>11. FoundOf(found, g.line_counter, column, origin)
             = Append(found, Mapping(g.line_counter, column, origin.fileId, origin.line,
                                     origin.column))
      BY <1>5 DEF FoundOf
    <3> QED
      BY <2>6, <2>8, <3>4, <3>9, <3>10, <3>11 DEF Follows
  <2> QED
    BY <1>1, <2>8, <2>9, <2>10
<1> QED
  BY <1>3, <1>4, <1>5

(* An item that FinalizeMapping is given. *)
Item == [line : Nat \ {0}, column : Int, origin : Location]

(* A text that begins with what h has written begins with what g has.        *)
LEMMA StartsEarlier ==
  ASSUME NEW g \in Writers, NEW h, Extends(g, h), NEW text \in Seq(Char),
         StartsWith(text, h.text)
  PROVE  StartsWith(text, g.text)
<1>1. PICK x \in Seq(Char) : h.text = g.text \o x
  BY DEF Extends
<1>2. StartsWith(text, g.text \o x) /\ g.text \in Seq(Char)
  BY <1>1, WriterParts
<1>3. InPlace(text, g.text, x)
  BY <1>2, PartOfText
<1> QED
  BY <1>3 DEF InPlace

(* One extension after another. *)
LEMMA ExtendsFurther ==
  ASSUME NEW g \in Writers, NEW h, NEW k, Extends(g, h), Extends(h, k)
  PROVE  Extends(g, k)
<1>1. PICK x \in Seq(Char), y \in Seq(Char) : h.text = g.text \o x /\ k.text = h.text \o y
  BY DEF Extends
<1>2. PICK t \in Seq(Char) : t = g.text
  BY WriterParts
<1>3. Catenated(Catenated(t, x), y) = Catenated(t, Catenated(x, y)) /\ Catenated(x, y) \in Seq(Char)
  BY Associative
<1>4. k.text = Catenated(Catenated(t, x), y)
  BY <1>1, <1>2 DEF Catenated
<1>5. k.text = g.text \o Catenated(x, y)
  BY <1>2, <1>3, <1>4 DEF Catenated
<1> QED
  BY <1>3, <1>5 DEF Extends

(* An item. *)
LEMMA ItemFollowed ==
  ASSUME NEW g \in Writers, NEW item \in Item, g.line_counter <= item.line
  PROVE  LET h == AddItem(g, item)
         IN /\ h \in Writers /\ h.line_counter = item.line /\ Extends(g, h)
            /\ \A ds, text, misread, found :
                 /\ Context(ds, text, misread) /\ StartsWith(text, h.text)
                 /\ Follows(ds, text, misread, g, found)
                 => Follows(ds, text, misread, h,
                            FoundOf(found, item.line, item.column, item.origin))
<1>1. item.line \in Nat /\ item.column \in Int /\ item.origin \in Location
  BY DEF Item
<1>2. PICK h1 : h1 = AddEnoughLines(g, item.line)
  OBVIOUS
<1>3. /\ h1 \in Writers /\ h1.line_counter = item.line /\ Extends(g, h1)
      /\ \A ds, text, misread, found :
           /\ Context(ds, text, misread) /\ StartsWith(text, h1.text)
           /\ Follows(ds, text, misread, g, found)
           => Follows(ds, text, misread, h1, found)
  BY <1>1, <1>2, LinesFollowed
<1>4. PICK h2 : h2 = Separated(h1)
  OBVIOUS
<1>5. /\ h2 \in Writers /\ h2.line_counter = item.line /\ ~ h2.item_was_last /\ Extends(h1, h2)
      /\ \A ds, text, misread, found :
           /\ Context(ds, text, misread) /\ StartsWith(text, h2.text)
           /\ Follows(ds, text, misread, h1, found)
           => Follows(ds, text, misread, h2, found)
  BY <1>3, <1>4, CommaFollowed
<1>6. PICK h : h = AddLocation(h2, item.column, item.origin)
  OBVIOUS
<1>7. /\ h \in Writers /\ h.line_counter = item.line /\ Extends(h2, h)
      /\ \A ds, text, misread, found :
           /\ Context(ds, text, misread) /\ StartsWith(text, h.text)
           /\ Follows(ds, text, misread, h2, found)
           => Follows(ds, text, misread, h,
                      FoundOf(found, item.line, item.column, item.origin))
  BY <1>1, <1>5, <1>6, LocationFollowed
<1>8. h = AddItem(g, item)
  BY <1>2, <1>4, <1>6 DEF AddItem, Separated
<1>9. Extends(h1, h) /\ Extends(g, h)
  BY <1>3, <1>5, <1>7, ExtendsFurther
<1>10. ASSUME NEW ds, NEW text, NEW misread, NEW found, Context(ds, text, misread),
              StartsWith(text, h.text), Follows(ds, text, misread, g, found)
       PROVE  Follows(ds, text, misread, h, FoundOf(found, item.line, item.column, item.origin))
  <2>1. text \in Seq(Char)
    BY <1>10 DEF Context
  <2>2. StartsWith(text, h2.text)
    BY <1>5, <1>7, <1>10, <2>1, StartsEarlier
  <2>3. StartsWith(text, h1.text)
    BY <1>3, <1>5, <2>1, <2>2, StartsEarlier
  <2>4. Follows(ds, text, misread, h1, found)
    BY <1>3, <1>10, <2>3
  <2>5. Follows(ds, text, misread, h2, found)
    BY <1>5, <1>10, <2>2, <2>4
  <2> QED
    BY <1>7, <1>10, <2>5
<1> QED
  BY <1>7, <1>8, <1>9, <1>10

-----------------------------------------------------------------------------
(* All items. *)

(* The generator's states on the way through them. *)
Generating(gs, items) ==
  /\ gs[0] = Generator
  /\ \A k \in 1 .. Len(items) : gs[k] = AddItem(gs[k - 1], items[k])

(* The text is that of the generator's last state. *)
LEMMA GeneratingSteps ==
  ASSUME NEW items, Len(items) \in Nat
  PROVE  \E gs : Generating(gs, items) /\ FinalizeMapping(items) = gs[Len(items)].text
<1> DEFINE Next(g, i) == IF i = 0 THEN Generator ELSE AddItem(g[i - 1], items[i])
           T == {k \in 0 .. Len(items) : \E g : g = [i \in 0 .. k |-> Next(g, i)]}
<1>1. 0 \in T
  <2> DEFINE g == [i \in 0 .. 0 |-> Generator]
  <2>1. \A i \in 0 .. 0 : Next(g, i) = Generator
    OBVIOUS
  <2>2. g = [i \in 0 .. 0 |-> Next(g, i)]
    <3> HIDE DEF Next
    <3> QED
      BY <2>1
  <2> HIDE DEF g, Next
  <2> QED
    BY <2>2
<1>2. ASSUME NEW k \in 0 .. Len(items) - 1, k \in T PROVE k + 1 \in T
  <2>1. PICK g : g = [i \in 0 .. k |-> Next(g, i)]
    BY <1>2
  <2> DEFINE h == [i \in 0 .. k + 1 |-> Next(g, i)]
  <2>2. \A i \in 0 .. k : h[i] = g[i]
    <3> HIDE DEF Next
    <3> QED
      BY <2>1
  <2>3. ASSUME NEW i \in 0 .. k + 1 PROVE Next(g, i) = Next(h, i)
    <3>1. i = 0 \/ i - 1 \in 0 .. k
      OBVIOUS
    <3>2. i = 0 \/ h[i - 1] = g[i - 1]
      <4> HIDE DEF h
      <4> QED
        BY <2>2, <3>1
    <3> HIDE DEF h
    <3> QED
      BY <3>2
  <2>4. h = [i \in 0 .. k + 1 |-> Next(h, i)]
    <3> HIDE DEF Next
    <3> QED
      BY <2>3
  <2> HIDE DEF h
  <2> QED
    BY <2>4
<1>3. Climbs(T, Len(items))
  BY <1>1, <1>2 DEF Climbs
<1>4. Len(items) \in T
  <2> HIDE DEF T
  <2> QED
    BY <1>3, CountingUp
<1> DEFINE gs == CHOOSE g : g = [i \in 0 .. Len(items) |-> Next(g, i)]
<1>5. gs = [i \in 0 .. Len(items) |-> Next(gs, i)]
  <2>1. \E g : g = [i \in 0 .. Len(items) |-> Next(g, i)]
    BY <1>4
  <2> HIDE DEF Next
  <2> QED
    BY <2>1
<1>6. FinalizeMapping(items) = gs[Len(items)].text
  BY DEF FinalizeMapping
<1> HIDE DEF gs
<1>7. Generating(gs, items)
  <2>1. gs[0] = Next(gs, 0) /\ \A k \in 1 .. Len(items) : gs[k] = Next(gs, k)
    <3> HIDE DEF Next
    <3> QED
      BY <1>5
  <2> QED
    BY <2>1 DEF Generating
<1> QED
  BY <1>6, <1>7

(* The items that come from a file, as mappings. *)
Located(items) ==
  LET upTo[k \in 0 .. Len(items)] ==
        IF k = 0 THEN <<>>
        ELSE FoundOf(upTo[k - 1], items[k].line, items[k].column, items[k].origin)
  IN  upTo[Len(items)]

Locating(fs, items) ==
  /\ fs[0] = <<>>
  /\ \A k \in 1 .. Len(items) :
       fs[k] = FoundOf(fs[k - 1], items[k].line, items[k].column, items[k].origin)

(* Located is the last of such a sequence. *)
LEMMA LocatingSteps ==
  ASSUME NEW items, Len(items) \in Nat
  PROVE  \E fs : Locating(fs, items) /\ Located(items) = fs[Len(items)]
<1> DEFINE Next(g, i) == IF i = 0 THEN <<>>
                      ELSE FoundOf(g[i - 1], items[i].line, items[i].column, items[i].origin)
           T == {k \in 0 .. Len(items) : \E g : g = [i \in 0 .. k |-> Next(g, i)]}
<1>1. 0 \in T
  <2> DEFINE g == [i \in 0 .. 0 |-> <<>>]
  <2>1. \A i \in 0 .. 0 : Next(g, i) = <<>>
    OBVIOUS
  <2>2. g = [i \in 0 .. 0 |-> Next(g, i)]
    <3> HIDE DEF Next
    <3> QED
      BY <2>1
  <2> HIDE DEF g, Next
  <2> QED
    BY <2>2
<1>2. ASSUME NEW k \in 0 .. Len(items) - 1, k \in T PROVE k + 1 \in T
  <2>1. PICK g : g = [i \in 0 .. k |-> Next(g, i)]
    BY <1>2
  <2> DEFINE h == [i \in 0 .. k + 1 |-> Next(g, i)]
  <2>2. \A i \in 0 .. k : h[i] = g[i]
    <3> HIDE DEF Next
    <3> QED
      BY <2>1
  <2>3. ASSUME NEW i \in 0 .. k + 1 PROVE Next(g, i) = Next(h, i)
    <3>1. i = 0 \/ i - 1 \in 0 .. k
      OBVIOUS
    <3>2. i = 0 \/ h[i - 1] = g[i - 1]
      <4> HIDE DEF h
      <4> QED
        BY <2>2, <3>1
    <3> HIDE DEF h
    <3> QED
      BY <3>2
  <2>4. h = [i \in 0 .. k + 1 |-> Next(h, i)]
    <3> HIDE DEF Next
    <3> QED
      BY <2>3
  <2> HIDE DEF h
  <2> QED
    BY <2>4
<1>3. Climbs(T, Len(items))
  BY <1>1, <1>2 DEF Climbs
<1>4. Len(items) \in T
  <2> HIDE DEF T
  <2> QED
    BY <1>3, CountingUp
<1> DEFINE fs == CHOOSE g : g = [i \in 0 .. Len(items) |-> Next(g, i)]
<1>5. fs = [i \in 0 .. Len(items) |-> Next(fs, i)]
  <2>1. \E g : g = [i \in 0 .. Len(items) |-> Next(g, i)]
    BY <1>4
  <2> HIDE DEF Next
  <2> QED
    BY <2>1
<1>6. Located(items) = fs[Len(items)]
  BY DEF Located
<1> HIDE DEF fs
<1>7. Locating(fs, items)
  <2>1. fs[0] = Next(fs, 0) /\ \A k \in 1 .. Len(items) : fs[k] = Next(fs, k)
    <3> HIDE DEF Next
    <3> QED
      BY <1>5
  <2> QED
    BY <2>1 DEF Locating
<1> QED
  BY <1>6, <1>7

(* ... of which there are only one. *)
LEMMA LocatedIs ==
  ASSUME NEW items, Len(items) \in Nat, NEW fs, Locating(fs, items)
  PROVE  Located(items) = fs[Len(items)]
<1>1. PICK hs : Locating(hs, items) /\ Located(items) = hs[Len(items)]
  BY LocatingSteps
<1> DEFINE T == {k \in 0 .. Len(items) : hs[k] = fs[k]}
<1>2. 0 \in T
  BY <1>1 DEF Locating
<1>3. ASSUME NEW k \in 0 .. Len(items) - 1, k \in T PROVE k + 1 \in T
  <2>1. PICK j \in 1 .. Len(items) : j = k + 1 /\ j - 1 = k
    OBVIOUS
  <2>2. hs[j] = fs[j]
    BY <1>1, <1>3, <2>1 DEF Locating
  <2> QED
    BY <2>1, <2>2
<1>4. Climbs(T, Len(items))
  BY <1>2, <1>3 DEF Climbs
<1>5. Len(items) \in T
  <2> HIDE DEF T
  <2> QED
    BY <1>4, CountingUp
<1> QED
  BY <1>1, <1>5

(* The lines of the items do not decrease. *)
Ordered(items) == \A i \in 1 .. Len(items) - 1 : items[i].line <= items[i + 1].line

(* The generator's states have types, and each writes on. *)
LEMMA GeneratorAdvances ==
  ASSUME NEW items \in Seq(Item), Ordered(items), NEW gs, Generating(gs, items)
  PROVE  /\ \A k \in 0 .. Len(items) : gs[k] \in Writers
         /\ \A k \in 1 .. Len(items) :
              /\ items[k] \in Item /\ gs[k - 1].line_counter <= items[k].line
              /\ Extends(gs[k - 1], gs[k])
<1>1. Len(items) \in Nat /\ \A k \in 1 .. Len(items) : items[k] \in Item
  OBVIOUS
<1>2. \A item \in Item : item.line \in Nat \ {0}
  BY DEF Item
<1> DEFINE T == {k \in 0 .. Len(items) :
                   /\ gs[k] \in Writers
                   /\ gs[k].line_counter = IF k = 0 THEN 1 ELSE items[k].line}
<1>3. 0 \in T
  <2>1. gs[0] = Generator
    BY DEF Generating
  <2>2. gs[0] \in Writers /\ gs[0].line_counter = 1
    BY <2>1 DEF Generator, Writers
  <2> QED
    BY <1>1, <2>2
<1>4. ASSUME NEW k \in 0 .. Len(items) - 1, k \in T PROVE gs[k].line_counter <= items[k + 1].line
  <2>1. CASE k = 0
    <3>1. 1 \in 1 .. Len(items) /\ k + 1 = 1
      BY <1>1, <2>1
    <3>2. items[1].line \in Nat \ {0}
      BY <1>1, <1>2, <3>1
    <3> QED
      BY <1>4, <2>1, <3>1, <3>2
  <2>2. CASE k # 0
    <3>1. k \in 1 .. Len(items) - 1
      BY <1>1, <2>2
    <3> QED
      BY <1>4, <2>2, <3>1 DEF Ordered
  <2> QED
    BY <2>1, <2>2
<1>5. ASSUME NEW k \in 0 .. Len(items) - 1, k \in T
      PROVE  k + 1 \in T /\ Extends(gs[k], gs[k + 1])
  <2>1. PICK j \in 1 .. Len(items) : j = k + 1 /\ j - 1 = k
    BY <1>1
  <2>2. gs[j] = AddItem(gs[k], items[j])
    BY <2>1 DEF Generating
  <2>3. gs[k] \in Writers /\ items[j] \in Item /\ gs[k].line_counter <= items[j].line
    BY <1>1, <1>4, <1>5, <2>1
  <2>4. gs[j] \in Writers /\ gs[j].line_counter = items[j].line /\ Extends(gs[k], gs[j])
    BY <2>2, <2>3, ItemFollowed
  <2>5. j \in 0 .. Len(items) /\ j # 0
    BY <1>1
  <2> QED
    BY <2>1, <2>4, <2>5
<1>6. Climbs(T, Len(items))
  BY <1>3, <1>5 DEF Climbs
<1>7. \A k \in 0 .. Len(items) : k \in T
  <2> HIDE DEF T
  <2> QED
    BY <1>1, <1>6, CountingUp
<1>8. ASSUME NEW k \in 1 .. Len(items)
      PROVE  gs[k - 1].line_counter <= items[k].line /\ Extends(gs[k - 1], gs[k])
  <2>1. PICK j \in 0 .. Len(items) - 1 : j = k - 1 /\ j + 1 = k /\ j \in 0 .. Len(items)
    <3>1. k - 1 \in 0 .. Len(items) - 1 /\ k - 1 + 1 = k /\ k - 1 \in 0 .. Len(items)
      BY <1>1
    <3> QED
      BY <3>1
  <2>2. j \in T
    BY <1>7, <2>1
  <2> HIDE DEF T
  <2>3. gs[j].line_counter <= items[j + 1].line /\ Extends(gs[j], gs[j + 1])
    BY <1>4, <1>5, <2>2
  <2> QED
    BY <2>1, <2>3
<1> QED
  BY <1>1, <1>7, <1>8

(* What the last state has written begins with what each has. *)
LEMMA AllStartText ==
  ASSUME NEW items \in Seq(Item), Ordered(items), NEW gs, Generating(gs, items),
         NEW k \in 0 .. Len(items)
  PROVE  StartsWith(gs[Len(items)].text, gs[k].text)
<1>1. /\ \A i \in 0 .. Len(items) : gs[i] \in Writers
      /\ \A i \in 1 .. Len(items) : Extends(gs[i - 1], gs[i])
  BY GeneratorAdvances
<1>2. Len(items) \in Nat
  OBVIOUS
<1>3. PICK text : text = gs[Len(items)].text
  OBVIOUS
<1>4. text \in Seq(Char)
  BY <1>1, <1>2, <1>3, WriterParts
<1> DEFINE T == {i \in 0 .. Len(items) : StartsWith(text, gs[Len(items) - i].text)}
<1>5. 0 \in T
  <2>1. Len(items) - 0 = Len(items)
    BY <1>2
  <2>2. StartsWith(text, text)
    BY <1>4 DEF StartsWith
  <2> QED
    BY <1>2, <1>3, <2>1, <2>2
<1>6. ASSUME NEW i \in 0 .. Len(items) - 1, i \in T PROVE i + 1 \in T
  <2>1. PICK j \in 1 .. Len(items) : j = Len(items) - i /\ j - 1 = Len(items) - (i + 1)
    <3>1. Len(items) - i \in 1 .. Len(items) /\ Len(items) - i - 1 = Len(items) - (i + 1)
      BY <1>2
    <3> QED
      BY <3>1
  <2>2. StartsWith(text, gs[j].text)
    BY <1>6, <2>1
  <2>3. gs[j - 1] \in Writers /\ Extends(gs[j - 1], gs[j])
    <3>1. j - 1 \in 0 .. Len(items)
      BY <1>2
    <3> QED
      BY <1>1, <3>1
  <2>4. StartsWith(text, gs[j - 1].text)
    BY <1>4, <2>2, <2>3, StartsEarlier
  <2>5. i + 1 \in 0 .. Len(items)
    BY <1>2
  <2> QED
    BY <2>1, <2>4, <2>5
<1>7. Climbs(T, Len(items))
  BY <1>5, <1>6 DEF Climbs
<1>8. \A i \in 0 .. Len(items) : i \in T
  <2> HIDE DEF T
  <2> QED
    BY <1>2, <1>7, CountingUp
<1>9. Len(items) - k \in 0 .. Len(items) /\ Len(items) - (Len(items) - k) = k
  BY <1>2
<1>10. Len(items) - k \in T
  BY <1>8, <1>9
<1> HIDE DEF T
<1>11. PICK i : i = Len(items) - k
  OBVIOUS
<1>12. StartsWith(text, gs[Len(items) - i].text)
  BY <1>10, <1>11 DEF T
<1> QED
  BY <1>3, <1>9, <1>11, <1>12

(* The decoder finds the items in what was written of them, as long as it    *)
(* does not misread the sign of a number.                                    *)
LEMMA ItemsDecoded ==
  ASSUME NEW items \in Seq(Item), Ordered(items), NEW misread,
         SignsLegible(FinalizeMapping(items), misread)
  PROVE  DecodeWith(FinalizeMapping(items), misread) = Located(items)
<1>1. Len(items) \in Nat
  OBVIOUS
<1>2. PICK gs : Generating(gs, items) /\ FinalizeMapping(items) = gs[Len(items)].text
  BY <1>1, GeneratingSteps
<1>3. PICK fs : Locating(fs, items) /\ Located(items) = fs[Len(items)]
  BY <1>1, LocatingSteps
<1>4. PICK text : text = FinalizeMapping(items)
  OBVIOUS
<1>5. /\ \A k \in 0 .. Len(items) : gs[k] \in Writers
      /\ \A k \in 1 .. Len(items) : items[k] \in Item /\ gs[k - 1].line_counter <= items[k].line
  BY <1>2, GeneratorAdvances
<1>6. text \in Seq(Char) /\ Len(text) \in Nat
  <2>1. gs[Len(items)].text \in Seq(Char)
    BY <1>1, <1>5, WriterParts
  <2> QED
    BY <1>2, <1>4, <2>1
<1>7. \A k \in 0 .. Len(items) : StartsWith(text, gs[k].text)
  BY <1>2, <1>4, AllStartText
<1>8. PICK ds : /\ Reading(ds, text, misread)
                /\ DecodeWith(text, misread) = DumpBufferToResult(ds[Len(text)], misread).content
  BY <1>6, DecodingSteps
<1>9. Context(ds, text, misread)
  BY <1>4, <1>6, <1>8 DEF Context
<1> DEFINE T == {k \in 0 .. Len(items) : Follows(ds, text, misread, gs[k], fs[k])}
<1>10. 0 \in T
  <2>1. gs[0] = Generator /\ fs[0] = <<>> /\ ds[0] = Decoder
    BY <1>2, <1>3, <1>8 DEF Generating, Locating, Reading
  <2>2. DumpBufferToResult(Decoder, misread) = Decoder
    BY DEF DumpBufferToResult, Decoder
  <2>3. Decoder = Reader(1, 0, 0, 1, 0, <<>>, <<>>)
    BY DEF Decoder, Reader
  <2>4. /\ Len(Generator.text) = 0 /\ Generator.line_counter = 1 /\ Generator.l_after_col = 0
        /\ Generator.l_file_index = 0 /\ Generator.l_before_line = 1
        /\ Generator.l_before_col = 0
    BY DEF Generator
  <2>5. Follows(ds, text, misread, Generator, <<>>)
    BY <2>1, <2>2, <2>3, <2>4 DEF Follows
  <2> QED
    BY <1>1, <2>1, <2>5
<1>11. ASSUME NEW k \in 0 .. Len(items) - 1, k \in T PROVE k + 1 \in T
  <2>1. PICK j \in 1 .. Len(items) : j = k + 1 /\ j - 1 = k /\ j \in 0 .. Len(items)
    BY <1>1
  <2>2. gs[j] = AddItem(gs[k], items[j])
    BY <1>2, <2>1 DEF Generating
  <2>3. fs[j] = FoundOf(fs[k], items[j].line, items[j].column, items[j].origin)
    BY <1>3, <2>1 DEF Locating
  <2>4. gs[k] \in Writers /\ items[j] \in Item /\ gs[k].line_counter <= items[j].line
    BY <1>1, <1>5, <2>1
  <2>5. StartsWith(text, gs[j].text)
    BY <1>7, <2>1
  <2>6. Follows(ds, text, misread, gs[j], fs[j])
    BY <1>9, <1>11, <2>2, <2>3, <2>4, <2>5, ItemFollowed
  <2> QED
    BY <2>1, <2>6
<1>12. Climbs(T, Len(items))
  BY <1>10, <1>11 DEF Climbs
<1>13. Len(items) \in T
  <2> HIDE DEF T
  <2> QED
    BY <1>1, <1>12, CountingUp
<1>14. Follows(ds, text, misread, gs[Len(items)], fs[Len(items)])
  BY <1>13
<1>15. DumpBufferToResult(ds[Len(text)], misread).content = fs[Len(items)]
  <2>1. \A l, col, source, before, beforeCol, content :
          Reader(l, col, source, before, beforeCol, <<>>, content).content = content
    BY DEF Reader
  <2> QED
    BY <1>2, <1>4, <1>14, <2>1 DEF Follows
<1> QED
  BY <1>3, <1>4, <1>8, <1>15

(* The text that SourceMapGenerator writes of any items whose lines do not    *)
(* decrease means, as the source map standard has it, exactly those of them   *)
(* that come from a file, although every number in it is coded as the         *)
(* difference to the one before, line by line.  SourceMapDecoder finds the    *)
(* same, unless a number begins with a character whose sign it misreads.      *)
THEOREM RoundTrip ==
  ASSUME NEW items \in Seq(Item), Ordered(items)
  PROVE  LET text == FinalizeMapping(items)
         IN /\ MappingsOf(text) = Located(items)
            /\ Decode(text) = MappingsOf(text) \/ HasMisreadSign(text)
<1>1. PICK text : text = FinalizeMapping(items)
  OBVIOUS
<1>2. SignsLegible(text, {})
  BY DEF SignsLegible
<1>3. MappingsOf(text) = Located(items)
  BY <1>1, <1>2, ItemsDecoded DEF MappingsOf
<1>4. text \in Seq(Char)
  <2>1. Len(items) \in Nat
    OBVIOUS
  <2>2. PICK gs : Generating(gs, items) /\ FinalizeMapping(items) = gs[Len(items)].text
    BY <2>1, GeneratingSteps
  <2>3. gs[Len(items)] \in Writers
    BY <2>1, <2>2, GeneratorAdvances
  <2> QED
    BY <1>1, <2>2, <2>3, WriterParts
<1>5. ASSUME ~ HasMisreadSign(text) PROVE Decode(text) = Located(items)
  <2>1. DOMAIN text = 1 .. Len(text)
    BY <1>4
  <2>2. SignsLegible(text, Misread)
    BY <1>5, <2>1 DEF HasMisreadSign, SignsLegible
  <2> QED
    BY <1>1, <2>2, ItemsDecoded DEF Decode
<1> QED
  BY <1>1, <1>3, <1>5
==============================================================================
