-------------------------- MODULE NameGenerator_proof --------------------------
(***************************************************************************)
(* Proofs about the two generators of names, for any alphabets, keywords    *)
(* and counters: the minifying one makes every name once and always finds  *)
(* a free one, and neither gives a name it gave before.                     *)
(***************************************************************************)
EXTENDS NameGenerator, FiniteSetTheorems, SequenceTheorems, WellFoundedInduction, TLAPS

-----------------------------------------------------------------------------
(* A set of natural numbers has a least element, *)
LEMMA LeastNatural ==
  ASSUME NEW T \in SUBSET Nat, T # {}
  PROVE  \E x \in T : \A y \in T : x <= y
<1>1. PICK x \in T : \A y \in T : ~ (<<y, x>> \in OpToRel(<, Nat))
  BY WFMin, NatLessThanWellFounded, Zenon
<1>2. \A y \in T : ~ (y < x)
  BY <1>1 DEF OpToRel
<1> QED
  BY <1>2

(* ... so one that a number is in whenever all smaller ones are has them all. *)
LEMMA StrongInduction ==
  ASSUME NEW T \in SUBSET Nat, \A k \in Nat : (\A j \in 0 .. k - 1 : j \in T) => k \in T
  PROVE  T = Nat
<1> SUFFICES ASSUME Nat \ T # {} PROVE FALSE
  OBVIOUS
<1>1. PICK S : S = Nat \ T
  OBVIOUS
<1>2. PICK x \in S : \A y \in S : x <= y
  BY <1>1, LeastNatural
<1>3. \A j \in 0 .. x - 1 : j \in T
  BY <1>1, <1>2
<1> QED
  BY <1>1, <1>2, <1>3

(* Dividing. *)
LEMMA Quotient ==
  ASSUME NEW x \in Nat, NEW c \in Nat \ {0}
  PROVE  x \div c \in Nat /\ (c > 1 /\ x > 0 => x \div c < x)
OBVIOUS

(* ... and what is left over. *)
LEMMA Remainder ==
  ASSUME NEW x \in Nat, NEW c \in Nat \ {0}
  PROVE  x % c \in Nat /\ (x % c) + 1 \in 1 .. c
<1>1. x % c \in 0 .. c - 1
  OBVIOUS
<1> QED
  BY <1>1

(* A number is known from its quotient and its remainder. *)
LEMMA QuotientAndRemainder ==
  ASSUME NEW x \in Nat, NEW y \in Nat, NEW c \in Nat \ {0}, x \div c = y \div c, x % c = y % c
  PROVE  x = y
<1>1. x = c * (x \div c) + (x % c)
  OBVIOUS
<1>2. y = c * (y \div c) + (y % c)
  OBVIOUS
<1> QED
  BY <1>1, <1>2

-----------------------------------------------------------------------------
(* The digits of a name.  RestChars is a recursive function: it exists, as   *)
(* there is one up to every number and these agree.                          *)
DigitsOf(g, x) ==
  IF x = 0 THEN <<>> ELSE <<Chars[(x % Len(Chars)) + 1]>> \o g[x \div Len(Chars)]
UpTo(n, g) ==
  /\ g \in [0 .. n -> Seq(STRING)]
  /\ \A x \in 0 .. n : g[x] = DigitsOf(g, x)

(* The alphabets. *)
LEMMA Alphabets ==
  /\ Len(Chars) \in Nat \ {0} /\ Len(Chars) > 1 /\ DOMAIN Chars = 1 .. Len(Chars)
  /\ \A x \in Nat : Chars[(x % Len(Chars)) + 1] \in STRING
  /\ \A x, y \in Nat : Chars[(x % Len(Chars)) + 1] = Chars[(y % Len(Chars)) + 1]
                         => x % Len(Chars) = y % Len(Chars)
  /\ Len(FirstChars) \in Nat \ {0}
  /\ \A x \in Nat : FirstChars[(x % Len(FirstChars)) + 1] \in STRING
  /\ \A x, y \in Nat : FirstChars[(x % Len(FirstChars)) + 1] = FirstChars[(y % Len(FirstChars)) + 1]
                         => x % Len(FirstChars) = y % Len(FirstChars)
<1> DEFINE c == Len(Chars)
           f == Len(FirstChars)
<1>1. /\ c \in Nat \ {0} /\ c > 1 /\ f \in Nat \ {0} /\ DOMAIN Chars = 1 .. c
      /\ DOMAIN FirstChars = 1 .. f
      /\ \A k \in 1 .. c : Chars[k] \in STRING
      /\ \A k \in 1 .. f : FirstChars[k] \in STRING
      /\ \A k, l \in 1 .. c : Chars[k] = Chars[l] => k = l
      /\ \A k, l \in 1 .. f : FirstChars[k] = FirstChars[l] => k = l
  BY NameAssumption DEF IsInjective
<1> HIDE DEF c, f
<1>2. \A x \in Nat : /\ x % c \in Nat /\ (x % c) + 1 \in 1 .. c
                     /\ x % f \in Nat /\ (x % f) + 1 \in 1 .. f
  BY <1>1, Remainder
<1>3. \A k, l \in Nat : k + 1 = l + 1 => k = l
  OBVIOUS
<1>4. ASSUME NEW x \in Nat, NEW y \in Nat, Chars[(x % c) + 1] = Chars[(y % c) + 1]
      PROVE  x % c = y % c
  <2>1. PICK k, l : k = x % c /\ l = y % c
    OBVIOUS
  <2>2. k \in Nat /\ l \in Nat /\ k + 1 \in 1 .. c /\ l + 1 \in 1 .. c
        /\ Chars[k + 1] = Chars[l + 1]
    BY <1>2, <1>4, <2>1
  <2> QED
    BY <1>1, <1>3, <2>1, <2>2
<1>5. ASSUME NEW x \in Nat, NEW y \in Nat, FirstChars[(x % f) + 1] = FirstChars[(y % f) + 1]
      PROVE  x % f = y % f
  <2>1. PICK k, l : k = x % f /\ l = y % f
    OBVIOUS
  <2>2. k \in Nat /\ l \in Nat /\ k + 1 \in 1 .. f /\ l + 1 \in 1 .. f
        /\ FirstChars[k + 1] = FirstChars[l + 1]
    BY <1>2, <1>5, <2>1
  <2> QED
    BY <1>1, <1>3, <2>1, <2>2
<1> QED
  BY <1>1, <1>2, <1>4, <1>5 DEF c, f

(* A digit's worth less is a smaller number. *)
LEMMA Shorter ==
  ASSUME NEW x \in Nat, x # 0
  PROVE  x \div Len(Chars) \in 0 .. x - 1
<1>1. PICK c : c = Len(Chars)
  OBVIOUS
<1>2. c \in Nat \ {0} /\ c > 1 /\ x > 0
  BY <1>1, Alphabets
<1>3. x \div c \in Nat /\ x \div c < x
  BY <1>2, Quotient
<1> QED
  BY <1>1, <1>3

(* One digit more before the digits of what is left. *)
LEMMA DigitsTyped ==
  ASSUME NEW x \in Nat, NEW g, x # 0 => g[x \div Len(Chars)] \in Seq(STRING)
  PROVE  DigitsOf(g, x) \in Seq(STRING)
<1>1. CASE x = 0
  BY <1>1 DEF DigitsOf
<1>2. CASE x # 0
  <2>1. <<Chars[(x % Len(Chars)) + 1]>> \in Seq(STRING)
    <3>1. PICK d : d = Chars[(x % Len(Chars)) + 1]
      OBVIOUS
    <3>2. d \in STRING
      BY <3>1, Alphabets
    <3> QED
      BY <3>1, <3>2
  <2> QED
    BY <1>2, <2>1 DEF DigitsOf
<1> QED
  BY <1>1, <1>2

(* The functions up to two numbers agree where both are defined. *)
LEMMA UpToAgree ==
  ASSUME NEW n \in Nat, NEW m \in Nat, NEW g, NEW h, UpTo(n, g), UpTo(m, h), NEW x \in Nat,
         x <= n, x <= m
  PROVE  g[x] = h[x]
<1> DEFINE T == {k \in Nat : k <= n /\ k <= m => g[k] = h[k]}
<1>1. ASSUME NEW k \in Nat, \A j \in 0 .. k - 1 : j \in T PROVE k \in T
  <2> SUFFICES ASSUME k <= n, k <= m PROVE g[k] = h[k]
    OBVIOUS
  <2>1. g[k] = DigitsOf(g, k) /\ h[k] = DigitsOf(h, k)
    BY DEF UpTo
  <2>2. CASE k = 0
    BY <2>1, <2>2 DEF DigitsOf
  <2>3. CASE k # 0
    <3>1. k \div Len(Chars) \in 0 .. k - 1
      BY <2>3, Shorter
    <3>2. g[k \div Len(Chars)] = h[k \div Len(Chars)]
      BY <1>1, <3>1
    <3>3. DigitsOf(g, k) = DigitsOf(h, k)
      BY <3>2, Zenon DEF DigitsOf
    <3> QED
      BY <2>1, <3>3
  <2> QED
    BY <2>2, <2>3
<1>2. T \in SUBSET Nat
  OBVIOUS
<1> HIDE DEF T
<1>3. T = Nat
  BY <1>1, <1>2, StrongInduction
<1> QED
  BY <1>3 DEF T

(* There is a function up to every number. *)
LEMMA UpToExists ==
  ASSUME NEW n \in Nat
  PROVE  \E g : UpTo(n, g)
<1> DEFINE T == {k \in Nat : \E g : UpTo(k, g)}
<1>1. ASSUME NEW k \in Nat, \A j \in 0 .. k - 1 : j \in T PROVE k \in T
  <2>1. CASE k = 0
    <3> DEFINE g == [x \in 0 .. 0 |-> <<>>]
    <3>1. g \in [0 .. 0 -> Seq(STRING)] /\ \A x \in 0 .. 0 : g[x] = DigitsOf(g, x)
      BY DEF DigitsOf
    <3>2. UpTo(0, g)
      BY <3>1 DEF UpTo
    <3> QED
      BY <2>1, <3>2
  <2>2. CASE k # 0
    <3>1. k - 1 \in 0 .. k - 1 /\ k - 1 \in Nat
      BY <2>2
    <3>2. PICK g : UpTo(k - 1, g)
      BY <1>1, <3>1
    <3>3. /\ g \in [0 .. k - 1 -> Seq(STRING)]
          /\ \A x \in 0 .. k - 1 : g[x] = DigitsOf(g, x)
      BY <3>2 DEF UpTo
    <3> DEFINE h == [x \in 0 .. k |-> IF x = k THEN DigitsOf(g, k) ELSE g[x]]
    <3>4. DigitsOf(g, k) \in Seq(STRING)
      BY <2>2, <3>3, Shorter, DigitsTyped
    <3>5. h \in [0 .. k -> Seq(STRING)]
      BY <3>3, <3>4
    <3>6. ASSUME NEW x \in 0 .. k PROVE h[x] = DigitsOf(h, x)
      <4>1. x # 0 => x \div Len(Chars) \in 0 .. k - 1
        <5>1. x \in Nat /\ \A q \in 0 .. x - 1 : q \in 0 .. k - 1
          OBVIOUS
        <5> QED
          BY <5>1, Shorter
      <4>2. x # 0 => h[x \div Len(Chars)] = g[x \div Len(Chars)]
        BY <4>1
      <4>3. DigitsOf(h, x) = DigitsOf(g, x)
        BY <4>2 DEF DigitsOf
      <4>4. h[x] = DigitsOf(g, x)
        BY <3>3
      <4> QED
        BY <4>3, <4>4
    <3> HIDE DEF h
    <3>7. UpTo(k, h)
      BY <3>5, <3>6 DEF UpTo
    <3> QED
      BY <3>7
  <2> QED
    BY <2>1, <2>2
<1>2. T \in SUBSET Nat
  OBVIOUS
<1> HIDE DEF T
<1>3. T = Nat
  BY <1>1, <1>2, StrongInduction
<1> QED
  BY <1>3 DEF T

(* RestChars is what its definition says. *)
LEMMA RestCharsIs ==
  ASSUME NEW x \in Nat
  PROVE  RestChars[x] \in Seq(STRING) /\ RestChars[x] = DigitsOf(RestChars, x)
<1> DEFINE Def(g) == [n \in Nat |-> DigitsOf(g, n)]
           Below(n) == CHOOSE g : UpTo(n, g)
           all == [n \in Nat |-> Below(n)[n]]
<1>1. \A n \in Nat : UpTo(n, Below(n))
  BY UpToExists
<1> HIDE DEF Below
<1>2. ASSUME NEW n \in Nat PROVE all[n] = DigitsOf(all, n) /\ all[n] \in Seq(STRING)
  <2>1. UpTo(n, Below(n)) /\ all[n] = Below(n)[n]
    BY <1>1
  <2>2. all[n] = DigitsOf(Below(n), n) /\ all[n] \in Seq(STRING)
    BY <2>1 DEF UpTo
  <2>3. n # 0 => all[n \div Len(Chars)] = Below(n)[n \div Len(Chars)]
    <3> SUFFICES ASSUME n # 0 PROVE all[n \div Len(Chars)] = Below(n)[n \div Len(Chars)]
      OBVIOUS
    <3>1. PICK k : k = n \div Len(Chars)
      OBVIOUS
    <3>2. k \in 0 .. n - 1
      BY <3>1, Shorter
    <3>5. k \in Nat /\ k <= n
      BY <3>2
    <3>3. all[k] = Below(k)[k]
      BY <3>5
    <3>4. Below(k)[k] = Below(n)[k]
      BY <1>1, <3>5, UpToAgree
    <3> QED
      BY <3>1, <3>3, <3>4
  <2>4. DigitsOf(all, n) = DigitsOf(Below(n), n)
    BY <2>3 DEF DigitsOf
  <2> QED
    BY <2>2, <2>4
<1>3. all = Def(all)
  BY <1>2
<1> HIDE DEF all
<1>4. RestChars = CHOOSE g : g = Def(g)
  BY DEF RestChars, DigitsOf
<1>5. RestChars = Def(RestChars)
  BY <1>3, <1>4
<1> HIDE DEF Def
<1>6. \A n \in Nat : RestChars[n] = DigitsOf(RestChars, n)
  BY <1>5 DEF Def
<1> DEFINE T == {k \in Nat : RestChars[k] \in Seq(STRING)}
<1>7. ASSUME NEW k \in Nat, \A j \in 0 .. k - 1 : j \in T PROVE k \in T
  BY <1>6, <1>7, Shorter, DigitsTyped
<1>8. T \in SUBSET Nat
  OBVIOUS
<1> HIDE DEF T
<1>9. T = Nat
  BY <1>7, <1>8, StrongInduction
<1> QED
  BY <1>6, <1>9 DEF T

(* A sequence with one element put before it. *)
LEMMA Prefixed ==
  ASSUME NEW X, NEW a \in X, NEW b \in X, NEW s \in Seq(X), NEW t \in Seq(X)
  PROVE  /\ <<a>> \o s \in Seq(X) /\ <<a>> \o s # <<>>
         /\ <<a>> \o s = <<b>> \o t => a = b /\ s = t
<1>1. Len(s) \in Nat /\ Len(t) \in Nat
  OBVIOUS
<1>2. ASSUME NEW d \in X, NEW r \in Seq(X)
      PROVE  /\ <<d>> \o r \in Seq(X) /\ Len(<<d>> \o r) = Len(r) + 1
             /\ (<<d>> \o r)[1] = d
             /\ \A k \in 1 .. Len(r) : (<<d>> \o r)[k + 1] = r[k]
  <2>1. PICK q : q = <<d>>
    OBVIOUS
  <2>2. q \in Seq(X) /\ Len(q) = 1 /\ q[1] = d /\ Len(r) \in Nat
    BY <2>1
  <2>3. /\ q \o r \in Seq(X) /\ Len(q \o r) = Len(r) + 1
        /\ \A k \in 1 .. 1 + Len(r) : (q \o r)[k] = IF k <= 1 THEN q[k] ELSE r[k - 1]
    <3>1. /\ q \o r \in Seq(X) /\ Len(q \o r) = Len(q) + Len(r)
          /\ \A k \in 1 .. Len(q) + Len(r) : (q \o r)[k] = IF k <= Len(q) THEN q[k] ELSE r[k - Len(q)]
      BY <2>2, ConcatProperties
    <3>2. Len(q) + Len(r) = Len(r) + 1 /\ Len(q) + Len(r) = 1 + Len(r)
      BY <2>2
    <3> QED
      BY <2>2, <3>1, <3>2
  <2>4. (q \o r)[1] = d
    BY <2>2, <2>3
  <2>5. ASSUME NEW k \in 1 .. Len(r) PROVE (q \o r)[k + 1] = r[k]
    <3>1. k + 1 \in 1 .. 1 + Len(r) /\ ~ (k + 1 <= 1) /\ k + 1 - 1 = k
      BY <2>2
    <3> QED
      BY <2>3, <3>1
  <2> QED
    BY <2>1, <2>3, <2>4, <2>5
<1>3. PICK u, v : u = <<a>> \o s /\ v = <<b>> \o t
  OBVIOUS
<1>4. /\ u \in Seq(X) /\ Len(u) = Len(s) + 1 /\ u[1] = a
      /\ v \in Seq(X) /\ Len(v) = Len(t) + 1 /\ v[1] = b
      /\ \A k \in 1 .. Len(s) : u[k + 1] = s[k]
      /\ \A k \in 1 .. Len(t) : v[k + 1] = t[k]
  BY <1>2, <1>3
<1>5. ASSUME u = v PROVE a = b /\ s = t
  <2>1. Len(s) = Len(t) /\ a = b
    BY <1>1, <1>4, <1>5
  <2>2. \A k \in 1 .. Len(s) : s[k] = t[k]
    BY <1>4, <1>5, <2>1
  <2> QED
    BY <2>1, <2>2
<1>6. u # <<>>
  BY <1>1, <1>4
<1> QED
  BY <1>3, <1>4, <1>5, <1>6

(* Two numbers do not have the same digits. *)
LEMMA RestCharsInjective ==
  ASSUME NEW x \in Nat, NEW y \in Nat, RestChars[x] = RestChars[y]
  PROVE  x = y
<1> DEFINE T == {k \in Nat : \A l \in Nat : RestChars[k] = RestChars[l] => k = l}
<1>1. PICK c : c = Len(Chars)
  OBVIOUS
<1>2. c \in Nat \ {0} /\ c > 1
  BY <1>1, Alphabets
<1>3. ASSUME NEW k \in Nat, k # 0
      PROVE  /\ Chars[(k % c) + 1] \in STRING /\ RestChars[k \div c] \in Seq(STRING)
             /\ k \div c \in 0 .. k - 1 /\ k \div c \in Nat
             /\ RestChars[k] = <<Chars[(k % c) + 1]>> \o RestChars[k \div c]
  <2>1. k \div c \in 0 .. k - 1
    BY <1>1, <1>3, Shorter
  <2>2. k \div c \in Nat
    BY <2>1
  <2>3. RestChars[k] = DigitsOf(RestChars, k)
    BY RestCharsIs
  <2> QED
    BY <1>1, <1>3, <2>1, <2>2, <2>3, Alphabets, RestCharsIs DEF DigitsOf
<1>4. RestChars[0] = <<>>
  BY RestCharsIs DEF DigitsOf
<1>5. ASSUME NEW k \in Nat, \A j \in 0 .. k - 1 : j \in T, NEW l \in Nat,
             RestChars[k] = RestChars[l]
      PROVE  k = l
  <2>1. CASE k = 0 \/ l = 0
    <3>1. ASSUME NEW n \in Nat, n # 0 PROVE RestChars[n] # <<>>
      <4>1. PICK d, r : d = Chars[(n % c) + 1] /\ r = RestChars[n \div c]
        OBVIOUS
      <4>2. d \in STRING /\ r \in Seq(STRING) /\ RestChars[n] = <<d>> \o r
        BY <1>3, <3>1, <4>1
      <4> QED
        BY <4>2, Prefixed
    <3> QED
      BY <1>4, <1>5, <2>1, <3>1
  <2>2. CASE k # 0 /\ l # 0
    <3>1. /\ Chars[(k % c) + 1] = Chars[(l % c) + 1]
          /\ RestChars[k \div c] = RestChars[l \div c]
      <4>1. PICK d, r, e, q : /\ d = Chars[(k % c) + 1] /\ r = RestChars[k \div c]
                              /\ e = Chars[(l % c) + 1] /\ q = RestChars[l \div c]
        OBVIOUS
      <4>2. /\ d \in STRING /\ r \in Seq(STRING) /\ e \in STRING /\ q \in Seq(STRING)
            /\ <<d>> \o r = <<e>> \o q
        BY <1>3, <1>5, <2>2, <4>1
      <4>3. PICK X : X = STRING
        OBVIOUS
      <4>4. d \in X /\ r \in Seq(X) /\ e \in X /\ q \in Seq(X) /\ <<d>> \o r = <<e>> \o q
        BY <4>2, <4>3
      <4>5. d = e /\ r = q
        BY <4>4, Prefixed, SMTT(30)
      <4> QED
        BY <4>1, <4>5
    <3>2. k % c = l % c
      BY <1>1, <3>1, Alphabets
    <3>3. k \div c \in T /\ l \div c \in Nat
      BY <1>3, <1>5, <2>2
    <3>4. k \div c = l \div c
      BY <3>1, <3>3
    <3> QED
      BY <1>2, <3>2, <3>4, QuotientAndRemainder
  <2> QED
    BY <2>1, <2>2
<1>6. T \in SUBSET Nat /\ \A k \in Nat : (\A j \in 0 .. k - 1 : j \in T) => k \in T
  BY <1>5
<1> HIDE DEF T
<1>7. T = Nat
  BY <1>6, StrongInduction
<1> QED
  BY <1>7 DEF T

(* Two numbers do not make the same name: GenAName is a numeral whose first   *)
(* digit has a base of its own, whatever the two alphabets are.              *)
THEOREM NamesInjective ==
  ASSUME NEW x \in Nat
  PROVE  /\ GenAName(x) \in Seq(STRING) /\ GenAName(x) # <<>>
         /\ \A y \in Nat : GenAName(x) = GenAName(y) => x = y
<1>1. PICK f : f = Len(FirstChars)
  OBVIOUS
<1>2. f \in Nat \ {0}
  BY <1>1, Alphabets
<1>3. ASSUME NEW k \in Nat
      PROVE  /\ FirstChars[(k % f) + 1] \in STRING /\ RestChars[k \div f] \in Seq(STRING)
             /\ k \div f \in Nat
             /\ GenAName(k) = <<FirstChars[(k % f) + 1]>> \o RestChars[k \div f]
  <2>1. k \div f \in Nat
    BY <1>2, Quotient
  <2> QED
    BY <1>1, <2>1, Alphabets, RestCharsIs DEF GenAName
<1>4. ASSUME NEW y \in Nat, GenAName(x) = GenAName(y) PROVE x = y
  <2>1. /\ FirstChars[(x % f) + 1] = FirstChars[(y % f) + 1]
        /\ RestChars[x \div f] = RestChars[y \div f]
    <3>1. PICK d, r, e, q : /\ d = FirstChars[(x % f) + 1] /\ r = RestChars[x \div f]
                            /\ e = FirstChars[(y % f) + 1] /\ q = RestChars[y \div f]
      OBVIOUS
    <3>2. /\ d \in STRING /\ r \in Seq(STRING) /\ e \in STRING /\ q \in Seq(STRING)
          /\ <<d>> \o r = <<e>> \o q
      BY <1>3, <1>4, <3>1
    <3>3. PICK X : X = STRING
      OBVIOUS
    <3>4. d \in X /\ r \in Seq(X) /\ e \in X /\ q \in Seq(X) /\ <<d>> \o r = <<e>> \o q
      BY <3>2, <3>3
    <3>5. d = e /\ r = q
      BY <3>4, Prefixed
    <3> QED
      BY <3>1, <3>5
  <2>2. x % f = y % f
    BY <1>1, <2>1, Alphabets
  <2>3. x \div f = y \div f
    BY <1>3, <2>1, RestCharsInjective
  <2> QED
    BY <1>2, <2>2, <2>3, QuotientAndRemainder
<1>5. GenAName(x) \in Seq(STRING) /\ GenAName(x) # <<>>
  <2>1. PICK d, r : d = FirstChars[(x % f) + 1] /\ r = RestChars[x \div f]
    OBVIOUS
  <2>2. d \in STRING /\ r \in Seq(STRING) /\ GenAName(x) = <<d>> \o r
    BY <1>3, <2>1
  <2>3. PICK X : X = STRING
    OBVIOUS
  <2>4. d \in X /\ r \in Seq(X)
    BY <2>2, <2>3
  <2>5. <<d>> \o r \in Seq(X) /\ <<d>> \o r # <<>>
    BY <2>4, Prefixed
  <2> QED
    BY <2>2, <2>3, <2>5
<1> QED
  BY <1>4, <1>5

-----------------------------------------------------------------------------
(* A finite set of numbers has a greatest element. *)
LEMMA Greatest ==
  ASSUME NEW S \in SUBSET Nat, IsFiniteSet(S), S # {}
  PROVE  Max(S) \in S /\ \A y \in S : Max(S) >= y
<1> DEFINE Good(U) == \E x \in U : \A y \in U : x >= y
           T == {n \in Nat : \A U \in SUBSET Nat :
                   IsFiniteSet(U) /\ Cardinality(U) = n /\ U # {} => Good(U)}
<1>1. ASSUME NEW n \in Nat, \A j \in 0 .. n - 1 : j \in T,
             NEW U \in SUBSET Nat, IsFiniteSet(U), Cardinality(U) = n, U # {}
      PROVE  Good(U)
  <2>1. PICK x \in U : TRUE
    BY <1>1
  <2>2. PICK V : V = U \ {x}
    OBVIOUS
  <2>3. IsFiniteSet(V) /\ Cardinality(V) = n - 1 /\ V \in SUBSET Nat
    BY <1>1, <2>1, <2>2, FS_RemoveElement
  <2>4. CASE V = {}
    <3>1. \A y \in U : y = x
      BY <2>2, <2>4
    <3>2. x \in Nat
      OBVIOUS
    <3> QED
      BY <3>1, <3>2
  <2>5. CASE V # {}
    <3>1. Cardinality(V) \in Nat
      BY <2>3, FS_CardinalityType
    <3>2. n - 1 \in 0 .. n - 1
      BY <2>3, <3>1
    <3>3. Good(V)
      BY <1>1, <2>3, <2>5, <3>2
    <3>4. PICK y \in V : \A z \in V : y >= z
      BY <3>3
    <3>5. y \in Nat /\ x \in Nat /\ y \in U /\ \A z \in U : z = x \/ z \in V
      BY <2>2, <2>3
    <3> QED
      BY <2>2, <3>4, <3>5
  <2> QED
    BY <2>4, <2>5
<1> HIDE DEF Good
<1>2. T \in SUBSET Nat /\ \A k \in Nat : (\A j \in 0 .. k - 1 : j \in T) => k \in T
  BY <1>1
<1>3. T = Nat
  <2> HIDE DEF T
  <2> QED
    BY <1>2, StrongInduction
<1>4. Cardinality(S) \in Nat
  BY FS_CardinalityType
<1>5. Good(S)
  BY <1>3, <1>4
<1> QED
  BY <1>5 DEF Good, Max

-----------------------------------------------------------------------------
(* A generator, as Merge and the parsing stage make them. *)
IsGen(g) ==
  \E m \in BOOLEAN, c \in Nat : \E u :
    g = [minify |-> m, used |-> u, counter |-> c] /\ IsFiniteSet(u)

(* Among as many names as there are used ones and one more, one is free. *)
LEMMA FreeIndexIs ==
  ASSUME NEW g, IsGen(g)
  PROVE  /\ FreeIndex(g) \in Nat /\ FreeIndex(g) >= g.counter
         /\ ~ IsNameUsed(g, GenAName(FreeIndex(g)))
<1>1. PICK c, K : c = g.counter /\ K = g.used \union Keywords
  OBVIOUS
<1>2. c \in Nat /\ IsFiniteSet(K)
  <2>1. c \in Nat /\ IsFiniteSet(g.used)
    BY <1>1 DEF IsGen
  <2> QED
    BY <1>1, <2>1, FS_Union, NameAssumption
<1>3. Cardinality(K) \in Nat
  BY <1>2, FS_CardinalityType
<1>4. PICK S : S = c .. c + Cardinality(K)
  OBVIOUS
<1>5. IsFiniteSet(S) /\ Cardinality(K) < Cardinality(S) /\ S \in SUBSET Nat
  <2>1. IsFiniteSet(S) /\ Cardinality(S) = Cardinality(K) + 1
    <3>1. PICK b : b = c + Cardinality(K)
      OBVIOUS
    <3>2. c \in Int /\ b \in Int /\ ~ (c > b) /\ b - c + 1 = Cardinality(K) + 1
      BY <1>2, <1>3, <3>1
    <3>3. IsFiniteSet(c .. b) /\ Cardinality(c .. b) = b - c + 1
      BY <3>2, FS_Interval
    <3> QED
      BY <1>4, <3>1, <3>2, <3>3
  <2> QED
    BY <1>2, <1>3, <1>4, <2>1
<1>6. PICK F : F = {i \in S : GenAName(i) \notin K}
  OBVIOUS
<1>7. F # {}
  <2> SUFFICES ASSUME F = {} PROVE FALSE
    OBVIOUS
  <2> DEFINE f == [i \in S |-> GenAName(i)]
  <2>1. f \in [S -> K]
    BY <1>6
  <2>2. PICK x \in S, y \in S : x # y /\ f[x] = f[y]
    <3> HIDE DEF f
    <3> QED
      BY <1>2, <1>5, <2>1, FS_PigeonHole
  <2>3. GenAName(x) = GenAName(y) /\ x \in Nat /\ y \in Nat
    BY <1>5, <2>2
  <2> QED
    BY <2>2, <2>3, NamesInjective
<1>8. PICK i \in F : \A j \in F : i <= j
  BY <1>5, <1>6, <1>7, LeastNatural
<1>9. i \in S /\ ~ IsNameUsed(g, GenAName(i))
      /\ \A j \in S : j < i => IsNameUsed(g, GenAName(j))
  BY <1>1, <1>5, <1>6, <1>8 DEF IsNameUsed
<1>10. FreeIndex(g) = CHOOSE k \in S : /\ ~ IsNameUsed(g, GenAName(k))
                                       /\ \A j \in S : j < k => IsNameUsed(g, GenAName(j))
  BY <1>1, <1>4 DEF FreeIndex
<1>11. FreeIndex(g) \in S /\ ~ IsNameUsed(g, GenAName(FreeIndex(g)))
  BY <1>9, <1>10
<1>12. \A k \in S : k \in Nat /\ k >= c
  BY <1>2, <1>3, <1>4
<1> QED
  BY <1>1, <1>11, <1>12

(* A generator stays one, and its counter never falls. *)
LEMMA NextNameKeeps ==
  ASSUME NEW g, NEW n, IsGen(g)
  PROVE  /\ IsGen(NextName(g, n).gen) /\ NextName(g, n).gen.minify = g.minify
         /\ NextName(g, n).gen.counter >= g.counter
<1>1. PICK m \in BOOLEAN, c \in Nat : \E u :
        g = [minify |-> m, used |-> u, counter |-> c] /\ IsFiniteSet(u)
  BY DEF IsGen
<1>0. PICK u : g = [minify |-> m, used |-> u, counter |-> c] /\ IsFiniteSet(u)
  BY <1>1
<1>2. CASE m
  <2>1. PICK i : i = FreeIndex(g)
    OBVIOUS
  <2>2. i \in Nat /\ i >= c
    BY <1>0, <2>1, FreeIndexIs
  <2>3. NextName(g, n).gen = [minify |-> m, used |-> u, counter |-> i + 1]
    BY <1>0, <1>2, <2>1 DEF NextName, MinifyNext
  <2>4. i + 1 \in Nat /\ i + 1 >= c
    BY <2>2
  <2> QED
    BY <1>0, <2>3, <2>4 DEF IsGen
<1>3. CASE ~ m
  <2>1. CASE IsNameUsed(g, n)
    <3>1. NextName(g, n).gen
            = [minify |-> m, used |-> u \union {Suffixed(g, n)}, counter |-> c + 1]
      BY <1>0, <1>3, <2>1 DEF NextName, ReadableNext
    <3>2. PICK v, d : v = u \union {Suffixed(g, n)} /\ d = c + 1
      OBVIOUS
    <3>3. IsFiniteSet(v) /\ d \in Nat /\ d >= c
      BY <1>0, <3>2, FS_AddElement
    <3>4. NextName(g, n).gen = [minify |-> m, used |-> v, counter |-> d]
      BY <3>1, <3>2
    <3>5. IsGen(NextName(g, n).gen)
      BY <1>0, <3>3, <3>4, Zenon DEF IsGen
    <3>6. NextName(g, n).gen.minify = g.minify
      BY <1>0, <3>4
    <3>7. NextName(g, n).gen.counter >= g.counter
      BY <1>0, <3>3, <3>4
    <3> QED
      BY <3>5, <3>6, <3>7
  <2>2. CASE ~ IsNameUsed(g, n)
    <3>1. NextName(g, n).gen = [minify |-> m, used |-> u \union {n}, counter |-> c]
      BY <1>0, <1>3, <2>2 DEF NextName, ReadableNext
    <3>2. PICK v, d : v = u \union {n} /\ d = c
      OBVIOUS
    <3>3. IsFiniteSet(v) /\ d \in Nat /\ d >= c
      BY <1>0, <3>2, FS_AddElement
    <3>4. NextName(g, n).gen = [minify |-> m, used |-> v, counter |-> d]
      BY <3>1, <3>2
    <3>5. IsGen(NextName(g, n).gen)
      BY <1>0, <3>3, <3>4, Zenon DEF IsGen
    <3>6. NextName(g, n).gen.minify = g.minify
      BY <1>0, <3>4
    <3>7. NextName(g, n).gen.counter >= g.counter
      BY <1>0, <3>3, <3>4
    <3> QED
      BY <3>5, <3>6, <3>7
  <2> QED
    BY <2>1, <2>2
<1> QED
  BY <1>2, <1>3

(* NextNames goes through the wanted names one by one. *)
Step(acc, n) ==
  [gen |-> NextName(acc.gen, n).gen, names |-> Append(acc.names, NextName(acc.gen, n).name)]
Steps(g, w, k, h) ==
  /\ DOMAIN h = 0 .. k
  /\ h[0] = [gen |-> g, names |-> <<>>]
  /\ \A i \in 1 .. k : h[i] = Step(h[i - 1], w[i])

(* There are such steps, and they lead to NextNames. *)
LEMMA NextNamesSteps ==
  ASSUME NEW g, NEW w, Len(w) \in Nat
  PROVE  \E h : Steps(g, w, Len(w), h) /\ NextNames(g, w) = h[Len(w)]
<1> DEFINE N == Len(w)
           base == [gen |-> g, names |-> <<>>]
           Def(h) == [k \in 0 .. N |-> IF k = 0 THEN base ELSE Step(h[k - 1], w[k])]
           T == {k \in Nat : \E h : Steps(g, w, k, h)}
<1>1. ASSUME NEW k \in Nat, \A j \in 0 .. k - 1 : j \in T PROVE k \in T
  <2>1. CASE k = 0
    <3> DEFINE h == [i \in 0 .. 0 |-> base]
    <3>1. DOMAIN h = 0 .. 0 /\ h[0] = base /\ 1 .. 0 = {}
      OBVIOUS
    <3>2. Steps(g, w, 0, h)
      BY <3>1 DEF Steps
    <3> QED
      BY <2>1, <3>2
  <2>2. CASE k # 0
    <3>1. k - 1 \in 0 .. k - 1 /\ k - 1 \in Nat
      BY <2>2
    <3>2. PICK h : Steps(g, w, k - 1, h)
      BY <1>1, <3>1
    <3> DEFINE f == [i \in 0 .. k |-> IF i = k THEN Step(h[k - 1], w[k]) ELSE h[i]]
    <3>3. DOMAIN f = 0 .. k /\ f[0] = base
      BY <2>2, <3>2 DEF Steps
    <3>4. ASSUME NEW i \in 1 .. k PROVE f[i] = Step(f[i - 1], w[i])
      <4>1. f[i - 1] = h[i - 1]
        OBVIOUS
      <4>2. CASE i = k
        BY <4>1, <4>2
      <4>3. CASE i # k
        <5>1. i \in 1 .. k - 1 /\ f[i] = h[i]
          BY <4>3
        <5> QED
          BY <3>2, <4>1, <5>1 DEF Steps
      <4> QED
        BY <4>2, <4>3
    <3> HIDE DEF f
    <3>5. Steps(g, w, k, f)
      BY <3>3, <3>4 DEF Steps
    <3> QED
      BY <3>5
  <2> QED
    BY <2>1, <2>2
<1>2. T \in SUBSET Nat
  OBVIOUS
<1>3. T = Nat
  <2> HIDE DEF T
  <2> QED
    BY <1>1, <1>2, StrongInduction
<1>4. PICK h : Steps(g, w, N, h)
  BY <1>3
<1> DEFINE d == [k \in 0 .. N |-> h[k]]
<1>5. d = Def(d)
  BY <1>4 DEF Steps
<1>6. PICK a : a = CHOOSE f : f = Def(f)
  OBVIOUS
<1> HIDE DEF d
<1>7. a = Def(a)
  BY <1>5, <1>6
<1>8. Steps(g, w, N, a)
  BY <1>7 DEF Steps
<1>9. NextNames(g, w) = a[N]
  BY <1>6 DEF NextNames, Step
<1> QED
  BY <1>8, <1>9

(* So the counter does not fall over them. *)
LEMMA NextNamesKeep ==
  ASSUME NEW g, NEW w, Len(w) \in Nat, IsGen(g)
  PROVE  /\ IsGen(NextNames(g, w).gen) /\ NextNames(g, w).gen.minify = g.minify
         /\ NextNames(g, w).gen.counter >= g.counter
<1>1. PICK h : Steps(g, w, Len(w), h) /\ NextNames(g, w) = h[Len(w)]
  BY NextNamesSteps
<1> DEFINE Keeps(k) == /\ IsGen(h[k].gen) /\ h[k].gen.minify = g.minify
                       /\ h[k].gen.counter >= g.counter
           T == {k \in Nat : k <= Len(w) => Keeps(k)}
<1>2. ASSUME NEW k \in Nat, \A j \in 0 .. k - 1 : j \in T PROVE k \in T
  <2> SUFFICES ASSUME k <= Len(w) PROVE Keeps(k)
    OBVIOUS
  <2>1. CASE k = 0
    <3>1. h[0].gen = g
      BY <1>1 DEF Steps
    <3>2. g.counter \in Nat
      BY DEF IsGen
    <3> QED
      BY <2>1, <3>1, <3>2
  <2>2. CASE k # 0
    <3>1. k - 1 \in 0 .. k - 1 /\ k - 1 <= Len(w) /\ k \in 1 .. Len(w)
      BY <2>2
    <3>2. Keeps(k - 1)
      BY <1>2, <3>1
    <3>3. PICK f, n : f = h[k - 1].gen /\ n = w[k]
      OBVIOUS
    <3>4. h[k].gen = NextName(f, n).gen
      <4>1. h[k] = Step(h[k - 1], w[k])
        BY <1>1, <3>1 DEF Steps
      <4> QED
        BY <3>3, <4>1 DEF Step
    <3>5. /\ IsGen(NextName(f, n).gen) /\ NextName(f, n).gen.minify = f.minify
          /\ NextName(f, n).gen.counter >= f.counter
      BY <3>2, <3>3, NextNameKeeps
    <3>6. f.counter \in Nat /\ NextName(f, n).gen.counter \in Nat /\ g.counter \in Nat
      BY <3>2, <3>3, <3>5 DEF IsGen
    <3> QED
      BY <3>2, <3>3, <3>4, <3>5, <3>6
  <2> QED
    BY <2>1, <2>2
<1>3. T \in SUBSET Nat
  OBVIOUS
<1> HIDE DEF T
<1>4. T = Nat
  BY <1>2, <1>3, StrongInduction
<1>5. Keeps(Len(w))
  BY <1>4 DEF T
<1> QED
  BY <1>1, <1>5

-----------------------------------------------------------------------------
(* No two numbers are written alike.                                        *)
NumeralsDiffer == \A i, j \in Nat : ToString(i) = ToString(j) => i = j

(* A name that a source has, and that ReadableNameGenerator does not make.    *)
Plain(n) == (\E S : n \in Seq(S)) /\ n # <<>> /\ ~ IsNumbered(n)

(* The names a generator will not give again, and what makes it so for the    *)
(* readable one: the numbers it has used are below its counter.              *)
Given(g, x) ==
  IF g.minify THEN \E i \in Nat : i < g.counter /\ x = GenAName(i) ELSE x \in g.used
Sound(g) ==
  /\ IsGen(g)
  /\ ~ g.minify => \A x \in g.used :
       IsNumbered(x) => \E k \in Nat : k < g.counter /\ x[Len(x)] = ToString(k)

(* A sequence over a set is one over a larger set. *)
LEMMA Wider ==
  ASSUME NEW S, NEW X, S \subseteq X, NEW s \in Seq(S)
  PROVE  s \in Seq(X)
<1>1. Len(s) \in Nat /\ DOMAIN s = 1 .. Len(s) /\ \A i \in 1 .. Len(s) : s[i] \in X
  OBVIOUS
<1>2. s = [i \in 1 .. Len(s) |-> s[i]]
  OBVIOUS
<1> QED
  BY <1>1, <1>2, IsASeq

(* Two elements more at the end. *)
LEMMA Joined ==
  ASSUME NEW X, NEW s \in Seq(X), NEW a \in X, NEW b \in X
  PROVE  /\ Len(s \o <<a, b>>) = Len(s) + 2
         /\ (s \o <<a, b>>)[Len(s) + 1] = a /\ (s \o <<a, b>>)[Len(s) + 2] = b
<1>1. PICK t : t = <<a, b>>
  OBVIOUS
<1>2. t \in Seq(X) /\ Len(t) = 2 /\ t[1] = a /\ t[2] = b
  BY <1>1
<1>3. PICK l : l = Len(s)
  OBVIOUS
<1>4. l \in Nat
  BY <1>3
<1>5. /\ Len(s \o t) = l + 2
      /\ \A i \in 1 .. l + 2 : (s \o t)[i] = IF i <= l THEN s[i] ELSE t[i - l]
  <2>1. /\ Len(s \o t) = Len(s) + Len(t)
        /\ \A i \in 1 .. Len(s) + Len(t) : (s \o t)[i] = IF i <= Len(s) THEN s[i] ELSE t[i - Len(s)]
    BY <1>2, ConcatProperties
  <2> QED
    BY <1>2, <1>3, <2>1
<1>6. l + 1 \in 1 .. l + 2 /\ l + 2 \in 1 .. l + 2 /\ ~ (l + 1 <= l) /\ ~ (l + 2 <= l)
      /\ (l + 1) - l = 1 /\ (l + 2) - l = 2
  BY <1>4
<1>7. (s \o t)[l + 1] = t[1] /\ (s \o t)[l + 2] = t[2]
  BY <1>5, <1>6
<1> QED
  BY <1>1, <1>2, <1>3, <1>5, <1>7

(* A suffixed name ends in the number. *)
LEMMA SuffixedIs ==
  ASSUME NEW g, NEW S, NEW n \in Seq(S), n # <<>>
  PROVE  /\ IsNumbered(Suffixed(g, n))
         /\ Suffixed(g, n)[Len(Suffixed(g, n))] = ToString(g.counter)
<1>1. PICK t, X, b : t = ToString(g.counter) /\ b = "_" /\ X = S \union {b, t}
  OBVIOUS
<1>2. n \in Seq(X)
  <2>1. n \in Seq(S) /\ S \subseteq X
    BY <1>1
  <2> QED
    BY <2>1, Wider
<1>3. PICK s : s = n \o <<b, t>>
  OBVIOUS
<1>4. PICK l : l = Len(n)
  OBVIOUS
<1>5. l \in Nat /\ l > 0
  BY <1>2, <1>4
<1>6. Len(s) = l + 2 /\ s[l + 1] = b /\ s[l + 2] = t
  <2>1. b \in X /\ t \in X
    BY <1>1
  <2> QED
    BY <1>2, <1>3, <1>4, <2>1, Joined
<1>7. Suffixed(g, n) = s
  BY <1>1, <1>3 DEF Suffixed
<1>8. (l + 2) - 1 = l + 1 /\ l + 2 > 2
  BY <1>5
<1> QED
  BY <1>1, <1>6, <1>7, <1>8 DEF IsNumbered

(* The next name is new, and remembered. *)
LEMMA NextNameFresh ==
  ASSUME NumeralsDiffer, NEW g, NEW n, Sound(g), g.minify \/ Plain(n)
  PROVE  /\ Sound(NextName(g, n).gen) /\ NextName(g, n).gen.minify = g.minify
         /\ ~ Given(g, NextName(g, n).name)
         /\ Given(NextName(g, n).gen, NextName(g, n).name)
         /\ \A x : Given(g, x) => Given(NextName(g, n).gen, x)
<1>1. PICK m \in BOOLEAN, c \in Nat : \E u :
        g = [minify |-> m, used |-> u, counter |-> c] /\ IsFiniteSet(u)
  BY DEF Sound, IsGen
<1>2. PICK u : g = [minify |-> m, used |-> u, counter |-> c] /\ IsFiniteSet(u)
  BY <1>1
<1>3. /\ IsGen(NextName(g, n).gen) /\ NextName(g, n).gen.minify = g.minify
  BY NextNameKeeps DEF Sound
<1>4. CASE m
  <2>1. PICK i : i = FreeIndex(g)
    OBVIOUS
  <2>2. i \in Nat /\ i >= c
    BY <1>2, <2>1, FreeIndexIs DEF Sound
  <2>3. PICK r : r = NextName(g, n)
    OBVIOUS
  <2>4. r.gen = [minify |-> m, used |-> u, counter |-> i + 1] /\ r.name = GenAName(i)
    BY <1>2, <1>4, <2>1, <2>3 DEF NextName, MinifyNext
  <2>5. r.gen.minify /\ g.minify /\ r.gen.counter = i + 1 /\ g.counter = c
    BY <1>2, <1>4, <2>4
  <2>6. ~ Given(g, r.name)
    <3> SUFFICES ASSUME NEW j \in Nat, j < c, GenAName(i) = GenAName(j) PROVE FALSE
      BY <2>4, <2>5 DEF Given
    <3>1. i = j
      BY <2>2, NamesInjective
    <3> QED
      BY <2>2, <3>1
  <2>7. Given(r.gen, r.name)
    <3>1. i < i + 1
      BY <2>2
    <3> QED
      BY <2>2, <2>4, <2>5, <3>1 DEF Given
  <2>8. ASSUME NEW x, Given(g, x) PROVE Given(r.gen, x)
    <3>1. PICK j \in Nat : j < c /\ x = GenAName(j)
      BY <2>5, <2>8 DEF Given
    <3>2. j < i + 1
      BY <2>2, <3>1
    <3> QED
      BY <2>5, <3>1, <3>2 DEF Given
  <2> QED
    BY <1>3, <2>3, <2>5, <2>6, <2>7, <2>8 DEF Sound
<1>5. CASE ~ m
  <2>1. PICK r : r = NextName(g, n)
    OBVIOUS
  <2>0. Plain(n)
    BY <1>2, <1>5
  <2>2. CASE IsNameUsed(g, n)
    <3>1. PICK s : s = Suffixed(g, n)
      OBVIOUS
    <3>2. IsNumbered(s) /\ s[Len(s)] = ToString(c)
      <4>1. PICK S : n \in Seq(S)
        BY <2>0 DEF Plain
      <4>2. n # <<>>
        BY <2>0 DEF Plain
      <4> QED
        BY <1>2, <3>1, <4>1, <4>2, SuffixedIs
    <3>3. r.gen = [minify |-> m, used |-> u \union {s}, counter |-> c + 1] /\ r.name = s
      BY <1>2, <1>5, <2>1, <2>2, <3>1 DEF NextName, ReadableNext
    <3>4. s \notin u
      <4> SUFFICES ASSUME s \in u PROVE FALSE
        OBVIOUS
      <4>1. PICK k \in Nat : k < c /\ s[Len(s)] = ToString(k)
        BY <1>2, <1>5, <3>2 DEF Sound
      <4>2. k = c
        BY <3>2, <4>1 DEF NumeralsDiffer
      <4> QED
        BY <4>1, <4>2
    <3>5. ASSUME NEW x \in u \union {s}, IsNumbered(x)
          PROVE  \E k \in Nat : k < c + 1 /\ x[Len(x)] = ToString(k)
      <4>1. CASE x \in u
        <5>1. PICK k \in Nat : k < c /\ x[Len(x)] = ToString(k)
          BY <1>2, <1>5, <3>5, <4>1 DEF Sound
        <5>2. k < c + 1
          BY <5>1
        <5> QED
          BY <5>1, <5>2
      <4>2. CASE x = s
        <5>1. c < c + 1
          OBVIOUS
        <5> QED
          BY <3>2, <4>2, <5>1
      <4> QED
        BY <4>1, <4>2
    <3>6. r.gen.used = u \union {s} /\ r.gen.counter = c + 1 /\ ~ r.gen.minify
      BY <1>5, <3>3
    <3>7. Sound(r.gen)
      BY <1>3, <2>1, <3>5, <3>6 DEF Sound
    <3>8. g.used = u /\ ~ g.minify
      BY <1>2, <1>5
    <3> QED
      BY <1>3, <2>1, <3>3, <3>4, <3>6, <3>7, <3>8 DEF Given
  <2>3. CASE ~ IsNameUsed(g, n)
    <3>1. r.gen = [minify |-> m, used |-> u \union {n}, counter |-> c] /\ r.name = n
      BY <1>2, <1>5, <2>1, <2>3 DEF NextName, ReadableNext
    <3>2. n \notin u
      BY <1>2, <2>3 DEF IsNameUsed
    <3>3. r.gen.used = u \union {n} /\ r.gen.counter = c /\ ~ r.gen.minify
      BY <1>5, <3>1
    <3>4. ASSUME NEW x \in u \union {n}, IsNumbered(x)
          PROVE  \E k \in Nat : k < c /\ x[Len(x)] = ToString(k)
      <4>1. x \in u
        BY <2>0, <3>4 DEF Plain
      <4> QED
        BY <1>2, <1>5, <3>4, <4>1 DEF Sound
    <3>5. Sound(r.gen)
      BY <1>3, <2>1, <3>3, <3>4 DEF Sound
    <3>6. g.used = u /\ ~ g.minify
      BY <1>2, <1>5
    <3> QED
      BY <1>3, <2>1, <3>1, <3>2, <3>3, <3>5, <3>6 DEF Given
  <2> QED
    BY <2>2, <2>3
<1> QED
  BY <1>4, <1>5

(* The names for a list of wanted ones are new, and no two are the same:      *)
(* MinifyNameGenerator goes past used names and keywords,                   *)
(* ReadableNameGenerator makes names that no source has.                    *)
THEOREM NextNamesFresh ==
  ASSUME NumeralsDiffer, NEW g, NEW w, Len(w) \in Nat, Sound(g),
         \A i \in 1 .. Len(w) : g.minify \/ Plain(w[i])
  PROVE  /\ Sound(NextNames(g, w).gen) /\ NextNames(g, w).gen.minify = g.minify
         /\ NextNames(g, w).names \in Seq(Range(NextNames(g, w).names))
         /\ Len(NextNames(g, w).names) = Len(w)
         /\ \A i \in 1 .. Len(w) : /\ ~ Given(g, NextNames(g, w).names[i])
                                   /\ Given(NextNames(g, w).gen, NextNames(g, w).names[i])
         /\ \A i, j \in 1 .. Len(w) :
              NextNames(g, w).names[i] = NextNames(g, w).names[j] => i = j
         /\ \A x : Given(g, x) => Given(NextNames(g, w).gen, x)
<1>1. PICK h : Steps(g, w, Len(w), h) /\ NextNames(g, w) = h[Len(w)]
  BY NextNamesSteps
<1> DEFINE L == Len(w)
           N(j) == NextName(h[j - 1].gen, w[j]).name
           Fresh(k) ==
             /\ Sound(h[k].gen) /\ h[k].gen.minify = g.minify
             /\ h[k].names = [j \in 1 .. k |-> N(j)]
             /\ \A i \in 1 .. k : ~ Given(g, N(i)) /\ Given(h[k].gen, N(i))
             /\ \A i, j \in 1 .. k : N(i) = N(j) => i = j
             /\ \A x : Given(g, x) => Given(h[k].gen, x)
           T == {k \in Nat : k <= L => Fresh(k)}
<1>2. ASSUME NEW k \in Nat, \A j \in 0 .. k - 1 : j \in T, k <= L PROVE Fresh(k)
  <2>1. CASE k = 0
    <3>1. h[0].gen = g /\ h[0].names = <<>> /\ 1 .. 0 = {}
      BY <1>1 DEF Steps
    <3>2. <<>> = [j \in 1 .. 0 |-> N(j)]
      OBVIOUS
    <3> HIDE DEF N
    <3> QED
      BY <2>1, <3>1, <3>2
  <2>2. CASE k # 0
    <3>1. k - 1 \in 0 .. k - 1 /\ k - 1 <= L /\ k \in 1 .. L /\ k - 1 \in Nat
      BY <1>2, <2>2
    <3>2. Fresh(k - 1)
      BY <1>2, <3>1
    <3>3. PICK f, n, r : f = h[k - 1].gen /\ n = w[k] /\ r = NextName(f, n)
      OBVIOUS
    <3>4. h[k].gen = r.gen /\ h[k].names = Append(h[k - 1].names, r.name) /\ N(k) = r.name
      <4>1. h[k] = Step(h[k - 1], w[k])
        BY <1>1, <3>1 DEF Steps
      <4> QED
        BY <3>3, <4>1 DEF Step
    <3>5. Sound(f) /\ (f.minify \/ Plain(n))
      BY <3>1, <3>2, <3>3
    <3>6. /\ Sound(r.gen) /\ r.gen.minify = f.minify
          /\ ~ Given(f, r.name) /\ Given(r.gen, r.name)
          /\ \A x : Given(f, x) => Given(r.gen, x)
      BY <3>3, <3>5, NextNameFresh
    <3> HIDE DEF N
    <3>7. h[k].names = [j \in 1 .. k |-> N(j)]
      <4>1. PICK p, e, X : p = k - 1 /\ e = N(k) /\ X = {N(j) : j \in 1 .. k}
        OBVIOUS
      <4>2. p \in Nat /\ p + 1 = k /\ e \in X /\ \A j \in 1 .. p : N(j) \in X
        BY <3>1, <4>1
      <4>3. [j \in 1 .. p |-> N(j)] \in Seq(X)
        BY <4>2
      <4>4. Append([j \in 1 .. p |-> N(j)], e) = [j \in 1 .. p + 1 |-> IF j = p + 1 THEN e ELSE N(j)]
        BY <4>2, <4>3
      <4>5. [j \in 1 .. p + 1 |-> IF j = p + 1 THEN e ELSE N(j)] = [j \in 1 .. k |-> N(j)]
        BY <4>1, <4>2
      <4> QED
        BY <3>2, <3>4, <4>1, <4>4, <4>5
    <3>8. \A i \in 1 .. k : i = k \/ i \in 1 .. k - 1
      BY <3>1
    <3>9. \A i \in 1 .. k : ~ Given(g, N(i)) /\ Given(h[k].gen, N(i))
      <4>1. ~ Given(g, N(k)) /\ Given(h[k].gen, N(k))
        BY <3>2, <3>3, <3>4, <3>6
      <4>2. ASSUME NEW i \in 1 .. k - 1 PROVE ~ Given(g, N(i)) /\ Given(h[k].gen, N(i))
        BY <3>2, <3>3, <3>4, <3>6
      <4> QED
        BY <3>8, <4>1, <4>2
    <3>10. \A i \in 1 .. k - 1 : N(i) # N(k)
      BY <3>2, <3>3, <3>4, <3>6
    <3>11. \A i, j \in 1 .. k : N(i) = N(j) => i = j
      BY <3>2, <3>8, <3>10
    <3>12. \A x : Given(g, x) => Given(h[k].gen, x)
      BY <3>2, <3>3, <3>4, <3>6
    <3>13. Sound(h[k].gen) /\ h[k].gen.minify = g.minify
      BY <3>2, <3>3, <3>4, <3>6
    <3> QED
      BY <3>7, <3>9, <3>11, <3>12, <3>13
  <2> QED
    BY <2>1, <2>2
<1>3. T \in SUBSET Nat /\ \A k \in Nat : (\A j \in 0 .. k - 1 : j \in T) => k \in T
  <2> HIDE DEF Fresh
  <2> QED
    BY <1>2
<1>4. T = Nat
  <2> HIDE DEF T
  <2> QED
    BY <1>3, StrongInduction
<1>5. Fresh(L)
  <2> HIDE DEF Fresh
  <2> QED
    BY <1>4
<1> HIDE DEF N
<1>6. PICK s : s = NextNames(g, w).names
  OBVIOUS
<1>7. s = [j \in 1 .. L |-> N(j)] /\ L \in Nat
  BY <1>1, <1>5, <1>6
<1>8. s \in Seq(Range(s)) /\ Len(s) = L /\ \A j \in 1 .. L : s[j] = N(j)
  <2>1. PICK X : X = Range(s)
    OBVIOUS
  <2>2. \A j \in 1 .. L : N(j) \in X
    BY <1>7, <2>1 DEF Range
  <2>3. [j \in 1 .. L |-> N(j)] \in Seq(X)
    BY <1>7, <2>2
  <2> QED
    BY <1>7, <2>1, <2>3
<1> QED
  BY <1>1, <1>5, <1>6, <1>8

-----------------------------------------------------------------------------
(* The name x that a generator gives when n is wanted, g being the generator  *)
(* before and h the one after: minified, one of the names in between that is  *)
(* not to be avoided; readable, the wanted one or one with a number.          *)
Chosen(g, h, n, x) ==
  IF g.minify
  THEN x \notin g.used /\ \E i \in Nat : g.counter <= i /\ i < h.counter /\ x = GenAName(i)
  ELSE x = n \/ IsNumbered(x)

(* So is the next name. *)
LEMMA NextNameIs ==
  ASSUME NEW g, NEW n, IsGen(g), g.minify \/ Plain(n)
  PROVE  /\ Chosen(g, NextName(g, n).gen, n, NextName(g, n).name)
         /\ g.minify => NextName(g, n).gen.used = g.used
<1>1. PICK r : r = NextName(g, n)
  OBVIOUS
<1>2. PICK m \in BOOLEAN, c \in Nat : \E u : g = [minify |-> m, used |-> u, counter |-> c]
  BY DEF IsGen
<1>3. PICK u : g = [minify |-> m, used |-> u, counter |-> c]
  BY <1>2
<1>4. g.minify = m /\ g.used = u /\ g.counter = c
  BY <1>3
<1>5. CASE m
  <2>1. PICK i : i = FreeIndex(g)
    OBVIOUS
  <2>2. i \in Nat /\ i >= c /\ ~ IsNameUsed(g, GenAName(i))
    BY <1>4, <2>1, FreeIndexIs
  <2>3. r.gen = [minify |-> m, used |-> u, counter |-> i + 1] /\ r.name = GenAName(i)
    BY <1>1, <1>3, <1>5, <2>1 DEF NextName, MinifyNext
  <2>4. r.gen.used = u /\ r.gen.counter = i + 1 /\ c <= i /\ i < i + 1
    BY <2>2, <2>3
  <2>5. r.name \notin u
    BY <1>4, <2>2, <2>3 DEF IsNameUsed
  <2> QED
    BY <1>1, <1>4, <1>5, <2>2, <2>3, <2>4, <2>5 DEF Chosen
<1>6. CASE ~ m
  <2>1. PICK S : n \in Seq(S)
    BY <1>4, <1>6 DEF Plain
  <2>2. n # <<>>
    BY <1>4, <1>6 DEF Plain
  <2>3. r.name = n \/ r.name = Suffixed(g, n)
    BY <1>1, <1>4, <1>6 DEF NextName, ReadableNext
  <2>4. IsNumbered(Suffixed(g, n))
    BY <2>1, <2>2, SuffixedIs
  <2> QED
    BY <1>1, <1>4, <1>6, <2>3, <2>4 DEF Chosen
<1> QED
  BY <1>5, <1>6

(* So are all names for a list of wanted ones. *)
LEMMA NextNamesAre ==
  ASSUME NEW g, NEW w, Len(w) \in Nat, IsGen(g), \A i \in 1 .. Len(w) : g.minify \/ Plain(w[i])
  PROVE  /\ \A i \in 1 .. Len(w) : Chosen(g, NextNames(g, w).gen, w[i], NextNames(g, w).names[i])
         /\ g.minify => NextNames(g, w).gen.used = g.used
<1>1. PICK h : Steps(g, w, Len(w), h) /\ NextNames(g, w) = h[Len(w)]
  BY NextNamesSteps
<1> DEFINE L == Len(w)
           N(j) == NextName(h[j - 1].gen, w[j]).name
           Good(k) ==
             /\ IsGen(h[k].gen) /\ h[k].gen.minify = g.minify /\ h[k].gen.counter >= g.counter
             /\ g.minify => h[k].gen.used = g.used
             /\ h[k].names = [j \in 1 .. k |-> N(j)]
             /\ \A i \in 1 .. k : Chosen(g, h[k].gen, w[i], N(i))
           T == {k \in Nat : k <= L => Good(k)}
<1>0. g.counter \in Nat
  BY DEF IsGen
<1>2. ASSUME NEW k \in Nat, \A j \in 0 .. k - 1 : j \in T, k <= L PROVE Good(k)
  <2>1. CASE k = 0
    <3>1. h[0].gen = g /\ h[0].names = <<>> /\ 1 .. 0 = {}
      BY <1>1 DEF Steps
    <3>2. <<>> = [j \in 1 .. 0 |-> N(j)]
      OBVIOUS
    <3>3. g.counter >= g.counter
      BY <1>0
    <3> HIDE DEF N
    <3> QED
      BY <2>1, <3>1, <3>2, <3>3
  <2>2. CASE k # 0
    <3>1. k - 1 \in 0 .. k - 1 /\ k - 1 <= L /\ k \in 1 .. L /\ k - 1 \in Nat
      BY <1>2, <2>2
    <3>2. Good(k - 1)
      BY <1>2, <3>1
    <3>3. PICK f, n, r : f = h[k - 1].gen /\ n = w[k] /\ r = NextName(f, n)
      OBVIOUS
    <3>4. h[k].gen = r.gen /\ h[k].names = Append(h[k - 1].names, r.name) /\ N(k) = r.name
      <4>1. h[k] = Step(h[k - 1], w[k])
        BY <1>1, <3>1 DEF Steps
      <4> QED
        BY <3>3, <4>1 DEF Step
    <3>5. /\ IsGen(f) /\ f.minify = g.minify /\ f.counter >= g.counter /\ (g.minify => f.used = g.used)
          /\ f.minify \/ Plain(n)
      BY <3>1, <3>2, <3>3
    <3>6. /\ IsGen(r.gen) /\ r.gen.minify = f.minify /\ r.gen.counter >= f.counter
          /\ Chosen(f, r.gen, n, r.name) /\ (f.minify => r.gen.used = f.used)
      BY <3>3, <3>5, NextNameKeeps, NextNameIs
    <3>7. f.counter \in Nat /\ r.gen.counter \in Nat
      BY <3>5, <3>6 DEF IsGen
    <3>8. r.gen.counter >= g.counter
      BY <1>0, <3>5, <3>6, <3>7
    <3> HIDE DEF N
    <3>9. h[k].names = [j \in 1 .. k |-> N(j)]
      <4>1. PICK p, e, X : p = k - 1 /\ e = N(k) /\ X = {N(j) : j \in 1 .. k}
        OBVIOUS
      <4>2. p \in Nat /\ p + 1 = k /\ e \in X /\ \A j \in 1 .. p : N(j) \in X
        BY <3>1, <4>1
      <4>3. [j \in 1 .. p |-> N(j)] \in Seq(X)
        BY <4>2
      <4>4. Append([j \in 1 .. p |-> N(j)], e) = [j \in 1 .. p + 1 |-> IF j = p + 1 THEN e ELSE N(j)]
        BY <4>2, <4>3
      <4>5. [j \in 1 .. p + 1 |-> IF j = p + 1 THEN e ELSE N(j)] = [j \in 1 .. k |-> N(j)]
        BY <4>1, <4>2
      <4> QED
        BY <3>2, <3>4, <4>1, <4>4, <4>5
    <3>10. ASSUME NEW i \in 1 .. k PROVE Chosen(g, r.gen, w[i], N(i))
      <4>1. CASE i = k
        <5>1. CASE g.minify
          <6>1. PICK j \in Nat : f.counter <= j /\ j < r.gen.counter /\ N(k) = GenAName(j)
            BY <3>4, <3>5, <3>6, <5>1 DEF Chosen
          <6>2. g.counter <= j
            BY <1>0, <3>5, <3>7, <6>1
          <6>3. N(k) \notin g.used
            BY <3>4, <3>5, <3>6, <5>1 DEF Chosen
          <6> QED
            BY <4>1, <5>1, <6>1, <6>2, <6>3 DEF Chosen
        <5>2. CASE ~ g.minify
          BY <3>3, <3>4, <3>5, <3>6, <4>1, <5>2 DEF Chosen
        <5> QED
          BY <5>1, <5>2
      <4>2. CASE i # k
        <5>1. i \in 1 .. k - 1
          BY <3>1, <4>2
        <5>2. Chosen(g, f, w[i], N(i))
          BY <3>2, <3>3, <5>1
        <5>3. CASE g.minify
          <6>1. PICK j \in Nat : g.counter <= j /\ j < f.counter /\ N(i) = GenAName(j)
            BY <5>2, <5>3 DEF Chosen
          <6>2. j < r.gen.counter
            BY <3>6, <3>7, <6>1
          <6>3. N(i) \notin g.used
            BY <5>2, <5>3 DEF Chosen
          <6> QED
            BY <5>3, <6>1, <6>2, <6>3 DEF Chosen
        <5>4. CASE ~ g.minify
          BY <5>2, <5>4 DEF Chosen
        <5> QED
          BY <5>3, <5>4
      <4> QED
        BY <4>1, <4>2
    <3>11. g.minify => r.gen.used = g.used
      BY <3>5, <3>6
    <3> QED
      BY <3>4, <3>5, <3>6, <3>8, <3>9, <3>10, <3>11
  <2> QED
    BY <2>1, <2>2
<1>3. ASSUME NEW k \in Nat, \A j \in 0 .. k - 1 : j \in T PROVE k \in T
  <2> HIDE DEF Good
  <2> QED
    BY <1>2, <1>3
<1>4. T = Nat
  <2>1. T \in SUBSET Nat
    OBVIOUS
  <2> HIDE DEF T
  <2> QED
    BY <1>3, <2>1, StrongInduction
<1>5. Good(L)
  <2> HIDE DEF Good
  <2> QED
    BY <1>4
<1> HIDE DEF N
<1>6. \A i \in 1 .. L : NextNames(g, w).names[i] = N(i)
  BY <1>1, <1>5
<1> QED
  BY <1>1, <1>5, <1>6
==============================================================================
