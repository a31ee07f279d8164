---------------------------- MODULE NameGenerator ----------------------------
(***************************************************************************)
(* UniqueNameGenerator.cpp: the two generators of variable names.  A name  *)
(* is a sequence of characters; the number a readable name ends in counts  *)
(* as one.  A generator is a record: minify tells which of the two it is,  *)
(* used are the names it must not give (its own and those of the generator *)
(* before it), counter is its counter.                                     *)
(***************************************************************************)
EXTENDS Integers, Sequences, FiniteSets, SequencesExt, TLC

CONSTANTS
  FirstChars,  \* FirstCharCandidates
  Chars,       \* CharCandidates
  Keywords     \* the words IsJsKeyword knows

ASSUME NameAssumption ==
  /\ FirstChars \in Seq(STRING) \ {<<>>} /\ IsInjective(FirstChars)
  /\ Chars \in Seq(STRING) /\ Len(Chars) > 1 /\ IsInjective(Chars)
  /\ IsFiniteSet(Keywords)

(* the digits after the first, least significant first                      *)
RestChars[x \in Nat] ==
  IF x = 0 THEN <<>>
  ELSE <<Chars[(x % Len(Chars)) + 1]>> \o RestChars[x \div Len(Chars)]

GenAName(x) == <<FirstChars[(x % Len(FirstChars)) + 1]>> \o RestChars[x \div Len(FirstChars)]

IsNameUsed(gen, n) == n \in gen.used \union Keywords

(* the first index not below the counter whose name is free                 *)
FreeIndex(gen) ==
  LET Candidates == gen.counter .. gen.counter + Cardinality(gen.used \union Keywords)
  IN  CHOOSE i \in Candidates :
        /\ ~IsNameUsed(gen, GenAName(i))
        /\ \A j \in Candidates : j < i => IsNameUsed(gen, GenAName(j))

(* MinifyNameGenerator::Next: a name it has given is not given again        *)
(* because the counter has passed it; used_name stays empty.                *)
MinifyNext(gen, n) ==
  [gen |-> [gen EXCEPT !.counter = FreeIndex(gen) + 1], name |-> GenAName(FreeIndex(gen))]

Suffixed(gen, n) == n \o <<"_", ToString(gen.counter)>>
IsNumbered(n) == Len(n) > 2 /\ n[Len(n) - 1] = "_"

(* ReadableNameGenerator::Next keeps the name when it is free; nothing      *)
(* looks whether the name with the number is.                               *)
ReadableNext_Forgets(gen, n) ==
  IF IsNameUsed(gen, n)
  THEN [gen |-> [gen EXCEPT !.counter = @ + 1], name |-> Suffixed(gen, n)]
  ELSE [gen |-> gen, name |-> n]
ReadableNext(gen, n) ==
  IF IsNameUsed(gen, n)
  THEN [gen |-> [gen EXCEPT !.counter = @ + 1, !.used = @ \union {Suffixed(gen, n)}],
        name |-> Suffixed(gen, n)]
  ELSE [gen |-> [gen EXCEPT !.used = @ \union {n}], name |-> n]

NextName(gen, n) == IF gen.minify THEN MinifyNext(gen, n) ELSE ReadableNext(gen, n)

(* The names for a list of wanted ones; nullopt, "keep the name", is the     *)
(* name itself.                                                             *)
NextNames(gen, wanted) ==
  LET after[k \in 0 .. Len(wanted)] ==
        IF k = 0 THEN [gen |-> gen, names |-> <<>>]
        ELSE LET r == NextName(after[k - 1].gen, wanted[k])
             IN  [gen |-> r.gen, names |-> Append(after[k - 1].names, r.name)]
  IN  after[Len(wanted)]

(* MinifyNameGenerator::Merge                                               *)
Merge(counters, avoid) ==
  [minify |-> TRUE, used |-> avoid,
   counter |-> Max(counters)]
==============================================================================
