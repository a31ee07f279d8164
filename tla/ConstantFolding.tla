-------------------------- MODULE ConstantFolding --------------------------
(***************************************************************************)
(* Folding of a binary expression of two literals                          *)
(* (optimize/ConstantFolding.cpp, MakeStringLiteral of NodesMaker.cpp).    *)
(* What is folded is str_, the value the scanner gave a literal's token.   *)
(* Integers are IntMin..IntMax, the range of the code's 32 bits.  The sum  *)
(* of two of them that leaves the range is undefined behaviour: wraps says *)
(* whether the build wraps it around or computes it in a wider register.   *)
(***************************************************************************)
EXTENDS SyntaxNodes, Tokens

CONSTANT IntMax
ASSUME IntMaxAssumption == IntMax \in Nat \ {0}

IntMin == -IntMax - 1

\* lexical_cast takes a decimal integer in range and nothing else.
Ints == IntMin..IntMax
IsInt(str) == \E n \in Ints : ToString(n) = str
IntOf(str) == CHOOSE n \in Ints : ToString(n) = str

Wrapped(n) == ((n - IntMin) % (2 * (IntMax + 1))) + IntMin

\* The value goes between quotation marks as it is: nothing is escaped again.
MakeStringLiteral(str) == Valued(Literal("String", "\"" \o str \o "\""), str)
MakeIntLiteral(n)      == Valued(Literal("Double", ToString(n)), ToString(n))

IsValidResult(n) == n \in Ints

FoldInts(binary, exact, wraps) ==
    LET n == IF wraps THEN Wrapped(exact) ELSE exact
    IN IF IsValidResult(n) THEN MakeIntLiteral(n) ELSE binary

TryBinaryExpression_AnyRight(binary, wraps) ==
    LET l == binary.kids[1]
        r == binary.kids[2]
    IN IF l.type = "Literal" /\ r.type = "Literal" /\ binary.val = "+" /\ "String" \in l.flags
       THEN MakeStringLiteral(l.str \o r.str) ELSE binary

TryBinaryExpression(binary, wraps) ==
    LET l == binary.kids[1]
        r == binary.kids[2]
        both(ty) == ty \in l.flags /\ ty \in r.flags
        ints == both("Double") /\ IsInt(l.str) /\ IsInt(r.str)
    IN CASE l.type # "Literal" \/ r.type # "Literal" -> binary
         [] binary.val = "+" /\ both("String") -> MakeStringLiteral(l.str \o r.str)
         [] binary.val = "+" /\ ints -> FoldInts(binary, IntOf(l.str) + IntOf(r.str), wraps)
         [] binary.val = "-" /\ ints -> FoldInts(binary, IntOf(l.str) - IntOf(r.str), wraps)
         [] OTHER -> binary
=============================================================================
