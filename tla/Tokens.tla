------------------------------- MODULE Tokens -------------------------------
(***************************************************************************)
(* Tokens as the parser sees them (tokenizer/Token.h, Token.cpp).  A token *)
(* is its spelling and whether a line terminator precedes it.  Spellings   *)
(* stand for character strings; those a test on a value names are literal, *)
(* every other word is an identifier.  A regular expression is two         *)
(* lexemes, a division sign, as it is for the scanner, and the rest of it. *)
(***************************************************************************)
EXTENDS SequencesExt, Integers

Keywords ==
    {"if", "in", "do", "var", "for", "new", "try", "let", "this", "else", "case",
     "void", "with", "enum", "while", "break", "catch", "throw", "const", "yield",
     "class", "super", "return", "typeof", "delete", "switch", "export", "import",
     "default", "finally", "extends", "function", "continue", "debugger", "instanceof"}

StrictReserved ==
    {"implements", "interface", "package", "private", "protected", "public",
     "static", "yield", "let"}

Assignments ==
    {"=", "*=", "**=", "/=", "%=", "+=", "-=", "<<=", ">>=", ">>>=", "&=", "|=", "^="}

Punctuators == Assignments \cup
    {"(", ")", "{", "}", "[", "]", ".", "...", ";", ",", ":", "?", "~", "<", ">",
     "===", "!==", "==", "!=", "<=", ">=", "%", "^", "&", "|", "&&", "||", "+", "-",
     "*", "/", "**", "++", "--", "<<", ">>", ">>>", "!", "=>"}

Prefixed        == {"0o11"}                        \* octal, as ECMAScript 6 writes it
OctalLiterals   == {"07"}
NumericLiterals == {ToString(n) : n \in 0..15} \cup {"1.5"} \cup Prefixed \cup OctalLiterals

First(v)    == SubSeq(v, 1, 1)
Quoted(v)   == First(v) \in {"'", "\""}
Negative(v) == First(v) = "-" /\ Len(v) > 1

LineEnds == {"\n", "\r"}

\* Where the string literal v ends, looking from i on: at the first quote like the one it
\* begins with that no backslash escapes; 0 if its line ends before.
RECURSIVE ClosingQuote(_, _)
ClosingQuote(v, i) ==
    LET c == SubSeq(v, i, i)
    IN CASE i > Len(v) \/ c \in LineEnds -> 0
         [] c = "\\"     -> ClosingQuote(v, i + 2)
         [] c = First(v) -> i
         [] OTHER        -> ClosingQuote(v, i + 1)

IsString(v) == Quoted(v) /\ ClosingQuote(v, 2) = Len(v)

\* What the character after a backslash stands for; a line that goes on leaves nothing.
Escape(c) ==
    CASE c = "n" -> "\n" [] c = "r" -> "\r" [] c = "t" -> "\t" [] c = "f" -> "\f"
      [] c \in LineEnds -> ""
      [] OTHER -> c

RECURSIVE Unescaped(_)
Unescaped(text) ==
    IF text = "" THEN ""
    ELSE LET cut == IF First(text) = "\\" THEN 2 ELSE 1
         IN (IF cut = 2 THEN Escape(SubSeq(text, 2, 2)) ELSE First(text))
              \o Unescaped(SubSeq(text, cut + 1, Len(text)))

\* A token's value: strings without quotes and escapes, octals without their prefix.
TokenValue(v) ==
    CASE IsString(v)     -> Unescaped(SubSeq(v, 2, Len(v) - 1))
      [] v \in Prefixed -> SubSeq(v, 3, Len(v))
      [] OTHER          -> v

RegexBodies     == {"re/"}
WordLiterals    == {"true", "false", "null"}

\* Templates, quotes left out: a whole one, or head, middle and tail around substitutions.
\* TE has an escape sequence; its cooked text is that of T.
TemplateHeads == {"T", "TE", "T${"}
TemplateTails == {"T", "TE", "}T"}
Templates     == TemplateHeads \cup TemplateTails \cup {"}T${"}

\* The scanner keeps a stack of the braces that are open: "}" goes on with a template where
\* "${" is on top and is a brace anywhere else.  What is read, and the stack after it; a
\* template that begins at a brace ends nobody knows where.
ScanCurly(stack, v) ==
    LET substitution == stack # <<>> /\ Last(stack) = "${"
        popped == IF stack = <<>> THEN stack ELSE Front(stack)
    IN CASE v = "{"   -> [v |-> v, stack |-> Append(stack, "{")]
         [] v = "T${" -> [v |-> v, stack |-> Append(stack, "${")]
         [] v = "}T${" /\ substitution -> [v |-> v, stack |-> stack]
         [] v \in {"}", "}T", "}T${"} ->
              [v |-> IF substitution THEN "}T" ELSE "}", stack |-> popped]
         [] OTHER -> [v |-> v, stack |-> stack]

EOF       == "<eof>"
Undefined == "<undefined behaviour>"     \* what is read where nothing is

IsKeyword(v)    == v \in Keywords
IsPunctuator(v) == v \in Punctuators

\* Neither a keyword nor any other kind of token.
IsPlainWord(v) ==
    /\ v \notin Keywords \cup Punctuators \cup NumericLiterals
                \cup WordLiterals \cup Templates \cup RegexBodies \cup {EOF, Undefined}
    /\ ~Quoted(v)

\* BinaryPrecedence reads allow_in_: "in" is no operator where it is forbidden.
BinaryPrecedence(v, allow_in) ==
    CASE v = "||" -> 1
      [] v = "&&" -> 2
      [] v = "|"  -> 3
      [] v = "^"  -> 4
      [] v = "&"  -> 5
      [] v \in {"==", "!=", "===", "!=="} -> 6
      [] v \in {"<", ">", "<=", ">=", "instanceof"} -> 7
      [] v = "in" -> IF allow_in THEN 7 ELSE 0
      [] v \in {">>", "<<", ">>>"} -> 8
      [] v \in {"+", "-"} -> 9
      [] v \in {"*", "/", "%"} -> 11
      [] OTHER -> 0

-----------------------------------------------------------------------------
(* From pieces of text, blanks included, to tokens.                        *)

Blanks == {" ", "\n"}

Wordlike(v) == v \in Keywords \cup NumericLiterals \cup WordLiterals \/ IsPlainWord(v)

\* The tokens the scanner reads where one piece follows another without a blank.
Glue(v, w) ==
    CASE Wordlike(v) /\ Wordlike(w) -> <<v \o w>>
      [] v = w /\ v \in {"+", "-"}   -> <<v \o w>>
      [] v = "+" /\ w = "++"        -> <<w, v>>
      [] v = "-" /\ w = "--"        -> <<w, v>>
      [] OTHER                      -> <<v, w>>

\* Two slashes: the rest of the line is a comment.
RECURSIVE SkipLine(_)
SkipLine(pieces) ==
    IF pieces = <<>> \/ Head(pieces) = "\n" THEN pieces ELSE SkipLine(Tail(pieces))

\* Tokens of pieces; glued: no blank since the last token; nl: a line end since then.
RECURSIVE LexFrom(_, _, _, _)
LexFrom(pieces, tokens, glued, nl) ==
    IF pieces = <<>> THEN Append(tokens, [v |-> EOF, nl |-> nl])
    ELSE LET p == Head(pieces)
             last == Last(tokens)
             read == Glue(last.v, p)
             after == Tail(pieces)
         IN CASE p \in Blanks -> LexFrom(after, tokens, FALSE, nl \/ p = "\n")
              [] tokens = <<>> \/ ~glued -> LexFrom(after, Append(tokens, [v |-> p, nl |-> nl]), TRUE, FALSE)
              [] last.v = "/" /\ p = "/" /\ glued -> LexFrom(SkipLine(after), Front(tokens), FALSE, nl)
              [] OTHER -> LexFrom(after, Front(tokens) \o
                                  [i \in DOMAIN read |-> [v |-> read[i], nl |-> i = 1 /\ last.nl]],
                                  TRUE, FALSE)

Lex(pieces) == LexFrom(pieces, <<>>, FALSE, FALSE)
=============================================================================
