------------------------------ MODULE SourceMap ------------------------------
(***************************************************************************)
(* The "mappings" of a source map: SourceMapGenerator writes them,         *)
(* SourceMapDecoder reads them, and MappingsOf is what the source map      *)
(* standard says they mean.  A character of the text is a number: 0 .. 63  *)
(* stand for Base64EncodingTable's entries, Comma and Semicolon for the    *)
(* two separators.                                                         *)
(***************************************************************************)
EXTENDS Integers, Sequences

\* Five bits of a value in a character; the sixth says that more follow.
Base == 32
More == Base

Comma == 64
Semicolon == 65

-----------------------------------------------------------------------------
\* SourceMapGenerator::IntToVLQ: the sign is the lowest bit, low digits come first.
Digits[s1 \in Nat] ==
  IF s1 < Base THEN <<s1>> ELSE <<(s1 % Base) + More>> \o Digits[s1 \div Base]

IntToVLQ(code) == Digits[IF code < 0 THEN -code * 2 + 1 ELSE code * 2]

\* What the generator remembers between two items.
Generator == [text |-> <<>>, line_counter |-> 1, item_was_last |-> FALSE,
              l_after_col |-> 0, l_file_index |-> 0, l_before_line |-> 1, l_before_col |-> 0]

\* AddEnoughLines: columns are counted anew on every line of the bundle.
AddEnoughLines(g, target_line) ==
  IF g.line_counter >= target_line THEN g
  ELSE [g EXCEPT !.text = @ \o [i \in 1 .. target_line - g.line_counter |-> Semicolon],
                 !.line_counter = target_line, !.l_after_col = 0, !.item_was_last = FALSE]

\* AddLocation: the differences to the item before; nothing for a node without an origin.
AddLocation(g, after_col, origin) ==
  IF origin.fileId < 0 THEN g
  ELSE [g EXCEPT !.text = @ \o IntToVLQ(after_col - g.l_after_col)
                            \o IntToVLQ(origin.fileId - g.l_file_index)
                            \o IntToVLQ(origin.line - g.l_before_line)
                            \o IntToVLQ(origin.column - g.l_before_col),
                 !.l_after_col = after_col, !.l_file_index = origin.fileId,
                 !.l_before_line = origin.line, !.l_before_col = origin.column,
                 !.item_was_last = TRUE]

AddItem(g, item) ==
  LET h == AddEnoughLines(g, item.line)
      k == IF h.item_was_last THEN [h EXCEPT !.text = Append(@, Comma), !.item_was_last = FALSE]
           ELSE h
  IN AddLocation(k, item.column, item.origin)

FinalizeMapping(items) ==
  LET after[k \in 0 .. Len(items)] ==
        IF k = 0 THEN Generator ELSE AddItem(after[k - 1], items[k])
  IN  after[Len(items)].text

-----------------------------------------------------------------------------
(* SourceMapDecoder: what jetpack's tests read a map with.                  *)

\* How many digits the first number of str has.
NumberLength(str) == CHOOSE n \in DOMAIN str : str[n] < More /\ \A i \in 1 .. n - 1 : str[i] >= More

\* What its digits stand for, the sign included; the last of them counts most.
Magnitude(str) ==
  LET last == NumberLength(str)
      value[k \in 0 .. last] ==
        IF k = 0 THEN 0 ELSE (str[last - k + 1] % Base) + Base * value[k - 1]
  IN  value[last]

\* VLQToInt, for characters of which some have a code of the other parity than their digit:
\* it takes the sign from the code.
VLQToInt(str, misread) ==
  LET odd == (str[1] % 2 = 1) <=> (str[1] \notin misread)
  IN (Magnitude(str) \div 2) * (IF odd THEN -1 ELSE 1)

\* ... and where it leaves the pointer.
AfterNumber(str) == SubSeq(str, NumberLength(str) + 1, Len(str))

Decoder == [line_counter |-> 1, l_after_column |-> 0, l_source_index |-> 0,
            l_before_line |-> 1, l_before_column |-> 0, buffer |-> <<>>, content |-> <<>>]

Mapping(line, column, fileId, before_line, before_column) ==
  [line |-> line, column |-> column,
   origin |-> [fileId |-> fileId, line |-> before_line, column |-> before_column]]

DumpBufferToResult(d, misread) ==
  IF d.buffer = <<>> THEN d
  ELSE LET str2 == AfterNumber(d.buffer)
           str3 == AfterNumber(str2)
           str4 == AfterNumber(str3)
           column == d.l_after_column + VLQToInt(d.buffer, misread)
           source == d.l_source_index + VLQToInt(str2, misread)
           line   == d.l_before_line + VLQToInt(str3, misread)
           before == d.l_before_column + VLQToInt(str4, misread)
       IN [d EXCEPT !.l_after_column = column, !.l_source_index = source,
                    !.l_before_line = line, !.l_before_column = before, !.buffer = <<>>,
                    !.content = Append(@, Mapping(d.line_counter, column, source, line, before))]

ReadChar(d, ch, misread) ==
  LET dumped == DumpBufferToResult(d, misread)
  IN  CASE ch = Comma -> dumped
        [] ch = Semicolon -> [dumped EXCEPT !.line_counter = @ + 1, !.l_after_column = 0]
        [] OTHER -> [d EXCEPT !.buffer = Append(@, ch)]

DecodeWith(text, misread) ==
  LET after[k \in 0 .. Len(text)] ==
        IF k = 0 THEN Decoder ELSE ReadChar(after[k - 1], text[k], misread)
  IN  DumpBufferToResult(after[Len(text)], misread).content

\* '0' .. '9' and '/' have such codes.
Misread == (52 .. 61) \union {63}

Decode(text) == DecodeWith(text, Misread)

-----------------------------------------------------------------------------
(* What the source map standard says a text means, which is the decoder's    *)
(* reading of it with the sign in the first digit's lowest bit.              *)
MappingsOf(text) == DecodeWith(text, {})

\* A number begins with a character VLQToInt misreads.
HasMisreadSign(text) ==
  \E i \in DOMAIN text :
    text[i] \in Misread /\ (i = 1 \/ text[i - 1] >= Comma \/ text[i - 1] < More)
==============================================================================
