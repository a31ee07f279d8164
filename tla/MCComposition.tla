---------------------------- MODULE MCComposition ----------------------------
(* Programs for Composition: two modules and the global imports. *)
EXTENDS BundleMap

CONSTANTS w1, w2

Modules == {"a", "b"}
Names == {"a1", "a2", "b1", "b2", "i1", "e1"}

(* Names of different files, forth and back; i1 and e1 are made by the linker. *)
From(f, l, c) == [fileId |-> f, line |-> l, column |-> c]
Origins == "a1" :> From(0, 3, 2) @@ "a2" :> From(0, 1, 40) @@ "b1" :> From(2, 600, 0)
             @@ "b2" :> From(2, 2, 26) @@ "i1" :> From(-2, 1, 0) @@ "e1" :> From(-2, 1, 0)

Node(n) == [kind |-> "node", name |-> n]
Text == [kind |-> "text"]
Raw == [kind |-> "raw"]
Eol == [kind |-> "eol"]

Codes(n1, n2) ==
  {<<>>, <<Node(n1)>>, <<Node(n1), Eol>>, <<Text, Node(n1), Eol, Node(n2)>>,
   <<Eol, Text, Node(n1), Node(n2), Eol>>}

(* An object literal of two properties, and a template of two lines.           *)
Object(n1, n2) == <<Text, Eol, Node(n1), Raw, Node(n2), Eol, Text, Eol>>
Template(n1, n2) == <<Node(n1), Raw, Node(n2), Eol>>

Programs(codesA, codesB, imports, exports, cjs, minify, sourcemap, opens) ==
  {[order |-> <<"b", "a">>, code |-> [m \in Modules |-> IF m = "a" THEN ca ELSE cb],
    imports |-> im, exports |-> ex, cjs |-> c, minify |-> mi, sourcemap |-> sm, opens |-> op] :
     ca \in codesA, cb \in codesB, im \in imports, ex \in exports, c \in cjs,
     mi \in minify, sm \in sourcemap, op \in opens}

LinePrograms ==
  Programs(Codes("a1", "a2"), Codes("b1", "b2"),
           {<<>>, <<Text, Node("i1"), Eol>>, <<Node("i1")>>},
           {<<>>, <<Node("e1"), Eol>>}, {{}, {"b"}}, {FALSE}, {TRUE}, {TRUE})

ObjectPrograms ==
  Programs({Object("a1", "a2")}, {<<>>, Template("b1", "b2"), <<Node("b1"), Eol>>},
           {<<Node("i1"), Eol>>}, {<<>>, <<Node("e1"), Eol>>}, {{}, {"b"}}, {FALSE},
           {TRUE}, {TRUE})

(* Modules of one statement, which minification leaves without a line end.     *)
OneLinePrograms ==
  Programs({<<Text, Node("a1"), Eol>>, Template("a1", "a2")},
           {<<Node("b1"), Text, Node("b2"), Eol>>}, {<<Node("i1"), Eol>>},
           {<<>>, <<Node("e1"), Eol>>}, {{}, {"b"}}, {TRUE}, {TRUE}, {TRUE})

(* Modules of two statements, which minification writes on one line.           *)
MinifiedPrograms ==
  Programs({<<Text, Node("a1"), Eol, Node("a2"), Eol>>}, {<<Node("b1"), Eol>>}, {<<>>},
           {<<>>}, {{}}, {TRUE}, {TRUE}, {TRUE})

(* What runs without a map, or does not open its files.                        *)
OtherPrograms ==
  Programs({<<Text, Node("a1"), Eol>>}, {Object("b1", "b2")}, {<<Node("i1")>>},
           {<<Node("e1"), Eol>>}, {{}, {"b"}}, {TRUE, FALSE}, {FALSE}, {TRUE, FALSE})

MCPrograms ==
  LinePrograms \union ObjectPrograms \union OneLinePrograms \union MinifiedPrograms
    \union OtherPrograms

RequirePrograms ==
  Programs({<<Node("a1"), Eol>>}, {<<Node("b1"), Eol>>}, {<<>>}, {<<>>},
           {{"b"}}, {FALSE}, {TRUE, FALSE}, {TRUE})
==============================================================================
