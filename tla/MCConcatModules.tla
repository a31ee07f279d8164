--------------------------- MODULE MCConcatModules ---------------------------
(* Reference graphs for ConcatModules. *)
EXTENDS ConcatModules

Modules == {"a", "b", "c", "d"}

UpTo2(S) == {<<>>} \union {<<m>> : m \in S} \union {<<m, n>> : m, n \in S}

(* Every graph of three modules with at most two references each, repeated   *)
(* references, self-references and cycles included; d is not reachable.      *)
SmallGraphs ==
  {[m \in Modules |-> CASE m = "a" -> x [] m = "b" -> y [] m = "c" -> z [] m = "d" -> <<"a">>] :
     x, y, z \in UpTo2({"a", "b", "c"})}

(* Trees and diamonds of four modules. *)
WideGraphs ==
  {[m \in Modules |-> CASE m = "a" -> x [] m = "b" -> y [] m = "c" -> z [] m = "d" -> <<>>] :
     x \in {<<"b">>, <<"b", "c">>, <<"c", "b">>, <<"b", "c", "d">>},
     y \in UpTo2({"c", "d"}), z \in UpTo2({"b", "d"})}

AllGraphs == SmallGraphs \union WideGraphs
==============================================================================
