------------------------------- MODULE Scope -------------------------------
(***************************************************************************)
(* Scopes and the variables they own while a file is parsed and after      *)
(* (scope/Scope.h, Scope.cpp).  A scope's place in the sequence scopes is  *)
(* its address; 0 is no scope.  A variable is the set of identifiers that  *)
(* name it: where an identifier was made stands for the object.            *)
(***************************************************************************)
EXTENDS Sequences, Integers, FiniteSets, TLC

NewScope(type, parent) ==
    [type |-> type, parent |-> parent, vars |-> <<>>, refs |-> {}]

Owns(scopes, i, name) == name \in DOMAIN scopes[i].vars

\* var declarations and their like belong to the function around them.
RECURSIVE FunctionScope(_, _)
FunctionScope(scopes, i) ==
    IF scopes[i].type = "Function" \/ scopes[i].parent = 0 THEN i
    ELSE FunctionScope(scopes, scopes[i].parent)


TargetScope(scopes, i, kind) == IF kind = "Var" THEN FunctionScope(scopes, i) ELSE i

\* Whether CreateVariable throws VariableExistsError.
VariableExists(scopes, i, name, kind) == kind # "Var" /\ Owns(scopes, i, name)

CreateVariable(scopes, i, name, at, kind) ==
    LET t   == TargetScope(scopes, i, kind)
        old == IF Owns(scopes, t, name) THEN scopes[t].vars[name] ELSE [kind |-> kind, ids |-> {}]
    IN  [scopes EXCEPT ![t].vars = (name :> [old EXCEPT !.ids = @ \cup {at}]) @@ @]

AddUnresolvedId(scopes, i, name, at) ==
    [scopes EXCEPT ![i].refs = @ \cup {[name |-> name, at |-> at]}]

\* The scope whose variable a name means in scope i, or 0.
RECURSIVE RecursivelyFindVariable(_, _, _)
RecursivelyFindVariable(scopes, i, name) ==
    IF i = 0 \/ Owns(scopes, i, name) THEN i
    ELSE RecursivelyFindVariable(scopes, scopes[i].parent, name)

\* SetParent makes a scope a child; the walk from the root reaches no other scope.
RECURSIVE Reached(_, _)
Reached(scopes, i) == i = 1 \/ (scopes[i].parent # 0 /\ Reached(scopes, scopes[i].parent))

\* The identifiers of a variable once ResolveAllSymbols has run on the root.
ResolvedIds(scopes, i, name) ==
    scopes[i].vars[name].ids \cup
    UNION {{r.at : r \in {q \in scopes[j].refs :
                            q.name = name /\ RecursivelyFindVariable(scopes, j, name) = i}}
           : j \in {k \in DOMAIN scopes : Reached(scopes, k)}}
=============================================================================
