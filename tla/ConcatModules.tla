---------------------------- MODULE ConcatModules ----------------------------
(***************************************************************************)
(* ModuleResolver::ConcatModules: the order modules are written to the     *)
(* bundle in.  A walk with an explicit stack moves every module reachable  *)
(* from the entry to spare_stack; popping that one gives the order.        *)
(***************************************************************************)
EXTENDS Integers, Sequences, SequencesExt, FiniteSets

CONSTANTS
  Module,      \* modules
  Entry,       \* entry_module
  Graph        \* the values of ref_mods to explore: a sequence per module

ASSUME ConcatAssumption ==
  /\ IsFiniteSet(Module) /\ Entry \in Module
  /\ Graph \subseteq [Module -> Seq(Module)]

VARIABLES
  refs,        \* ref_mods of every module
  stack,       \* its top is its last element
  visited,     \* visited_marks
  spare,       \* spare_stack
  output       \* the fragments appended to the compositor

vars == <<refs, stack, visited, spare, output>>

Init ==
  /\ refs \in Graph
  /\ stack = <<Entry>>
  /\ visited = {}
  /\ spare = <<>>
  /\ output = <<>>

-----------------------------------------------------------------------------
(* A definition with a suffix is a mutated form of the one after it.        *)

Marked_Never(m) == FALSE
Marked(m) == m \in visited

Popped_Missing(s) == s
Popped(s) == Front(s)

(* pushing the modules m refers to, in order *)
Push_Reversed(s, m) == s \o Reverse(refs[m])
Push(s, m) == s \o refs[m]

(* A module that was reached before is dropped. *)
SkipVisited ==
  /\ stack # <<>>
  /\ Marked(Last(stack))
  /\ stack' = Popped(stack)
  /\ UNCHANGED <<refs, visited, spare, output>>

Visit ==
  /\ stack # <<>>
  /\ ~Marked(Last(stack))
  /\ visited' = visited \union {Last(stack)}
  /\ spare' = Append(spare, Last(stack))
  /\ stack' = Push(Popped(stack), Last(stack))
  /\ UNCHANGED <<refs, output>>

\* Mutated: spare_stack is emptied from its bottom.
Emit_Oldest ==
  /\ stack = <<>>
  /\ spare # <<>>
  /\ output' = Append(output, Head(spare))
  /\ spare' = Tail(spare)
  /\ UNCHANGED <<refs, stack, visited>>

(* The second loop: mc.Append(mod->codegen_fragment). *)
Emit ==
  /\ stack = <<>>
  /\ spare # <<>>
  /\ output' = Append(output, Last(spare))
  /\ spare' = Front(spare)
  /\ UNCHANGED <<refs, stack, visited>>

Next == SkipVisited \/ Visit \/ Emit

Spec == Init /\ [][Next]_vars
FairSpec == Spec /\ WF_vars(Next)

-----------------------------------------------------------------------------
(* What walks the modules: two stacks and an output of modules, and a set of  *)
(* marks.                                                                   *)
TypeOK ==
  /\ refs \in Graph
  /\ stack \in Seq(Module) /\ spare \in Seq(Module) /\ output \in Seq(Module)
  /\ visited \subseteq Module

Finished == stack = <<>> /\ spare = <<>>

(* No module's code is written twice, although a module is pushed once for    *)
(* every reference to it.                                                     *)
EmittedOnce ==
  IsInjective(spare) /\ IsInjective(output) /\ Range(spare) \intersect Range(output) = {}

(* The least set of modules with m in it and closed under refs.               *)
ReachableFrom(m) ==
  {n \in Module : \A S \in SUBSET Module :
     m \in S /\ (\A p \in S : Range(refs[p]) \subseteq S) => n \in S}

(* The bundle has the code of exactly the modules the entry reaches.          *)
EmitsReachable == Finished => Range(output) = ReachableFrom(Entry)

(* The entry's code runs last, also when a cycle leads back to it.            *)
EntryLast == Finished => Last(output) = Entry

(* The loops of ConcatModules write all that the bundle is of: the modules the *)
(* entry reaches, no other, and the entry after them.                          *)
BundleIsWhole == EmitsReachable /\ EntryLast

Position(m) == CHOOSE i \in DOMAIN output : output[i] = m

(* Where no module is referred to twice, the order is the post-order: what a  *)
(* module refers to comes before it, and of two references of a module the     *)
(* first one's whole tree comes before the second one's.  Elsewhere it is not: *)
(* with a importing b and c, and b importing c, b's code comes before c's.     *)
IsTree ==
  \A m, n \in Module : \A i \in DOMAIN refs[m], j \in DOMAIN refs[n] :
    /\ refs[m][i] # Entry
    /\ refs[m][i] = refs[n][j] => m = n /\ i = j
TreeInPostorder ==
  Finished /\ IsTree =>
    \A m \in Range(output) : \A i \in DOMAIN refs[m] :
      /\ Position(refs[m][i]) < Position(m)
      /\ \A j \in DOMAIN refs[m] : i < j =>
           \A p \in ReachableFrom(refs[m][i]), q \in ReachableFrom(refs[m][j]) :
             Position(p) < Position(q)

(* The walk ends, on cyclic graphs too.                                        *)
Terminates == <>Finished

==============================================================================
