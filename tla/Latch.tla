-------------------------------- MODULE Latch --------------------------------
(***************************************************************************)
(* What jetpack's fork-join stages expect of a WaitGroup: a set of tasks   *)
(* is outstanding, tasks join and leave it, and the latch opens once, when *)
(* nothing is outstanding.  Once open it is final: no task may join an     *)
(* open latch.  utils/WaitGroup.h is the implementation (module WaitGroup).*)
(***************************************************************************)

CONSTANT Task        \* the tasks that may be outstanding

VARIABLES
  pending,           \* tasks that joined and have not left
  open               \* the waiter has been let through

vars == <<pending, open>>

(* The latch is open or closed, and only tasks pass it.                      *)
TypeOK ==
  /\ pending \subseteq Task
  /\ open \in BOOLEAN

Init ==
  /\ pending = {}
  /\ open = FALSE

Join(S) ==
  /\ ~open
  /\ S \intersect pending = {}
  /\ pending' = pending \union S
  /\ UNCHANGED open

Leave(t) ==
  /\ t \in pending
  /\ pending' = pending \ {t}
  /\ UNCHANGED open

Open ==
  /\ ~open
  /\ pending = {}
  /\ open' = TRUE
  /\ UNCHANGED pending

Next ==
  \/ \E S \in SUBSET Task : Join(S)
  \/ \E t \in Task : Leave(t)
  \/ Open

Spec == Init /\ [][Next]_vars

==============================================================================
