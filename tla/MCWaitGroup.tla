----------------------------- MODULE MCWaitGroup -----------------------------
(* A group of two to four pool tasks and one waiter. *)
EXTENDS WaitGroup
==============================================================================
