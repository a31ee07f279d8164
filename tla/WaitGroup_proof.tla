--------------------------- MODULE WaitGroup_proof ---------------------------
(***************************************************************************)
(* Proofs about utils/WaitGroup.h for any finite set of tasks: the counter *)
(* is the number of outstanding tasks, Wait() returns only when there are  *)
(* none, only the last task notifies, and the group implements the latch.  *)
(***************************************************************************)
EXTENDS WaitGroup, FiniteSetTheorems, TLAPS

(* The frame that owns the group waits before it ends.                      *)
DestroyedAfterReturn == ~alive => waiter = "returned"

(* What the induction needs: the type of the state, the meaning of the      *)
(* counter, that a waiter is let through only when nothing is counted, that *)
(* only the last task notifies, and when the group goes.                    *)
IInv ==
  /\ TypeOK /\ CounterIsOutstanding /\ ReturnedMeansIdle /\ LastOneNotifies
  /\ DestroyedAfterReturn

(* The set of counted tasks is finite, whatever the tasks' status.          *)
LEMMA CountedFinite == IsFiniteSet(Counted) /\ Cardinality(Counted) \in Nat
  BY WaitGroupAssumption, FS_Subset, FS_CardinalityType DEF Counted

(* Init establishes the invariant: nothing is counted and the counter is 0. *)
LEMMA InitIInv == Init => IInv
<1> SUFFICES ASSUME Init PROVE IInv
  OBVIOUS
<1>1. Counted = {}
  BY DEF Init, Counted
<1>2. Cardinality(Counted) = 0
  BY <1>1, FS_EmptySet
<1> QED
  BY <1>1, <1>2 DEF Init, IInv, TypeOK, TaskStatus, WaiterState, CounterIsOutstanding,
     ReturnedMeansIdle, LastOneNotifies, DestroyedAfterReturn

(* Add() counts exactly the tasks it is called for.                         *)
LEMMA AddIInv == ASSUME IInv, NEW S \in SUBSET Task, Add(S) PROVE IInv'
<1>1. /\ IsFiniteSet(S) /\ Cardinality(S) \in Nat
      /\ IsFiniteSet(Counted) /\ Cardinality(Counted) \in Nat
  BY CountedFinite, WaitGroupAssumption, FS_Subset, FS_CardinalityType
<1>2. Counted' = Counted \union S
  BY DEF Add, Counted, IInv, TypeOK, TaskStatus
<1>3. Counted \intersect S = {}
  BY DEF Add, Counted
<1>4. Cardinality(Counted \union S) = Cardinality(Counted) + Cardinality(S)
  <2>1. Cardinality(Counted \intersect S) = 0
    BY <1>3, FS_EmptySet
  <2>2. Cardinality(Counted \union S)
          = Cardinality(Counted) + Cardinality(S) - Cardinality(Counted \intersect S)
    BY <1>1, FS_Union
  <2> QED
    BY <1>1, <2>1, <2>2
<1>5. CounterIsOutstanding'
  BY <1>2, <1>4 DEF Add, Increment, IInv, CounterIsOutstanding
<1>6. TypeOK'
  BY <1>1 DEF Add, Increment, IInv, TypeOK, TaskStatus
<1>7. waiter # "returned"
  BY DEF Add, IInv, ReturnedMeansIdle
<1>8. LastOneNotifies'
  <2>1. \A t \in Task : status[t] # "notifying"
    BY DEF Add, IInv, LastOneNotifies
  <2> QED
    BY <1>7, <2>1 DEF Add, IInv, TypeOK, LastOneNotifies, DestroyedAfterReturn
<1> QED
  BY <1>5, <1>6, <1>7, <1>8 DEF Add, IInv, ReturnedMeansIdle, DestroyedAfterReturn

(* Done()'s decrement takes exactly one task off the count.                 *)
LEMMA DecrementIInv == ASSUME IInv, NEW t \in Task, DoneDecrement(t) PROVE IInv'
<1>1. t \in Counted
  BY DEF DoneDecrement, Counted
<1>2. Counted' = Counted \ {t}
  BY DEF DoneDecrement, Counted, IInv, TypeOK, TaskStatus
<1>3. Cardinality(Counted \ {t}) = Cardinality(Counted) - 1
  BY <1>1, CountedFinite, FS_RemoveElement
<1>4. IsFiniteSet(Counted \ {t}) /\ Cardinality(Counted \ {t}) \in Nat
  BY CountedFinite, FS_Subset, FS_CardinalityType
<1>5. CounterIsOutstanding'
  BY <1>2, <1>3 DEF DoneDecrement, IInv, CounterIsOutstanding
<1>6. TypeOK'
  BY <1>3, <1>4 DEF DoneDecrement, IInv, TypeOK, TaskStatus, CounterIsOutstanding
<1>7. ReturnedMeansIdle'
  BY <1>2 DEF DoneDecrement, IInv, ReturnedMeansIdle
<1>8. LastOneNotifies'
  <2>1. \A s \in Task : status[s] # "notifying"
    BY <1>1 DEF IInv, LastOneNotifies
  <2>2. status'[t] = "notifying" => Counted' = {}
    <3>1. status'[t] = "notifying" => Cardinality(Counted \ {t}) <= 0
      BY <1>3, CountedFinite DEF DoneDecrement, Drained, IInv, TypeOK, CounterIsOutstanding
    <3> QED
      BY <1>2, <1>4, <3>1, FS_EmptySet
  <2>3. \A s \in Task \ {t} : status'[s] # "notifying"
    BY <2>1 DEF DoneDecrement, IInv, TypeOK
  <2>4. alive'
    BY <1>1 DEF DoneDecrement, IInv, LastOneNotifies
  <2> QED
    BY <2>2, <2>3, <2>4 DEF LastOneNotifies
<1> QED
  BY <1>5, <1>6, <1>7, <1>8 DEF IInv, DoneDecrement, DestroyedAfterReturn

(* The other steps leave the count alone; Wait() returns at zero only.      *)
LEMMA OtherIInv ==
  ASSUME IInv,
         \/ \E t \in Task : DoneNotify(t)
         \/ WaitBegin \/ WaitCheck \/ WaitBlock \/ WaitSpuriousWake \/ Destroy
         \/ UNCHANGED vars
  PROVE  IInv'
<1> USE DEF IInv, TypeOK, CounterIsOutstanding, ReturnedMeansIdle, LastOneNotifies, TaskStatus,
            DestroyedAfterReturn, WaiterState
<1>1. ASSUME NEW t \in Task, DoneNotify(t) PROVE IInv'
  <2>1. Counted' = Counted
    BY <1>1 DEF DoneNotify, Counted
  <2> QED
    BY <1>1, <2>1 DEF DoneNotify, AfterWake
<1>2. CASE WaitCheck
  <2>1. Counted' = Counted
    BY <1>2 DEF WaitCheck, Counted
  <2>2. counter <= 0 => Counted = {}
    BY CountedFinite, FS_EmptySet
  <2> QED
    BY <1>2, <2>1, <2>2 DEF WaitCheck, Drained
<1>3. CASE WaitBegin \/ WaitBlock \/ WaitSpuriousWake \/ Destroy \/ UNCHANGED vars
  <2>1. Counted' = Counted
    BY <1>3 DEF WaitBegin, WaitBlock, WaitSpuriousWake, Destroy, vars, Counted
  <2> QED
    BY <1>3, <2>1 DEF WaitBegin, WaitBlock, WaitSpuriousWake, Destroy, vars, AfterWake
<1> QED
  BY <1>1, <1>2, <1>3

(* Every step keeps the invariant.                                          *)
LEMMA NextIInv == IInv /\ [Next]_vars => IInv'
  BY AddIInv, DecrementIInv, OtherIInv DEF Next

(* The wait group's state is well-typed, its counter is the number of       *)
(* outstanding tasks, Wait() has returned only if there is none left, and   *)
(* whoever notifies was the last.                                           *)
THEOREM Invariance == Spec => []IInv
  BY InitIInv, NextIInv, PTL DEF Spec

(* Counter and tasks never drift apart, for any number of tasks.            *)
THEOREM CounterCorrect == Spec => []CounterIsOutstanding
  BY Invariance, PTL DEF IInv

(* Whoever waits for a batch sees all of it done.                           *)
THEOREM ReturnIsSafe == Spec => []ReturnedMeansIdle
  BY Invariance, PTL DEF IInv

(* The group is notified by the last task alone, however tasks add others.  *)
THEOREM OneNotification == Spec => []LastOneNotifies
  BY Invariance, PTL DEF IInv

(* Every step of the wait group is a step of the latch, or leaves the       *)
(* latch's state as it is.                                                  *)
LEMMA StepSimulation == IInv /\ [Next]_vars => [AsLatch!Next]_(AsLatch!vars)
<1> SUFFICES ASSUME IInv, [Next]_vars PROVE [AsLatch!Next]_(AsLatch!vars)
  OBVIOUS
<1> USE DEF IInv, AsLatch!Next, AsLatch!vars
<1>1. ASSUME NEW S \in SUBSET Task, Add(S) PROVE AsLatch!Join(S)
  BY <1>1 DEF Add, Counted, ReturnedMeansIdle, TypeOK, TaskStatus, AsLatch!Join
<1>2. ASSUME NEW t \in Task, DoneDecrement(t) PROVE AsLatch!Leave(t)
  BY <1>2 DEF DoneDecrement, Counted, TypeOK, TaskStatus, AsLatch!Leave
<1>3. CASE WaitCheck
  <2>1. UNCHANGED Counted
    BY <1>3 DEF WaitCheck, Counted
  <2>2. counter <= 0 => Counted = {}
    BY CountedFinite, FS_EmptySet DEF CounterIsOutstanding
  <2> QED
    BY <1>3, <2>1, <2>2 DEF WaitCheck, Drained, AsLatch!Open
<1>4. ASSUME NEW t \in Task, DoneNotify(t) PROVE UNCHANGED AsLatch!vars
  BY <1>4 DEF DoneNotify, Counted, AfterWake, TypeOK, TaskStatus
<1>5. CASE WaitBegin \/ WaitBlock \/ WaitSpuriousWake \/ Destroy \/ UNCHANGED vars
  BY <1>5 DEF WaitBegin, WaitBlock, WaitSpuriousWake, Destroy, vars, Counted, AfterWake
<1> QED
  BY <1>1, <1>2, <1>3, <1>4, <1>5 DEF Next

(* The wait group implements the abstract latch.                            *)
THEOREM Refinement == Spec => ImplementsLatch
<1>1. Init => AsLatch!Init
  BY DEF Init, AsLatch!Init, Counted
<1> QED
  BY <1>1, StepSimulation, Invariance, PTL DEF Spec, ImplementsLatch, AsLatch!Spec

==============================================================================
