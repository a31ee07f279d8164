------------------------------ MODULE WaitGroup ------------------------------
(***************************************************************************)
(* utils/WaitGroup.h: an atomic counter, a mutex and a condition variable, *)
(* used by the module resolver to wait for a batch of thread-pool tasks.   *)
(*                                                                         *)
(* Done() decrements the counter and notifies WITHOUT taking the mutex;    *)
(* Wait() holds the mutex while it tests the counter and gives it up as it *)
(* goes to sleep.  There is one waiter (the thread that runs the stage)    *)
(* and Done() never locks, so nobody ever contends for the mutex: it is    *)
(* not a variable.  Every step below is one access to shared state.        *)
(*                                                                         *)
(* The tasks stand for the lambdas ModuleResolver hands to the pool: the   *)
(* stage's owner Adds one batch before it waits, and a running task may    *)
(* Add for another task it is about to enqueue (the parse stage does).     *)
(* The group dies with the frame that owns it, as soon as Wait() returned: *)
(* RenameAllInnerScopes joins no pool first.  (DumpAllResult does, before  *)
(* it waits: Composition has that group.)                                  *)
(***************************************************************************)
EXTENDS Integers, FiniteSets

CONSTANT Task  \* tasks that will call Done() once each

ASSUME WaitGroupAssumption == IsFiniteSet(Task)

VARIABLES
  counter,     \* std::atomic<int> counter
  status,      \* where each task is: see TaskStatus
  waiter,      \* where the thread in Wait() is: see WaiterState
  alive,       \* the WaitGroup object has not been destroyed
  missed       \* history: a notification was made in the waiter's gap between
               \* its test of the counter and its sleep

vars == <<counter, status, waiter, alive, missed>>

TaskStatus  == {"absent", "counted", "notifying", "finished"}
WaiterState == {"adding", "check", "blocking", "asleep", "returned"}

Counted == {t \in Task : status[t] = "counted"}

Init ==
  /\ counter = 0
  /\ status = [t \in Task |-> "absent"]
  /\ waiter = "adding"
  /\ alive = TRUE
  /\ missed = FALSE

-----------------------------------------------------------------------------
(* The decisions of the code.  A name with a suffix (Drained_Strict) is a   *)
(* mutated form of the definition after it, used to see a property fail;    *)
(* no specification uses it.                                                *)

(* The test both Done() and Wait() apply to the counter. *)
Drained_Strict(n)   == n < 0
Drained_OffByOne(n) == n <= 1
Drained(n) == n <= 0

(* The increment Add() is called with for the tasks in S. *)
Increment_Default(S) == 1
Increment(S) == Cardinality(S)

(* Where cond.wait continues when the thread is woken. *)
AfterWake_NoPredicate == "returned"
AfterWake == "check"

-----------------------------------------------------------------------------
(***************************************************************************)
(* Add(incr), by the owner, once, before it waits, or by a task that is    *)
(* itself still counted; S is the set of tasks the increment stands for.   *)
(***************************************************************************)
Add(S) ==
  /\ S # {}
  /\ \A t \in S : status[t] = "absent"
  /\ \/ waiter = "adding" /\ \A t \in Task : status[t] = "absent"
     \/ Counted # {}
  /\ counter' = counter + Increment(S)
  /\ status' = [t \in Task |-> IF t \in S THEN "counted" ELSE status[t]]
  /\ UNCHANGED <<waiter, alive, missed>>

(* --counter, and the test of its result that decides whether to notify. *)
DoneDecrement(t) ==
  /\ status[t] = "counted"
  /\ counter' = counter - 1
  /\ status' = [status EXCEPT ![t] = IF Drained(counter - 1) THEN "notifying"
                                                             ELSE "finished"]
  /\ UNCHANGED <<waiter, alive, missed>>

(* cond.notify_all(): wakes the waiter if it is asleep at this moment. *)
DoneNotify(t) ==
  /\ status[t] = "notifying"
  /\ status' = [status EXCEPT ![t] = "finished"]
  /\ waiter' = IF waiter = "asleep" THEN AfterWake ELSE waiter
  /\ missed' = (missed \/ waiter = "blocking")
  /\ UNCHANGED <<counter, alive>>

(* Wait() is called and takes the mutex. *)
WaitBegin ==
  /\ waiter = "adding"
  /\ waiter' = "check"
  /\ UNCHANGED <<counter, status, alive, missed>>

(* cond.wait(lock, pred): the predicate is evaluated ... *)
WaitCheck ==
  /\ waiter = "check"
  /\ waiter' = IF Drained(counter) THEN "returned" ELSE "blocking"
  /\ UNCHANGED <<counter, status, alive, missed>>

(* ... and, when it was false, the thread joins the condition's queue. *)
WaitBlock ==
  /\ waiter = "blocking"
  /\ waiter' = "asleep"
  /\ UNCHANGED <<counter, status, alive, missed>>

(* A condition variable may wake without a notification; the predicate is  *)
(* then evaluated again.                                                   *)
WaitSpuriousWake ==
  /\ waiter = "asleep"
  /\ waiter' = AfterWake
  /\ UNCHANGED <<counter, status, alive, missed>>

(* The owner's frame goes away after Wait() returned. *)
Destroy ==
  /\ alive
  /\ waiter = "returned"
  /\ alive' = FALSE
  /\ UNCHANGED <<counter, status, waiter, missed>>

Next ==
  \/ \E S \in SUBSET Task : Add(S)
  \/ \E t \in Task : DoneDecrement(t) \/ DoneNotify(t)
  \/ WaitBegin
  \/ WaitCheck
  \/ WaitBlock
  \/ WaitSpuriousWake
  \/ Destroy

Spec == Init /\ [][Next]_vars

(***************************************************************************)
(* The pool's threads keep running and every task reaches its Done(); the  *)
(* waiting thread is scheduled.  Nothing obliges a spurious wakeup.        *)
(***************************************************************************)
Fairness ==
  /\ \A t \in Task : WF_vars(DoneDecrement(t)) /\ WF_vars(DoneNotify(t))
  /\ WF_vars(WaitBegin) /\ WF_vars(WaitCheck) /\ WF_vars(WaitBlock)

FairSpec == Spec /\ Fairness

-----------------------------------------------------------------------------
(* The counter of a WaitGroup is never negative: Done() comes after the Add() *)
(* it answers, whatever the interleaving of tasks and waiter.                *)
TypeOK ==
  /\ counter \in Nat
  /\ status \in [Task -> TaskStatus]
  /\ waiter \in WaiterState
  /\ alive \in BOOLEAN
  /\ missed \in BOOLEAN

(* The counter is exactly the number of tasks that were added and have not  *)
(* decremented it: no Done() is lost or counted twice by the interleaving.  *)
CounterIsOutstanding == counter = Cardinality(Counted)

(* Wait() returns only when no counted task is left, and none appears later: *)
(* what the frames of the resolver's stages rely on when they go on to read  *)
(* what the tasks wrote.                                                     *)
ReturnedMeansIdle == waiter = "returned" => Counted = {}

(* Only the last task of the group notifies: when Done() has taken the count *)
(* to zero, no other task is counted or on its way to notify_all().  There   *)
(* is one notification, so there is no second one for a waiter that missed   *)
(* it; and a group that went with its frame is used by one task at most,     *)
(* which is inside Done().  (That one is not ruled out: the waiter may have  *)
(* returned and destroyed the group before the notification.)                *)
LastOneNotifies ==
  /\ \A t \in Task : status[t] = "notifying" =>
       /\ Counted = {}
       /\ \A s \in Task \ {t} : status[s] # "notifying"
  /\ ~alive => Counted = {}

(* Wait() lets the stage go on: when every task runs to its end, the waiter  *)
(* returns.                                                                  *)
WaitReturns == <>(waiter = "returned")

(* The one way Wait() can fail to return is a notify_all() made in the gap   *)
(* between the waiter's test of the counter and its sleep; in every other    *)
(* interleaving of Done() and Wait() the waiter is let through.              *)
WaitReturnsUnlessMissed == <>(waiter = "returned" \/ missed)

(* The group implements the latch its users expect.                          *)
AsLatch == INSTANCE Latch WITH pending <- Counted, open <- (waiter = "returned")
ImplementsLatch == AsLatch!Spec

==============================================================================
