----------------------------- MODULE TaskHandle -----------------------------
(***************************************************************************)
(* Task::handle of blockio/test.cc: THREAD_NUM threads share one Task and  *)
(* take the numbers TASK_NUM, ..., 1 from its counter _x, which they test  *)
(* without the mutex and test again with it.                               *)
(***************************************************************************)
EXTENDS Integers

CONSTANTS Threads, None, TASK_NUM

ASSUME TasksAssumption == TASK_NUM \in Nat /\ None \notin Threads

VARIABLES
  x,            \* _x
  mutex,        \* the thread that holds it, or None
  pc,           \* thread -> where it is in handle
  task_id,      \* thread -> its local variable
  runs          \* task -> how often "do task id" was reached with it

vars == <<x, mutex, pc, task_id, runs>>

Ids == 0..TASK_NUM

Init ==
  /\ x = TASK_NUM /\ mutex = None
  /\ pc = [t \in Threads |-> "test"]
  /\ task_id = [t \in Threads |-> 0]
  /\ runs = [k \in Ids |-> 0]

Goto(t, l) == pc' = [pc EXCEPT ![t] = l]

\* if (_x > 0), without the mutex.
Test(t) ==
  /\ pc[t] = "test"
  /\ Goto(t, IF x > 0 THEN "lock" ELSE "returned")
  /\ UNCHANGED <<x, mutex, task_id, runs>>

\* Mutant: the lock_guard is missing.
LockNothing(t) ==
  /\ pc[t] = "lock"
  /\ Goto(t, "get")
  /\ UNCHANGED <<x, mutex, task_id, runs>>

Lock(t) ==
  /\ pc[t] = "lock"
  /\ mutex = None /\ mutex' = t
  /\ Goto(t, "get")
  /\ UNCHANGED <<x, task_id, runs>>

\* The second test, and task_id = _x.
Get(t) ==
  /\ pc[t] = "get"
  /\ \/ x > 0 /\ task_id' = [task_id EXCEPT ![t] = x] /\ Goto(t, "decrement")
     \/ x <= 0 /\ Goto(t, "reset") /\ UNCHANGED task_id
  /\ UNCHANGED <<x, mutex, runs>>

\* Mutant: two tasks are taken and one is run.
StoreSkips(t) ==
  /\ \/ pc[t] = "decrement" /\ x' = (IF x > 1 THEN x - 2 ELSE 0)
     \/ pc[t] = "reset" /\ x' = 0
  /\ mutex' = None
  /\ Goto(t, "do")
  /\ UNCHANGED <<task_id, runs>>

\* --_x or _x = 0, and the end of the guard's scope.
Store(t) ==
  /\ \/ pc[t] = "decrement" /\ x' = x - 1
     \/ pc[t] = "reset" /\ x' = 0
  /\ mutex' = None
  /\ Goto(t, "do")
  /\ UNCHANGED <<task_id, runs>>

\* Mutant: a thread goes on to the mutex without the test outside.
DoNoTest(t) ==
  /\ pc[t] = "do"
  /\ runs' = [runs EXCEPT ![task_id[t]] = IF @ = 2 THEN 2 ELSE @ + 1]
  /\ Goto(t, "lock")
  /\ UNCHANGED <<x, mutex, task_id>>

\* The task runs, whichever id task_id has.
Do(t) ==
  /\ pc[t] = "do"
  /\ runs' = [runs EXCEPT ![task_id[t]] = @ + 1]
  /\ Goto(t, "test")
  /\ UNCHANGED <<x, mutex, task_id>>

Thread(t) == Test(t) \/ Lock(t) \/ Get(t) \/ Store(t) \/ Do(t)

Next == \E t \in Threads : Thread(t)

Spec == Init /\ [][Next]_vars

\* The threads run on.
FairSpec == Spec /\ \A t \in Threads : WF_vars(Thread(t))

-----------------------------------------------------------------------------
(* Properties *)

TypeOK ==
  /\ x \in Ids /\ mutex \in Threads \cup {None}
  /\ pc \in [Threads -> {"test", "lock", "get", "decrement", "reset", "do",
                         "returned"}]
  /\ task_id \in [Threads -> Ids]
  /\ runs \in [Ids -> Nat]

Distinct ==
  \A s, t \in Threads :
    s # t /\ task_id[s] # 0 => task_id[s] # task_id[t]

\* The mutex makes taking a number from _x one step (lines 17-19): no two threads
\* ever have the same one, and _x never falls below 0.
TakenByOne == TypeOK /\ Distinct

\* When the threads have returned every task was run, although each of them ends
\* on a test of _x made without the mutex (lines 16, 21).
NoTaskLost ==
  (\A t \in Threads : pc[t] = "returned") /\ Threads # {}
    => \A k \in 1..TASK_NUM : runs[k] > 0

\* main's join returns (line 53): every thread ends.
ThreadsEnd == <>(\A t \in Threads : pc[t] = "returned")

=============================================================================
