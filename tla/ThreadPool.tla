----------------------------- MODULE ThreadPool -----------------------------
(***************************************************************************)
(* The thread pool of threadpool/main.c and the program around it: main()  *)
(* creates the pool, adds NTasks tasks and destroys the pool, while the    *)
(* manager thread (adjust_thread) and the pool threads (threadpool_thread) *)
(* run.                                                                    *)
(*                                                                         *)
(* Every access of a worker to the shared structure is a step of its own,  *)
(* and a counter that is changed without a lock that protects it is loaded *)
(* into reg[t] in one step and stored in another: the makefile builds      *)
(* without optimisation, so x-- is a load, a subtraction and a store.      *)
(*                                                                         *)
(* The mutexes are glibc's default ones: unlocking a mutex, and waiting on *)
(* a condition variable with it, frees it whoever holds it; locking one    *)
(* that is held, also by the caller, blocks.  Condition variables may wake *)
(* spuriously, and pthread_cond_destroy waits until nobody waits on it.    *)
(***************************************************************************)
EXTENDS Integers, FiniteSets

CONSTANTS
  Workers,              \* the threads pthread_create can still hand out
  Main, Adjust,         \* the main thread and the manager thread
  None, Garbage,        \* no thread or task; what an unwritten slot holds
  NTasks,               \* tasks main() adds (20 in the program)
  min_thr_num, max_thr_num, queue_max_size,     \* threadpool_create(3, 100, 100)
  MIN_WAIT_TSK_NUM, DEFAULT_THREAD_VARY,        \* both 10 in the program
  Drift                 \* bound: no dequeue starts at queue_size <= -Drift

ASSUME ThreadsAssumption ==
  /\ IsFiniteSet(Workers)
  /\ Main \notin Workers /\ Adjust \notin Workers /\ Main # Adjust
  /\ None \notin Workers \cup {Main, Adjust}
  /\ Garbage # None

ASSUME SizesAssumption ==
  /\ NTasks \in Nat /\ None \notin 1..NTasks /\ Garbage \notin 1..NTasks
  /\ min_thr_num \in Nat /\ max_thr_num \in Nat /\ min_thr_num <= max_thr_num
  /\ queue_max_size \in Nat \ {0}
  /\ MIN_WAIT_TSK_NUM \in Nat /\ DEFAULT_THREAD_VARY \in Nat /\ Drift \in Nat

\* threads is allocated with 16 bytes per queue slot and used with 8 per thread
ASSUME AllocationAssumption == max_thr_num <= 2 * queue_max_size

VARIABLES
  lock, thread_counter,            \* the holder of each mutex, or None
  queue_front, queue_rear, queue_size, task_queue,
  live_thr_num, busy_thr_num, wait_exit_thr_num, shutdown,
  threads,                         \* slot -> the thread whose tid it holds
  pc,                              \* thread -> where it is in its function
  reg,                             \* thread -> the counter value it loaded
  task,                            \* worker -> its local variable task
  i,                               \* main's loop index
  adj                              \* adjust_thread's locals

queueVars == <<queue_front, queue_rear, queue_size, task_queue>>
countVars == <<live_thr_num, busy_thr_num, wait_exit_thr_num>>
poolVars == <<thread_counter, queueVars, countVars, shutdown, threads>>
localVars == <<reg, task, i, adj>>
vars == <<lock, poolVars, pc, localVars>>

Threads == Workers \cup {Main, Adjust}
Tasks == 1..NTasks
Slots == 0..(queue_max_size - 1)
Tids == 0..(max_thr_num - 1)

WorkerPC == {"none", "check", "cond_wait", "waiting", "reacquire", "test_exit",
             "load_exit", "store_exit", "test_live", "load_live", "store_live",
             "exit_lock", "exited", "deq_task", "deq_front_load",
             "deq_front_store", "deq_size_load", "deq_size_store",
             "deq_unlock", "busy_inc", "run", "busy_dec"}
MainPC == {"create", "create_adjust", "add_lock", "add_check", "add_wait",
           "add_waiting", "add_reacquire", "add_put", "add_load", "add_store",
           "add_unlock", "set_shutdown", "join_adjust", "notify", "join",
           "free_lock", "free_counter", "free_cond", "ended", "crashed"}
AdjustPC == {"none", "top", "snap_lock", "snap", "snap_unlock", "busy",
             "grow_lock", "grow", "grow_store", "grow_unlock", "shrink_lock",
             "shrink_set", "shrink_unlock", "signal", "done"}

\* The process is there: main has neither returned nor the program crashed.
Running == pc[Main] \notin {"ended", "crashed"}

\* free(pool->task_queue) and free(pool->threads) come before the locks.
Freed == pc[Main] \in {"free_lock", "free_counter", "free_cond"}

At(t, l) == Running /\ pc[t] = l
Goto(t, l) == pc' = [pc EXCEPT ![t] = l]

Acquire(t, l) == lock = None /\ lock' = t /\ Goto(t, l)
Release(t, l) == lock' = None /\ Goto(t, l)

\* pthread_cond_signal and pthread_cond_broadcast of queue_not_empty, as the
\* program counters they may leave.
NotEmptyWaiters == {w \in Workers : pc[w] = "waiting"}
SignalNotEmpty(p) ==
  IF NotEmptyWaiters = {} THEN {p}
  ELSE {[p EXCEPT ![w] = "reacquire"] : w \in NotEmptyWaiters}
BroadcastNotEmpty(p) ==
  [t \in Threads |-> IF t \in NotEmptyWaiters THEN "reacquire" ELSE p[t]]
\* ... and the broadcast of queue_not_full, on which only main waits.
BroadcastNotFull(p) ==
  IF p[Main] = "add_waiting" THEN [p EXCEPT ![Main] = "add_reacquire"] ELSE p

Unborn == {w \in Workers : pc[w] = "none"}

Init ==
  /\ lock = None /\ thread_counter = None
  /\ queue_front = 0 /\ queue_rear = 0 /\ queue_size = 0
  /\ task_queue = [s \in Slots |-> Garbage]
  /\ live_thr_num = 0 /\ busy_thr_num = 0 /\ wait_exit_thr_num = 0
  /\ shutdown = FALSE
  /\ threads = [s \in Tids |-> None]
  /\ pc = [t \in Threads |-> IF t = Main THEN "create" ELSE "none"]
  /\ reg = [t \in Threads |-> 0]
  /\ task = [w \in Workers |-> None]
  /\ i = 0
  /\ adj = [i |-> 0, add |-> 0, queue_size |-> 0, live |-> 0, busy |-> 0]

-----------------------------------------------------------------------------
(* threadpool_thread: waiting for a task, and the two ways a thread leaves. *)

\* The while condition and the test of shutdown after the loop.
Check(w) ==
  /\ At(w, "check")
  /\ \/ shutdown /\ Goto(w, "exit_lock")
     \/ ~shutdown /\ queue_size = 0 /\ Goto(w, "cond_wait")
     \/ ~shutdown /\ queue_size # 0 /\ queue_size > -Drift /\ Goto(w, "deq_task")
  /\ UNCHANGED <<lock, poolVars, localVars>>

\* pthread_cond_wait releases the mutex, which this thread need not hold.
CondWait(w) ==
  /\ At(w, "cond_wait")
  /\ Release(w, "waiting")
  /\ UNCHANGED <<poolVars, localVars>>

SpuriousWakeup(w) ==
  /\ At(w, "waiting")
  /\ Goto(w, "reacquire")
  /\ UNCHANGED <<lock, poolVars, localVars>>

Reacquire(w) ==
  /\ At(w, "reacquire")
  /\ Acquire(w, "test_exit")
  /\ UNCHANGED <<poolVars, localVars>>

\* wait_exit_thr_num > 0, and after its decrement live_thr_num > min_thr_num.
TestExit(w) ==
  /\ \/ /\ At(w, "test_exit")
        /\ Goto(w, IF wait_exit_thr_num > 0 THEN "load_exit" ELSE "check")
     \/ /\ At(w, "test_live")
        /\ Goto(w, IF live_thr_num > min_thr_num THEN "load_live" ELSE "check")
  /\ UNCHANGED <<lock, poolVars, localVars>>

LoadCount(w) ==
  /\ \/ /\ At(w, "load_exit")
        /\ reg' = [reg EXCEPT ![w] = wait_exit_thr_num]
        /\ Goto(w, "store_exit")
     \/ /\ At(w, "load_live")
        /\ reg' = [reg EXCEPT ![w] = live_thr_num]
        /\ Goto(w, "store_live")
  /\ UNCHANGED <<lock, poolVars, task, i, adj>>

StoreCount(w) ==
  /\ \/ /\ At(w, "store_exit")
        /\ wait_exit_thr_num' = reg[w] - 1
        /\ Goto(w, "test_live")
        /\ UNCHANGED live_thr_num
     \/ /\ At(w, "store_live")
        /\ live_thr_num' = reg[w] - 1
        /\ Goto(w, "exit_lock")
        /\ UNCHANGED wait_exit_thr_num
  /\ reg' = [reg EXCEPT ![w] = 0]
  /\ UNCHANGED <<lock, thread_counter, queueVars, busy_thr_num, shutdown,
                 threads, task, i, adj>>

\* Both exits call pthread_mutex_lock where an unlock belongs: the thread ends
\* with the mutex held, or blocks for ever if it holds it already.
Exit(w) ==
  /\ At(w, "exit_lock")
  /\ Acquire(w, "exited")
  /\ UNCHANGED <<poolVars, localVars>>

-----------------------------------------------------------------------------
(* threadpool_thread: taking a task from the queue and running it. *)

\* Reading a slot after free(task_queue) yields its content or anything else.
DeqTask(w) ==
  /\ At(w, "deq_task")
  /\ \E v \in {task_queue[queue_front]} \cup (IF Freed THEN {Garbage} ELSE {}) :
       task' = [task EXCEPT ![w] = v]
  /\ Goto(w, "deq_front_load")
  /\ UNCHANGED <<lock, poolVars, reg, i, adj>>

DeqLoad(w) ==
  /\ \/ /\ At(w, "deq_front_load")
        /\ reg' = [reg EXCEPT ![w] = queue_front]
        /\ Goto(w, "deq_front_store")
     \/ /\ At(w, "deq_size_load")
        /\ reg' = [reg EXCEPT ![w] = queue_size]
        /\ Goto(w, "deq_size_store")
  /\ UNCHANGED <<lock, poolVars, task, i, adj>>

\* Mutant: the index of the next task does not wrap.
DeqStoreFrontNoWrap(w) ==
  /\ At(w, "deq_front_store")
  /\ queue_front' = reg[w] + 1
  /\ reg' = [reg EXCEPT ![w] = 0]
  /\ Goto(w, "deq_size_load")
  /\ UNCHANGED <<lock, thread_counter, queue_rear, queue_size, task_queue,
                 countVars, shutdown, threads, task, i, adj>>

DeqStoreFront(w) ==
  /\ At(w, "deq_front_store")
  /\ queue_front' = (reg[w] + 1) % queue_max_size
  /\ reg' = [reg EXCEPT ![w] = 0]
  /\ Goto(w, "deq_size_load")
  /\ UNCHANGED <<lock, thread_counter, queue_rear, queue_size, task_queue,
                 countVars, shutdown, threads, task, i, adj>>

\* The store of queue_size and the broadcast of queue_not_full.
DeqStoreSize(w) ==
  /\ At(w, "deq_size_store")
  /\ queue_size' = reg[w] - 1
  /\ reg' = [reg EXCEPT ![w] = 0]
  /\ pc' = BroadcastNotFull([pc EXCEPT ![w] = "deq_unlock"])
  /\ UNCHANGED <<lock, thread_counter, queue_front, queue_rear,
                 task_queue, countVars, shutdown, threads, task, i, adj>>

DeqUnlock(w) ==
  /\ At(w, "deq_unlock")
  /\ Release(w, "busy_inc")
  /\ UNCHANGED <<poolVars, localVars>>

\* Mutant: thread_counter is still held when the task runs.
BusyIncNoUnlock(w) ==
  /\ At(w, "busy_inc")
  /\ thread_counter = None /\ thread_counter' = w
  /\ busy_thr_num' = busy_thr_num + 1
  /\ Goto(w, "run")
  /\ UNCHANGED <<lock, queueVars, live_thr_num, wait_exit_thr_num,
                 shutdown, threads, localVars>>

\* thread_counter is locked and unlocked in pairs around every use of
\* busy_thr_num, so its critical sections are single steps.
BusyInc(w) ==
  /\ At(w, "busy_inc")
  /\ thread_counter = None
  /\ busy_thr_num' = busy_thr_num + 1
  /\ Goto(w, "run")
  /\ UNCHANGED <<lock, thread_counter, queueVars, live_thr_num,
                 wait_exit_thr_num, shutdown, threads, localVars>>

\* Calling what an unwritten slot holds ends the process.
Run(w) ==
  /\ At(w, "run")
  /\ \/ task[w] # Garbage /\ Goto(w, "busy_dec")
     \/ task[w] = Garbage /\ Goto(Main, "crashed")
  /\ UNCHANGED <<lock, poolVars, localVars>>

\* Mutant: the thread that is done resets the count.
BusyDecReset(w) ==
  /\ At(w, "busy_dec")
  /\ thread_counter = None
  /\ busy_thr_num' = 0
  /\ task' = [task EXCEPT ![w] = None]
  /\ Goto(w, "check")
  /\ UNCHANGED <<lock, thread_counter, queueVars, live_thr_num,
                 wait_exit_thr_num, shutdown, threads, reg, i, adj>>

BusyDec(w) ==
  /\ At(w, "busy_dec")
  /\ thread_counter = None
  /\ busy_thr_num' = busy_thr_num - 1
  /\ task' = [task EXCEPT ![w] = None]
  /\ Goto(w, "check")
  /\ UNCHANGED <<lock, thread_counter, queueVars, live_thr_num,
                 wait_exit_thr_num, shutdown, threads, reg, i, adj>>

Worker(w) ==
  \/ Check(w) \/ CondWait(w) \/ Reacquire(w) \/ TestExit(w) \/ LoadCount(w)
  \/ StoreCount(w) \/ Exit(w) \/ DeqTask(w) \/ DeqLoad(w) \/ DeqStoreFront(w)
  \/ DeqStoreSize(w) \/ DeqUnlock(w) \/ BusyInc(w) \/ Run(w) \/ BusyDec(w)

-----------------------------------------------------------------------------
(* adjust_thread *)

AdjustTop ==
  /\ At(Adjust, "top")
  /\ Goto(Adjust, IF shutdown THEN "done" ELSE "snap_lock")
  /\ UNCHANGED <<lock, poolVars, localVars>>

\* pthread_mutex_lock(&pool->lock), at its three places.
AdjustLock ==
  /\ \/ At(Adjust, "snap_lock") /\ Acquire(Adjust, "snap") /\ UNCHANGED adj
     \/ /\ At(Adjust, "grow_lock") /\ Acquire(Adjust, "grow")
        /\ adj' = [adj EXCEPT !.i = 0, !.add = 0]
     \/ At(Adjust, "shrink_lock") /\ Acquire(Adjust, "shrink_set") /\ UNCHANGED adj
  /\ UNCHANGED <<poolVars, reg, task, i>>

AdjustSnap ==
  /\ At(Adjust, "snap")
  /\ adj' = [adj EXCEPT !.queue_size = queue_size, !.live = live_thr_num]
  /\ Goto(Adjust, "snap_unlock")
  /\ UNCHANGED <<lock, poolVars, reg, task, i>>

\* Where the manager goes once it is done with growing: the test of line 205.
AfterGrow ==
  IF adj.busy * 2 < adj.live /\ adj.live > min_thr_num
  THEN "shrink_lock" ELSE "top"

\* pthread_mutex_unlock(&pool->lock), at its three places.
AdjustUnlock ==
  /\ \/ At(Adjust, "snap_unlock") /\ Release(Adjust, "busy") /\ UNCHANGED adj
     \/ At(Adjust, "grow_unlock") /\ Release(Adjust, AfterGrow) /\ UNCHANGED adj
     \/ /\ At(Adjust, "shrink_unlock") /\ Release(Adjust, "signal")
        /\ adj' = [adj EXCEPT !.i = 0]
  /\ UNCHANGED <<poolVars, reg, task, i>>

\* Reading busy_thr_num under thread_counter, then the test of line 184.
AdjustBusy ==
  /\ At(Adjust, "busy")
  /\ thread_counter = None
  /\ adj' = [adj EXCEPT !.busy = busy_thr_num]
  /\ Goto(Adjust,
          IF adj.queue_size >= MIN_WAIT_TSK_NUM /\ adj.live < max_thr_num
          THEN "grow_lock"
          ELSE IF busy_thr_num * 2 < adj.live /\ adj.live > min_thr_num
               THEN "shrink_lock" ELSE "top")
  /\ UNCHANGED <<lock, poolVars, reg, task, i>>

\* One iteration of the growing loop.  A slot that holds a tid gets the tid of
\* a new thread; the result of pthread_create is ignored, so live_thr_num is
\* incremented (loaded here, stored in AdjustGrowStore) also when it fails.
AdjustGrow ==
  /\ At(Adjust, "grow")
  /\ \/ /\ \/ adj.i >= max_thr_num
           \/ adj.add >= DEFAULT_THREAD_VARY
           \/ live_thr_num >= max_thr_num
        /\ Goto(Adjust, "grow_unlock")
        /\ UNCHANGED <<threads, reg, adj>>
     \/ /\ adj.i < max_thr_num /\ adj.add < DEFAULT_THREAD_VARY
        /\ live_thr_num < max_thr_num
        /\ threads[adj.i] = None
        /\ adj' = [adj EXCEPT !.i = @ + 1]
        /\ UNCHANGED <<pc, threads, reg>>
     \/ /\ adj.i < max_thr_num /\ adj.add < DEFAULT_THREAD_VARY
        /\ live_thr_num < max_thr_num
        /\ threads[adj.i] # None
        /\ \/ \E w \in Unborn :
                /\ threads' = [threads EXCEPT ![adj.i] = w]
                /\ pc' = [pc EXCEPT ![w] = "check", ![Adjust] = "grow_store"]
           \/ Goto(Adjust, "grow_store") /\ UNCHANGED threads
        /\ reg' = [reg EXCEPT ![Adjust] = live_thr_num]
        /\ adj' = [adj EXCEPT !.i = @ + 1, !.add = @ + 1]
  /\ UNCHANGED <<lock, thread_counter, queueVars, countVars, shutdown, task, i>>

\* Mutant: the number of live threads is counted twice.
AdjustGrowStoreTwice ==
  /\ At(Adjust, "grow_store")
  /\ live_thr_num' = reg[Adjust] + 2
  /\ reg' = [reg EXCEPT ![Adjust] = 0]
  /\ Goto(Adjust, "grow")
  /\ UNCHANGED <<lock, thread_counter, queueVars, busy_thr_num,
                 wait_exit_thr_num, shutdown, threads, task, i, adj>>

AdjustGrowStore ==
  /\ At(Adjust, "grow_store")
  /\ live_thr_num' = reg[Adjust] + 1
  /\ reg' = [reg EXCEPT ![Adjust] = 0]
  /\ Goto(Adjust, "grow")
  /\ UNCHANGED <<lock, thread_counter, queueVars, busy_thr_num,
                 wait_exit_thr_num, shutdown, threads, task, i, adj>>

AdjustShrink ==
  /\ At(Adjust, "shrink_set")
  /\ wait_exit_thr_num' = DEFAULT_THREAD_VARY
  /\ Goto(Adjust, "shrink_unlock")
  /\ UNCHANGED <<lock, thread_counter, queueVars, live_thr_num,
                 busy_thr_num, shutdown, threads, localVars>>

AdjustSignal ==
  /\ At(Adjust, "signal")
  /\ \/ /\ adj.i < DEFAULT_THREAD_VARY
        /\ adj' = [adj EXCEPT !.i = @ + 1]
        /\ pc' \in SignalNotEmpty(pc)
     \/ /\ adj.i >= DEFAULT_THREAD_VARY
        /\ Goto(Adjust, "top") /\ UNCHANGED adj
  /\ UNCHANGED <<lock, poolVars, reg, task, i>>

Adjusting ==
  \/ AdjustTop \/ AdjustLock \/ AdjustSnap \/ AdjustUnlock \/ AdjustBusy
  \/ AdjustGrow \/ AdjustGrowStore \/ AdjustShrink \/ AdjustSignal

-----------------------------------------------------------------------------
(* main: threadpool_create, the loop of threadpool_add, treadpool_destory *)

\* An allocation or initialisation fails: threadpool_create returns NULL, which
\* main hands to threadpool_add.
CreateFails ==
  /\ At(Main, "create") /\ i = 0
  /\ Goto(Main, "crashed")
  /\ UNCHANGED <<lock, poolVars, localVars>>

\* The loop starting min_thr_num threads; live_thr_num is not incremented, and
\* that a pthread_create fails goes unnoticed.
CreateWorker ==
  /\ At(Main, "create")
  /\ \/ /\ i < min_thr_num
        /\ i' = i + 1
        /\ \/ \E w \in Unborn :
                /\ threads' = [threads EXCEPT ![i] = w]
                /\ Goto(w, "check")
           \/ UNCHANGED <<threads, pc>>
     \/ /\ i >= min_thr_num
        /\ i' = 0
        /\ Goto(Main, "create_adjust") /\ UNCHANGED threads
  /\ UNCHANGED <<lock, thread_counter, queueVars, countVars, shutdown,
                 reg, task, adj>>

CreateAdjust ==
  /\ At(Main, "create_adjust")
  /\ pc' = [pc EXCEPT ![Adjust] = "top",
                      ![Main] = IF NTasks = 0 THEN "set_shutdown" ELSE "add_lock"]
  /\ UNCHANGED <<lock, poolVars, localVars>>

\* Mutant: if instead of while, so a wakeup skips the test of a full queue.
AddLockNoRetest ==
  /\ \/ At(Main, "add_lock") /\ Acquire(Main, "add_check")
     \/ At(Main, "add_reacquire") /\ Acquire(Main, "add_put")
  /\ UNCHANGED <<poolVars, localVars>>

AddLock ==
  /\ \/ At(Main, "add_lock") \/ At(Main, "add_reacquire")
  /\ Acquire(Main, "add_check")
  /\ UNCHANGED <<poolVars, localVars>>

\* While the queue is full.  shutdown is still FALSE: only main sets it, after
\* its last threadpool_add, so the early return of line 300 is never taken.
AddCheck ==
  /\ At(Main, "add_check")
  /\ Goto(Main, IF queue_size = queue_max_size THEN "add_wait" ELSE "add_put")
  /\ UNCHANGED <<lock, poolVars, localVars>>

AddWait ==
  /\ At(Main, "add_wait")
  /\ Release(Main, "add_waiting")
  /\ UNCHANGED <<poolVars, localVars>>

AddSpuriousWakeup ==
  /\ At(Main, "add_waiting")
  /\ Goto(Main, "add_reacquire")
  /\ UNCHANGED <<lock, poolVars, localVars>>

AddPut ==
  /\ At(Main, "add_put")
  /\ task_queue' = [task_queue EXCEPT ![queue_rear] = i + 1]
  /\ queue_rear' = (queue_rear + 1) % queue_max_size
  /\ Goto(Main, "add_load")
  /\ UNCHANGED <<lock, thread_counter, queue_front, queue_size, countVars,
                 shutdown, threads, localVars>>

AddLoad ==
  /\ At(Main, "add_load")
  /\ reg' = [reg EXCEPT ![Main] = queue_size]
  /\ Goto(Main, "add_store")
  /\ UNCHANGED <<lock, poolVars, task, i, adj>>

\* The store of queue_size and the signal of queue_not_empty.
AddStore ==
  /\ At(Main, "add_store")
  /\ queue_size' = reg[Main] + 1
  /\ reg' = [reg EXCEPT ![Main] = 0]
  /\ pc' \in SignalNotEmpty([pc EXCEPT ![Main] = "add_unlock"])
  /\ UNCHANGED <<lock, thread_counter, queue_front, queue_rear,
                 task_queue, countVars, shutdown, threads, task, i, adj>>

\* threadpool_add returns; main goes on with its loop.
AddUnlock ==
  /\ At(Main, "add_unlock")
  /\ Release(Main, IF i + 1 < NTasks THEN "add_lock" ELSE "set_shutdown")
  /\ i' = i + 1
  /\ UNCHANGED <<poolVars, reg, task, adj>>

SetShutdown ==
  /\ At(Main, "set_shutdown")
  /\ shutdown' = TRUE
  /\ Goto(Main, "join_adjust")
  /\ UNCHANGED <<lock, thread_counter, queueVars, countVars, threads, localVars>>

\* Mutant: the manager is not joined.
JoinAdjustNot ==
  /\ At(Main, "join_adjust")
  /\ i' = 0
  /\ Goto(Main, "notify")
  /\ UNCHANGED <<lock, poolVars, reg, task, adj>>

JoinAdjust ==
  /\ At(Main, "join_adjust")
  /\ pc[Adjust] = "done"
  /\ i' = 0
  /\ Goto(Main, "notify")
  /\ UNCHANGED <<lock, poolVars, reg, task, adj>>

\* One broadcast per live_thr_num, read anew in every iteration.
Notify ==
  /\ At(Main, "notify")
  /\ \/ /\ i < live_thr_num
        /\ i' = i + 1
        /\ pc' = BroadcastNotEmpty(pc)
     \/ /\ i >= live_thr_num
        /\ i' = 0
        /\ Goto(Main, "join")
  /\ UNCHANGED <<lock, poolVars, reg, task, adj>>

\* pthread_join(threads[i]); joining a slot that never held a tid crashes.
Join ==
  /\ At(Main, "join")
  /\ \/ /\ i < live_thr_num /\ threads[i] = None
        /\ Goto(Main, "crashed") /\ UNCHANGED i
     \/ /\ i < live_thr_num /\ threads[i] # None
        /\ pc[threads[i]] = "exited"
        /\ i' = i + 1 /\ UNCHANGED pc
     \/ /\ i >= live_thr_num
        /\ Goto(Main, "free_lock") /\ UNCHANGED i
  /\ UNCHANGED <<lock, poolVars, reg, task, adj>>

\* threadpool_free: both mutexes are locked and never unlocked.
FreeLock ==
  /\ At(Main, "free_lock")
  /\ Acquire(Main, "free_counter")
  /\ UNCHANGED <<poolVars, localVars>>

FreeCounter ==
  /\ At(Main, "free_counter")
  /\ thread_counter = None /\ thread_counter' = Main
  /\ Goto(Main, "free_cond")
  /\ UNCHANGED <<lock, queueVars, countVars, shutdown, threads, localVars>>

\* pthread_cond_destroy, free(pool), and main returns: the process ends.
FreeCond ==
  /\ At(Main, "free_cond")
  /\ NotEmptyWaiters = {}
  /\ Goto(Main, "ended")
  /\ UNCHANGED <<lock, poolVars, localVars>>

MainThread ==
  \/ CreateFails \/ CreateWorker \/ CreateAdjust \/ AddLock \/ AddCheck
  \/ AddWait \/ AddPut \/ AddLoad \/ AddStore \/ AddUnlock \/ SetShutdown
  \/ JoinAdjust \/ Notify \/ Join \/ FreeLock \/ FreeCounter \/ FreeCond

-----------------------------------------------------------------------------
Next ==
  \/ MainThread
  \/ AddSpuriousWakeup
  \/ Adjusting
  \/ \E w \in Workers : Worker(w) \/ SpuriousWakeup(w)

Spec == Init /\ [][Next]_vars

-----------------------------------------------------------------------------
(* Properties *)

DataTypeOK ==
  /\ lock \in Threads \cup {None}
  /\ thread_counter \in {None, Main}
  /\ queue_front \in Slots /\ queue_rear \in Slots
  /\ queue_size \in Int
  /\ task_queue \in [Slots -> Tasks \cup {Garbage}]
  /\ live_thr_num \in Int /\ busy_thr_num \in Int /\ wait_exit_thr_num \in Int
  /\ shutdown \in BOOLEAN
  /\ threads \in [Tids -> Workers \cup {None}]
  /\ reg \in [Threads -> Int]
  /\ task \in [Workers -> Tasks \cup {Garbage, None}]
  /\ i \in Nat
  /\ adj \in [i : Nat, add : Nat, queue_size : Int, live : Int, busy : Int]

PcTypeOK ==
  /\ pc \in [Threads -> WorkerPC \cup MainPC \cup AdjustPC]
  /\ \A w \in Workers : pc[w] \in WorkerPC
  /\ pc[Main] \in MainPC /\ pc[Adjust] \in AdjustPC

\* The shape of the state, with the indices of the two arrays in their bounds
\* whatever the races of the unlocked dequeue do.
TypeOK ==
  /\ DataTypeOK
  /\ PcTypeOK

\* busy_thr_num counts exactly the threads that run a task: the number the
\* manager compares with the live threads before it ends some (line 205).
BusyCountExact ==
  busy_thr_num = Cardinality({w \in Workers : pc[w] \in {"run", "busy_dec"}})

\* threadpool_add never fills the queue beyond queue_max_size, although workers
\* change queue_size, and free the lock, under its feet (lines 95-137, 295-325).
QueueNeverOverfull == queue_size <= queue_max_size

\* The growing loop never counts more than max_thr_num threads, although exiting
\* workers decrement the same counter (lines 108, 189-197).
LiveCountBounded == live_thr_num <= max_thr_num

\* Once treadpool_destory has joined the manager (line 351) no thread is started
\* on the pool that is being freed, and no slot of threads is written.
NoThreadStartedInTeardown ==
  [][pc[Main] \in {"notify", "join", "free_lock", "free_counter", "free_cond"}
       => Unborn' = Unborn /\ threads' = threads]_vars

\* A worker that took a task is never blocked before it asks for the next one
\* (lines 130-156), whoever holds lock by then: no step of another thread is
\* needed for the task to run to its end, until threadpool_free keeps
\* thread_counter for good or the process ends.
StartedTaskNeverBlocks ==
  \A w \in Workers :
    pc[w] \in {"deq_front_load", "deq_front_store", "deq_size_load",
               "deq_size_store", "deq_unlock", "busy_inc", "run", "busy_dec"}
      => ENABLED Worker(w) \/ pc[Main] \in {"free_cond", "ended", "crashed"}

\* Line 123: taking a task removes it from the queue, so no two threads hold the
\* same task.
NoTaskTakenTwice ==
  \A w1, w2 \in Workers :
    w1 # w2 /\ task[w1] \in Tasks => task[w1] # task[w2]

LiveWorkers == {w \in Workers : pc[w] \notin {"none", "exited"}}

\* Line 324: after an add the queue is not empty and a waiting thread is woken,
\* so tasks do not sit in the queue while all threads sleep.
NoStrandedTask ==
  ~ /\ pc[Main] \in {"add_lock", "set_shutdown"} /\ queue_size > 0
    /\ LiveWorkers # {} /\ LiveWorkers \subseteq NotEmptyWaiters

=============================================================================
