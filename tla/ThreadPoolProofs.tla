-------------------------- MODULE ThreadPoolProofs --------------------------
(* What holds of the thread pool for every size, checked by TLAPS. *)
EXTENDS ThreadPool, TLAPS, FiniteSetTheorems

\* The index of main()'s loop while it adds tasks.
AddIndex ==
  /\ pc[Main] = "create_adjust" => i = 0
  /\ pc[Main] \in {"add_lock", "add_check", "add_wait", "add_waiting",
                   "add_reacquire", "add_put", "add_load", "add_store",
                   "add_unlock"} => i < NTasks

\* The records that adjust_thread's locals may be.
AdjType == [i : Nat, add : Nat, queue_size : Int, live : Int, busy : Int]

LEMMA AdjUpdate ==
  ASSUME adj \in AdjType
  PROVE  /\ \A n \in Nat : [adj EXCEPT !.i = n] \in AdjType
         /\ \A n \in Nat : [adj EXCEPT !.i = n, !.add = n] \in AdjType
         /\ [adj EXCEPT !.i = adj.i + 1] \in AdjType
         /\ [adj EXCEPT !.i = adj.i + 1, !.add = adj.add + 1] \in AdjType
<1>1. adj.i + 1 \in Nat /\ adj.add + 1 \in Nat
  BY DEF AdjType
<1>2. ASSUME NEW n \in Nat PROVE [adj EXCEPT !.i = n] \in AdjType
  BY DEF AdjType
<1>3. ASSUME NEW n \in Nat PROVE [adj EXCEPT !.i = n, !.add = n] \in AdjType
  BY DEF AdjType
<1>4. [adj EXCEPT !.i = adj.i + 1] \in AdjType
  BY <1>1 DEF AdjType
<1>5. [adj EXCEPT !.i = adj.i + 1, !.add = adj.add + 1] \in AdjType
  BY <1>1 DEF AdjType
<1> QED
  BY <1>2, <1>3, <1>4, <1>5

LEMMA NextSlot == \A n \in Int : (n + 1) % queue_max_size \in Slots
BY SizesAssumption DEF Slots

LEMMA DataStep == TypeOK /\ AddIndex /\ [Next]_vars => DataTypeOK'
<1> SUFFICES ASSUME DataTypeOK, AddIndex, [Next]_vars PROVE DataTypeOK'
  BY DEF TypeOK
<1> QED
  <2> USE ThreadsAssumption, SizesAssumption DEF DataTypeOK, Threads, Tasks
  <2>w1. ASSUME NEW w \in Workers, Check(w) PROVE DataTypeOK'
    BY <2>w1 DEF Check, queueVars, countVars, poolVars, localVars
  <2>w2. ASSUME NEW w \in Workers, CondWait(w) PROVE DataTypeOK'
    BY <2>w2 DEF CondWait, Release, queueVars, countVars, poolVars, localVars
  <2>w3. ASSUME NEW w \in Workers, SpuriousWakeup(w) PROVE DataTypeOK'
    BY <2>w3 DEF SpuriousWakeup, queueVars, countVars, poolVars, localVars
  <2>w4. ASSUME NEW w \in Workers, Reacquire(w) PROVE DataTypeOK'
    BY <2>w4 DEF Reacquire, Acquire, queueVars, countVars, poolVars, localVars
  <2>w5. ASSUME NEW w \in Workers, TestExit(w) PROVE DataTypeOK'
    BY <2>w5 DEF TestExit, queueVars, countVars, poolVars, localVars
  <2>w6. ASSUME NEW w \in Workers, LoadCount(w) PROVE DataTypeOK'
    BY <2>w6 DEF LoadCount, queueVars, countVars, poolVars, localVars
  <2>w7. ASSUME NEW w \in Workers, StoreCount(w) PROVE DataTypeOK'
    <3>1. reg[w] \in Int /\ reg[w] - 1 \in Int
      OBVIOUS
    <3>2. CASE wait_exit_thr_num' = reg[w] - 1 /\ UNCHANGED live_thr_num
      BY <2>w7, <3>1, <3>2 DEF StoreCount, queueVars, countVars, poolVars, localVars
    <3>3. CASE live_thr_num' = reg[w] - 1 /\ UNCHANGED wait_exit_thr_num
      BY <2>w7, <3>1, <3>3 DEF StoreCount, queueVars, countVars, poolVars, localVars
    <3> QED
      BY <2>w7, <3>2, <3>3 DEF StoreCount
  <2>w8. ASSUME NEW w \in Workers, Exit(w) PROVE DataTypeOK'
    BY <2>w8 DEF Exit, Acquire, queueVars, countVars, poolVars, localVars
  <2>w9. ASSUME NEW w \in Workers, DeqTask(w) PROVE DataTypeOK'
    BY <2>w9 DEF DeqTask, queueVars, countVars, poolVars, localVars
  <2>w10. ASSUME NEW w \in Workers, DeqLoad(w) PROVE DataTypeOK'
    <3>1. queue_front \in Int /\ queue_size \in Int
      BY DEF Slots
    <3>2. reg' \in [Threads -> Int]
      BY <2>w10, <3>1 DEF DeqLoad
    <3> QED
      BY <2>w10, <3>2 DEF DeqLoad, queueVars, countVars, poolVars
  <2>w11. ASSUME NEW w \in Workers, DeqStoreFront(w) PROVE DataTypeOK'
    <3>1. reg[w] \in Int
      OBVIOUS
    <3>2. (reg[w] + 1) % queue_max_size \in Slots
      BY <3>1, NextSlot
    <3> QED
      BY <2>w11, <3>2 DEF DeqStoreFront, queueVars, countVars, poolVars, localVars
  <2>w12. ASSUME NEW w \in Workers, DeqStoreSize(w) PROVE DataTypeOK'
    BY <2>w12 DEF DeqStoreSize, queueVars, countVars, poolVars, localVars
  <2>w13. ASSUME NEW w \in Workers, DeqUnlock(w) PROVE DataTypeOK'
    BY <2>w13 DEF DeqUnlock, Release, queueVars, countVars, poolVars, localVars
  <2>w14. ASSUME NEW w \in Workers, BusyInc(w) PROVE DataTypeOK'
    BY <2>w14 DEF BusyInc, queueVars, countVars, poolVars, localVars
  <2>w15. ASSUME NEW w \in Workers, Run(w) PROVE DataTypeOK'
    BY <2>w15 DEF Run, queueVars, countVars, poolVars, localVars
  <2>w16. ASSUME NEW w \in Workers, BusyDec(w) PROVE DataTypeOK'
    BY <2>w16 DEF BusyDec, queueVars, countVars, poolVars, localVars
  <2>a1. CASE AdjustTop
    BY <2>a1 DEF AdjustTop, queueVars, countVars, poolVars, localVars
  <2>a2. CASE AdjustLock
    <3>0. adj \in AdjType /\ 0 \in Nat
      BY DEF AdjType
    <3>1. adj' \in AdjType
      <4>1. adj' = adj \/ adj' = [adj EXCEPT !.i = 0, !.add = 0]
        BY <2>a2 DEF AdjustLock
      <4>2. [adj EXCEPT !.i = 0, !.add = 0] \in AdjType
        BY <3>0, AdjUpdate, Zenon
      <4> QED
        BY <3>0, <4>1, <4>2, Zenon
    <3> QED
      <4>1. lock' = Adjust /\ UNCHANGED <<poolVars, reg, task, i>>
        BY <2>a2 DEF AdjustLock, Acquire
      <4> QED
        BY <3>1, <4>1 DEF AdjType, queueVars, countVars, poolVars
  <2>a3. CASE AdjustSnap
    BY <2>a3 DEF AdjustSnap, queueVars, countVars, poolVars, localVars
  <2>a4. CASE AdjustUnlock
    <3>0. adj \in AdjType /\ 0 \in Nat
      BY DEF AdjType
    <3>1. adj' \in AdjType
      <4>1. adj' = adj \/ adj' = [adj EXCEPT !.i = 0]
        BY <2>a4 DEF AdjustUnlock
      <4>2. [adj EXCEPT !.i = 0] \in AdjType
        BY <3>0, AdjUpdate, Zenon
      <4> QED
        BY <3>0, <4>1, <4>2, Zenon
    <3> QED
      <4>1. lock' = None /\ UNCHANGED <<poolVars, reg, task, i>>
        BY <2>a4 DEF AdjustUnlock, Release
      <4> QED
        BY <3>1, <4>1 DEF AdjType, queueVars, countVars, poolVars
  <2>a5. CASE AdjustBusy
    BY <2>a5 DEF AdjustBusy, queueVars, countVars, poolVars, localVars
  <2>a6. CASE AdjustGrow
    <3>0. adj \in AdjType /\ 0 \in Nat
      BY DEF AdjType
    <3>1. adj' \in AdjType
      BY <2>a6, <3>0, AdjUpdate, Zenon DEF AdjustGrow
    <3>2. reg' \in [Threads -> Int]
      BY <2>a6 DEF AdjustGrow
    <3>3. threads' \in [Tids -> Workers \cup {None}]
      BY <2>a6 DEF AdjustGrow, Unborn
    <3> QED
      BY <2>a6, <3>1, <3>2, <3>3 DEF AdjustGrow, AdjType, queueVars, countVars, poolVars, localVars
  <2>a7. CASE AdjustGrowStore
    BY <2>a7 DEF AdjustGrowStore, queueVars, countVars, poolVars, localVars
  <2>a8. CASE AdjustShrink
    BY <2>a8 DEF AdjustShrink, queueVars, countVars, poolVars, localVars
  <2>a9. CASE AdjustSignal
    <3>0. adj \in AdjType /\ 0 \in Nat
      BY DEF AdjType
    <3>1. adj' \in AdjType
      BY <2>a9, <3>0, AdjUpdate, Zenon DEF AdjustSignal
    <3> QED
      BY <2>a9, <3>1 DEF AdjustSignal, AdjType, queueVars, countVars, poolVars, localVars
  <2>m1. CASE CreateFails
    BY <2>m1 DEF CreateFails, queueVars, countVars, poolVars, localVars
  <2>m2. CASE CreateWorker
    <3>1. i' \in Nat
      BY <2>m2 DEF CreateWorker
    <3>2. threads' \in [Tids -> Workers \cup {None}]
      BY <2>m2 DEF CreateWorker, Unborn
    <3> QED
      BY <2>m2, <3>1, <3>2 DEF CreateWorker, queueVars, countVars, poolVars, localVars
  <2>m3. CASE CreateAdjust
    BY <2>m3 DEF CreateAdjust, queueVars, countVars, poolVars, localVars
  <2>m4. CASE AddLock
    BY <2>m4 DEF AddLock, Acquire, queueVars, countVars, poolVars, localVars
  <2>m5. CASE AddCheck
    BY <2>m5 DEF AddCheck, queueVars, countVars, poolVars, localVars
  <2>m6. CASE AddWait
    BY <2>m6 DEF AddWait, Release, queueVars, countVars, poolVars, localVars
  <2>m7. CASE AddSpuriousWakeup
    BY <2>m7 DEF AddSpuriousWakeup, queueVars, countVars, poolVars, localVars
  <2>m8. CASE AddPut
    <3>1. i + 1 \in Tasks
      BY <2>m8 DEF AddPut, AddIndex, At
    <3>2. queue_rear \in Int
      BY DEF Slots
    <3>3. (queue_rear + 1) % queue_max_size \in Slots
      BY <3>2, NextSlot
    <3> QED
      BY <2>m8, <3>1, <3>3 DEF poolVars, localVars, AddPut, countVars
  <2>m9. CASE AddLoad
    BY <2>m9 DEF AddLoad, queueVars, countVars, poolVars, localVars
  <2>m10. CASE AddStore
    BY <2>m10 DEF AddStore, queueVars, countVars, poolVars, localVars
  <2>m11. CASE AddUnlock
    BY <2>m11 DEF AddUnlock, Release, queueVars, countVars, poolVars, localVars
  <2>m12. CASE SetShutdown
    BY <2>m12 DEF SetShutdown, queueVars, countVars, poolVars, localVars
  <2>m13. CASE JoinAdjust
    BY <2>m13 DEF JoinAdjust, queueVars, countVars, poolVars, localVars
  <2>m14. CASE Notify
    BY <2>m14 DEF Notify, queueVars, countVars, poolVars, localVars
  <2>m15. CASE Join
    BY <2>m15 DEF Join, queueVars, countVars, poolVars, localVars
  <2>m16. CASE FreeLock
    BY <2>m16 DEF FreeLock, Acquire, queueVars, countVars, poolVars, localVars
  <2>m17. CASE FreeCounter
    BY <2>m17 DEF FreeCounter, queueVars, countVars, poolVars, localVars
  <2>m18. CASE FreeCond
    BY <2>m18 DEF FreeCond, queueVars, countVars, poolVars, localVars
  <2>n. CASE UNCHANGED vars
    BY <2>n DEF vars, queueVars, countVars, poolVars, localVars
  <2> QED
    BY <2>w1, <2>w2, <2>w3, <2>w4, <2>w5, <2>w6, <2>w7, <2>w8, <2>w9,
       <2>w10, <2>w11, <2>w12, <2>w13, <2>w14, <2>w15, <2>w16, <2>a1,
       <2>a2, <2>a3, <2>a4, <2>a5, <2>a6, <2>a7, <2>a8, <2>a9, <2>m1,
       <2>m2, <2>m3, <2>m4, <2>m5, <2>m6, <2>m7, <2>m8, <2>m9, <2>m10,
       <2>m11, <2>m12, <2>m13, <2>m14, <2>m15, <2>m16, <2>m17, <2>m18,
       <2>n
    DEF Next, MainThread, Adjusting, Worker

\* What PcTypeOK says of pc, for any function of the threads.
PcOK(p) ==
  /\ p \in [Threads -> WorkerPC \cup MainPC \cup AdjustPC]
  /\ \A w \in Workers : p[w] \in WorkerPC
  /\ p[Main] \in MainPC /\ p[Adjust] \in AdjustPC

LEMMA PcGoto ==
  ASSUME NEW p, PcOK(p)
  PROVE  /\ \A w \in Workers, l \in WorkerPC : PcOK([p EXCEPT ![w] = l])
         /\ \A l \in MainPC : PcOK([p EXCEPT ![Main] = l])
         /\ \A l \in AdjustPC : PcOK([p EXCEPT ![Adjust] = l])
BY ThreadsAssumption DEF PcOK, Threads

LEMMA PcWake ==
  ASSUME PcOK(pc), NEW p, PcOK(p)
  PROVE  /\ \A q \in SignalNotEmpty(p) : PcOK(q)
         /\ PcOK(BroadcastNotEmpty(p))
         /\ PcOK(BroadcastNotFull(p))
<1>1. "reacquire" \in WorkerPC /\ "add_reacquire" \in MainPC
  BY DEF WorkerPC, MainPC
<1>2. \A q \in SignalNotEmpty(p) : PcOK(q)
  BY <1>1, PcGoto DEF SignalNotEmpty, NotEmptyWaiters
<1>3. PcOK(BroadcastNotEmpty(p))
  BY <1>1, ThreadsAssumption DEF PcOK, BroadcastNotEmpty, NotEmptyWaiters, Threads
<1>4. PcOK(BroadcastNotFull(p))
  BY <1>1, PcGoto DEF BroadcastNotFull
<1> QED
  BY <1>2, <1>3, <1>4

LEMMA PcStep == TypeOK /\ [Next]_vars => PcTypeOK'
<1> SUFFICES ASSUME PcOK(pc), [Next]_vars PROVE PcOK(pc')
  BY DEF TypeOK, PcTypeOK, PcOK
<1>1. \A w \in Workers, l \in WorkerPC : PcOK([pc EXCEPT ![w] = l])
  BY PcGoto
<1> QED
  <2> USE DEF Goto
  <2>w1. ASSUME NEW w \in Workers, Check(w) PROVE PcOK(pc')
    <3>1. \E l \in WorkerPC : pc' = [pc EXCEPT ![w] = l]
      BY <2>w1, SMTT(20) DEF Check, WorkerPC
    <3> QED
      BY <3>1, <1>1
  <2>w2. ASSUME NEW w \in Workers, CondWait(w) PROVE PcOK(pc')
    BY <2>w2, PcGoto DEF CondWait, WorkerPC, Release
  <2>w3. ASSUME NEW w \in Workers, SpuriousWakeup(w) PROVE PcOK(pc')
    BY <2>w3, PcGoto DEF SpuriousWakeup, WorkerPC
  <2>w4. ASSUME NEW w \in Workers, Reacquire(w) PROVE PcOK(pc')
    BY <2>w4, PcGoto DEF Reacquire, WorkerPC, Acquire
  <2>w5. ASSUME NEW w \in Workers, TestExit(w) PROVE PcOK(pc')
    <3>1. \E l \in WorkerPC : pc' = [pc EXCEPT ![w] = l]
      BY <2>w5, SMTT(20) DEF TestExit, WorkerPC
    <3> QED
      BY <3>1, <1>1
  <2>w6. ASSUME NEW w \in Workers, LoadCount(w) PROVE PcOK(pc')
    <3>1. \E l \in WorkerPC : pc' = [pc EXCEPT ![w] = l]
      BY <2>w6, SMTT(20) DEF LoadCount, WorkerPC
    <3> QED
      BY <3>1, <1>1
  <2>w7. ASSUME NEW w \in Workers, StoreCount(w) PROVE PcOK(pc')
    <3>1. \E l \in WorkerPC : pc' = [pc EXCEPT ![w] = l]
      BY <2>w7, SMTT(20) DEF StoreCount, WorkerPC
    <3> QED
      BY <3>1, <1>1
  <2>w8. ASSUME NEW w \in Workers, Exit(w) PROVE PcOK(pc')
    BY <2>w8, PcGoto DEF Exit, WorkerPC, Acquire
  <2>w9. ASSUME NEW w \in Workers, DeqTask(w) PROVE PcOK(pc')
    BY <2>w9, PcGoto DEF DeqTask, WorkerPC
  <2>w10. ASSUME NEW w \in Workers, DeqLoad(w) PROVE PcOK(pc')
    <3>1. \E l \in WorkerPC : pc' = [pc EXCEPT ![w] = l]
      BY <2>w10, SMTT(20) DEF DeqLoad, WorkerPC
    <3> QED
      BY <3>1, <1>1
  <2>w11. ASSUME NEW w \in Workers, DeqStoreFront(w) PROVE PcOK(pc')
    BY <2>w11, PcGoto DEF DeqStoreFront, WorkerPC
  <2>w12. ASSUME NEW w \in Workers, DeqStoreSize(w) PROVE PcOK(pc')
    BY <2>w12, PcGoto, PcWake DEF DeqStoreSize, WorkerPC
  <2>w13. ASSUME NEW w \in Workers, DeqUnlock(w) PROVE PcOK(pc')
    BY <2>w13, PcGoto DEF DeqUnlock, WorkerPC, Release
  <2>w14. ASSUME NEW w \in Workers, BusyInc(w) PROVE PcOK(pc')
    BY <2>w14, PcGoto DEF BusyInc, WorkerPC
  <2>w15. ASSUME NEW w \in Workers, Run(w) PROVE PcOK(pc')
    <3>1. "busy_dec" \in WorkerPC /\ "crashed" \in MainPC
      BY DEF WorkerPC, MainPC
    <3> QED
      BY <2>w15, <3>1, PcGoto DEF Run
  <2>w16. ASSUME NEW w \in Workers, BusyDec(w) PROVE PcOK(pc')
    BY <2>w16, PcGoto DEF BusyDec, WorkerPC
  <2>a1. CASE AdjustTop
    BY <2>a1, PcGoto DEF AdjustTop, AdjustPC
  <2>a2. CASE AdjustLock
    BY <2>a2, PcGoto DEF AdjustLock, AdjustPC, Acquire
  <2>a3. CASE AdjustSnap
    BY <2>a3, PcGoto DEF AdjustSnap, AdjustPC
  <2>a4. CASE AdjustUnlock
    BY <2>a4, PcGoto DEF AdjustUnlock, AfterGrow, AdjustPC, Release
  <2>a5. CASE AdjustBusy
    BY <2>a5, PcGoto DEF AdjustBusy, AdjustPC
  <2>a6. CASE AdjustGrow
    <3>1. /\ "check" \in WorkerPC
          /\ "grow_unlock" \in AdjustPC /\ "grow_store" \in AdjustPC
      BY DEF WorkerPC, AdjustPC
    <3>2. ASSUME NEW w \in Workers,
                 pc' = [pc EXCEPT ![w] = "check", ![Adjust] = "grow_store"]
          PROVE  PcOK(pc')
      BY <3>1, <3>2, PcGoto
    <3> QED
      BY <2>a6, <3>1, <3>2, PcGoto DEF AdjustGrow, Unborn
  <2>a7. CASE AdjustGrowStore
    BY <2>a7, PcGoto DEF AdjustGrowStore, AdjustPC
  <2>a8. CASE AdjustShrink
    BY <2>a8, PcGoto DEF AdjustShrink, AdjustPC
  <2>a9. CASE AdjustSignal
    BY <2>a9, PcGoto, PcWake DEF AdjustSignal, AdjustPC
  <2>m1. CASE CreateFails
    BY <2>m1, PcGoto DEF CreateFails, MainPC
  <2>m2. CASE CreateWorker
    <3>1. "check" \in WorkerPC /\ "create_adjust" \in MainPC
      BY DEF WorkerPC, MainPC
    <3> QED
      BY <2>m2, <3>1, PcGoto DEF CreateWorker, Unborn
  <2>m3. CASE CreateAdjust
    BY <2>m3, PcGoto DEF CreateAdjust, MainPC, AdjustPC
  <2>m4. CASE AddLock
    BY <2>m4, PcGoto DEF AddLock, MainPC, Acquire
  <2>m5. CASE AddCheck
    BY <2>m5, PcGoto DEF AddCheck, MainPC
  <2>m6. CASE AddWait
    BY <2>m6, PcGoto DEF AddWait, MainPC, Release
  <2>m7. CASE AddSpuriousWakeup
    BY <2>m7, PcGoto DEF AddSpuriousWakeup, MainPC
  <2>m8. CASE AddPut
    BY <2>m8, PcGoto DEF AddPut, MainPC
  <2>m9. CASE AddLoad
    BY <2>m9, PcGoto DEF AddLoad, MainPC
  <2>m10. CASE AddStore
    BY <2>m10, PcGoto, PcWake DEF AddStore, MainPC
  <2>m11. CASE AddUnlock
    BY <2>m11, PcGoto DEF AddUnlock, MainPC, Release
  <2>m12. CASE SetShutdown
    BY <2>m12, PcGoto DEF SetShutdown, MainPC
  <2>m13. CASE JoinAdjust
    BY <2>m13, PcGoto DEF JoinAdjust, MainPC
  <2>m14. CASE Notify
    BY <2>m14, PcGoto, PcWake DEF Notify, MainPC
  <2>m15. CASE Join
    BY <2>m15, PcGoto DEF Join, MainPC
  <2>m16. CASE FreeLock
    BY <2>m16, PcGoto DEF FreeLock, MainPC, Acquire
  <2>m17. CASE FreeCounter
    BY <2>m17, PcGoto DEF FreeCounter, MainPC
  <2>m18. CASE FreeCond
    BY <2>m18, PcGoto DEF FreeCond, MainPC
  <2>n. CASE UNCHANGED vars
    BY <2>n DEF vars
  <2> QED
    BY <2>w1, <2>w2, <2>w3, <2>w4, <2>w5, <2>w6, <2>w7, <2>w8, <2>w9,
       <2>w10, <2>w11, <2>w12, <2>w13, <2>w14, <2>w15, <2>w16, <2>a1,
       <2>a2, <2>a3, <2>a4, <2>a5, <2>a6, <2>a7, <2>a8, <2>a9, <2>m1,
       <2>m2, <2>m3, <2>m4, <2>m5, <2>m6, <2>m7, <2>m8, <2>m9, <2>m10,
       <2>m11, <2>m12, <2>m13, <2>m14, <2>m15, <2>m16, <2>m17, <2>m18,
       <2>n
    DEF Next, MainThread, Adjusting, Worker

-----------------------------------------------------------------------------
(* What a step of one thread leaves alone in the others. *)

LEMMA WorkerFrame ==
  ASSUME TypeOK, NEW w \in Workers, Worker(w) \/ SpuriousWakeup(w)
  PROVE  /\ i' = i /\ threads' = threads /\ pc'[Adjust] = pc[Adjust]
         /\ reg'[Main] = reg[Main] /\ reg'[Adjust] = reg[Adjust]
         /\ \A v \in Workers \ {w} : pc'[v] = pc[v] /\ reg'[v] = reg[v]
         /\ pc[w] # "none" /\ pc'[w] # "none"
         /\ \/ pc'[Main] = pc[Main]
            \/ pc[Main] = "add_waiting" /\ pc'[Main] = "add_reacquire"
            \/ pc'[Main] = "crashed"
<1> USE ThreadsAssumption DEF TypeOK, DataTypeOK, PcTypeOK, Threads, At, Goto
<1>1. CASE Check(w)
  BY <1>1 DEF poolVars, localVars, Check
<1>2. CASE CondWait(w)
  BY <1>2 DEF poolVars, localVars, CondWait, Release
<1>3. CASE SpuriousWakeup(w)
  BY <1>3 DEF poolVars, localVars, SpuriousWakeup
<1>4. CASE Reacquire(w)
  BY <1>4 DEF poolVars, localVars, Reacquire, Acquire
<1>5. CASE TestExit(w)
  BY <1>5 DEF poolVars, localVars, TestExit
<1>6. CASE LoadCount(w)
  BY <1>6 DEF poolVars, localVars, LoadCount
<1>7. CASE StoreCount(w)
  BY <1>7 DEF StoreCount
<1>8. CASE Exit(w)
  BY <1>8 DEF poolVars, localVars, Exit, Acquire
<1>9. CASE DeqTask(w)
  BY <1>9 DEF poolVars, localVars, DeqTask
<1>10. CASE DeqLoad(w)
  BY <1>10 DEF poolVars, localVars, DeqLoad
<1>11. CASE DeqStoreFront(w)
  BY <1>11 DEF DeqStoreFront
<1>12. CASE DeqStoreSize(w)
  BY <1>12 DEF DeqStoreSize, BroadcastNotFull
<1>13. CASE DeqUnlock(w)
  BY <1>13 DEF poolVars, localVars, DeqUnlock, Release
<1>14. CASE BusyInc(w)
  BY <1>14 DEF poolVars, localVars, BusyInc
<1>15. CASE Run(w)
  BY <1>15 DEF poolVars, localVars, Run
<1>16. CASE BusyDec(w)
  BY <1>16 DEF BusyDec
<1> QED
  BY <1>1, <1>2, <1>3, <1>4, <1>5, <1>6, <1>7, <1>8, <1>9, <1>10,
     <1>11, <1>12, <1>13, <1>14, <1>15, <1>16
     DEF Worker

LEMMA AdjustFrame ==
  ASSUME TypeOK, Adjusting
  PROVE  /\ i' = i /\ pc'[Main] = pc[Main] /\ pc[Adjust] # "done"
         /\ \A v \in Workers \cup {Main} : reg'[v] = reg[v]
         /\ \A v \in Workers : \/ pc'[v] = pc[v]
                               \/ pc[v] = "none" /\ pc'[v] = "check"
                               \/ pc[v] = "waiting" /\ pc'[v] = "reacquire"
<1> USE ThreadsAssumption DEF TypeOK, DataTypeOK, PcTypeOK, Threads, At, Goto
<1>1. CASE AdjustTop
  BY <1>1 DEF poolVars, localVars, AdjustTop
<1>2. CASE AdjustLock
  BY <1>2 DEF AdjustLock, Acquire
<1>3. CASE AdjustSnap
  BY <1>3 DEF AdjustSnap
<1>4. CASE AdjustUnlock
  BY <1>4 DEF AdjustUnlock, Release
<1>5. CASE AdjustBusy
  BY <1>5 DEF AdjustBusy
<1>6. CASE AdjustGrow
  BY <1>6 DEF AdjustGrow, Unborn
<1>7. CASE AdjustGrowStore
  BY <1>7 DEF AdjustGrowStore
<1>8. CASE AdjustShrink
  BY <1>8 DEF poolVars, localVars, AdjustShrink
<1>9. CASE AdjustSignal
  BY <1>9 DEF AdjustSignal, SignalNotEmpty, NotEmptyWaiters
<1> QED
  BY <1>1, <1>2, <1>3, <1>4, <1>5, <1>6, <1>7, <1>8, <1>9
     DEF Adjusting

LEMMA MainFrame ==
  ASSUME TypeOK, MainThread \/ AddSpuriousWakeup
  PROVE  /\ \A v \in Workers \cup {Adjust} : reg'[v] = reg[v]
         /\ pc'[Adjust] = pc[Adjust] \/ pc[Main] = "create_adjust"
         /\ pc'[Adjust] # "grow_store" \/ pc'[Adjust] = pc[Adjust]
         /\ \A v \in Workers : \/ pc'[v] = pc[v]
                               \/ pc[v] = "none" /\ pc'[v] = "check"
                               \/ pc[v] = "waiting" /\ pc'[v] = "reacquire"
<1> USE ThreadsAssumption DEF TypeOK, DataTypeOK, PcTypeOK, Threads, At, Goto
<1>1. CASE CreateFails
  BY <1>1 DEF poolVars, localVars, CreateFails
<1>2. CASE CreateWorker
  BY <1>2 DEF CreateWorker, Unborn
<1>3. CASE CreateAdjust
  BY <1>3 DEF poolVars, localVars, CreateAdjust
<1>4. CASE AddLock
  BY <1>4 DEF poolVars, localVars, AddLock, Acquire
<1>5. CASE AddCheck
  BY <1>5 DEF poolVars, localVars, AddCheck
<1>6. CASE AddWait
  BY <1>6 DEF poolVars, localVars, AddWait, Release
<1>7. CASE AddSpuriousWakeup
  BY <1>7 DEF poolVars, localVars, AddSpuriousWakeup
<1>8. CASE AddPut
  BY <1>8 DEF poolVars, localVars, AddPut
<1>9. CASE AddLoad
  BY <1>9 DEF AddLoad
<1>10. CASE AddStore
  BY <1>10 DEF AddStore, SignalNotEmpty, NotEmptyWaiters
<1>11. CASE AddUnlock
  BY <1>11 DEF AddUnlock, Release
<1>12. CASE SetShutdown
  BY <1>12 DEF poolVars, localVars, SetShutdown
<1>13. CASE JoinAdjust
  BY <1>13 DEF JoinAdjust
<1>14. CASE Notify
  BY <1>14 DEF Notify, BroadcastNotEmpty, NotEmptyWaiters
<1>15. CASE Join
  BY <1>15 DEF Join
<1>16. CASE FreeLock
  BY <1>16 DEF poolVars, localVars, FreeLock, Acquire
<1>17. CASE FreeCounter
  BY <1>17 DEF poolVars, localVars, FreeCounter
<1>18. CASE FreeCond
  BY <1>18 DEF poolVars, localVars, FreeCond
<1> QED
  BY <1>1, <1>2, <1>3, <1>4, <1>5, <1>6, <1>7, <1>8, <1>9, <1>10,
     <1>11, <1>12, <1>13, <1>14, <1>15, <1>16, <1>17, <1>18
     DEF MainThread

-----------------------------------------------------------------------------
(* The type invariant. *)

LEMMA AddIndexStep == TypeOK /\ AddIndex /\ [Next]_vars => AddIndex'
<1> SUFFICES ASSUME TypeOK, AddIndex, [Next]_vars PROVE AddIndex'
  OBVIOUS
<1>1. ASSUME NEW w \in Workers, Worker(w) \/ SpuriousWakeup(w) PROVE AddIndex'
  BY <1>1, WorkerFrame DEF AddIndex
<1>2. CASE Adjusting
  BY <1>2, AdjustFrame DEF AddIndex
<1>3. CASE MainThread \/ AddSpuriousWakeup
  <2> USE ThreadsAssumption, SizesAssumption
          DEF AddIndex, TypeOK, DataTypeOK, PcTypeOK, Threads, At, Goto
  <2>1. CASE CreateFails
    BY <2>1 DEF CreateFails
  <2>2. CASE CreateWorker
    BY <2>2 DEF CreateWorker, Unborn
  <2>3. CASE CreateAdjust
    BY <2>3 DEF poolVars, localVars, CreateAdjust
  <2>4. CASE AddLock
    BY <2>4 DEF poolVars, localVars, AddLock, Acquire
  <2>5. CASE AddCheck
    BY <2>5 DEF poolVars, localVars, AddCheck
  <2>6. CASE AddWait
    BY <2>6 DEF poolVars, localVars, AddWait, Release
  <2>7. CASE AddSpuriousWakeup
    BY <2>7 DEF poolVars, localVars, AddSpuriousWakeup
  <2>8. CASE AddPut
    BY <2>8 DEF poolVars, localVars, AddPut
  <2>9. CASE AddLoad
    BY <2>9 DEF AddLoad
  <2>10. CASE AddStore
    BY <2>10 DEF AddStore, SignalNotEmpty, NotEmptyWaiters
  <2>11. CASE AddUnlock
    BY <2>11 DEF AddUnlock, Release
  <2>12. CASE SetShutdown
    BY <2>12 DEF SetShutdown
  <2>13. CASE JoinAdjust
    BY <2>13 DEF JoinAdjust
  <2>14. CASE Notify
    BY <2>14 DEF Notify, BroadcastNotEmpty, NotEmptyWaiters
  <2>15. CASE Join
    BY <2>15 DEF Join
  <2>16. CASE FreeLock
    BY <2>16 DEF FreeLock, Acquire
  <2>17. CASE FreeCounter
    BY <2>17 DEF FreeCounter
  <2>18. CASE FreeCond
    BY <2>18 DEF FreeCond
  <2> QED
    BY <1>3, <2>1, <2>2, <2>3, <2>4, <2>5, <2>6, <2>7, <2>8, <2>9,
       <2>10, <2>11, <2>12, <2>13, <2>14, <2>15, <2>16, <2>17, <2>18
       DEF MainThread
<1>4. CASE UNCHANGED vars
  BY <1>4 DEF poolVars, localVars, vars, AddIndex
<1> QED
  BY <1>1, <1>2, <1>3, <1>4 DEF Next

\* Whatever the unlocked dequeue does, every variable keeps its type: the two
\* indices stay inside task_queue (lines 124-130, 316-320), and no task number
\* beyond the last one main() adds is ever stored.
THEOREM TypeCorrect == Spec => []TypeOK
<1>1. Init => TypeOK /\ AddIndex
  <2> SUFFICES ASSUME Init PROVE TypeOK /\ AddIndex
    OBVIOUS
  <2>1. DataTypeOK
    <3>1. 0 \in Slots /\ 0 \in Nat /\ 0 \in Int
      BY SizesAssumption DEF Slots
    <3>2. adj \in AdjType
      BY <3>1 DEF Init, AdjType
    <3> QED
      BY <3>1, <3>2 DEF Init, DataTypeOK, AdjType
  <2>2. PcTypeOK
    BY ThreadsAssumption DEF Init, PcTypeOK, WorkerPC, MainPC, AdjustPC, Threads
  <2>3. AddIndex
    BY ThreadsAssumption DEF Init, AddIndex, Threads
  <2> QED
    BY <2>1, <2>2, <2>3 DEF TypeOK
<1>2. TypeOK /\ AddIndex /\ [Next]_vars => (TypeOK /\ AddIndex)'
  BY DataStep, PcStep, AddIndexStep DEF TypeOK
<1> QED
  BY <1>1, <1>2, PTL DEF Spec

-----------------------------------------------------------------------------
(* The bounds of the two counters. *)

\* Room is left in the queue between the test of threadpool_add and its store,
\* and no dequeue stores more than the maximum.
QueueInv ==
  /\ queue_size <= queue_max_size
  /\ pc[Main] \in {"add_put", "add_load"} => queue_size < queue_max_size
  /\ pc[Main] = "add_store" => reg[Main] < queue_max_size
  /\ \A w \in Workers : pc[w] = "deq_size_store" => reg[w] <= queue_max_size

\* The same of live_thr_num, with the manager in the place of main.
LiveInv ==
  /\ live_thr_num <= max_thr_num
  /\ pc[Adjust] = "grow_store" => reg[Adjust] < max_thr_num
  /\ \A w \in Workers : pc[w] = "store_live" => reg[w] <= max_thr_num

LEMMA QueueStep == TypeOK /\ QueueInv /\ [Next]_vars => QueueInv'
<1> SUFFICES ASSUME TypeOK, QueueInv, [Next]_vars PROVE QueueInv'
  OBVIOUS
<1> USE SizesAssumption DEF QueueInv
<1>1. ASSUME NEW w \in Workers, Worker(w) \/ SpuriousWakeup(w) PROVE QueueInv'
  <2> USE <1>1, WorkerFrame, ThreadsAssumption
          DEF TypeOK, DataTypeOK, PcTypeOK, Threads, At, Goto, queueVars
  <2>1. CASE Check(w)
    BY <2>1 DEF poolVars, localVars, Check
  <2>2. CASE CondWait(w)
    BY <2>2 DEF poolVars, localVars, CondWait, Release
  <2>3. CASE SpuriousWakeup(w)
    BY <2>3 DEF poolVars, localVars, SpuriousWakeup
  <2>4. CASE Reacquire(w)
    BY <2>4 DEF poolVars, localVars, Reacquire, Acquire
  <2>5. CASE TestExit(w)
    BY <2>5 DEF poolVars, localVars, TestExit
  <2>6. CASE LoadCount(w)
    BY <2>6 DEF poolVars, localVars, LoadCount
  <2>7. CASE StoreCount(w)
    BY <2>7 DEF StoreCount
  <2>8. CASE Exit(w)
    BY <2>8 DEF poolVars, localVars, Exit, Acquire
  <2>9. CASE DeqTask(w)
    BY <2>9 DEF poolVars, localVars, DeqTask
  <2>10. CASE DeqLoad(w)
    BY <2>10 DEF poolVars, localVars, DeqLoad
  <2>11. CASE DeqStoreFront(w)
    BY <2>11 DEF DeqStoreFront
  <2>12. CASE DeqStoreSize(w)
    BY <2>12 DEF DeqStoreSize, BroadcastNotFull
  <2>13. CASE DeqUnlock(w)
    BY <2>13 DEF poolVars, localVars, DeqUnlock, Release
  <2>14. CASE BusyInc(w)
    BY <2>14 DEF BusyInc
  <2>15. CASE Run(w)
    BY <2>15 DEF poolVars, localVars, Run
  <2>16. CASE BusyDec(w)
    BY <2>16 DEF BusyDec
  <2> QED
    BY <2>1, <2>2, <2>3, <2>4, <2>5, <2>6, <2>7, <2>8, <2>9, <2>10,
       <2>11, <2>12, <2>13, <2>14, <2>15, <2>16
       DEF Worker
<1>2. CASE Adjusting
  <2>1. UNCHANGED queueVars
    BY <1>2 DEF poolVars, localVars, Adjusting, AdjustTop, AdjustLock, AdjustSnap, AdjustUnlock,
                AdjustBusy, AdjustGrow, AdjustGrowStore, AdjustShrink,
                AdjustSignal
  <2> QED
    BY <1>2, <2>1, AdjustFrame DEF queueVars
<1>3. CASE MainThread \/ AddSpuriousWakeup
  <2> USE <1>3, MainFrame, ThreadsAssumption
          DEF TypeOK, DataTypeOK, PcTypeOK, Threads, At, Goto, queueVars
  <2>1. CASE CreateFails
    BY <2>1 DEF poolVars, localVars, CreateFails
  <2>2. CASE CreateWorker
    BY <2>2 DEF CreateWorker, Unborn
  <2>3. CASE CreateAdjust
    BY <2>3 DEF poolVars, localVars, CreateAdjust
  <2>4. CASE AddLock
    BY <2>4 DEF poolVars, localVars, AddLock, Acquire
  <2>5. CASE AddCheck
    BY <2>5 DEF poolVars, localVars, AddCheck
  <2>6. CASE AddWait
    BY <2>6 DEF poolVars, localVars, AddWait, Release
  <2>7. CASE AddSpuriousWakeup
    BY <2>7 DEF poolVars, localVars, AddSpuriousWakeup
  <2>8. CASE AddPut
    BY <2>8 DEF AddPut
  <2>9. CASE AddLoad
    BY <2>9 DEF poolVars, localVars, AddLoad
  <2>10. CASE AddStore
    BY <2>10 DEF AddStore, SignalNotEmpty, NotEmptyWaiters
  <2>11. CASE AddUnlock
    BY <2>11 DEF poolVars, localVars, AddUnlock, Release
  <2>12. CASE SetShutdown
    BY <2>12 DEF SetShutdown
  <2>13. CASE JoinAdjust
    BY <2>13 DEF poolVars, localVars, JoinAdjust
  <2>14. CASE Notify
    BY <2>14 DEF poolVars, localVars, Notify, BroadcastNotEmpty, NotEmptyWaiters
  <2>15. CASE Join
    BY <2>15 DEF poolVars, localVars, Join
  <2>16. CASE FreeLock
    BY <2>16 DEF poolVars, localVars, FreeLock, Acquire
  <2>17. CASE FreeCounter
    BY <2>17 DEF FreeCounter
  <2>18. CASE FreeCond
    BY <2>18 DEF poolVars, localVars, FreeCond
  <2> QED
    BY <1>3, <2>1, <2>2, <2>3, <2>4, <2>5, <2>6, <2>7, <2>8, <2>9,
       <2>10, <2>11, <2>12, <2>13, <2>14, <2>15, <2>16, <2>17, <2>18
       DEF MainThread
<1>4. CASE UNCHANGED vars
  BY <1>4 DEF poolVars, localVars, vars, queueVars
<1> QED
  BY <1>1, <1>2, <1>3, <1>4 DEF Next

\* threadpool_add never fills the queue beyond queue_max_size (lines 295-322),
\* for any number of workers racing on queue_size.
THEOREM QueueBound == Spec => []QueueNeverOverfull
<1>1. Init => QueueInv
  BY SizesAssumption, ThreadsAssumption DEF Init, QueueInv, Threads
<1>2. TypeOK /\ QueueInv /\ [Next]_vars => QueueInv'
  BY QueueStep
<1>3. QueueInv => QueueNeverOverfull
  BY DEF QueueInv, QueueNeverOverfull
<1> QED
  BY <1>1, <1>2, <1>3, TypeCorrect, PTL DEF Spec

LEMMA LiveStep == TypeOK /\ LiveInv /\ [Next]_vars => LiveInv'
<1> SUFFICES ASSUME TypeOK, LiveInv, [Next]_vars PROVE LiveInv'
  OBVIOUS
<1> USE SizesAssumption DEF LiveInv
<1>1. ASSUME NEW w \in Workers, Worker(w) \/ SpuriousWakeup(w) PROVE LiveInv'
  <2> USE <1>1, WorkerFrame, ThreadsAssumption
          DEF TypeOK, DataTypeOK, PcTypeOK, Threads, At, Goto, countVars
  <2>1. CASE Check(w)
    BY <2>1 DEF poolVars, localVars, Check
  <2>2. CASE CondWait(w)
    BY <2>2 DEF poolVars, localVars, CondWait, Release
  <2>3. CASE SpuriousWakeup(w)
    BY <2>3 DEF poolVars, localVars, SpuriousWakeup
  <2>4. CASE Reacquire(w)
    BY <2>4 DEF poolVars, localVars, Reacquire, Acquire
  <2>5. CASE TestExit(w)
    BY <2>5 DEF poolVars, localVars, TestExit
  <2>6. CASE LoadCount(w)
    BY <2>6 DEF poolVars, localVars, LoadCount
  <2>7. CASE StoreCount(w)
    BY <2>7 DEF StoreCount
  <2>8. CASE Exit(w)
    BY <2>8 DEF poolVars, localVars, Exit, Acquire
  <2>9. CASE DeqTask(w)
    BY <2>9 DEF poolVars, localVars, DeqTask
  <2>10. CASE DeqLoad(w)
    BY <2>10 DEF poolVars, localVars, DeqLoad
  <2>11. CASE DeqStoreFront(w)
    BY <2>11 DEF DeqStoreFront
  <2>12. CASE DeqStoreSize(w)
    BY <2>12 DEF DeqStoreSize, BroadcastNotFull
  <2>13. CASE DeqUnlock(w)
    BY <2>13 DEF poolVars, localVars, DeqUnlock, Release
  <2>14. CASE BusyInc(w)
    BY <2>14 DEF BusyInc
  <2>15. CASE Run(w)
    BY <2>15 DEF poolVars, localVars, Run
  <2>16. CASE BusyDec(w)
    BY <2>16 DEF BusyDec
  <2> QED
    BY <2>1, <2>2, <2>3, <2>4, <2>5, <2>6, <2>7, <2>8, <2>9, <2>10,
       <2>11, <2>12, <2>13, <2>14, <2>15, <2>16
       DEF Worker
<1>2. CASE Adjusting
  <2> USE <1>2, AdjustFrame, ThreadsAssumption
          DEF TypeOK, DataTypeOK, PcTypeOK, Threads, At, Goto, countVars
  <2>1. CASE AdjustTop
    BY <2>1 DEF poolVars, localVars, AdjustTop
  <2>2. CASE AdjustLock
    BY <2>2 DEF poolVars, localVars, AdjustLock, Acquire
  <2>3. CASE AdjustSnap
    BY <2>3 DEF poolVars, localVars, AdjustSnap
  <2>4. CASE AdjustUnlock
    BY <2>4 DEF poolVars, localVars, AdjustUnlock, AfterGrow, Release
  <2>5. CASE AdjustBusy
    BY <2>5 DEF poolVars, localVars, AdjustBusy
  <2>6. CASE AdjustGrow
    BY <2>6 DEF AdjustGrow, Unborn
  <2>7. CASE AdjustGrowStore
    BY <2>7 DEF AdjustGrowStore
  <2>8. CASE AdjustShrink
    BY <2>8 DEF AdjustShrink
  <2>9. CASE AdjustSignal
    BY <2>9 DEF poolVars, localVars, AdjustSignal, SignalNotEmpty, NotEmptyWaiters
  <2> QED
    BY <1>2, <2>1, <2>2, <2>3, <2>4, <2>5, <2>6, <2>7, <2>8, <2>9
       DEF Adjusting
<1>3. CASE MainThread \/ AddSpuriousWakeup
  <2>1. UNCHANGED live_thr_num
    BY <1>3 DEF poolVars, localVars, MainThread, CreateFails, CreateWorker, CreateAdjust, AddLock,
                AddCheck, AddWait, AddSpuriousWakeup, AddPut, AddLoad, AddStore,
                AddUnlock, SetShutdown, JoinAdjust, Notify, Join, FreeLock,
                FreeCounter, FreeCond, countVars
  <2> QED
    BY <1>3, <2>1, MainFrame
<1>4. CASE UNCHANGED vars
  BY <1>4 DEF poolVars, localVars, vars, countVars
<1> QED
  BY <1>1, <1>2, <1>3, <1>4 DEF Next

\* The growing loop never counts more than max_thr_num threads (lines 189-197).
THEOREM LiveBound == Spec => []LiveCountBounded
<1>1. Init => LiveInv
  BY SizesAssumption, ThreadsAssumption DEF Init, LiveInv, Threads
<1>2. TypeOK /\ LiveInv /\ [Next]_vars => LiveInv'
  BY LiveStep
<1>3. LiveInv => LiveCountBounded
  BY DEF LiveInv, LiveCountBounded
<1> QED
  BY <1>1, <1>2, <1>3, TypeCorrect, PTL DEF Spec

-----------------------------------------------------------------------------
(* The teardown of the pool, and the count of busy threads. *)

Teardown == pc[Main] \in {"notify", "join", "free_lock", "free_counter", "free_cond"}

\* From the join of the manager on, the manager is done.
TeardownInv == Teardown => pc[Adjust] = "done"

LEMMA TeardownStep == TypeOK /\ TeardownInv /\ [Next]_vars => TeardownInv'
<1> SUFFICES ASSUME TypeOK, TeardownInv, [Next]_vars PROVE TeardownInv'
  OBVIOUS
<1> USE DEF TeardownInv, Teardown
<1>1. ASSUME NEW w \in Workers, Worker(w) \/ SpuriousWakeup(w) PROVE TeardownInv'
  BY <1>1, WorkerFrame
<1>2. CASE Adjusting
  BY <1>2, AdjustFrame
<1>3. CASE MainThread \/ AddSpuriousWakeup
  <2> USE MainFrame, ThreadsAssumption
          DEF TypeOK, DataTypeOK, PcTypeOK, Threads, At, Goto
  <2>1. CASE CreateFails
    BY <1>3, <2>1 DEF CreateFails
  <2>2. CASE CreateWorker
    BY <1>3, <2>2 DEF CreateWorker, Unborn
  <2>3. CASE CreateAdjust
    BY <1>3, <2>3 DEF CreateAdjust
  <2>4. CASE AddLock
    BY <1>3, <2>4 DEF AddLock, Acquire
  <2>5. CASE AddCheck
    BY <1>3, <2>5 DEF AddCheck
  <2>6. CASE AddWait
    BY <1>3, <2>6 DEF AddWait, Release
  <2>7. CASE AddSpuriousWakeup
    BY <1>3, <2>7 DEF AddSpuriousWakeup
  <2>8. CASE AddPut
    BY <1>3, <2>8 DEF AddPut
  <2>9. CASE AddLoad
    BY <1>3, <2>9 DEF AddLoad
  <2>10. CASE AddStore
    BY <1>3, <2>10 DEF AddStore, SignalNotEmpty, NotEmptyWaiters
  <2>11. CASE AddUnlock
    BY <1>3, <2>11 DEF AddUnlock, Release
  <2>12. CASE SetShutdown
    BY <1>3, <2>12 DEF SetShutdown
  <2>13. CASE JoinAdjust
    BY <1>3, <2>13 DEF JoinAdjust
  <2>14. CASE Notify
    BY <1>3, <2>14 DEF Notify, BroadcastNotEmpty, NotEmptyWaiters
  <2>15. CASE Join
    BY <1>3, <2>15 DEF Join
  <2>16. CASE FreeLock
    BY <1>3, <2>16 DEF FreeLock, Acquire
  <2>17. CASE FreeCounter
    BY <1>3, <2>17 DEF FreeCounter
  <2>18. CASE FreeCond
    BY <1>3, <2>18 DEF FreeCond
  <2> QED
    BY <1>3, <2>1, <2>2, <2>3, <2>4, <2>5, <2>6, <2>7, <2>8, <2>9,
       <2>10, <2>11, <2>12, <2>13, <2>14, <2>15, <2>16, <2>17, <2>18
       DEF MainThread
<1>4. CASE UNCHANGED vars
  BY <1>4 DEF vars
<1> QED
  BY <1>1, <1>2, <1>3, <1>4 DEF Next

\* A step of the teardown starts no thread and writes no slot of threads.
LEMMA TeardownQuiet ==
  ASSUME TypeOK, TeardownInv, [Next]_vars, Teardown
  PROVE  Unborn' = Unborn /\ threads' = threads
<1>1. ASSUME NEW w \in Workers, Worker(w) \/ SpuriousWakeup(w)
      PROVE  Unborn' = Unborn /\ threads' = threads
  BY <1>1, WorkerFrame DEF Unborn
<1>2. CASE Adjusting
  BY <1>2, AdjustFrame DEF TeardownInv
<1>3. CASE MainThread \/ AddSpuriousWakeup
  <2>1. JoinAdjust \/ Notify \/ Join \/ FreeLock \/ FreeCounter \/ FreeCond
    BY <1>3 DEF MainThread, Teardown, At, CreateFails, CreateWorker,
       CreateAdjust, AddLock, AddCheck, AddWait, AddSpuriousWakeup, AddPut,
       AddLoad, AddStore, AddUnlock, SetShutdown
  <2>2. threads' = threads
    BY <2>1 DEF poolVars, localVars, JoinAdjust, Notify, Join, FreeLock, FreeCounter, FreeCond
  <2>3. ASSUME NEW w \in Workers PROVE (pc'[w] = "none") <=> (pc[w] = "none")
    <3> USE ThreadsAssumption DEF TypeOK, PcTypeOK, Threads, Goto, Acquire
    <3>1. CASE Notify
      BY <3>1 DEF Notify, BroadcastNotEmpty, NotEmptyWaiters
    <3>2. CASE JoinAdjust \/ Join \/ FreeLock \/ FreeCounter \/ FreeCond
      BY <3>2 DEF JoinAdjust, Join, FreeLock, FreeCounter, FreeCond
    <3> QED
      BY <2>1, <3>1, <3>2
  <2> QED
    BY <2>2, <2>3 DEF Unborn
<1>4. CASE UNCHANGED vars
  BY <1>4 DEF poolVars, localVars, vars, Unborn
<1> QED
  BY <1>1, <1>2, <1>3, <1>4 DEF Next

\* After treadpool_destory joined the manager (line 351) no thread is started on
\* the pool that is being freed (lines 352-363).
THEOREM TeardownStartsNothing == Spec => NoThreadStartedInTeardown
<1>1. Init => TeardownInv
  BY ThreadsAssumption DEF Init, TeardownInv, Teardown, Threads
<1>2. TypeOK /\ TeardownInv /\ [Next]_vars => TeardownInv'
  BY TeardownStep
<1>3. TypeOK /\ TeardownInv /\ [Next]_vars
        => [Teardown => Unborn' = Unborn /\ threads' = threads]_vars
  BY TeardownQuiet
<1> QED
  BY <1>1, <1>2, <1>3, TypeCorrect, PTL
     DEF Spec, NoThreadStartedInTeardown, Teardown

BusyWorkers == {w \in Workers : pc[w] \in {"run", "busy_dec"}}

LEMMA BusyFinite ==
  /\ IsFiniteSet(BusyWorkers)
  /\ \A w \in Workers :
       /\ w \notin BusyWorkers =>
            Cardinality(BusyWorkers \cup {w}) = Cardinality(BusyWorkers) + 1
       /\ w \in BusyWorkers =>
            Cardinality(BusyWorkers \ {w}) = Cardinality(BusyWorkers) - 1
<1>1. IsFiniteSet(BusyWorkers)
  BY FS_Subset, ThreadsAssumption DEF BusyWorkers
<1>2. ASSUME NEW w \in Workers, w \notin BusyWorkers
      PROVE  Cardinality(BusyWorkers \cup {w}) = Cardinality(BusyWorkers) + 1
  BY <1>1, <1>2, FS_AddElement
<1>3. ASSUME NEW w \in Workers, w \in BusyWorkers
      PROVE  Cardinality(BusyWorkers \ {w}) = Cardinality(BusyWorkers) - 1
  BY <1>1, <1>3, FS_RemoveElement
<1> QED
  BY <1>1, <1>2, <1>3

LEMMA BusyStep == TypeOK /\ BusyCountExact /\ [Next]_vars => BusyCountExact'
<1> SUFFICES ASSUME TypeOK, BusyCountExact, [Next]_vars PROVE BusyCountExact'
  OBVIOUS
<1> USE DEF BusyCountExact
<1>0. ASSUME BusyWorkers' = BusyWorkers, UNCHANGED busy_thr_num
      PROVE  BusyCountExact'
  BY <1>0 DEF BusyWorkers
<1>1. ASSUME NEW w \in Workers, Worker(w) \/ SpuriousWakeup(w)
      PROVE  BusyCountExact'
  <2> USE WorkerFrame, ThreadsAssumption
          DEF TypeOK, DataTypeOK, PcTypeOK, Threads, At, Goto, countVars
  <2>1. CASE Check(w)
    BY <1>0, <1>1, <2>1 DEF poolVars, localVars, Check, BusyWorkers
  <2>2. CASE CondWait(w)
    BY <1>0, <1>1, <2>2 DEF poolVars, localVars, CondWait, BusyWorkers, Release
  <2>3. CASE SpuriousWakeup(w)
    BY <1>0, <1>1, <2>3 DEF poolVars, localVars, SpuriousWakeup, BusyWorkers
  <2>4. CASE Reacquire(w)
    BY <1>0, <1>1, <2>4 DEF poolVars, localVars, Reacquire, BusyWorkers, Acquire
  <2>5. CASE TestExit(w)
    BY <1>0, <1>1, <2>5 DEF poolVars, localVars, TestExit, BusyWorkers
  <2>6. CASE LoadCount(w)
    BY <1>0, <1>1, <2>6 DEF poolVars, localVars, LoadCount, BusyWorkers
  <2>7. CASE StoreCount(w)
    BY <1>0, <1>1, <2>7 DEF StoreCount, BusyWorkers
  <2>8. CASE Exit(w)
    BY <1>0, <1>1, <2>8 DEF poolVars, localVars, Exit, BusyWorkers, Acquire
  <2>9. CASE DeqTask(w)
    BY <1>0, <1>1, <2>9 DEF poolVars, localVars, DeqTask, BusyWorkers
  <2>10. CASE DeqLoad(w)
    BY <1>0, <1>1, <2>10 DEF poolVars, localVars, DeqLoad, BusyWorkers
  <2>11. CASE DeqStoreFront(w)
    BY <1>0, <1>1, <2>11 DEF DeqStoreFront, BusyWorkers
  <2>12. CASE DeqStoreSize(w)
    BY <1>0, <1>1, <2>12 DEF DeqStoreSize, BusyWorkers, BroadcastNotFull
  <2>13. CASE DeqUnlock(w)
    BY <1>0, <1>1, <2>13 DEF poolVars, localVars, DeqUnlock, BusyWorkers, Release
  <2>14. CASE BusyInc(w)
    <3>1. BusyWorkers' = BusyWorkers \cup {w} /\ w \notin BusyWorkers
      BY <2>14 DEF BusyInc, BusyWorkers
    <3>2. busy_thr_num' = Cardinality(BusyWorkers')
      BY <2>14, <3>1, BusyFinite DEF BusyInc, BusyWorkers
    <3> QED
      BY <3>2 DEF BusyWorkers
  <2>15. CASE Run(w)
    BY <1>0, <1>1, <2>15 DEF poolVars, localVars, Run, BusyWorkers
  <2>16. CASE BusyDec(w)
    <3>1. BusyWorkers' = BusyWorkers \ {w} /\ w \in BusyWorkers
      BY <2>16 DEF BusyDec, BusyWorkers
    <3>2. busy_thr_num' = Cardinality(BusyWorkers')
      BY <2>16, <3>1, BusyFinite DEF BusyDec, BusyWorkers
    <3> QED
      BY <3>2 DEF BusyWorkers
  <2> QED
    BY <1>1, <2>1, <2>2, <2>3, <2>4, <2>5, <2>6, <2>7, <2>8, <2>9,
       <2>10, <2>11, <2>12, <2>13, <2>14, <2>15, <2>16
       DEF Worker
<1>2. CASE Adjusting
  <2>1. UNCHANGED busy_thr_num
    BY <1>2 DEF poolVars, localVars, Adjusting, AdjustTop, AdjustLock, AdjustSnap, AdjustUnlock,
                AdjustBusy, AdjustGrow, AdjustGrowStore, AdjustShrink,
                AdjustSignal, countVars
  <2> QED
    BY <1>0, <1>2, <2>1, AdjustFrame DEF BusyWorkers
<1>3. CASE MainThread \/ AddSpuriousWakeup
  <2>1. UNCHANGED busy_thr_num
    BY <1>3 DEF poolVars, localVars, MainThread, CreateFails, CreateWorker, CreateAdjust, AddLock,
                AddCheck, AddWait, AddSpuriousWakeup, AddPut, AddLoad, AddStore,
                AddUnlock, SetShutdown, JoinAdjust, Notify, Join, FreeLock,
                FreeCounter, FreeCond, countVars
  <2> QED
    BY <1>0, <1>3, <2>1, MainFrame DEF BusyWorkers
<1>4. CASE UNCHANGED vars
  BY <1>0, <1>4 DEF poolVars, localVars, vars, countVars, BusyWorkers
<1> QED
  BY <1>1, <1>2, <1>3, <1>4 DEF Next

\* busy_thr_num, the number the manager compares with the live threads (lines
\* 143, 153, 180), is the number of threads inside a task.
THEOREM BusyCount == Spec => []BusyCountExact
<1>1. Init => BusyCountExact
  <2> SUFFICES ASSUME Init PROVE BusyCountExact
    OBVIOUS
  <2>1. {w \in Workers : pc[w] \in {"run", "busy_dec"}} = {}
    BY ThreadsAssumption DEF Init, Threads
  <2> QED
    BY <2>1, FS_EmptySet DEF Init, BusyCountExact
<1>2. TypeOK /\ BusyCountExact /\ [Next]_vars => BusyCountExact'
  BY BusyStep
<1> QED
  BY <1>1, <1>2, TypeCorrect, PTL DEF Spec

-----------------------------------------------------------------------------
(* thread_counter, the only mutex a started task still needs. *)

CounterFree == thread_counter # None => pc[Main] \in {"free_cond", "ended", "crashed"}

LEMMA CounterStep == TypeOK /\ CounterFree /\ [Next]_vars => CounterFree'
<1> SUFFICES ASSUME TypeOK, CounterFree, [Next]_vars PROVE CounterFree'
  OBVIOUS
<1> USE DEF CounterFree
<1>1. ASSUME NEW w \in Workers, Worker(w) \/ SpuriousWakeup(w)
      PROVE  CounterFree'
  <2>1. UNCHANGED thread_counter
    BY <1>1 DEF poolVars, countVars, Worker, Check, CondWait, SpuriousWakeup,
       Reacquire, TestExit, LoadCount, StoreCount, Exit, DeqTask, DeqLoad,
       DeqStoreFront, DeqStoreSize, DeqUnlock, BusyInc, Run, BusyDec
  <2> QED
    BY <1>1, <2>1, WorkerFrame
<1>2. CASE Adjusting
  <2>1. UNCHANGED thread_counter
    BY <1>2 DEF poolVars, countVars, Adjusting, AdjustTop, AdjustLock, AdjustSnap,
       AdjustUnlock, AdjustBusy, AdjustGrow, AdjustGrowStore, AdjustShrink, AdjustSignal
  <2> QED
    BY <1>2, <2>1, AdjustFrame
<1>3. CASE MainThread \/ AddSpuriousWakeup
  <2> USE ThreadsAssumption DEF TypeOK, PcTypeOK, Threads, At, Goto
  <2>1. CASE FreeCounter
    BY <2>1 DEF FreeCounter
  <2>2. CASE FreeCond
    BY <2>2 DEF FreeCond
  <2>3. ASSUME ~FreeCounter, ~FreeCond
        PROVE  /\ UNCHANGED thread_counter
               /\ pc[Main] \notin {"free_cond", "ended", "crashed"}
    BY <1>3, <2>3 DEF poolVars, countVars, MainThread, CreateFails, CreateWorker,
       CreateAdjust, AddLock, AddCheck, AddWait, AddSpuriousWakeup, AddPut, AddLoad,
       AddStore, AddUnlock, SetShutdown, JoinAdjust, Notify, Join, FreeLock
  <2> QED
    BY <2>1, <2>2, <2>3
<1>4. CASE UNCHANGED vars
  BY <1>4 DEF vars, poolVars
<1> QED
  BY <1>1, <1>2, <1>3, <1>4 DEF Next

\* What StartedTaskNeverBlocks rests on: a worker that took a task waits for nothing
\* but thread_counter (lines 139, 150), which is locked and unlocked in pairs, single
\* steps here, by everybody but threadpool_free, which keeps it (line 76).
THEOREM CounterKeptByFreeOnly == Spec => []CounterFree
<1>1. Init => CounterFree
  BY DEF Init, CounterFree
<1>2. TypeOK /\ CounterFree /\ [Next]_vars => CounterFree'
  BY CounterStep
<1> QED
  BY <1>1, <1>2, TypeCorrect, PTL DEF Spec

=============================================================================
