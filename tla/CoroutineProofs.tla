--------------------------- MODULE CoroutineProofs ---------------------------
(***************************************************************************)
(* Proofs about the coroutine library.                                     *)
(***************************************************************************)
EXTENDS CoroutineLibrary, SequenceTheorems, FiniteSetTheorems, TLAPS

-----------------------------------------------------------------------------
(* LooperExecutor.  Until shutdown(false) clears the queue, what was run,  *)
(* what is being run and what is queued are what was accepted, in order.   *)
(* From then on nothing is accepted any more: the queue stays empty.       *)
LoopDone == l_executed \o Looper!Running
LooperShape ==
  /\ Looper!TypeOK
  /\ l_is_active <=> l_closer = "none"
  /\ l_waiting => l_worker = "wait"
LooperOrder ==
  \/ LoopDone \o l_queue = l_accepted
  \/ /\ l_queue = <<>> /\ l_is_active = FALSE /\ l_holder = Nothing
     /\ \E n \in 0 .. Len(l_accepted) : LoopDone = SubSeq(l_accepted, 1, n)
LooperInv == LooperShape /\ LooperOrder /\ LooperNoLostWakeup

(* The invariant of the executor holds at the start.                       *)
LEMMA LooperInit ==
  ASSUME Looper!Init
  PROVE  LooperInv
<1>1. LooperShape
  <2>1. /\ l_is_active \in BOOLEAN /\ l_waiting \in BOOLEAN
        /\ l_is_active <=> l_closer = "none"
        /\ ~l_waiting
    BY DEF Looper!Init
  <2>2. Looper!TypeOK
    BY <2>1, MarkAssumption DEF Looper!Init, Looper!TypeOK
  <2>3. QED
    BY <2>1, <2>2 DEF LooperShape
<1>2. LooperOrder
  BY DEF Looper!Init, LooperOrder, LoopDone, Looper!Running
<1>3. LooperNoLostWakeup
  BY DEF Looper!Init, LooperNoLostWakeup, Looper!NoLostWakeup
<1>4. QED
  BY <1>1, <1>2, <1>3 DEF LooperInv

(* How a step changes the three sequences: a function is pushed, taken or  *)
(* run, the queue is cleared, or all stays as it is.                       *)
LoopPush(f) ==
  /\ l_holder = f /\ l_queue' = Append(l_queue, f) /\ l_accepted' = Append(l_accepted, f)
  /\ UNCHANGED <<l_executed, l_running, l_is_active>>
LoopPop ==
  /\ l_queue # <<>> /\ l_running = Nothing
  /\ l_running' = Head(l_queue) /\ l_queue' = Tail(l_queue)
  /\ UNCHANGED <<l_executed, l_accepted>>
LoopEnd ==
  /\ l_running # Nothing /\ l_running' = Nothing
  /\ l_executed' = Append(l_executed, l_running)
  /\ UNCHANGED <<l_queue, l_accepted>>
LoopDrop ==
  /\ l_queue' = <<>> /\ l_is_active = FALSE /\ l_holder = Nothing
  /\ UNCHANGED <<l_executed, l_running, l_accepted>>
LoopIdle == UNCHANGED <<l_queue, l_executed, l_running, l_accepted>>
LoopStep ==
  /\ \/ \E f \in Functions : LoopPush(f)
     \/ LoopPop \/ LoopEnd \/ LoopDrop \/ LoopIdle
  /\ l_is_active = FALSE => l_is_active' = FALSE
  /\ l_is_active = FALSE /\ l_holder = Nothing => l_holder' = Nothing

(* Positions stay consistent, and each step is one of these.               *)
LEMMA LooperShapeStep ==
  ASSUME LooperShape, [Looper!Next]_(Looper!vars)
  PROVE  LooperShape' /\ LoopStep
<1> USE DEF LooperShape, Looper!TypeOK, LoopStep
<1>0. CASE UNCHANGED Looper!vars
  <2>1. UNCHANGED <<l_is_active, l_queue, l_holder, l_waiting, l_worker, l_running,
                    l_caller, l_closer, l_accepted, l_executed>>
    BY <1>0 DEF Looper!vars
  <2>2. QED
    BY <2>1 DEF LoopIdle
<1>1. ASSUME NEW f \in Functions, Looper!ExecuteLock(f)
      PROVE  LooperShape' /\ LoopStep
  <2>1. CASE l_is_active
    BY <1>1, <2>1, MarkAssumption DEF Looper!ExecuteLock, LoopIdle
  <2>2. CASE ~l_is_active
    BY <1>1, <2>2, MarkAssumption DEF Looper!ExecuteLock, LoopIdle
  <2>3. QED
    BY <2>1, <2>2
<1>2. ASSUME NEW f \in Functions, Looper!ExecutePush(f)
      PROVE  LooperShape' /\ LoopStep
  <2>1. LooperShape'
    BY <1>2, MarkAssumption DEF Looper!ExecutePush
  <2>2. LoopPush(f) /\ l_holder' = Nothing
    BY <1>2 DEF Looper!ExecutePush, LoopPush
  <2>3. UNCHANGED l_is_active
    BY <1>2 DEF Looper!ExecutePush
  <2>4. QED
    BY <2>1, <2>2, <2>3
<1>3. ASSUME NEW f \in Functions, Looper!ExecuteNotify(f)
      PROVE  LooperShape' /\ LoopStep
  BY <1>3 DEF Looper!ExecuteNotify, LoopIdle
<1>4. ASSUME NEW w \in BOOLEAN, Looper!ShutdownStore(w)
      PROVE  LooperShape' /\ LoopStep
  BY <1>4 DEF Looper!ShutdownStore, LoopIdle
<1>5. CASE Looper!ShutdownClear
  BY <1>5 DEF Looper!ShutdownClear, LoopDrop
<1>6. CASE Looper!ShutdownNotify
  BY <1>6 DEF Looper!ShutdownNotify, LoopIdle
<1>7. CASE Looper!LoopTest
  BY <1>7 DEF Looper!LoopTest, Looper!others, LoopIdle
<1>8. CASE Looper!LoopWait
  BY <1>8 DEF Looper!LoopWait, Looper!others, LoopIdle
<1>9. ASSUME Looper!Take, l_worker \in {"lock", "wait"}, ~l_waiting,
             UNCHANGED <<l_is_active, l_holder, l_caller, l_closer, l_accepted,
                         l_waiting, l_executed>>
      PROVE  LooperShape' /\ LoopStep
  <2>1. Head(l_queue) \in Functions /\ Tail(l_queue) \in Seq(Functions)
    BY <1>9 DEF Looper!Take
  <2>2. LoopPop
    BY <1>9, <2>1 DEF Looper!Take, LoopPop
  <2>3. LooperShape'
    BY <1>9, <2>1, MarkAssumption DEF Looper!Take
  <2>4. QED
    BY <2>2, <2>3, <1>9
<1>10. CASE Looper!LoopTake
  BY <1>9, <1>10 DEF Looper!LoopTake, Looper!others
<1>11. CASE Looper!LoopWoken
  <2>1. CASE Looper!Take
    BY <1>9, <1>11, <2>1 DEF Looper!LoopWoken, Looper!others
  <2>2. CASE l_queue = <<>> /\ l_worker' = "while" /\ UNCHANGED <<l_queue, l_running>>
    BY <1>11, <2>2 DEF Looper!LoopWoken, Looper!others, LoopIdle
  <2>3. QED
    BY <1>11, <2>1, <2>2 DEF Looper!LoopWoken
<1>12. CASE Looper!SpuriousWakeup
  BY <1>12 DEF Looper!SpuriousWakeup, Looper!others, LoopIdle
<1>13. CASE Looper!LoopRun
  <2>1. LoopEnd
    BY <1>13 DEF Looper!LoopRun, Looper!others, LoopEnd
  <2>2. LooperShape'
    BY <1>13 DEF Looper!LoopRun, Looper!others
  <2>3. QED
    BY <2>1, <2>2, <1>13 DEF Looper!LoopRun, Looper!others
<1>14. QED
  BY <1>0, <1>1, <1>2, <1>3, <1>4, <1>5, <1>6, <1>7, <1>8, <1>10, <1>11, <1>12, <1>13
     DEF Looper!Next, Looper!Worker, Looper!Shutdown, Looper!Execute

-----------------------------------------------------------------------------
(* Facts about sequences: pushing behind a prefix, taking the head of what *)
(* comes behind one, and the prefix of a concatenation.                    *)
LEMMA PushBehind ==
  ASSUME NEW S, NEW s \in Seq(S), NEW t \in Seq(S), NEW x \in S
  PROVE  s \o Append(t, x) = Append(s \o t, x)
<1> DEFINE a == s \o Append(t, x)
           b == Append(s \o t, x)
<1>1. a \in Seq(S) /\ b \in Seq(S) /\ Len(a) = Len(b) /\ Len(a) \in Nat
  OBVIOUS
<1>2. \A i \in 1 .. Len(a) : a[i] = b[i]
  OBVIOUS
<1>3. QED
  BY <1>1, <1>2, SeqEqual

(* The head moves from what comes behind to what comes before.             *)
LEMMA HeadMoves ==
  ASSUME NEW S, NEW s \in Seq(S), NEW q \in Seq(S), q # <<>>
  PROVE  (s \o <<Head(q)>>) \o Tail(q) = s \o q
<1> DEFINE a == (s \o <<Head(q)>>) \o Tail(q)
           b == s \o q
<1>0. Head(q) \in S /\ Tail(q) \in Seq(S) /\ Len(Tail(q)) = Len(q) - 1
  OBVIOUS
<1>1. a \in Seq(S) /\ b \in Seq(S) /\ Len(a) = Len(b)
  BY <1>0
<1>2. \A i \in 1 .. Len(a) : a[i] = b[i]
  BY <1>0
<1>3. QED
  BY <1>1, <1>2, SeqEqual

(* A concatenation begins with its first part.                             *)
LEMMA PrefixOfConcat ==
  ASSUME NEW S, NEW s \in Seq(S), NEW q \in Seq(S)
  PROVE  /\ Len(s) \in 0 .. Len(s \o q)
         /\ s = SubSeq(s \o q, 1, Len(s))
<1>1. Len(s \o q) = Len(s) + Len(q) /\ Len(s) \in Nat /\ Len(q) \in Nat
  OBVIOUS
<1>2. SubSeq(s \o q, 1, Len(s)) \in Seq(S) /\ Len(SubSeq(s \o q, 1, Len(s))) = Len(s)
  BY <1>1
<1>3. \A i \in 1 .. Len(s) : SubSeq(s \o q, 1, Len(s))[i] = s[i]
  BY <1>1
<1>4. QED
  BY <1>1, <1>2, <1>3, SeqEqual

(* The order is kept by every step.                                        *)
LEMMA LooperOrderStep ==
  ASSUME LooperShape, LooperShape', LoopStep, LooperOrder
  PROVE  LooperOrder'
<1>0. /\ l_queue \in Seq(Functions) /\ l_accepted \in Seq(Functions)
      /\ l_executed \in Seq(Functions) /\ Looper!Running \in Seq(Functions)
      /\ LoopDone \in Seq(Functions)
  BY MarkAssumption DEF LooperShape, Looper!TypeOK, Looper!Running, LoopDone
<1>1. ASSUME NEW f \in Functions, LoopPush(f)
      PROVE  LooperOrder'
  <2>1. LoopDone' = LoopDone
    BY <1>1 DEF LoopPush, LoopDone, Looper!Running
  <2>2. LoopDone \o l_queue = l_accepted
    BY <1>1, MarkAssumption DEF LoopPush, LooperOrder
  <2>3. LoopDone \o Append(l_queue, f) = Append(l_accepted, f)
    BY <1>0, <2>2, PushBehind
  <2>4. QED
    BY <1>1, <2>1, <2>3 DEF LoopPush, LooperOrder
<1>2. CASE LoopPop
  <2>1. LoopDone = l_executed
    BY <1>2, <1>0 DEF LoopPop, LoopDone, Looper!Running
  <2>2. LoopDone' = l_executed \o <<Head(l_queue)>>
    BY <1>2, <1>0, MarkAssumption DEF LoopPop, LoopDone, Looper!Running
  <2>3. LoopDone \o l_queue = l_accepted
    BY <1>2 DEF LoopPop, LooperOrder
  <2>4. LoopDone' \o Tail(l_queue) = l_accepted
    BY <1>0, <1>2, <2>1, <2>2, <2>3, HeadMoves DEF LoopPop
  <2>5. QED
    BY <1>2, <2>4 DEF LoopPop, LooperOrder
<1>3. CASE LoopEnd
  <2>1. LoopDone = l_executed \o <<l_running>>
    BY <1>3 DEF LoopEnd, LoopDone, Looper!Running
  <2>2. LoopDone' = Append(l_executed, l_running) \o <<>>
    BY <1>3 DEF LoopEnd, LoopDone, Looper!Running
  <2>3. l_running \in Functions
    BY <1>3 DEF LoopEnd, LooperShape, Looper!TypeOK
  <2>4. LoopDone' = LoopDone
    BY <1>0, <2>1, <2>2, <2>3
  <2>5. QED
    BY <1>3, <2>4 DEF LoopEnd, LooperOrder, LoopStep
<1>4. CASE LoopDrop
  <2>1. LoopDone' = LoopDone
    BY <1>4 DEF LoopDrop, LoopDone, Looper!Running
  <2>2. \E n \in 0 .. Len(l_accepted) : LoopDone = SubSeq(l_accepted, 1, n)
    <3>1. CASE LoopDone \o l_queue = l_accepted
      BY <1>0, <3>1, PrefixOfConcat
    <3>2. CASE ~(LoopDone \o l_queue = l_accepted)
      BY <3>2 DEF LooperOrder
    <3>3. QED
      BY <3>1, <3>2
  <2>3. QED
    BY <1>4, <2>1, <2>2 DEF LoopDrop, LooperOrder, LoopStep
<1>5. CASE LoopIdle
  BY <1>5 DEF LoopIdle, LooperOrder, LoopStep, LoopDone, Looper!Running
<1>6. QED
  BY <1>1, <1>2, <1>3, <1>4, <1>5 DEF LoopStep

(* A queued function has a notification on its way, whatever the step.     *)
LEMMA LooperWakeupStep ==
  ASSUME LooperShape, [Looper!Next]_(Looper!vars), LooperNoLostWakeup
  PROVE  LooperNoLostWakeup'
<1> USE DEF LooperNoLostWakeup, Looper!NoLostWakeup, LooperShape, Looper!TypeOK
<1>1. CASE UNCHANGED <<l_waiting, l_queue, l_caller>>
  BY <1>1
<1>2. ASSUME NEW f \in Functions, Looper!Execute(f)
      PROVE  LooperNoLostWakeup'
  <2>1. CASE Looper!ExecuteLock(f)
    BY <2>1 DEF Looper!ExecuteLock
  <2>2. CASE Looper!ExecutePush(f)
    BY <2>2 DEF Looper!ExecutePush
  <2>3. CASE Looper!ExecuteNotify(f)
    BY <2>3 DEF Looper!ExecuteNotify
  <2>4. QED
    BY <1>2, <2>1, <2>2, <2>3 DEF Looper!Execute
<1>3. CASE Looper!Worker
  BY <1>3 DEF Looper!Worker, Looper!LoopTest, Looper!LoopWait, Looper!LoopTake,
              Looper!LoopWoken, Looper!LoopRun, Looper!Take, Looper!others
<1>4. CASE Looper!SpuriousWakeup \/ Looper!Shutdown
  BY <1>4 DEF Looper!SpuriousWakeup, Looper!Shutdown, Looper!ShutdownClear,
              Looper!ShutdownNotify, Looper!others
<1>5. ASSUME NEW w \in BOOLEAN, Looper!ShutdownStore(w)
      PROVE  LooperNoLostWakeup'
  BY <1>5 DEF Looper!ShutdownStore
<1>6. CASE UNCHANGED Looper!vars
  BY <1>1, <1>6 DEF Looper!vars
<1>7. QED
  BY <1>2, <1>3, <1>4, <1>5, <1>6 DEF Looper!Next

(* The invariant of LooperExecutor, for any functions.                     *)
THEOREM LooperInvariance == Looper!Spec => []LooperInv
<1>1. Looper!Init => LooperInv
  BY LooperInit
<1>2. LooperInv /\ [Looper!Next]_(Looper!vars) => LooperInv'
  BY LooperShapeStep, LooperOrderStep, LooperWakeupStep DEF LooperInv
<1>3. QED
  BY <1>1, <1>2, PTL DEF Looper!Spec

(* LooperExecutor runs the functions execute() has accepted in the order   *)
(* in which they were queued, none twice; only shutdown(false) drops some, *)
(* and then all that are left.                                             *)
THEOREM LooperRunsInOrder == Looper!Spec => []LooperInOrder
<1>1. LooperInv => LooperInOrder
  <2> SUFFICES ASSUME LooperInv PROVE LooperInOrder
    OBVIOUS
  <2>0. /\ l_queue \in Seq(Functions) /\ l_accepted \in Seq(Functions)
        /\ LoopDone \in Seq(Functions)
    BY MarkAssumption DEF LooperInv, LooperShape, Looper!TypeOK, Looper!Running, LoopDone
  <2>1. \E n \in 0 .. Len(l_accepted) : LoopDone = SubSeq(l_accepted, 1, n)
    BY <2>0, PrefixOfConcat DEF LooperInv, LooperOrder
  <2>2. l_queue # <<>> => LoopDone \o l_queue = l_accepted
    BY DEF LooperInv, LooperOrder
  <2>3. QED
    BY <2>1, <2>2 DEF LooperInOrder, Looper!InOrder, LoopDone
<1>2. QED
  BY <1>1, LooperInvariance, PTL

(* A worker asleep in front of a non-empty queue is about to be notified:  *)
(* push and notification are two steps of execute(), the look at the queue *)
(* and the wait one of run_loop().                                         *)
THEOREM LooperWakesUp == Looper!Spec => []LooperNoLostWakeup
<1>1. LooperInv => LooperNoLostWakeup
  BY DEF LooperInv
<1>2. QED
  BY <1>1, LooperInvariance, PTL

-----------------------------------------------------------------------------
(* TaskPromise.  The result is there from the moment the task's thread has *)
(* left its start; a callback that is registered and not run is in         *)
(* completion_callbacks, and it has been run when it has left its place.   *)
TaskShape ==
  /\ Promise!TypeOK
  /\ p_pc[Task] \in {"start", "callbacks", "done"}
  /\ p_result <=> p_pc[Task] # "start"
  /\ p_pc[Task] = "done" => p_callbacks = {}
TaskRuns ==
  \A c \in Promise!Callbacks :
    /\ p_pc[c] = "registered" => c \in p_callbacks
    /\ p_pc[c] \in {"start", "registered", "run"} => p_runs[c] = 0
    /\ p_runs[c] <= 1
    /\ p_runs[c] > 0 \/ p_pc[c] = "run" => p_result
TaskInv == TaskShape /\ TaskRuns /\ TaskNoSleeper

(* The invariant of the promise holds at the start.                        *)
LEMMA TaskInit ==
  ASSUME Promise!Init
  PROVE  TaskInv
<1>1. Task \in Promise!Threads /\ Promise!Callbacks \subseteq Promise!Threads
  BY DEF Promise!Threads
<1>2. TaskShape
  <2>1. p_result \in BOOLEAN /\ p_result = FALSE /\ p_pc[Task] = "start"
    BY <1>1 DEF Promise!Init
  <2>2. Promise!TypeOK
    BY <1>1, <2>1, MarkAssumption DEF Promise!Init, Promise!TypeOK
  <2>3. QED
    BY <2>1, <2>2 DEF TaskShape
<1>3. TaskRuns
  BY <1>1 DEF Promise!Init, TaskRuns
<1>4. TaskNoSleeper
  BY DEF Promise!Init, TaskNoSleeper, Promise!NoSleeper
<1>5. QED
  BY <1>2, <1>3, <1>4 DEF TaskInv

(* Every step of the task, of a callback's owner and of a getter keeps it. *)
LEMMA TaskStep ==
  ASSUME TaskInv, [Promise!Next]_(Promise!vars)
  PROVE  TaskInv'
<1> USE DEF TaskInv, TaskShape, TaskRuns, Promise!TypeOK, TaskNoSleeper,
            Promise!NoSleeper, Promise!Goto
<1>1. /\ Task \in Promise!Threads /\ Promise!Callbacks \subseteq Promise!Threads
      /\ Getters \cup Awaiters \subseteq Promise!Threads
      /\ Task \notin Promise!Callbacks /\ Task \notin Getters \cup Awaiters
      /\ Getters \cap Promise!Callbacks = {}
      /\ Awaiters \subseteq Promise!Callbacks /\ Nothing # Task
  BY ThreadAssumption, MarkAssumption DEF Promise!Threads, Promise!Callbacks
<1>2. CASE UNCHANGED Promise!vars
  BY <1>2 DEF Promise!vars
<1>3. CASE Promise!return_value
  BY <1>1, <1>3 DEF Promise!return_value
<1>4. ASSUME NEW c \in Promise!Callbacks, Promise!NotifyCallback(c)
      PROVE  TaskInv'
  <2>1. PICK l \in {"nested", "get", "done"} : p_pc' = [p_pc EXCEPT ![c] = l]
    BY <1>4 DEF Promise!NotifyCallback, Promise!RunCallback
  <2>2. p_runs' = [p_runs EXCEPT ![c] = @ + 1] /\ p_runs[c] = 0
    BY <1>4 DEF Promise!NotifyCallback, Promise!RunCallback
  <2>3. /\ p_callbacks' = p_callbacks \ {c} /\ p_pc[c] = "registered"
        /\ UNCHANGED <<p_result, p_holder, p_waiters, p_got>>
    BY <1>4 DEF Promise!NotifyCallback
  <2>4. p_result
    BY <1>4 DEF Promise!NotifyCallback
  <2>5. QED
    BY <1>1, <2>1, <2>2, <2>3, <2>4
<1>5. CASE Promise!ReturnUnlock
  BY <1>1, <1>5 DEF Promise!ReturnUnlock
<1>6. ASSUME NEW c \in Promise!Callbacks, Promise!on_completed(c)
      PROVE  TaskInv'
  <2>1. CASE p_result
    BY <1>1, <1>6, <2>1 DEF Promise!on_completed
  <2>2. CASE ~p_result
    BY <1>1, <1>6, <2>2 DEF Promise!on_completed
  <2>3. QED
    BY <2>1, <2>2
<1>7. ASSUME NEW c \in Promise!Callbacks, Promise!CallNow(c)
      PROVE  TaskInv'
  <2>1. PICK l \in {"get", "done"} : p_pc' = [p_pc EXCEPT ![c] = l]
    BY <1>7 DEF Promise!CallNow, Promise!RunCallback
  <2>2. p_runs' = [p_runs EXCEPT ![c] = @ + 1] /\ p_runs[c] = 0
    BY <1>7 DEF Promise!CallNow, Promise!RunCallback
  <2>3. p_pc[c] = "run" /\ UNCHANGED <<p_result, p_holder, p_waiters, p_callbacks, p_got>>
    BY <1>7 DEF Promise!CallNow
  <2>4. QED
    BY <1>1, <2>1, <2>2, <2>3
<1>8. ASSUME NEW t \in Getters \cup Awaiters, Promise!get_result(t)
      PROVE  TaskInv'
  <2>0. t \in Promise!Callbacks => p_pc[t] \in {"get", "nested"} \/ p_pc[t] = "wait"
    BY <1>1, <1>8 DEF Promise!get_result, Promise!GetNow, Promise!GetWait, Promise!GetWoken,
                      Promise!At
  <2>1. CASE Promise!GetNow(t)
    <3>1. p_pc[t] # "wait" /\ p_pc[t] # "registered"
      BY <1>1, <2>1 DEF Promise!GetNow, Promise!At
    <3>2. QED
      BY <1>1, <2>0, <2>1, <3>1 DEF Promise!GetNow
  <2>2. CASE Promise!GetWait(t)
    <3>1. p_pc[t] # "registered"
      BY <1>1, <2>2 DEF Promise!GetWait, Promise!At
    <3>2. QED
      BY <1>1, <2>0, <2>2, <3>1 DEF Promise!GetWait
  <2>3. CASE Promise!GetWoken(t)
    BY <1>1, <2>0, <2>3 DEF Promise!GetWoken
  <2>4. QED
    BY <1>8, <2>1, <2>2, <2>3 DEF Promise!get_result
<1>9. ASSUME NEW t \in Getters \cup Awaiters, Promise!SpuriousWakeup(t)
      PROVE  TaskInv'
  BY <1>1, <1>9 DEF Promise!SpuriousWakeup
<1>10. QED
  BY <1>2, <1>3, <1>4, <1>5, <1>6, <1>7, <1>8, <1>9
     DEF Promise!Next, Promise!Steps, Promise!Complete

(* The invariant of TaskPromise, for any getters, callers of then and      *)
(* awaiting coroutines, and whichever executor these run on.               *)
THEOREM TaskInvariance == Promise!Spec => []TaskInv
<1>1. Promise!Init => TaskInv
  BY TaskInit
<1>2. TaskInv /\ [Promise!Next]_(Promise!vars) => TaskInv'
  BY TaskStep
<1>3. QED
  BY <1>1, <1>2, PTL DEF Promise!Spec

(* on_completed and return_value agree on who runs a callback: it is run   *)
(* once at most and only when the result is there, and                     *)
(* completion_callbacks is empty when the task is over.                    *)
THEOREM TaskCallsOnce == Promise!Spec => []TaskCallbackOnce
<1>1. TaskInv => TaskCallbackOnce
  BY DEF TaskInv, TaskRuns, TaskShape, TaskCallbackOnce, Promise!CallbackOnce
<1>2. QED
  BY <1>1, TaskInvariance, PTL

(* A callback that was registered before the task finished is not          *)
(* forgotten: none is still registered when return_value has returned.     *)
THEOREM TaskForgetsNobody ==
  Promise!Spec =>
    [](p_pc[Task] = "done" => \A c \in Promise!Callbacks : p_pc[c] # "registered")
<1>1. TaskInv => (p_pc[Task] = "done" => \A c \in Promise!Callbacks : p_pc[c] # "registered")
  BY DEF TaskInv, TaskRuns, TaskShape
<1>2. QED
  BY <1>1, TaskInvariance, PTL

(* No thread is left in completion.wait once the result is there.          *)
THEOREM TaskWakesAll == Promise!Spec => []TaskNoSleeper
<1>1. TaskInv => TaskNoSleeper
  BY DEF TaskInv
<1>2. QED
  BY <1>1, TaskInvariance, PTL

(* A coroutine that awaits the task is resumed after the result is there;  *)
(* one that runs inside the callback does so while its thread has          *)
(* completion_lock.                                                        *)
TaskAwaits ==
  \A a \in Awaiters :
    /\ p_pc[a] \in {"run", "get", "nested"} => p_result
    /\ p_pc[a] # "wait" /\ p_got[a] # "nothing"
    /\ p_pc[a] = "nested" => InlineExecutor /\ p_holder = Task

(* What an awaiting coroutine knows is kept by every step.                 *)
LEMMA TaskAwaitsStep ==
  ASSUME TaskInv, TaskAwaits, [Promise!Next]_(Promise!vars)
  PROVE  TaskAwaits'
<1>1. /\ Task \notin Awaiters /\ Getters \cap Awaiters = {} /\ Nothing # Task
      /\ Awaiters \subseteq Promise!Callbacks /\ Plain \cap Awaiters = {}
      /\ Awaiters \subseteq Promise!Threads
  BY ThreadAssumption, MarkAssumption DEF Promise!Callbacks, Promise!Threads
<1>2. /\ p_pc \in [Promise!Threads -> {"start", "callbacks", "registered", "run", "get",
                                       "nested", "wait", "done"}]
      /\ p_got \in [Getters \cup Awaiters -> {"none", "result", "nothing"}]
      /\ p_result \in BOOLEAN
      /\ p_holder = Task <=> p_pc[Task] = "callbacks"
      /\ p_result <=> p_pc[Task] # "start"
  BY DEF TaskInv, TaskShape, Promise!TypeOK
<1>3. CASE UNCHANGED Promise!vars
  BY <1>3 DEF Promise!vars, TaskAwaits
<1>4. CASE Promise!return_value
  BY <1>1, <1>2, <1>4 DEF Promise!return_value, Promise!Goto, TaskAwaits
<1>5. ASSUME NEW c \in Promise!Callbacks, Promise!NotifyCallback(c)
      PROVE  TaskAwaits'
  <2>1. p_result /\ p_holder = Task /\ UNCHANGED <<p_result, p_holder, p_got>>
    BY <1>2, <1>5 DEF Promise!NotifyCallback
  <2>2. PICK l \in {"nested", "get", "done"} :
          /\ p_pc' = [p_pc EXCEPT ![c] = l]
          /\ l = "nested" => InlineExecutor
    BY <1>5 DEF Promise!NotifyCallback, Promise!RunCallback, Promise!Goto
  <2>3. QED
    BY <1>1, <1>2, <2>1, <2>2 DEF TaskAwaits
<1>6. CASE Promise!ReturnUnlock
  <2>1. \A a \in Awaiters : p_pc[a] # "nested" /\ p_pc'[a] = p_pc[a]
    BY <1>1, <1>2, <1>6 DEF Promise!ReturnUnlock, Promise!Nested, Promise!Goto
  <2>2. UNCHANGED <<p_result, p_got>>
    BY <1>6 DEF Promise!ReturnUnlock
  <2>3. QED
    BY <2>1, <2>2 DEF TaskAwaits
<1>7. ASSUME NEW c \in Promise!Callbacks, Promise!on_completed(c)
      PROVE  TaskAwaits'
  <2>1. PICK l \in {"run", "registered"} :
          /\ p_pc' = [p_pc EXCEPT ![c] = l]
          /\ l = "run" => p_result
    BY <1>7 DEF Promise!on_completed, Promise!Goto
  <2>2. UNCHANGED <<p_result, p_holder, p_got>>
    BY <1>7 DEF Promise!on_completed
  <2>3. QED
    BY <1>1, <1>2, <2>1, <2>2 DEF TaskAwaits
<1>8. ASSUME NEW c \in Promise!Callbacks, Promise!CallNow(c)
      PROVE  TaskAwaits'
  <2>1. PICK l \in {"get", "done"} :
          p_pc' = [p_pc EXCEPT ![c] = l] /\ (l = "get" => c \in Awaiters)
    BY <1>8 DEF Promise!CallNow, Promise!RunCallback, Promise!Goto
  <2>2. p_pc[c] = "run" /\ UNCHANGED <<p_result, p_holder, p_got>>
    BY <1>8 DEF Promise!CallNow
  <2>3. QED
    BY <1>1, <1>2, <2>1, <2>2 DEF TaskAwaits
<1>9. ASSUME NEW t \in Getters \cup Awaiters, Promise!get_result(t)
      PROVE  TaskAwaits'
  <2>1. UNCHANGED <<p_result, p_holder>>
    BY <1>9 DEF Promise!get_result, Promise!GetNow, Promise!GetWait, Promise!GetWoken
  <2>2. CASE t \in Awaiters
    <3>1. p_pc[t] # "wait"
      BY <2>2 DEF TaskAwaits
    <3>2. Promise!At(t) => p_result
      BY <1>1, <2>2 DEF Promise!At, TaskAwaits
    <3>3. Promise!GetNow(t)
      BY <1>9, <3>1, <3>2 DEF Promise!get_result, Promise!GetWait, Promise!GetWoken
    <3>4. QED
      BY <1>1, <1>2, <2>1, <2>2, <3>3 DEF Promise!GetNow, Promise!Goto, TaskAwaits
  <2>3. CASE t \notin Awaiters
    <3>1. \A a \in Awaiters : p_pc'[a] = p_pc[a] /\ p_got'[a] = p_got[a]
      BY <1>1, <1>2, <1>9, <2>3 DEF Promise!get_result, Promise!GetNow, Promise!GetWait,
                                    Promise!GetWoken, Promise!Goto
    <3>2. QED
      BY <2>1, <3>1 DEF TaskAwaits
  <2>4. QED
    BY <2>2, <2>3
<1>10. ASSUME NEW t \in Getters \cup Awaiters, Promise!SpuriousWakeup(t)
       PROVE  TaskAwaits'
  BY <1>10 DEF Promise!SpuriousWakeup, TaskAwaits
<1>11. QED
  BY <1>3, <1>4, <1>5, <1>6, <1>7, <1>8, <1>9, <1>10
     DEF Promise!Next, Promise!Steps, Promise!Complete

(* await_resume never finds the promise empty: get_result reads the result *)
(* after its wait without another look, but an awaiting coroutine does not *)
(* wait there.  Only a getter can be misled by a spurious wake-up.         *)
THEOREM TaskAwaitersHaveResult ==
  Promise!Spec =>
    [](\A a \in Awaiters : p_got[a] # "nothing" /\ (p_pc[a] \in {"get", "nested"} => p_result))
<1>1. Promise!Init => TaskAwaits
  BY ThreadAssumption DEF Promise!Init, TaskAwaits, Promise!Threads, Promise!Callbacks
<1>2. TaskAwaits =>
        \A a \in Awaiters : p_got[a] # "nothing" /\ (p_pc[a] \in {"get", "nested"} => p_result)
  BY DEF TaskAwaits
<1>3. TaskInv /\ TaskAwaits /\ [Promise!Next]_(Promise!vars) => TaskAwaits'
  BY TaskAwaitsStep
<1>4. QED
  BY <1>1, <1>2, <1>3, TaskInvariance, PTL DEF Promise!Spec

(* The self-deadlock of task_inline is for good, and needs a NoopExecutor: *)
(* once a coroutine runs inside the callback that resumed it, no step      *)
(* gives completion_lock back or takes the coroutine out of get_result.    *)
THEOREM TaskInlineIsFinal ==
  Promise!Spec =>
    [][\A a \in Awaiters : p_pc[a] = "nested" =>
         InlineExecutor /\ p_pc'[a] = "nested" /\ p_holder' = Task]_(Promise!vars)
<1>1. Promise!Init => TaskAwaits
  BY ThreadAssumption DEF Promise!Init, TaskAwaits, Promise!Threads, Promise!Callbacks
<1>2. TaskInv /\ TaskAwaits /\ [Promise!Next]_(Promise!vars) => TaskAwaits'
  BY TaskAwaitsStep
<1>3. TaskInv /\ TaskAwaits /\ [Promise!Next]_(Promise!vars) =>
        [\A a \in Awaiters : p_pc[a] = "nested" =>
           InlineExecutor /\ p_pc'[a] = "nested" /\ p_holder' = Task]_(Promise!vars)
  <2>1. SUFFICES ASSUME TaskInv, TaskAwaits, Promise!Next, NEW a \in Awaiters,
                        p_pc[a] = "nested"
                 PROVE  InlineExecutor /\ p_pc'[a] = "nested" /\ p_holder' = Task
    OBVIOUS
  <2>2. /\ InlineExecutor /\ p_holder = Task /\ Promise!Nested /\ Nothing # Task
        /\ p_pc[Task] = "callbacks" /\ Task # a /\ a \notin Getters
    BY <2>1, MarkAssumption, ThreadAssumption
       DEF TaskAwaits, TaskInv, TaskShape, Promise!TypeOK, Promise!Nested
  <2>3. /\ a \notin p_callbacks
        /\ p_pc \in [Promise!Threads -> {"start", "callbacks", "registered", "run", "get",
                                         "nested", "wait", "done"}]
    BY <2>1 DEF TaskInv, TaskShape, Promise!TypeOK
  <2>4. ~Promise!return_value /\ ~Promise!ReturnUnlock
    BY <2>2 DEF Promise!return_value, Promise!ReturnUnlock
  <2>5. \A c \in Promise!Callbacks : ~Promise!NotifyCallback(c) /\ ~Promise!on_completed(c)
    BY <2>2 DEF Promise!NotifyCallback, Promise!on_completed
  <2>6. \A t \in Getters \cup Awaiters : ~Promise!get_result(t)
    BY <2>2 DEF Promise!get_result, Promise!GetNow, Promise!GetWait, Promise!GetWoken
  <2>7. ASSUME NEW c \in Promise!Callbacks, Promise!CallNow(c)
        PROVE  p_pc'[a] = "nested" /\ p_holder' = Task
    <3>1. c # a /\ UNCHANGED p_holder
      BY <2>1, <2>7 DEF Promise!CallNow
    <3>2. p_pc'[a] = p_pc[a]
      BY <2>3, <2>7, <3>1 DEF Promise!CallNow, Promise!RunCallback, Promise!Goto
    <3>3. QED
      BY <2>1, <2>2, <3>1, <3>2
  <2>8. ASSUME NEW t \in Getters \cup Awaiters, Promise!SpuriousWakeup(t)
        PROVE  p_pc'[a] = "nested" /\ p_holder' = Task
    BY <2>1, <2>2, <2>8 DEF Promise!SpuriousWakeup
  <2>9. QED
    BY <2>1, <2>2, <2>4, <2>5, <2>6, <2>7, <2>8 DEF Promise!Next, Promise!Steps, Promise!Complete
<1>4. QED
  BY <1>1, <1>2, <1>3, TaskInvariance, PTL DEF Promise!Spec

-----------------------------------------------------------------------------
(* Timer.  A function is queued, being run or has been run only if it was  *)
(* accepted; a worker in wait_for has copied a function, and finds the     *)
(* queue empty only after a shutdown.                                      *)
TimerShape ==
  /\ Timers!TypeOK
  /\ t_queue \subseteq t_accepted
  /\ t_worker \in {"wait_for", "run"} => t_executable \in t_accepted
  /\ t_worker = "wait_for" /\ t_queue = {} => t_is_active = FALSE
  /\ t_closer \in {"clear"} => t_is_active = FALSE

(* Each function once (TimerRunOnce).  What has been run or is being run   *)
(* is due, so a worker in wait_for, which found its function not due, has  *)
(* not run it before: a function can be run early only once.               *)
TimerOnce ==
  /\ TimerRunOnce
  /\ \A f \in Functions : f \notin t_accepted => t_executed[f] = 0 /\ f \notin t_early
  /\ \A f \in Functions : t_executed[f] > 0 \/ f \in t_early => t_scheduled[f] <= t_now
  /\ t_worker = "run" => t_scheduled[t_executable] <= t_now
  /\ t_worker = "wait_for" => t_executed[t_executable] = 0 /\ t_executable \notin t_early
TimerInv == TimerShape /\ TimerOnce /\ TimerNotLate

(* The invariant of the timer holds at the start.                          *)
LEMMA TimerInit ==
  ASSUME Timers!Init
  PROVE  TimerInv
<1>1. TimerShape
  <2>1. Timers!TypeOK
    <3>1. t_is_active \in BOOLEAN /\ t_signalled \in BOOLEAN
      BY DEF Timers!Init
    <3>2. QED
      BY <3>1, TimeAssumption DEF Timers!Init, Timers!TypeOK
  <2>2. QED
    BY <2>1 DEF Timers!Init, TimerShape
<1>2. TimerOnce
  BY DEF Timers!Init, TimerOnce, TimerRunOnce, Timers!RunOnce, Timers!Running
<1>3. TimerNotLate
  BY DEF Timers!Init, TimerNotLate, Timers!NotLate
<1>4. QED
  BY <1>1, <1>2, <1>3 DEF TimerInv

(* A step that leaves the queue and the worker's function alone.           *)
TimerQuiet ==
  /\ UNCHANGED <<t_queue, t_top, t_scheduled, t_executable, t_early, t_dropped,
                 t_accepted, t_executed>>
  /\ t_is_active' \in {t_is_active, FALSE}
  /\ t_now' \in 0 .. MaxTime /\ t_now <= t_now' /\ t_signalled' \in BOOLEAN /\ t_notify' \subseteq Functions
  /\ t_closer' \in {"none", "clear", "notify", "done"}
  /\ t_closer' = "clear" => t_is_active' = FALSE

(* Such a step keeps the invariant if it takes no notification away from a *)
(* worker that waits.                                                      *)
LEMMA TimerQuietStep ==
  ASSUME TimerInv, TimerQuiet,
         \/ t_worker' = t_worker /\ (t_signalled \/ t_notify # {} => t_signalled' \/ t_notify' # {})
         \/ t_worker' = t_worker /\ t_worker \notin {"wait", "wait_for"}
         \/ t_worker # "run" /\ t_worker' \in {"while", "lock", "exited"}
         \/ t_worker # "run" /\ t_worker' = "wait" /\ t_queue = {}
  PROVE  TimerInv'
<1> USE DEF TimerInv, TimerQuiet
<1>1. t_worker' \in {"while", "lock", "wait", "wait_for", "run", "exited"}
      /\ (t_worker' \in {"wait_for", "run"} => t_worker' = t_worker)
      /\ (t_worker = "run" => t_worker' = t_worker)
  BY DEF TimerShape, Timers!TypeOK
<1>2. Timers!TypeOK'
  <2>1. t_is_active' \in BOOLEAN
    BY DEF TimerShape, Timers!TypeOK
  <2>2. QED
    BY <1>1, <2>1 DEF TimerShape, Timers!TypeOK
<1>3. TimerShape'
  BY <1>1, <1>2 DEF TimerShape
<1>4. TimerOnce'
  <2>1. \A f \in Functions : t_scheduled[f] \in Nat
    BY DEF TimerShape, Timers!TypeOK
  <2>2. t_now \in Nat /\ t_now' \in Nat
    BY TimeAssumption DEF TimerShape, Timers!TypeOK
  <2>3. t_worker' = "run" => t_executable \in Functions
    BY <1>1 DEF TimerShape, Timers!TypeOK
  <2>4. \A f \in Functions : Timers!Running(f)' <=> Timers!Running(f)
    BY <1>1 DEF Timers!Running
  <2>5. TimerRunOnce'
    BY <2>4 DEF TimerOnce, TimerRunOnce, Timers!RunOnce
  <2>6. QED
    BY <1>1, <2>1, <2>2, <2>3, <2>5 DEF TimerOnce
<1>5. TimerNotLate'
  BY <1>1 DEF TimerNotLate, Timers!NotLate
<1>6. QED
  BY <1>3, <1>4, <1>5

(* execute() keeps it: whoever becomes the top is about to notify.         *)
LEMMA TimerExecute ==
  ASSUME TimerInv, NEW f \in Functions, Timers!execute(f)
  PROVE  TimerInv'
<1> USE DEF TimerInv
<1>1. PICK delay \in Delays : Timers!Push(f, delay)
  BY DEF Timers!execute
<1> DEFINE due == t_now + delay
<1>2. /\ due \in Nat /\ t_now' = t_now
      /\ t_queue' = t_queue \cup {f} /\ t_accepted' = t_accepted \cup {f}
      /\ t_scheduled' = [t_scheduled EXCEPT ![f] = due]
      /\ t_top' = IF t_top = Nothing \/ t_scheduled[t_top] > due THEN f ELSE t_top
      /\ f \notin t_accepted /\ f \notin t_queue /\ t_is_active = TRUE
  <2>1. f \notin t_accepted /\ f \notin t_queue /\ t_is_active = TRUE
    BY DEF Timers!execute, TimerShape, Timers!TypeOK
  <2>2. t_now \in Nat /\ delay \in Nat
    BY TimeAssumption DEF TimerShape, Timers!TypeOK
  <2>3. t_now' = t_now /\ t_accepted' = t_accepted \cup {f}
    BY DEF Timers!execute
  <2>4. QED
    BY <1>1, <2>1, <2>2, <2>3 DEF Timers!Push
<1>3. /\ t_notify' = IF t_top' = f THEN t_notify \cup {f} ELSE t_notify
      /\ UNCHANGED <<t_now, t_is_active, t_worker, t_executable, t_executed, t_signalled,
                     t_closer, t_early, t_dropped>>
  BY DEF Timers!execute, Timers!thread
<1> HIDE DEF due
<1>4. /\ t_top' \in t_queue'
      /\ \A g \in t_queue' : t_scheduled'[t_top'] <= t_scheduled'[g]
      /\ t_top' # f => t_top' = t_top /\ t_queue # {}
      /\ \A g \in t_accepted : t_scheduled'[g] = t_scheduled[g]
  <2>0. \A g \in Functions : t_scheduled[g] \in Nat
    BY DEF TimerShape, Timers!TypeOK
  <2>1. \A g \in t_accepted : t_scheduled'[g] = t_scheduled[g]
    BY <1>2 DEF TimerShape, Timers!TypeOK
  <2>2. t_scheduled'[f] = due
    BY <1>2 DEF TimerShape, Timers!TypeOK
  <2>3. CASE t_top = Nothing
    <3>1. t_queue = {}
      BY <2>3, MarkAssumption DEF TimerShape, Timers!TypeOK
    <3>2. QED
      BY <1>2, <2>1, <2>2, <2>3, <3>1
  <2>4. CASE t_top # Nothing
    <3>1. t_queue # {} /\ t_top \in t_queue /\ \A g \in t_queue : t_scheduled[t_top] <= t_scheduled[g]
      BY <2>4 DEF TimerShape, Timers!TypeOK
    <3>2. t_queue \subseteq Functions /\ t_queue \subseteq t_accepted
      BY DEF TimerShape, Timers!TypeOK
    <3>3. QED
      BY <1>2, <2>0, <2>1, <2>2, <2>4, <3>1, <3>2
  <2>5. QED
    BY <2>3, <2>4
<1>5. Timers!TypeOK'
  <2>1. t_is_active' \in BOOLEAN
    BY <1>3 DEF TimerShape, Timers!TypeOK
  <2>2. t_notify' \subseteq Functions /\ t_accepted' \subseteq Functions
    BY <1>2, <1>3 DEF TimerShape, Timers!TypeOK
  <2>3. QED
    BY <1>2, <1>3, <1>4, <2>1, <2>2 DEF TimerShape, Timers!TypeOK
<1>6. TimerShape'
  BY <1>2, <1>3, <1>5 DEF TimerShape
<1>7. TimerOnce'
  <2>1. t_executed[f] = 0 /\ f \notin t_early /\ ~Timers!Running(f)
    BY <1>2 DEF TimerOnce, TimerShape, Timers!Running
  <2>2. \A g \in Functions : Timers!Running(g)' <=> Timers!Running(g)
    BY <1>3 DEF Timers!Running
  <2>3. TimerRunOnce'
    BY <1>2, <1>3, <2>1, <2>2 DEF TimerOnce, TimerRunOnce, Timers!RunOnce
  <2>4. \A g \in Functions : t_executed[g] > 0 \/ g \in t_early => g \in t_accepted
    BY DEF TimerOnce
  <2>5. t_worker = "run" => t_executable \in t_accepted
    BY DEF TimerShape
  <2>6. QED
    BY <1>2, <1>3, <1>4, <2>1, <2>3, <2>4, <2>5 DEF TimerOnce
<1>8. TimerNotLate'
  <2>1. CASE t_top' = f
    BY <1>3, <2>1 DEF TimerNotLate, Timers!NotLate
  <2>2. CASE t_top' # f
    <3>1. t_top' = t_top /\ t_queue # {} /\ t_top \in t_accepted
      BY <1>4, <2>2 DEF TimerShape, Timers!TypeOK
    <3>2. t_worker = "wait_for" => t_scheduled'[t_executable] = t_scheduled[t_executable]
      BY <1>4 DEF TimerShape
    <3>3. QED
      BY <1>3, <1>4, <3>1, <3>2 DEF TimerNotLate, Timers!NotLate
  <2>3. QED
    BY <2>1, <2>2
<1>9. QED
  BY <1>6, <1>7, <1>8

(* The queue after a pop, with an earliest function on top.                *)
LEMMA TimerPop ==
  ASSUME TimerShape, Timers!Pop
  PROVE  /\ t_queue' = t_queue \ {t_top} /\ t_scheduled' = t_scheduled
         /\ IF t_queue' = {} THEN t_top' = Nothing
            ELSE /\ t_top' \in t_queue'
                 /\ \A f \in t_queue' : t_scheduled'[t_top'] <= t_scheduled'[f]
BY DEF Timers!Pop

(* The worker takes a function out of the queue and is about to run it:    *)
(* the top, or the one that was the top when its wait began.               *)
LEMMA TimerTake ==
  ASSUME TimerInv, Timers!Pop, t_worker # "run", t_worker' = "run",
         \/ /\ t_queue # {} /\ t_executable' = t_top /\ UNCHANGED <<t_early, t_dropped>>
            /\ t_scheduled[t_top] <= t_now
         \/ /\ t_worker = "wait_for" /\ t_executable' = t_executable
            /\ t_scheduled[t_executable] <= t_now
            /\ t_early' = IF t_top = t_executable THEN t_early ELSE t_early \cup {t_executable}
            /\ t_dropped' = t_dropped \cup (t_queue \ (t_queue' \cup {t_executable})),
         UNCHANGED <<t_now, t_is_active, t_notify, t_closer, t_accepted,
                     t_executed, t_signalled>>
  PROVE  TimerInv'
<1> USE DEF TimerInv
<1>1. /\ t_queue' = t_queue \ {t_top} /\ t_scheduled' = t_scheduled
      /\ IF t_queue' = {} THEN t_top' = Nothing
         ELSE /\ t_top' \in t_queue'
              /\ \A f \in t_queue' : t_scheduled'[t_top'] <= t_scheduled'[f]
  BY TimerPop
<1>2. t_executable' \in t_accepted /\ t_executable' \in Functions
  BY DEF TimerShape, Timers!TypeOK
<1>3. Timers!TypeOK'
  <2>1. t_early' \subseteq Functions /\ t_dropped' \subseteq Functions
    BY <1>2 DEF TimerShape, Timers!TypeOK
  <2>2. QED
    BY <1>1, <1>2, <2>1 DEF TimerShape, Timers!TypeOK
<1>4. TimerShape'
  BY <1>1, <1>2, <1>3 DEF TimerShape
<1>5. TimerOnce'
  <2>1. PICK e \in Functions : e = t_executable'
    BY <1>2
  <2>2. /\ \A f \in Functions : ~Timers!Running(f) /\ (Timers!Running(f)' <=> f = e)
        /\ \A f \in Functions : t_executed[f] \in Nat
        /\ e \in t_accepted /\ t_scheduled[e] <= t_now
    BY <1>2, <2>1 DEF Timers!Running, TimerShape, Timers!TypeOK
  <2>3. ASSUME NEW f \in Functions
        PROVE  /\ t_executed[f] + (IF f \in t_queue THEN 1 ELSE 0) <= (IF f \in t_early THEN 2 ELSE 1)
               /\ f \in t_accepted => f \in t_queue \/ t_executed[f] > 0 \/ f \in t_dropped
    BY <2>2 DEF TimerOnce, TimerRunOnce, Timers!RunOnce, TimerShape
  <2>4. CASE t_queue # {} /\ e = t_top /\ UNCHANGED <<t_early, t_dropped>>
    <3>1. t_top \in t_queue
      BY <2>4 DEF TimerShape, Timers!TypeOK
    <3>2. TimerRunOnce'
      BY <1>1, <2>2, <2>3, <2>4, <3>1 DEF TimerRunOnce, Timers!RunOnce
    <3>3. QED
      BY <1>1, <2>1, <2>2, <2>4, <3>2 DEF TimerOnce
  <2>5. CASE /\ t_worker = "wait_for" /\ e = t_executable
             /\ t_early' = IF t_top = e THEN t_early ELSE t_early \cup {e}
             /\ t_dropped' = t_dropped \cup (t_queue \ (t_queue' \cup {e}))
    <3>1. t_executed[e] = 0 /\ e \notin t_early
      BY <2>5 DEF TimerOnce
    <3>2. ASSUME NEW f \in Functions
          PROVE  t_executed[f] + (IF f \in t_queue' THEN 1 ELSE 0) + (IF f = e THEN 1 ELSE 0)
                   <= (IF f \in t_early' THEN 2 ELSE 1)
      BY <1>1, <2>2, <2>3, <2>5, <3>1
    <3>3. ASSUME NEW f \in Functions, f \in t_accepted
          PROVE  f \in t_queue' \/ f = e \/ t_executed[f] > 0 \/ f \in t_dropped'
      BY <2>3, <2>5, <3>3
    <3>4. TimerRunOnce'
      BY <2>2, <3>2, <3>3 DEF TimerRunOnce, Timers!RunOnce
    <3>5. QED
      BY <1>1, <2>1, <2>2, <2>5, <3>4 DEF TimerOnce
  <2>6. QED
    BY <2>1, <2>4, <2>5
<1>6. TimerNotLate'
  BY DEF TimerNotLate, Timers!NotLate
<1>7. QED
  BY <1>4, <1>5, <1>6

(* Looking at a top that is not yet due, the worker begins to wait for it. *)
LEMMA TimerLook ==
  ASSUME TimerInv, t_queue # {}, t_worker # "run", Timers!Look,
         UNCHANGED <<t_now, t_is_active, t_notify, t_closer, t_accepted, t_executed,
                     t_early, t_dropped>>
  PROVE  TimerInv'
<1> USE DEF TimerInv
<1>1. CASE /\ Timers!Pop /\ t_worker' = "run" /\ UNCHANGED t_signalled
           /\ t_scheduled[t_top] <= t_now
  BY <1>1, TimerTake DEF Timers!Look
<1>2. CASE /\ t_worker' = "wait_for" /\ t_signalled' = FALSE
           /\ UNCHANGED Timers!queue /\ t_scheduled[t_top] > t_now
  <2>0. UNCHANGED <<t_queue, t_top, t_scheduled>> /\ t_executable' = t_top
    BY <1>2 DEF Timers!queue, Timers!Look
  <2>1. t_top \in t_queue /\ t_top \in Functions /\ t_top \in t_accepted
    BY DEF TimerShape, Timers!TypeOK
  <2>2. Timers!TypeOK'
    BY <1>2, <2>0, <2>1 DEF TimerShape, Timers!TypeOK
  <2>3. TimerShape'
    BY <1>2, <2>0, <2>1, <2>2 DEF TimerShape
  <2>4. TimerOnce'
    <3>1. \A f \in Functions : ~Timers!Running(f) /\ ~Timers!Running(f)'
      BY <1>2 DEF Timers!Running
    <3>2. TimerRunOnce'
      BY <2>0, <3>1 DEF TimerOnce, TimerRunOnce, Timers!RunOnce
    <3>3. t_scheduled[t_top] \in Nat /\ t_now \in Nat /\ t_executed[t_top] \in Nat
      BY <2>1, TimeAssumption DEF TimerShape, Timers!TypeOK
    <3>4. t_executed[t_top] = 0 /\ t_top \notin t_early
      BY <1>2, <2>1, <3>3 DEF TimerOnce
    <3>5. QED
      BY <1>2, <2>0, <3>2, <3>4 DEF TimerOnce
  <2>5. TimerNotLate'
    BY <1>2, <2>0 DEF TimerNotLate, Timers!NotLate
  <2>6. QED
    BY <2>3, <2>4, <2>5
<1>3. QED
  BY <1>1, <1>2 DEF Timers!Look

(* Every step of the timer keeps the invariant.                            *)
LEMMA TimerStep ==
  ASSUME TimerInv, [Timers!Next]_(Timers!vars)
  PROVE  TimerInv'
<1>0. /\ t_now \in 0 .. MaxTime /\ t_now \in Nat /\ t_signalled \in BOOLEAN
      /\ t_notify \subseteq Functions /\ t_is_active \in BOOLEAN
      /\ t_closer \in {"none", "clear", "notify", "done"}
      /\ t_closer = "clear" => t_is_active = FALSE
  BY TimeAssumption DEF TimerInv, TimerShape, Timers!TypeOK
<1>1. CASE UNCHANGED Timers!vars
  <2>1. TimerQuiet /\ UNCHANGED <<t_worker, t_signalled, t_notify>>
    BY <1>0, <1>1 DEF Timers!vars, TimerQuiet
  <2>2. QED
    BY <2>1, TimerQuietStep
<1>2. CASE Timers!Tick
  <2>1. t_now' \in 0 .. MaxTime
    BY <1>0, <1>2, TimeAssumption DEF Timers!Tick
  <2>2. TimerQuiet /\ UNCHANGED <<t_worker, t_signalled, t_notify>>
    BY <1>0, <1>2, <2>1 DEF Timers!Tick, TimerQuiet, Timers!queue, Timers!history, Timers!thread
  <2>3. QED
    BY <2>2, TimerQuietStep
<1>3. ASSUME NEW f \in Functions, Timers!execute(f)
      PROVE  TimerInv'
  BY <1>3, TimerExecute
<1>4. ASSUME NEW f \in Functions, Timers!Notify(f)
      PROVE  TimerInv'
  <2>1. t_signalled' \in BOOLEAN /\ (t_worker \in {"wait", "wait_for"} => t_signalled')
    <3>1. t_signalled' = (t_worker \in {"wait", "wait_for"})
      BY <1>4 DEF Timers!Notify
    <3>2. t_worker \in {"wait", "wait_for"} => t_signalled'
      BY <3>1, Zenon
    <3>3. (t_worker \in {"wait", "wait_for"}) \in BOOLEAN
      OBVIOUS
    <3>4. t_signalled' \in BOOLEAN
      BY <3>1, <3>3, Zenon
    <3>5. QED
      BY <3>2, <3>4
  <2>2. TimerQuiet /\ UNCHANGED t_worker
    BY <1>0, <1>4, <2>1 DEF Timers!Notify, TimerQuiet, Timers!queue, Timers!history, Timers!thread
  <2>3. QED
    BY <2>1, <2>2, TimerQuietStep
<1>5. ASSUME NEW w \in BOOLEAN, Timers!ShutdownStore(w)
      PROVE  TimerInv'
  <2>1. TimerQuiet /\ UNCHANGED <<t_worker, t_signalled, t_notify>>
    <3>1. /\ t_is_active' = FALSE /\ t_closer' \in {"notify", "clear"}
          /\ UNCHANGED <<t_now, t_queue, t_top, t_scheduled, t_notify, t_worker, t_executable,
                         t_executed, t_early, t_signalled, t_accepted, t_dropped>>
      BY <1>5 DEF Timers!ShutdownStore, Timers!queue, Timers!thread
    <3>2. t_now <= t_now'
      BY <1>0, <3>1
    <3>3. /\ t_is_active' \in {t_is_active, FALSE} /\ t_signalled' \in BOOLEAN
          /\ t_closer' = "clear" => t_is_active' = FALSE
      BY <1>0, <3>1
    <3>4. QED
      BY <1>0, <3>1, <3>2, <3>3 DEF TimerQuiet
  <2>2. QED
    BY <2>1, TimerQuietStep
<1>6. CASE Timers!ShutdownClear
  <2>1. /\ t_queue' = {} /\ t_top' = Nothing /\ t_is_active = FALSE /\ t_closer' = "notify"
        /\ UNCHANGED <<t_now, t_is_active, t_scheduled, t_notify, t_worker, t_executable,
                       t_executed, t_signalled, t_accepted, t_early>>
        /\ t_dropped' = t_dropped \cup t_queue
    BY <1>0, <1>6 DEF Timers!ShutdownClear, Timers!thread
  <2>2. Timers!TypeOK'
    BY <2>1 DEF TimerInv, TimerShape, Timers!TypeOK
  <2>3. TimerShape'
    BY <2>1, <2>2 DEF TimerInv, TimerShape
  <2>4. TimerOnce'
    <3>1. \A f \in Functions : Timers!Running(f)' <=> Timers!Running(f)
      BY <2>1 DEF Timers!Running
    <3>2. \A f \in Functions : t_executed[f] \in Nat
      BY DEF TimerInv, TimerShape, Timers!TypeOK
    <3>3. TimerRunOnce'
      BY <2>1, <3>1, <3>2 DEF TimerInv, TimerOnce, TimerRunOnce, Timers!RunOnce
    <3>4. QED
      BY <2>1, <3>3 DEF TimerInv, TimerOnce
  <2>5. TimerNotLate'
    BY <2>1 DEF TimerNotLate, Timers!NotLate
  <2>6. QED
    BY <2>3, <2>4, <2>5 DEF TimerInv
<1>7. CASE Timers!ShutdownNotify
  <2>1. t_signalled' \in BOOLEAN /\ (t_worker \in {"wait", "wait_for"} => t_signalled')
    <3>1. t_signalled' = (t_worker \in {"wait", "wait_for"})
      BY <1>7 DEF Timers!ShutdownNotify
    <3>2. t_worker \in {"wait", "wait_for"} => t_signalled'
      BY <3>1, Zenon
    <3>3. (t_worker \in {"wait", "wait_for"}) \in BOOLEAN
      OBVIOUS
    <3>4. t_signalled' \in BOOLEAN
      BY <3>1, <3>3, Zenon
    <3>5. QED
      BY <3>2, <3>4
  <2>2. TimerQuiet /\ UNCHANGED t_worker
    BY <1>0, <1>7, <2>1
       DEF Timers!ShutdownNotify, TimerQuiet, Timers!queue, Timers!history, Timers!thread
  <2>3. QED
    BY <2>1, <2>2, TimerQuietStep
<1>8. CASE Timers!LoopTest
  <2>1. TimerQuiet /\ t_worker = "while" /\ t_worker' \in {"lock", "exited"}
    BY <1>0, <1>8 DEF Timers!LoopTest, TimerQuiet, Timers!queue, Timers!history
  <2>2. QED
    BY <2>1, TimerQuietStep
<1>9. CASE Timers!LoopLock
  <2>1. CASE t_queue # {} /\ Timers!Look
    BY <1>9, <2>1, TimerLook DEF Timers!LoopLock, Timers!history
  <2>2. CASE t_queue = {} /\ t_worker' = "wait" /\ t_signalled' = FALSE
             /\ UNCHANGED <<Timers!queue, t_executable>>
    <3>1. TimerQuiet /\ t_worker = "lock"
      <4>1. /\ t_worker = "lock"
            /\ UNCHANGED <<t_now, t_is_active, t_queue, t_top, t_scheduled, t_executable,
                           t_notify, t_closer, t_executed, t_accepted, t_early, t_dropped>>
        BY <1>9, <2>2 DEF Timers!LoopLock, Timers!queue, Timers!history
      <4>2. t_now <= t_now'
        BY <1>0, <4>1
      <4>3. /\ t_is_active' \in {t_is_active, FALSE} /\ t_signalled' \in BOOLEAN
            /\ t_closer' = "clear" => t_is_active' = FALSE
        BY <1>0, <2>2, <4>1
      <4>4. QED
        BY <1>0, <2>2, <4>1, <4>2, <4>3 DEF TimerQuiet
    <3>2. QED
      BY <2>2, <3>1, TimerQuietStep
  <2>3. QED
    BY <1>9, <2>1, <2>2 DEF Timers!LoopLock
<1>10. CASE Timers!LoopWoken
  <2>1. CASE t_queue # {} /\ Timers!Look
    BY <1>10, <2>1, TimerLook DEF Timers!LoopWoken, Timers!history
  <2>2. CASE t_queue = {} /\ t_worker' = "while"
             /\ UNCHANGED <<Timers!queue, t_executable, t_signalled>>
    <3>1. TimerQuiet /\ t_worker = "wait"
      BY <1>0, <1>10, <2>2 DEF Timers!LoopWoken, TimerQuiet, Timers!queue, Timers!history
    <3>2. QED
      BY <2>2, <3>1, TimerQuietStep
  <2>3. QED
    BY <1>10, <2>1, <2>2 DEF Timers!LoopWoken
<1>11. CASE Timers!WaitForNotified
  <2>1. TimerQuiet /\ t_worker = "wait_for" /\ t_worker' = "while"
    BY <1>0, <1>11 DEF Timers!WaitForNotified, TimerQuiet, Timers!queue, Timers!history
  <2>2. QED
    BY <2>1, TimerQuietStep
<1>12. CASE Timers!WaitForTimeout
  BY <1>12, TimerTake DEF Timers!WaitForTimeout
<1>13. CASE Timers!LoopRun
  <2>1. /\ t_worker = "run" /\ t_executed' = [t_executed EXCEPT ![t_executable] = @ + 1]
        /\ t_executable' = Nothing /\ t_worker' = "while"
        /\ UNCHANGED <<t_now, t_is_active, t_queue, t_top, t_scheduled, t_notify,
                       t_signalled, t_closer, t_accepted, t_early, t_dropped>>
    BY <1>13 DEF Timers!LoopRun, Timers!queue, Timers!history
  <2>2. t_executable \in t_accepted /\ t_executable \in Functions
    BY <2>1 DEF TimerInv, TimerShape, Timers!TypeOK
  <2>3. Timers!TypeOK'
    BY <2>1, <2>2 DEF TimerInv, TimerShape, Timers!TypeOK
  <2>4. TimerShape'
    BY <2>1, <2>3 DEF TimerInv, TimerShape
  <2>5. TimerOnce'
    <3>1. PICK e \in Functions : e = t_executable
      BY <2>2
    <3>2. \A f \in Functions : /\ t_executed'[f] = IF f = e THEN t_executed[f] + 1 ELSE t_executed[f]
                             /\ t_executed[f] \in Nat
      BY <2>1, <2>2, <3>1 DEF TimerInv, TimerShape, Timers!TypeOK
    <3>3. \A f \in Functions : (Timers!Running(f) <=> f = e) /\ ~Timers!Running(f)'
      BY <2>1, <3>1 DEF Timers!Running
    <3>4. TimerRunOnce'
      BY <2>1, <3>2, <3>3 DEF TimerInv, TimerOnce, TimerRunOnce, Timers!RunOnce
    <3>5. QED
      BY <2>1, <2>2, <3>1, <3>2, <3>4 DEF TimerInv, TimerOnce
  <2>6. TimerNotLate'
    BY <2>1 DEF TimerNotLate, Timers!NotLate
  <2>7. QED
    BY <2>4, <2>5, <2>6 DEF TimerInv
<1>14. QED
  BY <1>1, <1>2, <1>3, <1>4, <1>5, <1>6, <1>7, <1>8, <1>9, <1>10, <1>11, <1>12, <1>13
     DEF Timers!Next, Timers!Shutdown

(* The invariant of the Timer, for any functions and delays.               *)
THEOREM TimerInvariance == Timers!Spec => []TimerInv
<1>1. Timers!Init => TimerInv
  BY TimerInit
<1>2. TimerInv /\ [Timers!Next]_(Timers!vars) => TimerInv'
  BY TimerStep
<1>3. QED
  BY <1>1, <1>2, PTL DEF Timers!Spec

(* A worker that sleeps on an empty queue or for a later function has a    *)
(* notification on its way when an earlier one is queued: comparing f with *)
(* the new top in execute() notifies often enough.                         *)
THEOREM TimerSleepsNoLonger == Timers!Spec => []TimerNotLate
<1>1. TimerInv => TimerNotLate
  BY DEF TimerInv
<1>2. QED
  BY <1>1, TimerInvariance, PTL

(* The Timer runs each function once, but for the two functions that a     *)
(* timeout mixes up and for what shutdown(false) clears.                   *)
THEOREM TimerRunsOnce == Timers!Spec => []TimerRunOnce
<1>1. TimerInv => TimerRunOnce
  BY DEF TimerInv, TimerOnce
<1>2. QED
  BY <1>1, TimerInvariance, PTL

-----------------------------------------------------------------------------
(* The pipeline of generators.                                             *)

(* What level l has yielded: what its next has returned, and the value     *)
(* that is ready.                                                          *)
GenYielded(l) == IF g_is_ready[l] THEN Append(g_got[l], g_value[l]) ELSE g_got[l]

(* The body of level l has called has_next of the level below.             *)
GenWaiting(l) == g_dir \in {"down", "up"} /\ g_lev < l

(* Types of the variables; a value is there when one is ready.             *)
GenShape ==
  /\ g_input \in Inputs /\ g_stages \in Pipelines
  /\ g_done \in [0..Len(g_stages) -> BOOLEAN] /\ g_is_ready \in [0..Len(g_stages) -> BOOLEAN]
  /\ g_value = [l \in 0..Len(g_stages) |-> g_value[l]]
  /\ g_i \in [0..Len(g_stages) -> Nat] /\ g_inner \in [0..Len(g_stages) -> Seq(Values)]
  /\ g_got \in [0..Len(g_stages) -> Seq(Values)]
  /\ g_dir \in {"idle", "down", "up", "destroyed"} /\ g_lev \in 0..Len(g_stages)
  /\ g_answer \in BOOLEAN
  /\ \A l \in 0..Len(g_stages) : g_is_ready[l] => g_value[l] \in Values

(* A level that waits has nothing of its own to give; one that has come to *)
(* its end has nothing left; flat_map alone expands; an answer is about    *)
(* the level it comes from.                                                *)
GenCalls ==
  /\ \A l \in 0..Len(g_stages) :
       (GenWaiting(l) => ~g_done[l]) /\ (GenWaiting(l) \/ g_done[l] => ~g_is_ready[l] /\ g_inner[l] = <<>>)
  /\ \A l \in 0..Len(g_stages) : g_inner[l] # <<>> => l # 0 /\ g_stages[l][1] = "flat_map"
  /\ g_dir = "up" => IF g_answer THEN g_is_ready[g_lev] ELSE g_done[g_lev]

(* What a level has yielded and holds is what it makes of what it has got. *)
GenFlow ==
  /\ g_i[0] <= Len(g_input) /\ GenYielded(0) = SubSeq(g_input, 1, g_i[0])
  /\ \A l \in 1..Len(g_stages) :
       GenYielded(l) \o g_inner[l] = Pipeline!Stage(g_stages[l], g_got[l - 1])

(* A level comes to its end when it has had enough, or there is no more.   *)
GenEnds ==
  /\ g_done[0] => g_i[0] = Len(g_input)
  /\ \A l \in 1..Len(g_stages) :
       g_done[l] => Pipeline!Closed(g_stages[l], g_got[l - 1]) \/ g_done[l - 1]

(* take has counted what it has got, and what it waits for; take_while has *)
(* got nothing that ends it.                                               *)
GenCounts ==
  \A l \in 1..Len(g_stages) : ~g_done[l] =>
    /\ g_stages[l][1] = "take" =>
         /\ g_i[l] = Len(g_got[l - 1]) + IF GenWaiting(l) THEN 1 ELSE 0
         /\ GenWaiting(l) => g_i[l] <= g_stages[l][2]
    /\ g_stages[l][1] = "take_while" =>
         \A j \in 1..Len(g_got[l - 1]) : g_stages[l][2][g_got[l - 1][j]]

(* What the levels were to yield of what the source had yielded before it  *)
(* was resumed last.                                                       *)
GenBefore == Pipeline!Levels(g_stages, SubSeq(g_input, 1, g_i[0] - 1))

(* Since then each level has yielded more, is still at it, or has ended.   *)
GenDemand ==
  g_i[0] > 0 =>
    /\ \A l \in 1..Len(g_stages) : ~Pipeline!Closed(g_stages[l], GenBefore[l - 1])
    /\ \A l \in 0..Len(g_stages) :
         /\ Len(GenBefore[l]) <= Len(GenYielded(l))
         /\ \/ Len(GenBefore[l]) < Len(GenYielded(l))
            \/ GenWaiting(l) \/ Pipeline!Resumed(l) \/ g_done[l]

GenInv == GenShape /\ GenCalls /\ GenFlow /\ GenEnds /\ GenCounts /\ GenDemand

-----------------------------------------------------------------------------
(* A set of natural numbers that is not empty has a least element.         *)
LEMMA LeastElement ==
  ASSUME NEW S \in SUBSET Nat, S # {}
  PROVE  \E n \in S : \A m \in S : n <= m
<1> DEFINE Below(n) == {m \in S : m < n}
           Initials == {Below(n) : n \in S}
           R == StrictSubsetOrdering(S)
<1>1. \A m \in S : m \in Nat
  OBVIOUS
<1>2. Initials \subseteq FiniteSubsetsOf(S)
  <2>1. SUFFICES ASSUME NEW n \in S PROVE IsFiniteSet(Below(n))
    BY DEF FiniteSubsetsOf
  <2>2. Below(n) \in SUBSET Nat /\ n \in Nat
    OBVIOUS
  <2>3. \A m \in Below(n) : m <= n
    BY <1>1
  <2>4. QED
    BY ONLY <2>2, <2>3, FS_BoundedSetOfNaturals
<1>3. PICK B \in Initials : \A A \in Initials : <<A, B>> \notin R
  <2>1. IsWellFoundedOn(R, FiniteSubsetsOf(S))
    BY FS_StrictSubsetOrderingWellFounded
  <2>2. Initials # {}
    OBVIOUS
  <2> HIDE DEF Initials, R
  <2>3. QED
    BY <1>2, <2>1, <2>2, WFMin
<1>4. PICK n \in S : B = Below(n)
  OBVIOUS
<1>5. ASSUME NEW y \in S, y < n
      PROVE  FALSE
  <2>1. Below(y) \in Initials /\ Below(n) \in Initials
    OBVIOUS
  <2>2. y \in Below(n) /\ y \notin Below(y)
    BY <1>1, <1>5
  <2>3. \A m \in S : m < y => m < n
    BY <1>1, <1>5
  <2>4. Below(y) \subseteq Below(n)
    BY <2>3
  <2>5. <<Below(y), Below(n)>> \in R
    BY <2>2, <2>4 DEF StrictSubsetOrdering
  <2>6. QED
    BY <1>3, <1>4, <2>1, <2>5
<1>6. QED
  BY <1>1, <1>5

(* Induction up to N: a set with 0, and with each n after n - 1, is 0..N.  *)
LEMMA SetInduction ==
  ASSUME NEW N \in Nat, NEW S \in SUBSET (0..N), 0 \in S,
         \A n \in 1..N : n - 1 \in S => n \in S
  PROVE  S = 0..N
<1> DEFINE T == (0..N) \ S
<1>1. SUFFICES ASSUME T # {} PROVE FALSE
  OBVIOUS
<1>2. T \in SUBSET Nat
  OBVIOUS
<1>3. PICK n \in T : \A m \in T : n <= m
  BY <1>1, <1>2, LeastElement
<1>4. n \in 1..N /\ n - 1 \in 0..N /\ ~(n <= n - 1)
  BY <1>3
<1>5. n - 1 \in S
  BY <1>3, <1>4
<1>6. QED
  BY <1>3, <1>4, <1>5

(* g starts with a, and takes step n from n - 1 to n.                      *)
Stepwise(g, N, V, a, step) ==
  g \in [0..N -> V] /\ g[0] = a /\ \A n \in 1..N : g[n] = step[n][g[n - 1]]

(* There is such a function: what stands behind a recursive definition.    *)
LEMMA StepwiseFunction ==
  ASSUME NEW N \in Nat, NEW V, NEW a \in V, NEW step \in [1..N -> [V -> V]]
  PROVE  \E g : Stepwise(g, N, V, a, step)
<1> DEFINE S == {k \in 0..N : \E g \in [0..k -> V] :
                   g[0] = a /\ \A n \in 1..k : g[n] = step[n][g[n - 1]]}
<1>1. 0 \in S
  <2>1. [k \in 0..0 |-> a] \in [0..0 -> V] /\ 0 \in 0..0 /\ 0 \in 0..N /\ 1..0 = {}
    OBVIOUS
  <2>2. QED
    BY <2>1
<1>2. ASSUME NEW k \in 1..N, k - 1 \in S
      PROVE  k \in S
  <2>1. PICK g \in [0..(k - 1) -> V] :
          g[0] = a /\ \A n \in 1..(k - 1) : g[n] = step[n][g[n - 1]]
    BY <1>2
  <2> DEFINE h == [n \in 0..k |-> IF n = k THEN step[k][g[k - 1]] ELSE g[n]]
  <2>2. k - 1 \in 0..(k - 1) /\ k \in 0..N /\ 0 \in 0..k /\ 0 # k
    OBVIOUS
  <2>3. step[k][g[k - 1]] \in V
    BY <2>2
  <2>4. \A n \in 0..k : n # k => n \in 0..(k - 1)
    OBVIOUS
  <2>5. h \in [0..k -> V]
    BY <2>3, <2>4
  <2>6. h[0] = a
    BY <2>1, <2>2
  <2>7. ASSUME NEW n \in 1..k
        PROVE  h[n] = step[n][h[n - 1]]
    <3>1. n \in 0..k /\ n - 1 \in 0..k /\ n - 1 # k
      OBVIOUS
    <3>2. h[n - 1] = g[n - 1]
      BY <3>1
    <3>3. CASE n = k
      BY <3>1, <3>2, <3>3
    <3>4. CASE n # k
      <4>1. n \in 1..(k - 1)
        BY <3>4
      <4>2. QED
        BY <2>1, <3>1, <3>2, <3>4, <4>1
    <3>5. QED
      BY <3>3, <3>4
  <2>8. QED
    BY <2>2, <2>5, <2>6, <2>7
<1>3. S = 0..N
  <2>1. S \in SUBSET (0..N)
    OBVIOUS
  <2> HIDE DEF S
  <2>2. QED
    BY <1>1, <1>2, <2>1, SetInduction
<1>4. N \in S
  BY <1>3
<1>5. QED
  BY <1>4 DEF Stepwise

(* The five kinds of stages.                                               *)
LEMMA StageCases ==
  ASSUME NEW k \in StageKinds
  PROVE  \/ k[1] = "map" /\ k[2] \in [Values -> Values]
         \/ k[1] = "flat_map" /\ k[2] \in [Values -> Seq(Values)]
         \/ k[1] = "filter" /\ k[2] \in [Values -> BOOLEAN]
         \/ k[1] = "take_while" /\ k[2] \in [Values -> BOOLEAN]
         \/ k[1] = "take" /\ k[2] \in Int
  BY DEF StageKinds

(* A value adds a sequence of values to the yield of a stage.              *)
LEMMA ContributionType ==
  ASSUME NEW k \in StageKinds, NEW s \in Seq(Values), NEW n \in 1..Len(s)
  PROVE  Pipeline!Contribution(k, s, n) \in Seq(Values)
<1>1. s[n] \in Values
  BY ElementOfSeq
<1>2. CASE k[1] = "map" /\ k[2] \in [Values -> Values]
  BY <1>1, <1>2 DEF Pipeline!Contribution
<1>3. CASE k[1] = "flat_map" /\ k[2] \in [Values -> Seq(Values)]
  BY <1>1, <1>3 DEF Pipeline!Contribution
<1>4. CASE k[1] = "filter" /\ k[2] \in [Values -> BOOLEAN]
  BY <1>1, <1>4 DEF Pipeline!Contribution
<1>5. CASE k[1] = "take_while" /\ k[2] \in [Values -> BOOLEAN]
  BY <1>1, <1>5 DEF Pipeline!Contribution
<1>6. CASE k[1] = "take" /\ k[2] \in Int
  BY <1>1, <1>6 DEF Pipeline!Contribution
<1>7. QED
  BY <1>2, <1>3, <1>4, <1>5, <1>6, StageCases

(* The recursive definition of Yields has a solution.                      *)
LEMMA YieldsUnfold ==
  ASSUME NEW k \in StageKinds, NEW s \in Seq(Values)
  PROVE  /\ Pipeline!Yields(k, s) \in [0..Len(s) -> Seq(Values)]
         /\ Pipeline!Yields(k, s)[0] = <<>>
         /\ \A n \in 1..Len(s) : Pipeline!Yields(k, s)[n] =
              Pipeline!Yields(k, s)[n - 1] \o Pipeline!Contribution(k, s, n)
<1> DEFINE step == [n \in 1..Len(s) |-> [q \in Seq(Values) |-> q \o Pipeline!Contribution(k, s, n)]]
           Solves(g) == g = [n \in 0..Len(s) |-> IF n = 0 THEN <<>>
                              ELSE g[n - 1] \o Pipeline!Contribution(k, s, n)]
<1>1. Len(s) \in Nat /\ <<>> \in Seq(Values)
  BY EmptySeq
<1>2. step \in [1..Len(s) -> [Seq(Values) -> Seq(Values)]]
  BY ContributionType, ConcatProperties
<1>3. PICK g \in [0..Len(s) -> Seq(Values)] :
        g[0] = <<>> /\ \A n \in 1..Len(s) : g[n] = step[n][g[n - 1]]
  <2> HIDE DEF step
  <2>1. \E g : Stepwise(g, Len(s), Seq(Values), <<>>, step)
    BY <1>1, <1>2, StepwiseFunction
  <2>2. QED
    BY ONLY <2>1 DEF Stepwise
<1>4. ASSUME NEW n \in 1..Len(s)
      PROVE  n \in 0..Len(s) /\ n # 0 /\ n - 1 \in 0..Len(s)
  BY <1>1
<1>5. \A n \in 1..Len(s) : g[n] = g[n - 1] \o Pipeline!Contribution(k, s, n)
  BY <1>3, <1>4
<1>6. \A n \in 0..Len(s) : n = 0 \/ n \in 1..Len(s)
  BY <1>1
<1>7. Solves(g)
  BY <1>3, <1>5, <1>6
<1>8. Solves(Pipeline!Yields(k, s))
  <2>1. Pipeline!Yields(k, s) = CHOOSE h : Solves(h)
    BY DEF Pipeline!Yields
  <2> HIDE DEF Solves
  <2>2. QED
    BY <1>7, <2>1
<1>9. Pipeline!Yields(k, s)[0] = <<>>
  BY <1>1, <1>8
<1>10. \A n \in 1..Len(s) : Pipeline!Yields(k, s)[n] =
              Pipeline!Yields(k, s)[n - 1] \o Pipeline!Contribution(k, s, n)
  BY <1>1, <1>4, <1>8
<1>11. Pipeline!Yields(k, s) \in [0..Len(s) -> Seq(Values)]
  <2> DEFINE y == Pipeline!Yields(k, s)
             T == {n \in 0..Len(s) : y[n] \in Seq(Values)}
  <2> HIDE DEF y
  <2>1. 0 \in T /\ T \in SUBSET (0..Len(s))
    <3>1. y[0] = <<>> /\ 0 \in 0..Len(s)
      BY <1>1, <1>9 DEF y
    <3>2. QED
      BY <1>1, <3>1
  <2>2. ASSUME NEW n \in 1..Len(s), n - 1 \in T
        PROVE  n \in T
    <3>1. y[n] = y[n - 1] \o Pipeline!Contribution(k, s, n)
      BY <1>10 DEF y
    <3>2. y[n - 1] \in Seq(Values)
      BY <2>2
    <3>3. y[n] \in Seq(Values)
      BY <3>1, <3>2, ContributionType, ConcatProperties
    <3>4. QED
      BY <1>4, <3>3
  <2>3. T = 0..Len(s)
    <3> HIDE DEF T
    <3>1. QED
      BY <1>1, <2>1, <2>2, SetInduction
  <2>4. \A n \in 0..Len(s) : y[n] \in Seq(Values)
    BY <2>3
  <2>5. y = [n \in 0..Len(s) |-> y[n]]
    BY <1>8 DEF y
  <2>6. QED
    BY <2>4, <2>5 DEF y
<1>12. QED
  BY <1>9, <1>10, <1>11

(* What a value adds depends on what comes before it only.                 *)
LEMMA ContributionLocal ==
  ASSUME NEW k \in StageKinds, NEW s \in Seq(Values), NEW t \in Seq(Values),
         Pipeline!Begins(s, t), NEW n \in 1..Len(s)
  PROVE  Pipeline!Contribution(k, t, n) = Pipeline!Contribution(k, s, n)
<1>1. Len(s) \in Nat /\ \A j \in 1..n : j \in 1..Len(s)
  OBVIOUS
<1>2. t[n] = s[n] /\ \A j \in 1..n : t[j] = s[j]
  BY <1>1 DEF Pipeline!Begins
<1>3. (\A j \in 1..n : k[2][t[j]]) <=> (\A j \in 1..n : k[2][s[j]])
  BY <1>2
<1>4. QED
  BY <1>2, <1>3 DEF Pipeline!Contribution

(* Where one sequence begins another, the yields of a stage agree.         *)
LEMMA YieldsAgree ==
  ASSUME NEW k \in StageKinds, NEW s \in Seq(Values), NEW t \in Seq(Values),
         Pipeline!Begins(s, t)
  PROVE  \A n \in 0..Len(s) : Pipeline!Yields(k, t)[n] = Pipeline!Yields(k, s)[n]
<1> DEFINE y == Pipeline!Yields(k, s)
           z == Pipeline!Yields(k, t)
           T == {n \in 0..Len(s) : z[n] = y[n]}
<1>1. Len(s) \in Nat /\ Len(t) \in Nat /\ Len(s) <= Len(t)
  BY DEF Pipeline!Begins
<1>2. y[0] = <<>> /\ \A n \in 1..Len(s) : y[n] = y[n - 1] \o Pipeline!Contribution(k, s, n)
  BY YieldsUnfold
<1>3. z[0] = <<>> /\ \A n \in 1..Len(t) : z[n] = z[n - 1] \o Pipeline!Contribution(k, t, n)
  BY YieldsUnfold
<1> HIDE DEF y, z
<1>4. 0 \in T /\ T \in SUBSET (0..Len(s))
  BY <1>1, <1>2, <1>3
<1>5. ASSUME NEW n \in 1..Len(s), n - 1 \in T
      PROVE  n \in T
  <2>1. n \in 1..Len(t) /\ n \in 0..Len(s) /\ z[n - 1] = y[n - 1]
    BY <1>1, <1>5
  <2>2. Pipeline!Contribution(k, t, n) = Pipeline!Contribution(k, s, n)
    BY ContributionLocal
  <2>3. z[n] = y[n]
    BY <1>2, <1>3, <2>1, <2>2
  <2>4. QED
    BY <2>1, <2>3
<1>6. T = 0..Len(s)
  <2> HIDE DEF T
  <2>1. QED
    BY <1>1, <1>4, <1>5, SetInduction
<1>7. QED
  BY <1>6 DEF y, z

(* A stage yields a sequence of values.                                    *)
LEMMA StageType ==
  ASSUME NEW k \in StageKinds, NEW s \in Seq(Values)
  PROVE  Pipeline!Stage(k, s) \in Seq(Values)
<1>1. Len(s) \in 0..Len(s)
  OBVIOUS
<1>2. QED
  BY <1>1, YieldsUnfold DEF Pipeline!Stage

(* A stage yields nothing of nothing.                                      *)
LEMMA StageEmpty ==
  ASSUME NEW k \in StageKinds
  PROVE  Pipeline!Stage(k, <<>>) = <<>>
<1>1. <<>> \in Seq(Values) /\ Len(<<>>) = 0
  BY EmptySeq
<1>2. QED
  BY <1>1, YieldsUnfold DEF Pipeline!Stage

(* One more value adds its contribution.                                   *)
LEMMA StageAppend ==
  ASSUME NEW k \in StageKinds, NEW s \in Seq(Values), NEW x \in Values
  PROVE  Pipeline!Stage(k, Append(s, x)) =
           Pipeline!Stage(k, s) \o Pipeline!Contribution(k, Append(s, x), Len(s) + 1)
<1>1. PICK t : t = Append(s, x)
  OBVIOUS
<1>2. t \in Seq(Values) /\ Len(t) = Len(s) + 1 /\ Pipeline!Begins(s, t) /\ Len(s) \in Nat
  BY <1>1 DEF Pipeline!Begins
<1>3. Pipeline!Yields(k, t)[Len(s)] = Pipeline!Yields(k, s)[Len(s)]
  BY <1>2, YieldsAgree
<1>4. Len(s) + 1 \in 1..Len(t) /\ (Len(s) + 1) - 1 = Len(s)
  BY <1>2
<1>5. Pipeline!Yields(k, t)[Len(s) + 1] =
        Pipeline!Yields(k, t)[(Len(s) + 1) - 1] \o Pipeline!Contribution(k, t, Len(s) + 1)
  BY <1>2, <1>4, YieldsUnfold
<1>6. QED
  BY <1>1, <1>2, <1>3, <1>4, <1>5 DEF Pipeline!Stage

(* More input makes more yield.                                            *)
LEMMA StageGrows ==
  ASSUME NEW k \in StageKinds, NEW s \in Seq(Values), NEW t \in Seq(Values),
         Pipeline!Begins(s, t)
  PROVE  Pipeline!Begins(Pipeline!Stage(k, s), Pipeline!Stage(k, t))
<1> DEFINE z == Pipeline!Yields(k, t)
           T == {n \in 0..Len(t) : n >= Len(s) => Pipeline!Begins(z[Len(s)], z[n])}
<1>1. Len(s) \in Nat /\ Len(t) \in Nat /\ Len(s) <= Len(t)
  BY DEF Pipeline!Begins
<1>2. z \in [0..Len(t) -> Seq(Values)]
  BY YieldsUnfold
<1>3. \A n \in 1..Len(t) : z[n] = z[n - 1] \o Pipeline!Contribution(k, t, n)
  BY YieldsUnfold
<1>4. Pipeline!Stage(k, t) = z[Len(t)] /\ Pipeline!Stage(k, s) = z[Len(s)]
  <2>1. Len(s) \in 0..Len(s)
    BY <1>1
  <2>2. QED
    BY <2>1, YieldsAgree DEF Pipeline!Stage
<1> HIDE DEF z
<1>5. ASSUME NEW q \in Seq(Values) PROVE Pipeline!Begins(q, q)
  BY DEF Pipeline!Begins
<1>6. z[Len(s)] \in Seq(Values) /\ \A n \in 0..Len(t) : n = Len(s) => n \in T
  BY <1>1, <1>2, <1>5
<1>7. 0 \in T /\ T \in SUBSET (0..Len(t))
  <2>1. CASE Len(s) = 0
    BY <1>1, <1>6, <2>1
  <2>2. CASE Len(s) # 0
    BY <1>1, <2>2
  <2>3. QED
    BY <2>1, <2>2
<1>8. ASSUME NEW n \in 1..Len(t), n - 1 \in T
      PROVE  n \in T
  <2>1. n \in 0..Len(t) /\ n - 1 \in 0..Len(t)
    BY <1>1
  <2>2. CASE n <= Len(s)
    BY <1>1, <1>6, <2>1, <2>2
  <2>3. CASE ~(n <= Len(s))
    <3>1. n - 1 >= Len(s)
      BY <1>1, <2>3
    <3>2. Pipeline!Begins(z[Len(s)], z[n - 1])
      BY <1>8, <3>1
    <3>3. PICK a, b, c : a = z[Len(s)] /\ b = z[n - 1] /\ c = Pipeline!Contribution(k, t, n)
      OBVIOUS
    <3>4. a \in Seq(Values) /\ b \in Seq(Values) /\ c \in Seq(Values)
      BY <1>2, <1>6, <2>1, <3>3, ContributionType
    <3>5. Pipeline!Begins(a, b \o c)
      <4>1. Pipeline!Begins(a, b)
        BY <3>2, <3>3
      <4>2. QED
        BY <3>4, <4>1 DEF Pipeline!Begins
    <3>6. z[n] = b \o c
      BY <1>3, <3>3
    <3>7. QED
      BY <2>1, <3>3, <3>5, <3>6
  <2>4. QED
    BY <2>2, <2>3
<1>9. T = 0..Len(t)
  <2> HIDE DEF T
  <2>1. QED
    BY <1>1, <1>7, <1>8, SetInduction
<1>10. Len(t) \in 0..Len(t) /\ Len(t) >= Len(s)
  BY <1>1
<1>11. Pipeline!Begins(z[Len(s)], z[Len(t)])
  BY <1>9, <1>10
<1>12. QED
  BY <1>4, <1>11

(* A stage that has had enough adds nothing more.                          *)
LEMMA StageEnough ==
  ASSUME NEW k \in StageKinds, NEW s \in Seq(Values), NEW t \in Seq(Values),
         Pipeline!Begins(s, t), Pipeline!Closed(k, s)
  PROVE  Pipeline!Stage(k, s) = Pipeline!Stage(k, t)
<1> DEFINE z == Pipeline!Yields(k, t)
           T == {n \in 0..Len(t) : n >= Len(s) => z[n] = z[Len(s)]}
<1>1. Len(s) \in Nat /\ Len(t) \in Nat /\ Len(s) <= Len(t)
  BY DEF Pipeline!Begins
<1>2. z \in [0..Len(t) -> Seq(Values)]
  BY YieldsUnfold
<1>3. \A n \in 1..Len(t) : z[n] = z[n - 1] \o Pipeline!Contribution(k, t, n)
  BY YieldsUnfold
<1>4. Pipeline!Stage(k, t) = z[Len(t)] /\ Pipeline!Stage(k, s) = z[Len(s)]
  <2>1. Len(s) \in 0..Len(s)
    BY <1>1
  <2>2. QED
    BY <2>1, YieldsAgree DEF Pipeline!Stage
<1> HIDE DEF z
<1>5. ASSUME NEW n \in 1..Len(t), n > Len(s)
      PROVE  Pipeline!Contribution(k, t, n) = <<>>
  <2>1. CASE k[1] = "take" /\ Len(s) >= k[2]
    <3>1. k[2] \in Int
      BY <2>1, StageCases
    <3>2. ~(n <= k[2])
      BY <1>1, <1>5, <2>1, <3>1
    <3>3. QED
      BY <2>1, <3>2 DEF Pipeline!Contribution
  <2>2. CASE k[1] = "take_while" /\ \E j \in 1..Len(s) : ~k[2][s[j]]
    <3>1. PICK j \in 1..Len(s) : ~k[2][s[j]]
      BY <2>2
    <3>2. j \in 1..n /\ t[j] = s[j]
      BY <1>1, <1>5 DEF Pipeline!Begins
    <3>3. ~(\A m \in 1..n : k[2][t[m]])
      BY <3>1, <3>2
    <3>4. QED
      BY <2>2, <3>3 DEF Pipeline!Contribution
  <2>3. QED
    BY <2>1, <2>2 DEF Pipeline!Closed
<1>6. \A n \in 0..Len(t) : n <= Len(s) => n \in T
  BY <1>1
<1>7. 0 \in T /\ T \in SUBSET (0..Len(t))
  BY <1>1, <1>6
<1>8. ASSUME NEW n \in 1..Len(t), n - 1 \in T
      PROVE  n \in T
  <2>1. n \in 0..Len(t) /\ n - 1 \in 0..Len(t)
    BY <1>1
  <2>2. CASE n > Len(s)
    <3>1. n - 1 >= Len(s)
      BY <1>1, <2>2
    <3>2. z[n - 1] = z[Len(s)] /\ z[n - 1] \in Seq(Values)
      BY <1>2, <1>8, <2>1, <3>1
    <3>3. z[n] = z[n - 1] \o <<>>
      BY <1>3, <1>5, <2>2
    <3>4. z[n] = z[Len(s)]
      BY <3>2, <3>3, ConcatEmptySeq
    <3>5. QED
      BY <2>1, <3>4
  <2>3. CASE ~(n > Len(s))
    BY <1>1, <1>6, <2>1, <2>3
  <2>4. QED
    BY <2>2, <2>3
<1>9. T = 0..Len(t)
  <2> HIDE DEF T
  <2>1. QED
    BY <1>1, <1>7, <1>8, SetInduction
<1>10. Len(t) \in 0..Len(t) /\ Len(t) >= Len(s)
  BY <1>1
<1>11. QED
  BY <1>4, <1>9, <1>10

(* The recursive definition of Levels has a solution.                      *)
LEMMA LevelsUnfold ==
  ASSUME NEW p \in Seq(StageKinds), NEW s \in Seq(Values)
  PROVE  /\ Pipeline!Levels(p, s) \in [0..Len(p) -> Seq(Values)]
         /\ Pipeline!Levels(p, s)[0] = s
         /\ \A l \in 1..Len(p) :
              Pipeline!Levels(p, s)[l] = Pipeline!Stage(p[l], Pipeline!Levels(p, s)[l - 1])
<1> DEFINE step == [l \in 1..Len(p) |-> [q \in Seq(Values) |-> Pipeline!Stage(p[l], q)]]
           Solves(g) == g = [l \in 0..Len(p) |-> IF l = 0 THEN s ELSE Pipeline!Stage(p[l], g[l - 1])]
<1>1. Len(p) \in Nat /\ \A l \in 1..Len(p) : p[l] \in StageKinds
  OBVIOUS
<1>2. step \in [1..Len(p) -> [Seq(Values) -> Seq(Values)]]
  BY <1>1, StageType
<1>3. PICK g \in [0..Len(p) -> Seq(Values)] :
        g[0] = s /\ \A l \in 1..Len(p) : g[l] = step[l][g[l - 1]]
  <2> HIDE DEF step
  <2>1. \E g : Stepwise(g, Len(p), Seq(Values), s, step)
    BY <1>1, <1>2, StepwiseFunction
  <2>2. QED
    BY ONLY <2>1 DEF Stepwise
<1>4. ASSUME NEW l \in 1..Len(p)
      PROVE  l \in 0..Len(p) /\ l # 0 /\ l - 1 \in 0..Len(p)
  BY <1>1
<1>5. \A l \in 1..Len(p) : g[l] = Pipeline!Stage(p[l], g[l - 1])
  BY <1>3, <1>4
<1>6. \A l \in 0..Len(p) : l = 0 \/ l \in 1..Len(p)
  BY <1>1
<1>7. Solves(g)
  BY <1>3, <1>5, <1>6
<1>8. Solves(Pipeline!Levels(p, s))
  <2>1. Pipeline!Levels(p, s) = CHOOSE h : Solves(h)
    BY DEF Pipeline!Levels
  <2> HIDE DEF Solves
  <2>2. QED
    BY <1>7, <2>1
<1>9. Pipeline!Levels(p, s)[0] = s
  BY <1>1, <1>8
<1>10. \A l \in 1..Len(p) :
         Pipeline!Levels(p, s)[l] = Pipeline!Stage(p[l], Pipeline!Levels(p, s)[l - 1])
  BY <1>1, <1>4, <1>8
<1>11. Pipeline!Levels(p, s) \in [0..Len(p) -> Seq(Values)]
  <2> DEFINE y == Pipeline!Levels(p, s)
             T == {l \in 0..Len(p) : y[l] \in Seq(Values)}
  <2> HIDE DEF y
  <2>1. 0 \in T /\ T \in SUBSET (0..Len(p))
    <3>1. y[0] = s /\ 0 \in 0..Len(p)
      BY <1>1, <1>9 DEF y
    <3>2. QED
      BY <3>1
  <2>2. ASSUME NEW l \in 1..Len(p), l - 1 \in T
        PROVE  l \in T
    <3>1. y[l] = Pipeline!Stage(p[l], y[l - 1]) /\ y[l - 1] \in Seq(Values)
      BY <1>10, <2>2 DEF y
    <3>2. QED
      BY <1>1, <1>4, <3>1, StageType
  <2>3. T = 0..Len(p)
    <3> HIDE DEF T
    <3>1. QED
      BY <1>1, <2>1, <2>2, SetInduction
  <2>4. \A l \in 0..Len(p) : y[l] \in Seq(Values)
    BY <2>3
  <2>5. y = [l \in 0..Len(p) |-> y[l]]
    BY <1>8 DEF y
  <2>6. QED
    BY <2>4, <2>5 DEF y
<1>12. QED
  BY <1>9, <1>10, <1>11

(* A function that follows the stages is what the levels yield.            *)
LEMMA LevelsUnique ==
  ASSUME NEW p \in Seq(StageKinds), NEW s \in Seq(Values), NEW g, g[0] = s,
         \A l \in 1..Len(p) : g[l] = Pipeline!Stage(p[l], g[l - 1])
  PROVE  \A l \in 0..Len(p) : Pipeline!Levels(p, s)[l] = g[l]
<1> DEFINE y == Pipeline!Levels(p, s)
           T == {l \in 0..Len(p) : y[l] = g[l]}
<1>1. y[0] = s /\ \A l \in 1..Len(p) : y[l] = Pipeline!Stage(p[l], y[l - 1])
  BY LevelsUnfold
<1>2. Len(p) \in Nat
  OBVIOUS
<1> HIDE DEF y
<1>3. 0 \in T /\ T \in SUBSET (0..Len(p))
  BY <1>1, <1>2
<1>4. ASSUME NEW l \in 1..Len(p), l - 1 \in T
      PROVE  l \in T
  <2>1. l \in 0..Len(p) /\ y[l - 1] = g[l - 1]
    BY <1>2, <1>4
  <2>2. y[l] = g[l]
    BY <1>1, <2>1
  <2>3. QED
    BY <2>1, <2>2
<1>5. T = 0..Len(p)
  <2> HIDE DEF T
  <2>1. QED
    BY <1>2, <1>3, <1>4, SetInduction
<1>6. QED
  BY <1>5 DEF y

(* What the last of a sequence adds, by the kind of the stage.             *)
LEMMA LastContribution ==
  ASSUME NEW k \in StageKinds, NEW s \in Seq(Values), NEW x \in Values
  PROVE  LET c == Pipeline!Contribution(k, Append(s, x), Len(s) + 1) IN
         /\ k[1] = "map" => c = <<k[2][x]>>
         /\ k[1] = "flat_map" => c = k[2][x]
         /\ k[1] = "filter" => c = IF k[2][x] THEN <<x>> ELSE <<>>
         /\ k[1] = "take" => c = IF Len(s) + 1 <= k[2] THEN <<x>> ELSE <<>>
         /\ k[1] = "take_while" /\ k[2][x] /\ (\A j \in 1..Len(s) : k[2][s[j]]) => c = <<x>>
         /\ k[1] = "take_while" /\ ~k[2][x] => c = <<>>
<1>1. PICK t : t = Append(s, x)
  OBVIOUS
<1>2. Len(s) \in Nat /\ t[Len(s) + 1] = x /\ \A j \in 1..Len(s) : t[j] = s[j]
  BY <1>1
<1>3. PICK n \in Nat : n = Len(s)
  BY <1>2
<1>4. /\ n + 1 \in 1..(n + 1)
      /\ \A j \in 1..(n + 1) : j = n + 1 \/ j \in 1..n
  BY <1>3
<1>5. ASSUME k[2][x], \A j \in 1..n : k[2][s[j]], NEW j \in 1..(n + 1)
      PROVE  k[2][t[j]]
  BY <1>2, <1>3, <1>4, <1>5
<1>6. ASSUME ~k[2][x]
      PROVE  ~(\A j \in 1..(n + 1) : k[2][t[j]])
  BY <1>2, <1>3, <1>4, <1>6
<1>7. k[1] = "map" => Pipeline!Contribution(k, t, n + 1) = <<k[2][x]>>
  BY <1>2, <1>3 DEF Pipeline!Contribution
<1>8. k[1] = "flat_map" => Pipeline!Contribution(k, t, n + 1) = k[2][x]
  BY <1>2, <1>3 DEF Pipeline!Contribution
<1>9. k[1] = "filter" => Pipeline!Contribution(k, t, n + 1) = IF k[2][x] THEN <<x>> ELSE <<>>
  BY <1>2, <1>3 DEF Pipeline!Contribution
<1>10. k[1] = "take" => Pipeline!Contribution(k, t, n + 1) = IF n + 1 <= k[2] THEN <<x>> ELSE <<>>
  BY <1>2, <1>3 DEF Pipeline!Contribution
<1>11. ASSUME k[1] = "take_while", k[2][x], \A j \in 1..n : k[2][s[j]]
       PROVE  Pipeline!Contribution(k, t, n + 1) = <<x>>
  BY <1>2, <1>3, <1>5, <1>11 DEF Pipeline!Contribution
<1>12. ASSUME k[1] = "take_while", ~k[2][x]
       PROVE  Pipeline!Contribution(k, t, n + 1) = <<>>
  BY <1>2, <1>3, <1>6, <1>12 DEF Pipeline!Contribution
<1>13. QED
  BY <1>1, <1>3, <1>7, <1>8, <1>9, <1>10, <1>11, <1>12

-----------------------------------------------------------------------------
(* Numbers and stages of a pipeline.                                       *)
LEMMA GenFacts ==
  ASSUME GenShape
  PROVE  /\ Len(g_stages) \in Nat /\ 0 \in 0..Len(g_stages) /\ Len(g_stages) \in 0..Len(g_stages)
         /\ g_stages \in Seq(StageKinds) /\ g_input \in Seq(Values)
         /\ \A l \in 1..Len(g_stages) :
              /\ g_stages[l] \in StageKinds /\ l \in 0..Len(g_stages)
              /\ l - 1 \in 0..Len(g_stages) /\ l # 0 /\ l # l - 1
<1>1. g_stages \in Seq(StageKinds) /\ g_input \in Seq(Values)
  BY PipelineAssumption DEF GenShape
<1>2. QED
  BY <1>1

(* What a level yields is a sequence of values.                            *)
LEMMA GenYieldedType ==
  ASSUME GenShape, NEW l \in 0..Len(g_stages)
  PROVE  GenYielded(l) \in Seq(Values) /\ Len(GenYielded(l)) \in Nat
<1>1. g_got[l] \in Seq(Values) /\ (g_is_ready[l] => g_value[l] \in Values)
  BY DEF GenShape
<1>2. QED
  BY <1>1 DEF GenYielded

(* In the beginning nothing has been yielded.                              *)
LEMMA GenStart ==
  ASSUME Pipeline!Init
  PROVE  GenInv
<1> USE DEF Pipeline!Init, Pipeline!Top
<1>1. GenShape
  BY EmptySeq DEF GenShape
<1>2. /\ Len(g_stages) \in Nat /\ \A l \in 1..Len(g_stages) :
           g_stages[l] \in StageKinds /\ l \in 0..Len(g_stages) /\ l - 1 \in 0..Len(g_stages)
  BY <1>1, GenFacts
<1>3. GenCalls
  BY DEF GenCalls, GenWaiting
<1>4. GenFlow
  <2>1. g_i[0] = 0 /\ Len(g_input) \in Nat /\ GenYielded(0) = <<>>
    BY <1>1, GenFacts DEF GenYielded
  <2>2. SubSeq(g_input, 1, 0) = <<>>
    BY SubSeqEmpty
  <2>3. ASSUME NEW l \in 1..Len(g_stages)
        PROVE  GenYielded(l) \o g_inner[l] = Pipeline!Stage(g_stages[l], g_got[l - 1])
    <3>1. GenYielded(l) = <<>> /\ g_inner[l] = <<>> /\ g_got[l - 1] = <<>>
      BY <1>2 DEF GenYielded
    <3>2. <<>> \o <<>> = <<>>
      OBVIOUS
    <3>3. QED
      BY <1>2, <3>1, <3>2, StageEmpty
  <2>4. g_i[0] <= Len(g_input) /\ GenYielded(0) = SubSeq(g_input, 1, g_i[0])
    <3>1. g_i[0] <= Len(g_input)
      BY ONLY <2>1
    <3>2. SubSeq(g_input, 1, g_i[0]) = SubSeq(g_input, 1, 0)
      BY ONLY <2>1, Zenon
    <3>3. QED
      BY ONLY <2>1, <2>2, <3>1, <3>2, Zenon
  <2>5. QED
    BY ONLY <2>3, <2>4 DEF GenFlow
<1>5. GenEnds
  BY <1>2 DEF GenEnds
<1>6. GenCounts
  BY <1>2 DEF GenCounts, GenWaiting
<1>7. GenDemand
  BY <1>2 DEF GenDemand
<1>8. QED
  BY <1>1, <1>3, <1>4, <1>5, <1>6, <1>7 DEF GenInv

(* A step that moves the call, and no value: the levels that wait are the  *)
(* same, and a body that was running runs on or waits.                     *)
LEMMA GenMoves ==
  ASSUME GenInv,
         UNCHANGED <<g_input, g_stages, g_done, g_is_ready, g_value, g_i, g_inner, g_got>>,
         g_dir' \in {"idle", "down", "up", "destroyed"}, g_lev' \in 0..Len(g_stages),
         g_answer' \in BOOLEAN,
         \A l \in 0..Len(g_stages) : GenWaiting(l)' <=> GenWaiting(l),
         \A l \in 0..Len(g_stages) :
           Pipeline!Resumed(l) => GenWaiting(l)' \/ Pipeline!Resumed(l)',
         g_dir' = "up" => IF g_answer' THEN g_is_ready[g_lev'] ELSE g_done[g_lev']
  PROVE  GenInv'
<1>1. UNCHANGED <<g_input, g_stages, g_done, g_is_ready, g_value, g_i, g_inner, g_got>>
  OBVIOUS
<1>2. GenShape'
  BY <1>1 DEF GenInv, GenShape
<1>3. GenCalls'
  BY <1>1 DEF GenInv, GenCalls
<1>4. \A l : GenYielded(l)' = GenYielded(l)
  BY <1>1 DEF GenYielded
<1>5. GenFlow'
  BY <1>1, <1>4 DEF GenInv, GenFlow
<1>6. GenEnds'
  BY <1>1 DEF GenInv, GenEnds
<1>7. \A l \in 1..Len(g_stages) : l \in 0..Len(g_stages)
  BY GenFacts DEF GenInv
<1>8. GenCounts'
  BY <1>1, <1>7 DEF GenInv, GenCounts
<1>9. GenBefore' = GenBefore
  BY <1>1 DEF GenBefore
<1>10. GenDemand'
  BY <1>1, <1>4, <1>9 DEF GenInv, GenDemand
<1>11. QED
  BY <1>2, <1>3, <1>5, <1>6, <1>8, <1>10 DEF GenInv

(* The consumer asks.                                                      *)
LEMMA GenHasNextStep ==
  ASSUME GenInv, Pipeline!HasNext
  PROVE  GenInv'
<1>1. /\ UNCHANGED <<g_input, g_stages, g_done, g_is_ready, g_value, g_i, g_inner, g_got, g_answer>>
      /\ g_dir = "idle" /\ g_dir' = "down" /\ g_lev' = Len(g_stages)
  BY DEF Pipeline!HasNext, Pipeline!Top, Pipeline!bodies
<1>2. Len(g_stages) \in Nat /\ Len(g_stages) \in 0..Len(g_stages) /\ g_answer \in BOOLEAN
  BY GenFacts DEF GenInv, GenShape
<1>3. \A l \in 0..Len(g_stages) : ~GenWaiting(l) /\ ~GenWaiting(l)' /\ ~Pipeline!Resumed(l)
  BY <1>1, <1>2 DEF GenWaiting, Pipeline!Resumed
<1>4. g_dir' # "up"
  BY <1>1
<1>5. QED
  BY <1>1, <1>2, <1>3, <1>4, GenMoves

(* The consumer destroys the pipeline.                                     *)
LEMMA GenDestroyStep ==
  ASSUME GenInv, Pipeline!Destroy
  PROVE  GenInv'
<1>1. /\ UNCHANGED <<g_input, g_stages, g_done, g_is_ready, g_value, g_i, g_inner, g_got, g_answer, g_lev>>
      /\ g_dir = "idle" /\ g_dir' = "destroyed"
  BY DEF Pipeline!Destroy, Pipeline!bodies
<1>2. g_lev \in 0..Len(g_stages) /\ g_answer \in BOOLEAN
  BY DEF GenInv, GenShape
<1>3. \A l \in 0..Len(g_stages) : ~GenWaiting(l) /\ ~GenWaiting(l)' /\ ~Pipeline!Resumed(l)
  BY <1>1 DEF GenWaiting, Pipeline!Resumed
<1>4. g_dir' # "up"
  BY <1>1
<1>5. QED
  BY <1>1, <1>2, <1>3, <1>4, GenMoves

(* A level knows the answer.                                               *)
LEMMA GenHasNextKnownStep ==
  ASSUME GenInv, NEW l \in 0..Len(g_stages), Pipeline!HasNextKnown(l)
  PROVE  GenInv'
<1>1. /\ UNCHANGED <<g_input, g_stages, g_done, g_is_ready, g_value, g_i, g_inner, g_got>>
      /\ g_dir = "down" /\ g_lev = l /\ g_dir' = "up" /\ g_lev' = l
      /\ g_answer' = ~g_done[l] /\ (g_done[l] \/ g_is_ready[l])
  BY DEF Pipeline!HasNextKnown, Pipeline!Return, Pipeline!bodies
<1>2. g_done[l] \in BOOLEAN /\ g_is_ready[l] \in BOOLEAN
  BY DEF GenInv, GenShape
<1>3. \A m \in 0..Len(g_stages) :
        (GenWaiting(m)' <=> GenWaiting(m)) /\ ~Pipeline!Resumed(m)
  BY <1>1 DEF GenWaiting, Pipeline!Resumed
<1>4. IF g_answer' THEN g_is_ready[g_lev'] ELSE g_done[g_lev']
  BY <1>1, <1>2, Zenon
<1>5. g_answer' \in BOOLEAN
  BY <1>1, <1>2
<1>6. QED
  BY <1>1, <1>3, <1>4, <1>5, GenMoves

(* The answer reaches the consumer, who may take the value.                *)
LEMMA GenAnsweredStep ==
  ASSUME GenInv, Pipeline!Answered
  PROVE  GenInv'
<1> DEFINE N == Len(g_stages)
<1>1. /\ UNCHANGED <<g_input, g_stages, g_done, g_value, g_i, g_inner, g_answer>>
      /\ g_dir = "up" /\ g_lev = N /\ g_dir' = "idle" /\ g_lev' = 0
  BY DEF Pipeline!Answered, Pipeline!Top, Pipeline!bodies
<1>2. /\ N \in Nat /\ 0 \in 0..N /\ N \in 0..N /\ g_answer \in BOOLEAN
      /\ \A l \in 1..N : l \in 0..N /\ l - 1 \in 0..N /\ l - 1 # N
  BY GenFacts DEF GenInv, GenShape
<1>3. \A l \in 0..N : ~GenWaiting(l) /\ ~GenWaiting(l)' /\ ~Pipeline!Resumed(l)
  BY <1>1, <1>2 DEF GenWaiting, Pipeline!Resumed
<1>4. CASE UNCHANGED <<g_is_ready, g_got>>
  <2>1. g_dir' # "up" /\ g_dir' \in {"idle", "down", "up", "destroyed"}
    BY <1>1
  <2>2. UNCHANGED <<g_input, g_stages, g_done, g_is_ready, g_value, g_i, g_inner, g_got>>
    BY <1>1, <1>4
  <2>3. g_lev' \in 0..Len(g_stages) /\ g_answer' \in BOOLEAN
    BY <1>1, <1>2
  <2>4. QED
    BY <1>3, <2>1, <2>2, <2>3, GenMoves
<1>5. CASE /\ g_answer /\ g_got' = [g_got EXCEPT ![N] = Append(g_got[N], g_value[N])]
           /\ g_is_ready' = [g_is_ready EXCEPT ![N] = FALSE]
  <2>1. g_is_ready[N] /\ g_value[N] \in Values
    BY <1>1, <1>2, <1>5 DEF GenInv, GenCalls, GenShape
  <2>2. /\ g_got \in [0..N -> Seq(Values)] /\ g_is_ready \in [0..N -> BOOLEAN]
        /\ g_got[N] \in Seq(Values)
    BY <1>2 DEF GenInv, GenShape
  <2>3. /\ g_got' \in [0..N -> Seq(Values)] /\ g_is_ready' \in [0..N -> BOOLEAN]
        /\ g_got'[N] = Append(g_got[N], g_value[N]) /\ g_is_ready'[N] = FALSE
        /\ \A m \in 0..N : m # N => g_got'[m] = g_got[m] /\ g_is_ready'[m] = g_is_ready[m]
    <3>1. Append(g_got[N], g_value[N]) \in Seq(Values)
      BY <2>1, <2>2
    <3>2. /\ g_got' \in [0..N -> Seq(Values)] /\ g_got'[N] = Append(g_got[N], g_value[N])
          /\ \A m \in 0..N : m # N => g_got'[m] = g_got[m]
      <4> HIDE DEF N
      <4>1. QED
        BY ONLY <1>2, <1>5, <2>2, <3>1
    <3>3. /\ g_is_ready' \in [0..N -> BOOLEAN] /\ g_is_ready'[N] = FALSE
          /\ \A m \in 0..N : m # N => g_is_ready'[m] = g_is_ready[m]
      <4> HIDE DEF N
      <4>1. QED
        BY ONLY <1>2, <1>5, <2>2
    <3>4. QED
      BY <3>2, <3>3
  <2>4. \A m \in 0..N : g_is_ready'[m] => g_is_ready[m]
    BY <2>1, <2>3
  <2>5. GenShape'
    BY <1>1, <1>2, <2>3, <2>4 DEF GenInv, GenShape
  <2>6. GenCalls'
    BY <1>1, <1>3, <2>4 DEF GenInv, GenCalls
  <2>7. ASSUME NEW m \in 0..N
        PROVE  GenYielded(m)' = GenYielded(m)
    <3>1. CASE m = N
      BY <1>1, <2>1, <2>3, <3>1 DEF GenYielded
    <3>2. CASE m # N
      BY <1>1, <2>3, <3>2 DEF GenYielded
    <3>3. QED
      BY <3>1, <3>2
  <2>8. \A l \in 1..N : g_got'[l - 1] = g_got[l - 1]
    BY <1>2, <2>3
  <2>9. GenFlow'
    BY <1>1, <1>2, <2>7, <2>8 DEF GenInv, GenFlow
  <2>10. GenEnds'
    BY <1>1, <2>8 DEF GenInv, GenEnds
  <2>11. GenCounts'
    BY <1>1, <1>2, <1>3, <2>8 DEF GenInv, GenCounts
  <2>12. GenBefore' = GenBefore
    BY <1>1 DEF GenBefore
  <2>13. GenDemand'
    BY <1>1, <1>3, <2>7, <2>12 DEF GenInv, GenDemand
  <2>14. QED
    BY <2>5, <2>6, <2>9, <2>10, <2>11, <2>13 DEF GenInv
<1>6. QED
  BY <1>4, <1>5 DEF Pipeline!Answered, Pipeline!Top

(* A body comes to its end, with nothing left and for a reason.            *)
LEMMA GenEndsHere ==
  ASSUME GenInv, NEW l \in 0..Len(g_stages),
         UNCHANGED <<g_input, g_stages, g_is_ready, g_value, g_i, g_inner, g_got>>,
         g_done' = [g_done EXCEPT ![l] = TRUE], ~g_is_ready[l], g_inner[l] = <<>>,
         g_dir' = "up", g_lev' = l, g_answer' = FALSE,
         g_dir \in {"down", "up"}, g_lev = l \/ g_lev = l - 1,
         \A m \in 0..Len(g_stages) : Pipeline!Resumed(m) => m = l,
         IF l = 0 THEN g_i[0] = Len(g_input)
                  ELSE Pipeline!Closed(g_stages[l], g_got[l - 1]) \/ g_done[l - 1]
  PROVE  GenInv'
<1> DEFINE N == Len(g_stages)
<1>1. /\ UNCHANGED <<g_input, g_stages, g_is_ready, g_value, g_i, g_inner, g_got>>
      /\ g_dir' = "up" /\ g_lev' = l /\ g_answer' = FALSE
  OBVIOUS
<1>2. /\ N \in Nat /\ 0 \in 0..N /\ \A m \in 1..N : m \in 0..N /\ m - 1 \in 0..N /\ m # 0
      /\ g_done \in [0..N -> BOOLEAN]
  BY GenFacts DEF GenInv, GenShape
<1>3. /\ g_done' \in [0..N -> BOOLEAN] /\ g_done'[l] = TRUE
      /\ \A m \in 0..N : m # l => g_done'[m] = g_done[m]
  BY <1>2
<1>4. \A m \in 0..N : /\ GenWaiting(m)' => GenWaiting(m) /\ m # l
                      /\ GenWaiting(m) /\ m # l => GenWaiting(m)'
  BY <1>1, <1>2 DEF GenWaiting
<1>5. GenShape'
  BY <1>1, <1>3 DEF GenInv, GenShape
<1>6. GenCalls'
  BY <1>1, <1>3, <1>4 DEF GenInv, GenCalls
<1>7. \A m : GenYielded(m)' = GenYielded(m)
  BY <1>1 DEF GenYielded
<1>8. GenFlow'
  BY <1>1, <1>7 DEF GenInv, GenFlow
<1>9. GenEnds'
  <2>1. g_done'[0] => g_i'[0] = Len(g_input')
    BY <1>1, <1>2, <1>3 DEF GenInv, GenEnds
  <2>2. ASSUME NEW m \in 1..N, g_done'[m]
        PROVE  Pipeline!Closed(g_stages[m], g_got[m - 1]) \/ g_done'[m - 1]
    <3>1. g_done[m - 1] => g_done'[m - 1]
      BY <1>2, <1>3
    <3>2. CASE m = l
      BY <1>2, <3>1, <3>2
    <3>3. CASE m # l
      BY <1>2, <1>3, <2>2, <3>1, <3>3 DEF GenInv, GenEnds
    <3>4. QED
      BY <3>2, <3>3
  <2>3. QED
    BY <1>1, <2>1, <2>2 DEF GenEnds
<1>10. GenCounts'
  BY <1>1, <1>2, <1>3, <1>4 DEF GenInv, GenCounts
<1>11. GenBefore' = GenBefore
  BY <1>1 DEF GenBefore
<1>12. GenDemand'
  BY <1>1, <1>3, <1>4, <1>7, <1>11 DEF GenInv, GenDemand
<1>13. QED
  BY <1>5, <1>6, <1>8, <1>9, <1>10, <1>12 DEF GenInv

(* take has counted to n.                                                  *)
LEMMA GenTakeEndStep ==
  ASSUME GenInv, NEW l \in 1..Len(g_stages), Pipeline!TakeEnd(l)
  PROVE  GenInv'
<1> DEFINE N == Len(g_stages)
<1>1. /\ UNCHANGED <<g_input, g_stages, g_is_ready, g_value, g_i, g_inner, g_got>>
      /\ g_done' = [g_done EXCEPT ![l] = TRUE] /\ g_dir' = "up" /\ g_lev' = l /\ g_answer' = FALSE
      /\ g_dir = "down" /\ g_lev = l /\ ~g_done[l] /\ ~g_is_ready[l]
      /\ g_stages[l][1] = "take" /\ g_i[l] >= g_stages[l][2]
  BY DEF Pipeline!TakeEnd, Pipeline!return_void, Pipeline!Return, Pipeline!Resumed,
         Pipeline!Kind, Pipeline!Arg, Pipeline!bodies
<1>2. l \in 0..N /\ l # 0
  BY GenFacts DEF GenInv
<1>3. \A m \in 0..N : Pipeline!Resumed(m) => m = l
  BY <1>1 DEF Pipeline!Resumed
<1>4. ~GenWaiting(l)
  BY <1>1 DEF GenWaiting
<1>5. Pipeline!Closed(g_stages[l], g_got[l - 1])
  <2>1. g_i[l] = Len(g_got[l - 1]) + 0
    BY <1>1, <1>4 DEF GenInv, GenCounts
  <2>2. g_got[l - 1] \in Seq(Values) /\ g_stages[l][2] \in Int
    BY <1>1, GenFacts, StageCases DEF GenInv, GenShape
  <2>3. Len(g_got[l - 1]) >= g_stages[l][2]
    BY <1>1, <2>1, <2>2
  <2>4. QED
    BY <1>1, <2>3 DEF Pipeline!Closed
<1>6. g_inner[l] = <<>>
  BY <1>1, <1>2 DEF GenInv, GenCalls
<1>7. QED
  BY <1>1, <1>2, <1>3, <1>5, <1>6, GenEndsHere

(* Appending is concatenation.                                             *)
LEMMA AppendConcat ==
  ASSUME NEW s \in Seq(Values), NEW x \in Values
  PROVE  Append(s, x) = s \o <<x>> /\ Append(s, x) \in Seq(Values)
  OBVIOUS

(* Taking the head of a sequence to the end of another.                    *)
LEMMA Refold ==
  ASSUME NEW s \in Seq(Values), NEW q \in Seq(Values), q # <<>>
  PROVE  Append(s, Head(q)) \o Tail(q) = s \o q
<1>1. Head(q) \in Values /\ Tail(q) \in Seq(Values) /\ q = <<Head(q)>> \o Tail(q)
  <2>1. Head(q) \in Values /\ Tail(q) \in Seq(Values) /\ Len(q) \in Nat \ {0}
    BY HeadTailProperties, EmptySeq
  <2>2. QED
    BY <2>1
<1>2. Append(s, Head(q)) = s \o <<Head(q)>> /\ <<Head(q)>> \in Seq(Values)
  BY <1>1
<1>3. (s \o <<Head(q)>>) \o Tail(q) = s \o (<<Head(q)>> \o Tail(q))
  BY <1>1, <1>2, ConcatAssociative
<1>4. QED
  BY <1>1, <1>2, <1>3, Zenon

(* Demand is kept by a step of level l that resumes no source: the other   *)
(* levels have yielded the same, and l more, or it goes on or ends.        *)
LEMMA GenDemandKept ==
  ASSUME GenInv, NEW l \in 0..Len(g_stages), UNCHANGED <<g_input, g_stages>>, g_i'[0] = g_i[0],
         \A m \in 0..Len(g_stages) : m # l =>
           /\ GenYielded(m)' = GenYielded(m) /\ (GenWaiting(m) => GenWaiting(m)')
           /\ ~Pipeline!Resumed(m) /\ (g_done[m] => g_done'[m]),
         Len(GenYielded(l)') \in Nat,
         \/ Len(GenYielded(l)') > Len(GenYielded(l))
         \/ /\ Len(GenYielded(l)') = Len(GenYielded(l))
            /\ g_done'[l] \/ Pipeline!Resumed(l)'
  PROVE  GenDemand'
<1>1. GenBefore' = GenBefore
  BY DEF GenBefore
<1>2. SUFFICES ASSUME g_i[0] > 0
               PROVE  /\ \A m \in 1..Len(g_stages) : ~Pipeline!Closed(g_stages[m], GenBefore[m - 1])
                      /\ \A m \in 0..Len(g_stages) :
                           /\ Len(GenBefore[m]) <= Len(GenYielded(m)')
                           /\ \/ Len(GenBefore[m]) < Len(GenYielded(m)')
                              \/ GenWaiting(m)' \/ Pipeline!Resumed(m)' \/ g_done'[m]
  BY <1>1 DEF GenDemand
<1>3. /\ \A m \in 1..Len(g_stages) : ~Pipeline!Closed(g_stages[m], GenBefore[m - 1])
      /\ \A m \in 0..Len(g_stages) :
           /\ Len(GenBefore[m]) <= Len(GenYielded(m))
           /\ \/ Len(GenBefore[m]) < Len(GenYielded(m))
              \/ GenWaiting(m) \/ Pipeline!Resumed(m) \/ g_done[m]
  BY <1>2 DEF GenInv, GenDemand
<1>4. Len(GenBefore[l]) \in Nat /\ Len(GenYielded(l)) \in Nat
  <2>1. SubSeq(g_input, 1, g_i[0] - 1) \in Seq(Values)
    <3>1. g_input \in Seq(Values) /\ g_i[0] \in Nat /\ g_i[0] <= Len(g_input)
      BY GenFacts DEF GenInv, GenShape, GenFlow
    <3>2. QED
      BY <3>1
  <2>2. GenBefore \in [0..Len(g_stages) -> Seq(Values)]
    BY <2>1, GenFacts, LevelsUnfold DEF GenInv, GenBefore
  <2>3. QED
    BY <2>2, GenYieldedType DEF GenInv
<1>5. Len(GenBefore[l]) <= Len(GenYielded(l)')
  BY <1>3, <1>4
<1>6. \/ Len(GenBefore[l]) < Len(GenYielded(l)')
      \/ GenWaiting(l)' \/ Pipeline!Resumed(l)' \/ g_done'[l]
  BY <1>3, <1>4
<1>7. QED
  BY <1>3, <1>5, <1>6

(* The level below has no more.                                            *)
LEMMA GenNoMoreStep ==
  ASSUME GenInv, NEW l \in 1..Len(g_stages), Pipeline!NoMore(l)
  PROVE  GenInv'
<1>1. /\ UNCHANGED <<g_input, g_stages, g_is_ready, g_value, g_i, g_inner, g_got>>
      /\ g_done' = [g_done EXCEPT ![l] = TRUE] /\ g_dir' = "up" /\ g_lev' = l /\ g_answer' = FALSE
      /\ g_dir = "up" /\ g_lev = l - 1 /\ ~g_answer
  BY DEF Pipeline!NoMore, Pipeline!return_void, Pipeline!Return, Pipeline!bodies
<1>2. l \in 0..Len(g_stages) /\ l # 0
  BY GenFacts DEF GenInv
<1>3. \A m \in 0..Len(g_stages) : ~Pipeline!Resumed(m)
  BY <1>1 DEF Pipeline!Resumed
<1>4. GenWaiting(l)
  BY <1>1, <1>2 DEF GenWaiting
<1>5. ~g_is_ready[l] /\ g_inner[l] = <<>> /\ g_done[l - 1]
  BY <1>1, <1>2, <1>4 DEF GenInv, GenCalls
<1>6. QED
  BY <1>1, <1>2, <1>3, <1>5, GenEndsHere

(* A body calls has_next of the level below.                               *)
LEMMA GenAskBelowStep ==
  ASSUME GenInv, NEW l \in 1..Len(g_stages), Pipeline!AskBelow(l)
  PROVE  GenInv'
<1> DEFINE N == Len(g_stages)
<1>1. /\ UNCHANGED <<g_input, g_stages, g_done, g_is_ready, g_value, g_inner, g_got, g_dir, g_answer>>
      /\ g_dir = "down" /\ g_lev = l /\ ~g_done[l] /\ ~g_is_ready[l] /\ g_inner[l] = <<>>
      /\ g_lev' = l - 1
      /\ g_stages[l][1] = "take" => g_i[l] < g_stages[l][2]
      /\ g_i' = IF g_stages[l][1] = "take" THEN [g_i EXCEPT ![l] = g_i[l] + 1] ELSE g_i
  BY DEF Pipeline!AskBelow, Pipeline!Resumed, Pipeline!Kind, Pipeline!Arg
<1>2. /\ N \in Nat /\ 0 \in 0..N /\ l \in 0..N /\ l - 1 \in 0..N /\ l # 0 /\ g_stages[l] \in StageKinds
      /\ \A m \in 1..N : m \in 0..N
      /\ g_i \in [0..N -> Nat]
  BY GenFacts DEF GenInv, GenShape
<1>3. /\ g_i' \in [0..N -> Nat] /\ \A m \in 0..N : m # l => g_i'[m] = g_i[m]
      /\ g_stages[l][1] = "take" => g_i'[l] = g_i[l] + 1
  BY <1>1, <1>2
<1>4. g_i'[0] = g_i[0]
  BY <1>2, <1>3
<1>5. \A m \in 0..N : /\ GenWaiting(m)' <=> GenWaiting(m) \/ m = l
                      /\ m = l => ~GenWaiting(m)
                      /\ Pipeline!Resumed(m) => m = l
  BY <1>1, <1>2 DEF GenWaiting, Pipeline!Resumed
<1>6. GenShape'
  BY <1>1, <1>2, <1>3 DEF GenInv, GenShape
<1>7. GenCalls'
  BY <1>1, <1>5 DEF GenInv, GenCalls
<1>8. \A m : GenYielded(m)' = GenYielded(m)
  BY <1>1 DEF GenYielded
<1>9. GenFlow'
  BY <1>1, <1>4, <1>8 DEF GenInv, GenFlow
<1>10. GenEnds'
  BY <1>1, <1>4 DEF GenInv, GenEnds
<1>11. GenCounts'
  <2>1. SUFFICES ASSUME NEW m \in 1..N, ~g_done[m]
                 PROVE  /\ g_stages[m][1] = "take" =>
                             /\ g_i'[m] = Len(g_got[m - 1]) + IF GenWaiting(m)' THEN 1 ELSE 0
                             /\ GenWaiting(m)' => g_i'[m] <= g_stages[m][2]
                        /\ g_stages[m][1] = "take_while" =>
                             \A j \in 1..Len(g_got[m - 1]) : g_stages[m][2][g_got[m - 1][j]]
    BY <1>1 DEF GenCounts
  <2>2. /\ g_stages[m][1] = "take" =>
             /\ g_i[m] = Len(g_got[m - 1]) + IF GenWaiting(m) THEN 1 ELSE 0
             /\ GenWaiting(m) => g_i[m] <= g_stages[m][2]
        /\ g_stages[m][1] = "take_while" =>
             \A j \in 1..Len(g_got[m - 1]) : g_stages[m][2][g_got[m - 1][j]]
    BY <2>1 DEF GenInv, GenCounts
  <2>3. CASE m # l
    BY <1>2, <1>3, <1>5, <2>2, <2>3
  <2>4. CASE m = l
    <3>1. g_got[m - 1] \in Seq(Values)
      BY <1>2, <2>4 DEF GenInv, GenShape
    <3>2. ASSUME g_stages[m][1] = "take"
          PROVE  g_i'[m] = Len(g_got[m - 1]) + 1 /\ g_i'[m] <= g_stages[m][2]
      <4>1. g_i[m] = Len(g_got[m - 1]) /\ g_stages[m][2] \in Int /\ g_i[m] \in Nat
        <5>1. g_stages[m] \in StageKinds /\ g_i[m] \in Nat /\ ~GenWaiting(m)
          BY <1>2, <1>5, <2>4
        <5>2. g_stages[m][2] \in Int
          BY <3>2, <5>1, StageCases
        <5>3. g_i[m] = Len(g_got[m - 1]) + 0
          BY <2>2, <3>2, <5>1
        <5>4. QED
          BY <3>1, <5>1, <5>2, <5>3
      <4>2. QED
        BY <1>1, <1>3, <2>4, <3>2, <4>1
    <3>3. QED
      BY <1>2, <1>5, <2>2, <2>4, <3>2
  <2>5. QED
    BY <2>3, <2>4
<1>12. GenBefore' = GenBefore
  BY <1>1, <1>4 DEF GenBefore
<1>13. GenDemand'
  BY <1>1, <1>4, <1>5, <1>8, <1>12 DEF GenInv, GenDemand
<1>14. QED
  BY <1>6, <1>7, <1>9, <1>10, <1>11, <1>13 DEF GenInv

(* flat_map yields the next value of the generator it expands.             *)
LEMMA GenFlatMapInnerStep ==
  ASSUME GenInv, NEW l \in 1..Len(g_stages), Pipeline!FlatMapInner(l)
  PROVE  GenInv'
<1> DEFINE N == Len(g_stages)
<1>1. /\ UNCHANGED <<g_input, g_stages, g_done, g_i, g_got>>
      /\ g_dir = "down" /\ g_lev = l /\ ~g_done[l] /\ ~g_is_ready[l] /\ g_inner[l] # <<>>
      /\ g_dir' = "up" /\ g_lev' = l /\ g_answer' = TRUE
      /\ g_value' = [g_value EXCEPT ![l] = Head(g_inner[l])]
      /\ g_is_ready' = [g_is_ready EXCEPT ![l] = TRUE]
      /\ g_inner' = [g_inner EXCEPT ![l] = Tail(g_inner[l])]
  BY DEF Pipeline!FlatMapInner, Pipeline!Resumed, Pipeline!yield_value, Pipeline!Return
<1>2. /\ N \in Nat /\ 0 \in 0..N /\ l \in 0..N /\ l # 0
      /\ \A m \in 1..N : m \in 0..N
      /\ g_inner \in [0..N -> Seq(Values)] /\ g_is_ready \in [0..N -> BOOLEAN]
      /\ g_value = [m \in 0..N |-> g_value[m]]
      /\ g_got[l] \in Seq(Values) /\ g_inner[l] \in Seq(Values)
  BY GenFacts DEF GenInv, GenShape
<1>3. Head(g_inner[l]) \in Values /\ Tail(g_inner[l]) \in Seq(Values)
  BY <1>1, <1>2, HeadTailProperties
<1>4. /\ g_inner' \in [0..N -> Seq(Values)] /\ g_inner'[l] = Tail(g_inner[l])
      /\ \A m \in 0..N : m # l => g_inner'[m] = g_inner[m]
  BY <1>1, <1>2, <1>3
<1>5. /\ g_is_ready' \in [0..N -> BOOLEAN] /\ g_is_ready'[l] = TRUE
      /\ \A m \in 0..N : m # l => g_is_ready'[m] = g_is_ready[m]
  BY <1>1, <1>2
<1>6. /\ g_value' = [m \in 0..N |-> g_value'[m]] /\ g_value'[l] = Head(g_inner[l])
      /\ \A m \in 0..N : m # l => g_value'[m] = g_value[m]
  BY <1>1, <1>2
<1>7. \A m \in 0..N : /\ GenWaiting(m)' <=> GenWaiting(m)
                      /\ m = l => ~GenWaiting(m)
                      /\ Pipeline!Resumed(m) => m = l
  BY <1>1 DEF GenWaiting, Pipeline!Resumed
<1>8. GenShape'
  BY <1>1, <1>2, <1>3, <1>4, <1>5, <1>6 DEF GenInv, GenShape
<1>9. GenCalls'
  <2>1. \A m \in 0..N : g_inner'[m] # <<>> => g_inner[m] # <<>>
    BY <1>1, <1>4
  <2>2. QED
    BY <1>1, <1>2, <1>4, <1>5, <1>7, <2>1 DEF GenInv, GenCalls
<1>10. \A m \in 0..N : m # l => GenYielded(m)' = GenYielded(m)
  BY <1>1, <1>5, <1>6 DEF GenYielded
<1>11. /\ GenYielded(l) = g_got[l] /\ GenYielded(l)' = Append(g_got[l], Head(g_inner[l]))
  BY <1>1, <1>5, <1>6 DEF GenYielded
<1>12. Append(g_got[l], Head(g_inner[l])) \o Tail(g_inner[l]) = g_got[l] \o g_inner[l]
  BY <1>1, <1>2, Refold
<1>13. GenFlow'
  <2>1. GenYielded(0)' = GenYielded(0)
    BY <1>2, <1>10
  <2>2. ASSUME NEW m \in 1..N
        PROVE  GenYielded(m)' \o g_inner'[m] = GenYielded(m) \o g_inner[m]
    BY <1>2, <1>4, <1>10, <1>11, <1>12
  <2>3. QED
    BY <1>1, <2>1, <2>2 DEF GenInv, GenFlow
<1>14. GenEnds'
  BY <1>1 DEF GenInv, GenEnds
<1>15. GenCounts'
  BY <1>1, <1>2, <1>7 DEF GenInv, GenCounts
<1>16. GenBefore' = GenBefore
  BY <1>1 DEF GenBefore
<1>17. Len(GenYielded(l)') = Len(GenYielded(l)) + 1 /\ Len(GenYielded(l)) \in Nat
  BY <1>2, <1>3, <1>11
<1>18. GenDemand'
  BY <1>1, <1>7, <1>10, <1>16, <1>17, GenDemandKept
<1>19. QED
  BY <1>8, <1>9, <1>13, <1>14, <1>15, <1>18 DEF GenInv

(* The source yields its next value: every stage waits for it, and has     *)
(* made all it can of what there was.                                      *)
LEMMA GenSourceYields ==
  ASSUME GenInv, Pipeline!from_array, g_i[0] < Len(g_input)
  PROVE  GenInv'
<1> DEFINE N == Len(g_stages)
<1>1. /\ UNCHANGED <<g_input, g_stages, g_done, g_inner, g_got>>
      /\ g_dir = "down" /\ g_lev = 0 /\ ~g_done[0] /\ ~g_is_ready[0]
      /\ g_dir' = "up" /\ g_lev' = 0 /\ g_answer' = TRUE
      /\ g_value' = [g_value EXCEPT ![0] = g_input[g_i[0] + 1]]
      /\ g_is_ready' = [g_is_ready EXCEPT ![0] = TRUE]
      /\ g_i' = [g_i EXCEPT ![0] = g_i[0] + 1]
  BY DEF Pipeline!from_array, Pipeline!Resumed, Pipeline!yield_value, Pipeline!Return
<1>2. /\ N \in Nat /\ 0 \in 0..N /\ g_stages \in Seq(StageKinds) /\ g_input \in Seq(Values)
      /\ \A m \in 1..N : /\ m \in 0..N /\ m - 1 \in 0..N /\ m # 0 /\ m > 0
                         /\ g_stages[m] \in StageKinds
      /\ g_i \in [0..N -> Nat] /\ g_is_ready \in [0..N -> BOOLEAN]
      /\ g_value = [m \in 0..N |-> g_value[m]] /\ g_got \in [0..N -> Seq(Values)]
  <2>1. /\ g_i \in [0..N -> Nat] /\ g_is_ready \in [0..N -> BOOLEAN]
        /\ g_value = [m \in 0..N |-> g_value[m]] /\ g_got \in [0..N -> Seq(Values)]
    BY DEF GenInv, GenShape
  <2>2. /\ N \in Nat /\ 0 \in 0..N /\ g_stages \in Seq(StageKinds) /\ g_input \in Seq(Values)
        /\ \A m \in 1..N : /\ m \in 0..N /\ m - 1 \in 0..N /\ m # 0
                           /\ g_stages[m] \in StageKinds
    BY GenFacts DEF GenInv
  <2>3. \A m \in 1..N : m > 0
    BY <2>2
  <2>4. QED
    BY ONLY <2>1, <2>2, <2>3
<1>3. g_i[0] \in Nat /\ g_i[0] + 1 \in 1..Len(g_input) /\ g_input[g_i[0] + 1] \in Values
  BY <1>2
<1>4. /\ g_i' \in [0..N -> Nat] /\ g_i'[0] = g_i[0] + 1
      /\ \A m \in 0..N : m # 0 => g_i'[m] = g_i[m]
  BY <1>1, <1>2, <1>3
<1>5. /\ g_is_ready' \in [0..N -> BOOLEAN] /\ g_is_ready'[0] = TRUE
      /\ \A m \in 0..N : m # 0 => g_is_ready'[m] = g_is_ready[m]
  BY <1>1, <1>2
<1>6. /\ g_value' = [m \in 0..N |-> g_value'[m]] /\ g_value'[0] = g_input[g_i[0] + 1]
      /\ \A m \in 0..N : m # 0 => g_value'[m] = g_value[m]
  BY <1>1, <1>2
<1>7. \A m \in 0..N : (GenWaiting(m)' <=> GenWaiting(m)) /\ (m = 0 => ~GenWaiting(m))
  BY <1>1 DEF GenWaiting
<1>8. \A m \in 1..N : GenWaiting(m)
  BY <1>1, <1>2 DEF GenWaiting
<1>9. GenShape'
  BY <1>1, <1>2, <1>3, <1>4, <1>5, <1>6 DEF GenInv, GenShape
<1>10. GenCalls'
  BY <1>1, <1>2, <1>5, <1>7 DEF GenInv, GenCalls
<1>11. \A m \in 0..N : m # 0 => GenYielded(m)' = GenYielded(m)
  BY <1>1, <1>5, <1>6 DEF GenYielded
<1>12. GenYielded(0) = g_got[0] /\ GenYielded(0)' = Append(g_got[0], g_input[g_i[0] + 1])
  BY <1>1, <1>5, <1>6 DEF GenYielded
<1>13. g_got[0] = SubSeq(g_input, 1, g_i[0])
  BY <1>12 DEF GenInv, GenFlow
<1>14. GenFlow'
  <2>1. Append(SubSeq(g_input, 1, g_i[0]), g_input[g_i[0] + 1]) = SubSeq(g_input, 1, g_i[0] + 1)
    BY <1>2, <1>3
  <2>2. GenYielded(0)' = SubSeq(g_input, 1, g_i'[0])
    BY <1>4, <1>12, <1>13, <2>1
  <2>3. g_i'[0] <= Len(g_input)
    BY <1>2, <1>3, <1>4
  <2>4. \A m \in 1..N : GenYielded(m)' = GenYielded(m)
    BY <1>2, <1>11
  <2>5. QED
    BY <1>1, <2>2, <2>3, <2>4 DEF GenInv, GenFlow
<1>15. GenEnds'
  BY <1>1 DEF GenInv, GenEnds
<1>16. GenCounts'
  BY <1>1, <1>2, <1>4, <1>7 DEF GenInv, GenCounts
<1>17. GenDemand'
  <2>1. \A m \in 1..N : ~g_done[m] /\ ~g_is_ready[m] /\ g_inner[m] = <<>>
    BY <1>2, <1>8 DEF GenInv, GenCalls
  <2>2. ASSUME NEW m \in 1..N
        PROVE  GenYielded(m) = g_got[m] /\ g_got[m] = Pipeline!Stage(g_stages[m], g_got[m - 1])
    <3>1. GenYielded(m) = g_got[m]
      BY <2>1 DEF GenYielded
    <3>2. g_got[m] \o <<>> = Pipeline!Stage(g_stages[m], g_got[m - 1])
      BY <2>1, <3>1 DEF GenInv, GenFlow
    <3>3. QED
      BY <1>2, <3>1, <3>2, ConcatEmptySeq
  <2>3. GenBefore' = Pipeline!Levels(g_stages, g_got[0])
    <3>1. g_i'[0] - 1 = g_i[0]
      BY <1>3, <1>4
    <3>2. QED
      BY <1>1, <1>13, <3>1 DEF GenBefore
  <2>4. \A m \in 0..N : Pipeline!Levels(g_stages, g_got[0])[m] = g_got[m]
    <3>1. g_got[0] \in Seq(Values)
      BY <1>2
    <3>2. PICK g : g = g_got
      OBVIOUS
    <3>3. \A m \in 1..Len(g_stages) : g[m] = Pipeline!Stage(g_stages[m], g[m - 1])
      BY <2>2, <3>2
    <3>4. g_stages \in Seq(StageKinds) /\ g[0] \in Seq(Values)
      BY <1>2, <3>1, <3>2
    <3>5. \A m \in 0..Len(g_stages) : Pipeline!Levels(g_stages, g[0])[m] = g[m]
      BY ONLY <3>3, <3>4, LevelsUnique
    <3>6. QED
      BY ONLY <3>2, <3>5
  <2>5. ASSUME NEW m \in 1..N
        PROVE  ~Pipeline!Closed(g_stages[m], g_got[m - 1])
    <3>1. g_stages[m] \in StageKinds /\ g_got[m - 1] \in Seq(Values) /\ Len(g_got[m - 1]) \in Nat
      BY <1>2
    <3>2. CASE g_stages[m][1] = "take"
      <4>1. g_i[m] = Len(g_got[m - 1]) + 1 /\ g_i[m] <= g_stages[m][2]
        BY <1>8, <2>1, <3>2 DEF GenInv, GenCounts
      <4>2. g_stages[m][2] \in Int
        BY <3>1, <3>2, StageCases
      <4>3. ~(Len(g_got[m - 1]) >= g_stages[m][2])
        BY <3>1, <4>1, <4>2
      <4>4. QED
        BY <3>2, <4>3 DEF Pipeline!Closed
    <3>3. CASE g_stages[m][1] = "take_while"
      <4>1. \A j \in 1..Len(g_got[m - 1]) : g_stages[m][2][g_got[m - 1][j]]
        BY <2>1, <3>3 DEF GenInv, GenCounts
      <4>2. QED
        BY <3>3, <4>1 DEF Pipeline!Closed
    <3>4. QED
      BY <3>2, <3>3 DEF Pipeline!Closed
  <2>6. Len(g_got[0]) < Len(GenYielded(0)') /\ Len(g_got[0]) <= Len(GenYielded(0)')
    <3>1. g_got[0] \in Seq(Values)
      BY <1>2
    <3>2. QED
      BY <1>3, <1>12, <3>1
  <2>7. ASSUME NEW m \in 0..N
        PROVE  /\ Len(g_got[m]) <= Len(GenYielded(m)')
               /\ Len(g_got[m]) < Len(GenYielded(m)') \/ GenWaiting(m)'
    <3>1. CASE m = 0
      BY <2>6, <3>1
    <3>2. CASE m # 0
      <4>1. m \in 1..N
        BY <1>2, <3>2
      <4>2. GenYielded(m)' = g_got[m] /\ GenWaiting(m)' /\ g_got[m] \in Seq(Values)
        BY <1>2, <1>7, <1>8, <1>11, <2>2, <4>1
      <4>3. QED
        BY <4>2
    <3>3. QED
      BY <3>1, <3>2
  <2>8. \A m \in 1..N : GenBefore'[m - 1] = g_got[m - 1]
    BY <1>2, <2>3, <2>4
  <2>9. QED
    BY <1>1, <2>3, <2>4, <2>5, <2>7, <2>8 DEF GenDemand
<1>18. QED
  BY <1>9, <1>10, <1>14, <1>15, <1>16, <1>17 DEF GenInv

(* A step of the source: it yields, or comes to its end.                   *)
LEMMA GenFromArrayStep ==
  ASSUME GenInv, Pipeline!from_array
  PROVE  GenInv'
<1>1. CASE g_i[0] < Len(g_input)
  BY <1>1, GenSourceYields
<1>2. CASE ~(g_i[0] < Len(g_input))
  <2>1. /\ UNCHANGED <<g_input, g_stages, g_is_ready, g_value, g_i, g_inner, g_got>>
        /\ g_done' = [g_done EXCEPT ![0] = TRUE] /\ g_dir' = "up" /\ g_lev' = 0 /\ g_answer' = FALSE
        /\ g_dir = "down" /\ g_lev = 0 /\ ~g_is_ready[0]
    BY <1>2 DEF Pipeline!from_array, Pipeline!return_void, Pipeline!Return, Pipeline!Resumed
  <2>2. 0 \in 0..Len(g_stages) /\ Len(g_input) \in Nat /\ g_i[0] \in Nat
    <3>1. 0 \in 0..Len(g_stages) /\ g_input \in Seq(Values)
      BY GenFacts DEF GenInv
    <3>2. g_i \in [0..Len(g_stages) -> Nat]
      BY DEF GenInv, GenShape
    <3>3. QED
      BY <3>1, <3>2
  <2>3. g_inner[0] = <<>> /\ g_i[0] = Len(g_input)
    BY <1>2, <2>2 DEF GenInv, GenCalls, GenFlow
  <2>4. \A m \in 0..Len(g_stages) : Pipeline!Resumed(m) => m = 0
    BY <2>1 DEF Pipeline!Resumed
  <2>5. QED
    BY <2>1, <2>2, <2>3, <2>4, GenEndsHere
<1>3. QED
  BY <1>1, <1>2

(* What a body does with a value v of the level below: it yields w, ends,  *)
(* or holds q to yield; r and d say whether it has yielded or ended.       *)
GenTakes(l, d, r, w, q) ==
  LET k == g_stages[l]
      v == g_value[l - 1]
      s == Append(g_got[l - 1], v) IN
  /\ g_done' = [g_done EXCEPT ![l] = d] /\ g_value' = [g_value EXCEPT ![l] = w]
  /\ g_is_ready' = [[g_is_ready EXCEPT ![l - 1] = FALSE] EXCEPT ![l] = r]
  /\ g_inner' = [g_inner EXCEPT ![l] = q]
  /\ (IF r THEN Append(g_got[l], w) ELSE g_got[l]) \o q = Pipeline!Stage(k, s)
  /\ r => w \in Values
  /\ d => ~r /\ q = <<>> /\ Pipeline!Closed(k, s)
  /\ q # <<>> => k[1] = "flat_map"
  /\ ~d /\ k[1] = "take_while" => k[2][v]
  /\ g_dir' = "up" => IF g_answer' THEN r ELSE d
  /\ r \/ d \/ g_dir' = "down"

(* Every kind of stage takes a value in this way.                          *)
LEMMA GenNextValueEffect ==
  ASSUME GenInv, NEW l \in 1..Len(g_stages), Pipeline!NextValue(l)
  PROVE  \E d \in BOOLEAN, r \in BOOLEAN : \E w : \E q \in Seq(Values) : GenTakes(l, d, r, w, q)
<1> DEFINE N == Len(g_stages)
           k == g_stages[l]
           v == g_value[l - 1]
           s == Append(g_got[l - 1], v)
           c == Pipeline!Contribution(k, s, Len(g_got[l - 1]) + 1)
           consumed == [g_is_ready EXCEPT ![l - 1] = FALSE]
<1>1. g_dir = "up" /\ g_lev = l - 1 /\ g_answer
  BY DEF Pipeline!NextValue
<1>2. /\ N \in Nat /\ l \in 0..N /\ l - 1 \in 0..N /\ l # l - 1 /\ k \in StageKinds
      /\ g_got[l - 1] \in Seq(Values) /\ g_got[l] \in Seq(Values)
      /\ g_done \in [0..N -> BOOLEAN] /\ g_is_ready \in [0..N -> BOOLEAN]
      /\ g_inner \in [0..N -> Seq(Values)] /\ g_value = [m \in 0..N |-> g_value[m]]
  <2>1. N \in Nat /\ l \in 0..N /\ l - 1 \in 0..N /\ l # l - 1 /\ k \in StageKinds
    BY GenFacts DEF GenInv
  <2>2. /\ g_done \in [0..N -> BOOLEAN] /\ g_is_ready \in [0..N -> BOOLEAN]
        /\ g_inner \in [0..N -> Seq(Values)] /\ g_value = [m \in 0..N |-> g_value[m]]
        /\ g_got \in [0..N -> Seq(Values)]
    BY DEF GenInv, GenShape
  <2>3. QED
    BY <2>1, <2>2
<1>3. v \in Values
  BY <1>1, <1>2 DEF GenInv, GenCalls, GenShape
<1>4. GenWaiting(l)
  BY <1>1, <1>2 DEF GenWaiting
<1>5. ~g_done[l] /\ ~g_is_ready[l] /\ g_inner[l] = <<>>
  BY <1>2, <1>4 DEF GenInv, GenCalls
<1>6. Pipeline!Stage(k, s) = g_got[l] \o c
  <2>1. Pipeline!Stage(k, s) = Pipeline!Stage(k, g_got[l - 1]) \o c
    BY <1>2, <1>3, StageAppend
  <2>2. Pipeline!Stage(k, g_got[l - 1]) = g_got[l] \o <<>>
    BY <1>5 DEF GenInv, GenFlow, GenYielded
  <2>3. QED
    BY <1>2, <2>1, <2>2, ConcatEmptySeq
<1>7. /\ g_done = [g_done EXCEPT ![l] = FALSE] /\ consumed = [consumed EXCEPT ![l] = FALSE]
      /\ g_inner = [g_inner EXCEPT ![l] = <<>>] /\ g_value = [g_value EXCEPT ![l] = g_value[l]]
  <2>1. consumed \in [0..N -> BOOLEAN] /\ consumed[l] = FALSE
    BY <1>2, <1>5
  <2>2. g_done = [g_done EXCEPT ![l] = FALSE] /\ consumed = [consumed EXCEPT ![l] = FALSE]
    <3> HIDE DEF consumed
    <3>1. QED
      BY <1>2, <1>5, <2>1
  <2>3. g_inner = [g_inner EXCEPT ![l] = <<>>]
    BY <1>2, <1>5
  <2>4. g_value = [g_value EXCEPT ![l] = g_value[l]]
    BY <1>2
  <2>5. QED
    BY <2>2, <2>3, <2>4
<1>8. <<>> \in Seq(Values) /\ g_got[l] \o <<>> = g_got[l]
  BY <1>2, EmptySeq, ConcatEmptySeq
<1>9. ASSUME NEW w \in Values, c = <<w>>, k[1] # "flat_map", k[1] = "take_while" => k[2][v],
             Pipeline!yield_value(l, w, consumed), UNCHANGED g_inner
      PROVE  GenTakes(l, FALSE, TRUE, w, <<>>)
  <2>1. /\ g_value' = [g_value EXCEPT ![l] = w] /\ g_is_ready' = [consumed EXCEPT ![l] = TRUE]
        /\ g_done' = g_done /\ g_inner' = g_inner /\ g_dir' = "up" /\ g_answer' = TRUE
    BY <1>9 DEF Pipeline!yield_value, Pipeline!Return
  <2>2. Append(g_got[l], w) \o <<>> = g_got[l] \o c
    <3>1. Append(g_got[l], w) = g_got[l] \o <<w>> /\ Append(g_got[l], w) \in Seq(Values)
      BY <1>2, <1>9, AppendConcat
    <3>2. QED
      BY <1>9, <3>1, ConcatEmptySeq
  <2>3. g_done' = [g_done EXCEPT ![l] = FALSE] /\ g_inner' = [g_inner EXCEPT ![l] = <<>>]
    BY ONLY <1>7, <2>1
  <2> HIDE DEF c
  <2>4. QED
    BY <1>6, <1>9, <2>1, <2>2, <2>3 DEF GenTakes
<1>10. ASSUME c = <<>>, Pipeline!Closed(k, s), Pipeline!return_void(l, consumed), UNCHANGED g_inner
       PROVE  GenTakes(l, TRUE, FALSE, g_value[l], <<>>)
  <2>1. /\ g_value' = g_value /\ g_is_ready' = consumed /\ g_done' = [g_done EXCEPT ![l] = TRUE]
        /\ g_inner' = g_inner /\ g_dir' = "up" /\ g_answer' = FALSE
    BY <1>10 DEF Pipeline!return_void, Pipeline!Return
  <2>2. /\ g_value' = [g_value EXCEPT ![l] = g_value[l]] /\ g_inner' = [g_inner EXCEPT ![l] = <<>>]
        /\ g_is_ready' = [consumed EXCEPT ![l] = FALSE]
    BY ONLY <1>7, <2>1
  <2> HIDE DEF c
  <2>3. QED
    BY <1>6, <1>10, <2>1, <2>2 DEF GenTakes
<1>11. ASSUME c \in Seq(Values), c # <<>> => k[1] = "flat_map", k[1] # "take_while",
              g_inner' = [g_inner EXCEPT ![l] = c], g_is_ready' = consumed,
              g_dir' = "down", UNCHANGED <<g_done, g_value>>
       PROVE  GenTakes(l, FALSE, FALSE, g_value[l], c)
  <2>1. /\ g_value' = [g_value EXCEPT ![l] = g_value[l]] /\ g_done' = [g_done EXCEPT ![l] = FALSE]
        /\ g_is_ready' = [consumed EXCEPT ![l] = FALSE]
    BY ONLY <1>7, <1>11
  <2> HIDE DEF c
  <2>2. QED
    BY <1>6, <1>11, <2>1 DEF GenTakes
<1>12. /\ k[1] = "map" => c = <<k[2][v]>>
       /\ k[1] = "flat_map" => c = k[2][v]
       /\ k[1] = "filter" => c = IF k[2][v] THEN <<v>> ELSE <<>>
       /\ k[1] = "take" => c = IF Len(g_got[l - 1]) + 1 <= k[2] THEN <<v>> ELSE <<>>
       /\ k[1] = "take_while" /\ k[2][v] /\ (\A j \in 1..Len(g_got[l - 1]) : k[2][g_got[l - 1][j]]) => c = <<v>>
       /\ k[1] = "take_while" /\ ~k[2][v] => c = <<>>
  BY <1>2, <1>3, LastContribution
<1> HIDE DEF c
<1>13. CASE k[1] = "map" /\ Pipeline!yield_value(l, k[2][v], consumed) /\ UNCHANGED g_inner
  <2>1. k[2][v] \in Values
    BY <1>2, <1>3, <1>13, StageCases
  <2>2. GenTakes(l, FALSE, TRUE, k[2][v], <<>>)
    BY <1>9, <1>12, <1>13, <2>1
  <2>3. QED
    BY <1>8, <2>2
<1>14. CASE k[1] = "take" /\ Pipeline!yield_value(l, v, consumed) /\ UNCHANGED g_inner
  <2>1. g_i[l] = Len(g_got[l - 1]) + 1 /\ g_i[l] <= k[2]
    BY <1>4, <1>5, <1>14 DEF GenInv, GenCounts
  <2>2. c = <<v>>
    BY <1>12, <1>14, <2>1
  <2>3. GenTakes(l, FALSE, TRUE, v, <<>>)
    BY <1>3, <1>9, <1>14, <2>2
  <2>4. QED
    BY <1>8, <2>3
<1>15. CASE /\ k[1] \in {"filter", "take_while"} /\ k[2][v]
            /\ Pipeline!yield_value(l, v, consumed) /\ UNCHANGED g_inner
  <2>1. k[1] = "take_while" => \A j \in 1..Len(g_got[l - 1]) : k[2][g_got[l - 1][j]]
    BY <1>5 DEF GenInv, GenCounts
  <2>2. c = <<v>>
    BY <1>12, <1>15, <2>1
  <2>3. GenTakes(l, FALSE, TRUE, v, <<>>)
    BY <1>3, <1>9, <1>15, <2>2
  <2>4. QED
    BY <1>8, <2>3
<1>16. CASE /\ k[1] = "take_while" /\ ~k[2][v]
            /\ Pipeline!return_void(l, consumed) /\ UNCHANGED g_inner
  <2>1. Pipeline!Closed(k, s)
    <3>1. Len(s) \in 1..Len(s) /\ s[Len(s)] = v
      BY <1>2, <1>3
    <3>2. QED
      BY <1>16, <3>1 DEF Pipeline!Closed
  <2>2. GenTakes(l, TRUE, FALSE, g_value[l], <<>>)
    BY <1>10, <1>12, <1>16, <2>1
  <2>3. QED
    BY <1>8, <2>2
<1>17. CASE /\ k[1] = "filter" /\ ~k[2][v] /\ g_inner' = [g_inner EXCEPT ![l] = <<>>]
            /\ g_is_ready' = consumed /\ g_dir' = "down" /\ UNCHANGED <<g_done, g_value>>
  <2>1. c = <<>>
    BY <1>12, <1>17
  <2>2. GenTakes(l, FALSE, FALSE, g_value[l], c)
    BY <1>8, <1>11, <1>17, <2>1
  <2>3. QED
    BY <1>8, <2>1, <2>2
<1>18. CASE /\ k[1] = "flat_map" /\ g_inner' = [g_inner EXCEPT ![l] = k[2][v]]
            /\ g_is_ready' = consumed /\ g_dir' = "down" /\ UNCHANGED <<g_done, g_value>>
  <2>1. c = k[2][v] /\ c \in Seq(Values)
    BY <1>2, <1>3, <1>12, <1>18, StageCases
  <2>2. GenTakes(l, FALSE, FALSE, g_value[l], c)
    BY <1>11, <1>18, <2>1
  <2>3. QED
    BY <2>1, <2>2
<1>19. QED
  BY <1>13, <1>14, <1>15, <1>16, <1>17, <1>18 DEF Pipeline!NextValue, Pipeline!Kind, Pipeline!Arg

(* A body takes a value of the level below.                                *)
LEMMA GenNextValueStep ==
  ASSUME GenInv, NEW l \in 1..Len(g_stages), Pipeline!NextValue(l)
  PROVE  GenInv'
<1> DEFINE N == Len(g_stages)
           k == g_stages[l]
           v == g_value[l - 1]
           s == Append(g_got[l - 1], v)
<1>1. /\ UNCHANGED <<g_input, g_stages, g_i>> /\ g_dir = "up" /\ g_lev = l - 1 /\ g_answer
      /\ g_dir' \in {"down", "up"} /\ g_lev' = l /\ g_answer' \in {TRUE, FALSE, g_answer}
      /\ g_got' = [g_got EXCEPT ![l - 1] = s]
  BY DEF Pipeline!NextValue, Pipeline!yield_value, Pipeline!return_void, Pipeline!Return
<1>2. PICK d \in BOOLEAN, r \in BOOLEAN : \E w : \E q \in Seq(Values) : GenTakes(l, d, r, w, q)
  BY GenNextValueEffect
<1>3. PICK w : \E q \in Seq(Values) : GenTakes(l, d, r, w, q)
  BY <1>2
<1>4. PICK q \in Seq(Values) : GenTakes(l, d, r, w, q)
  BY <1>3
<1>5. /\ g_done' = [g_done EXCEPT ![l] = d] /\ g_value' = [g_value EXCEPT ![l] = w]
      /\ g_is_ready' = [[g_is_ready EXCEPT ![l - 1] = FALSE] EXCEPT ![l] = r]
      /\ g_inner' = [g_inner EXCEPT ![l] = q]
  BY <1>4 DEF GenTakes
<1>6. (IF r THEN Append(g_got[l], w) ELSE g_got[l]) \o q = Pipeline!Stage(k, s)
  BY <1>4 DEF GenTakes
<1>7. /\ r => w \in Values
      /\ d => ~r /\ q = <<>> /\ Pipeline!Closed(k, s)
      /\ q # <<>> => k[1] = "flat_map"
      /\ ~d /\ k[1] = "take_while" => k[2][v]
      /\ g_dir' = "up" => IF g_answer' THEN r ELSE d
      /\ r \/ d \/ g_dir' = "down"
  BY <1>4 DEF GenTakes
<1>8. /\ N \in Nat /\ 0 \in 0..N /\ l \in 0..N /\ l - 1 \in 0..N /\ l # l - 1 /\ l # 0
      /\ k \in StageKinds /\ \A m \in 1..N : m \in 0..N /\ m - 1 \in 0..N
      /\ \A m \in 1..N : m # l => m - 1 # l - 1
  <2>1. /\ N \in Nat /\ 0 \in 0..N /\ l \in 0..N /\ l - 1 \in 0..N /\ l # l - 1 /\ l # 0
        /\ k \in StageKinds /\ \A m \in 1..N : m \in 0..N /\ m - 1 \in 0..N
    BY GenFacts DEF GenInv
  <2>2. \A m \in 1..N : m # l => m - 1 # l - 1
    BY <2>1
  <2>3. QED
    BY <2>1, <2>2
<1>9. /\ g_done \in [0..N -> BOOLEAN] /\ g_is_ready \in [0..N -> BOOLEAN]
      /\ g_inner \in [0..N -> Seq(Values)] /\ g_value = [m \in 0..N |-> g_value[m]]
      /\ g_got \in [0..N -> Seq(Values)] /\ g_answer \in BOOLEAN
  BY DEF GenInv, GenShape
<1>10. g_is_ready[l - 1] /\ v \in Values
  BY <1>1, <1>8 DEF GenInv, GenCalls, GenShape
<1>11. GenWaiting(l)
  BY <1>1, <1>8 DEF GenWaiting
<1>12. ~g_done[l] /\ ~g_is_ready[l] /\ g_inner[l] = <<>>
  BY <1>8, <1>11 DEF GenInv, GenCalls
<1>13. /\ s \in Seq(Values) /\ Len(s) = Len(g_got[l - 1]) + 1 /\ Len(g_got[l - 1]) \in Nat
       /\ \A j \in 1..Len(s) : (j \in 1..Len(g_got[l - 1]) /\ s[j] = g_got[l - 1][j]) \/ s[j] = v
  <2>1. PICK z \in Seq(Values) : z = g_got[l - 1]
    BY <1>8, <1>9
  <2>2. /\ Append(z, v) \in Seq(Values) /\ Len(Append(z, v)) = Len(z) + 1 /\ Len(z) \in Nat
        /\ \A j \in 1..Len(Append(z, v)) :
             (j \in 1..Len(z) /\ Append(z, v)[j] = z[j]) \/ Append(z, v)[j] = v
    BY <1>10, <2>1
  <2>3. QED
    BY <2>1, <2>2
<1> HIDE DEF s
<1>14. /\ g_done' \in [0..N -> BOOLEAN] /\ g_done'[l] = d
       /\ \A m \in 0..N : m # l => g_done'[m] = g_done[m]
  BY <1>5, <1>8, <1>9
<1>15. /\ g_is_ready' \in [0..N -> BOOLEAN] /\ g_is_ready'[l] = r /\ g_is_ready'[l - 1] = FALSE
       /\ \A m \in 0..N : m # l /\ m # l - 1 => g_is_ready'[m] = g_is_ready[m]
  BY <1>5, <1>8, <1>9
<1>16. /\ g_value' = [m \in 0..N |-> g_value'[m]] /\ g_value'[l] = w
       /\ \A m \in 0..N : m # l => g_value'[m] = g_value[m]
  BY <1>5, <1>8, <1>9
<1>17. /\ g_inner' \in [0..N -> Seq(Values)] /\ g_inner'[l] = q
       /\ \A m \in 0..N : m # l => g_inner'[m] = g_inner[m]
  BY <1>5, <1>8, <1>9
<1>18. /\ g_got' \in [0..N -> Seq(Values)] /\ g_got'[l - 1] = s
       /\ \A m \in 0..N : m # l - 1 => g_got'[m] = g_got[m]
  BY <1>1, <1>8, <1>9, <1>13
<1>19. \A m \in 0..N : /\ GenWaiting(m)' <=> GenWaiting(m) /\ m # l
                       /\ ~Pipeline!Resumed(m)
  BY <1>1, <1>8 DEF GenWaiting, Pipeline!Resumed
<1>20. \A m \in 0..N : m # l => (g_is_ready'[m] => g_is_ready[m])
  BY <1>15
<1>21. GenShape'
  <2>1. \A m \in 0..N : g_is_ready'[m] => g_value'[m] \in Values
    BY <1>7, <1>15, <1>16, <1>20 DEF GenInv, GenShape
  <2>2. /\ g_input' \in Inputs /\ g_stages' \in Pipelines /\ g_i' \in [0..N -> Nat]
        /\ g_dir' \in {"idle", "down", "up", "destroyed"} /\ g_lev' \in 0..N /\ g_answer' \in BOOLEAN
    BY <1>1, <1>8, <1>9 DEF GenInv, GenShape
  <2>3. QED
    BY <1>1, <1>14, <1>15, <1>16, <1>17, <1>18, <2>1, <2>2 DEF GenShape
<1>22. GenCalls'
  <2>1. ASSUME NEW m \in 0..N
        PROVE  /\ GenWaiting(m)' => ~g_done'[m]
               /\ GenWaiting(m)' \/ g_done'[m] => ~g_is_ready'[m] /\ g_inner'[m] = <<>>
               /\ g_inner'[m] # <<>> => m # 0 /\ g_stages[m][1] = "flat_map"
    <3>1. CASE m = l
      BY <1>7, <1>8, <1>14, <1>15, <1>17, <1>19, <3>1
    <3>2. CASE m # l
      BY <1>14, <1>17, <1>19, <1>20, <3>2 DEF GenInv, GenCalls
    <3>3. QED
      BY <3>1, <3>2
  <2>2. g_dir' = "up" => IF g_answer' THEN g_is_ready'[g_lev'] ELSE g_done'[g_lev']
    BY <1>1, <1>7, <1>14, <1>15
  <2>3. QED
    BY <1>1, <2>1, <2>2 DEF GenCalls
<1>23. ASSUME NEW m \in 0..N, m # l
       PROVE  GenYielded(m)' = GenYielded(m)
  <2>1. CASE m = l - 1
    BY <1>10, <1>15, <1>18, <2>1 DEF GenYielded, s
  <2>2. CASE m # l - 1
    BY <1>15, <1>16, <1>18, <1>23, <2>2 DEF GenYielded
  <2>3. QED
    BY <2>1, <2>2
<1>24. GenYielded(l) = g_got[l] /\ GenYielded(l)' = IF r THEN Append(g_got[l], w) ELSE g_got[l]
  BY <1>8, <1>12, <1>15, <1>16, <1>18 DEF GenYielded
<1>25. GenFlow'
  <2>1. GenYielded(0)' = GenYielded(0)
    BY <1>8, <1>23
  <2>2. ASSUME NEW m \in 1..N
        PROVE  GenYielded(m)' \o g_inner'[m] = Pipeline!Stage(g_stages[m], g_got'[m - 1])
    <3>1. CASE m = l
      BY <1>6, <1>17, <1>18, <1>24, <3>1
    <3>2. CASE m # l
      <4>1. GenYielded(m)' = GenYielded(m) /\ g_inner'[m] = g_inner[m] /\ g_got'[m - 1] = g_got[m - 1]
        BY <1>8, <1>17, <1>18, <1>23, <3>2
      <4>2. QED
        BY <4>1 DEF GenInv, GenFlow
    <3>3. QED
      BY <3>1, <3>2
  <2>3. QED
    BY <1>1, <2>1, <2>2 DEF GenInv, GenFlow
<1>26. GenEnds'
  <2>1. g_done'[0] => g_i'[0] = Len(g_input')
    BY <1>1, <1>8, <1>14 DEF GenInv, GenEnds
  <2>2. ASSUME NEW m \in 1..N, g_done'[m]
        PROVE  Pipeline!Closed(g_stages[m], g_got'[m - 1]) \/ g_done'[m - 1]
    <3>1. CASE m = l
      BY <1>7, <1>14, <1>18, <2>2, <3>1
    <3>2. CASE m # l
      <4>1. g_done[m] /\ g_got'[m - 1] = g_got[m - 1] /\ (g_done[m - 1] => g_done'[m - 1])
        BY <1>8, <1>12, <1>14, <1>18, <2>2, <3>2
      <4>2. QED
        BY <4>1 DEF GenInv, GenEnds
    <3>3. QED
      BY <3>1, <3>2
  <2>3. QED
    BY <1>1, <2>1, <2>2 DEF GenEnds
<1>27. GenCounts'
  <2>1. SUFFICES ASSUME NEW m \in 1..N, ~g_done'[m]
                 PROVE  /\ g_stages[m][1] = "take" =>
                             /\ g_i[m] = Len(g_got'[m - 1]) + IF GenWaiting(m)' THEN 1 ELSE 0
                             /\ GenWaiting(m)' => g_i[m] <= g_stages[m][2]
                        /\ g_stages[m][1] = "take_while" =>
                             \A j \in 1..Len(g_got'[m - 1]) : g_stages[m][2][g_got'[m - 1][j]]
    BY <1>1 DEF GenCounts
  <2>2. ~g_done[m]
    BY <1>8, <1>12, <1>14, <2>1
  <2>3. /\ g_stages[m][1] = "take" =>
             /\ g_i[m] = Len(g_got[m - 1]) + IF GenWaiting(m) THEN 1 ELSE 0
             /\ GenWaiting(m) => g_i[m] <= g_stages[m][2]
        /\ g_stages[m][1] = "take_while" =>
             \A j \in 1..Len(g_got[m - 1]) : g_stages[m][2][g_got[m - 1][j]]
    BY <2>2 DEF GenInv, GenCounts
  <2>4. CASE m # l
    BY <1>8, <1>18, <1>19, <2>3, <2>4
  <2>5. CASE m = l
    <3>1. g_stages[l][1] = "take" => g_i[l] = Len(s) + 0
      BY <1>11, <1>13, <2>3, <2>5
    <3>2. ASSUME g_stages[l][1] = "take_while", NEW j \in 1..Len(s)
          PROVE  g_stages[l][2][s[j]]
      BY <1>7, <1>13, <1>14, <2>1, <2>3, <2>5, <3>2
    <3>3. ~GenWaiting(l)' /\ g_got'[l - 1] = s
      BY <1>8, <1>18, <1>19
    <3>4. QED
      BY <2>5, <3>1, <3>2, <3>3
  <2>6. QED
    BY <2>4, <2>5
<1>28. GenDemand'
  <2>1. /\ Len(GenYielded(l)') \in Nat
        /\ \/ Len(GenYielded(l)') > Len(GenYielded(l))
           \/ Len(GenYielded(l)') = Len(GenYielded(l)) /\ (g_done'[l] \/ Pipeline!Resumed(l)')
    <3>1. PICK z \in Seq(Values) : z = g_got[l]
      BY <1>8, <1>9
    <3>2. CASE r
      BY <1>7, <1>24, <3>1, <3>2
    <3>3. CASE ~r
      <4>1. g_done'[l] \/ Pipeline!Resumed(l)'
        BY <1>1, <1>7, <1>14, <1>15, <3>3 DEF Pipeline!Resumed
      <4>2. QED
        BY <1>24, <3>1, <3>3, <4>1
    <3>4. QED
      BY <3>2, <3>3
  <2>2. \A m \in 0..Len(g_stages) : m # l =>
           /\ GenYielded(m)' = GenYielded(m) /\ (GenWaiting(m) => GenWaiting(m)')
           /\ ~Pipeline!Resumed(m) /\ (g_done[m] => g_done'[m])
    BY <1>14, <1>19, <1>23
  <2>3. QED
    BY <1>1, <1>8, <2>1, <2>2, GenDemandKept
<1>29. QED
  BY <1>21, <1>22, <1>25, <1>26, <1>27, <1>28 DEF GenInv

-----------------------------------------------------------------------------
(* THEOREM.  The pipeline keeps its invariant: every level has yielded     *)
(* what it makes of what it has got, ends for a reason only, and the       *)
(* source is resumed on demand.                                            *)
THEOREM GeneratorInvariance == Pipeline!Spec => []GenInv
<1>1. Pipeline!Init => GenInv
  BY GenStart
<1>2. GenInv /\ [Pipeline!Next]_Pipeline!vars => GenInv'
  <2>1. SUFFICES ASSUME GenInv, [Pipeline!Next]_Pipeline!vars PROVE GenInv'
    OBVIOUS
  <2>2. CASE UNCHANGED Pipeline!vars
    <3>1. /\ UNCHANGED <<g_input, g_stages, g_done, g_is_ready, g_value, g_i, g_inner, g_got>>
          /\ UNCHANGED <<g_dir, g_lev, g_answer>>
      BY <2>2 DEF Pipeline!vars
    <3>2. \A l \in 0..Len(g_stages) : /\ GenWaiting(l)' <=> GenWaiting(l)
                                      /\ Pipeline!Resumed(l)' <=> Pipeline!Resumed(l)
      BY <3>1 DEF GenWaiting, Pipeline!Resumed
    <3>3. /\ g_dir' \in {"idle", "down", "up", "destroyed"} /\ g_lev' \in 0..Len(g_stages)
          /\ g_answer' \in BOOLEAN
      BY <2>1, <3>1 DEF GenInv, GenShape
    <3>4. g_dir' = "up" => IF g_answer' THEN g_is_ready[g_lev'] ELSE g_done[g_lev']
      BY <2>1, <3>1 DEF GenInv, GenCalls
    <3>5. QED
      BY <2>1, <3>1, <3>2, <3>3, <3>4, GenMoves
  <2>3. CASE Pipeline!HasNext
    BY <2>1, <2>3, GenHasNextStep
  <2>4. CASE Pipeline!Answered
    BY <2>1, <2>4, GenAnsweredStep
  <2>5. CASE Pipeline!from_array
    BY <2>1, <2>5, GenFromArrayStep
  <2>6. CASE Pipeline!Destroy
    BY <2>1, <2>6, GenDestroyStep
  <2>7. ASSUME NEW l \in 0..Len(g_stages), Pipeline!HasNextKnown(l)
        PROVE  GenInv'
    BY <2>1, <2>7, GenHasNextKnownStep
  <2>8. ASSUME NEW l \in 1..Len(g_stages), Pipeline!FlatMapInner(l)
        PROVE  GenInv'
    BY <2>1, <2>8, GenFlatMapInnerStep
  <2>9. ASSUME NEW l \in 1..Len(g_stages), Pipeline!TakeEnd(l)
        PROVE  GenInv'
    BY <2>1, <2>9, GenTakeEndStep
  <2>10. ASSUME NEW l \in 1..Len(g_stages), Pipeline!AskBelow(l)
         PROVE  GenInv'
    BY <2>1, <2>10, GenAskBelowStep
  <2>11. ASSUME NEW l \in 1..Len(g_stages), Pipeline!NoMore(l)
         PROVE  GenInv'
    BY <2>1, <2>11, GenNoMoreStep
  <2>12. ASSUME NEW l \in 1..Len(g_stages), Pipeline!NextValue(l)
         PROVE  GenInv'
    BY <2>1, <2>12, GenNextValueStep
  <2>13. QED
    BY <2>1, <2>2, <2>3, <2>4, <2>5, <2>6, <2>7, <2>8, <2>9, <2>10, <2>11, <2>12
       DEF Pipeline!Next, Pipeline!Top
<1>3. QED
  BY <1>1, <1>2, PTL DEF Pipeline!Spec

(* What a level has yielded begins what it is to yield, and is all of it   *)
(* when the level has ended.                                               *)
LEMMA GenOnCourse ==
  ASSUME GenInv, NEW l \in 0..Len(g_stages)
  PROVE  LET all == Pipeline!Levels(g_stages, g_input) IN
         Pipeline!Begins(GenYielded(l), all[l]) /\ (g_done[l] => g_got[l] = all[l])
<1> DEFINE N == Len(g_stages)
           L == Pipeline!Levels(g_stages, g_input)
           T == {m \in 0..N : Pipeline!Begins(GenYielded(m), L[m]) /\ (g_done[m] => g_got[m] = L[m])}
<1>1. /\ N \in Nat /\ 0 \in 0..N /\ g_input \in Seq(Values)
      /\ \A m \in 1..N : g_stages[m] \in StageKinds /\ m \in 0..N /\ m - 1 \in 0..N
  BY GenFacts DEF GenInv
<1>2. /\ L \in [0..N -> Seq(Values)] /\ L[0] = g_input
      /\ \A m \in 1..N : L[m] = Pipeline!Stage(g_stages[m], L[m - 1])
  BY GenFacts, LevelsUnfold DEF GenInv
<1> HIDE DEF L
<1>3. /\ g_got \in [0..N -> Seq(Values)] /\ g_inner \in [0..N -> Seq(Values)]
      /\ g_i[0] \in Nat /\ g_i[0] <= Len(g_input) /\ GenYielded(0) = SubSeq(g_input, 1, g_i[0])
  BY <1>1 DEF GenInv, GenShape, GenFlow
<1>4. ASSUME NEW m \in 0..N, g_done[m]
      PROVE  GenYielded(m) = g_got[m] /\ g_inner[m] = <<>>
  BY <1>4 DEF GenInv, GenCalls, GenYielded
<1>5. 0 \in T
  <2>1. Pipeline!Begins(SubSeq(g_input, 1, g_i[0]), g_input)
    <3>1. PICK n \in Nat : n = g_i[0]
      BY <1>3
    <3>2. Pipeline!Begins(SubSeq(g_input, 1, n), g_input)
      BY <1>1, <1>3, <3>1 DEF Pipeline!Begins
    <3>3. QED
      BY <3>1, <3>2
  <2>2. ASSUME g_done[0] PROVE g_got[0] = g_input
    <3>1. g_i[0] = Len(g_input) /\ GenYielded(0) = g_got[0]
      BY <1>1, <1>4, <2>2 DEF GenInv, GenEnds
    <3>2. SubSeq(g_input, 1, Len(g_input)) = g_input
      BY <1>1, SubSeqFull
    <3>3. QED
      BY <1>3, <3>1, <3>2, Zenon
  <2>3. QED
    BY <1>1, <1>2, <1>3, <2>1, <2>2
<1>6. ASSUME NEW m \in 1..N, m - 1 \in T
      PROVE  m \in T
  <2>1. /\ Pipeline!Begins(GenYielded(m - 1), L[m - 1]) /\ (g_done[m - 1] => g_got[m - 1] = L[m - 1])
        /\ m \in 0..N /\ m - 1 \in 0..N /\ g_stages[m] \in StageKinds
        /\ g_got[m - 1] \in Seq(Values) /\ L[m - 1] \in Seq(Values) /\ g_inner[m] \in Seq(Values)
        /\ L[m] = Pipeline!Stage(g_stages[m], L[m - 1]) /\ L[m] \in Seq(Values) /\ g_got[m] \in Seq(Values)
    BY <1>1, <1>2, <1>3, <1>6
  <2>2. Pipeline!Begins(g_got[m - 1], L[m - 1])
    <3>1. PICK a, b, x : a = g_got[m - 1] /\ b = L[m - 1] /\ x = g_value[m - 1]
      OBVIOUS
    <3>2. CASE g_is_ready[m - 1]
      <4>1. Pipeline!Begins(Append(a, x), b) /\ a \in Seq(Values) /\ x \in Values /\ b \in Seq(Values)
        BY <2>1, <3>1, <3>2 DEF GenYielded, GenInv, GenShape
      <4>2. Pipeline!Begins(a, b)
        <5>1. Len(Append(a, x)) = Len(a) + 1 /\ Len(a) \in Nat /\ Len(b) \in Nat
          BY <4>1
        <5>2. Len(a) <= Len(b)
          BY <4>1, <5>1 DEF Pipeline!Begins
        <5>3. ASSUME NEW j \in 1..Len(a) PROVE a[j] = b[j]
          <6>1. j \in 1..Len(Append(a, x)) /\ Append(a, x)[j] = a[j]
            BY <4>1, <5>1
          <6>2. QED
            BY <4>1, <6>1 DEF Pipeline!Begins
        <5>4. QED
          BY <5>2, <5>3 DEF Pipeline!Begins
      <4>3. QED
        BY <3>1, <4>2
    <3>3. CASE ~g_is_ready[m - 1]
      BY <2>1, <3>3 DEF GenYielded
    <3>4. QED
      BY <3>2, <3>3
  <2>3. Pipeline!Begins(Pipeline!Stage(g_stages[m], g_got[m - 1]), L[m])
    BY <2>1, <2>2, StageGrows
  <2>4. GenYielded(m) \o g_inner[m] = Pipeline!Stage(g_stages[m], g_got[m - 1])
    BY DEF GenInv, GenFlow
  <2>5. Pipeline!Begins(GenYielded(m), L[m])
    <3>1. PICK a, b, c : a = GenYielded(m) /\ b = g_inner[m] /\ c = L[m]
      OBVIOUS
    <3>2. a \in Seq(Values) /\ b \in Seq(Values) /\ c \in Seq(Values) /\ Pipeline!Begins(a \o b, c)
      BY <2>1, <2>3, <2>4, <3>1, GenYieldedType DEF GenInv
    <3>3. Len(a \o b) = Len(a) + Len(b) /\ Len(a) \in Nat /\ Len(b) \in Nat /\ Len(c) \in Nat
      BY <3>2
    <3>4. \A j \in 1..Len(a) : j \in 1..Len(a \o b) /\ (a \o b)[j] = a[j]
      BY <3>2, <3>3
    <3>5. Pipeline!Begins(a, c)
      BY <3>2, <3>3, <3>4 DEF Pipeline!Begins
    <3>6. QED
      BY <3>1, <3>5
  <2>6. ASSUME g_done[m] PROVE g_got[m] = L[m]
    <3>1. g_got[m] = Pipeline!Stage(g_stages[m], g_got[m - 1])
      <4>1. GenYielded(m) = g_got[m] /\ g_inner[m] = <<>>
        BY <1>4, <2>1, <2>6
      <4>2. QED
        BY <2>1, <2>4, <4>1, ConcatEmptySeq
    <3>2. CASE Pipeline!Closed(g_stages[m], g_got[m - 1])
      BY <2>1, <2>2, <3>1, <3>2, StageEnough
    <3>3. CASE g_done[m - 1]
      BY <2>1, <3>1, <3>3
    <3>4. QED
      BY <2>6, <3>2, <3>3 DEF GenInv, GenEnds
  <2>7. QED
    BY <2>1, <2>5, <2>6
<1>7. T = 0..N
  <2>1. T \in SUBSET (0..N)
    OBVIOUS
  <2> HIDE DEF T
  <2>2. QED
    BY <1>1, <1>5, <1>6, <2>1, SetInduction
<1>8. QED
  BY <1>7 DEF L

(* The invariant says that the yield is exact.                             *)
LEMMA GenExact ==
  ASSUME GenInv
  PROVE  GeneratorExact
<1> DEFINE N == Len(g_stages)
           all == Pipeline!Levels(g_stages, g_input)[N]
<1>1. N \in 0..N /\ g_got[N] \in Seq(Values) /\ all \in Seq(Values)
  <2>1. N \in 0..N /\ g_stages \in Seq(StageKinds) /\ g_input \in Seq(Values)
    BY GenFacts DEF GenInv
  <2>2. g_got \in [0..N -> Seq(Values)]
    BY DEF GenInv, GenShape
  <2>3. Pipeline!Levels(g_stages, g_input) \in [0..N -> Seq(Values)]
    BY <2>1, LevelsUnfold
  <2>4. QED
    BY <2>1, <2>2, <2>3
<1>2. Pipeline!Begins(GenYielded(N), all) /\ (g_done[N] => g_got[N] = all)
  BY <1>1, GenOnCourse
<1> HIDE DEF all
<1>3. PICK a \in Seq(Values) : a = g_got[N]
  BY <1>1
<1>4. Pipeline!YieldsAll
  <2>1. CASE g_is_ready[N]
    <3>1. PICK x \in Values : x = g_value[N]
      BY <1>1, <2>1 DEF GenInv, GenShape
    <3>2. Pipeline!Begins(Append(a, x), all)
      BY <1>2, <1>3, <2>1, <3>1 DEF GenYielded
    <3>3. Len(Append(a, x)) = Len(a) + 1 /\ Append(a, x)[Len(a) + 1] = x /\ Len(a) \in Nat /\ Len(all) \in Nat
      BY <1>1, <3>1
    <3>4. Len(a) + 1 <= Len(all) /\ x = all[Len(a) + 1]
      <4>1. Len(a) + 1 \in 1..Len(Append(a, x))
        BY <3>3
      <4>2. QED
        BY <3>2, <3>3, <4>1 DEF Pipeline!Begins
    <3>5. ASSUME NEW j \in 1..Len(a) PROVE a[j] = all[j]
      <4>1. j \in 1..Len(Append(a, x)) /\ Append(a, x)[j] = a[j]
        BY <3>1, <3>3
      <4>2. QED
        BY <3>2, <4>1 DEF Pipeline!Begins
    <3>6. Pipeline!Begins(a, all)
      BY <3>3, <3>4, <3>5 DEF Pipeline!Begins
    <3>7. QED
      BY <1>2, <1>3, <3>1, <3>4, <3>6 DEF Pipeline!YieldsAll, Pipeline!Top, all
  <2>2. CASE ~g_is_ready[N]
    BY <1>2, <2>2 DEF GenYielded, Pipeline!YieldsAll, Pipeline!Top, all
  <2>3. QED
    BY <2>1, <2>2
<1>5. Pipeline!Lazy
  <2>1. SUFFICES ASSUME g_i[0] > 0
                 PROVE  /\ \A l \in 1..N : ~Pipeline!Closed(g_stages[l], GenBefore[l - 1])
                        /\ g_dir = "idle" =>
                             \/ Len(GenBefore[N]) < Len(g_got[N]) + IF g_is_ready[N] THEN 1 ELSE 0
                             \/ g_done[N]
    BY DEF Pipeline!Lazy, Pipeline!Top, GenBefore
  <2>2. /\ \A l \in 1..N : ~Pipeline!Closed(g_stages[l], GenBefore[l - 1])
        /\ \/ Len(GenBefore[N]) < Len(GenYielded(N))
           \/ GenWaiting(N) \/ Pipeline!Resumed(N) \/ g_done[N]
    BY <1>1, <2>1 DEF GenInv, GenDemand
  <2>3. Len(GenYielded(N)) = Len(g_got[N]) + IF g_is_ready[N] THEN 1 ELSE 0
    <3>1. CASE g_is_ready[N]
      <4>1. PICK x \in Values : x = g_value[N]
        BY <1>1, <3>1 DEF GenInv, GenShape
      <4>2. Len(Append(a, x)) = Len(a) + 1
        OBVIOUS
      <4>3. QED
        BY <1>3, <3>1, <4>1, <4>2 DEF GenYielded
    <3>2. CASE ~g_is_ready[N]
      BY <1>3, <3>2 DEF GenYielded
    <3>3. QED
      BY <3>1, <3>2
  <2>4. g_dir = "idle" => ~GenWaiting(N) /\ ~Pipeline!Resumed(N)
    BY DEF GenWaiting, Pipeline!Resumed
  <2>5. QED
    BY <2>2, <2>3, <2>4
<1>6. QED
  BY <1>4, <1>5 DEF GeneratorExact, Pipeline!Exact

(* THEOREM.  Whatever the source and the stages of a pipeline are, what    *)
(* the consumer gets is what the stages make of the source, in order, all  *)
(* of it when has_next is false; the source is resumed only when no stage  *)
(* has had enough and the consumer wants more.                             *)
THEOREM GeneratorYieldsExactly == Pipeline!Spec => []GeneratorExact
  BY GeneratorInvariance, GenExact, PTL
=============================================================================
