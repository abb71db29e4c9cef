----------------------------- MODULE TaskPromise -----------------------------
(***************************************************************************)
(* Completion of a Task: TaskPromise of coroutine/task_promise.h, with     *)
(* Task (task.h) and TaskAwaiter (task_awaiter.h) as its users.            *)
(*                                                                         *)
(* The coroutine of the task finishes in return_value, return_void or      *)
(* unhandled_exception (the same code): it stores the result, notifies     *)
(* completion and runs the callbacks, all under completion_lock.  Getters  *)
(* are threads in get_result().  Callbacks are registered by on_completed: *)
(* a plain one (then, catching, finally) just runs; one of a TaskAwaiter   *)
(* resumes the awaiting coroutine on its executor, where await_resume      *)
(* calls get_result() again.                                               *)
(***************************************************************************)
EXTENDS Naturals, FiniteSets

CONSTANTS Getters,            \* threads that call get_result()
          Plain,              \* callers of then, catching or finally
          Awaiters,           \* coroutines that co_await the task
          InlineExecutor,     \* do the awaiters run on a NoopExecutor?
          Task, Nobody        \* the task's own thread; holder of a free mutex

Callbacks == Plain \cup Awaiters
Threads   == Getters \cup Callbacks \cup {Task}

VARIABLES
  result,        \* has the promise a result?
  holder,        \* holder of completion_lock
  waiters,       \* threads blocked in completion.wait
  callbacks,     \* completion_callbacks
  pc,            \* position of each thread
  runs,          \* how often each callback has been run
  got            \* what get_result returned: "none", "result", "nothing"

vars == <<result, holder, waiters, callbacks, pc, runs, got>>

Init ==
  /\ result = FALSE /\ holder = Nobody /\ waiters = {} /\ callbacks = {}
  /\ pc = [t \in Threads |-> "start"]
  /\ runs = [c \in Callbacks |-> 0]
  /\ got = [t \in Getters \cup Awaiters |-> "none"]

Goto(t, l) == pc' = [pc EXCEPT ![t] = l]

-----------------------------------------------------------------------------
(* return_value: lock, store, notify_all.                                  *)

(* Mutant: getters are not notified.                                       *)
ReturnUnnotified ==
  /\ pc[Task] = "start" /\ holder = Nobody
  /\ holder' = Task /\ result' = TRUE
  /\ Goto(Task, "callbacks")
  /\ UNCHANGED <<waiters, callbacks, runs, got>>

return_value ==
  /\ pc[Task] = "start" /\ holder = Nobody
  /\ holder' = Task /\ result' = TRUE /\ waiters' = {}
  /\ Goto(Task, "callbacks")
  /\ UNCHANGED <<callbacks, runs, got>>

(* The callback of an awaiter resumes its coroutine, which goes on in      *)
(* await_resume at position pos.                                           *)
RunCallback(c, pos) ==
  /\ runs' = [runs EXCEPT ![c] = @ + 1]
  /\ Goto(c, IF c \in Awaiters THEN pos ELSE "done")

(* notify_callbacks: a NoopExecutor runs the coroutine inside the callback *)
(* and the task's thread goes on when the coroutine is suspended again.    *)
Nested == \E a \in Awaiters : pc[a] = "nested"
NotifyCallback(c) ==
  /\ pc[Task] = "callbacks" /\ c \in callbacks /\ ~Nested
  /\ RunCallback(c, IF InlineExecutor THEN "nested" ELSE "get")
  /\ callbacks' = callbacks \ {c}
  /\ UNCHANGED <<result, holder, waiters, got>>

ReturnUnlock ==
  /\ pc[Task] = "callbacks" /\ callbacks = {} /\ ~Nested
  /\ holder' = Nobody /\ Goto(Task, "done")
  /\ UNCHANGED <<result, waiters, callbacks, runs, got>>

-----------------------------------------------------------------------------
(* on_completed.                                                           *)

(* Mutant: a callback is registered although the task has finished.        *)
OnCompletedRegisters(c) ==
  /\ pc[c] = "start" /\ holder = Nobody
  /\ callbacks' = callbacks \cup {c} /\ Goto(c, "registered")
  /\ UNCHANGED <<result, holder, waiters, runs, got>>

on_completed(c) ==
  /\ pc[c] = "start" /\ holder = Nobody
  /\ IF result THEN Goto(c, "run") /\ UNCHANGED callbacks
               ELSE callbacks' = callbacks \cup {c} /\ Goto(c, "registered")
  /\ UNCHANGED <<result, holder, waiters, runs, got>>

(* The result was there: the callback runs after the lock is released.     *)
CallNow(c) ==
  /\ pc[c] = "run"
  /\ RunCallback(c, "get")
  /\ UNCHANGED <<result, holder, waiters, callbacks, got>>

-----------------------------------------------------------------------------
(* get_result, of a getter or of await_resume.  A nested one waits for the *)
(* lock its own thread holds.                                              *)

At(t) == pc[t] \in IF t \in Getters THEN {"start"} ELSE {"get", "nested"}

GetNow(t) ==
  /\ At(t) /\ holder = Nobody /\ result
  /\ got' = [got EXCEPT ![t] = "result"] /\ Goto(t, "done")
  /\ UNCHANGED <<result, holder, waiters, callbacks, runs>>

GetWait(t) ==
  /\ At(t) /\ holder = Nobody /\ ~result
  /\ waiters' = waiters \cup {t} /\ Goto(t, "wait")
  /\ UNCHANGED <<result, holder, callbacks, runs, got>>

(* After the wait the result is read without another look.                 *)
GetWoken(t) ==
  /\ pc[t] = "wait" /\ t \notin waiters /\ holder = Nobody
  /\ got' = [got EXCEPT ![t] = IF result THEN "result" ELSE "nothing"]
  /\ Goto(t, "done")
  /\ UNCHANGED <<result, holder, waiters, callbacks, runs>>

(* A condition variable may wake up a thread that nobody notified.         *)
SpuriousWakeup(t) ==
  /\ t \in waiters
  /\ waiters' = waiters \ {t}
  /\ UNCHANGED <<result, holder, callbacks, pc, runs, got>>

get_result(t) == GetNow(t) \/ GetWait(t) \/ GetWoken(t)

-----------------------------------------------------------------------------
Complete == \/ return_value \/ ReturnUnlock
            \/ \E c \in Callbacks : NotifyCallback(c)

Steps ==
  \/ Complete
  \/ \E c \in Callbacks : on_completed(c) \/ CallNow(c)
  \/ \E t \in Getters \cup Awaiters : get_result(t)

Next == Steps \/ \E t \in Getters \cup Awaiters : SpuriousWakeup(t)

(* The lock is handed over in the end, and threads that have work go on.   *)
Fairness ==
  /\ WF_vars(Complete)
  /\ \A c \in Callbacks : WF_vars(CallNow(c)) /\ SF_vars(on_completed(c))
  /\ \A t \in Getters \cup Awaiters : SF_vars(get_result(t))

Spec == Init /\ [][Next]_vars
FairSpec == Spec /\ Fairness

-----------------------------------------------------------------------------
(* Types; a waiter has no result, a getter no lock while it waits.         *)
TypeOK ==
  /\ result \in BOOLEAN /\ holder \in {Task, Nobody}
  /\ waiters \subseteq {t \in Getters \cup Awaiters : pc[t] = "wait"}
  /\ callbacks \subseteq {c \in Callbacks : pc[c] = "registered"}
  /\ pc \in [Threads -> {"start", "callbacks", "registered", "run", "get",
                         "nested", "wait", "done"}]
  /\ runs \in [Callbacks -> Nat]
  /\ got \in [Getters \cup Awaiters -> {"none", "result", "nothing"}]
  /\ holder = Task <=> pc[Task] = "callbacks"

(* A callback runs at most once and only when the result is there, and     *)
(* once the completion is over no registered callback is left: registering *)
(* one races the completion.                                               *)
CallbackOnce ==
  /\ \A c \in Callbacks : runs[c] <= 1 /\ (runs[c] > 0 => result)
  /\ pc[Task] = "done" => callbacks = {}

(* Nobody sleeps when the result is there.                                 *)
NoSleeper == result => waiters = {}

(* "register a resume callback when Task<U> finished": the coroutine that  *)
(* awaits the task goes on after the task has finished.                    *)
AwaitersResume ==
  \A a \in Awaiters : pc[a] = "registered" ~> got[a] = "result"
=============================================================================
