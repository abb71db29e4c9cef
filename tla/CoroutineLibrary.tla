-------------------------- MODULE CoroutineLibrary --------------------------
(***************************************************************************)
(* The parts of the coroutine library side by side: a LooperExecutor, a    *)
(* Timer, the completion of a Task and a pipeline of generators, with the  *)
(* properties that are checked and proved of them.  They share no          *)
(* variables.                                                              *)
(***************************************************************************)
EXTENDS Integers, Sequences

CONSTANTS Functions, Delays, MaxTime,
          Getters, Plain, Awaiters, Task, InlineExecutor,
          Nothing,        \* no function, and nobody who holds a mutex
          Values,         \* what generators yield
          Inputs, Pipelines

(* Marks are none of the things they stand apart from; delays are times.   *)
ASSUME MarkAssumption == Nothing \notin Functions /\ Nothing # Task
ASSUME TimeAssumption == MaxTime \in Nat /\ Delays \subseteq Nat
ASSUME ThreadAssumption ==
  /\ Task \notin Getters \cup Plain \cup Awaiters
  /\ Getters \cap (Plain \cup Awaiters) = {} /\ Plain \cap Awaiters = {}

(* A stage is given a function of the values, or take its n.               *)
StageKinds ==
  ({"map"} \X [Values -> Values]) \cup ({"flat_map"} \X [Values -> Seq(Values)])
  \cup ({"filter", "take_while"} \X [Values -> BOOLEAN]) \cup ({"take"} \X Int)
ASSUME PipelineAssumption == Inputs \subseteq Seq(Values) /\ Pipelines \subseteq Seq(StageKinds)

VARIABLES
  l_is_active, l_queue, l_holder, l_waiting, l_worker, l_running, l_caller,
  l_closer, l_accepted, l_executed,
  t_now, t_is_active, t_queue, t_top, t_scheduled, t_notify, t_worker,
  t_executable, t_signalled, t_closer, t_accepted, t_executed,
  t_early, t_dropped,
  p_result, p_holder, p_waiters, p_callbacks, p_pc, p_runs, p_got,
  g_input, g_stages, g_done, g_is_ready, g_value, g_i, g_inner, g_got, g_dir,
  g_lev, g_answer

looper == <<l_is_active, l_queue, l_holder, l_waiting, l_worker, l_running,
            l_caller, l_closer, l_accepted, l_executed>>
timer == <<t_now, t_is_active, t_queue, t_top, t_scheduled, t_notify, t_worker,
           t_executable, t_signalled, t_closer, t_accepted, t_executed, t_early,
           t_dropped>>
promise == <<p_result, p_holder, p_waiters, p_callbacks, p_pc, p_runs, p_got>>
generator == <<g_input, g_stages, g_done, g_is_ready, g_value, g_i, g_inner,
               g_got, g_dir, g_lev, g_answer>>

Looper == INSTANCE LooperExecutor WITH
  Nobody <- Nothing, is_active <- l_is_active, executable_queue <- l_queue,
  holder <- l_holder, waiting <- l_waiting, worker <- l_worker,
  running <- l_running, caller <- l_caller, closer <- l_closer,
  accepted <- l_accepted, executed <- l_executed

Timers == INSTANCE Timer WITH
  now <- t_now, is_active <- t_is_active,
  executable_queue <- t_queue, top <- t_top, scheduled_time <- t_scheduled,
  notify <- t_notify, worker <- t_worker, executable <- t_executable,
  signalled <- t_signalled, closer <- t_closer,
  accepted <- t_accepted, executed <- t_executed, early <- t_early,
  dropped <- t_dropped

Promise == INSTANCE TaskPromise WITH
  Nobody <- Nothing, result <- p_result, holder <- p_holder,
  waiters <- p_waiters, callbacks <- p_callbacks, pc <- p_pc, runs <- p_runs,
  got <- p_got

Pipeline == INSTANCE Generator WITH
  input <- g_input, stages <- g_stages, done <- g_done, is_ready <- g_is_ready,
  value <- g_value, i <- g_i, inner <- g_inner, got <- g_got, dir <- g_dir,
  lev <- g_lev, answer <- g_answer

-----------------------------------------------------------------------------
(* run_loop runs the functions in the order in which execute queued them,  *)
(* each once, and drops one only when shutdown(false) clears the queue.    *)
LooperInOrder == Looper!InOrder

(* The worker of the executor never sleeps on a non-empty queue without a  *)
(* notification on its way.                                                *)
LooperNoLostWakeup == Looper!NoLostWakeup

(* The timer's worker never sleeps past the top of the queue without a     *)
(* notification on its way.                                                *)
TimerNotLate == Timers!NotLate

(* The timer runs each function once.  Only the function whose wait timed  *)
(* out when another had become the top may be run twice, and only that top *)
(* and what shutdown(false) clears are not run; a displacement that is     *)
(* notified in time harms nobody.                                          *)
TimerRunOnce == Timers!RunOnce

(* A completion callback runs once at most, and only after the task has    *)
(* its result; none is forgotten when the task finishes.                   *)
TaskCallbackOnce == Promise!CallbackOnce

(* No getter sleeps in get_result once the task has finished.              *)
TaskNoSleeper == Promise!NoSleeper

(* A pipeline of generators yields what its stages say, in order, and      *)
(* resumes the source no more often than that needs.                       *)
GeneratorExact == Pipeline!Exact
=============================================================================
