-------------------------------- MODULE Timer --------------------------------
(***************************************************************************)
(* The Timer of coroutine/timer.h: callers of execute(func, delay), a      *)
(* caller of shutdown(), and the worker in run_loop().                     *)
(*                                                                         *)
(* Time is a counter of ticks.  The priority queue is a set with its top;  *)
(* among functions due at the same time the heap may bring up any, but a   *)
(* push displaces the top only by an earlier function.  The worker's first *)
(* wait (for a function) and its wait_for (for the time of the top) return *)
(* with the lock taken again: in between, execute() and shutdown() may     *)
(* have changed the queue.                                                 *)
(***************************************************************************)
EXTENDS Naturals, FiniteSets

CONSTANTS Functions,      \* each is passed to execute() once
          Delays,         \* the delays they are given
          MaxTime,        \* bound on the clock and on the scheduled times
          Nothing         \* no function

VARIABLES
  now,
  is_active, executable_queue, top,
  scheduled_time,
  notify,        \* calls that have yet to notify: functions, or "shutdown"
  worker, executable,
  signalled,     \* has the waiting worker been notified?
  closer,
  accepted,
  executed,      \* how often each function has been run
  early,         \* functions run on a timeout while they were not the top
  dropped        \* functions taken from the queue and not run

vars == <<now, is_active, executable_queue, top, scheduled_time, notify, worker,
          executable, signalled, closer, accepted, executed, early, dropped>>
queue  == <<executable_queue, top, scheduled_time>>
thread == <<worker, executable, executed, early>>
history == <<accepted, early, dropped>>

Init ==
  /\ now = 0 /\ is_active = TRUE /\ executable_queue = {} /\ top = Nothing
  /\ scheduled_time = [f \in Functions |-> 0]
  /\ notify = {} /\ worker = "while" /\ executable = Nothing /\ signalled = FALSE
  /\ closer = "none" /\ accepted = {}
  /\ executed = [f \in Functions |-> 0] /\ early = {} /\ dropped = {}

Tick == /\ now < MaxTime /\ now' = now + 1
        /\ UNCHANGED <<is_active, queue, notify, thread, signalled, closer, accepted, dropped>>

-----------------------------------------------------------------------------
(* execute(f, delay): a notification is due if f becomes the top.  The     *)
(* look at is_active and the push are one action; what a shutdown between  *)
(* the two does is shown in LooperExecutor, which has the same code.       *)
Push(f, delay) ==
  /\ now + delay <= MaxTime
  /\ executable_queue' = executable_queue \cup {f}
  /\ scheduled_time' = [scheduled_time EXCEPT ![f] = now + delay]
  /\ top' = IF top = Nothing \/ scheduled_time[top] > now + delay THEN f ELSE top

(* Mutant: only the first function of an empty queue is notified.          *)
ExecuteFirstNotifies(f) ==
  /\ f \notin accepted /\ is_active
  /\ accepted' = accepted \cup {f}
  /\ \E delay \in Delays : Push(f, delay)
  /\ notify' = IF executable_queue = {} THEN notify \cup {f} ELSE notify
  /\ UNCHANGED <<now, is_active, thread, signalled, closer, dropped>>

execute(f) ==
  /\ f \notin accepted /\ is_active
  /\ accepted' = accepted \cup {f}
  /\ \E delay \in Delays : Push(f, delay)
  /\ notify' = IF top' = f THEN notify \cup {f} ELSE notify
  /\ UNCHANGED <<now, is_active, thread, signalled, closer, dropped>>

Notify(f) ==
  /\ f \in notify
  /\ notify' = notify \ {f}
  /\ signalled' = (worker \in {"wait", "wait_for"})
  /\ UNCHANGED <<now, is_active, queue, thread, closer, accepted, dropped>>

-----------------------------------------------------------------------------
(* shutdown(wait_for_complete).                                            *)

ShutdownStore(wait_for_complete) ==
  /\ closer = "none"
  /\ is_active' = FALSE
  /\ closer' = IF wait_for_complete THEN "notify" ELSE "clear"
  /\ UNCHANGED <<now, queue, notify, thread, signalled, accepted, dropped>>

ShutdownClear ==
  /\ closer = "clear"
  /\ executable_queue' = {} /\ top' = Nothing
  /\ dropped' = dropped \cup executable_queue
  /\ closer' = "notify"
  /\ UNCHANGED <<now, is_active, scheduled_time, notify, thread, signalled, accepted>>

ShutdownNotify ==
  /\ closer = "notify"
  /\ signalled' = (worker \in {"wait", "wait_for"})
  /\ closer' = "done"
  /\ UNCHANGED <<now, is_active, queue, notify, thread, accepted, dropped>>

-----------------------------------------------------------------------------
(* run_loop().                                                             *)

LoopTest ==
  /\ worker = "while"
  /\ worker' = IF is_active \/ executable_queue # {} THEN "lock" ELSE "exited"
  /\ UNCHANGED <<now, is_active, queue, notify, executable, signalled, closer, executed, history>>

(* executable_queue.pop(), with a heap that brings up any earliest one.    *)
(* Popping an empty queue (after shutdown(false)) is undefined behaviour;  *)
(* here it leaves the queue empty.                                         *)
Pop ==
  /\ executable_queue' = executable_queue \ {top}
  /\ top' \in IF executable_queue' = {} THEN {Nothing}
              ELSE {f \in executable_queue' : \A g \in executable_queue' :
                      scheduled_time[f] <= scheduled_time[g]}
  /\ UNCHANGED scheduled_time

(* The top is copied; it is popped at once if it is due.                   *)
Look ==
  /\ executable' = top
  /\ \/ /\ scheduled_time[top] > now
        /\ worker' = "wait_for" /\ signalled' = FALSE
        /\ UNCHANGED <<queue>>
     \/ /\ scheduled_time[top] <= now
        /\ Pop /\ worker' = "run" /\ UNCHANGED signalled

LoopLock ==
  /\ worker = "lock"
  /\ \/ /\ executable_queue = {}
        /\ worker' = "wait" /\ signalled' = FALSE
        /\ UNCHANGED <<queue, executable>>
     \/ executable_queue # {} /\ Look
  /\ UNCHANGED <<now, is_active, notify, closer, executed, history>>

(* Woken from wait; spurious wake-ups are included.                        *)
LoopWoken ==
  /\ worker = "wait"
  /\ \/ /\ executable_queue = {}
        /\ worker' = "while" /\ UNCHANGED <<queue, executable, signalled>>
     \/ executable_queue # {} /\ Look
  /\ UNCHANGED <<now, is_active, notify, closer, executed, history>>

(* wait_for returns without a timeout.                                     *)
WaitForNotified ==
  /\ worker = "wait_for"
  /\ worker' = "while"
  /\ UNCHANGED <<now, is_active, queue, notify, executable, signalled, closer, executed, history>>

(* Mutant: the function stays in the queue after a timeout.                *)
WaitForTimeoutKeeps ==
  /\ worker = "wait_for" /\ scheduled_time[executable] <= now
  /\ worker' = "run"
  /\ UNCHANGED <<now, is_active, queue, notify, executable, signalled, closer, executed, history>>

(* wait_for times out, which it also reports if a notification came but    *)
(* the time is up: whatever is the top now is popped, and the function     *)
(* that was the top before is run.                                         *)
WaitForTimeout ==
  /\ worker = "wait_for" /\ scheduled_time[executable] <= now
  /\ Pop /\ worker' = "run"
  /\ early' = IF top = executable THEN early ELSE early \cup {executable}
  /\ dropped' = dropped \cup (executable_queue \ (executable_queue' \cup {executable}))
  /\ UNCHANGED <<now, is_active, notify, executable, signalled, closer, accepted,
                 executed>>

LoopRun ==
  /\ worker = "run"
  /\ executed' = [executed EXCEPT ![executable] = @ + 1]
  /\ executable' = Nothing /\ worker' = "while"
  /\ UNCHANGED <<now, is_active, queue, notify, signalled, closer, history>>

-----------------------------------------------------------------------------
Worker == \/ LoopTest \/ LoopLock \/ LoopRun \/ WaitForTimeout
          \/ (signalled /\ (LoopWoken \/ WaitForNotified))
Shutdown == ShutdownClear \/ ShutdownNotify
Next ==
  \/ Tick \/ LoopTest \/ LoopLock \/ LoopRun
  \/ LoopWoken \/ WaitForNotified \/ WaitForTimeout \/ Shutdown
  \/ \E w \in BOOLEAN : ShutdownStore(w)
  \/ \E f \in Functions : execute(f) \/ Notify(f)

Spec == Init /\ [][Next]_vars

(* Time passes, threads keep running and calls that have begun go on; wake-*)
(* ups without a notification need not happen.                             *)
Fairness == /\ WF_vars(Tick) /\ WF_vars(Worker) /\ WF_vars(Shutdown)
            /\ \A f \in Functions : WF_vars(Notify(f))
FairSpec == Spec /\ Fairness

-----------------------------------------------------------------------------
(* Types, and top is an earliest function of the queue.                    *)
TypeOK ==
  /\ now \in 0 .. MaxTime /\ is_active \in BOOLEAN /\ signalled \in BOOLEAN
  /\ executable_queue \subseteq Functions /\ notify \subseteq Functions
  /\ accepted \subseteq Functions /\ early \subseteq Functions /\ dropped \subseteq Functions
  /\ scheduled_time \in [Functions -> Nat] /\ executed \in [Functions -> Nat]
  /\ executable \in Functions \cup {Nothing}
  /\ worker \in {"while", "lock", "wait", "wait_for", "run", "exited"}
  /\ closer \in {"none", "clear", "notify", "done"}
  /\ IF executable_queue = {} THEN top = Nothing
     ELSE /\ top \in executable_queue
          /\ \A f \in executable_queue : scheduled_time[top] <= scheduled_time[f]


(* The worker does not sleep through the time of a function: if it waits   *)
(* for a later one, or for none, a notification is on its way.             *)
NotLate ==
  /\ worker = "wait" /\ executable_queue # {} => signalled \/ notify # {}
  /\ worker = "wait_for" /\ executable_queue # {} /\ executable # top =>
       signalled \/ notify # {} \/ scheduled_time[executable] <= scheduled_time[top]

(* Every accepted function is run exactly once or still to be run: it is   *)
(* in the queue, with the worker, or done, and at one of these places.     *)
(* Exceptions are only those of one timeout each: a function whose wait    *)
(* timed out when it was not the top any more is run a second time at most *)
(* (if it is still queued), and the top that was popped in its place, like *)
(* what shutdown(false) clears, is not run.                                *)
Running(f) == worker = "run" /\ executable = f
RunOnce ==
  \A f \in Functions :
    /\ executed[f] + (IF f \in executable_queue THEN 1 ELSE 0)
                   + (IF Running(f) THEN 1 ELSE 0) <= (IF f \in early THEN 2 ELSE 1)
    /\ f \in accepted => \/ f \in executable_queue \/ Running(f)
                         \/ executed[f] > 0 \/ f \in dropped

(* "a new executable should be executed before": a function that becomes   *)
(* the top while the worker waits for another one is run before that one.  *)
NewTopRunsFirst ==
  \A f, g \in Functions :
    (worker = "wait_for" /\ executable = g /\ top = f /\ f # g)
      ~> (executed[f] > 0 \/ ~is_active)
=============================================================================
