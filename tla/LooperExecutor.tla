--------------------------- MODULE LooperExecutor ---------------------------
(***************************************************************************)
(* LooperExecutor of coroutine/executor.h: threads that call execute(),    *)
(* one that calls shutdown(), and the worker thread in run_loop().         *)
(*                                                                         *)
(* queue_lock is modelled where it matters: holder is the caller of        *)
(* execute() between its look at is_active and its push; every other       *)
(* critical section is one action that needs the lock to be free.  The     *)
(* worker looks at executable_queue.empty() in the loop condition without  *)
(* the lock; it sees the queue as it is before or after a concurrent push. *)
(***************************************************************************)
EXTENDS Naturals, Sequences, FiniteSets

CONSTANTS Functions,       \* each is passed to execute() once
          Nobody           \* holder of a free mutex

VARIABLES
  is_active, executable_queue,
  holder,        \* who holds queue_lock inside execute()
  waiting,       \* the worker is blocked in queue_condition
  worker,        \* position of the worker
  running,       \* the function it has taken
  caller,        \* position of the call execute(f)
  closer,        \* position of the call of shutdown()
  accepted,      \* functions in the order in which they were pushed
  executed       \* functions in the order in which they were run

vars == <<is_active, executable_queue, holder, waiting, worker, running,
          caller, closer, accepted, executed>>
others == <<is_active, holder, caller, closer, accepted>>

Init ==
  /\ is_active = TRUE /\ executable_queue = <<>> /\ holder = Nobody
  /\ waiting = FALSE /\ worker = "while" /\ running = Nobody
  /\ caller = [f \in Functions |-> "none"] /\ closer = "none"
  /\ accepted = <<>> /\ executed = <<>>

-----------------------------------------------------------------------------
(* execute(f), called by f's owner.                                        *)

ExecuteLock(f) ==
  /\ caller[f] = "none" /\ holder = Nobody
  /\ IF is_active THEN holder' = f /\ caller' = [caller EXCEPT ![f] = "push"]
                  ELSE caller' = [caller EXCEPT ![f] = "refused"] /\ UNCHANGED holder
  /\ UNCHANGED <<is_active, executable_queue, waiting, worker, running, closer,
                 accepted, executed>>

ExecutePush(f) ==
  /\ caller[f] = "push"
  /\ executable_queue' = Append(executable_queue, f)
  /\ accepted' = Append(accepted, f)
  /\ holder' = Nobody
  /\ caller' = [caller EXCEPT ![f] = "notify"]
  /\ UNCHANGED <<is_active, waiting, worker, running, closer, executed>>

ExecuteNotify(f) ==
  /\ caller[f] = "notify"
  /\ waiting' = FALSE
  /\ caller' = [caller EXCEPT ![f] = "done"]
  /\ UNCHANGED <<is_active, executable_queue, holder, worker, running, closer,
                 accepted, executed>>

Execute(f) == ExecuteLock(f) \/ ExecutePush(f) \/ ExecuteNotify(f)

-----------------------------------------------------------------------------
(* shutdown(wait_for_complete).                                            *)

ShutdownStore(wait_for_complete) ==
  /\ closer = "none"
  /\ is_active' = FALSE
  /\ closer' = IF wait_for_complete THEN "notify" ELSE "clear"
  /\ UNCHANGED <<executable_queue, holder, waiting, worker, running, caller,
                 accepted, executed>>

ShutdownClear ==
  /\ closer = "clear" /\ holder = Nobody
  /\ executable_queue' = <<>>
  /\ closer' = "notify"
  /\ UNCHANGED <<is_active, holder, waiting, worker, running, caller, accepted,
                 executed>>

ShutdownNotify ==
  /\ closer = "notify"
  /\ waiting' = FALSE
  /\ closer' = "done"
  /\ UNCHANGED <<is_active, executable_queue, holder, worker, running, caller,
                 accepted, executed>>

-----------------------------------------------------------------------------
(* run_loop().                                                             *)

(* The loop condition.                                                     *)
LoopTest ==
  /\ worker = "while"
  /\ worker' = IF is_active \/ executable_queue # <<>> THEN "lock" ELSE "exited"
  /\ UNCHANGED <<others, executable_queue, waiting, running, executed>>

(* Mutant: the worker waits without looking at the queue first.            *)
LoopAlwaysWaits ==
  /\ worker = "lock" /\ holder = Nobody
  /\ worker' = "wait" /\ waiting' = TRUE
  /\ UNCHANGED <<others, executable_queue, running, executed>>

(* An empty queue makes the worker wait.                                   *)
LoopWait ==
  /\ worker = "lock" /\ holder = Nobody /\ executable_queue = <<>>
  /\ worker' = "wait" /\ waiting' = TRUE
  /\ UNCHANGED <<others, executable_queue, running, executed>>

Take ==
  /\ executable_queue # <<>>
  /\ running' = Head(executable_queue)
  /\ executable_queue' = Tail(executable_queue)
  /\ worker' = "run"

(* Mutant: the function stays in the queue until it has run.               *)
LoopTakeCopy ==
  /\ worker = "lock" /\ holder = Nobody
  /\ executable_queue # <<>>
  /\ running' = Head(executable_queue)
  /\ worker' = "run"
  /\ UNCHANGED <<others, executable_queue, waiting, executed>>

LoopTake ==
  /\ worker = "lock" /\ holder = Nobody
  /\ Take
  /\ UNCHANGED <<others, waiting, executed>>

(* Notified; a spurious wake-up looks the same from here on.               *)
LoopWoken ==
  /\ worker = "wait" /\ holder = Nobody /\ ~waiting
  /\ \/ Take
     \/ executable_queue = <<>> /\ worker' = "while" /\ UNCHANGED <<executable_queue, running>>
  /\ UNCHANGED <<others, waiting, executed>>

SpuriousWakeup ==
  /\ worker = "wait" /\ waiting
  /\ waiting' = FALSE
  /\ UNCHANGED <<others, executable_queue, worker, running, executed>>

LoopRun ==
  /\ worker = "run"
  /\ executed' = Append(executed, running)
  /\ running' = Nobody /\ worker' = "while"
  /\ UNCHANGED <<others, executable_queue, waiting>>

Worker == LoopTest \/ LoopWait \/ LoopTake \/ LoopWoken \/ LoopRun

-----------------------------------------------------------------------------
Shutdown == ShutdownClear \/ ShutdownNotify
Next ==
  \/ Worker \/ SpuriousWakeup \/ Shutdown
  \/ \E w \in BOOLEAN : ShutdownStore(w)
  \/ \E f \in Functions : Execute(f)

Spec == Init /\ [][Next]_vars

-----------------------------------------------------------------------------
(* Types, and the mutex is held exactly between the check and the push.    *)
TypeOK ==
  /\ is_active \in BOOLEAN /\ waiting \in BOOLEAN
  /\ executable_queue \in Seq(Functions)
  /\ accepted \in Seq(Functions) /\ executed \in Seq(Functions)
  /\ running \in Functions \cup {Nobody} /\ (running # Nobody <=> worker = "run")
  /\ worker \in {"while", "lock", "wait", "run", "exited"}
  /\ caller \in [Functions -> {"none", "push", "notify", "done", "refused"}]
  /\ closer \in {"none", "clear", "notify", "done"}
  /\ holder \in Functions \cup {Nobody}
  /\ \A f \in Functions : caller[f] = "push" <=> holder = f

(* Functions run in the order in which they were accepted, each at most    *)
(* once, and what is queued comes right after what has been run: only      *)
(* shutdown(false) drops functions, and then all that are left.            *)
Running == IF running = Nobody THEN <<>> ELSE <<running>>
InOrder ==
  /\ \E n \in 0 .. Len(accepted) :
       executed \o Running = SubSeq(accepted, 1, n)
  /\ executable_queue # <<>> =>
       executed \o Running \o executable_queue = accepted

(* A queued function wakes the worker up: when every call of execute() has *)
(* returned the worker is not asleep in front of a non-empty queue.        *)
NoLostWakeup ==
  waiting /\ executable_queue # <<>> =>
    \E f \in Functions : caller[f] = "notify"
=============================================================================
