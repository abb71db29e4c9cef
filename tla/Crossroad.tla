----------------------------- MODULE Crossroad ------------------------------
(***************************************************************************)
(* The crossing of os/p1.c: cars come from four directions, one thread per *)
(* car, and cross two of the four areas A, B, C, D, each guarded by a      *)
(* semaphore.  A car gives way to the right; when a car waits in each of   *)
(* the four areas the thread threadDeadlock lets the one from North go.    *)
(*                                                                         *)
(* The four functions threadNorth, ... differ only in the names they use.  *)
(* The sleeps are left out: threads may take any time for any step.        *)
(* Signals go to whoever is waiting, or are lost.                          *)
(***************************************************************************)
EXTENDS Naturals, Sequences, FiniteSets

CONSTANTS Args,      \* the command lines: sequences of directions, one per car
          MaxCars,   \* the length of the longest
          MaxSpurious  \* bound on wake-ups without a signal, by the number of cars

Directions == {"North", "East", "South", "West"}
Areas == {"A", "B", "C", "D"}

(* The four functions: the areas a car takes, the neighbour on its right,  *)
(* which it waits for, and the one on its left, which it signals.          *)
threadNorth == [first |-> "C", second |-> "D", right |-> "West", left |-> "East"]
threadEast  == [first |-> "B", second |-> "C", right |-> "North", left |-> "South"]
threadSouth == [first |-> "A", second |-> "B", right |-> "East", left |-> "West"]
threadWest  == [first |-> "D", second |-> "A", right |-> "South", left |-> "North"]

Function == [North |-> threadNorth, East |-> threadEast,
             South |-> threadSouth, West |-> threadWest]
First  == [d \in Directions |-> Function[d].first]
Second == [d \in Directions |-> Function[d].second]
Right  == [d \in Directions |-> Function[d].right]
Left   == [d \in Directions |-> Function[d].left]

VARIABLES
  From,      \* argv[1], the direction each car comes from
  pc,        \* position of each car
  sem,       \* mutexA ... mutexD
  remain,    \* remainA ... remainD
  flag,      \* flagNorth ...: a car has left the queue
  count,     \* cars in each queue
  detector,  \* position of threadDeadlock
  val4,      \* the value of mutexD it has read
  jams,      \* has it ever posted mutexD?
  spurious   \* how many waits have returned without a signal

Cars == DOMAIN From

vars == <<From, pc, sem, remain, flag, count, detector, val4, jams, spurious>>

(* main has queued every car, set the flags and started the threads.       *)
Init ==
  /\ From \in Args /\ pc = [c \in Cars |-> "start"]
  /\ sem = [a \in Areas |-> 1] /\ remain = [a \in Areas |-> 1]
  /\ count = [d \in Directions |-> Cardinality({c \in Cars : From[c] = d})]
  /\ flag = [d \in Directions |-> count[d] > 0]
  /\ detector = "North" /\ val4 = 1 /\ jams = FALSE /\ spurious = 0

Goto(c, l) == pc' = [pc EXCEPT ![c] = l]

(* pthread_cond_signal: one of the cars from d that wait at l goes on.     *)
Signal(d, l, next, pcs) ==
  LET waiting == {c \in Cars : From[c] = d /\ pcs[c] = l} IN
  IF waiting = {} THEN pc' = pcs
  ELSE \E c \in waiting : pc' = [pcs EXCEPT ![c] = next]

-----------------------------------------------------------------------------
(* A car, and the directions and areas of the function it runs.            *)

QueueWait(c) ==
  /\ pc[c] = "start" /\ Goto(c, "queue")
  /\ UNCHANGED <<From, sem, remain, flag, count, detector, val4, jams, spurious>>

Depart(c) ==
  /\ pc[c] = "popped" /\ Goto(c, "first")
  /\ flag' = [flag EXCEPT ![From[c]] = TRUE]
  /\ UNCHANGED <<From, sem, remain, count, detector, val4, jams, spurious>>

sem_wait(c, a) == sem[a] > 0 /\ sem' = [sem EXCEPT ![a] = @ - 1]

EnterFirst(c) ==
  /\ pc[c] = "first" /\ sem_wait(c, First[From[c]]) /\ Goto(c, "arrive")
  /\ UNCHANGED <<From, remain, flag, count, detector, val4, jams, spurious>>

Arrive(c) ==
  /\ pc[c] = "arrive" /\ Goto(c, "look")
  /\ remain' = [remain EXCEPT ![First[From[c]]] = 0]
  /\ UNCHANGED <<From, sem, flag, count, detector, val4, jams, spurious>>

(* The signal of the car on the right takes no lock: it may come between   *)
(* the look at its flag and the wait, and is lost.                         *)
Look(c) ==
  /\ pc[c] = "look"
  /\ Goto(c, IF flag[Right[From[c]]] THEN "towait" ELSE "second")
  /\ UNCHANGED <<From, sem, remain, flag, count, detector, val4, jams, spurious>>

CrossWait(c) ==
  /\ pc[c] = "towait" /\ Goto(c, "cross")
  /\ UNCHANGED <<From, sem, remain, flag, count, detector, val4, jams, spurious>>

(* Mutant: the car does not wait for its second area.                      *)
EnterSecondUnlocked(c) ==
  /\ pc[c] = "second" /\ Goto(c, "clear")
  /\ UNCHANGED <<From, sem, remain, flag, count, detector, val4, jams, spurious>>

EnterSecond(c) ==
  /\ pc[c] = "second" /\ sem_wait(c, Second[From[c]]) /\ Goto(c, "clear")
  /\ UNCHANGED <<From, remain, flag, count, detector, val4, jams, spurious>>

Clear(c) ==
  /\ pc[c] = "clear" /\ Goto(c, "test1")
  /\ remain' = [remain EXCEPT ![First[From[c]]] = 1]
  /\ flag' = [flag EXCEPT ![From[c]] = FALSE]
  /\ UNCHANGED <<From, sem, count, detector, val4, jams, spurious>>

(* sem_getvalue and, if the value was 0, sem_post.                         *)
TestValue(c, at, a, post, skip) ==
  /\ pc[c] = at /\ Goto(c, IF sem[a] = 0 THEN post ELSE skip)
  /\ UNCHANGED <<From, sem, remain, flag, count, detector, val4, jams, spurious>>

Post(c, at, a, next) ==
  /\ pc[c] = at /\ Goto(c, next) /\ sem' = [sem EXCEPT ![a] = @ + 1]
  /\ UNCHANGED <<From, remain, flag, count, detector, val4, jams, spurious>>

(* Mutant: the left neighbour is not told.                                 *)
SignalNobody(c) ==
  /\ pc[c] = "signal" /\ Goto(c, "test2")
  /\ UNCHANGED <<From, sem, remain, flag, count, detector, val4, jams, spurious>>

SignalLeft(c) ==
  /\ pc[c] = "signal"
  /\ Signal(Left[From[c]], "cross", "second", [pc EXCEPT ![c] = "test2"])
  /\ UNCHANGED <<From, sem, remain, flag, count, detector, val4, jams, spurious>>

PopNext(c) ==
  /\ pc[c] = "pop"
  /\ LET d == From[c] IN
     IF count[d] > 0
     THEN count' = [count EXCEPT ![d] = @ - 1] /\ Goto(c, "wake")
     ELSE Goto(c, "done") /\ UNCHANGED count
  /\ UNCHANGED <<From, sem, remain, flag, detector, val4, jams, spurious>>

WakeNext(c) ==
  /\ pc[c] = "wake" /\ Signal(From[c], "queue", "popped", [pc EXCEPT ![c] = "done"])
  /\ UNCHANGED <<From, sem, remain, flag, count, detector, val4, jams, spurious>>

Car(c) ==
  \/ QueueWait(c) \/ Depart(c) \/ EnterFirst(c) \/ Arrive(c) \/ Look(c)
  \/ CrossWait(c) \/ EnterSecond(c) \/ Clear(c)
  \/ TestValue(c, "test1", First[From[c]], "post1", "signal")
  \/ Post(c, "post1", First[From[c]], "signal")
  \/ SignalLeft(c)
  \/ TestValue(c, "test2", Second[From[c]], "post2", "pop")
  \/ Post(c, "post2", Second[From[c]], "pop")
  \/ PopNext(c) \/ WakeNext(c)

(* pthread_cond_wait may return without a signal; nobody checks.           *)
SpuriousWakeup(c) ==
  /\ spurious < MaxSpurious[Len(From)] /\ spurious' = spurious + 1
  /\ \/ pc[c] = "queue" /\ Goto(c, "popped")
     \/ pc[c] = "cross" /\ Goto(c, "second")
  /\ UNCHANGED <<From, sem, remain, flag, count, detector, val4, jams>>

-----------------------------------------------------------------------------
(* threadDeadlock wakes the first car of each queue, North, East, West and *)
(* South, and then looks for a jam over and over again.                    *)

After == [North |-> "East", East |-> "West", West |-> "South", South |-> "read"]

WakeFirst ==
  /\ detector \in Directions /\ detector' = After[detector]
  /\ IF count[detector] > 0
     THEN /\ count' = [count EXCEPT ![detector] = @ - 1]
          /\ Signal(detector, "queue", "popped", pc)
     ELSE UNCHANGED <<count, pc>>
  /\ UNCHANGED <<From, sem, remain, flag, val4, jams, spurious>>

ReadValue ==
  /\ detector = "read" /\ detector' = "A" /\ val4' = sem["D"]
  /\ UNCHANGED <<From, pc, sem, remain, flag, count, jams, spurious>>

(* The condition reads remainA, remainD, remainB and remainC one after the *)
(* other, without a lock, as long as they are 0: cars go on in between, so *)
(* that it may see a jam that never was.                                   *)
Following == [A |-> "D", D |-> "B", B |-> "C", C |-> "jam"]

Check ==
  /\ detector \in Areas
  /\ detector' = IF remain[detector] = 0 THEN Following[detector] ELSE "read"
  /\ UNCHANGED <<From, pc, sem, remain, flag, count, val4, jams, spurious>>

SignalNorth ==
  /\ detector = "jam" /\ Signal("North", "cross", "second", pc)
  /\ detector' = IF val4 = 0 THEN "post" ELSE "read"
  /\ UNCHANGED <<From, sem, remain, flag, count, val4, jams, spurious>>

PostD ==
  /\ detector = "post" /\ detector' = "read"
  /\ sem' = [sem EXCEPT !["D"] = @ + 1] /\ jams' = TRUE
  /\ UNCHANGED <<From, pc, remain, flag, count, val4, spurious>>

Detector == WakeFirst \/ ReadValue \/ Check \/ SignalNorth \/ PostD

(* main has joined all cars and returns, which ends the process.           *)
Exit ==
  /\ \A c \in Cars : pc[c] = "done"
  /\ detector # "exited" /\ detector' = "exited"
  /\ UNCHANGED <<From, pc, sem, remain, flag, count, val4, jams, spurious>>

Next == Detector \/ Exit \/ (\E c \in Cars : Car(c) \/ SpuriousWakeup(c))

(* Every thread goes on.  Weak fairness is enough for the semaphores, as   *)
(* each car takes an area only once.                                       *)
Fairness ==
  WF_vars(Detector) /\ \A c \in 1..MaxCars : WF_vars(c \in Cars /\ Car(c))

Spec == Init /\ [][Next]_vars /\ Fairness

-----------------------------------------------------------------------------
(* Areas a car is in: it has taken the semaphore and not given it back.    *)
InFirst  == {"arrive", "look", "towait", "cross", "second", "clear", "test1", "post1"}
InSecond == {"clear", "test1", "post1", "signal", "test2", "post2"}
Inside(a) ==
  {c \in Cars : \/ First[From[c]] = a /\ pc[c] \in InFirst
                \/ Second[From[c]] = a /\ pc[c] \in InSecond}

(* Two cars are never in one area, except in D after a jam was resolved    *)
(* there: the detector posts mutexD while the car from West is still in D. *)
AreaExclusive ==
  \A a \in Areas : a # "D" \/ ~jams => Cardinality(Inside(a)) <= 1

(* A jam, with a car from each direction waiting for the one on its right, *)
(* is resolved: one from each direction gets across.                       *)
Jam == \A d \in Directions : \E c \in Cars : From[c] = d /\ pc[c] = "cross"
JamResolved == Jam ~> \A d \in Directions : \E c \in Cars : From[c] = d /\ pc[c] = "done"
=============================================================================
