---------------------------- MODULE ProgramProofs ----------------------------
(***************************************************************************)
(* Proofs about the crossing, the processes around the SPMC queue and the  *)
(* chat, for any number of cars, processes and clients.                    *)
(***************************************************************************)
EXTENDS SmallPrograms, FiniteSetTheorems, TLAPS

-----------------------------------------------------------------------------
(* Crossroad.  The semaphore of an area is free only when no car is in it, *)
(* and never has more than one permit; mutexD is no longer counted once    *)
(* the detector has posted it.                                             *)
CarPCs == {"start", "queue", "popped", "first", "arrive", "look", "towait", "cross",
           "second", "clear", "test1", "post1", "signal", "test2", "post2", "pop",
           "wake", "done"}
CarShape ==
  /\ x_From \in Seq(Crossing!Directions)
  /\ x_pc \in [Crossing!Cars -> CarPCs]
  /\ x_sem \in [Crossing!Areas -> Nat] /\ x_jams \in BOOLEAN
Guarded(a) == a # "D" \/ ~x_jams
AreaFree ==
  \A a \in Crossing!Areas : Guarded(a) =>
    /\ x_sem[a] <= 1
    /\ x_sem[a] > 0 => Crossing!Inside(a) = {}
    /\ \A c, e \in Crossing!Inside(a) : c = e
CarInv == CarShape /\ AreaFree

(* How a step may change who is where: nobody enters an area, a car enters *)
(* one, a car gives one back, the detector posts mutexD.                   *)
CarsStay ==
  /\ UNCHANGED <<x_sem, x_jams>>
  /\ \A a \in Crossing!Areas : Crossing!Inside(a)' \subseteq Crossing!Inside(a)
CarEnters(c, b) ==
  /\ x_sem[b] > 0 /\ x_sem' = [x_sem EXCEPT ![b] = @ - 1] /\ UNCHANGED x_jams
  /\ \A a \in Crossing!Areas :
       Crossing!Inside(a)' \subseteq IF a = b THEN Crossing!Inside(a) \cup {c}
                                     ELSE Crossing!Inside(a)
CarLeaves(c, b) ==
  /\ c \in Crossing!Inside(b)
  /\ x_sem' = [x_sem EXCEPT ![b] = @ + 1] /\ UNCHANGED x_jams
  /\ \A a \in Crossing!Areas :
       Crossing!Inside(a)' \subseteq IF a = b THEN Crossing!Inside(a) \ {c}
                                     ELSE Crossing!Inside(a)
DetectorPosts ==
  /\ x_sem' = [x_sem EXCEPT !["D"] = @ + 1] /\ x_jams' = TRUE
  /\ \A a \in Crossing!Areas : Crossing!Inside(a)' \subseteq Crossing!Inside(a)
CarStep ==
  \/ CarsStay \/ DetectorPosts
  \/ \E c \in Crossing!Cars, b \in Crossing!Areas : CarEnters(c, b) \/ CarLeaves(c, b)

(* The two areas of a direction are different.                             *)
LEMMA TwoAreas ==
  ASSUME NEW d \in Crossing!Directions
  PROVE  /\ Crossing!First[d] \in Crossing!Areas /\ Crossing!Second[d] \in Crossing!Areas
         /\ Crossing!First[d] # Crossing!Second[d]
<1>1. /\ Crossing!First[d] = Crossing!Function[d].first
      /\ Crossing!Second[d] = Crossing!Function[d].second
  BY DEF Crossing!First, Crossing!Second
<1>2. d = "North" \/ d = "East" \/ d = "South" \/ d = "West"
  BY DEF Crossing!Directions
<1>3. QED
  BY <1>1, <1>2 DEF Crossing!Function, Crossing!Areas, Crossing!threadNorth, Crossing!threadEast,
                    Crossing!threadSouth, Crossing!threadWest

(* Whatever a step does to the areas, they stay exclusive.                 *)
LEMMA AreaFreeStep ==
  ASSUME CarShape, AreaFree, CarStep
  PROVE  AreaFree'
<1>0. \A a \in Crossing!Areas : x_sem[a] \in Nat
  BY DEF CarShape
<1>1. CASE CarsStay
  BY <1>1 DEF CarsStay, AreaFree, Guarded
<1>2. CASE DetectorPosts
  BY <1>2 DEF DetectorPosts, AreaFree, Guarded, CarShape
<1>3. ASSUME NEW c \in Crossing!Cars, NEW b \in Crossing!Areas, CarEnters(c, b)
      PROVE  AreaFree'
  <2> SUFFICES ASSUME NEW a \in Crossing!Areas, Guarded(a)'
               PROVE  /\ x_sem'[a] <= 1
                      /\ x_sem'[a] > 0 => Crossing!Inside(a)' = {}
                      /\ \A e, f \in Crossing!Inside(a)' : e = f
    BY DEF AreaFree
  <2>1. Guarded(a)
    BY <1>3 DEF CarEnters, Guarded
  <2>2. CASE a = b
    <3>1. x_sem[a] = 1 /\ Crossing!Inside(a) = {}
      BY <1>0, <1>3, <2>1, <2>2 DEF CarEnters, AreaFree
    <3>2. x_sem'[a] = 0
      BY <1>3, <2>2, <3>1 DEF CarEnters, CarShape
    <3>3. Crossing!Inside(a)' \subseteq {c}
      BY <1>3, <2>2, <3>1 DEF CarEnters
    <3>4. QED
      BY <3>2, <3>3
  <2>3. CASE a # b
    BY <1>3, <2>1, <2>3 DEF CarEnters, AreaFree, CarShape
  <2>4. QED
    BY <2>2, <2>3
<1>4. ASSUME NEW c \in Crossing!Cars, NEW b \in Crossing!Areas, CarLeaves(c, b)
      PROVE  AreaFree'
  <2> SUFFICES ASSUME NEW a \in Crossing!Areas, Guarded(a)'
               PROVE  /\ x_sem'[a] <= 1
                      /\ x_sem'[a] > 0 => Crossing!Inside(a)' = {}
                      /\ \A e, f \in Crossing!Inside(a)' : e = f
    BY DEF AreaFree
  <2>1. Guarded(a)
    BY <1>4 DEF CarLeaves, Guarded
  <2>2. CASE a = b
    <3>1. x_sem[a] = 0 /\ \A e \in Crossing!Inside(a) : e = c
      BY <1>0, <1>4, <2>1, <2>2 DEF CarLeaves, AreaFree
    <3>2. x_sem'[a] = 1
      BY <1>4, <2>2, <3>1 DEF CarLeaves, CarShape
    <3>3. Crossing!Inside(a)' = {}
      BY <1>4, <2>2, <3>1 DEF CarLeaves
    <3>4. QED
      BY <3>2, <3>3
  <2>3. CASE a # b
    BY <1>4, <2>1, <2>3 DEF CarLeaves, AreaFree, CarShape
  <2>4. QED
    BY <2>2, <2>3
<1>5. QED
  BY <1>1, <1>2, <1>3, <1>4 DEF CarStep

(* Cars that go on within the areas they have enter none.                  *)
KeepsAreas(p, q) ==
  /\ q \in CarPCs
  /\ q \in Crossing!InFirst => p \in Crossing!InFirst
  /\ q \in Crossing!InSecond => p \in Crossing!InSecond
CarsMove ==
  /\ x_From' = x_From /\ x_pc' \in [Crossing!Cars -> CarPCs]
  /\ \A c \in Crossing!Cars : KeepsAreas(x_pc[c], x_pc'[c])

(* Nobody is in an area in which he was not before.                        *)
LEMMA MoveStays ==
  ASSUME CarsMove
  PROVE  \A a \in Crossing!Areas : Crossing!Inside(a)' \subseteq Crossing!Inside(a)
BY DEF CarsMove, KeepsAreas, Crossing!Inside, Crossing!Cars

(* One car goes on.                                                        *)
LEMMA OneMoves ==
  ASSUME CarShape, x_From' = x_From, NEW c \in Crossing!Cars, NEW l,
         Crossing!Goto(c, l), KeepsAreas(x_pc[c], l)
  PROVE  CarsMove
BY DEF CarShape, CarsMove, KeepsAreas, Crossing!Goto

(* pthread_cond_signal moves a car that waits: none enters an area.        *)
LEMMA SignalMoves ==
  ASSUME CarShape, x_From' = x_From, NEW d, NEW l, NEW next \in CarPCs,
         NEW pcs \in [Crossing!Cars -> CarPCs],
         \A c \in Crossing!Cars : KeepsAreas(x_pc[c], pcs[c]),
         KeepsAreas(l, next), Crossing!Signal(d, l, next, pcs)
  PROVE  CarsMove
<1>1. CASE x_pc' = pcs
  BY <1>1 DEF CarsMove
<1>2. CASE x_pc' # pcs
  <2>1. PICK e \in Crossing!Cars : pcs[e] = l /\ x_pc' = [pcs EXCEPT ![e] = next]
    BY <1>2 DEF Crossing!Signal
  <2>2. KeepsAreas(x_pc[e], next)
    BY <2>1 DEF KeepsAreas
  <2>3. \A c \in Crossing!Cars : x_pc'[c] = IF c = e THEN next ELSE pcs[c]
    BY <2>1
  <2>4. QED
    BY <2>1, <2>2, <2>3 DEF CarsMove
<1>3. QED
  BY <1>1, <1>2

(* A step in which cars move and the semaphores stay.                      *)
LEMMA MoveStep ==
  ASSUME CarShape, CarsMove, UNCHANGED <<x_sem, x_jams>>
  PROVE  CarShape' /\ CarStep
<1>1. CarsStay
  BY MoveStays DEF CarsStay
<1>2. CarShape'
  BY DEF CarShape, CarsMove, Crossing!Cars
<1>3. QED
  BY <1>1, <1>2 DEF CarStep

(* Every step of a car and of the detector is one of these.                *)
LEMMA CarAction ==
  ASSUME CarShape, NEW c \in Crossing!Cars, Crossing!Car(c)
  PROVE  CarShape' /\ CarStep
<1> DEFINE d == x_From[c]
<1>0. /\ d \in Crossing!Directions /\ x_pc[c] \in CarPCs
      /\ \A p \in CarPCs : KeepsAreas(p, p)
  BY DEF CarShape, Crossing!Cars, KeepsAreas
<1>1. /\ Crossing!First[d] \in Crossing!Areas /\ Crossing!Second[d] \in Crossing!Areas
      /\ Crossing!First[d] # Crossing!Second[d]
  BY <1>0, TwoAreas
<1>2. ASSUME NEW l, Crossing!Goto(c, l), KeepsAreas(x_pc[c], l), UNCHANGED <<x_From, x_sem, x_jams>>
      PROVE  CarShape' /\ CarStep
  BY <1>2, OneMoves, MoveStep
<1> USE DEF KeepsAreas, CarPCs, Crossing!InFirst, Crossing!InSecond
<1>3. CASE Crossing!QueueWait(c) \/ Crossing!Depart(c) \/ Crossing!Arrive(c) \/ Crossing!CrossWait(c)
           \/ Crossing!Clear(c)
  BY <1>2, <1>3 DEF Crossing!QueueWait, Crossing!Depart, Crossing!Arrive, Crossing!CrossWait,
                    Crossing!Clear
<1>4. CASE Crossing!Look(c)
  BY <1>2, <1>4 DEF Crossing!Look
<1>5. CASE \/ Crossing!TestValue(c, "test1", Crossing!First[d], "post1", "signal")
           \/ Crossing!TestValue(c, "test2", Crossing!Second[d], "post2", "pop")
  BY <1>2, <1>5 DEF Crossing!TestValue
<1>6. CASE Crossing!PopNext(c)
  BY <1>2, <1>6 DEF Crossing!PopNext
<1>7. CASE Crossing!SignalLeft(c)
  <2>1. /\ [x_pc EXCEPT ![c] = "test2"] \in [Crossing!Cars -> CarPCs]
        /\ \A e \in Crossing!Cars : KeepsAreas(x_pc[e], [x_pc EXCEPT ![c] = "test2"][e])
    BY <1>7 DEF Crossing!SignalLeft, CarShape
  <2>2. KeepsAreas("cross", "second") /\ "second" \in CarPCs
    OBVIOUS
  <2>3. CarsMove
    <3> HIDE DEF KeepsAreas, CarPCs, Crossing!InFirst, Crossing!InSecond
    <3>1. /\ Crossing!Signal(Crossing!Left[d], "cross", "second", [x_pc EXCEPT ![c] = "test2"])
          /\ x_From' = x_From
      BY <1>7 DEF Crossing!SignalLeft
    <3>2. QED
      BY <2>1, <2>2, <3>1, SignalMoves
  <2>4. QED
    BY <1>7, <2>3, MoveStep DEF Crossing!SignalLeft
<1>8. CASE Crossing!WakeNext(c)
  <2>1. /\ [x_pc EXCEPT ![c] = "done"] \in [Crossing!Cars -> CarPCs]
        /\ \A e \in Crossing!Cars : KeepsAreas(x_pc[e], [x_pc EXCEPT ![c] = "done"][e])
    BY <1>8 DEF Crossing!WakeNext, CarShape
  <2>2. KeepsAreas("queue", "popped") /\ "popped" \in CarPCs
    OBVIOUS
  <2>3. CarsMove
    <3> HIDE DEF KeepsAreas, CarPCs, Crossing!InFirst, Crossing!InSecond
    <3>1. /\ Crossing!Signal(d, "queue", "popped", [x_pc EXCEPT ![c] = "done"])
          /\ x_From' = x_From
      BY <1>8 DEF Crossing!WakeNext
    <3>2. QED
      BY <2>1, <2>2, <3>1, SignalMoves
  <2>4. QED
    BY <1>8, <2>3, MoveStep DEF Crossing!WakeNext
<1>9. ASSUME NEW b \in Crossing!Areas, NEW l \in CarPCs, Crossing!sem_wait(c, b), Crossing!Goto(c, l),
             l \in Crossing!InFirst => x_pc[c] \in Crossing!InFirst \/ b = Crossing!First[d],
             l \in Crossing!InSecond => x_pc[c] \in Crossing!InSecond \/ b = Crossing!Second[d],
             UNCHANGED <<x_From, x_jams>>
      PROVE  CarShape' /\ CarStep
  <2>0. \A e \in Crossing!Cars : x_pc'[e] = IF e = c THEN l ELSE x_pc[e]
    BY <1>9 DEF Crossing!Goto, CarShape
  <2>1. CarEnters(c, b)
    <3> HIDE DEF CarPCs, Crossing!InFirst, Crossing!InSecond
    <3>1. \A a \in Crossing!Areas :
            Crossing!Inside(a)' \subseteq IF a = b THEN Crossing!Inside(a) \cup {c}
                                          ELSE Crossing!Inside(a)
      BY <1>9, <2>0 DEF Crossing!Inside, Crossing!Cars
    <3>2. QED
      BY <1>9, <3>1 DEF CarEnters, Crossing!sem_wait
  <2>2. CarShape'
    BY <1>9 DEF CarShape, Crossing!sem_wait, Crossing!Goto, Crossing!Cars
  <2>3. QED
    BY <2>1, <2>2 DEF CarStep
<1>10. CASE Crossing!EnterFirst(c)
  BY <1>1, <1>9, <1>10 DEF Crossing!EnterFirst
<1>11. CASE Crossing!EnterSecond(c)
  BY <1>1, <1>9, <1>11 DEF Crossing!EnterSecond
<1>12. ASSUME NEW b \in Crossing!Areas, NEW l \in CarPCs, NEW at, Crossing!Post(c, at, b, l),
             \/ b = Crossing!First[d] /\ at = "post1" /\ l = "signal"
             \/ b = Crossing!Second[d] /\ at = "post2" /\ l = "pop"
      PROVE  CarShape' /\ CarStep
  <2>0. /\ \A e \in Crossing!Cars : x_pc'[e] = IF e = c THEN l ELSE x_pc[e]
        /\ x_pc[c] = at /\ x_From' = x_From /\ x_jams' = x_jams
        /\ x_sem' = [x_sem EXCEPT ![b] = @ + 1]
    BY <1>12 DEF Crossing!Goto, CarShape, Crossing!Post
  <2>1. CarLeaves(c, b)
    <3>0. c \in Crossing!Inside(b)
      BY <1>12, <2>0 DEF Crossing!Inside
    <3>1. ASSUME NEW a \in Crossing!Areas, NEW e \in Crossing!Inside(a)'
          PROVE  e \in Crossing!Inside(a) /\ ~(a = b /\ e = c)
      <4>0. /\ e \in Crossing!Cars
            /\ \/ Crossing!First[x_From[e]] = a /\ x_pc'[e] \in Crossing!InFirst
               \/ Crossing!Second[x_From[e]] = a /\ x_pc'[e] \in Crossing!InSecond
        BY <2>0, <3>1 DEF Crossing!Inside, Crossing!Cars
      <4>1. CASE e = c
        BY <1>1, <1>12, <2>0, <4>0, <4>1 DEF Crossing!Inside
      <4>2. CASE e # c
        BY <2>0, <4>0, <4>2 DEF Crossing!Inside
      <4>3. QED
        BY <4>1, <4>2
    <3>2. QED
      BY <2>0, <3>0, <3>1 DEF CarLeaves
  <2>2. CarShape'
    BY <1>12 DEF CarShape, Crossing!Post, Crossing!Goto, Crossing!Cars
  <2>3. QED
    BY <2>1, <2>2 DEF CarStep
<1>13. CASE \/ Crossing!Post(c, "post1", Crossing!First[d], "signal")
            \/ Crossing!Post(c, "post2", Crossing!Second[d], "pop")
  BY <1>1, <1>12, <1>13
<1>14. QED
  BY <1>3, <1>4, <1>5, <1>6, <1>7, <1>8, <1>10, <1>11, <1>13 DEF Crossing!Car

(* The detector, a spurious wake-up and the end of main move cars that     *)
(* wait, or post mutexD.                                                   *)
LEMMA OtherAction ==
  ASSUME CarShape,
         \/ Crossing!Detector \/ Crossing!Exit
         \/ \E c \in Crossing!Cars : Crossing!SpuriousWakeup(c)
  PROVE  CarShape' /\ CarStep
<1>0. /\ \A p \in CarPCs : KeepsAreas(p, p)
      /\ KeepsAreas("queue", "popped") /\ KeepsAreas("cross", "second")
      /\ "popped" \in CarPCs /\ "second" \in CarPCs
      /\ x_pc \in [Crossing!Cars -> CarPCs]
      /\ \A c \in Crossing!Cars : KeepsAreas(x_pc[c], x_pc[c])
  BY DEF KeepsAreas, CarPCs, Crossing!InFirst, Crossing!InSecond, CarShape
<1>1. ASSUME UNCHANGED <<x_From, x_sem, x_jams>>,
             \/ UNCHANGED x_pc
             \/ \E d : Crossing!Signal(d, "queue", "popped", x_pc)
             \/ Crossing!Signal("North", "cross", "second", x_pc)
      PROVE  CarShape' /\ CarStep
  <2>1. CarsMove
    <3>1. CASE UNCHANGED x_pc
      BY <1>0, <1>1, <3>1 DEF CarsMove
    <3>2. ASSUME NEW d, Crossing!Signal(d, "queue", "popped", x_pc)
          PROVE  CarsMove
      BY <1>0, <1>1, <3>2, SignalMoves
    <3>3. CASE Crossing!Signal("North", "cross", "second", x_pc)
      BY <1>0, <1>1, <3>3, SignalMoves
    <3>4. QED
      BY <1>1, <3>1, <3>2, <3>3
  <2>2. QED
    BY <1>1, <2>1, MoveStep
<1>2. CASE Crossing!WakeFirst
  BY <1>1, <1>2 DEF Crossing!WakeFirst
<1>3. CASE Crossing!ReadValue \/ Crossing!Check \/ Crossing!Exit
  BY <1>1, <1>3 DEF Crossing!ReadValue, Crossing!Check, Crossing!Exit
<1>4. CASE Crossing!SignalNorth
  BY <1>1, <1>4 DEF Crossing!SignalNorth
<1>5. CASE Crossing!PostD
  <2>1. CarsMove
    BY <1>0, <1>5 DEF Crossing!PostD, CarsMove
  <2>2. DetectorPosts
    BY <1>5, <2>1, MoveStays DEF Crossing!PostD, DetectorPosts
  <2>3. CarShape'
    <3>1. x_jams' \in BOOLEAN /\ UNCHANGED <<x_From, x_pc>>
      BY <1>5 DEF Crossing!PostD
    <3>2. x_sem' \in [Crossing!Areas -> Nat]
      BY <1>5 DEF CarShape, Crossing!PostD, Crossing!Areas
    <3>3. QED
      BY <3>1, <3>2 DEF CarShape, Crossing!Cars
  <2>4. QED
    BY <2>2, <2>3 DEF CarStep
<1>6. ASSUME NEW c \in Crossing!Cars, Crossing!SpuriousWakeup(c)
      PROVE  CarShape' /\ CarStep
  <2>1. x_From' = x_From /\ UNCHANGED <<x_sem, x_jams>>
    BY <1>6 DEF Crossing!SpuriousWakeup
  <2>2. PICK l : Crossing!Goto(c, l) /\ KeepsAreas(x_pc[c], l)
    BY <1>0, <1>6 DEF Crossing!SpuriousWakeup
  <2>3. QED
    BY <2>1, <2>2, OneMoves, MoveStep
<1>7. QED
  BY <1>2, <1>3, <1>4, <1>5, <1>6 DEF Crossing!Detector

(* The invariant of the crossing, for any cars.                            *)
THEOREM CrossingInvariance == Crossing!Spec => []CarInv
<1>1. Crossing!Init => CarInv
  <2> SUFFICES ASSUME Crossing!Init PROVE CarInv
    OBVIOUS
  <2>1. CarShape
    <3>1. x_From \in Seq(Crossing!Directions)
      BY CarAssumption DEF Crossing!Init, Crossing!Directions
    <3>2. x_jams \in BOOLEAN
      BY DEF Crossing!Init
    <3>3. QED
      BY <3>1, <3>2 DEF Crossing!Init, CarShape, CarPCs
  <2>2. \A a \in Crossing!Areas : Crossing!Inside(a) = {} /\ x_sem[a] = 1
    BY DEF Crossing!Init, Crossing!Inside, Crossing!InFirst, Crossing!InSecond
  <2>3. QED
    BY <2>1, <2>2 DEF CarInv, AreaFree
<1>2. CarInv /\ [Crossing!Next]_(Crossing!vars) => CarInv'
  <2> SUFFICES ASSUME CarInv, [Crossing!Next]_(Crossing!vars) PROVE CarInv'
    OBVIOUS
  <2>1. CASE Crossing!Next
    <3>1. CarShape' /\ CarStep
      BY <2>1, CarAction, OtherAction DEF Crossing!Next, CarInv
    <3>2. QED
      BY <3>1, AreaFreeStep DEF CarInv
  <2>2. CASE UNCHANGED Crossing!vars
    BY <2>2 DEF Crossing!vars, CarInv, CarShape, AreaFree, Guarded, Crossing!Inside, Crossing!Cars
  <2>3. QED
    BY <2>1, <2>2
<1>3. QED
  BY <1>1, <1>2, PTL DEF Crossing!Spec

(* Two cars are never in one area of the crossing, however many there are  *)
(* and wherever they come from, except in D once the detector has posted   *)
(* mutexD: reading a semaphore and posting it in a second step is safe, as *)
(* only the car in the area posts it.                                      *)
THEOREM CrossingExcludes == Crossing!Spec => []CrossingAreaExclusive
<1>1. CarInv => CrossingAreaExclusive
  <2> SUFFICES ASSUME CarInv, NEW a \in Crossing!Areas, Guarded(a)
               PROVE  Cardinality(Crossing!Inside(a)) <= 1
    <3>1. \A S : Crossing!Cardinality(S) = Cardinality(S)
      BY DEF Crossing!Cardinality, Cardinality
    <3>2. QED
      BY <3>1 DEF CrossingAreaExclusive, Crossing!AreaExclusive, Guarded
  <2>1. CASE Crossing!Inside(a) = {}
    BY <2>1, FS_EmptySet
  <2>2. CASE Crossing!Inside(a) # {}
    <3>1. PICK c : c \in Crossing!Inside(a)
      BY <2>2
    <3>2. Crossing!Inside(a) = {c}
      BY <3>1 DEF CarInv, AreaFree
    <3>3. Cardinality({c}) = 1
      BY FS_Singleton
    <3>4. QED
      BY <3>2, <3>3
  <2>3. QED
    BY <2>1, <2>2
<1>2. QED
  BY <1>1, CrossingInvariance, PTL

-----------------------------------------------------------------------------
(* IpcQueue.  A process starts only when the launcher forks it; those the  *)
(* launcher has been through in its clean-up are not alive, unless it does *)
(* not know of them; a name in the file system has a process that opened   *)
(* it and has not come to its own end; only the producer's segment is ever *)
(* filled.                                                                 *)
IpcProcs == 0 .. NumConsumers
IpcStates == {"new", "open", "head", "tail", "run", "over", "crashed", "killed"}
IpcShape ==
  /\ q_proc \in [IpcProcs -> IpcStates]
  /\ q_launcher \in {"fork", "record", "wait", "term", "kill", "over"} \X IpcProcs
  /\ q_segment \in [IpcProcs -> Seq(Nat)] /\ q_got \in [IpcProcs -> SUBSET Nat]
  /\ q_made \in Nat
IpcFork ==
  /\ q_launcher[1] = "fork" => \A p \in IpcProcs : p >= q_launcher[2] => q_proc[p] = "new"
  /\ q_launcher[1] = "record" => \A p \in IpcProcs : p > q_launcher[2] => q_proc[p] = "new"
IpcCleaned ==
  \A p \in IpcProcs :
    \/ q_launcher[1] \in {"term", "kill"} /\ p < q_launcher[2]
    \/ q_launcher[1] = "over"
    => (Ipc!Alive(p) => p \in q_orphan)
IpcNamed ==
  q_name # 0 =>
    \E p \in IpcProcs : q_proc[p] \in {"head", "tail", "run", "crashed", "killed"}
IpcOwn == \A p \in IpcProcs : p # 0 => q_segment[p] = <<>> /\ q_got[p] = {}
IpcInv == IpcShape /\ IpcFork /\ IpcCleaned /\ IpcNamed /\ IpcOwn

(* The numbers of the processes, as the definitions of IpcQueue have them. *)
LEMMA IpcNumbers ==
  /\ Ipc!Processes = IpcProcs /\ Ipc!Producer = 0 /\ Ipc!None = 0
  /\ NumConsumers \in Nat /\ 0 \in IpcProcs /\ -1 \notin IpcProcs
  /\ \A p \in IpcProcs : p \in Nat
  /\ \A p : Ipc!Last(p) <=> p = NumConsumers
  /\ \A p \in IpcProcs : p # NumConsumers => p + 1 \in IpcProcs
<1>1. NumConsumers \in Nat \ {0}
  BY ProcessAssumption
<1>2. Ipc!Cardinality(1 .. NumConsumers) = Cardinality(1 .. NumConsumers)
  BY DEF Ipc!Cardinality, Cardinality
<1>3. Cardinality(1 .. NumConsumers) = NumConsumers
  BY <1>1, FS_Interval
<1>4. \A p : Ipc!Last(p) <=> p = NumConsumers
  BY <1>2, <1>3 DEF Ipc!Last
<1>5. QED
  BY <1>1, <1>4 DEF Ipc!Processes, Ipc!Producer, Ipc!None, IpcProcs

(* A step of a process that is alive: it stays alive or ends, and if it    *)
(* ends by itself the name is gone; only the producer fills a segment.     *)
IpcWork(p) ==
  /\ q_proc[p] \in {"open", "head", "tail", "run"}
  /\ q_proc' \in {[q_proc EXCEPT ![p] = s] : s \in IpcStates \ {"new", "open"}} \cup {q_proc}
  /\ \/ q_proc'[p] = "over" /\ q_name' = 0
     \/ q_proc'[p] # "over" /\ q_proc[p] # "open" /\ q_name' = q_name
     \/ q_proc'[p] = "head"
  /\ q_made' \in Nat
  /\ \/ q_segment' = [q_segment EXCEPT ![0] = Append(@, q_made')] /\ UNCHANGED q_got
     \/ q_segment' = [q_segment EXCEPT ![p] = <<>>] /\ UNCHANGED q_got
     \/ /\ q_segment' = [q_segment EXCEPT ![p] = IF @ = <<>> THEN @ ELSE Tail(@)]
        /\ q_got' = [q_got EXCEPT ![p] = @ \cup {q_segment[p][i] : i \in 1 .. Len(q_segment[p]) \cap {1}}]
     \/ UNCHANGED <<q_segment, q_got>>
  /\ UNCHANGED <<q_launcher, q_orphan>>

(* The steps of producer.cpp and consumer.cpp are of this kind.            *)
LEMMA IpcWorks ==
  ASSUME IpcShape, Ipc!producer \/ \E c \in 1 .. NumConsumers : Ipc!consumer(c)
  PROVE  \E p \in IpcProcs : IpcWork(p)
<1> USE IpcNumbers
<1>0. \A p \in IpcProcs, s \in IpcStates \ {"new", "open"} :
        /\ [q_proc EXCEPT ![p] = s] \in {[q_proc EXCEPT ![p] = r] : r \in IpcStates \ {"new", "open"}}
        /\ [q_proc EXCEPT ![p] = s][p] = s
  BY DEF IpcShape
<1> USE DEF Ipc!Enter
<1>1. ASSUME NEW p \in IpcProcs, Ipc!Constructor(p) \/ Ipc!Finish(p)
      PROVE  IpcWork(p)
  <2>1. CASE Ipc!Open(p)
    <3>1. q_proc' = [q_proc EXCEPT ![p] = "head"] /\ "head" \in IpcStates \ {"new", "open"}
      BY <2>1 DEF Ipc!Open, IpcStates
    <3>2. /\ q_proc[p] = "open"
          /\ UNCHANGED <<q_made, q_segment, q_got, q_launcher, q_orphan>>
      BY <2>1 DEF Ipc!Open
    <3>3. q_proc'[p] = "head" /\ q_made \in Nat
      BY <1>0, <3>1 DEF IpcShape
    <3>4. q_proc' \in {[q_proc EXCEPT ![p] = r] : r \in IpcStates \ {"new", "open"}}
      BY <1>0, <3>1
    <3>5. QED
      BY <3>2, <3>3, <3>4 DEF IpcWork
  <2>2. CASE Ipc!StoreHead(p)
    <3>1. q_proc' = [q_proc EXCEPT ![p] = "tail"] /\ "tail" \in IpcStates \ {"new", "open"}
      BY <2>2 DEF Ipc!StoreHead, IpcStates
    <3>2. /\ q_proc[p] = "head"
          /\ UNCHANGED <<q_name, q_made, q_segment, q_got, q_launcher, q_orphan>>
      BY <2>2 DEF Ipc!StoreHead
    <3>3. q_proc'[p] = "tail" /\ q_made \in Nat
      BY <1>0, <3>1 DEF IpcShape
    <3>4. q_proc' \in {[q_proc EXCEPT ![p] = r] : r \in IpcStates \ {"new", "open"}}
      BY <1>0, <3>1
    <3>5. QED
      BY <3>2, <3>3, <3>4 DEF IpcWork
  <2>3. CASE Ipc!StoreTail(p)
    <3>1. q_proc' = [q_proc EXCEPT ![p] = "run"] /\ "run" \in IpcStates \ {"new", "open"}
      BY <2>3 DEF Ipc!StoreTail, IpcStates
    <3>2. /\ q_proc[p] = "tail"
          /\ UNCHANGED <<q_name, q_made, q_segment, q_got, q_launcher, q_orphan>>
      BY <2>3 DEF Ipc!StoreTail
    <3>3. q_proc'[p] = "run" /\ q_made \in Nat
      BY <1>0, <3>1 DEF IpcShape
    <3>4. q_proc' \in {[q_proc EXCEPT ![p] = r] : r \in IpcStates \ {"new", "open"}}
      BY <1>0, <3>1
    <3>5. QED
      BY <3>2, <3>3, <3>4 DEF IpcWork
  <2>4. CASE Ipc!Finish(p)
    <3>1. q_proc' = [q_proc EXCEPT ![p] = "over"] /\ "over" \in IpcStates \ {"new", "open"}
      BY <2>4 DEF Ipc!Finish, IpcStates
    <3>2. /\ q_proc[p] = "run" /\ q_name' = 0
          /\ q_segment' = [q_segment EXCEPT ![p] = <<>>]
          /\ UNCHANGED <<q_made, q_got, q_launcher, q_orphan>>
      BY <2>4 DEF Ipc!Finish
    <3>3. q_proc'[p] = "over" /\ q_made \in Nat
      BY <1>0, <3>1 DEF IpcShape
    <3>4. q_proc' \in {[q_proc EXCEPT ![p] = r] : r \in IpcStates \ {"new", "open"}}
      BY <1>0, <3>1
    <3>5. QED
      BY <3>2, <3>3, <3>4 DEF IpcWork
  <2>5. QED
    BY <1>1, <2>1, <2>2, <2>3, <2>4 DEF Ipc!Constructor
<1>2. ASSUME NEW p \in IpcProcs, q_proc[p] = "run", q_proc' = [q_proc EXCEPT ![p] = "crashed"],
             UNCHANGED <<q_name, q_made, q_segment, q_got, q_launcher, q_orphan>>
      PROVE  IpcWork(p)
  <2>1. "crashed" \in IpcStates \ {"new", "open"}
    BY DEF IpcStates
  <2>2. QED
    BY <1>0, <1>2, <2>1 DEF IpcWork, IpcShape
<1>3. CASE Ipc!Push
  <2>1. CASE Ipc!SegmentAt(0, q_header[q_mapped[0]].tail) = -1
    BY <1>2, <1>3, <2>1 DEF Ipc!Push
  <2>2. CASE Ipc!SegmentAt(0, q_header[q_mapped[0]].tail) # -1
    <3>1. Ipc!SegmentAt(0, q_header[q_mapped[0]].tail) = 0
      BY <2>2 DEF Ipc!SegmentAt
    <3>2. /\ q_proc[0] = "run" /\ q_made' = q_made + 1
          /\ q_segment' = [q_segment EXCEPT ![0] = Append(@, q_made')]
          /\ UNCHANGED <<q_name, q_proc, q_got, q_launcher, q_orphan>>
      BY <1>3, <3>1 DEF Ipc!Push
    <3>3. IpcWork(0)
      BY <3>2 DEF IpcWork, IpcShape
    <3>4. QED
      BY <3>3
  <2>3. QED
    BY <2>1, <2>2
<1>4. ASSUME NEW c \in 1 .. NumConsumers, Ipc!Pop(c)
      PROVE  \E p \in IpcProcs : IpcWork(p)
  <2>0. c \in IpcProcs /\ c # -1
    BY DEF IpcProcs
  <2>1. CASE Ipc!SegmentAt(c, q_header[q_mapped[c]].head) = -1
    BY <1>2, <1>4, <2>0, <2>1 DEF Ipc!Pop
  <2>2. CASE Ipc!SegmentAt(c, q_header[q_mapped[c]].head) # -1
    <3>1. Ipc!SegmentAt(c, q_header[q_mapped[c]].head) = c
      BY <2>2 DEF Ipc!SegmentAt
    <3>2. /\ q_proc[c] = "run"
          /\ q_got' = [q_got EXCEPT ![c] = @ \cup {q_segment[c][i] : i \in 1 .. Len(q_segment[c]) \cap {1}}]
          /\ q_segment' = [q_segment EXCEPT ![c] = IF @ = <<>> THEN @ ELSE Tail(@)]
          /\ UNCHANGED <<q_name, q_proc, q_made, q_launcher, q_orphan>>
      BY <1>4, <2>0, <3>1 DEF Ipc!Pop
    <3>3. IpcWork(c)
      BY <3>2 DEF IpcWork, IpcShape
    <3>4. QED
      BY <2>0, <3>3
  <2>3. QED
    BY <2>1, <2>2
<1>5. QED
  BY <1>1, <1>3, <1>4 DEF Ipc!producer, Ipc!consumer, IpcProcs

(* A step of a process keeps the invariant.                                *)
LEMMA IpcWorkStep ==
  ASSUME IpcInv, NEW p \in IpcProcs, IpcWork(p)
  PROVE  IpcInv'
<1>0. /\ q_proc[p] \in {"open", "head", "tail", "run"}
      /\ UNCHANGED <<q_launcher, q_orphan>> /\ q_made' \in Nat
  BY DEF IpcWork
<1>1. /\ q_proc' \in [IpcProcs -> IpcStates]
      /\ \A o \in IpcProcs : o # p => q_proc'[o] = q_proc[o]
      /\ q_proc'[p] \notin {"new", "open"} \/ q_proc' = q_proc
  BY DEF IpcWork, IpcInv, IpcShape
<1>2. /\ q_segment' \in [IpcProcs -> Seq(Nat)] /\ q_got' \in [IpcProcs -> SUBSET Nat]
      /\ IpcOwn'
  <2>0. q_segment \in [IpcProcs -> Seq(Nat)] /\ q_got \in [IpcProcs -> SUBSET Nat] /\ 0 \in IpcProcs
    BY IpcNumbers DEF IpcInv, IpcShape
  <2>1. CASE q_segment' = [q_segment EXCEPT ![0] = Append(@, q_made')] /\ UNCHANGED q_got
    <3>1. Append(q_segment[0], q_made') \in Seq(Nat)
      BY <1>0, <2>0
    <3>2. q_segment' \in [IpcProcs -> Seq(Nat)]
      BY <2>0, <2>1, <3>1
    <3>3. QED
      BY <2>0, <2>1, <3>2 DEF IpcInv, IpcOwn
  <2>2. CASE q_segment' = [q_segment EXCEPT ![p] = <<>>] /\ UNCHANGED q_got
    BY <2>0, <2>2 DEF IpcInv, IpcOwn
  <2>3. CASE /\ q_segment' = [q_segment EXCEPT ![p] = IF @ = <<>> THEN @ ELSE Tail(@)]
             /\ q_got' = [q_got EXCEPT ![p] = @ \cup {q_segment[p][i] : i \in 1 .. Len(q_segment[p]) \cap {1}}]
    <3> DEFINE seg == IF q_segment[p] = <<>> THEN <<>> ELSE Tail(q_segment[p])
               new == {q_segment[p][i] : i \in 1 .. Len(q_segment[p]) \cap {1}}
    <3>1. seg \in Seq(Nat) /\ new \in SUBSET Nat
      BY <2>0
    <3>2. q_segment[p] = <<>> => seg = <<>> /\ new = {}
      BY <2>0
    <3>3. q_segment' = [q_segment EXCEPT ![p] = seg] /\ q_got' = [q_got EXCEPT ![p] = @ \cup new]
      BY <2>0, <2>3
    <3> HIDE DEF seg, new
    <3>4. q_segment' \in [IpcProcs -> Seq(Nat)] /\ q_got' \in [IpcProcs -> SUBSET Nat]
      BY <2>0, <3>1, <3>3
    <3>5. QED
      BY <2>0, <3>2, <3>3, <3>4 DEF IpcInv, IpcOwn
  <2>4. CASE UNCHANGED <<q_segment, q_got>>
    BY <2>0, <2>4 DEF IpcInv, IpcOwn
  <2>5. QED
    BY <2>1, <2>2, <2>3, <2>4 DEF IpcWork
<1>3. IpcShape'
  BY <1>0, <1>1, <1>2 DEF IpcInv, IpcShape
<1>4. IpcFork'
  BY <1>0, <1>1 DEF IpcInv, IpcFork
<1>5. IpcCleaned'
  <2>1. \A o \in IpcProcs : Ipc!Alive(o)' => Ipc!Alive(o)
    BY <1>0, <1>1 DEF Ipc!Alive
  <2>2. QED
    BY <1>0, <2>1 DEF IpcInv, IpcCleaned
<1>6. IpcNamed'
  <2>1. CASE q_proc'[p] = "over" /\ q_name' = 0
    BY <2>1 DEF IpcNamed
  <2>2. CASE q_proc'[p] = "head"
    BY <2>2 DEF IpcNamed
  <2>3. CASE q_proc'[p] # "over" /\ q_proc[p] # "open" /\ q_name' = q_name
    <3>1. q_proc'[p] \in {"head", "tail", "run", "crashed", "killed"}
      BY <1>0, <1>1, <2>3 DEF IpcStates
    <3>2. QED
      BY <3>1 DEF IpcNamed
  <2>4. QED
    BY <2>1, <2>2, <2>3 DEF IpcWork
<1>7. QED
  BY <1>2, <1>3, <1>4, <1>5, <1>6 DEF IpcInv

(* A step of the launcher keeps the invariant.                             *)
LEMMA IpcLaunchStep ==
  ASSUME IpcInv, Ipc!Launch
  PROVE  IpcInv'
<1> USE IpcNumbers
<1>0. /\ q_launcher[1] \in {"fork", "record", "wait", "term", "kill", "over"}
      /\ q_launcher[2] \in IpcProcs /\ q_launcher[2] \in Nat
  BY DEF IpcInv, IpcShape
<1>1. CASE Ipc!Interrupt
  <2>1. /\ q_launcher' = <<"term", 0>>
        /\ UNCHANGED <<q_name, q_made, q_segment, q_got, q_proc>>
    BY <1>1 DEF Ipc!Interrupt, Ipc!procVars
  <2>2. QED
    BY <2>1 DEF IpcInv, IpcShape, IpcFork, IpcCleaned, IpcNamed, IpcOwn, Ipc!Alive
<1>2. ASSUME NEW p \in IpcProcs, Ipc!Fork(p)
      PROVE  IpcInv'
  <2>1. /\ q_launcher = <<"fork", p>> /\ q_launcher' = <<"record", p>>
        /\ UNCHANGED <<q_name, q_made, q_segment, q_got, q_orphan>>
        /\ \E at \in {"open", "over", "new"} : q_proc' = [q_proc EXCEPT ![p] = at]
    BY <1>2 DEF Ipc!Fork, Ipc!Step, Ipc!procVars, Ipc!Enter
  <2>2. /\ q_proc' \in [IpcProcs -> IpcStates] /\ q_proc[p] = "new"
        /\ \A o \in IpcProcs : o # p => q_proc'[o] = q_proc[o]
    BY <2>1 DEF IpcInv, IpcShape, IpcStates, IpcFork
  <2>3. QED
    BY <2>1, <2>2 DEF IpcInv, IpcShape, IpcFork, IpcCleaned, IpcNamed, IpcOwn
<1>3. ASSUME NEW p \in IpcProcs, Ipc!Record(p)
      PROVE  IpcInv'
  <2>1. /\ q_launcher = <<"record", p>>
        /\ \/ q_launcher' = <<"wait", p>>
           \/ q_launcher' = <<"fork", p + 1>> /\ p + 1 \in IpcProcs
        /\ UNCHANGED <<q_name, q_made, q_segment, q_got, q_orphan, q_proc>>
    BY <1>3 DEF Ipc!Record, Ipc!procVars
  <2>2. QED
    BY <2>1 DEF IpcInv, IpcShape, IpcFork, IpcCleaned, IpcNamed, IpcOwn, Ipc!Alive
<1>4. ASSUME NEW p \in IpcProcs, Ipc!Term(p)
      PROVE  IpcInv'
  <2>1. /\ q_launcher = <<"term", p>> /\ q_launcher' = <<"kill", p>>
        /\ UNCHANGED <<q_name, q_made, q_segment, q_got, q_orphan, q_proc>>
    BY <1>4 DEF Ipc!Term, Ipc!Step, Ipc!procVars
  <2>2. QED
    BY <2>1 DEF IpcInv, IpcShape, IpcFork, IpcCleaned, IpcNamed, IpcOwn, Ipc!Alive
<1>5. ASSUME NEW p \in IpcProcs, Ipc!Kill(p)
      PROVE  IpcInv'
  <2>1. /\ q_launcher = <<"kill", p>>
        /\ \/ q_launcher' = <<"over", p>> /\ p = NumConsumers
           \/ q_launcher' = <<"term", p + 1>> /\ p + 1 \in IpcProcs
        /\ UNCHANGED <<q_name, q_made, q_segment, q_got, q_orphan>>
    BY <1>5 DEF Ipc!Kill, Ipc!procVars
  <2>2. /\ q_proc' \in [IpcProcs -> IpcStates]
        /\ \A o \in IpcProcs : o # p => q_proc'[o] = q_proc[o]
        /\ q_proc'[p] = q_proc[p] \/ q_proc'[p] = "killed"
        /\ Ipc!Alive(p)' => p \in q_orphan
    <3>1. CASE Ipc!Alive(p) /\ ~Ipc!Skip(p)
      BY <1>5, <3>1 DEF Ipc!Kill, Ipc!Enter, Ipc!Alive, IpcInv, IpcShape, IpcStates
    <3>2. CASE ~(Ipc!Alive(p) /\ ~Ipc!Skip(p))
      <4>1. UNCHANGED q_proc
        BY <1>5, <3>2 DEF Ipc!Kill
      <4>2. Ipc!Alive(p) => p \in q_orphan
        BY <3>2 DEF Ipc!Skip, Ipc!Alive
      <4>3. QED
        BY <4>1, <4>2 DEF IpcInv, IpcShape, Ipc!Alive
    <3>3. QED
      BY <3>1, <3>2
  <2>3. IpcCleaned'
    <3>1. \A o \in IpcProcs : o < p => (Ipc!Alive(o)' => o \in q_orphan)
      BY <2>1, <2>2 DEF IpcInv, IpcCleaned, Ipc!Alive
    <3>2. \A o \in IpcProcs : o < p + 1 => (Ipc!Alive(o)' => o \in q_orphan)
      BY <2>2, <3>1 DEF IpcProcs
    <3>3. p = NumConsumers => \A o \in IpcProcs : Ipc!Alive(o)' => o \in q_orphan
      BY <3>2 DEF IpcProcs
    <3>4. QED
      BY <2>1, <3>2, <3>3 DEF IpcCleaned
  <2>4. IpcShape' /\ IpcFork' /\ IpcOwn'
    BY <2>1, <2>2 DEF IpcInv, IpcShape, IpcFork, IpcOwn
  <2>5. IpcNamed'
    BY <2>1, <2>2 DEF IpcInv, IpcNamed
  <2>6. QED
    BY <2>3, <2>4, <2>5 DEF IpcInv
<1>6. QED
  BY <1>1, <1>2, <1>3, <1>4, <1>5 DEF Ipc!Launch

(* The invariant of the processes around the queue, for any number of      *)
(* consumers and messages.                                                 *)
THEOREM IpcInvariance == Ipc!Spec => []IpcInv
<1>1. Ipc!Init => IpcInv
  <2> SUFFICES ASSUME Ipc!Init PROVE IpcInv
    OBVIOUS
  <2>1. \A p \in IpcProcs : q_proc[p] = "new" /\ q_segment[p] = <<>> /\ q_got[p] = {}
    BY IpcNumbers DEF Ipc!Init
  <2>2. IpcShape
    BY IpcNumbers DEF Ipc!Init, IpcShape, IpcStates
  <2>3. QED
    BY <2>1, <2>2, IpcNumbers
       DEF Ipc!Init, IpcInv, IpcFork, IpcCleaned, IpcNamed, IpcOwn
<1>2. IpcInv /\ [Ipc!Next]_(Ipc!vars) => IpcInv'
  <2> SUFFICES ASSUME IpcInv, [Ipc!Next]_(Ipc!vars) PROVE IpcInv'
    OBVIOUS
  <2>1. CASE Ipc!Launch
    BY <2>1, IpcLaunchStep
  <2>2. CASE Ipc!producer \/ \E c \in 1 .. NumConsumers : Ipc!consumer(c)
    BY <2>2, IpcWorks, IpcWorkStep DEF IpcInv
  <2>3. CASE UNCHANGED Ipc!vars
    BY <2>3 DEF Ipc!vars, IpcInv, IpcShape, IpcFork, IpcCleaned, IpcNamed, IpcOwn, Ipc!Alive
  <2>4. QED
    BY <2>1, <2>2, <2>3 DEF Ipc!Next
<1>3. QED
  BY <1>1, <1>2, PTL DEF Ipc!Spec

(* No message of the producer reaches a consumer process, whatever address *)
(* the header holds: segments are in the heap of the process that made     *)
(* them.                                                                   *)
THEOREM IpcIsolated == Ipc!Spec => []IpcNothingCrosses
<1>1. IpcInv => IpcNothingCrosses
  BY IpcNumbers DEF IpcInv, IpcOwn, IpcNothingCrosses, Ipc!NothingCrosses, IpcProcs
<1>2. QED
  BY <1>1, IpcInvariance, PTL

(* cleanup_processes leaves no process but one it has not recorded, and    *)
(* processes that end by themselves leave no name in the file system.      *)
THEOREM IpcCleansUp == Ipc!Spec => []IpcNothingLeft
<1>1. IpcInv => IpcNothingLeft
  <2> SUFFICES ASSUME IpcInv, q_launcher[1] = "over"
               PROVE  /\ \A p \in IpcProcs : Ipc!Alive(p) => p \in q_orphan
                      /\ (\A p \in IpcProcs : q_proc[p] \in {"new", "over"}) => q_name = 0
    BY IpcNumbers DEF IpcNothingLeft, Ipc!NothingLeft
  <2>1. QED
    BY DEF IpcInv, IpcCleaned, IpcNamed
<1>2. QED
  BY <1>1, IpcInvariance, PTL
-----------------------------------------------------------------------------
(* Chat.  A descriptor leads to the connection it was given for, or main   *)
(* has closed that connection.  The places are in step with the table of   *)
(* descriptors, except the one main has given out and not yet filled.      *)
People == Talk!Clients \cup {Talk!NoClient}
Handles == Descriptors \cup {-1}
Places == DOMAIN c_clientList
ChatAtWork == {"call", "recv", "respond", "message", "target", "forward"}
Items == {<<"piece">>, <<"ask">>} \cup ({"message"} \X Nat)
ChatThreads ==
  [pc : ChatAtWork \cup {"none", "start", "end"}, id : Nat, fd : Handles, recv : People,
   short : BOOLEAN, asker : People, to : Int, target : Handles, for : People]

ChatShape ==
  /\ \E n \in Nat \ {0} : /\ c_clientList \in [0 .. n - 1 -> Handles]
                          /\ c_occupant \in [0 .. n - 1 -> People]
  /\ c_count \in Places \cup {-1} /\ c_incoming \in Handles
  /\ c_file \in [Descriptors -> People] /\ c_accepted \in 0 .. NumClients
  /\ c_thread \in [Talk!Clients -> ChatThreads] /\ c_evicted \subseteq Talk!Clients
  /\ c_up \in [Talk!Clients -> Seq(Items)] /\ c_down \in [Talk!Clients -> Seq(People)]
  /\ \A c \in Talk!Clients : /\ c_thread[c].id \in Places
                             /\ c_thread[c].pc = "message" => c_thread[c].to \in Nat
                             /\ c_thread[c].pc = "target" => c_thread[c].to \in Places

(* Main has started the thread of client c.                                *)
Arrived(c) == c <= c_accepted /\ (c_incoming = -1 \/ c # c_accepted)
Arrivals ==
  /\ c_incoming # -1 => /\ c_count \in Places /\ c_accepted \in Talk!Clients
                        /\ c_file[c_incoming] = c_accepted
  /\ \A c \in Talk!Clients : c_thread[c].pc # "none" \/ c \in c_evicted => Arrived(c)

(* Each connection has one descriptor and at most one place.               *)
FileTable ==
  /\ \A d \in Descriptors : c_file[d] <= c_accepted
  /\ \A d, e \in Descriptors : c_file[d] = c_file[e] /\ c_file[d] # 0 => d = e

ToBeFilled(s) == c_incoming # -1 /\ s = c_count
PlaceTable ==
  /\ \A s \in Places : c_occupant[s] # 0 => Arrived(c_occupant[s])
  /\ \A r, s \in Places : c_occupant[r] = c_occupant[s] /\ c_occupant[r] # 0 => r = s
  /\ \A s \in Places : c_clientList[s] # -1 =>
       /\ c_occupant[s] # 0
       /\ IF ToBeFilled(s) THEN c_occupant[s] \in c_evicted
          ELSE c_file[c_clientList[s]] = c_occupant[s]

(* What is sent to descriptor d for client c reaches c or, when main has   *)
(* closed the connection, whoever got the descriptor next.                 *)
LeadsTo(d, c) == d # -1 /\ c # 0 /\ (c \in c_evicted \/ c_file[d] = c)
ChatAddressed ==
  \A c \in Talk!Clients : LET r == c_thread[c] IN
    /\ r.pc = "recv" => LeadsTo(r.fd, r.recv)
    /\ r.pc \in {"respond", "message", "target", "forward"} => LeadsTo(r.fd, r.asker)
    /\ r.pc = "forward" /\ r.target # -1 => LeadsTo(r.target, r.for)

(* The thread of an evicted client may still give the place up.            *)
Contested(s) == \E e \in c_evicted : c_thread[e].id = s
ChatSeated ==
  \A c \in Talk!Clients \ c_evicted : LET r == c_thread[c] IN
    r.pc \in ChatAtWork \cup {"start"} =>
      \/ Contested(r.id)
      \/ /\ c_occupant[r.id] = c /\ c_clientList[r.id] # -1
         /\ r.pc \in ChatAtWork => r.fd = c_clientList[r.id]

ChatInv == /\ ChatShape /\ Arrivals /\ FileTable /\ PlaceTable /\ ChatAddressed
           /\ ChatSeated /\ ChatMeantForMe

(* A step of thread t: it moves on, or gives its place up and ends.        *)
ChatAddress(r) ==
  /\ r.pc = "recv" => LeadsTo(r.fd, r.recv)
  /\ r.pc \in {"respond", "message", "target", "forward"} => LeadsTo(r.fd, r.asker)
  /\ r.pc = "forward" /\ r.target # -1 => LeadsTo(r.target, r.for)
ChatMoves(t) == LET r == c_thread[t] q == c_thread'[t] IN
  /\ c_thread' \in [Talk!Clients -> ChatThreads]
  /\ \A u \in Talk!Clients \ {t} : c_thread'[u] = c_thread[u]
  /\ r.pc \in ChatAtWork \cup {"start"} /\ q.id = r.id
  /\ q.pc = "message" => q.to \in Nat
  /\ q.pc = "target" => q.to \in Places
  /\ \/ q.pc = "end" /\ r.pc \in ChatAtWork
        /\ c_clientList' = [c_clientList EXCEPT ![r.id] = -1]
     \/ q.pc \in ChatAtWork /\ UNCHANGED c_clientList
        /\ q.fd = IF r.pc = "start" THEN c_clientList[r.id] ELSE r.fd
  /\ ChatAddress(q)
ChatSends ==
  /\ c_down' \in [Talk!Clients -> Seq(People)]
  /\ \A c \in Talk!Clients :
       \/ c_down'[c] = c_down[c]
       \/ \E x \in c_evicted \cup {c} : c_down'[c] = Append(c_down[c], x)
ChatTurn(t) ==
  /\ UNCHANGED <<c_count, c_occupant, c_file, c_accepted, c_incoming, c_evicted>>
  /\ c_up' \in [Talk!Clients -> Seq(Items)] /\ ChatMoves(t) /\ ChatSends

(* The numbers of the model.                                               *)
LEMMA ChatNumbers ==
  /\ NumClients \in Nat /\ Descriptors \subseteq Nat /\ -1 \notin Descriptors
  /\ Talk!Clients = 1 .. NumClients /\ Talk!NoClient = 0 /\ 0 \notin Talk!Clients
  /\ People = Talk!Clients \cup {0} /\ \A x \in People : x \in Nat
<1>1. NumClients \in Nat /\ Descriptors \subseteq Nat
  BY ChatAssumption
<1>2. Talk!Clients = 1 .. NumClients /\ Talk!NoClient = 0
  BY DEF Talk!Clients, Talk!NoClient
<1>3. -1 \notin Descriptors /\ 0 \notin Talk!Clients
  BY <1>1, <1>2
<1>4. QED
  BY <1>1, <1>2, <1>3 DEF People

(* MAXNUMOFCONNECT is the number of places.                                *)
LEMMA PlacesNumbered ==
  ASSUME ChatShape
  PROVE  /\ Talk!MAXNUMOFCONNECT \in Nat \ {0} /\ Places = 0 .. Talk!MAXNUMOFCONNECT - 1
         /\ c_clientList \in [Places -> Handles] /\ c_occupant \in [Places -> People]
<1>1. PICK n \in Nat \ {0} : /\ c_clientList \in [0 .. n - 1 -> Handles]
                             /\ c_occupant \in [0 .. n - 1 -> People]
  BY DEF ChatShape
<1>2. Places = 0 .. n - 1
  BY <1>1 DEF Places
<1>3. Talk!MAXNUMOFCONNECT = Cardinality(0 .. n - 1)
  BY <1>2 DEF Places, Talk!MAXNUMOFCONNECT, Talk!Cardinality, Cardinality
<1>4. Talk!MAXNUMOFCONNECT = n
  BY <1>3, FS_Interval
<1>5. QED
  BY <1>1, <1>2, <1>4

(* A step of a thread keeps the invariant.                                 *)
LEMMA TurnKeeps ==
  ASSUME ChatInv, NEW t \in Talk!Clients, ChatTurn(t)
  PROVE  ChatInv'
<1>1. /\ UNCHANGED <<c_count, c_occupant, c_file, c_accepted, c_incoming, c_evicted>>
      /\ c_up' \in [Talk!Clients -> Seq(Items)] /\ ChatMoves(t) /\ ChatSends
  BY DEF ChatTurn
<1>2. ChatShape /\ c_clientList \in [Places -> Handles] /\ c_occupant \in [Places -> People]
  BY PlacesNumbered DEF ChatInv
<1>3. PICK r \in ChatThreads : r = c_thread[t] /\ r.id \in Places
  BY <1>2 DEF ChatShape
<1>4. PICK q \in ChatThreads : q = c_thread'[t]
  BY <1>1 DEF ChatMoves
<1>5. /\ c_thread' \in [Talk!Clients -> ChatThreads]
      /\ \A u \in Talk!Clients \ {t} : c_thread'[u] = c_thread[u]
      /\ r.pc \in ChatAtWork \cup {"start"} /\ q.id = r.id
      /\ q.pc = "message" => q.to \in Nat
      /\ q.pc = "target" => q.to \in Places
      /\ \/ q.pc = "end" /\ r.pc \in ChatAtWork
            /\ c_clientList' = [c_clientList EXCEPT ![r.id] = -1]
         \/ q.pc \in ChatAtWork /\ UNCHANGED c_clientList
            /\ q.fd = IF r.pc = "start" THEN c_clientList[r.id] ELSE r.fd
      /\ ChatAddress(q)
  BY <1>1, <1>3, <1>4 DEF ChatMoves
<1>6. /\ c_clientList' \in [Places -> Handles] /\ Places' = Places
      /\ \A s \in Places : c_clientList'[s] \in {c_clientList[s], -1}
      /\ \A s \in Places \ {r.id} : c_clientList'[s] = c_clientList[s]
  BY <1>2, <1>3, <1>5 DEF Places, Handles
<1>7. ChatShape'
  <2>1. \A c \in Talk!Clients : /\ c_thread'[c].id \in Places
                                /\ c_thread'[c].pc = "message" => c_thread'[c].to \in Nat
                                /\ c_thread'[c].pc = "target" => c_thread'[c].to \in Places
    BY <1>2, <1>3, <1>4, <1>5 DEF ChatShape
  <2>2. \E n \in Nat \ {0} : /\ c_clientList' \in [0 .. n - 1 -> Handles]
                             /\ c_occupant' \in [0 .. n - 1 -> People]
    BY <1>1, <1>2, <1>6, PlacesNumbered
  <2>3. /\ c_count' \in Places' \cup {-1} /\ c_incoming' \in Handles
        /\ c_file' \in [Descriptors -> People] /\ c_accepted' \in 0 .. NumClients
        /\ c_evicted' \subseteq Talk!Clients /\ c_down' \in [Talk!Clients -> Seq(People)]
    BY <1>1, <1>2, <1>6 DEF ChatShape, ChatSends
  <2>4. QED
    BY <1>1, <1>5, <1>6, <2>1, <2>2, <2>3 DEF ChatShape
<1>8. \A c : Arrived(c)' <=> Arrived(c)
  BY <1>1 DEF Arrived
<1>9. Arrivals'
  BY <1>1, <1>3, <1>4, <1>5, <1>6, <1>8 DEF Arrivals, ChatInv, ChatAtWork
<1>10. FileTable'
  BY <1>1 DEF FileTable, ChatInv
<1>11. PlaceTable'
  <2>1. \A s \in Places : c_occupant'[s] = c_occupant[s] /\ (ToBeFilled(s)' <=> ToBeFilled(s))
    BY <1>1 DEF ToBeFilled
  <2>2. ASSUME NEW s \in Places, c_clientList'[s] # -1
        PROVE  /\ c_occupant'[s] # 0
               /\ IF ToBeFilled(s)' THEN c_occupant'[s] \in c_evicted'
                  ELSE c_file'[c_clientList'[s]] = c_occupant'[s]
    <3>1. c_clientList'[s] = c_clientList[s]
      BY <1>6, <2>2
    <3>2. QED
      BY <1>1, <2>1, <2>2, <3>1 DEF PlaceTable, ChatInv
  <2>3. QED
    BY <1>1, <1>6, <1>8, <2>1, <2>2 DEF PlaceTable, ChatInv
<1>12. ChatAddressed'
  <2>1. \A d, c : LeadsTo(d, c)' <=> LeadsTo(d, c)
    BY <1>1 DEF LeadsTo
  <2>2. ASSUME NEW c \in Talk!Clients
        PROVE  ChatAddress(c_thread'[c])
    <3>1. CASE c = t
      BY <1>4, <1>5, <3>1
    <3>2. CASE c # t
      BY <1>5, <3>2 DEF ChatAddressed, ChatInv, ChatAddress
    <3>3. QED
      BY <3>1, <3>2
  <2>3. QED
    BY <2>1, <2>2 DEF ChatAddressed, ChatAddress
<1>13. ChatSeated'
  <2>1. \A s : Contested(s) => Contested(s)'
    <3>1. \A c \in Talk!Clients : c_thread'[c].id = c_thread[c].id
      BY <1>3, <1>4, <1>5
    <3>2. QED
      BY <1>1, <1>2, <3>1 DEF Contested, ChatShape
  <2>2. ASSUME NEW c \in Talk!Clients \ c_evicted, c # t,
               c_thread[c].pc \in ChatAtWork \cup {"start"}, ~Contested(c_thread[c].id)
        PROVE  c_clientList'[c_thread[c].id] = c_clientList[c_thread[c].id]
    <3>1. c_thread[c].id \in Places /\ c_occupant[c_thread[c].id] = c
      BY <1>2, <2>2 DEF ChatShape, ChatSeated, ChatInv
    <3>2. c_thread[c].id # r.id \/ UNCHANGED c_clientList
      <4>1. SUFFICES ASSUME c_thread[c].id = r.id, r.pc \in ChatAtWork
                     PROVE  FALSE
        BY <1>5
      <4>2. t \notin c_evicted
        BY <1>3, <2>2, <4>1 DEF Contested
      <4>3. c_occupant[r.id] = t
        BY <1>3, <2>2, <4>1, <4>2 DEF ChatSeated, ChatInv
      <4>4. QED
        BY <2>2, <3>1, <4>1, <4>3
    <3>3. QED
      BY <1>6, <3>1, <3>2
  <2>3. ASSUME NEW c \in Talk!Clients \ c_evicted',
               c_thread'[c].pc \in ChatAtWork \cup {"start"}, ~Contested(c_thread[c].id)'
        PROVE  /\ c_occupant'[c_thread'[c].id] = c /\ c_clientList'[c_thread'[c].id] # -1
               /\ c_thread'[c].pc \in ChatAtWork =>
                    c_thread'[c].fd = c_clientList'[c_thread'[c].id]
    <3>1. CASE c # t
      <4>1. c_thread'[c] = c_thread[c] /\ c \in Talk!Clients \ c_evicted
              /\ ~Contested(c_thread[c].id)
        <5>1. c_thread'[c] = c_thread[c] /\ c \in Talk!Clients \ c_evicted
          BY <1>1, <1>5, <2>3, <3>1
        <5>2. PICK s : s = c_thread[c].id /\ s = c_thread'[c].id
          BY <5>1
        <5>3. ~Contested(s)'
          BY <2>3, <5>2
        <5>4. QED
          BY <2>1, <5>1, <5>2, <5>3
      <4>2. /\ c_occupant[c_thread[c].id] = c /\ c_clientList[c_thread[c].id] # -1
            /\ c_thread[c].pc \in ChatAtWork => c_thread[c].fd = c_clientList[c_thread[c].id]
        BY <2>3, <4>1 DEF ChatSeated, ChatInv
      <4>3. QED
        BY <1>1, <2>2, <2>3, <3>1, <4>1, <4>2
    <3>2. CASE c = t
      <4>1. q.pc \in ChatAtWork /\ UNCHANGED c_clientList
              /\ q.fd = IF r.pc = "start" THEN c_clientList[r.id] ELSE r.fd
        BY <1>4, <1>5, <2>3, <3>2 DEF ChatAtWork
      <4>2. c \in Talk!Clients \ c_evicted /\ ~Contested(r.id)
        <5>1. PICK s : s = r.id /\ s = c_thread'[c].id
          BY <1>4, <1>5, <3>2
        <5>2. ~Contested(s)'
          BY <2>3, <5>1
        <5>3. QED
          BY <1>1, <2>1, <2>3, <3>2, <5>1, <5>2
      <4>3. /\ c_occupant[r.id] = c /\ c_clientList[r.id] # -1
            /\ r.pc \in ChatAtWork => r.fd = c_clientList[r.id]
        BY <1>3, <1>5, <3>2, <4>2 DEF ChatSeated, ChatInv
      <4>4. q.fd = c_clientList[r.id]
        BY <1>5, <4>1, <4>3
      <4>5. QED
        BY <1>1, <1>4, <1>5, <3>2, <4>1, <4>3, <4>4
    <3>3. QED
      BY <3>1, <3>2
  <2>4. QED
    BY <2>3 DEF ChatSeated
<1>14. ChatMeantForMe'
  <2>1. ASSUME NEW c \in Talk!Clients, NEW i \in 1 .. Len(c_down'[c])
        PROVE  c_down'[c][i] \in {c} \cup c_evicted'
    <3>1. c_down[c] \in Seq(People) /\ \A j \in 1 .. Len(c_down[c]) : c_down[c][j] \in {c} \cup c_evicted
      BY <1>2 DEF ChatShape, ChatInv, ChatMeantForMe, Talk!MeantForMe
    <3>2. CASE c_down'[c] = c_down[c]
      BY <1>1, <3>1, <3>2
    <3>3. ASSUME NEW x \in c_evicted \cup {c}, c_down'[c] = Append(c_down[c], x)
          PROVE  c_down'[c][i] \in {c} \cup c_evicted'
      <4>1. Len(c_down[c]) \in Nat /\ i \in 1 .. (Len(c_down[c]) + 1)
        BY <3>1, <3>3
      <4>2. CASE i = Len(c_down[c]) + 1
        BY <1>1, <3>1, <3>3, <4>1, <4>2
      <4>3. CASE i # Len(c_down[c]) + 1
        <5>1. i \in 1 .. Len(c_down[c])
          BY <4>1, <4>3
        <5>2. c_down'[c][i] = c_down[c][i]
          BY <3>1, <3>3, <5>1
        <5>3. QED
          BY <1>1, <3>1, <5>1, <5>2
      <4>4. QED
        BY <4>2, <4>3
    <3>4. QED
      BY <1>1, <3>2, <3>3 DEF ChatSends
  <2>2. QED
    BY <2>1 DEF ChatMeantForMe, Talk!MeantForMe
<1>15. QED
  BY <1>7, <1>9, <1>10, <1>11, <1>12, <1>13, <1>14 DEF ChatInv


(* A new state of one thread.                                              *)
LEMMA ThreadChanged ==
  ASSUME c_thread \in [Talk!Clients -> ChatThreads], NEW t \in Talk!Clients,
         NEW q \in ChatThreads, c_thread' = [c_thread EXCEPT ![t] = q]
  PROVE  /\ c_thread' \in [Talk!Clients -> ChatThreads] /\ c_thread'[t] = q
         /\ \A u \in Talk!Clients \ {t} : c_thread'[u] = c_thread[u]
OBVIOUS

(* A packet sent to a descriptor for a client reaches it, or the client is *)
(* evicted.                                                                *)
LEMMA SendsHome ==
  ASSUME ChatShape, NEW d \in Handles, NEW x \in People, d # -1 => LeadsTo(d, x),
         Talk!Send(d, x)
  PROVE  ChatSends
<1>1. c_down \in [Talk!Clients -> Seq(People)] /\ c_file \in [Descriptors -> People]
  BY DEF ChatShape
<1>2. PICK c : c = Talk!Leads(d)
  OBVIOUS
<1>3. \/ UNCHANGED c_down
      \/ c # 0 /\ c_down' = [c_down EXCEPT ![c] = Append(c_down[c], x)]
  BY <1>2 DEF Talk!Send, Talk!NoClient
<1>4. CASE UNCHANGED c_down
  BY <1>1, <1>4 DEF ChatSends
<1>5. CASE c # 0 /\ c_down' = [c_down EXCEPT ![c] = Append(c_down[c], x)]
  <2>1. d # -1 /\ c = c_file[d]
    BY <1>2, <1>5 DEF Talk!Leads, Talk!NoClient
  <2>2. c \in Talk!Clients
    BY <1>1, <1>5, <2>1, ChatNumbers DEF Handles
  <2>3. x \in c_evicted \cup {c}
    BY <2>1 DEF LeadsTo
  <2>4. c_down[c] \in Seq(People) /\ Append(c_down[c], x) \in Seq(People)
    BY <1>1, <2>2
  <2>5. QED
    BY <1>1, <1>5, <2>2, <2>3, <2>4 DEF ChatSends
<1>6. QED
  BY <1>3, <1>4, <1>5

(* A thread that gives up leaves its place empty.                          *)
LEMMA GivesUp ==
  ASSUME ChatShape, NEW t \in Talk!Clients, Talk!GiveUp(t), c_thread[t].pc \in ChatAtWork
  PROVE  ChatMoves(t)
<1>1. c_thread \in [Talk!Clients -> ChatThreads] /\ c_thread[t] \in ChatThreads
  BY DEF ChatShape
<1>2. PICK q : q = [Talk!NoThread EXCEPT !.pc = "end", !.id = c_thread[t].id]
  OBVIOUS
<1>3. q = [pc |-> "end", id |-> c_thread[t].id, fd |-> -1, recv |-> 0, short |-> FALSE,
           asker |-> 0, to |-> -1, target |-> -1, for |-> 0]
  BY <1>2 DEF Talk!NoThread, Talk!NoClient
<1>4. c_thread[t].id \in Nat
  BY <1>1 DEF ChatThreads
<1>5. q \in ChatThreads /\ q.pc = "end" /\ q.id = c_thread[t].id
  BY <1>3, <1>4, ChatNumbers DEF ChatThreads, Handles, ChatAtWork
<1>6. /\ c_thread' = [c_thread EXCEPT ![t] = q]
      /\ c_clientList' = [c_clientList EXCEPT ![c_thread[t].id] = -1]
  BY <1>2 DEF Talk!GiveUp
<1>7. /\ c_thread' \in [Talk!Clients -> ChatThreads] /\ c_thread'[t] = q
      /\ \A u \in Talk!Clients \ {t} : c_thread'[u] = c_thread[u]
  BY <1>1, <1>5, <1>6, ThreadChanged
<1>8. ChatAddress(q)
  BY <1>5 DEF ChatAddress
<1>9. QED
  BY <1>5, <1>6, <1>7, <1>8 DEF ChatMoves

(* A thread that goes on at another position.                              *)
LEMMA GoesOn ==
  ASSUME ChatShape, NEW t \in Talk!Clients, NEW q \in ChatThreads,
         c_thread[t].pc \in ChatAtWork \cup {"start"},
         c_thread' = [c_thread EXCEPT ![t] = q], UNCHANGED c_clientList,
         q.pc \in ChatAtWork, q.id = c_thread[t].id,
         q.fd = IF c_thread[t].pc = "start" THEN c_clientList[c_thread[t].id]
                ELSE c_thread[t].fd,
         q.pc = "message" => q.to \in Nat, q.pc = "target" => q.to \in Places,
         ChatAddress(q)
  PROVE  ChatMoves(t)
<1>1. c_thread \in [Talk!Clients -> ChatThreads]
  BY DEF ChatShape
<1>2. /\ c_thread' \in [Talk!Clients -> ChatThreads] /\ c_thread'[t] = q
      /\ \A u \in Talk!Clients \ {t} : c_thread'[u] = c_thread[u]
  BY <1>1, ThreadChanged
<1>3. QED
  BY <1>2 DEF ChatMoves

(* threadFunc looks its descriptor up in the place it was told.            *)
LEMMA StartsTurn ==
  ASSUME ChatInv, NEW t \in Talk!Clients, Talk!ThreadStarts(t)
  PROVE  ChatTurn(t)
<1>1. ChatShape /\ c_thread[t] \in ChatThreads /\ c_thread[t].id \in Places
      /\ c_clientList \in [Places -> Handles] /\ c_thread \in [Talk!Clients -> ChatThreads]
  BY PlacesNumbered DEF ChatInv, ChatShape
<1>2. /\ c_thread[t].pc = "start"
      /\ c_thread' = [c_thread EXCEPT ![t].pc = "call", ![t].fd = c_clientList[c_thread[t].id]]
      /\ UNCHANGED <<c_count, c_occupant, c_file, c_accepted, c_incoming, c_evicted>>
      /\ UNCHANGED <<c_clientList, c_up, c_down>>
  BY DEF Talk!ThreadStarts, Talk!mainVars
<1>3. PICK h \in Handles : h = c_clientList[c_thread[t].id]
  BY <1>1
<1>4. PICK q : q = [c_thread[t] EXCEPT !.pc = "call", !.fd = h]
  OBVIOUS
<1>5. c_thread' = [c_thread EXCEPT ![t] = q]
  BY <1>1, <1>2, <1>3, <1>4
<1>6. q \in ChatThreads /\ q.pc = "call" /\ q.fd = h /\ q.id = c_thread[t].id
  BY <1>1, <1>4 DEF ChatThreads, ChatAtWork
<1>7. ChatAddress(q)
  BY <1>6 DEF ChatAddress
<1>8. ChatMoves(t)
  BY <1>1, <1>2, <1>3, <1>5, <1>6, <1>7, GoesOn DEF ChatAtWork
<1>9. QED
  BY <1>1, <1>2, <1>8 DEF ChatTurn, ChatSends, ChatShape

(* recv is called on the connection the descriptor leads to.               *)
LEMMA RecvTurn ==
  ASSUME ChatInv, NEW t \in Talk!Clients, Talk!Recv(t)
  PROVE  ChatTurn(t)
<1>1. ChatShape /\ c_thread[t] \in ChatThreads /\ c_thread \in [Talk!Clients -> ChatThreads]
      /\ c_file \in [Descriptors -> People]
  BY DEF ChatInv, ChatShape
<1>2. /\ c_thread[t].pc = "call"
      /\ UNCHANGED <<c_count, c_occupant, c_file, c_accepted, c_incoming, c_evicted>>
      /\ UNCHANGED <<c_up, c_down>>
  BY DEF Talk!Recv, Talk!mainVars, Talk!GiveUp
<1>3. PICK c : c = Talk!Leads(c_thread[t].fd)
  OBVIOUS
<1>4. \/ Talk!GiveUp(t)
      \/ /\ c # 0 /\ UNCHANGED c_clientList
         /\ c_thread' = [c_thread EXCEPT ![t].pc = "recv", ![t].recv = c]
  BY <1>3 DEF Talk!Recv, Talk!NoClient
<1>5. CASE Talk!GiveUp(t)
  BY <1>1, <1>2, <1>5, GivesUp DEF ChatTurn, ChatSends, ChatShape, ChatAtWork
<1>6. CASE /\ c # 0 /\ UNCHANGED c_clientList
           /\ c_thread' = [c_thread EXCEPT ![t].pc = "recv", ![t].recv = c]
  <2>1. c_thread[t].fd # -1 /\ c_file[c_thread[t].fd] = c
    BY <1>3, <1>6 DEF Talk!Leads, Talk!NoClient
  <2>2. c_thread[t].fd \in Descriptors /\ c \in People
    BY <1>1, <2>1 DEF ChatThreads, Handles
  <2>3. PICK q : q = [c_thread[t] EXCEPT !.pc = "recv", !.recv = c]
    OBVIOUS
  <2>4. c_thread' = [c_thread EXCEPT ![t] = q]
    BY <1>1, <1>6, <2>3
  <2>5. q \in ChatThreads /\ q.pc = "recv" /\ q.recv = c /\ q.fd = c_thread[t].fd
          /\ q.id = c_thread[t].id
    BY <1>1, <2>2, <2>3 DEF ChatThreads, ChatAtWork
  <2>6. ChatAddress(q)
    BY <1>6, <2>1, <2>5 DEF ChatAddress, LeadsTo
  <2>7. ChatMoves(t)
    BY <1>1, <1>2, <1>6, <2>4, <2>5, <2>6, GoesOn DEF ChatAtWork
  <2>8. QED
    BY <1>1, <1>2, <2>7 DEF ChatTurn, ChatSends, ChatShape
<1>7. QED
  BY <1>4, <1>5, <1>6


(* recv returns a piece, a request or nothing; the request is the client's *)
(* to whose connection the descriptor led.                                 *)
LEMMA RecvReturnsTurn ==
  ASSUME ChatInv, NEW t \in Talk!Clients, Talk!RecvReturns(t)
  PROVE  ChatTurn(t)
<1>1. ChatShape /\ c_thread[t] \in ChatThreads /\ c_thread \in [Talk!Clients -> ChatThreads]
      /\ c_up \in [Talk!Clients -> Seq(Items)]
  BY DEF ChatInv, ChatShape
<1>2. /\ c_thread[t].pc = "recv"
      /\ UNCHANGED <<c_count, c_occupant, c_file, c_accepted, c_incoming, c_evicted>>
      /\ UNCHANGED c_down
  BY DEF Talk!RecvReturns, Talk!mainVars, Talk!GiveUp
<1>3. PICK c : c = c_thread[t].recv
  OBVIOUS
<1>4. LeadsTo(c_thread[t].fd, c)
  BY <1>2, <1>3 DEF ChatInv, ChatAddressed
<1>5. c \in Talk!Clients /\ c # 0 /\ c \in People
  BY <1>1, <1>3, <1>4, ChatNumbers DEF LeadsTo, ChatThreads
<1>6. ASSUME NEW pc \in {"call", "respond", "message"}, NEW to \in Int,
             pc = "message" => to \in Nat, Talk!Returned(t, pc, to), UNCHANGED c_clientList
      PROVE  ChatMoves(t)
  <2>1. PICK asker \in People : asker = IF pc = "call" THEN 0 ELSE c
    BY <1>5, ChatNumbers
  <2>2. PICK short \in BOOLEAN : short = (pc = "call")
    OBVIOUS
  <2>3. PICK q : q = [c_thread[t] EXCEPT !.pc = pc, !.recv = 0, !.short = short,
                                         !.to = to, !.asker = asker]
    OBVIOUS
  <2>4. c_thread' = [c_thread EXCEPT ![t] = q]
    <3>1. c_thread' = [c_thread EXCEPT ![t].pc = pc, ![t].recv = 0, ![t].short = short,
                                       ![t].to = to, ![t].asker = asker]
      BY <1>3, <1>6, <2>1, <2>2 DEF Talk!Returned, Talk!NoClient
    <3>2. QED
      BY <1>1, <2>3, <3>1
  <2>5. q \in ChatThreads
    BY <1>1, <2>3, ChatNumbers DEF ChatThreads, ChatAtWork
  <2>6. q.pc = pc /\ q.asker = asker /\ q.to = to /\ q.fd = c_thread[t].fd
          /\ q.id = c_thread[t].id
    BY <1>1, <2>3 DEF ChatThreads
  <2>7. ChatAddress(q)
    BY <1>4, <2>1, <2>6 DEF ChatAddress
  <2>8. QED
    BY <1>1, <1>2, <1>6, <2>4, <2>5, <2>6, <2>7, GoesOn DEF ChatAtWork
<1>7. CASE Talk!GiveUp(t) /\ UNCHANGED c_up
  BY <1>1, <1>2, <1>7, GivesUp DEF ChatTurn, ChatSends, ChatShape, ChatAtWork
<1>8. CASE c_up[c] # <<>>
  <2>1. PICK u \in Seq(Items) : u = c_up[c]
    BY <1>1, <1>5
  <2>2. PICK item \in Items : item = Head(u)
    BY <1>8, <2>1
  <2>3. Tail(u) \in Seq(Items) /\ <<<<"piece">>>> \o Tail(u) \in Seq(Items)
    <3>1. Tail(u) \in Seq(Items) /\ <<"piece">> \in Items
      BY <1>8, <2>1 DEF Items
    <3>2. <<<<"piece">>>> \in Seq(Items)
      BY <3>1
    <3>3. QED
      BY <3>1, <3>2
  <2>4. /\ UNCHANGED c_clientList
        /\ \/ /\ Talk!Returned(t, "call", -1) /\ c_up' = [c_up EXCEPT ![c] = Tail(u)]
           \/ /\ Talk!Returned(t, "respond", -1)
              /\ c_up' = [c_up EXCEPT ![c] = <<<<"piece">>>> \o Tail(u)]
           \/ /\ item # <<"piece">> /\ c_up' = [c_up EXCEPT ![c] = Tail(u)]
              /\ \/ item = <<"ask">> /\ Talk!Returned(t, "respond", -1)
                 \/ item # <<"ask">> /\ Talk!Returned(t, "message", item[2])
    BY <1>3, <1>8, <2>1, <2>2 DEF Talk!RecvReturns
  <2>5. c_up' \in [Talk!Clients -> Seq(Items)]
    BY <1>1, <2>3, <2>4
  <2>6. item # <<"piece">> /\ item # <<"ask">> => item[2] \in Nat
    BY DEF Items
  <2>7. ChatMoves(t)
    <3>1. -1 \in Int
      OBVIOUS
    <3>2. CASE Talk!Returned(t, "call", -1)
      BY <1>6, <2>4, <3>1, <3>2
    <3>3. CASE Talk!Returned(t, "respond", -1)
      BY <1>6, <2>4, <3>1, <3>3
    <3>4. CASE item # <<"piece">> /\ item # <<"ask">> /\ Talk!Returned(t, "message", item[2])
      <4>1. PICK to \in Nat : to = item[2]
        BY <2>6, <3>4
      <4>2. QED
        BY <1>6, <2>4, <3>4, <4>1
    <3>5. QED
      BY <2>4, <3>2, <3>3, <3>4
  <2>8. QED
    BY <1>1, <1>2, <2>5, <2>7 DEF ChatTurn, ChatSends, ChatShape
<1>9. QED
  BY <1>3, <1>7, <1>8 DEF Talk!RecvReturns

(* messageResponse looks at a place that exists.                           *)
LEMMA MessageTurn ==
  ASSUME ChatInv, NEW t \in Talk!Clients, Talk!MessageChecked(t) \/ Talk!MessageTarget(t)
  PROVE  ChatTurn(t)
<1>1. ChatShape /\ c_thread[t] \in ChatThreads /\ c_thread \in [Talk!Clients -> ChatThreads]
      /\ c_clientList \in [Places -> Handles] /\ c_occupant \in [Places -> People]
      /\ Talk!MAXNUMOFCONNECT \in Nat \ {0} /\ Places = 0 .. Talk!MAXNUMOFCONNECT - 1
  BY PlacesNumbered DEF ChatInv, ChatShape
<1>2. /\ c_thread[t].pc \in {"message", "target"}
      /\ UNCHANGED <<c_count, c_occupant, c_file, c_accepted, c_incoming, c_evicted>>
      /\ UNCHANGED <<c_clientList, c_up, c_down>>
  BY DEF Talk!MessageChecked, Talk!MessageTarget, Talk!mainVars
<1>3. LeadsTo(c_thread[t].fd, c_thread[t].asker)
  BY <1>2 DEF ChatInv, ChatAddressed
<1>4. SUFFICES ChatMoves(t)
  BY <1>1, <1>2 DEF ChatTurn, ChatSends, ChatShape
<1>5. CASE Talk!MessageChecked(t)
  <2>1. c_thread[t].pc = "message" /\ c_thread[t].to \in Nat
    BY <1>1, <1>5 DEF Talk!MessageChecked, ChatShape
  <2>2. PICK ok \in BOOLEAN :
          ok = (c_thread[t].to < Talk!MAXNUMOFCONNECT /\ c_clientList[c_thread[t].to] # -1)
    OBVIOUS
  <2>3. ok => c_thread[t].to \in Places
    <3>1. ok => c_thread[t].to < Talk!MAXNUMOFCONNECT
      BY <2>2, Zenon
    <3>2. c_thread[t].to < Talk!MAXNUMOFCONNECT => c_thread[t].to \in Places
      BY <1>1, <2>1
    <3>3. QED
      BY <3>1, <3>2, Zenon
  <2>4. PICK to \in Int : to = IF ok THEN c_thread[t].to ELSE -1
    BY <2>1
  <2>5. PICK pc \in {"target", "respond"} : pc = IF ok THEN "target" ELSE "respond"
    OBVIOUS
  <2>6. PICK q : q = [c_thread[t] EXCEPT !.pc = pc, !.to = to]
    OBVIOUS
  <2>7. c_thread' = [c_thread EXCEPT ![t] = q]
    <3>1. c_thread' = [c_thread EXCEPT ![t].pc = IF ok THEN "target" ELSE "respond",
                                       ![t].to = IF ok THEN @ ELSE -1]
      BY <1>5, <2>2 DEF Talk!MessageChecked
    <3>2. QED
      BY <1>1, <2>4, <2>5, <2>6, <3>1
  <2>8. q \in ChatThreads
    BY <1>1, <2>6 DEF ChatThreads, ChatAtWork
  <2>9. q.pc = pc /\ q.asker = c_thread[t].asker /\ q.to = to /\ q.fd = c_thread[t].fd
          /\ q.id = c_thread[t].id
    BY <1>1, <2>6 DEF ChatThreads
  <2>10. ChatAddress(q) /\ (q.pc = "target" => q.to \in Places)
    BY <1>3, <2>3, <2>4, <2>5, <2>9 DEF ChatAddress
  <2>11. QED
    BY <1>1, <1>2, <2>1, <2>7, <2>8, <2>9, <2>10, GoesOn DEF ChatAtWork
<1>6. CASE Talk!MessageTarget(t)
  <2>1. c_thread[t].pc = "target" /\ c_thread[t].to \in Places
    BY <1>1, <1>6 DEF Talk!MessageTarget, ChatShape
  <2>2. PICK target \in Handles : target = c_clientList[c_thread[t].to]
    BY <1>1, <2>1
  <2>3. PICK for \in People : for = c_occupant[c_thread[t].to]
    BY <1>1, <2>1
  <2>4. target # -1 => LeadsTo(target, for)
    BY <2>1, <2>2, <2>3 DEF ChatInv, PlaceTable, LeadsTo
  <2>5. PICK q : q = [c_thread[t] EXCEPT !.pc = "forward", !.target = target, !.for = for]
    OBVIOUS
  <2>6. c_thread' = [c_thread EXCEPT ![t] = q]
    BY <1>1, <1>6, <2>2, <2>3, <2>5 DEF Talk!MessageTarget
  <2>7. q \in ChatThreads
    BY <1>1, <2>5 DEF ChatThreads, ChatAtWork
  <2>8. q.pc = "forward" /\ q.asker = c_thread[t].asker /\ q.target = target /\ q.for = for
          /\ q.fd = c_thread[t].fd /\ q.id = c_thread[t].id
    BY <1>1, <2>5 DEF ChatThreads
  <2>9. ChatAddress(q)
    BY <1>3, <2>4, <2>8 DEF ChatAddress
  <2>10. QED
    BY <1>1, <1>2, <2>1, <2>6, <2>7, <2>8, <2>9, GoesOn DEF ChatAtWork
<1>7. QED
  BY <1>5, <1>6

(* The message goes to the occupant of the place, the answer to the asker. *)
LEMMA SendingTurn ==
  ASSUME ChatInv, NEW t \in Talk!Clients, Talk!Forward(t) \/ Talk!Respond(t)
  PROVE  ChatTurn(t)
<1>1. ChatShape /\ c_thread[t] \in ChatThreads /\ c_thread \in [Talk!Clients -> ChatThreads]
  BY DEF ChatInv, ChatShape
<1>2. /\ c_thread[t].pc \in {"forward", "respond"}
      /\ UNCHANGED <<c_count, c_occupant, c_file, c_accepted, c_incoming, c_evicted>>
      /\ UNCHANGED <<c_clientList, c_up>>
  BY DEF Talk!Forward, Talk!Respond, Talk!mainVars
<1>3. LeadsTo(c_thread[t].fd, c_thread[t].asker)
  BY <1>2 DEF ChatInv, ChatAddressed
<1>4. CASE Talk!Forward(t)
  <2>1. c_thread[t].pc = "forward" /\ Talk!Send(c_thread[t].target, c_thread[t].for)
    BY <1>4 DEF Talk!Forward
  <2>2. c_thread[t].target # -1 => LeadsTo(c_thread[t].target, c_thread[t].for)
    BY <2>1 DEF ChatInv, ChatAddressed
  <2>3. c_thread[t].target \in Handles /\ c_thread[t].for \in People
    BY <1>1 DEF ChatThreads
  <2>4. ChatSends
    BY <1>1, <2>1, <2>2, <2>3, SendsHome
  <2>5. PICK q : q = [c_thread[t] EXCEPT !.pc = "respond", !.to = -1, !.target = -1,
                                         !.for = 0]
    OBVIOUS
  <2>6. c_thread' = [c_thread EXCEPT ![t] = q]
    BY <1>1, <1>4, <2>5 DEF Talk!Forward, Talk!NoClient
  <2>7. q \in ChatThreads
    <3>1. -1 \in Int /\ -1 \in Handles /\ 0 \in People
      BY ChatNumbers DEF Handles
    <3>2. QED
      BY <1>1, <2>5, <3>1 DEF ChatThreads, ChatAtWork
  <2>8. q.pc = "respond" /\ q.asker = c_thread[t].asker /\ q.fd = c_thread[t].fd
          /\ q.id = c_thread[t].id
    BY <1>1, <2>5 DEF ChatThreads
  <2>9. ChatAddress(q)
    BY <1>3, <2>8 DEF ChatAddress
  <2>10. ChatMoves(t)
    BY <1>1, <1>2, <2>1, <2>6, <2>7, <2>8, <2>9, GoesOn DEF ChatAtWork
  <2>11. QED
    BY <1>1, <1>2, <2>4, <2>10 DEF ChatTurn, ChatShape
<1>5. CASE Talk!Respond(t)
  <2>1. c_thread[t].pc = "respond" /\ Talk!Send(c_thread[t].fd, c_thread[t].asker)
    BY <1>5 DEF Talk!Respond
  <2>2. c_thread[t].fd \in Handles /\ c_thread[t].asker \in People
    BY <1>1 DEF ChatThreads
  <2>3. ChatSends
    BY <1>1, <1>3, <2>1, <2>2, SendsHome
  <2>4. PICK q : q = [c_thread[t] EXCEPT !.pc = "call", !.asker = 0]
    OBVIOUS
  <2>5. c_thread' = [c_thread EXCEPT ![t] = q]
    BY <1>1, <1>5, <2>4 DEF Talk!Respond, Talk!NoClient
  <2>6. q \in ChatThreads
    BY <1>1, <2>4, ChatNumbers DEF ChatThreads, ChatAtWork
  <2>7. q.pc = "call" /\ q.fd = c_thread[t].fd /\ q.id = c_thread[t].id
    BY <1>1, <2>4 DEF ChatThreads
  <2>8. ChatAddress(q)
    BY <2>7 DEF ChatAddress
  <2>9. ChatMoves(t)
    BY <1>1, <1>2, <2>1, <2>5, <2>6, <2>7, <2>8, GoesOn DEF ChatAtWork
  <2>10. QED
    BY <1>1, <1>2, <2>3, <2>9 DEF ChatTurn, ChatShape
<1>6. QED
  BY <1>4, <1>5


(* A set of descriptors that is not empty has a lowest one.                *)
LEMMA LowestDescriptor ==
  ASSUME NEW S \in SUBSET Nat, S # {}
  PROVE  Talk!Min(S) \in S
<1> DEFINE Below(n) == {m \in S : m < n}
           Initials == {Below(n) : n \in S}
           R == StrictSubsetOrdering(S)
<1>1. \A m \in S : m \in Nat
  OBVIOUS
<1>2. Initials \subseteq FiniteSubsetsOf(S)
  <2>1. SUFFICES ASSUME NEW n \in S PROVE IsFiniteSet(Below(n))
    BY DEF FiniteSubsetsOf
  <2>2. Below(n) \in SUBSET Nat /\ n \in Nat
    OBVIOUS
  <2>3. \A m \in Below(n) : m \in Nat /\ m < n
    OBVIOUS
  <2>4. \A m \in Below(n) : m <= n
    BY ONLY <2>2, <2>3
  <2>5. QED
    BY ONLY <2>2, <2>4, FS_BoundedSetOfNaturals
<1>3. PICK B \in Initials : \A A \in Initials : <<A, B>> \notin R
  <2>1. IsWellFoundedOn(R, FiniteSubsetsOf(S))
    BY FS_StrictSubsetOrderingWellFounded
  <2>2. Initials # {}
    OBVIOUS
  <2> HIDE DEF Initials, R
  <2>3. QED
    BY <1>2, <2>1, <2>2, WFMin
<1>4. PICK n \in S : B = Below(n)
  OBVIOUS
<1>5. ASSUME NEW y \in S, y < n
      PROVE  FALSE
  <2>1. Below(y) \in Initials /\ Below(n) \in Initials
    OBVIOUS
  <2>2. y \in Below(n) /\ y \notin Below(y)
    BY <1>1, <1>5
  <2>3. \A m \in S : m < y => m < n
    BY <1>1, <1>5
  <2>4. Below(y) \subseteq Below(n)
    BY <2>3
  <2>5. <<Below(y), Below(n)>> \in R
    BY <2>2, <2>4 DEF StrictSubsetOrdering
  <2>6. QED
    BY <1>3, <1>4, <2>1, <2>5
<1>6. \A y \in S : n <= y
  BY <1>1, <1>5
<1>7. QED
  BY <1>6 DEF Talk!Min

(* accept returns a descriptor that leads nowhere; the connection that had *)
(* the next place is closed, and its client evicted.                       *)
LEMMA AcceptKeeps ==
  ASSUME ChatInv, Talk!Accept
  PROVE  ChatInv'
<1>1. /\ ChatShape /\ c_clientList \in [Places -> Handles] /\ c_occupant \in [Places -> People]
      /\ Talk!MAXNUMOFCONNECT \in Nat \ {0} /\ Places = 0 .. Talk!MAXNUMOFCONNECT - 1
  BY PlacesNumbered DEF ChatInv
<1>2. /\ c_file \in [Descriptors -> People] /\ c_accepted \in 0 .. NumClients
      /\ c_count \in Places \cup {-1}
  BY <1>1 DEF ChatShape
<1>3. PICK next : next = (c_count + 1) % Talk!MAXNUMOFCONNECT
  OBVIOUS
<1>4. PICK fd : fd = Talk!Min({d \in Descriptors : c_file[d] = Talk!NoClient})
  OBVIOUS
<1>5. PICK old : old = c_clientList[next]
  OBVIOUS
<1>6. /\ c_incoming = -1 /\ c_accepted < NumClients /\ c_accepted' = c_accepted + 1
      /\ {d \in Descriptors : c_file[d] = Talk!NoClient} # {}
      /\ c_count' = next /\ c_incoming' = fd
      /\ IF old = -1 THEN c_file' = [c_file EXCEPT ![fd] = c_accepted'] /\ UNCHANGED c_evicted
         ELSE /\ c_file' = [[c_file EXCEPT ![fd] = c_accepted'] EXCEPT ![old] = Talk!NoClient]
              /\ c_evicted' = c_evicted \cup {c_file[old]}
      /\ UNCHANGED <<c_clientList, c_occupant, c_thread, c_up, c_down>>
  BY <1>3, <1>4, <1>5 DEF Talk!Accept
<1>7. fd \in Descriptors /\ c_file[fd] = 0 /\ fd # -1
  <2>1. {d \in Descriptors : c_file[d] = Talk!NoClient} \in SUBSET Nat
    BY ChatNumbers
  <2>2. fd \in {d \in Descriptors : c_file[d] = Talk!NoClient}
    BY <1>4, <1>6, <2>1, LowestDescriptor
  <2>3. QED
    BY <2>2, ChatNumbers
<1>8. next \in Places /\ old \in Handles
  <2>1. c_count + 1 \in Nat
    BY <1>1, <1>2
  <2>2. next \in 0 .. Talk!MAXNUMOFCONNECT - 1
    BY <1>1, <1>3, <2>1
  <2>3. QED
    BY <1>1, <1>5, <2>2
<1>9. c_accepted' \in Talk!Clients /\ c_accepted \in Nat
  BY <1>2, <1>6, ChatNumbers
<1>10. \A s \in Places : c_clientList[s] # -1 =>
         c_occupant[s] # 0 /\ c_file[c_clientList[s]] = c_occupant[s]
  BY <1>6 DEF ChatInv, PlaceTable, ToBeFilled
<1>11. /\ old # -1 => /\ old \in Descriptors /\ c_file[old] = c_occupant[next]
                      /\ c_file[old] \in Talk!Clients /\ old # fd
  BY <1>1, <1>2, <1>5, <1>7, <1>8, <1>10, ChatNumbers DEF Handles
<1>12. /\ c_file' \in [Descriptors -> People] /\ c_file'[fd] = c_accepted'
       /\ \A d \in Descriptors \ {fd, old} : c_file'[d] = c_file[d]
       /\ old # -1 => c_file'[old] = 0
  <2>1. CASE old = -1
    BY <1>2, <1>6, <1>7, <1>9, <2>1, ChatNumbers
  <2>2. CASE old # -1
    BY <1>2, <1>6, <1>7, <1>9, <1>11, <2>2, ChatNumbers
  <2>3. QED
    BY <2>1, <2>2
<1>13. /\ c_evicted \subseteq c_evicted' /\ c_evicted' \subseteq Talk!Clients
       /\ old # -1 => c_file[old] \in c_evicted'
       /\ \A e \in c_evicted' : e \in c_evicted \/ (old # -1 /\ e = c_occupant[next])
  BY <1>1, <1>6, <1>11 DEF ChatShape
<1>14. Places' = Places
  BY <1>6 DEF Places
<1>15. ChatShape'
  <2>1. \E n \in Nat \ {0} : /\ c_clientList' \in [0 .. n - 1 -> Handles]
                             /\ c_occupant' \in [0 .. n - 1 -> People]
    BY <1>1, <1>6
  <2>2. c_incoming' \in Handles /\ c_count' \in Places' \cup {-1} /\ c_accepted' \in 0 .. NumClients
    BY <1>2, <1>6, <1>7, <1>8, <1>14, ChatNumbers DEF Handles
  <2>3. QED
    BY <1>1, <1>6, <1>12, <1>13, <1>14, <2>1, <2>2 DEF ChatShape
<1>16. \A c \in People : Arrived(c)' <=> Arrived(c)
  <2>1. \A c \in People : c \in Int
    BY ChatNumbers
  <2>2. \A c \in People : (c <= c_accepted + 1 /\ c # c_accepted + 1) <=> c <= c_accepted
    BY <1>9, <2>1
  <2>3. QED
    BY <1>6, <1>7, <2>2 DEF Arrived
<1>17. Arrivals'
  <2>1. ASSUME NEW c \in Talk!Clients, c \in c_evicted'
        PROVE  Arrived(c)
    <3>1. CASE c \in c_evicted
      BY <3>1 DEF ChatInv, Arrivals
    <3>2. CASE old # -1 /\ c = c_occupant[next]
      <4>1. c_occupant[next] # 0
        BY <3>2, ChatNumbers
      <4>2. QED
        BY <1>8, <3>2, <4>1 DEF ChatInv, PlaceTable
    <3>3. QED
      BY <1>13, <2>1, <3>1, <3>2
  <2>2. c_count' \in Places' /\ c_accepted' \in Talk!Clients /\ c_file'[c_incoming'] = c_accepted'
    BY <1>6, <1>8, <1>9, <1>12, <1>14
  <2>3. \A c \in Talk!Clients : c_thread'[c].pc # "none" \/ c \in c_evicted' => Arrived(c)'
    BY <1>6, <1>16, <2>1, ChatNumbers DEF ChatInv, Arrivals
  <2>4. QED
    BY <2>2, <2>3 DEF Arrivals
<1>18. FileTable'
  <2>1. \A d \in Descriptors : c_file[d] \in Nat /\ c_file[d] <= c_accepted
    BY <1>2, ChatNumbers DEF ChatInv, FileTable
  <2>2. ASSUME NEW d \in Descriptors \ {fd}
        PROVE  c_file'[d] \in {0, c_file[d]}
    <3>1. CASE d = old
      BY <1>12, <3>1, ChatNumbers
    <3>2. CASE d # old
      BY <1>12, <3>2
    <3>3. QED
      BY <3>1, <3>2
  <2>3. \A d \in Descriptors \ {fd} : c_file'[d] \in Nat /\ c_file'[d] <= c_accepted
    BY <1>9, <2>1, <2>2
  <2>4. c_file'[fd] = c_accepted + 1
    BY <1>6, <1>12
  <2>5. \A d \in Descriptors : c_file'[d] <= c_accepted'
    BY <1>6, <1>9, <2>3, <2>4
  <2>6. ASSUME NEW d \in Descriptors, NEW e \in Descriptors, c_file'[d] = c_file'[e],
               c_file'[d] # 0
        PROVE  d = e
    <3>1. CASE d = fd
      BY <1>9, <2>3, <2>4, <2>6, <3>1
    <3>2. CASE e = fd
      BY <1>9, <2>3, <2>4, <2>6, <3>2
    <3>3. CASE d # fd /\ e # fd
      BY <2>2, <2>6, <3>3 DEF ChatInv, FileTable
    <3>4. QED
      BY <3>1, <3>2, <3>3
  <2>7. QED
    BY <2>5, <2>6 DEF FileTable
<1>19. PlaceTable'
  <2>1. \A s \in Places : ToBeFilled(s)' <=> s = next
    BY <1>6, <1>7 DEF ToBeFilled
  <2>2. ASSUME NEW s \in Places, c_clientList'[s] # -1
        PROVE  /\ c_occupant'[s] # 0
               /\ IF ToBeFilled(s)' THEN c_occupant'[s] \in c_evicted'
                  ELSE c_file'[c_clientList'[s]] = c_occupant'[s]
    <3>1. c_clientList[s] # -1 /\ c_occupant[s] # 0 /\ c_file[c_clientList[s]] = c_occupant[s]
      BY <1>6, <1>10, <2>2
    <3>2. CASE s = next
      BY <1>5, <1>6, <1>11, <1>13, <2>1, <3>1, <3>2
    <3>3. CASE s # next
      <4>1. c_clientList[s] \in Descriptors /\ c_clientList[s] # fd
        BY <1>1, <1>7, <3>1 DEF Handles
      <4>2. c_clientList[s] # old
        BY <1>8, <1>11, <3>1, <3>3, <4>1 DEF ChatInv, PlaceTable
      <4>3. QED
        BY <1>6, <1>12, <2>1, <3>1, <3>3, <4>1, <4>2
    <3>4. QED
      BY <3>2, <3>3
  <2>3. \A s \in Places : c_occupant'[s] = c_occupant[s] /\ c_occupant[s] \in People
    BY <1>1, <1>6
  <2>4. QED
    BY <1>14, <1>16, <2>2, <2>3 DEF PlaceTable, ChatInv
<1>20. ChatAddressed'
  <2>1. ASSUME NEW d \in Handles, NEW c \in People, LeadsTo(d, c)
        PROVE  LeadsTo(d, c)'
    <3>1. d # -1 /\ c # 0 /\ d \in Descriptors
      BY <2>1 DEF LeadsTo, Handles
    <3>2. CASE c \in c_evicted
      BY <1>13, <3>1, <3>2 DEF LeadsTo
    <3>3. CASE c_file[d] = c
      <4>1. d # fd
        BY <1>7, <3>1, <3>3
      <4>2. d = old => c \in c_evicted'
        BY <1>13, <3>1, <3>3
      <4>3. QED
        BY <1>12, <3>1, <3>3, <4>1, <4>2 DEF LeadsTo
    <3>4. QED
      BY <2>1, <3>2, <3>3 DEF LeadsTo
  <2>2. \A c \in Talk!Clients : /\ c_thread[c].fd \in Handles /\ c_thread[c].recv \in People
                                /\ c_thread[c].asker \in People /\ c_thread[c].for \in People
                                /\ c_thread[c].target \in Handles
    BY <1>1 DEF ChatShape, ChatThreads
  <2>3. QED
    BY <1>6, <2>1, <2>2 DEF ChatAddressed, ChatInv
<1>21. ChatSeated'
  <2>1. \A s : Contested(s) => Contested(s)'
    BY <1>6, <1>13 DEF Contested
  <2>2. ASSUME NEW c \in Talk!Clients \ c_evicted',
               c_thread'[c].pc \in ChatAtWork \cup {"start"}, ~Contested(c_thread[c].id)'
        PROVE  /\ c_occupant'[c_thread'[c].id] = c /\ c_clientList'[c_thread'[c].id] # -1
               /\ c_thread'[c].pc \in ChatAtWork =>
                    c_thread'[c].fd = c_clientList'[c_thread'[c].id]
    <3>1. PICK s : s = c_thread[c].id /\ s = c_thread'[c].id
      BY <1>6
    <3>2. ~Contested(s)'
      BY <2>2, <3>1
    <3>3. ~Contested(c_thread[c].id) /\ c \in Talk!Clients \ c_evicted
      BY <1>13, <2>1, <2>2, <3>1, <3>2
    <3>4. QED
      BY <1>6, <2>2, <3>3 DEF ChatSeated, ChatInv
  <2>3. QED
    BY <2>2 DEF ChatSeated
<1>22. ChatMeantForMe'
  BY <1>6, <1>13 DEF ChatInv, ChatMeantForMe, Talk!MeantForMe
<1>23. QED
  BY <1>15, <1>17, <1>18, <1>19, <1>20, <1>21, <1>22 DEF ChatInv

(* The place is filled and the thread of its client started; a client that *)
(* had the place has been evicted.                                         *)
LEMMA FillKeeps ==
  ASSUME ChatInv, Talk!Fill
  PROVE  ChatInv'
<1>1. /\ ChatShape /\ c_clientList \in [Places -> Handles] /\ c_occupant \in [Places -> People]
      /\ Talk!MAXNUMOFCONNECT \in Nat \ {0} /\ Places = 0 .. Talk!MAXNUMOFCONNECT - 1
  BY PlacesNumbered DEF ChatInv
<1>2. /\ c_file \in [Descriptors -> People] /\ c_accepted \in 0 .. NumClients
      /\ c_incoming \in Handles /\ c_thread \in [Talk!Clients -> ChatThreads]
  BY <1>1 DEF ChatShape
<1>3. /\ c_incoming # -1 /\ c_incoming' = -1
      /\ c_clientList' = [c_clientList EXCEPT ![c_count] = c_incoming]
      /\ c_occupant' = [c_occupant EXCEPT ![c_count] = c_file[c_incoming]]
      /\ c_thread' = [c_thread EXCEPT ![c_file[c_incoming]].pc = "start",
                                      ![c_file[c_incoming]].id = c_count]
      /\ UNCHANGED <<c_count, c_file, c_accepted, c_evicted, c_up, c_down>>
  BY DEF Talk!Fill
<1>4. PICK new : new = c_accepted
  OBVIOUS
<1>5. /\ c_count \in Places /\ new \in Talk!Clients /\ c_file[c_incoming] = new /\ c_accepted = new
      /\ c_incoming \in Descriptors /\ new # 0 /\ new \in Nat
  BY <1>2, <1>3, <1>4, ChatNumbers DEF ChatInv, Arrivals, Handles
<1>6. PICK q : q = [c_thread[new] EXCEPT !.pc = "start", !.id = c_count]
  OBVIOUS
<1>7. c_thread[new] \in ChatThreads /\ c_count \in Nat
  BY <1>1, <1>2, <1>5
<1>8. /\ q \in ChatThreads /\ q.pc = "start" /\ q.id = c_count
  BY <1>6, <1>7 DEF ChatThreads
<1>9. c_thread' = [c_thread EXCEPT ![new] = q]
  BY <1>2, <1>3, <1>5, <1>6, <1>7 DEF ChatThreads
<1>10. /\ c_thread' \in [Talk!Clients -> ChatThreads] /\ c_thread'[new] = q
       /\ \A u \in Talk!Clients \ {new} : c_thread'[u] = c_thread[u]
  BY <1>2, <1>5, <1>8, <1>9
<1>11. /\ Places' = Places
       /\ c_clientList' \in [Places -> Handles] /\ c_clientList'[c_count] = c_incoming
       /\ \A s \in Places \ {c_count} : c_clientList'[s] = c_clientList[s]
  BY <1>1, <1>2, <1>3, <1>5 DEF Places
<1>12. /\ c_occupant' \in [Places -> People] /\ c_occupant'[c_count] = new
       /\ \A s \in Places \ {c_count} : c_occupant'[s] = c_occupant[s]
  BY <1>1, <1>3, <1>5, ChatNumbers
<1>13. ~Arrived(new) /\ Arrived(new)'
  BY <1>3, <1>5 DEF Arrived
<1>14. \A c \in People : Arrived(c) => Arrived(c)'
  BY <1>3 DEF Arrived
<1>15. new \notin c_evicted /\ c_thread[new].pc = "none"
  BY <1>5, <1>13 DEF ChatInv, Arrivals
<1>16. ChatShape'
  <2>1. \E n \in Nat \ {0} : /\ c_clientList' \in [0 .. n - 1 -> Handles]
                             /\ c_occupant' \in [0 .. n - 1 -> People]
    BY <1>1, <1>11, <1>12
  <2>2. c_incoming' \in Handles /\ c_count' \in Places' \cup {-1}
    BY <1>3, <1>5, <1>11 DEF Handles
  <2>3. ASSUME NEW c \in Talk!Clients
        PROVE  /\ c_thread'[c].id \in Places'
               /\ c_thread'[c].pc = "message" => c_thread'[c].to \in Nat
               /\ c_thread'[c].pc = "target" => c_thread'[c].to \in Places'
    <3>1. CASE c = new
      BY <1>5, <1>8, <1>10, <1>11, <3>1
    <3>2. CASE c # new
      BY <1>1, <1>10, <1>11, <3>2 DEF ChatShape
    <3>3. QED
      BY <3>1, <3>2
  <2>4. QED
    BY <1>1, <1>3, <1>10, <2>1, <2>2, <2>3 DEF ChatShape
<1>17. Arrivals'
  <2>1. ASSUME NEW c \in Talk!Clients, c_thread'[c].pc # "none" \/ c \in c_evicted'
        PROVE  Arrived(c)'
    <3>1. CASE c = new
      BY <1>13, <3>1
    <3>2. CASE c # new
      BY <1>3, <1>10, <1>14, <2>1, <3>2, ChatNumbers DEF ChatInv, Arrivals
    <3>3. QED
      BY <3>1, <3>2
  <2>2. QED
    BY <1>3, <2>1 DEF Arrivals
<1>18. FileTable'
  BY <1>3 DEF ChatInv, FileTable
<1>19. \A s \in Places : c_occupant[s] # new
  BY <1>5, <1>13 DEF ChatInv, PlaceTable
<1>20. PlaceTable'
  <2>1. ASSUME NEW s \in Places, c_occupant'[s] # 0
        PROVE  Arrived(c_occupant[s])'
    <3>1. CASE s = c_count
      <4>1. c_occupant'[s] = new
        BY <1>12, <3>1
      <4>2. QED
        BY <1>3, <1>5, <4>1 DEF Arrived
    <3>2. CASE s # c_count
      <4>1. c_occupant'[s] = c_occupant[s] /\ c_occupant[s] \in People
        BY <1>1, <1>12, <3>2
      <4>2. Arrived(c_occupant[s])
        BY <2>1, <4>1 DEF ChatInv, PlaceTable
      <4>3. QED
        BY <1>3, <4>1, <4>2 DEF Arrived
    <3>3. QED
      BY <3>1, <3>2
  <2>2. ASSUME NEW r \in Places, NEW s \in Places, c_occupant'[r] = c_occupant'[s],
               c_occupant'[r] # 0
        PROVE  r = s
    BY <1>12, <1>19, <2>2 DEF ChatInv, PlaceTable
  <2>3. ASSUME NEW s \in Places, c_clientList'[s] # -1
        PROVE  c_occupant'[s] # 0 /\ c_file'[c_clientList'[s]] = c_occupant'[s]
    <3>1. CASE s = c_count
      BY <1>3, <1>5, <1>11, <1>12, <3>1
    <3>2. CASE s # c_count
      BY <1>3, <1>11, <1>12, <2>3, <3>2 DEF ChatInv, PlaceTable, ToBeFilled
    <3>3. QED
      BY <3>1, <3>2
  <2>4. \A s : ~ToBeFilled(s)'
    BY <1>3 DEF ToBeFilled
  <2>5. QED
    BY <1>11, <2>1, <2>2, <2>3, <2>4 DEF PlaceTable
<1>21. ChatAddressed'
  <2>1. \A d, c : LeadsTo(d, c)' <=> LeadsTo(d, c)
    BY <1>3 DEF LeadsTo
  <2>2. ASSUME NEW c \in Talk!Clients
        PROVE  ChatAddress(c_thread'[c])
    <3>1. CASE c = new
      BY <1>8, <1>10, <3>1 DEF ChatAddress
    <3>2. CASE c # new
      BY <1>10, <3>2 DEF ChatAddress, ChatInv, ChatAddressed
    <3>3. QED
      BY <3>1, <3>2
  <2>3. QED
    BY <2>1, <2>2 DEF ChatAddress, ChatAddressed
<1>22. ChatSeated'
  <2>1. \A s : Contested(s) => Contested(s)'
    BY <1>1, <1>3, <1>10, <1>15 DEF Contested, ChatShape
  <2>2. ASSUME NEW c \in Talk!Clients \ c_evicted,
               c_thread'[c].pc \in ChatAtWork \cup {"start"}, ~Contested(c_thread[c].id)'
        PROVE  /\ c_occupant'[c_thread'[c].id] = c /\ c_clientList'[c_thread'[c].id] # -1
               /\ c_thread'[c].pc \in ChatAtWork =>
                    c_thread'[c].fd = c_clientList'[c_thread'[c].id]
    <3>1. CASE c = new
      BY <1>3, <1>8, <1>10, <1>11, <1>12, <3>1 DEF ChatAtWork
    <3>2. CASE c # new
      <4>1. c_thread'[c] = c_thread[c]
        BY <1>10, <3>2
      <4>2. PICK s : s = c_thread[c].id /\ s = c_thread'[c].id
        BY <4>1
      <4>3. ~Contested(s)' /\ ~Contested(s)
        BY <2>1, <2>2, <4>2
      <4>4. s \in Places
        BY <1>1, <4>2 DEF ChatShape
      <4>5. /\ c_occupant[s] = c /\ c_clientList[s] # -1
            /\ c_thread[c].pc \in ChatAtWork => c_thread[c].fd = c_clientList[s]
        BY <2>2, <4>1, <4>2, <4>3 DEF ChatInv, ChatSeated
      <4>6. s # c_count
        BY <1>3, <4>4, <4>5 DEF ChatInv, PlaceTable, ToBeFilled
      <4>7. QED
        BY <1>11, <1>12, <4>1, <4>2, <4>4, <4>5, <4>6
    <3>3. QED
      BY <3>1, <3>2
  <2>3. QED
    BY <1>3, <2>2 DEF ChatSeated
<1>23. ChatMeantForMe'
  BY <1>3 DEF ChatInv, ChatMeantForMe, Talk!MeantForMe
<1>24. QED
  BY <1>16, <1>17, <1>18, <1>20, <1>21, <1>22, <1>23 DEF ChatInv

(* A client sends requests and takes what has been sent to it.             *)
LEMMA UserKeeps ==
  ASSUME ChatInv, NEW c \in Talk!Clients, Talk!User(c)
  PROVE  ChatInv'
<1>1. /\ ChatShape /\ Talk!MAXNUMOFCONNECT \in Nat
      /\ c_up \in [Talk!Clients -> Seq(Items)] /\ c_down \in [Talk!Clients -> Seq(People)]
  BY PlacesNumbered DEF ChatInv, ChatShape
<1>2. /\ UNCHANGED <<c_count, c_clientList, c_occupant, c_file, c_accepted, c_incoming,
                     c_thread, c_evicted>>
      /\ \/ UNCHANGED c_up
         \/ \E x \in Items : c_up' = [c_up EXCEPT ![c] = Append(c_up[c], x)]
      /\ \/ UNCHANGED c_down
         \/ c_down' = [c_down EXCEPT ![c] = <<>>]
         \/ c_down[c] # <<>> /\ c_down' = [c_down EXCEPT ![c] = Tail(c_down[c])]
  <2>1. CASE Talk!connectToServer(c) \/ Talk!ReceiveFails(c) \/ Talk!Receive(c)
    BY <1>1, <2>1 DEF Talk!connectToServer, Talk!ReceiveFails, Talk!Receive, Talk!serverVars
  <2>2. CASE Talk!disconnectFromServer(c)
    <3>1. <<"piece">> \in Items
      BY DEF Items
    <3>2. QED
      BY <1>1, <2>2, <3>1 DEF Talk!disconnectFromServer, Talk!serverVars
  <2>3. CASE Talk!Ask(c)
    <3>1. <<"ask">> \in Items
      BY DEF Items
    <3>2. QED
      BY <1>1, <2>3, <3>1 DEF Talk!Ask, Talk!Request, Talk!serverVars
  <2>4. CASE Talk!sendMsgToAnotherClient(c)
    <3>1. PICK id \in 0 .. Talk!MAXNUMOFCONNECT : Talk!Request(c, <<"message", id>>)
      BY <2>4 DEF Talk!sendMsgToAnotherClient
    <3>2. id \in Nat
      BY <1>1
    <3>3. <<"message", id>> \in Items
      BY <3>2 DEF Items
    <3>4. QED
      BY <1>1, <3>1, <3>3 DEF Talk!Request, Talk!serverVars
  <2>5. QED
    BY <2>1, <2>2, <2>3, <2>4 DEF Talk!User
<1>3. c_up' \in [Talk!Clients -> Seq(Items)]
  <2>1. \A x \in Items : Append(c_up[c], x) \in Seq(Items)
    BY <1>1
  <2>2. QED
    BY <1>1, <1>2, <2>1
<1>4. /\ c_down' \in [Talk!Clients -> Seq(People)]
      /\ \A u \in Talk!Clients : \/ c_down'[u] = c_down[u] \/ c_down'[u] = <<>>
                                 \/ c_down[u] # <<>> /\ c_down'[u] = Tail(c_down[u])
  <2>1. <<>> \in Seq(People) /\ (c_down[c] # <<>> => Tail(c_down[c]) \in Seq(People))
    BY <1>1
  <2>2. QED
    BY <1>1, <1>2, <2>1
<1>5. ChatShape'
  BY <1>1, <1>2, <1>3, <1>4 DEF ChatShape, Places
<1>6. ChatMeantForMe'
  <2>1. SUFFICES ASSUME NEW u \in Talk!Clients, NEW i \in 1 .. Len(c_down'[u])
                 PROVE  c_down'[u][i] \in {u} \cup c_evicted
    BY <1>2 DEF ChatMeantForMe, Talk!MeantForMe
  <2>2. PICK s : s = c_down[u]
    OBVIOUS
  <2>3. s \in Seq(People) /\ \A j \in 1 .. Len(s) : s[j] \in {u} \cup c_evicted
    BY <1>1, <2>2 DEF ChatInv, ChatMeantForMe, Talk!MeantForMe
  <2>4. CASE c_down'[u] = s
    BY <2>1, <2>3, <2>4
  <2>5. CASE c_down'[u] = <<>>
    BY <2>1, <2>5
  <2>6. CASE s # <<>> /\ c_down'[u] = Tail(s)
    <3>1. Len(Tail(s)) = Len(s) - 1 /\ \A j \in 1 .. Len(Tail(s)) : Tail(s)[j] = s[j + 1]
      BY <2>3, <2>6
    <3>2. i \in 1 .. Len(Tail(s)) /\ i + 1 \in 1 .. Len(s)
      BY <2>3, <2>6, <3>1
    <3>3. QED
      BY <2>3, <2>6, <3>1, <3>2
  <2>7. QED
    BY <1>4, <2>2, <2>4, <2>5, <2>6
<1>7. Arrivals' /\ FileTable' /\ PlaceTable' /\ ChatAddressed' /\ ChatSeated'
  BY <1>2 DEF ChatInv, Arrivals, Arrived, FileTable, PlaceTable, ToBeFilled, ChatAddressed,
              LeadsTo, ChatSeated, Contested, Places
<1>8. QED
  BY <1>5, <1>6, <1>7 DEF ChatInv

(* No descriptor, no place and no thread is in use at first.               *)
LEMMA ChatStarts ==
  ASSUME Talk!Init
  PROVE  ChatInv
<1>1. PICK n \in Sizes : c_clientList = [s \in 0 .. n - 1 |-> -1]
  BY DEF Talk!Init
<1>2. n \in Nat \ {0}
  BY ChatAssumption
<1>3. Places = 0 .. n - 1 /\ 0 \in Places
  BY <1>1, <1>2 DEF Places
<1>4. /\ c_count = -1 /\ c_occupant = [s \in Places |-> 0]
      /\ c_file = [d \in Descriptors |-> 0] /\ c_accepted = 0 /\ c_incoming = -1
      /\ c_thread = [c \in Talk!Clients |-> Talk!NoThread] /\ c_evicted = {}
      /\ c_up = [c \in Talk!Clients |-> <<>>] /\ c_down = [c \in Talk!Clients |-> <<>>]
  BY ChatNumbers DEF Talk!Init, Places
<1>5. /\ Talk!NoThread \in ChatThreads /\ Talk!NoThread.pc = "none" /\ Talk!NoThread.id = 0
  BY ChatNumbers DEF Talk!NoThread, ChatThreads, Handles
<1>6. ChatShape
  <2>1. /\ c_clientList \in [0 .. n - 1 -> Handles] /\ c_occupant \in [0 .. n - 1 -> People]
    BY <1>1, <1>3, <1>4, ChatNumbers DEF Handles
  <2>2. /\ c_up \in [Talk!Clients -> Seq(Items)] /\ c_down \in [Talk!Clients -> Seq(People)]
    BY <1>4
  <2>3. c_accepted \in 0 .. NumClients /\ c_file \in [Descriptors -> People] /\ c_incoming \in Handles
    BY <1>4, ChatNumbers DEF Handles
  <2>4. QED
    BY <1>2, <1>3, <1>4, <1>5, <2>1, <2>2, <2>3 DEF ChatShape
<1>7. Arrivals /\ FileTable
  BY <1>4, <1>5, ChatNumbers DEF Arrivals, FileTable
<1>8. PlaceTable
  BY <1>1, <1>3, <1>4 DEF PlaceTable
<1>9. ChatAddressed /\ ChatSeated
  BY <1>4, <1>5 DEF ChatAddressed, ChatSeated, ChatAtWork
<1>10. ChatMeantForMe
  BY <1>4 DEF ChatMeantForMe, Talk!MeantForMe
<1>11. QED
  BY <1>6, <1>7, <1>8, <1>9, <1>10 DEF ChatInv

(* The invariant of the chat holds in every reachable state, for every     *)
(* number of clients, of places and of descriptors.                        *)
THEOREM ChatInvariance == Talk!Spec => []ChatInv
<1>1. Talk!Init => ChatInv
  BY ChatStarts
<1>2. ChatInv /\ [Talk!Next]_(Talk!vars) => ChatInv'
  <2> SUFFICES ASSUME ChatInv, [Talk!Next]_(Talk!vars)
               PROVE  ChatInv'
    OBVIOUS
  <2>1. CASE Talk!Accept
    BY <2>1, AcceptKeeps
  <2>2. CASE Talk!Fill
    BY <2>2, FillKeeps
  <2>3. ASSUME NEW c \in Talk!Clients, Talk!Serve(c)
        PROVE  ChatInv'
    BY <2>3, StartsTurn, RecvTurn, RecvReturnsTurn, MessageTurn, SendingTurn, TurnKeeps
       DEF Talk!Serve
  <2>4. ASSUME NEW c \in Talk!Clients, Talk!User(c)
        PROVE  ChatInv'
    BY <2>4, UserKeeps
  <2>5. CASE UNCHANGED Talk!vars
    <3>1. UNCHANGED <<c_count, c_clientList, c_occupant, c_file, c_accepted, c_incoming,
                      c_thread, c_evicted, c_up, c_down>>
      BY <2>5 DEF Talk!vars
    <3>2. ChatShape' /\ ChatMeantForMe'
      BY <3>1 DEF ChatInv, ChatShape, Places, ChatMeantForMe, Talk!MeantForMe
    <3>3. Arrivals' /\ FileTable' /\ PlaceTable' /\ ChatAddressed' /\ ChatSeated'
      BY <3>1 DEF ChatInv, Arrivals, Arrived, FileTable, PlaceTable, ToBeFilled, ChatAddressed,
                  LeadsTo, ChatSeated, Contested, Places
    <3>4. QED
      BY <3>2, <3>3 DEF ChatInv
  <2>6. QED
    BY <2>1, <2>2, <2>3, <2>4, <2>5 DEF Talk!Next
<1>3. QED
  BY <1>1, <1>2, PTL DEF Talk!Spec

(* A client receives what was meant for it, or for a client whose          *)
(* connection main has closed: the threads write to bare descriptors,      *)
(* which accept gives out again.                                           *)
THEOREM ChatReachesItsClient == Talk!Spec => []ChatMeantForMe
<1>1. ChatInv => ChatMeantForMe
  BY DEF ChatInv
<1>2. QED
  BY <1>1, ChatInvariance, PTL

(* A client at work keeps its place and its connection until main, or the  *)
(* thread of a client that was evicted from the place, takes them away.    *)
THEOREM ChatKeepsPlaces == Talk!Spec => []ChatPlaceKept
<1>1. ASSUME ChatInv
      PROVE  ChatPlaceKept
  <2>1. SUFFICES ASSUME NEW c \in Talk!Clients \ c_evicted, c_thread[c].pc \in ChatAtWork,
                        ~Contested(c_thread[c].id)
                 PROVE  /\ Talk!Leads(c_thread[c].fd) = c
                        /\ c_clientList[c_thread[c].id] = c_thread[c].fd
    BY DEF ChatPlaceKept, Talk!PlaceKept, ChatAtWork, Contested
  <2>2. PICK s : s = c_thread[c].id
    OBVIOUS
  <2>3. /\ c_occupant[s] = c /\ c_clientList[s] # -1 /\ c_thread[c].fd = c_clientList[s]
    BY <1>1, <2>1, <2>2 DEF ChatInv, ChatSeated
  <2>4. s \in Places
    BY <1>1, <2>2 DEF ChatInv, ChatShape
  <2>5. c_file[c_clientList[s]] = c
    BY <1>1, <2>3, <2>4 DEF ChatInv, PlaceTable
  <2>6. QED
    BY <2>2, <2>3, <2>5 DEF Talk!Leads
<1>2. QED
  BY <1>1, ChatInvariance, PTL
=============================================================================
