------------------------------ MODULE IpcQueue ------------------------------
(***************************************************************************)
(* SPMCQueue between processes: the constructor and the destructor of the  *)
(* queue, the programs producer.cpp and consumer.cpp, and ipc_launcher.cpp *)
(* that starts and stops them.                                             *)
(*                                                                         *)
(* Only the header is in shared memory.  The segments it points to are in  *)
(* the heap of the process that allocated them, so a pointer read from the *)
(* header means the reader's own segment, if that has the same address, or *)
(* an address that is not mapped.  try_push and try_pop, which SPMCQueue   *)
(* models step by step, are single steps here, within one segment.         *)
(***************************************************************************)
EXTENDS Integers, Sequences, FiniteSets

CONSTANTS Consumers,    \* consumer processes, 1..n in the order they are started
          Addresses,    \* where a process may find its first segment
          MaxMessages   \* num_messages of the producer

Producer == 0
Processes == {Producer} \cup Consumers
None == 0

VARIABLES
  name,      \* the object shm_open finds, or None
  objects,   \* how many objects were created
  header,    \* head_segment and tail_segment of each object
  mapped,    \* the object each process has mapped
  addr,      \* the address of its segment
  segment,   \* the messages in it
  proc,      \* new, open, head, run, over, crashed or killed
  stop,      \* stop_producer, stop_consumer
  made,      \* messages_produced
  got,       \* the messages each consumer has popped
  launcher,  \* what the launcher does next, and to whom
  orphan     \* the process forked but not recorded when a signal came

vars == <<name, objects, header, mapped, addr, segment, proc, stop, made, got,
          launcher, orphan>>
procVars == <<name, objects, header, mapped, addr, segment, made, got>>

(* The launcher starts with rm -f of the name: there is none.              *)
Init ==
  /\ name = None /\ objects = 0
  /\ header = [o \in 1..Cardinality(Processes) |-> [head |-> None, tail |-> None]]
  /\ mapped = [p \in Processes |-> None] /\ addr = [p \in Processes |-> None]
  /\ segment = [p \in Processes |-> <<>>]
  /\ proc = [p \in Processes |-> "new"] /\ stop = [p \in Processes |-> FALSE]
  /\ made = 0 /\ got = [p \in Processes |-> {}]
  /\ launcher = <<"fork", Producer>> /\ orphan = {}

Alive(p) == proc[p] \in {"open", "head", "tail", "run"}
Enter(p, at) == proc' = [proc EXCEPT ![p] = at]

-----------------------------------------------------------------------------
(* The constructor.  shm_open with O_CREAT succeeds whether the object is  *)
(* there or not, so each process is the creator and sets the header.       *)

Open(p) ==
  /\ proc[p] = "open" /\ Enter(p, "head")
  /\ objects' = IF name = None THEN objects + 1 ELSE objects
  /\ name' = IF name = None THEN objects + 1 ELSE name
  /\ mapped' = [mapped EXCEPT ![p] = name']
  /\ \E a \in Addresses : addr' = [addr EXCEPT ![p] = a]
  /\ UNCHANGED <<header, segment, stop, made, got, launcher, orphan>>

StoreHead(p) ==
  /\ proc[p] = "head" /\ Enter(p, "tail")
  /\ header' = [header EXCEPT ![mapped[p]].head = addr[p]]
  /\ UNCHANGED <<name, objects, mapped, addr, segment, stop, made, got, launcher, orphan>>

StoreTail(p) ==
  /\ proc[p] = "tail" /\ Enter(p, "run")
  /\ header' = [header EXCEPT ![mapped[p]].tail = addr[p]]
  /\ UNCHANGED <<name, objects, mapped, addr, segment, stop, made, got, launcher, orphan>>

(* The process whose segment p finds at the address a: itself, or nobody.  *)
SegmentAt(p, a) == IF a = addr[p] THEN p ELSE -1

-----------------------------------------------------------------------------
(* The loops of the two programs.                                          *)

Push ==
  /\ proc[Producer] = "run" /\ made < MaxMessages /\ ~stop[Producer]
  /\ LET s == SegmentAt(Producer, header[mapped[Producer]].tail) IN
     IF s = -1 THEN Enter(Producer, "crashed") /\ UNCHANGED <<made, segment>>
     ELSE /\ made' = made + 1 /\ segment' = [segment EXCEPT ![s] = Append(@, made')]
          /\ UNCHANGED proc
  /\ UNCHANGED <<name, objects, header, mapped, addr, stop, got, launcher, orphan>>

Pop(c) ==
  /\ proc[c] = "run" /\ ~stop[c]
  /\ LET s == SegmentAt(c, header[mapped[c]].head) IN
     IF s = -1 THEN Enter(c, "crashed") /\ UNCHANGED <<got, segment>>
     ELSE /\ got' = [got EXCEPT ![c] = @ \cup {segment[s][i] : i \in 1..Len(segment[s]) \cap {1}}]
          /\ segment' = [segment EXCEPT ![s] = IF @ = <<>> THEN @ ELSE Tail(@)]
          /\ UNCHANGED proc
  /\ UNCHANGED <<name, objects, header, mapped, addr, stop, made, launcher, orphan>>

(* Mutant: only the producer unlinks.                                      *)
FinishConsumerKeeps(p) ==
  /\ proc[p] = "run" /\ (p # Producer \/ stop[p] \/ made = MaxMessages)
  /\ Enter(p, "over") /\ name' = IF p = Producer THEN None ELSE name
  /\ segment' = [segment EXCEPT ![p] = <<>>]
  /\ UNCHANGED <<objects, header, mapped, addr, stop, made, got, launcher, orphan>>

(* The loop is over: all messages are produced, duration_ms has passed or  *)
(* a signal came.  The destructor unlinks whatever has the name now, and   *)
(* frees the segments.                                                     *)
Finish(p) ==
  /\ proc[p] = "run" /\ (p # Producer \/ stop[p] \/ made = MaxMessages)
  /\ Enter(p, "over") /\ name' = None /\ segment' = [segment EXCEPT ![p] = <<>>]
  /\ UNCHANGED <<objects, header, mapped, addr, stop, made, got, launcher, orphan>>

Constructor(p) == Open(p) \/ StoreHead(p) \/ StoreTail(p)

producer    == Constructor(Producer) \/ Push \/ Finish(Producer)
consumer(c) == Constructor(c) \/ Pop(c) \/ Finish(c)

-----------------------------------------------------------------------------
(* The launcher: fork and record the producer, then the consumers in turn; *)
(* wait; then stop each process by SIGTERM and, after a pause, SIGKILL.    *)
(* kill(pid, 0) always succeeds, as nobody waits for the processes.        *)

Last(p) == p = Cardinality(Consumers)
Step(now, then, p) == launcher = <<now, p>> /\ launcher' = <<then, p>>

Fork(p) ==
  /\ Step("fork", "record", p)
  /\ \E at \in {"open", "over", "new"} : Enter(p, at)  \* execl or fork may fail
  /\ UNCHANGED <<procVars, stop, orphan>>

Record(p) ==
  /\ launcher = <<"record", p>>
  /\ launcher' = IF Last(p) THEN <<"wait", p>> ELSE <<"fork", p + 1>>
  /\ UNCHANGED <<procVars, proc, stop, orphan>>

(* The test has run, or a signal has come: cleanup_processes.  A signal    *)
(* between fork and push_back hides the process from it.                   *)
Interrupt ==
  /\ launcher[1] \in {"wait", "fork", "record"}
  /\ launcher' = <<"term", Producer>>
  /\ orphan' = IF launcher[1] = "record" THEN {launcher[2]} ELSE {}
  /\ UNCHANGED <<procVars, proc, stop>>

Skip(p) == p \in orphan \/ proc[p] = "new"

Term(p) ==
  /\ Step("term", "kill", p)
  /\ stop' = [stop EXCEPT ![p] = ~Skip(p)]
  /\ UNCHANGED <<procVars, proc, orphan>>

Kill(p) ==
  /\ launcher = <<"kill", p>>
  /\ launcher' = IF Last(p) THEN <<"over", p>> ELSE <<"term", p + 1>>
  /\ IF Alive(p) /\ ~Skip(p) THEN Enter(p, "killed") ELSE UNCHANGED proc
  /\ UNCHANGED <<procVars, stop, orphan>>

Launch == Interrupt \/ \E p \in Processes : Fork(p) \/ Record(p) \/ Term(p) \/ Kill(p)

Next == Launch \/ producer \/ \E c \in Consumers : consumer(c)

Spec == Init /\ [][Next]_vars

(* The processes are scheduled.                                            *)
FairSpec ==
  /\ Spec /\ WF_vars(Launch) /\ WF_vars(producer)
  /\ \A c \in Consumers : WF_vars(consumer(c))

-----------------------------------------------------------------------------
(* The processes communicate, as the launcher prints: while the producer   *)
(* runs, a try_pop of a consumer process gets a message if there is one    *)
(* that was pushed and that nobody has popped.                             *)
Popped == UNION {got[c] : c \in Consumers}

(* What the code does instead: try_pop never finds a message in a consumer *)
(* process, wherever the segments are and whoever set the header last.     *)
NothingCrosses == \A c \in Consumers : got[c] = {}

(* When the launcher is over no process is left, but one that it forked    *)
(* and had not recorded when the signal came; and if all have ended by     *)
(* their own main the name of the shared memory is gone as well.           *)
NothingLeft ==
  launcher[1] = "over" =>
    /\ \A p \in Processes : Alive(p) => p \in orphan
    /\ (\A p \in Processes : proc[p] \in {"new", "over"}) => name = None
=============================================================================
