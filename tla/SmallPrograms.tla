---------------------------- MODULE SmallPrograms ----------------------------
(***************************************************************************)
(* Three programs side by side: the chat, the processes around the SPMC    *)
(* queue and the crossing, with the safety properties that are checked and *)
(* proved of them.  They share no variables.                               *)
(***************************************************************************)
EXTENDS Integers, Sequences, FiniteSets

CONSTANTS NumClients, Descriptors, Sizes, MaxRequests,   \* Chat
          NumConsumers, Addresses, MaxMessages,          \* IpcQueue
          Args, MaxCars, MaxSpurious                     \* Crossroad

(* Numbers of clients, places and processes; addresses that are not null;  *)
(* command lines.                                                          *)
ASSUME ChatAssumption ==
  NumClients \in Nat /\ Descriptors \subseteq Nat /\ Sizes \subseteq Nat \ {0}
ASSUME ProcessAssumption == NumConsumers \in Nat \ {0} /\ Addresses \subseteq Nat \ {0}
ASSUME CarAssumption ==
  /\ \A line \in Args : line \in Seq({"North", "East", "South", "West"})
  /\ \A line \in Args : MaxSpurious[Len(line)] \in Nat

VARIABLES
  c_server, c_count, c_clientList, c_occupant, c_file, c_accepted, c_incoming,
  c_thread, c_evicted, c_proc, c_up, c_down, c_reset, c_requests,
  q_name, q_objects, q_header, q_mapped, q_addr, q_segment, q_proc, q_stop,
  q_made, q_got, q_launcher, q_orphan,
  x_From, x_pc, x_sem, x_remain, x_flag, x_count, x_detector, x_val4, x_jams,
  x_spurious

chat == <<c_server, c_count, c_clientList, c_occupant, c_file, c_accepted,
          c_incoming, c_thread, c_evicted, c_proc, c_up, c_down, c_reset, c_requests>>
ipc == <<q_name, q_objects, q_header, q_mapped, q_addr, q_segment, q_proc, q_stop,
         q_made, q_got, q_launcher, q_orphan>>
cars == <<x_From, x_pc, x_sem, x_remain, x_flag, x_count, x_detector, x_val4,
          x_jams, x_spurious>>

Talk == INSTANCE Chat WITH
  server <- c_server, count <- c_count, clientList <- c_clientList,
  occupant <- c_occupant, file <- c_file, accepted <- c_accepted,
  incoming <- c_incoming, thread <- c_thread, evicted <- c_evicted,
  proc <- c_proc, up <- c_up, down <- c_down, reset <- c_reset,
  requests <- c_requests

Ipc == INSTANCE IpcQueue WITH
  Consumers <- 1..NumConsumers,
  name <- q_name, objects <- q_objects, header <- q_header, mapped <- q_mapped,
  addr <- q_addr, segment <- q_segment, proc <- q_proc, stop <- q_stop,
  made <- q_made, got <- q_got, launcher <- q_launcher, orphan <- q_orphan

Crossing == INSTANCE Crossroad WITH
  From <- x_From, pc <- x_pc, sem <- x_sem, remain <- x_remain, flag <- x_flag,
  count <- x_count, detector <- x_detector, val4 <- x_val4, jams <- x_jams,
  spurious <- x_spurious

-----------------------------------------------------------------------------
(* A chat client receives answers to its own requests and messages sent to *)
(* its place, unless main closed the connection they were meant for.       *)
ChatMeantForMe == Talk!MeantForMe

(* A chat client keeps its place and its thread the connection, unless     *)
(* main has closed it or the one that had the place before.                *)
ChatPlaceKept == Talk!PlaceKept

(* No message of the producer process reaches a consumer process.          *)
IpcNothingCrosses == Ipc!NothingCrosses

(* The launcher leaves no process it has recorded, and processes that end  *)
(* by themselves leave no shared memory.                                   *)
IpcNothingLeft == Ipc!NothingLeft

(* Two cars are never in one area of the crossing, except in D after       *)
(* threadDeadlock has resolved a jam.                                      *)
CrossingAreaExclusive == Crossing!AreaExclusive
=============================================================================
