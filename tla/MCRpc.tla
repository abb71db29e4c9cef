------------------------------- MODULE MCRpc --------------------------------
(***************************************************************************)
(* Model checking of RpcClient, and of the liveness of RpcServer, Channel  *)
(* and Crossroad, the parts that wait for each other.  They share no       *)
(* variables, so they can be checked one at a time: in a behaviour one of  *)
(* them runs and the others have come to an end.                           *)
(***************************************************************************)
EXTENDS RpcClient, Sequences, FiniteSets

CONSTANTS k1, k2,                         \* calls of RpcClient
          Requests, HandleTimeout, Nobody \* RpcServer

VARIABLES
  s_unread, s_hungup, s_closed, s_misaligned, s_loop, s_lreq, s_handler,
  s_worker, s_failed, s_sending, s_wire,
  c_From, c_pc, c_sem, c_remain, c_flag, c_count, c_detector, c_val4, c_jams,
  c_spurious,
  h_active, h_cleaned, h_buffer_capacity, h_buffer, h_writer_list,
  h_reader_list, h_pc, h_val, h_wake, h_writes, h_handed, h_received

server == <<s_unread, s_hungup, s_closed, s_misaligned, s_loop, s_lreq,
            s_handler, s_worker, s_failed, s_sending, s_wire>>

Server == INSTANCE RpcServer WITH
  unread <- s_unread, hungup <- s_hungup,
  closed <- s_closed, misaligned <- s_misaligned, loop <- s_loop,
  lreq <- s_lreq, handler <- s_handler, worker <- s_worker,
  failed <- s_failed, sending <- s_sending, wire <- s_wire

cars == <<c_From, c_pc, c_sem, c_remain, c_flag, c_count, c_detector, c_val4,
          c_jams, c_spurious>>

(* A car from each direction, and no wake-up without a signal.             *)
CommandLines == {<<"North", "East", "South", "West">>}
SpuriousWakeups == <<0, 0, 0, 0>>

Crossing == INSTANCE Crossroad WITH
  Args <- CommandLines, MaxCars <- 4, MaxSpurious <- SpuriousWakeups,
  From <- c_From, pc <- c_pc, sem <- c_sem,
  remain <- c_remain, flag <- c_flag, count <- c_count,
  detector <- c_detector, val4 <- c_val4, jams <- c_jams,
  spurious <- c_spurious

chan == <<h_active, h_cleaned, h_buffer_capacity, h_buffer, h_writer_list,
          h_reader_list, h_pc, h_val, h_wake, h_writes, h_handed, h_received>>

(* Two writers and a reader.                                               *)
Chan == INSTANCE Channel WITH
  Writers <- {"w1", "w2"}, Readers <- {"e1"}, Capacities <- {0, 1}, MaxWrites <- 2,
  active <- h_active, cleaned <- h_cleaned,
  buffer_capacity <- h_buffer_capacity, buffer <- h_buffer,
  writer_list <- h_writer_list, reader_list <- h_reader_list, pc <- h_pc,
  val <- h_val, wake <- h_wake, writes <- h_writes, handed <- h_handed,
  received <- h_received

-----------------------------------------------------------------------------
(* The end of each part: a state it can reach in which nothing is left to  *)
(* be done.  The RPC server's client has hung up without a request.        *)

ClientOver ==
  /\ seq = 1 /\ pending = [s \in Seqs |-> NoCall] /\ closing = TRUE
  /\ shutdown = TRUE /\ sending = Free /\ mu = Free /\ conn = "closed"
  /\ wire = {} /\ CallSeq = [k \in Calls |-> 0]
  /\ Error = [k \in Calls |-> "shutdown"] /\ Reply = [k \in Calls |-> NoCall]
  /\ Done = [k \in Calls |-> 0] /\ completions = [k \in Calls |-> 1]
  /\ pc = [k \in Calls |-> "returned"] /\ found = [k \in Calls |-> FALSE]
  /\ rpc = "exited" /\ rhdr = NoCall /\ rfail = FALSE /\ rcall = NoCall
  /\ rerr = TRUE /\ todo = {}

ServerOver ==
  /\ s_unread = {} /\ s_hungup = TRUE /\ s_closed = TRUE
  /\ s_misaligned = FALSE /\ s_loop = "returned"
  /\ s_lreq = CHOOSE r \in Requests : TRUE
  /\ s_handler = [r \in Requests |-> "none"]
  /\ s_worker = [r \in Requests |-> "none"]
  /\ s_failed = {} /\ s_sending = Nobody /\ s_wire = <<>>

CrossingOver ==
  /\ c_From = <<"North">> /\ c_pc = <<"done">>
  /\ c_sem = [a \in Crossing!Areas |-> 1]
  /\ c_remain = [a \in Crossing!Areas |-> 1]
  /\ c_flag = [d \in Crossing!Directions |-> FALSE]
  /\ c_count = [d \in Crossing!Directions |-> 0]
  /\ c_detector = "exited" /\ c_val4 = 1 /\ c_jams = FALSE /\ c_spurious = 0

(* The channel was closed before anybody used it.                          *)
ChannelOver ==
  /\ h_active = FALSE /\ h_cleaned = TRUE /\ h_buffer_capacity = 0
  /\ h_buffer = <<>> /\ h_writer_list = <<>> /\ h_reader_list = <<>>
  /\ h_pc = [c \in Chan!Coroutines |-> "threw"]
  /\ h_val = [c \in Chan!Coroutines |-> Chan!NoValue]
  /\ h_wake = [c \in Chan!Coroutines |-> <<>>]
  /\ h_writes = 0 /\ h_handed = Chan!NoValue
  /\ h_received = [v \in Chan!WriteNumbers |-> 0]

-----------------------------------------------------------------------------
RpcInit ==
  \/ Init /\ ServerOver /\ CrossingOver /\ ChannelOver
  \/ ClientOver /\ Server!Init /\ CrossingOver /\ ChannelOver
  \/ ClientOver /\ ServerOver /\ Crossing!Init /\ ChannelOver
  \/ ClientOver /\ ServerOver /\ CrossingOver /\ Chan!ChannelInit

RpcNext ==
  \/ Next /\ UNCHANGED <<server, cars, chan>>
  \/ Server!Next /\ UNCHANGED <<vars, cars, chan>>
  \/ Crossing!Next /\ UNCHANGED <<vars, server, chan>>
  \/ Chan!ChannelNext /\ UNCHANGED <<vars, server, cars>>

RpcSpec ==
  /\ RpcInit /\ [][RpcNext]_<<vars, server, cars, chan>>
  /\ Fairness /\ Server!Fairness /\ Crossing!Fairness /\ Chan!ChannelFairness

-----------------------------------------------------------------------------
(* Every request the RPC server has read is answered unless the connection *)
(* breaks.                                                                 *)
ServerEveryRequestAnswered == Server!EveryRequestAnswered

(* When a car waits in each of the four areas, threadDeadlock and the      *)
(* signals of the cars to their left get one from each direction across.   *)
CrossingJamResolved == Crossing!JamResolved

(* Closing the channel wakes every coroutine that waits in it.             *)
CloseWakesAll == Chan!CloseWakesAll
=============================================================================
