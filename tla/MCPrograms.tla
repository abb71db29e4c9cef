----------------------------- MODULE MCPrograms -----------------------------
(***************************************************************************)
(* Model checking, for safety, of the RPC server, of the coroutine library *)
(* with its Channel and its Generator, of the chat, of the processes       *)
(* around the SPMC queue and of the crossing.  They share no variables, so *)
(* their properties can be checked one part at a time: in a behaviour one  *)
(* part runs and the others have come to an end.                           *)
(***************************************************************************)
EXTENDS RpcServer, CoroutineLibrary, SmallPrograms, Channel, TLC

(* Short sources, and pipelines of at most two stages of all kinds.        *)
SeqsUpTo(S, n) == UNION {[1..k -> S] : k \in 0..n}
Sources == SeqsUpTo(0..2, 3)
Stages == {<<"map", [x \in Values |-> (x + 1) % 4]>>, <<"filter", [x \in Values |-> x % 2 = 0]>>,
           <<"flat_map", [x \in Values |-> [j \in 1..x |-> x]]>>, <<"take", 0>>, <<"take", 2>>,
           <<"take_while", [x \in Values |-> x % 2 = 0]>>}
ShortPipelines == SeqsUpTo(Stages, 2)

(* A car from each direction; and two from one direction with another one, *)
(* and a wake-up without a signal.                                         *)
CommandLines == {<<"North", "East", "South", "West">>, <<"West", "North", "West">>}
SpuriousWakeups == <<0, 0, 1, 0>>

-----------------------------------------------------------------------------
(* The end of each part: a state it can reach in which nothing is left to  *)
(* be done.                                                                *)

(* The client of the RPC server has hung up without a request.             *)
ServerOver ==
  /\ unread = {} /\ hungup = TRUE /\ closed = TRUE /\ misaligned = FALSE
  /\ loop = "returned" /\ lreq = CHOOSE r \in Requests : TRUE
  /\ handler = [r \in Requests |-> "none"] /\ worker = [r \in Requests |-> "none"]
  /\ failed = {} /\ sending = Nobody /\ wire = <<>>

LooperOver ==
  /\ l_is_active = FALSE /\ l_queue = <<>> /\ l_holder = Nothing
  /\ l_waiting = FALSE /\ l_worker = "exited" /\ l_running = Nothing
  /\ l_caller = [f \in Functions |-> "refused"] /\ l_closer = "done"
  /\ l_accepted = <<>> /\ l_executed = <<>>

TimerOver ==
  /\ t_now = MaxTime /\ t_is_active = FALSE /\ t_queue = {} /\ t_top = Nothing
  /\ t_scheduled = [f \in Functions |-> 0] /\ t_notify = {}
  /\ t_worker = "exited" /\ t_executable = Nothing /\ t_signalled = FALSE
  /\ t_closer = "done" /\ t_early = {} /\ t_dropped = {}
  /\ t_accepted = {} /\ t_executed = [f \in Functions |-> 0]

PromiseOver ==
  /\ p_result = TRUE /\ p_holder = Nothing /\ p_waiters = {} /\ p_callbacks = {}
  /\ p_pc = [t \in Promise!Threads |-> "done"]
  /\ p_runs = [c \in Promise!Callbacks |-> 1]
  /\ p_got = [t \in Getters \cup Awaiters |-> "result"]

GeneratorOver ==
  /\ g_input = <<>> /\ g_stages = <<>> /\ g_dir = "destroyed" /\ g_lev = 0
  /\ g_done = [l \in {0} |-> FALSE] /\ g_is_ready = [l \in {0} |-> FALSE]
  /\ g_value = [l \in {0} |-> "uninitialized"] /\ g_i = [l \in {0} |-> 0]
  /\ g_inner = [l \in {0} |-> <<>>] /\ g_got = [l \in {0} |-> <<>>] /\ g_answer = TRUE

(* The channel was closed before anybody used it.                          *)
ChannelOver ==
  /\ active = FALSE /\ cleaned = TRUE /\ buffer_capacity = 0
  /\ buffer = <<>> /\ writer_list = <<>> /\ reader_list = <<>>
  /\ pc = [c \in Coroutines |-> "threw"]
  /\ val = [c \in Coroutines |-> NoValue]
  /\ wake = [c \in Coroutines |-> <<>>]
  /\ writes = 0 /\ handed = NoValue
  /\ received = [v \in WriteNumbers |-> 0]

(* Three clients came and went, one after the other.                       *)
ChatOver ==
  /\ c_server = TRUE /\ c_count = 0 /\ c_clientList = [s \in 0..1 |-> -1]
  /\ c_occupant = [s \in 0..1 |-> 3 - s] /\ c_file = [d \in 4..6 |-> d - 3]
  /\ c_accepted = 3 /\ c_incoming = -1
  /\ c_thread = [c \in 1..3 |-> [Talk!NoThread EXCEPT !.pc = "end", !.id = (c - 1) % 2]]
  /\ c_evicted = {} /\ c_proc = [c \in 1..3 |-> "over"]
  /\ c_up = [c \in 1..3 |-> <<>>] /\ c_down = [c \in 1..3 |-> <<>>]
  /\ c_reset = {} /\ c_requests = 0

(* A signal came before the launcher had forked.                           *)
IpcOver ==
  /\ q_name = Ipc!None /\ q_objects = 0
  /\ q_header = [o \in 1..3 |-> [head |-> Ipc!None, tail |-> Ipc!None]]
  /\ q_mapped = [p \in 0..2 |-> Ipc!None] /\ q_addr = [p \in 0..2 |-> Ipc!None]
  /\ q_segment = [p \in 0..2 |-> <<>>] /\ q_proc = [p \in 0..2 |-> "new"]
  /\ q_stop = [p \in 0..2 |-> FALSE] /\ q_made = 0 /\ q_got = [p \in 0..2 |-> {}]
  /\ q_launcher = <<"over", 2>> /\ q_orphan = {}

CrossingOver ==
  /\ x_From = <<"North">> /\ x_pc = <<"done">>
  /\ x_sem = [a \in Crossing!Areas |-> 1]
  /\ x_remain = [a \in Crossing!Areas |-> 1]
  /\ x_flag = [d \in Crossing!Directions |-> FALSE]
  /\ x_count = [d \in Crossing!Directions |-> 0]
  /\ x_detector = "exited" /\ x_val4 = 1 /\ x_jams = FALSE /\ x_spurious = 0

-----------------------------------------------------------------------------
LibraryOver == ChannelOver /\ LooperOver /\ TimerOver /\ PromiseOver /\ GeneratorOver
library == <<channelVars, looper, timer, promise, generator>>

LibraryInit ==
  \/ ChannelInit /\ LooperOver /\ TimerOver /\ PromiseOver /\ GeneratorOver
  \/ ChannelOver /\ Looper!Init /\ TimerOver /\ PromiseOver /\ GeneratorOver
  \/ ChannelOver /\ LooperOver /\ Timers!Init /\ PromiseOver /\ GeneratorOver
  \/ ChannelOver /\ LooperOver /\ TimerOver /\ Promise!Init /\ GeneratorOver
  \/ ChannelOver /\ LooperOver /\ TimerOver /\ PromiseOver /\ Pipeline!Init

LibraryNext ==
  \/ ChannelNext /\ UNCHANGED <<looper, timer, promise, generator>>
  \/ Looper!Next /\ UNCHANGED <<channelVars, timer, promise, generator>>
  \/ Timers!Next /\ UNCHANGED <<channelVars, looper, promise, generator>>
  \/ Promise!Next /\ UNCHANGED <<channelVars, looper, timer, generator>>
  \/ Pipeline!Next /\ UNCHANGED <<channelVars, looper, timer, promise>>

SmallOver == ChatOver /\ IpcOver /\ CrossingOver
small == <<chat, ipc, cars>>

SmallInit ==
  \/ Talk!Init /\ IpcOver /\ CrossingOver
  \/ ChatOver /\ Ipc!Init /\ CrossingOver
  \/ ChatOver /\ IpcOver /\ Crossing!Init

SmallNext ==
  \/ Talk!Next /\ UNCHANGED <<ipc, cars>>
  \/ Ipc!Next /\ UNCHANGED <<chat, cars>>
  \/ Crossing!Next /\ UNCHANGED <<chat, ipc>>

ProgramsInit ==
  \/ Init /\ LibraryOver /\ SmallOver
  \/ ServerOver /\ LibraryInit /\ SmallOver
  \/ ServerOver /\ LibraryOver /\ SmallInit

ProgramsNext ==
  \/ Next /\ UNCHANGED <<library, small>>
  \/ LibraryNext /\ UNCHANGED <<vars, small>>
  \/ SmallNext /\ UNCHANGED <<vars, library>>

ProgramsSpec == ProgramsInit /\ [][ProgramsNext]_<<vars, library, small>>

Symmetry == Permutations(Functions)

=============================================================================
