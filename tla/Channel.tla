------------------------------- MODULE Channel -------------------------------
(***************************************************************************)
(* The channel of coroutine/channel.h with its awaiters                    *)
(* (channel_awaiter.h, awaiter.h).                                         *)
(*                                                                         *)
(* A coroutine has at most one awaiter, so the coroutine stands for it.    *)
(* What a call does while it holds channel_lock is one action; resuming an *)
(* awaiter happens after the lock is released and only hands the coroutine *)
(* to its executor, so each resume and each continuation is an action of   *)
(* its own.  Every coroutine runs on a LooperExecutor of its own, as in    *)
(* main.cpp: a continuation waits until the call that dispatched it, if it *)
(* runs on the same thread, is over.                                       *)
(*                                                                         *)
(* The value of a write is its number in the order in which writes get     *)
(* hold of the channel, which makes every value unique.                    *)
(*                                                                         *)
(* The names every specification has (Init, Next, ...) carry the prefix    *)
(* Channel here, so that other modules can be extended beside this one.    *)
(***************************************************************************)
EXTENDS Naturals, Sequences, SequencesExt

CONSTANTS Writers, Readers,
          Capacities,     \* what buffer_capacity may be
          MaxWrites       \* bound on the number of writes

ASSUME ChannelAssumption ==
  /\ Capacities \subseteq Nat /\ MaxWrites \in Nat
  /\ Writers \cap Readers = {}

Coroutines == Writers \cup Readers

VARIABLES
  active,       \* as in the code
  cleaned,      \* close() has run clean_up()
  buffer_capacity, buffer, writer_list, reader_list,
  pc,           \* of each coroutine
  val,          \* its awaiter's value: val of a WriteAwaiter, ret of a reader
  wake,         \* resumes its last call has yet to make: <<coroutine, value>>
  writes,       \* number of values accepted so far
  handed,       \* the value handed to a reader last
  received      \* how often reads have returned each value

channel == <<active, cleaned, buffer_capacity, buffer, writer_list, reader_list>>
calls == <<writes, handed, received>>
channelVars == <<channel, pc, val, wake, calls>>

(* No value: a reader resumed by resume_unsafe, or nothing resumed yet.    *)
NoValue == 0
WriteNumbers == 1 .. MaxWrites

PCs == {"idle",         \* outside the channel
        "suspending",   \* write() or read() has returned an awaiter
        "suspended",    \* in a list, or about to be resumed
        "resumed",      \* handed to its executor
        "threw",        \* left with ChannelClosedException
        "destroyed"}    \* destroyed while it was suspended

ChannelInit ==
  /\ active = TRUE /\ cleaned = FALSE /\ buffer_capacity \in Capacities
  /\ buffer = <<>> /\ writer_list = <<>> /\ reader_list = <<>>
  /\ pc = [c \in Coroutines |-> "idle"]
  /\ val = [c \in Coroutines |-> NoValue]
  /\ wake = [c \in Coroutines |-> <<>>]
  /\ writes = 0 /\ handed = NoValue
  /\ received = [v \in WriteNumbers |-> 0]

-----------------------------------------------------------------------------
(* write() and read(): check_closed, then the coroutine is suspended.      *)
Enter(c) ==
  /\ pc[c] = "idle"
  /\ pc' = [pc EXCEPT ![c] = IF active THEN "suspending" ELSE "threw"]
  /\ UNCHANGED <<channel, val, wake, calls>>

(* check_closed throws inside try_push_writer or try_push_reader.          *)
PushToClosed(c) ==
  /\ pc[c] = "suspending" /\ ~active
  /\ pc' = [pc EXCEPT ![c] = "threw"]
  /\ UNCHANGED <<channel, val, wake, calls>>

(* The coroutine is suspended; resumes is what the call does after unlock. *)
Suspend(c, resumes) ==
  /\ pc[c] = "suspending" /\ active
  /\ pc' = [pc EXCEPT ![c] = "suspended"]
  /\ wake' = [wake EXCEPT ![c] = resumes]
  /\ UNCHANGED <<active, cleaned, buffer_capacity, received>>

-----------------------------------------------------------------------------
(* try_push_writer.                                                        *)

Accept(c) ==
  /\ c \in Writers /\ writes < MaxWrites
  /\ writes' = writes + 1
  /\ val' = [val EXCEPT ![c] = writes + 1]

WriteToReader(c) ==
  /\ reader_list # <<>>
  /\ Accept(c)
  /\ Suspend(c, << <<Head(reader_list), writes + 1>>, <<c, NoValue>> >>)
  /\ reader_list' = Tail(reader_list)
  /\ handed' = writes + 1
  /\ UNCHANGED <<buffer, writer_list>>

WriteToBuffer(c) ==
  /\ reader_list = <<>> /\ Len(buffer) < buffer_capacity
  /\ Accept(c)
  /\ Suspend(c, << <<c, NoValue>> >>)
  /\ buffer' = Append(buffer, writes + 1)
  /\ UNCHANGED <<writer_list, reader_list, handed>>

WriteWaits(c) ==
  /\ reader_list = <<>> /\ Len(buffer) >= buffer_capacity
  /\ Accept(c)
  /\ Suspend(c, <<>>)
  /\ writer_list' = Append(writer_list, c)
  /\ UNCHANGED <<buffer, reader_list, handed>>

try_push_writer(c) == WriteToReader(c) \/ WriteToBuffer(c) \/ WriteWaits(c)

-----------------------------------------------------------------------------
(* try_push_reader.                                                        *)

(* The reader c will be resumed with v.                                    *)
Fetch(c, v) ==
  /\ c \in Readers
  /\ val' = [val EXCEPT ![c] = NoValue]
  /\ handed' = v
  /\ UNCHANGED <<writes, reader_list>>

(* Mutant: the value is read but not popped.                               *)
ReadWithoutPop(c) ==
  /\ buffer # <<>> /\ writer_list = <<>>
  /\ Fetch(c, Head(buffer))
  /\ Suspend(c, << <<c, Head(buffer)>> >>)
  /\ UNCHANGED <<buffer, writer_list>>

ReadBuffer(c) ==
  /\ buffer # <<>> /\ writer_list = <<>>
  /\ Fetch(c, Head(buffer))
  /\ Suspend(c, << <<c, Head(buffer)>> >>)
  /\ buffer' = Tail(buffer)
  /\ UNCHANGED writer_list

(* Mutant: the value of the waiting writer is read, past the buffer.       *)
ReadWriterFirst(c) ==
  /\ buffer # <<>> /\ writer_list # <<>>
  /\ Fetch(c, val[Head(writer_list)])
  /\ Suspend(c, << <<Head(writer_list), NoValue>>, <<c, val[Head(writer_list)]>> >>)
  /\ writer_list' = Tail(writer_list)
  /\ UNCHANGED buffer

(* Mutant: the waiting writer is resumed, its value not put in the buffer. *)
ReadDropsWriter(c) ==
  /\ buffer # <<>> /\ writer_list # <<>>
  /\ Fetch(c, Head(buffer))
  /\ Suspend(c, << <<Head(writer_list), NoValue>>, <<c, Head(buffer)>> >>)
  /\ buffer' = Tail(buffer)
  /\ writer_list' = Tail(writer_list)

(* Reading makes room for the writer that waits longest.                   *)
ReadAndRefill(c) ==
  /\ buffer # <<>> /\ writer_list # <<>>
  /\ Fetch(c, Head(buffer))
  /\ Suspend(c, << <<Head(writer_list), NoValue>>, <<c, Head(buffer)>> >>)
  /\ buffer' = Append(Tail(buffer), val[Head(writer_list)])
  /\ writer_list' = Tail(writer_list)

ReadFromWriter(c) ==
  /\ buffer = <<>> /\ writer_list # <<>>
  /\ Fetch(c, val[Head(writer_list)])
  /\ Suspend(c, << <<c, val[Head(writer_list)]>>, <<Head(writer_list), NoValue>> >>)
  /\ writer_list' = Tail(writer_list)
  /\ UNCHANGED buffer

(* Mutant: the channel was checked before the lock was taken.              *)
ReadWaitsUnchecked(c) ==
  /\ buffer = <<>> /\ writer_list = <<>>
  /\ c \in Readers /\ pc[c] = "suspending"
  /\ pc' = [pc EXCEPT ![c] = "suspended"]
  /\ reader_list' = Append(reader_list, c)
  /\ UNCHANGED <<active, cleaned, buffer_capacity, buffer, writer_list, val, wake,
                 calls>>

ReadWaits(c) ==
  /\ buffer = <<>> /\ writer_list = <<>>
  /\ c \in Readers
  /\ val' = [val EXCEPT ![c] = NoValue]
  /\ Suspend(c, <<>>)
  /\ reader_list' = Append(reader_list, c)
  /\ UNCHANGED <<buffer, writer_list, writes, handed>>

try_push_reader(c) ==
  ReadBuffer(c) \/ ReadAndRefill(c) \/ ReadFromWriter(c) \/ ReadWaits(c)

-----------------------------------------------------------------------------
(* Awaiter::resume of the next coroutine the call of c has to resume.      *)
Resume(c) ==
  /\ wake[c] # <<>>
  /\ LET w == Head(wake[c])[1]
         v == Head(wake[c])[2]
     IN  /\ pc' = [pc EXCEPT ![w] = "resumed"]
         /\ val' = IF w \in Readers THEN [val EXCEPT ![w] = v] ELSE val
  /\ wake' = [wake EXCEPT ![c] = Tail(@)]
  /\ UNCHANGED <<channel, calls>>

(* await_resume of a coroutine: before_resume throws if the channel has    *)
(* been closed meanwhile, and the value is dropped.                        *)
Continue(c) ==
  /\ pc[c] = "resumed" /\ wake[c] = <<>>
  /\ pc' = [pc EXCEPT ![c] = IF active THEN "idle" ELSE "threw"]
  /\ received' = IF active /\ c \in Readers
                 THEN [received EXCEPT ![val[c]] = @ + 1] ELSE received
  /\ UNCHANGED <<channel, val, wake, writes, handed>>

Waiting(c) == \/ \E i \in 1 .. Len(writer_list) : writer_list[i] = c
              \/ \E i \in 1 .. Len(reader_list) : reader_list[i] = c

(* Mutant: the awaiter of a destroyed coroutine stays in the list.         *)
DestroyOnly(c) ==
  /\ Waiting(c)
  /\ pc' = [pc EXCEPT ![c] = "destroyed"]
  /\ UNCHANGED <<channel, val, wake, calls>>

(* ~WriteAwaiter and ~ReadAwaiter: the owner destroys a coroutine that     *)
(* waits in the channel.  Destroying one that is being resumed would be an *)
(* error of the owner and does not happen.                                 *)
Destroy(c) ==
  /\ \/ \E i \in 1 .. Len(writer_list) :
          /\ writer_list[i] = c
          /\ writer_list' = RemoveAt(writer_list, i)
          /\ UNCHANGED reader_list
     \/ \E i \in 1 .. Len(reader_list) :
          /\ reader_list[i] = c
          /\ reader_list' = RemoveAt(reader_list, i)
          /\ UNCHANGED writer_list
  /\ pc' = [pc EXCEPT ![c] = "destroyed"]
  /\ UNCHANGED <<active, cleaned, buffer_capacity, buffer, val, wake, calls>>

-----------------------------------------------------------------------------
(* close(): only the call whose compare_exchange succeeds cleans up.       *)
Close ==
  /\ active
  /\ active' = FALSE
  /\ UNCHANGED <<cleaned, buffer_capacity, buffer, writer_list, reader_list, pc,
                 val, wake, calls>>

clean_up ==
  /\ ~active /\ ~cleaned
  /\ cleaned' = TRUE
  /\ pc' = [c \in Coroutines |-> IF Waiting(c) THEN "resumed" ELSE pc[c]]
  /\ buffer' = <<>> /\ writer_list' = <<>> /\ reader_list' = <<>>
  /\ UNCHANGED <<active, buffer_capacity, val, wake, calls>>

-----------------------------------------------------------------------------
Step(c) == \/ PushToClosed(c) \/ try_push_writer(c) \/ try_push_reader(c)
           \/ Resume(c) \/ Continue(c)

ChannelNext == \/ Close \/ clean_up
               \/ \E c \in Coroutines : Enter(c) \/ Step(c) \/ Destroy(c)

ChannelSpec == ChannelInit /\ [][ChannelNext]_channelVars

(* Threads go on with a call they are in and executors with what they have *)
(* been given.  Nobody has to call the channel, close it or destroy a      *)
(* coroutine.                                                              *)
ChannelFairness ==
  WF_channelVars(clean_up) /\ \A c \in Coroutines : WF_channelVars(Step(c))

-----------------------------------------------------------------------------
(* Types of all variables.                                                 *)
ChannelTypeOK ==
  /\ active \in BOOLEAN /\ cleaned \in BOOLEAN /\ buffer_capacity \in Capacities
  /\ buffer \in Seq(WriteNumbers)
  /\ writer_list \in Seq(Writers) /\ reader_list \in Seq(Readers)
  /\ pc \in [Coroutines -> PCs]
  /\ val \in [Coroutines -> WriteNumbers \cup {NoValue}]
  /\ wake \in [Coroutines -> Seq(Coroutines \X (WriteNumbers \cup {NoValue}))]
  /\ writes \in 0 .. MaxWrites /\ handed \in 0 .. MaxWrites
  /\ received \in [WriteNumbers -> Nat]

(* Nobody waits for what is there: a reader waits only while there is      *)
(* neither a buffered value nor a waiting writer, a writer only while the  *)
(* buffer is full, and nobody once close() has returned; the buffer never  *)
(* exceeds buffer_capacity.                                                *)
NoNeedlessWait ==
  /\ Len(buffer) <= buffer_capacity
  /\ reader_list # <<>> => buffer = <<>> /\ writer_list = <<>>
  /\ writer_list # <<>> => Len(buffer) = buffer_capacity
  /\ cleaned => buffer = <<>> /\ writer_list = <<>> /\ reader_list = <<>>

(* Values leave the channel in the order in which they entered it: the     *)
(* buffer is older than the waiting writers, both are in order, and what a *)
(* reader has been handed last is older than both.                         *)
InChannel == buffer \o [i \in 1 .. Len(writer_list) |-> val[writer_list[i]]]
Fifo == \A j \in 1 .. Len(InChannel) :
          /\ handed < InChannel[j]
          /\ \A i \in 1 .. j - 1 : InChannel[i] < InChannel[j]

(* A suspended coroutine waits in a list or somebody is about to resume    *)
(* it, and nobody else is in a list or is resumed: no coroutine is         *)
(* stranded or resumed twice, also when the channel is closed while it is  *)
(* on its way into a list.                                                 *)
Woken(c) == \E d \in Coroutines : \E i \in 1 .. Len(wake[d]) : wake[d][i][1] = c
NoneStranded ==
  \A c \in Coroutines : (pc[c] = "suspended") <=> (Waiting(c) \/ Woken(c))

(* While the channel is open a value that was written is in exactly one    *)
(* place (a place in the buffer, a writer that waits or was destroyed      *)
(* while it waited, a resume still to be made, a reader that was resumed,  *)
(* a read that returned it): no call loses a value or leaves it at a       *)
(* second place.  And a reader that continues has a value.                 *)
Places(v) ==
  {<<"buffer", i>> : i \in {j \in 1 .. Len(buffer) : buffer[j] = v}}
  \cup {<<"writer", c>> : c \in {d \in Writers :
          val[d] = v /\ (Waiting(d) \/ pc[d] = "destroyed")}}
  \cup (UNION {{<<"resume", c, i>> : i \in {j \in 1 .. Len(wake[c]) : wake[c][j][2] = v}}
               : c \in Coroutines})
  \cup {<<"reader", c>> : c \in {d \in Readers : val[d] = v /\ pc[d] = "resumed"}}
  \cup {<<"received", n>> : n \in 1 .. received[v]}
NothingLostWhileOpen ==
  active =>
    /\ \A v \in 1 .. writes : \E p \in Places(v) : Places(v) = {p}
    /\ \A c \in Readers : pc[c] = "resumed" => val[c] # NoValue

(* The channel delivers a value at most once and only after it was         *)
(* written.                                                                *)
Delivery == INSTANCE AtMostOnceDelivery WITH
              Messages <- WriteNumbers,
              sent <- 1 .. writes
ChannelDelivers == Delivery!Spec

(* Closing the channel wakes everybody who waits in it.                    *)
CloseWakesAll ==
  ~active ~> \A c \in Coroutines : pc[c] \in {"idle", "threw", "destroyed"}
=============================================================================
