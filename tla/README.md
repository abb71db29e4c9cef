# TLA+ models of TempRepo

TempRepo is a collection of small, independent systems in C++, Go, Rust, Java and Python. This
directory holds TLA+ models of the ones whose logic is concurrent, distributed or stateful, the
TLC configurations that check them on small instances, and TLAPS proofs of the central results.
`PROJECT.json` lists every component, run, mutant, source line, hazard and theorem.

## 1. Inventory

| Part (under the repository root) | State it keeps | Operations | Interaction | What is hard |
|---|---|---|---|---|
| `opencode-demo2` lock-free queue (`include/SPMCQueue.h`) | header (head, tail, sizes) in shared memory; chain of segments with read/write positions | `try_push`, `try_pop`, `size`, constructor/destructor | one producer, many consumers, only atomics | stale loads, claim races, segment extension, counter wrap, re-initialisation by every process that attaches |
| `go-gee-demo/gee-rpc` client (`client.go`) | `pending`, `seq`, `closing`, `shutdown`, two mutexes | `Dial`, `Go`, `Call`, `Close`, the receive goroutine | request/response over one connection, callbacks through `Call.Done` | a late answer racing a cancelled context, a broken connection racing a send, completing a call exactly once |
| `gee-rpc` server (`server.go`, `service.go`) | service map, one goroutine per request, `sending` mutex, wait group | `Accept`, `ServeConn`, `handleRequest` | answers requests of the client, in any order | handling timeout racing the method, goroutines that never end |
| `gee-rpc` registry and `xclient` | server table with last heartbeat, cached server list, cached connections | heartbeat, `aliveServers`, `Refresh`, `Get`, `Broadcast` | clients poll the registry | staleness, timeouts, partial failure |
| `go-gee-demo/gee-cache` | LRU cache, single-flight map, hash ring | `Group.Get`, `load`, `Do`, `Add`, `PickPeer` | peers fetch from each other over HTTP | concurrent loads of one key, eviction accounting |
| `coroutine` (C++20): channel, executors, timer, task | channel buffer and waiting readers/writers; executor and timer queues; task result and callbacks | `read`, `write`, `close`; `execute`, `shutdown`; `return_value`, `get_result` | coroutines resumed on executors | lost wakeups, callbacks run under a lock, values lost on close |
| `coroutine/generator.h` | promise of each generator: value, `is_ready`, done | `has_next`, `next`, `map`, `flat_map`, `filter`, `take`, `take_while` | a stage resumes the generator below it | a value lost or computed twice, the source run ahead of its consumer |
| `cpp-object-storage-demo` store | RocksDB metadata, object files, 16 key mutexes | put, get, delete | called by the network layer | crash between file and metadata updates, striped locking, buffered writes |
| `cpp-object-storage-demo` network layer (`server.cpp`, `threadpool.h`, `client.cpp`) | epoll registrations, a `Connection` per client with buffers and counters, descriptors | `loop`, `handleRead`, `handleWrite`, `accept`; the client's requests | a binary protocol over TCP; several threads share one epoll instance | one-shot events, descriptors closed twice and reused, partial reads and writes |
| `opencode-demo2` programs (`producer.cpp`, `consumer.cpp`, `ipc_launcher.cpp`) | shared memory object, child processes | start, run, interrupt, clean up | processes that attach to one queue by name | the constructor of every process, unlinking, signals between fork and bookkeeping |
| `os/p1.c` crossing | semaphores of four areas, flags, queue lengths, a detector thread | one thread per car, `threadDeadlock` | condition variables and semaphores | a jam of four cars, signals nobody waits for, reading and posting a semaphore in two steps |
| `network` chat (`server.c`, `client.c`) | `clientList` with a fixed number of places, a thread per client | connect, time, name, list, message, exit | clients send messages to places of others | descriptors reused while threads keep them, places given out again |
| `go-web-user-demo` | user table, Redis cache, RPC connection pool | login, register, profile read and update, avatar upload | HTTP server calls the TCP server by RPC | cache-aside races, check-then-create, lost updates |
| `rust-playground/http-server` thread pool | job channel, worker handles | `execute`, `Drop` | workers receive under a mutex | shutdown with queued jobs |
| `go-gee-demo/gee-orm`, `gee-web` | SQL builder, router trie | session, transaction, routing | sequential | little |
| compiler labs, `os/file.c`, `os/changeMN.c`, `mmap-test.c`, zookeeper, kafka, flink, siddhi, spring, ... | - | demos of libraries | - | configuration and glue |

## 2. Plan

The parts of the repository do not call each other, so there is no module that composes all of
them; inside a part, components that interact are in one module (the callers and the receiver of
the RPC client; the loop, handlers and workers of the server; the request threads, the files and
the metadata of the object store). The order is by how much goes wrong in silence when the part is
wrong.

| # | Part | Modules | State |
|---|---|---|---|
| 1 | lock-free queue | `SPMCQueue`, `AtMostOnceDelivery` (abstract), `SPMCQueueProofs` | modelled, checked, proved |
| 2 | RPC client | `RpcClient`, `RpcClientProofs` | modelled, checked, proved |
| 3 | RPC server, one connection | `RpcServer`, `RpcServerProofs` | modelled, checked, proved |
| 4 | coroutine channel | `Channel` (implements `AtMostOnceDelivery`), `ChannelProofs` | modelled, checked, proved |
| 5 | coroutine executor, timer, task | `LooperExecutor`, `Timer`, `TaskPromise`; 5 and 8 together in `CoroutineLibrary`, with `CoroutineProofs` | modelled, checked, proved |
| 6 | object store | `ObjectStore`, `AtomicStore` (abstract), `ObjectStoreProofs` | modelled, checked, proved |
| 7 | object server: epoll one-shot events, connection states, descriptor reuse, client | `ObjectServer`, `ObjectServerProofs` | modelled, checked, proved |
| 8 | coroutine generator | `Generator` | modelled, checked, proved |
| 9 | queue shared between processes, with its launcher | `IpcQueue`; 9 to 11 together in `SmallPrograms`, with `ProgramProofs` | modelled, checked, proved |
| 10 | chat | `Chat` | modelled, checked, proved |
| 11 | crossing | `Crossroad` | modelled, checked, proved |
| 12 | gee-cache: `Group.Get` over LRU cache, single flight, peers; the hash ring | | not modelled yet |
| 13 | gee-rpc `Dial` and its timeout, handshake, `Accept`; registry and `xclient` | | not modelled yet |
| 14 | go-web-user-demo user service: cache-aside races; Rust thread pool; gee-web trie | | not modelled yet |

Every safety property of the passing runs is a theorem (section 6); the rest of the plan is rows 12
to 14.

Parts that share no variables are checked in one run where they are small. `CoroutineLibrary`
instantiates the executor, the timer, the task and the pipeline of generators, and `SmallPrograms`
the chat, the processes and the crossing, each with variables and property names of its own, so that
the runs and the proofs speak of the same definitions. `MCPrograms` extends both, `RpcServer`
and `Channel`, for safety; `MCRpc` holds `RpcClient`, `RpcServer`, `Channel` and `Crossroad`,
the parts with liveness properties of threads that wait for each other.
The initial states let one part run while the others have come to an end (the definitions
`...Over`), so the states of the parts add up and do not multiply.

## 3. Modules and code

Every definition that models code is mapped to its lines in `PROJECT.json` ("map"). Definitions
headed `Mutant:` are wrong variants of the definition that follows; they are no part of the
specification, and each shows that a property notices the bug it stands for.

**SPMCQueue** (`opencode-demo2/include/SPMCQueue.h`). Header and segments are variables of the
code's names, segments are numbered in allocation order and 0 is `nullptr`. Each action is one
access to an atomic or to a slot: `try_push` is `PushLoadTail` ... `PushSize`, `try_pop` is
`PopLoadHead` ... `PopSize`, with the failure branches of the compare-and-swaps (`PopAdvance`,
`PopClaim`) and their retries (`PopReload`). `total_size` wraps like a `size_t`, modulo
`SizeModulus`. `delivered` and `last` are history.

**RpcClient** (`go-gee-demo/gee-rpc/client.go`, `codec/gob.go`). A member of `Calls` is one
execution of `Client.Call`. `send` is `SendLock`, `registerCall`, `Write`, (`WriteClose`,
`WriteRemove`, `SendDone`), `SendUnlock`; the `select` is `SelectDone` and `SelectCtx` with
`CancelRemove`; `receive` is `ReadHeader`, `ReceiveRemove`, `ReadBody`, `ReceiveDone` and, at the
end, `terminateCalls`. Both mutexes are variables because `terminateCalls` can block on a channel
while it holds them. A body may be undecodable for the type of its `Reply` on a healthy connection,
and what is buffered may still be decoded after a close (`BodyMayFail`). The environment answers requests in any order, hangs up, and cancels contexts
at any time.

**RpcServer** (`gee-rpc/server.go`). The loop of `serveCodec`, and per request the handler and
the worker of `handleRequest`. A send on an unbuffered channel and its receive are one action, so
a worker whose handler has timed out stays blocked, as in the code. A response is two frames
(header, body) under the mutex `sending`; an encoding error closes the connection. A request is
readable, of an unknown method (its body is left on the stream) or has an undecodable body.

**Channel** (`coroutine/channel.h`, `channel_awaiter.h`, `awaiter.h`). What a call does under
`channel_lock` is one action (`WriteToReader`, `WriteToBuffer`, `WriteWaits`, `ReadBuffer`,
`ReadAndRefill`, `ReadFromWriter`, `ReadWaits`); the resumes it makes after unlocking are queued
in `wake` and happen one by one. Closing is two steps (`Close`, `clean_up`), and a waiting
coroutine may be destroyed.

**LooperExecutor**, **Timer**, **TaskPromise** (`coroutine/executor.h`, `timer.h`,
`task_promise.h` with `task.h` and `task_awaiter.h`). The condition variables are a flag or a set
of waiters; spurious wake-ups are steps. In the executor the caller that holds `queue_lock`
between the check of `is_active` and the push is modelled, because `shutdown` stores `is_active`
without the lock. The timer's clock is a counter, its heap a set with a top.

**ObjectStore** (`cpp-object-storage-demo/server.cpp`, `file.cpp`, `meta.cpp`). A thread handles
one request at a time through `handlePut`, `handleDelete`, `handleGet`. `data` is what a file holds
for the operating system: between `fopen("wb+")` and `fclose` it is `Half`, because `fsync` does
not flush the buffer of the stream. `meta` is RocksDB. The sixteen `shared_mutex`es are not
variables: who holds one follows from the program counters (`lock`, `lock_shared`). Writes,
renames, metadata updates and lookups may fail; `Crash` kills the process at any step and starts it
again. `meta->get` answers -1 for an unknown key and for any error of RocksDB alike (`NotFound`), and
the handlers take both for an unknown key: `PutOpenNew` then truncates the file of an existing object,
`DeleteUnknown` removes it and leaves its metadata, `GetUnknown` finds nothing, and a `handleGet` of a
key that has lost its file measures a null `fp` and kills the process (`GetRead`, `Die`). `blind`
records the keys whose file was hit in this way, until a put or a delete gets through to them.
`MaxMisses` bounds the lookups of known keys that fail.
`AtomicStore` is what its clients may rely on: each request takes effect at one moment or not at
all, a crash may tear only the value of a put that has just taken effect, and a lookup that fails
makes one request overlook a value, which a put or a delete may lose (`Lost`: anything may be read of
it until it is put again). Where no lookup fails (`MaxMisses = 0`) nothing is overlooked or lost.
A client that stores `key + ".tmp"` beside `key` is not modelled: a put of `key` truncates and renames
that other object's file under another mutex, which the server does not prevent. `StoreAssumption`
states this condition on the clients, and every result about the store is under it.

**ObjectServer** (`server.cpp`, `server.h`, `threadpool.h`, `object.cpp`, `client.cpp`,
`client_main.cpp`). `Submit` and `TakeTask` are the thread pool, to which `start` gives one `loop`
per thread. `EpollWait` takes a batch of ready one-shot events; `Event` dispatches one of them to
`ErrorEvent`, `Accept` with `AcceptAdd`, `HandleRead` or `HandleWrite`, and every system call that
another thread can observe in between is a step: the close in `handleRead` or `handleWrite`, the end
of the `Connection` (its destructor frees the buffers only), `EPOLL_CTL_DEL`, the second close,
`EPOLL_CTL_MOD` (`Rearm`). A read or a write moves any number of units. A read that finds nothing
re-arms (`ReadAgain`); a write that finds no room (`EAGAIN`, `server.cpp:345`) returns 0 and re-arms for
writing too, which changes nothing of the state and is not a step of its own.
After an exception `client_main.cpp:94` goes on to issue requests on a descriptor that is closed and in
a client with several threads may be another connection's by then; in the model such a client is over
(`Over`). Descriptors are numbers the kernel hands out lowest
first, so the second close or the late `EPOLL_CTL_DEL` of one connection can hit another; `stolen`
records the clients this happens to, and the properties say what still holds for all others.

**Generator** (`coroutine/generator.h`). A pipeline is a source, level 0, and any number of stages;
each level has its promise (`done`, `is_ready`, `value`) and the locals of its body. One call of
`has_next` travels down the levels (`HasNext`, `Resumed`, `AskBelow`) until one has a value ready
(`HasNextKnown`), is exhausted (`NoMore`, `TakeEnd`) or yields (`NextValue`, `FlatMapInner`), and
comes back up. `got` is history: what `next` of each level has returned. `Stage` defines what a stage
makes of a sequence and `Levels` what that comes to along the pipeline, both as recursive functions;
`Closed` says when a stage has had enough. `Exact` compares the code with them: the values and their
order (`YieldsAll`), and how often the source may have been resumed (`Lazy`).

**IpcQueue** (`SPMCQueue.h` constructor and destructor, `producer.cpp`, `consumer.cpp`,
`ipc_launcher.cpp`). Only the header is shared; `SegmentAt` says what a pointer read from it means
in the address space of the reader. The launcher forks, records, is interrupted at any point, and
terminates and then kills what it has recorded.

**Crossroad** (`os/p1.c`). The four thread functions differ only in names, which the records
`threadNorth` ... `threadWest` hold; `Car` is their common body, one action per lock region,
semaphore operation or signal. `TestValue` and `Post` are two steps, as in the code. A signal
wakes one waiter or is lost; wake-ups without a signal are bounded by `MaxSpurious`. The detector
reads the four `remain` variables one after the other (`Check`), so it may see a jam that never was.

**Chat** (`network/server.c`, `client.c`). `Accept` and `Fill` are main, which takes the next place
and closes whoever has it; `ThreadStarts`, `Recv`, `RecvReturns`, `Respond`, `MessageChecked`,
`MessageTarget`, `Forward` and `GiveUp` are `threadFunc`; `User` and `Receive` are the two threads
of a client. A thread keeps the number of its descriptor, which may lead to another client later,
while a `recv` that has begun stays with the connection it began on. `Fill` writes a place in one
step; the `memset` at `server.c:118` makes its `connectfd` 0 for a moment, which other threads take for
an occupied place whose descriptor leads to no client.

## 4. Runs

| Run | Instance | What it shows |
|---|---|---|
| `spmc` | 2 consumers, 5 items, 2 slots per segment | no item is popped twice or out of order, no slot is read while it is written, linking a segment never fails, `size()` is exact when no call is under way, `try_pop` returns; the queue implements at-most-once delivery |
| `spmc_lost_items` (violation) | 1 consumer, 3 items | items are left behind in a segment `head_segment` has passed |
| `rpc` | 2 calls; 2 requests, timeout on; 2 writers, 1 reader, 2 writes; a car from each direction | client: `done()` is called once and never blocks, a call gets its own answer, late answers are dropped, every call returns. Server: every request is answered. Channel: closing wakes everybody. Crossing: a jam is resolved |
| `rpc_server_hangs` (violation) | 1 request, no timeout | a method that returns an error leaves its handler waiting: `ServeConn` never returns |
| `rpc_server_unknown` (violation) | 2 requests | an unknown method ends the connection |
| `programs` | channel with 2 writers, 2 readers, 3 writes, capacity 0 and 1; 2 RPC requests, timeout on; a car from each direction, and West, North, West; 3 functions, 2 delays, 3 ticks (`MaxTime`); 2 getters, 2 callbacks, 2 awaiters; sources of up to 3 values, no, one or two stages; 3 chat clients, 1 or 2 places, 1 request; 2 consumer processes, 1 message | Channel: order, at-most-once delivery, nobody waits needlessly or is stranded, a written value is in exactly one place while the channel is open. RPC server: frames are whole, one response per request, nothing is written after the close. Crossing: no two cars in one area (outside a resolved jam). Library: functions run in order, not late, once (but for what one timeout of the timer confuses); callbacks run once, after the result; nobody sleeps for ever; a pipeline yields exactly what it should. Chat: a client gets what was meant for it and keeps its place, unless main has closed a connection. Processes: no process is left that the launcher knows of, nor the name if all ended by themselves |
| `ipc_messages_cross` (violation) | 1 producer process, 1 consumer process, 1 message | a consumer process does not find what the producer process has pushed |
| `timer_new_top` (violation) | 2 functions | the function that has become the top is popped and never run |
| `task_inline` (violation) | awaiter on `NoopExecutor` | the task deadlocks on its own `completion_lock` |
| `object_store` | 2 threads, 2 keys with a mutex each, 2 values, 1 crash or 1 failed lookup (`OneFault`; the theorems cover both together) | the store implements `AtomicStore`; a known key has a file, and objects are whole unless a flush was cut off, but for a key a failed lookup has hit |
| `object_server` | 2 descriptors; 2 clients with 2 threads and 1 request each, or 1 thread and 2 requests each; 3 clients and 2 threads from a state in the middle of a second close | a `Connection` has one holder, a client reads the responses to its own requests, every request is answered |
| `object_store_half` (violation) | 1 thread, 1 key, 1 crash | a crash before the flush leaves half an object that is served |

Why the bounds are enough to meet the interesting cases. Five items in segments of two make the
queue extend twice, so that a consumer can be two segments behind, and two consumers race every
compare-and-swap. Two calls suffice for answers in the wrong order and for one call failing while
another registers; `MaxSeq` equals the number of calls, so no call is cut off by it. Two requests
race for the mutex of the server with three senders (loop, handler, worker). In the channel two
coroutines on each side queue up behind each other, and capacities 0 and 1 make every branch
happen. One crash of the object store suffices because everything but the disk is reset by it, and
the two threads can be at any two points when it happens; one failed lookup is enough for each of the
three handlers, and the key it hit can then be read, deleted or put again by both threads. Requests for one key exercise the mutex
and those for two keys its absence; two keys on one mutex behave like one key with more waiting.
Two descriptors for two clients make the object server reuse a number as soon as one is closed, and
a request of three units arrives in every split. A third client matters when a descriptor that was
closed twice is given out a third time while an event for its second owner is still to be handled:
the run starts there, in a state the description in `MCObjectServer` shows to be reachable. Four cars make the one jam the code knows of; two
cars from one direction make a queue. Three clients and at most two places make the chat give a
place out again while its last thread is still at work. Beyond the listed instances the chat was
checked once with four clients and one or two places (two million states) and with three clients
and two requests, and the crossing with a wake-up without a signal for every number of cars; both
hold there too, and the inductive invariant of the generator (`GenInv`) with pipelines of three
stages. Two addresses for the first segment let processes agree or disagree on them.
Symmetry is used for threads, values, keys (with their temporary names) and functions, which the specifications treat alike, and only
where no liveness property is checked. Deadlock checking is off where the program may stop (a
closed connection, an exhausted bound, a finished task), as each cfg says.

## 5. Fairness

* Queue: a thread inside a call keeps taking steps (`WF`); a consumer need not call `try_pop`
  again. `PopReturns` needs no more, since a retry is always caused by another consumer's progress.
* RPC client: goroutines run (`WF`). This is enough although they share a mutex: a call sends once,
  so only finitely many steps can overtake one that waits. The server answers what it has received,
  or the connection breaks. Nothing forces a context to be done.
* RPC server: as for the client, and timers fire. Methods need not return, except in
  `rpc_server_hangs` (`MethodsReturnSpec`), where the violation must not be a method's fault.
* Object server: the pool starts its loops, a thread of `loop` goes on, and a client that waits for
  a response reads it. Nobody has to connect, send or stay.
* Crossing: every car and the detector go on (`WF` for each thread); signals may be lost.
* Channel: threads go on with the call they are in, executors with what they were given, and
  whoever closed the channel goes on to `clean_up`. Nobody has to call, close or destroy.
* Timer, task and processes (violation runs only): time passes and threads and processes run; spurious
  wake-ups are not relied on.
* Object store, executor, generator and chat: safety only.

## 6. Proofs

All theorems hold for any sets and sizes of the constants, under the named assumptions of the
modules, which say that bounds are natural numbers, that segments have at least one slot, that
markers (`NoCall`, `Half`, `NoFile`, ...) are not members of the sets they extend, and, for the
object store, that no key is the temporary name of another key (no client uses a key together with
that key + `.tmp`). A stage of a pipeline has a function of the right kind (`PipelineAssumption`), and a take any
integer. The descriptors of the object server and of the chat are natural numbers, a request of the
object server has a length and a payload, a list of the chat has a place, and the roles of threads
(writers and readers, getters and callbacks) do not overlap. Nothing is assumed of how many threads,
clients, calls, cars or processes there are. Where the model has several initial states (capacities,
lists of cars, numbers of places), the theorem is about each of them.

**SPMCQueueProofs**: types, `AtMostOnce`, `CopiesArePublished`, `LinkNeverFails`, `InOrder` and the
refinement of `AtMostOnceDelivery`. `AtMostOnce` is not inductive: it needs that unclaimed slots
hold items nobody has popped (`DeliveryInv`), which needs that slots hold different items, in push
order (`DataInv`), which needs the producer to write only behind `write_pos` of the last segment
(`ProducerInv`). Order for each consumer (`OrderInv`) says that all it can still reach is younger
than what it popped last, although `head_segment` may run ahead of it. That `InOrder` and
`AtMostOnce` hold although items can be lost is the point: the loss is the queue's only failure.
`SizeExactWhenQuiet` counts: `total_size` is the number of published items less that of popped ones,
corrected by the producer's pending increment and by the set of consumers whose decrement is still
to come (`SizeInv`), all modulo the width of `size_t`. The set is finite by the invariant itself, so
the theorem needs no bound on the consumers. `NothingDestroyed` says what `spmc_lost_items` leaves
open, namely that there is no other loss: every pushed item is in a slot, a claimed slot has been
copied or is being copied (`AccountInv`), and only full segments that have a successor are passed by
`head_segment` (`ChainInv`). So an item that nobody has popped is still there, and is out of reach
only in a full segment left behind; a queue that was never extended loses nothing.

**RpcClientProofs**: types, `DoneOnce`, `DoneNeverBlocks`, `OwnReply`, `NoOrphans` and the action
property `LateAnswerDropped`. The inductive invariant says who is in charge of a call: the pending
map, the receiver that has taken it out, or the sender whose write failed; never two of them
(`ChargeInv`), and a call that waits has one or is finished (`WaitInv`). Sequence numbers identify
calls wherever they occur (`SeqInv`), and the two mutexes keep a sender from registering while
`terminateCalls` goes through the map (`LockInv`).

**ObjectStoreProofs**: types, `MetaHasFile`, `WholeUnlessTorn` and the refinement of `AtomicStore`.
The invariant says what a thread inside a handler knows of the disk (`Local`: the file it writes is
fresh, its own name only if the key is unknown or was taken for unknown) and that the mutexes keep
others away from it (`Exclusive`). In the refinement the abstract value of a key is what its file will hold once a
flush that is under way is over, or `Lost` once a failed lookup has hit it; a put takes effect with `meta->put` or `rename`, a delete with
`meta->del`, a get with its read, a failed lookup of a known key is the abstract `Overlook`, and a crash
between commit and flush is the abstract tear. The number of failed lookups is not bounded in the
theorems: `MaxMisses` is any number.

**RpcServerProofs**: types, `FramesWhole`, `OneResponse`, `NothingAfterClose`, and as an action
property that no step writes to a closed connection. `OneResponse` is not inductive: the invariant
pairs the positions of a handler, its worker and the loop (`PairInv`), so that at most one of them
may still answer, says that whoever holds `sending` has just written its header (`LockInv`), and that
a request somebody may still answer is not on the wire (`HeadersOnce`). `HangsOnlyAfterError`
delimits what `rpc_server_hangs` shows: a handler that `wg.Wait` waits for has its worker still to
come unless its method has returned an error, and a worker is left behind on `called` only where
handling has a timeout (`LeftWaiting`).

**ChannelProofs**: types, `NoNeedlessWait`, `Fifo`, `NoneStranded`, `NothingLostWhileOpen` and the
refinement of `AtMostOnceDelivery`. The invariant has five layers: what fits where (`ShapeInv`), the
order of buffered and waiting values (`OrderInv`), every suspended coroutine in one list or resumed
by one call (`PlaceInv`), and, while the channel is open, every value that has left it carried by one
reader (`CarryInv`), and what a destroyed writer takes along is nowhere else (`GoneInv`).

**CoroutineProofs**. Executor: what was run, what is running and what is queued are what was
accepted, in order, until `shutdown(false)` empties the queue for good (`LooperOrder`); from this
`LooperInOrder`, and with the positions of callers and worker `LooperNoLostWakeup`. Task: a callback
that is registered is in `completion_callbacks` and has not been run (`TaskRuns`); from this
`TaskCallbackOnce`, that none is forgotten, and `TaskNoSleeper`. A coroutine that awaits the task gets
to `get_result` only with the result there (`TaskAwaits`); so it never takes nothing for a result, as a
getter may after a spurious wake-up, and where `task_inline` finds it inside its own callback it stays
there for ever, which needs a `NoopExecutor`. Timer: a function is queued, running
or run, and at one of these places only, and what has been run was due (`TimerOnce`); from this
`TimerRunOnce` and `TimerNotLate`. The exceptions are recorded function by function: a timeout that
finds another top than the one it waited for runs its function too early (`early`) and drops the new
top (`dropped`), which is what `timer_new_top` shows; a displacement that is notified in time is none. Generators: `GeneratorExact`, for pipelines of any length over any values.
`GenInv` says of each level which promises can be ready while a call is under way (`GenCalls`), that
what it has yielded and what flat_map has left over are the stage's reference of what it has got
(`GenFlow`), why it has ended (`GenEnds`), what take has counted (`GenCounts`), and, for laziness, that
since the source was resumed last no level was closed and each has yielded more, is still asked or has
ended (`GenDemand`). The reference is recursive along the values and along the stages. What such a
function computes needs induction, and the library's induction theorems cannot be instantiated here;
`LeastElement` gets it from the well-foundedness of finite subsets, `SetInduction` states induction for
a set of numbers, and `StepwiseFunction` derives from it that a function defined step by step exists
(`YieldsAgree` and `LevelsUnique`: and is the only one). `StageAppend`, `StageGrows` and `StageEnough` are the facts about the stages
the invariant rests on.

**ObjectServerProofs**: `OneHandler` and `OwnResponse`. A Connection is with one thread, in one batch
of events or behind one armed registration (`HoldInv`), which is kept although descriptors are closed
twice, because closing and `EPOLL_CTL_DEL` only ever disarm. A client waiting to be accepted has no
Connection and no descriptor (`QueueInv`), and a socket is behind one number (`FdInv`). For
`OwnResponse` the dialogue with each client that no other connection has hit is described as a whole
(`Talk`): the units under way, the counters of the Connection and the client's position add up to one
request or to one response.

**ProgramProofs**. Crossing: the semaphore of an area has at most one permit and none while a car is
in it (`AreaFree`), except `mutexD` after a jam; from this `CrossingAreaExclusive`, although a thread
reads the semaphore and posts it in two steps. Processes: which of them the launcher has forked,
recorded and gone through (`IpcFork`, `IpcCleaned`), who still has the name open (`IpcNamed`), and
that only the producer's own segment is filled (`IpcOwn`); from this `IpcNothingLeft`, and
`IpcNothingCrosses`, which makes what `ipc_messages_cross` shows in one behaviour a fact of all of them. Chat: a connection has one descriptor (`FileTable`) and at most one place
(`PlaceTable`), except while main has given the place out and not filled it; the descriptors a thread
has copied lead to the client it means, or that client was evicted (`ChatAddressed`); a client at
work is in its place unless it is contested (`ChatSeated`). From these `ChatMeantForMe` and
`ChatPlaceKept`.

`AtMostOnce` and `LinkNeverFails` of the queue, `NoOrphans` of the RPC client and the types of the
RPC client and server, the channel and the store are proved and not part of a run: the theorem says
more. Attempts at the proofs changed three things in the models: the generator got
functions by level and a reference in recursive functions, so that it can be reasoned about;
`EventKind` of `ObjectServer` was a
`CASE` whose arms overlapped, so that its value was not determined, and now reports an error
before anything else; and the constants of several modules got the named assumptions above.

## 7. Only model-checked

Liveness (`PopReturns`, `CallReturns`, `ServerEveryRequestAnswered`, `CloseWakesAll`,
`RequestServed`, `CrossingJamResolved`) rests on fairness and on `ENABLED`, which are beyond the
prover. All other properties of the passing runs are theorems. The violation runs stay with TLC, which
shows the behaviour; for the queue, the RPC server, the timer, the task, the object store and the
processes a theorem says how far the failure goes.

## 8. Disagreements between code and its comments

1. **Lost items** (`spmc_lost_items`). A consumer loads `write_pos`, finds the segment empty, and
   then loads `next_segment`. If the producer fills the segment and links a new one in between, the
   consumer moves `head_segment` past items nobody has popped.
2. **`ServeConn` never returns** (`rpc_server_hangs`). After an error response the worker returns
   without sending on `sent`; the handler waits for ever, and so does `wg.Wait`.
3. **Unknown method** (`rpc_server_unknown`). `readRequest` returns before it has read the body,
   which is then taken for the next header, and the connection is closed.
4. **Wrong function popped** (`timer_new_top`). When `wait_for` times out the top may have changed;
   the new top is popped, the old one is run, now and again later.
5. **Self-deadlock** (`task_inline`). Callbacks run under `completion_lock`; an awaiter on the
   default executor resumes in place and asks for the result, locking the mutex again.
6. **Half an object** (`object_store_half`). An object becomes visible before its data are flushed.
7. **Nothing crosses** (`ipc_messages_cross`). The launcher and the README of `opencode-demo2` speak of
   processes that communicate through shared memory. Only the header is shared: the segments are on
   the heap of each process, every process attaches as creator, and a consumer looks into memory of
   its own.

The quoted comments and tests are in `PROJECT.json` ("findings"). Two more have no run of their own.
`task.h:43` and `:97` say that `get_result` "will be blocked until the Task coroutine is finished"; it
waits once and not in a loop, so after a spurious wake-up it returns before that (`GetWoken` in
`TaskPromise`). `server.cpp:441` says of a key without a file that the server "will return the
NOT_FOUND on GET when file not exists"; `handleGet` measures the null `fp` first and dies (`GetRead`).
Only a delete whose lookup failed leads there (`MetaHasFile`).

## 9. Observations and what is not modelled

Seen while modelling, in the model but with no promise in the repository to hold them against:
`total_size` can wrap below zero for a moment, because a pop may decrement before the push that
published the item increments; a notification of `shutdown` can be missed by a worker between its
loop test and its wait (`LooperExecutor`; `threadpool.h` has the same pattern), so that a join does
not return; `execute` can accept a function after the worker has left; after `shutdown(false)` the timer
may pop an empty queue; a metadata lookup that fails is taken for an unknown key, and a put or a delete
then harms the object (`blind`); a value handed to a reader is dropped if the channel is closed
before the reader continues. In the object server a connection that fails is closed twice, and the
second close can end another client's connection (`stolen`); at the end of the stream `readn` of
the object client returns a short count, the status stays `RESP_OK` (`object.cpp:20`, `135`), and
`client_main.cpp:102` counts a success (`ReceiveNothing`). In the crossing a car that has looked
at its neighbour's flag and not yet begun to wait misses the signal and may stay for ever, and after
a jam two cars can be in area D, because the detector posts a semaphore that is in use. In the chat a thread can write to a client that has inherited a
descriptor, and one whose connection main has closed takes the place from its successor; `evicted`
marks these cases. Where a property of a passing run excepts such a case, it says that the harm ends
there; `PROJECT.json` notes it at the hazard.

Seen while reading, outside the models: `Request::write` allocates a buffer without room for the
length of the key; `server.c:112` says that the earliest connection is closed when the list is full,
while the next place in turn is taken; `client.c:253` says that the sub-thread is killed, and the
whole client exits; a write to a closed connection kills the chat server by `SIGPIPE`; a chat thread
that gives up leaves its descriptor open; a generator made by a stage keeps a pointer to the one it
was made from, so a stored pipeline may dangle; in gee-cache, a `Get` that missed the cache during a
flight and reaches `Do` after it loads the key a second time (`singleflight.go:40`); the heartbeat of
the registry stops after its first failed request (`registry.go:107`); the user service can cache a
profile read before an update after the update has deleted the entry (`user.go:111`).

Hazards outside the models, besides those `PROJECT.json` lists: `clean_up` of the channel resumes
awaiters under `channel_lock`, so one on a `NoopExecutor` would lock it again; the receiver of the
RPC client may decode into a `Reply` whose caller has already returned because of its context; a
`Done` channel shared by many calls may fill up; `Dial` that times out leaves a goroutine blocked on
its channel, and a request that times out leaves its worker blocked on `called`; the timer's clock
may be set back; a discovery list may name servers that have gone.

Not modelled: weak memory orders (all atomics of the queue are acquire/release on the variables
that matter and are interleaved); the lifetime of
coroutine frames; failures of the machine, as opposed to the process; a flush that fails in
`fclose`; `m.unlock()` on a mutex that was locked shared (undefined by the standard; taken to
release it); encodings and network framing beyond what the RPC frames, the units of the object
protocol and the packets of the chat need; the shutdown of the object server's pool;
failures of `accept` and `pthread_create` in the chat, which end the server. The copies
`opencode-vibe-demo` and `go-web-user-demo`'s `rpc` package follow the same code. Demos of
libraries, generated parsers and scripts have no logic of their own to model; `PROJECT.json`
lists them with the reason.
