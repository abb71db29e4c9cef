---------------------------- MODULE ObjectServer ----------------------------
(***************************************************************************)
(* The network layer of cpp-object-storage-demo: the threads that run      *)
(* Server::loop over one epoll instance with one-shot events, the state of *)
(* each Connection, and the clients that send requests and read responses. *)
(*                                                                         *)
(* A client has one connection, so sockets and Connection objects bear the *)
(* name of their client.  Descriptors are numbers which the kernel hands   *)
(* out again, lowest first; loop closes some of them twice, so a system    *)
(* call can meet a socket of another client: stolen is the set of clients  *)
(* this has happened to.  Streams are sequences of units; a unit carries   *)
(* the name of its sender or, on the way back, the senders of the request  *)
(* it answers.  What a request does to the store is in ObjectStore.        *)
(***************************************************************************)
EXTENDS Integers, Sequences, FiniteSets, FiniteSetsExt

CONSTANTS Clients, Threads,
          Descriptors,      \* descriptor numbers left for connections
          LenUnits,         \* units of the length word of a request
          DataUnits,        \* units of its payload
          Requests,         \* a client makes at most so many
          MAX_EPOLL_SIZE,
          None

VARIABLES
  tasks,      \* loops submitted to the thread pool and not yet taken
  pc, at,     \* position of a thread, the Connection it handles
  connfd,     \* and its descriptor
  todo,       \* events of its last epoll_wait it has still to handle
  curfds,     \* its own count of descriptors
  fd,         \* the socket behind each descriptor number
  reg,        \* the epoll registration of each socket
  conn,       \* the Connection objects
  backlog, up, down, peer,    \* the network
  client, sent, left,         \* the clients
  stolen      \* clients whose socket was hit through another's descriptor

server  == <<tasks, pc, at, connfd, todo, curfds, fd, reg, conn, stolen>>
network == <<backlog, up, down, peer>>
clients == <<client, sent, left>>
vars    == <<server, network, clients>>

Connections ==
  [state : {"INIT", "READ_LEN", "READ_DATA", "WRITE_DATA"}, fd : Descriptors,
   lenPtr : 0..LenUnits, inPtr : 0..DataUnits, outPtr : Int, outLen : Int,
   from : SUBSET Clients]

(* What epoll_ctl stores with a socket: the Connection and the event.      *)
Registrations == [ptr : Clients, armed : {"no", "in", "out"}]

(* A request has a length word and a payload; None is no other value.      *)
ASSUME ServerAssumption ==
  /\ Descriptors \subseteq Nat
  /\ LenUnits \in Nat \ {0} /\ DataUnits \in Nat \ {0}
  /\ None \notin Clients \cup Connections \cup Registrations

ConnectionInit(n) ==
  [state |-> "INIT", fd |-> n, lenPtr |-> 0, inPtr |-> 0,
   outPtr |-> 0, outLen |-> 0, from |-> {}]

Init ==
  /\ tasks = 0 /\ pc \in [Threads -> {"pool", "none"}]
  /\ at = [t \in Threads |-> None] /\ connfd = [t \in Threads |-> 0]
  /\ todo = [t \in Threads |-> {}]
  /\ curfds = [t \in Threads |-> 1]
  /\ fd = [n \in Descriptors |-> None]
  /\ reg = [c \in Clients |-> None] /\ conn = [c \in Clients |-> None]
  /\ backlog = <<>> /\ up = [c \in Clients |-> <<>>]
  /\ down = [c \in Clients |-> <<>>] /\ peer = [c \in Clients |-> "none"]
  /\ client \in [Clients -> {"new", "closed"}]   \* some need not be there
  /\ sent = [c \in Clients |-> 0]
  /\ left \in [Clients -> 1..Requests]
  /\ stolen = {}

-----------------------------------------------------------------------------
(* System calls on a descriptor number n, made for Connection c.           *)

Steal(n, c) == stolen' = stolen \cup ({fd[n]} \ {c, None})

(* The last descriptor of a socket takes its registration with it.         *)
CloseFd(n, c) ==
  /\ fd' = [fd EXCEPT ![n] = None]
  /\ reg' = [s \in Clients |-> IF s = fd[n] THEN None ELSE reg[s]]
  /\ Steal(n, c)

EpollDel(n, c) ==
  /\ reg' = [s \in Clients |-> IF s = fd[n] THEN None ELSE reg[s]]
  /\ Steal(n, c)

(* It fails, and nobody looks, if the socket is not registered.            *)
EpollMod(n, c, armed) ==
  /\ reg' = [s \in Clients |-> IF s = fd[n] /\ reg[s] # None
                               THEN [ptr |-> c, armed |-> armed] ELSE reg[s]]
  /\ Steal(n, c)

(* What epoll reports of socket s; a one-shot event disarms it.            *)
EventKind(s) ==
  IF reg[s] = None \/ reg[s].armed = "no" THEN "none"
  ELSE IF peer[s] = "reset" THEN "err"
  ELSE IF reg[s].armed = "in" /\ up[s] = <<>> /\ peer[s] # "shut" THEN "none"
  ELSE reg[s].armed

Fired == {s \in Clients : EventKind(s) # "none"}

Ready == {<<EventKind(s), reg[s].ptr>> : s \in Fired}
           \cup (IF backlog # <<>> THEN {<<"listen", None>>} ELSE {})

-----------------------------------------------------------------------------
(* Server::start gives the pool, which has conf.threads of the Threads, as *)
(* many loops as it has threads; each worker takes one.                    *)

Submit ==
  /\ tasks < Cardinality({t \in Threads : pc[t] = "pool"})
  /\ tasks' = tasks + 1
  /\ UNCHANGED <<pc, at, connfd, todo, curfds, fd, reg, conn, stolen, network, clients>>

TakeTask(t) ==
  /\ pc[t] = "pool" /\ tasks > 0
  /\ tasks' = tasks - 1 /\ pc' = [pc EXCEPT ![t] = "loop"]
  /\ UNCHANGED <<at, connfd, todo, curfds, fd, reg, conn, stolen, network, clients>>

(* Mutant: the events are not one-shot.                                    *)
EpollWaitLevel(t) ==
  /\ pc[t] = "loop" /\ todo[t] = {} /\ Ready # {}
  /\ todo' = [todo EXCEPT ![t] = Ready]
  /\ UNCHANGED <<tasks, pc, at, connfd, curfds, fd, reg, conn, stolen, network, clients>>

EpollWait(t) ==
  /\ pc[t] = "loop" /\ todo[t] = {} /\ Ready # {}
  /\ todo' = [todo EXCEPT ![t] = Ready]
  /\ reg' = [s \in Clients |-> IF s \in Fired
                               THEN [reg[s] EXCEPT !.armed = "no"] ELSE reg[s]]
  /\ UNCHANGED <<tasks, pc, at, connfd, curfds, fd, conn, stolen, network, clients>>

(* The next event of the batch, for the Connection it points to.           *)
Event(t, kind, c) ==
  /\ pc[t] = "loop" /\ <<kind, c>> \in todo[t]
  /\ todo' = [todo EXCEPT ![t] = @ \ {<<kind, c>>}]

Go(t, where, c, n) ==
  /\ pc' = [pc EXCEPT ![t] = where] /\ at' = [at EXCEPT ![t] = c]
  /\ connfd' = [connfd EXCEPT ![t] = n]
Back(t) == Go(t, "loop", None, 0)

-----------------------------------------------------------------------------
(* A connection error: close, delete, and only then EPOLL_CTL_DEL.         *)

ErrorEvent(t, c) ==
  /\ Event(t, "err", c) /\ Go(t, "del", None, conn[c].fd)
  /\ CloseFd(conn[c].fd, c)
  /\ conn' = [conn EXCEPT ![c] = None]
  /\ curfds' = [curfds EXCEPT ![t] = @ - 1]
  /\ UNCHANGED <<tasks, network, clients>>

DelAfterDelete(t) ==
  /\ pc[t] = "del" /\ Back(t)
  /\ EpollDel(connfd[t], None)
  /\ UNCHANGED <<tasks, todo, curfds, fd, conn, network, clients>>

(* A new connection; accept may find that another thread was faster, or    *)
(* that there is no descriptor left.                                       *)
Accept(t) ==
  /\ Event(t, "listen", None)
  /\ LET free == {n \in Descriptors : fd[n] = None} IN
     \/ /\ backlog # <<>> /\ free # {} /\ curfds[t] < MAX_EPOLL_SIZE
        /\ backlog' = Tail(backlog)
        /\ fd' = [fd EXCEPT ![Min(free)] = Head(backlog)]
        /\ conn' = [conn EXCEPT ![Head(backlog)] = ConnectionInit(Min(free))]
        /\ Go(t, "add", Head(backlog), Min(free)) /\ UNCHANGED peer
     \/ /\ backlog # <<>> /\ free # {} /\ curfds[t] >= MAX_EPOLL_SIZE
        /\ backlog' = Tail(backlog)
        /\ peer' = [peer EXCEPT ![Head(backlog)] = "refused"]
        /\ UNCHANGED <<fd, conn, pc, at, connfd>>
     \/ /\ backlog = <<>> \/ free = {}
        /\ UNCHANGED <<backlog, peer, fd, conn, pc, at, connfd>>
  /\ UNCHANGED <<tasks, curfds, reg, stolen, up, down, clients>>

AcceptAdd(t) ==
  /\ pc[t] = "add" /\ curfds' = [curfds EXCEPT ![t] = @ + 1]
  /\ LET c == at[t] s == fd[connfd[t]] IN
     IF s # None /\ reg[s] = None
     THEN /\ reg' = [reg EXCEPT ![s] = [ptr |-> c, armed |-> "in"]]
          /\ Steal(connfd[t], c) /\ Back(t)
     ELSE Go(t, "addfailed", c, connfd[t]) /\ UNCHANGED <<reg, stolen>>
  /\ UNCHANGED <<tasks, todo, fd, conn, network, clients>>

AddFailed(t) ==
  /\ pc[t] = "addfailed" /\ Back(t)
  /\ CloseFd(connfd[t], at[t])
  /\ UNCHANGED <<tasks, todo, curfds, conn, network, clients>>

-----------------------------------------------------------------------------
(* EPOLLIN: handleRead makes one read of what is missing of the length     *)
(* word or of the payload.                                                 *)

Wanted(c) == IF conn[c].state = "READ_DATA" THEN DataUnits - conn[c].inPtr
             ELSE LenUnits - conn[c].lenPtr

(* handle: parse the request, forget it, and prepare the response, which   *)
(* is a head and, for an object that was read, a payload.                  *)
Handle(k, size) ==
  [k EXCEPT !.state = "WRITE_DATA", !.lenPtr = 0, !.inPtr = 0, !.outLen = size]

(* INIT -> READ_LEN -> READ_DATA -> READ_DONE, where handle takes over.    *)
AfterRead(k, n, from, size) ==
  LET r == [k EXCEPT !.from = @ \cup from] IN
  IF k.state = "READ_DATA"
  THEN IF k.inPtr + n < DataUnits THEN [r EXCEPT !.inPtr = @ + n]
       ELSE Handle([r EXCEPT !.state = "READ_DONE"], size)
  ELSE [r EXCEPT !.lenPtr = @ + n,
                 !.state = IF k.lenPtr + n < LenUnits THEN "READ_LEN" ELSE "READ_DATA"]

Again(s) == s # None /\ up[s] = <<>> /\ peer[s] = "open"

HandleRead(t, c) ==
  /\ Event(t, "in", c)
  /\ LET s == fd[conn[c].fd] n == Min({Wanted(c), Len(up[s])}) IN
     /\ s # None /\ up[s] # <<>>
     /\ up' = [up EXCEPT ![s] = SubSeq(@, n + 1, Len(@))]
     /\ \E size \in 1..2 :
          conn' = [conn EXCEPT ![c] =
                     AfterRead(@, n, {up[s][i] : i \in 1..n}, size)]
     /\ Go(t, IF conn'[c].state = "WRITE_DATA" THEN "modout" ELSE "modin",
           c, conn[c].fd)
     /\ Steal(conn[c].fd, c)
  /\ UNCHANGED <<tasks, curfds, fd, reg, backlog, down, peer, clients>>

ReadAgain(t, c) ==
  /\ Event(t, "in", c) /\ Again(fd[conn[c].fd]) /\ Go(t, "modin", c, conn[c].fd)
  /\ Steal(conn[c].fd, c)
  /\ UNCHANGED <<tasks, curfds, fd, reg, conn, network, clients>>

(* End of file or an error: handleRead closes the descriptor, loop removes *)
(* it from epoll, closes it again and deletes the Connection.              *)
ReadFails(t, c) ==
  /\ Event(t, "in", c)
  /\ LET s == fd[conn[c].fd] IN s # None => up[s] = <<>> /\ ~Again(s)
  /\ CloseFd(conn[c].fd, c) /\ Go(t, "readdel", c, conn[c].fd)
  /\ UNCHANGED <<tasks, curfds, conn, network, clients>>

ReadFailsDel(t) ==
  /\ pc[t] = "readdel" /\ Go(t, "readclose", at[t], connfd[t])
  /\ EpollDel(connfd[t], at[t])
  /\ UNCHANGED <<tasks, todo, curfds, fd, conn, network, clients>>

ReadFailsClose(t) ==
  /\ pc[t] = "readclose" /\ Back(t)
  /\ CloseFd(connfd[t], at[t])
  /\ conn' = [conn EXCEPT ![at[t]] = None]
  /\ curfds' = [curfds EXCEPT ![t] = @ - 1]
  /\ UNCHANGED <<tasks, todo, network, clients>>

-----------------------------------------------------------------------------
(* EPOLLOUT: handleWrite writes some of the rest of the response.  A peer  *)
(* that has gone answers with a reset.                                     *)

(* Mutant: a Connection goes on where the last response ended.             *)
AfterWriteKeepsPtr(k, n) ==
  IF k.outPtr + n < k.outLen THEN [k EXCEPT !.outPtr = @ + n]
  ELSE [k EXCEPT !.state = "INIT", !.outLen = 0, !.from = {}]

(* WRITE_DATA -> WRITE_DONE, and with the buffer freed back to INIT.       *)
AfterWrite(k, n) ==
  IF k.outPtr + n < k.outLen THEN [k EXCEPT !.outPtr = @ + n]
  ELSE [k EXCEPT !.state = "INIT", !.outLen = 0, !.outPtr = 0, !.from = {}]

HandleWrite(t, c) ==
  /\ Event(t, "out", c)
  /\ LET s == fd[conn[c].fd] k == conn[c] IN
     \E n \in 1..(k.outLen - k.outPtr) :
       /\ s # None /\ peer[s] \in {"open", "shut"}
       /\ IF peer[s] = "open"
          THEN /\ down' = [down EXCEPT ![s] = @ \o
                    [i \in 1..n |-> <<k.from, k.outPtr + i, k.outLen>>]]
               /\ UNCHANGED peer
          ELSE peer' = [peer EXCEPT ![s] = "reset"] /\ UNCHANGED down
       /\ conn' = [conn EXCEPT ![c] = AfterWrite(k, n)]
       /\ Go(t, IF conn'[c].state = "INIT" THEN "modin" ELSE "modout", c, k.fd)
  /\ Steal(conn[c].fd, c)
  /\ UNCHANGED <<tasks, curfds, fd, reg, backlog, up, clients>>

(* handleWrite closes, loop closes again, deletes, and then EPOLL_CTL_DEL. *)
WriteFails(t, c) ==
  /\ Event(t, "out", c)
  /\ LET s == fd[conn[c].fd] IN
     s # None => peer[s] = "reset" \/ conn[c].outPtr >= conn[c].outLen
  /\ CloseFd(conn[c].fd, c) /\ Go(t, "writeclose", c, conn[c].fd)
  /\ UNCHANGED <<tasks, curfds, conn, network, clients>>

WriteFailsClose(t) ==
  /\ pc[t] = "writeclose" /\ Go(t, "del", None, connfd[t])
  /\ CloseFd(connfd[t], at[t])
  /\ conn' = [conn EXCEPT ![at[t]] = None]
  /\ curfds' = [curfds EXCEPT ![t] = @ - 1]
  /\ UNCHANGED <<tasks, todo, network, clients>>

(* Mutant: the event is always armed for reading.                          *)
RearmIn(t) ==
  /\ pc[t] \in {"modin", "modout"} /\ Back(t)
  /\ EpollMod(connfd[t], at[t], "in")
  /\ UNCHANGED <<tasks, todo, curfds, fd, conn, network, clients>>

(* The one-shot event is armed again, for reading or for writing.          *)
Rearm(t) ==
  /\ pc[t] \in {"modin", "modout"} /\ Back(t)
  /\ EpollMod(connfd[t], at[t], IF pc[t] = "modin" THEN "in" ELSE "out")
  /\ UNCHANGED <<tasks, todo, curfds, fd, conn, network, clients>>

Loop(t) ==
  \/ TakeTask(t) \/ EpollWait(t) \/ DelAfterDelete(t) \/ Accept(t) \/ AcceptAdd(t)
  \/ AddFailed(t) \/ ReadFailsDel(t) \/ ReadFailsClose(t) \/ WriteFailsClose(t)
  \/ Rearm(t)
  \/ \E c \in Clients :
       \/ ErrorEvent(t, c) \/ HandleRead(t, c) \/ ReadAgain(t, c) \/ ReadFails(t, c)
       \/ HandleWrite(t, c) \/ WriteFails(t, c)

-----------------------------------------------------------------------------
(* The clients.  A client connects, and for each request sends it whole    *)
(* (Request::write) and reads a response (Response::read).                 *)

ServerGone(c) ==
  /\ client[c] # "new" /\ \A i \in 1..Len(backlog) : backlog[i] # c
  /\ \A n \in Descriptors : fd[n] # c

Connect(c) ==
  /\ client[c] = "new" /\ client' = [client EXCEPT ![c] = "send"]
  /\ peer' = [peer EXCEPT ![c] = "open"] /\ backlog' = Append(backlog, c)
  /\ UNCHANGED <<server, up, down, sent, left>>

(* writen: what is sent to a closed socket vanishes.                       *)
Send(c) ==
  /\ client[c] = "send"
  /\ IF sent[c] + 1 < LenUnits + DataUnits
     THEN sent' = [sent EXCEPT ![c] = @ + 1] /\ UNCHANGED client
     ELSE sent' = [sent EXCEPT ![c] = 0] /\ client' = [client EXCEPT ![c] = "recv"]
  /\ up' = [up EXCEPT ![c] = IF ServerGone(c) THEN @ ELSE Append(@, c)]
  /\ UNCHANGED <<server, backlog, down, peer, left>>

(* A request is over with this status.                                     *)
Over(c, status) ==
  /\ left' = [left EXCEPT ![c] = @ - 1]
  /\ client' = [client EXCEPT ![c] = IF left[c] = 1 \/ status = "exception"
                                     THEN "done" ELSE "send"]
  /\ sent' = [sent EXCEPT ![c] = 0]

(* writen gives up when the connection is reset.                           *)
SendFails(c) ==
  /\ client[c] = "send" /\ ServerGone(c) /\ Over(c, "exception")
  /\ UNCHANGED <<server, network>>

(* Response::read takes the head (total length, length, status) and, if it *)
(* announces one, the payload.                                             *)
Receive(c) ==
  /\ client[c] \in {"recv", "payload"} /\ down[c] # <<>>
  /\ down' = [down EXCEPT ![c] = Tail(@)]
  /\ IF client[c] = "recv" /\ Head(down[c])[3] = 2
     THEN client' = [client EXCEPT ![c] = "payload"] /\ UNCHANGED <<sent, left>>
     ELSE Over(c, "ok")
  /\ UNCHANGED <<server, backlog, up, peer>>

(* The server has closed: recv reports an error, or the end of file.  At   *)
(* the end of file readn returns a short count which read does not notice  *)
(* in the head, so status keeps its initial value, RESP_OK, and len 0.     *)
ReceiveNothing(c) ==
  /\ client[c] \in {"recv", "payload"} /\ down[c] = <<>> /\ ServerGone(c)
  /\ \/ Over(c, "exception")
     \/ client[c] = "recv" /\ Over(c, "ok")
  /\ UNCHANGED <<server, network>>

(* The client's process ends, by itself or not; unread data make it reset. *)
Disconnect(c) ==
  /\ client[c] \notin {"new", "closed"}
  /\ client' = [client EXCEPT ![c] = "closed"]
  /\ peer' = [peer EXCEPT ![c] = IF down[c] = <<>> THEN "shut" ELSE "reset"]
  /\ up' = [up EXCEPT ![c] = IF down[c] = <<>> THEN @ ELSE <<>>]
  /\ down' = [down EXCEPT ![c] = <<>>]
  /\ UNCHANGED <<server, backlog, sent, left>>

Reads(c) == Receive(c) \/ ReceiveNothing(c)

Client(c) == Connect(c) \/ Send(c) \/ SendFails(c) \/ Reads(c) \/ Disconnect(c)

Next == Submit \/ (\E t \in Threads : Loop(t)) \/ (\E c \in Clients : Client(c))

(* Threads run; a client that waits for a response goes on reading.        *)
Fairness ==
  /\ WF_vars(Submit) /\ \A t \in Threads : WF_vars(Loop(t))
  /\ \A c \in Clients : WF_vars(Reads(c))

Spec == Init /\ [][Next]_vars /\ Fairness

-----------------------------------------------------------------------------
(* Holders of Connection c: a thread that handles it, one that has an      *)
(* event for it in its batch, an armed registration.                       *)
Holders(c) ==
  {t \in Threads : at[t] = c /\ pc[t] # "addfailed"}
    \cup {e \in Threads \X {"err", "in", "out"} : <<e[2], c>> \in todo[e[1]]}
    \cup {s \in Clients : reg[s] # None /\ reg[s].ptr = c /\ reg[s].armed # "no"}

(* EPOLLONESHOT gives a Connection to one thread at a time, so nobody      *)
(* touches one that is deleted, even when descriptors are confused.        *)
OneHandler ==
  \A c \in Clients : /\ Cardinality(Holders(c)) <= 1
                     /\ conn[c] = None => Holders(c) = {}

(* A client whose socket no other connection has hit reads the head and    *)
(* the payload of the responses to its own requests, in step with them.    *)
OwnResponse ==
  \A c \in Clients \ stolen : down[c] # <<>> =>
     /\ Head(down[c])[1] = {c}
     /\ client[c] = "recv" => Head(down[c])[2] = 1
     /\ client[c] = "payload" => Head(down[c])[2] = 2

(* A request that was sent whole is answered, unless the client leaves, is *)
(* refused, or loses its socket to another connection's second close.      *)
RequestServed ==
  \A c \in Clients : client[c] = "recv" ~>
     client[c] # "recv" \/ c \in stolen \/ peer[c] = "refused"
=============================================================================
