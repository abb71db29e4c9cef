-------------------------------- MODULE Chat --------------------------------
(***************************************************************************)
(* The chat of network/server.c and network/client.c.  The main thread of  *)
(* the server gives the places of clientList out in turn, closing the      *)
(* connection that still has the place, and starts a thread per client.    *)
(* A thread answers the requests of its client, and forwards messages by   *)
(* writing to the descriptor of another one.                               *)
(*                                                                         *)
(* A connection is named by its client: a client has one socket and can    *)
(* connect it once.  Descriptors are numbers that accept reuses, lowest    *)
(* first, while a recv that has begun keeps the connection it began on.    *)
(* Packets are sent at once: the socket buffers hold many of them.  The    *)
(* 50 bytes of EXIT are a piece, too short for a request.                  *)
(***************************************************************************)
EXTENDS Integers, Sequences, FiniteSets, FiniteSetsExt

CONSTANTS NumClients, Descriptors,
          Sizes,        \* the values of MAXNUMOFCONNECT to look at
          MaxRequests   \* bound on the requests of all clients

Clients == 1..NumClients   \* numbered in the order in which they connect
NoClient == 0

VARIABLES
  server,      \* is the server process running?
  count,       \* the place given out last
  clientList,  \* the connectfd of each place, or -1
  occupant,    \* the client that was given the place last
  file,        \* the connection each descriptor of the server leads to
  accepted,    \* how many connections accept has returned
  incoming,    \* the descriptor accept returned, until its place is filled
  thread,      \* the thread started for each client
  evicted,     \* clients whose connection main has closed
  proc,        \* the client processes: idle, connected or over
  up, down,    \* what is on its way to the server, and to each client
  reset,       \* connections the client's side has reset
  requests     \* requests made

MAXNUMOFCONNECT == Cardinality(DOMAIN clientList)

vars == <<server, count, clientList, occupant, file, accepted, incoming, thread,
          evicted, proc, up, down, reset, requests>>
mainVars == <<count, occupant, accepted, incoming, evicted>>
clientVars == <<proc, requests>>

NoThread == [pc |-> "none", id |-> 0, fd |-> -1, recv |-> NoClient, short |-> FALSE,
             asker |-> NoClient, to |-> -1, target |-> -1, for |-> NoClient]

Init ==
  /\ server = TRUE /\ count = -1
  /\ clientList \in {[s \in 0..n - 1 |-> -1] : n \in Sizes}
  /\ occupant = [s \in DOMAIN clientList |-> NoClient]
  /\ file = [d \in Descriptors |-> NoClient]
  /\ accepted = 0 /\ incoming = -1
  /\ thread = [c \in Clients |-> NoThread] /\ evicted = {}
  /\ proc = [c \in Clients |-> "idle"]
  /\ up = [c \in Clients |-> <<>>] /\ down = [c \in Clients |-> <<>>]
  /\ reset = {} /\ requests = 0

Leads(fd) == IF fd = -1 THEN NoClient ELSE file[fd]

(* The server has let go of the connection: no descriptor leads to it and  *)
(* no recv is still using it.                                              *)
Gone(c) ==
  \/ ~server
  \/ /\ thread[c].pc # "none"
     /\ \A d \in Descriptors : file[d] # c
     /\ \A t \in Clients : thread[t].recv # c

-----------------------------------------------------------------------------
(* The main thread of the server.                                          *)

Accept ==
  /\ server /\ incoming = -1
  /\ accepted < NumClients /\ accepted' = accepted + 1 /\ proc[accepted'] # "idle"
  /\ LET free == {d \in Descriptors : file[d] = NoClient}
         fd   == Min(free)
         next == (count + 1) % MAXNUMOFCONNECT
         old  == clientList[next]
         new  == [file EXCEPT ![fd] = accepted']
     IN  /\ free # {}
         /\ count' = next /\ incoming' = fd
         /\ IF old = -1 THEN file' = new /\ UNCHANGED evicted
            ELSE file' = [new EXCEPT ![old] = NoClient] /\ evicted' = evicted \cup {file[old]}
  /\ UNCHANGED <<server, clientList, occupant, thread, clientVars, up, down, reset>>

(* Fills the place and starts the thread, telling it the place.            *)
Fill ==
  /\ server /\ incoming # -1 /\ incoming' = -1
  /\ clientList' = [clientList EXCEPT ![count] = incoming]
  /\ occupant' = [occupant EXCEPT ![count] = file[incoming]]
  /\ thread' = [thread EXCEPT ![file[incoming]].pc = "start", ![file[incoming]].id = count]
  /\ UNCHANGED <<server, count, file, accepted, evicted, clientVars, up, down, reset>>

-----------------------------------------------------------------------------
(* threadFunc of the thread t.                                             *)

(* Mutant: the thread is told the counter, not its place.                  *)
ThreadStartsByCount(t) ==
  /\ server /\ thread[t].pc = "start"
  /\ thread' = [thread EXCEPT ![t].pc = "call", ![t].id = count, ![t].fd = clientList[count]]
  /\ UNCHANGED <<server, mainVars, clientList, file, clientVars, up, down, reset>>

ThreadStarts(t) ==
  /\ server /\ thread[t].pc = "start"
  /\ thread' = [thread EXCEPT ![t].pc = "call", ![t].fd = clientList[thread[t].id]]
  /\ UNCHANGED <<server, mainVars, clientList, file, clientVars, up, down, reset>>

(* Mutant: the thread closes its descriptor.                               *)
GiveUpCloses(t) ==
  /\ clientList' = [clientList EXCEPT ![thread[t].id] = -1]
  /\ thread' = [thread EXCEPT ![t] = [NoThread EXCEPT !.pc = "end", !.id = thread[t].id]]
  /\ file' = [d \in Descriptors |-> IF d = thread[t].fd THEN NoClient ELSE file[d]]

(* The request could not be received: the thread gives its place back and  *)
(* ends.  It closes no descriptor.                                         *)
GiveUp(t) ==
  /\ clientList' = [clientList EXCEPT ![thread[t].id] = -1]
  /\ thread' = [thread EXCEPT ![t] = [NoThread EXCEPT !.pc = "end", !.id = thread[t].id]]
  /\ UNCHANGED file

Recv(t) ==
  /\ server /\ thread[t].pc = "call"
  /\ LET c == Leads(thread[t].fd) IN
     IF c = NoClient THEN GiveUp(t)
     ELSE /\ thread' = [thread EXCEPT ![t].pc = "recv", ![t].recv = c]
          /\ UNCHANGED <<clientList, file>>
  /\ UNCHANGED <<server, mainVars, clientVars, up, down, reset>>

(* recv returns.  After a piece the next request of the stream is cut: its *)
(* end stays behind as a piece.                                            *)
Returned(t, pc, to) ==
  thread' = [thread EXCEPT ![t].pc = pc, ![t].recv = NoClient, ![t].short = pc = "call",
                           ![t].to = to, ![t].asker = IF pc = "call" THEN NoClient ELSE thread[t].recv]

RecvReturns(t) ==
  LET c == thread[t].recv IN
  /\ server /\ thread[t].pc = "recv"
  /\ \/ /\ up[c] # <<>>
        /\ LET item == Head(up[c]) IN
           IF item = <<"piece">> THEN Returned(t, "call", -1) /\ up' = [up EXCEPT ![c] = Tail(@)]
           ELSE IF thread[t].short
           THEN Returned(t, "respond", -1) /\ up' = [up EXCEPT ![c] = <<<<"piece">>>> \o Tail(@)]
           ELSE /\ up' = [up EXCEPT ![c] = Tail(@)]
                /\ Returned(t, IF item = <<"ask">> THEN "respond" ELSE "message",
                            IF item = <<"ask">> THEN -1 ELSE item[2])
        /\ UNCHANGED <<clientList, file>>
     \/ up[c] = <<>> /\ proc[c] # "connected" /\ GiveUp(t) /\ UNCHANGED up
  /\ UNCHANGED <<server, mainVars, clientVars, down, reset>>

(* send: to a client that has gone the first packet brings a reset, and    *)
(* one after that an error or SIGPIPE, which ends the server.              *)
Send(fd, for) ==
  LET c == Leads(fd) IN
  \/ c = NoClient /\ UNCHANGED <<server, down, reset>>
  \/ /\ c # NoClient /\ proc[c] = "connected"
     /\ down' = [down EXCEPT ![c] = Append(@, for)] /\ UNCHANGED <<server, reset>>
  \/ /\ c # NoClient /\ proc[c] # "connected" /\ c \notin reset
     /\ reset' = reset \cup {c} /\ UNCHANGED <<server, down>>
  \/ c \in reset /\ server' \in BOOLEAN /\ UNCHANGED <<down, reset>>

(* messageResponse, up to the send: the place is looked at twice.          *)
MessageChecked(t) ==
  /\ server /\ thread[t].pc = "message"
  /\ LET ok == thread[t].to < MAXNUMOFCONNECT /\ clientList[thread[t].to] # -1 IN
     thread' = [thread EXCEPT ![t].pc = IF ok THEN "target" ELSE "respond",
                              ![t].to = IF ok THEN @ ELSE -1]
  /\ UNCHANGED <<server, mainVars, clientList, file, clientVars, up, down, reset>>

MessageTarget(t) ==
  /\ server /\ thread[t].pc = "target"
  /\ thread' = [thread EXCEPT ![t].pc = "forward", ![t].target = clientList[thread[t].to],
                              ![t].for = occupant[thread[t].to]]
  /\ UNCHANGED <<server, mainVars, clientList, file, clientVars, up, down, reset>>

Forward(t) ==
  /\ server /\ thread[t].pc = "forward" /\ Send(thread[t].target, thread[t].for)
  /\ thread' = [thread EXCEPT ![t].pc = "respond", ![t].to = -1, ![t].target = -1,
                              ![t].for = NoClient]
  /\ UNCHANGED <<mainVars, clientList, file, clientVars, up>>

Respond(t) ==
  /\ server /\ thread[t].pc = "respond" /\ Send(thread[t].fd, thread[t].asker)
  /\ thread' = [thread EXCEPT ![t].pc = "call", ![t].asker = NoClient]
  /\ UNCHANGED <<mainVars, clientList, file, clientVars, up>>

Serve(t) ==
  \/ ThreadStarts(t) \/ Recv(t) \/ RecvReturns(t)
  \/ MessageChecked(t) \/ MessageTarget(t) \/ Forward(t) \/ Respond(t)

-----------------------------------------------------------------------------
(* The client c: its menu, and the thread that receives.                   *)

serverVars == <<server, count, clientList, occupant, file, accepted, incoming, thread,
                evicted>>

connectToServer(c) ==
  /\ proc[c] = "idle" /\ server
  /\ c > 1 => proc[c - 1] # "idle"
  /\ proc' = [proc EXCEPT ![c] = "connected"]
  /\ UNCHANGED <<serverVars, up, down, reset, requests>>

(* Sends EXIT and closes the socket, with a reset if packets are unread.   *)
(* The client is over: the socket cannot be connected again, and unless it *)
(* is just looking at currentStatus the receiving thread, whose inner loop *)
(* only looks at recv, finds it closed and ends the whole process.  Option *)
(* 7 of the menu does the same.                                            *)
disconnectFromServer(c) ==
  /\ proc[c] = "connected" /\ proc' = [proc EXCEPT ![c] = "over"]
  /\ up' = [up EXCEPT ![c] = Append(@, <<"piece">>)] /\ down' = [down EXCEPT ![c] = <<>>]
  /\ reset' = IF down[c] = <<>> THEN reset ELSE reset \cup {c}
  /\ UNCHANGED <<serverVars, requests>>

Request(c, item) ==
  /\ proc[c] = "connected" /\ requests < MaxRequests /\ requests' = requests + 1
  /\ up' = [up EXCEPT ![c] = Append(@, item)]
  /\ UNCHANGED <<serverVars, proc, down, reset>>

(* getTimeFromServer, getNameFromServer and getClientsFromServer.          *)
Ask(c) == Request(c, <<"ask">>)

sendMsgToAnotherClient(c) == \E id \in 0..MAXNUMOFCONNECT : Request(c, <<"message", id>>)

(* The receiving thread takes a packet.  The end of the stream counts as a *)
(* packet of zeros, over and over again, and changes nothing.              *)
Receive(c) ==
  /\ proc[c] = "connected" /\ down[c] # <<>> /\ down' = [down EXCEPT ![c] = Tail(@)]
  /\ UNCHANGED <<serverVars, proc, up, reset, requests>>

(* The server's side reset the connection: recv fails, and the thread ends *)
(* the process.                                                            *)
ReceiveFails(c) ==
  /\ proc[c] = "connected" /\ Gone(c) /\ up[c] # <<>> /\ down[c] = <<>>
  /\ proc' = [proc EXCEPT ![c] = "over"]
  /\ UNCHANGED <<serverVars, up, down, reset, requests>>

User(c) ==
  \/ connectToServer(c) \/ disconnectFromServer(c) \/ Ask(c)
  \/ sendMsgToAnotherClient(c) \/ Receive(c) \/ ReceiveFails(c)

Next == Accept \/ Fill \/ \E c \in Clients : Serve(c) \/ User(c)

Spec == Init /\ [][Next]_vars

-----------------------------------------------------------------------------
(* A client receives answers to its own requests, and messages sent to the *)
(* place it was given last; what was meant for another client reaches it   *)
(* only when main has closed that client's connection.                     *)
MeantForMe ==
  \A c \in Clients : \A i \in 1..Len(down[c]) : down[c][i] \in {c} \cup evicted

(* While its thread is at work a client keeps the place it was given, and  *)
(* the thread its connection, unless main has closed it, or the connection *)
(* that had the place before: the thread of that one then takes it away.   *)
PlaceKept ==
  \A c \in Clients \ evicted :
    LET t == thread[c] IN
    t.pc \in {"call", "recv", "respond", "message", "target", "forward"} =>
      \/ \E e \in evicted : thread[e].id = t.id
      \/ Leads(t.fd) = c /\ clientList[t.id] = t.fd
=============================================================================
