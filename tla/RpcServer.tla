------------------------------ MODULE RpcServer ------------------------------
(***************************************************************************)
(* One connection of the server of go-gee-demo/gee-rpc/server.go: the loop *)
(* of serveCodec, and for each request a handler goroutine (handleRequest) *)
(* and the worker goroutine it starts.                                     *)
(*                                                                         *)
(* The channels called and sent are unbuffered: a send and its receive are *)
(* one action.  A response is two messages of the codec, header and body;  *)
(* wire is what the codec has encoded to the connection, in order.  The    *)
(* services, arguments and replies are abstracted to whether a step        *)
(* succeeds; a body read as a header is taken not to decode.               *)
(***************************************************************************)
EXTENDS Naturals, Sequences, FiniteSets

CONSTANTS Requests,        \* the requests the client may send
          HandleTimeout,   \* does opt.HandleTimeout limit the handling?
          Nobody           \* holder of a free mutex

Senders == ({"loop", "handler", "worker"} \X Requests)

ASSUME MutexAssumption == Nobody \notin Senders

VARIABLES
  unread,      \* requests not yet read
  hungup,      \* the client has hung up
  closed,      \* conn.Close() has been called on our side
  misaligned,  \* the next thing on the stream is a body, not a header
  loop, lreq,  \* serveCodec: position, the request it answers itself
  handler,     \* handleRequest: position, by request
  worker,      \* its goroutine: position, by request
  failed,      \* requests whose method returned an error
  sending,     \* holder of the mutex
  wire

conn == <<unread, hungup, closed, misaligned>>
vars == <<conn, loop, lreq, handler, worker, failed, sending, wire>>

LoopPCs    == {"read", "send", "body", "wait", "returned"}
HandlerPCs == {"none", "select", "sent", "send", "body", "done"}
WorkerPCs  == {"none", "call", "called", "send", "body", "sent", "exited"}
Frames     == {"header", "body"} \X Requests

Init ==
  /\ unread = Requests /\ hungup = FALSE /\ closed = FALSE /\ misaligned = FALSE
  /\ loop = "read" /\ lreq \in Requests
  /\ handler = [r \in Requests |-> "none"]
  /\ worker = [r \in Requests |-> "none"]
  /\ failed = {} /\ sending = Nobody /\ wire = <<>>

-----------------------------------------------------------------------------
(* sendResponse: the mutex covers header and body.  A body that cannot be  *)
(* encoded makes the codec close the connection; the error is only logged. *)
(* Once the connection is broken the header may fail in the same way.      *)

(* Mutant: sendResponse does not take the mutex.                           *)
SendHeaderUnlocked(who, r) ==
  /\ sending' = <<who, r>>
  /\ wire' = Append(wire, <<"header", r>>)

SendHeader(who, r) ==
  /\ sending = Nobody
  /\ sending' = <<who, r>>
  /\ wire' = Append(wire, <<"header", r>>)

SendBody(who, r) ==
  /\ sending' = Nobody
  /\ \/ wire' = Append(wire, <<"body", r>>) /\ UNCHANGED closed
     \/ closed' = TRUE /\ UNCHANGED wire

SendFails ==
  /\ sending = Nobody /\ (hungup \/ closed)
  /\ closed' = TRUE /\ UNCHANGED <<sending, wire>>

-----------------------------------------------------------------------------
(* serveCodec.                                                             *)

(* readRequest succeeds: the handler is added to wg and started.           *)
ReadRequest(r) ==
  /\ loop = "read" /\ r \in unread /\ ~misaligned /\ ~closed
  /\ unread' = unread \ {r}
  /\ handler' = [handler EXCEPT ![r] = "select"]
  /\ worker' = [worker EXCEPT ![r] = "call"]
  /\ UNCHANGED <<hungup, closed, misaligned, loop, lreq, failed, sending, wire>>

(* The method is unknown: readRequest returns before it has read the body. *)
ReadUnknown(r) ==
  /\ loop = "read" /\ r \in unread /\ ~misaligned /\ ~closed
  /\ unread' = unread \ {r}
  /\ misaligned' = TRUE
  /\ lreq' = r /\ loop' = "send"
  /\ UNCHANGED <<hungup, closed, handler, worker, failed, sending, wire>>

(* The body does not decode into the method's argument.                    *)
ReadBadBody(r) ==
  /\ loop = "read" /\ r \in unread /\ ~misaligned /\ ~closed
  /\ unread' = unread \ {r}
  /\ lreq' = r /\ loop' = "send"
  /\ UNCHANGED <<hungup, closed, misaligned, handler, worker, failed, sending, wire>>

LoopSendHeader ==
  /\ loop = "send" /\ SendHeader("loop", lreq)
  /\ loop' = "body"
  /\ UNCHANGED <<conn, lreq, handler, worker, failed>>

LoopSendBody ==
  /\ loop = "body" /\ SendBody("loop", lreq)
  /\ loop' = "read"
  /\ UNCHANGED <<unread, hungup, misaligned, lreq, handler, worker, failed>>

LoopSendFails ==
  /\ loop = "send" /\ SendFails
  /\ loop' = "read"
  /\ UNCHANGED <<unread, hungup, misaligned, lreq, handler, worker, failed>>

(* readRequestHeader fails: end of the stream, or not a header.            *)
ReadFails ==
  /\ loop = "read" /\ (misaligned \/ closed \/ (hungup /\ unread = {}))
  /\ loop' = "wait"
  /\ UNCHANGED <<conn, lreq, handler, worker, failed, sending, wire>>

Active == {r \in Requests : handler[r] \notin {"none", "done"}}

(* Mutant: the connection is closed without waiting for the handlers.      *)
CloseWithoutWait ==
  /\ loop = "wait"
  /\ closed' = TRUE /\ loop' = "returned"
  /\ UNCHANGED <<unread, hungup, misaligned, lreq, handler, worker, failed,
                 sending, wire>>

(* wg.Wait() and cc.Close().                                               *)
WaitAndClose ==
  /\ loop = "wait" /\ Active = {}
  /\ closed' = TRUE /\ loop' = "returned"
  /\ UNCHANGED <<unread, hungup, misaligned, lreq, handler, worker, failed,
                 sending, wire>>

ServeCodec == \/ LoopSendHeader \/ LoopSendBody \/ LoopSendFails
              \/ ReadFails \/ WaitAndClose
              \/ \E r \in Requests :
                   ReadRequest(r) \/ ReadUnknown(r) \/ ReadBadBody(r)

-----------------------------------------------------------------------------
(* The worker of a request.                                                *)

MethodReturns(r) ==
  /\ worker[r] = "call"
  /\ worker' = [worker EXCEPT ![r] = "called"]
  /\ failed' \in {failed, failed \cup {r}}
  /\ UNCHANGED <<conn, loop, lreq, handler, sending, wire>>

WorkerSendHeader(r) ==
  /\ worker[r] = "send" /\ SendHeader("worker", r)
  /\ worker' = [worker EXCEPT ![r] = "body"]
  /\ UNCHANGED <<conn, loop, lreq, handler, failed>>

(* After an error response the worker returns without sending on sent.     *)
WorkerSendBody(r) ==
  /\ worker[r] = "body" /\ SendBody("worker", r)
  /\ worker' = [worker EXCEPT ![r] = IF r \in failed THEN "exited" ELSE "sent"]
  /\ UNCHANGED <<unread, hungup, misaligned, loop, lreq, handler, failed>>

WorkerSendFails(r) ==
  /\ worker[r] = "send" /\ SendFails
  /\ worker' = [worker EXCEPT ![r] = IF r \in failed THEN "exited" ELSE "sent"]
  /\ UNCHANGED <<unread, hungup, misaligned, loop, lreq, handler, failed>>

-----------------------------------------------------------------------------
(* handleRequest.                                                          *)

(* Mutant: a worker finds called buffered and goes on after the timeout.   *)
CalledBuffered(r) ==
  /\ worker[r] = "called"
  /\ worker' = [worker EXCEPT ![r] = "send"]
  /\ handler' = [handler EXCEPT ![r] = IF @ = "select" THEN "sent" ELSE @]
  /\ UNCHANGED <<conn, loop, lreq, failed, sending, wire>>

(* The worker's send on called meets the handler's receive.                *)
Called(r) ==
  /\ worker[r] = "called" /\ handler[r] = "select"
  /\ worker' = [worker EXCEPT ![r] = "send"]
  /\ handler' = [handler EXCEPT ![r] = "sent"]
  /\ UNCHANGED <<conn, loop, lreq, failed, sending, wire>>

Sent(r) ==
  /\ worker[r] = "sent" /\ handler[r] = "sent"
  /\ worker' = [worker EXCEPT ![r] = "exited"]
  /\ handler' = [handler EXCEPT ![r] = "done"]
  /\ UNCHANGED <<conn, loop, lreq, failed, sending, wire>>

(* Mutant: a timeout is dropped when the method is not running any more.   *)
TimeoutForgotten(r) ==
  /\ HandleTimeout /\ handler[r] = "select"
  /\ handler' = [handler EXCEPT ![r] = "done"]
  /\ UNCHANGED <<conn, loop, lreq, worker, failed, sending, wire>>

(* The timeout comes first; the worker will wait for ever on called.       *)
Timeout(r) ==
  /\ HandleTimeout /\ handler[r] = "select"
  /\ handler' = [handler EXCEPT ![r] = "send"]
  /\ UNCHANGED <<conn, loop, lreq, worker, failed, sending, wire>>

HandlerSendHeader(r) ==
  /\ handler[r] = "send" /\ SendHeader("handler", r)
  /\ handler' = [handler EXCEPT ![r] = "body"]
  /\ UNCHANGED <<conn, loop, lreq, worker, failed>>

HandlerSendBody(r) ==
  /\ handler[r] = "body" /\ SendBody("handler", r)
  /\ handler' = [handler EXCEPT ![r] = "done"]
  /\ UNCHANGED <<unread, hungup, misaligned, loop, lreq, worker, failed>>

HandlerSendFails(r) ==
  /\ handler[r] = "send" /\ SendFails
  /\ handler' = [handler EXCEPT ![r] = "done"]
  /\ UNCHANGED <<unread, hungup, misaligned, loop, lreq, worker, failed>>

HandleRequest(r) ==
  \/ Called(r) \/ Sent(r) \/ Timeout(r)
  \/ WorkerSendHeader(r) \/ WorkerSendBody(r) \/ WorkerSendFails(r)
  \/ HandlerSendHeader(r) \/ HandlerSendBody(r) \/ HandlerSendFails(r)

-----------------------------------------------------------------------------
(* The client sends no more requests than Requests and hangs up any time.  *)
HangUp ==
  /\ ~hungup
  /\ hungup' = TRUE /\ unread' \in SUBSET unread
  /\ UNCHANGED <<closed, misaligned, loop, lreq, handler, worker, failed,
                 sending, wire>>

Next == \/ ServeCodec \/ HangUp
        \/ \E r \in Requests : HandleRequest(r) \/ MethodReturns(r)

Spec == Init /\ [][Next]_vars

(* Goroutines run and timers fire; methods need not return.  Weak fairness *)
(* is enough for the mutex, as each goroutine takes it at most once for a  *)
(* request.                                                                *)
Fairness == WF_vars(ServeCodec) /\ \A r \in Requests : WF_vars(HandleRequest(r))
FairSpec == Spec /\ Fairness

(* In addition every method returns.                                       *)
MethodsReturnSpec == FairSpec /\ \A r \in Requests : WF_vars(MethodReturns(r))

-----------------------------------------------------------------------------
(* Types of all variables; a request has a handler and a worker from the   *)
(* moment it has been read.                                                *)
TypeOK ==
  /\ unread \subseteq Requests /\ hungup \in BOOLEAN /\ closed \in BOOLEAN
  /\ misaligned \in BOOLEAN /\ loop \in LoopPCs /\ lreq \in Requests
  /\ handler \in [Requests -> HandlerPCs] /\ worker \in [Requests -> WorkerPCs]
  /\ failed \subseteq Requests /\ sending \in Senders \cup {Nobody}
  /\ wire \in Seq(Frames)
  /\ \A r \in Requests : /\ handler[r] = "none" <=> worker[r] = "none"
                         /\ r \in unread => handler[r] = "none"

(* Header and body of a response are adjacent on the connection, whichever *)
(* goroutines answer at the same time; only a body that cannot be encoded  *)
(* is missing.                                                             *)
FramesWhole ==
  \A i \in 1 .. Len(wire) :
    wire[i][1] = "body" => i > 1 /\ wire[i-1] = <<"header", wire[i][2]>>

(* A request is answered at most once, also when its method returns at the *)
(* moment its timeout fires.                                               *)
OneResponse ==
  \A i, j \in 1 .. Len(wire) : wire[i] = wire[j] => i = j

(* Nothing is written to the connection after serveCodec has closed it,    *)
(* not even by the workers of requests that timed out.                     *)
NothingAfterClose ==
  loop = "returned" =>
    /\ sending = Nobody
    /\ \A r \in Requests : /\ worker[r] \notin {"send", "body"}
                           /\ handler[r] \notin {"select", "send", "body"}

Answered(r) == \E i \in 1 .. Len(wire) : wire[i] = <<"header", r>>

(* Every request that has been read is answered unless the connection      *)
(* breaks, with a timeout even if its method never returns.                *)
EveryRequestAnswered ==
  \A r \in Requests : handler[r] = "select" ~> Answered(r) \/ closed

(* "ServeConn blocks, serving the connection until the client hangs up."   *)
(* It stops reading only when the client has hung up (or the connection    *)
(* was closed after a failed write), ...                                   *)
ServesUntilHangUp == loop \in {"wait", "returned"} => hungup \/ closed
(* ... and it returns once the client has.                                 *)
ServeConnReturns == hungup ~> loop = "returned"
=============================================================================
