------------------------------ MODULE RpcClient ------------------------------
(***************************************************************************)
(* The client of go-gee-demo/gee-rpc/client.go: many goroutines share one  *)
(* connection, one goroutine receives.  Each member of Calls is one        *)
(* execution of Client.Call (Go, then the select on ctx.Done and Done).    *)
(*                                                                         *)
(* registerCall, removeCall and Close hold mu for their whole body and are *)
(* single actions; terminateCalls may block on a Done channel while it     *)
(* holds mu and sending, so both locks are modelled.                       *)
(***************************************************************************)
EXTENDS Naturals

CONSTANTS Calls,    \* executions of Client.Call
          MaxSeq,   \* bound on client.seq
          NoCall    \* a nil *Call

ASSUME RpcAssumption == MaxSeq \in Nat /\ NoCall \notin Calls

Receiver == "receive()"
Free     == "unlocked"

ASSUME LockAssumption == Receiver \notin Calls /\ Free \notin Calls

Seqs  == 1 .. MaxSeq
Wires == [seq : Seqs, call : Calls]

VARIABLES
  seq, pending, closing, shutdown,   \* Client
  sending, mu,                       \* holders of the two mutexes
  conn,                              \* "open", "hungup" by the peer, "closed"
  wire,                              \* requests the server has not answered
  CallSeq, Error, Reply, Done,       \* Call; Done is the length of its channel
  pc, found,                         \* caller: position, removeCall's result
  rpc, rhdr, rfail, rcall, rerr,     \* receive(): position, header, h.Error,
                                     \*   call, err # nil
  todo,                              \* calls terminateCalls has yet to finish
  completions                        \* history: number of done() per call

client   == <<seq, pending, closing, shutdown>>
locks    == <<sending, mu>>
network  == <<conn, wire>>
call     == <<CallSeq, Error, Reply, Done, completions>>
caller   == <<pc, found>>
receiver == <<rpc, rhdr, rfail, rcall, rerr, todo>>
vars     == <<client, locks, network, call, caller, receiver>>

CallerPCs   == {"start", "register", "write", "writeclose", "writeremove",
                "fail", "unlock", "select", "cancel", "returned"}
ReceiverPCs == {"header", "remove", "body", "done", "lock", "mark",
                "finish", "exited"}
Errors      == {"nil", "shutdown", "write", "server", "body", "read"}

Init ==
  /\ seq = 1 /\ pending = [s \in Seqs |-> NoCall]
  /\ closing = FALSE /\ shutdown = FALSE
  /\ sending = Free /\ mu = Free
  /\ conn = "open" /\ wire = {}
  /\ CallSeq = [k \in Calls |-> 0] /\ Error = [k \in Calls |-> "nil"]
  /\ Reply = [k \in Calls |-> NoCall] /\ Done = [k \in Calls |-> 0]
  /\ completions = [k \in Calls |-> 0]
  /\ pc = [k \in Calls |-> "start"] /\ found = [k \in Calls |-> FALSE]
  /\ rpc = "header" /\ rhdr = NoCall /\ rfail = FALSE
  /\ rcall = NoCall /\ rerr = FALSE /\ todo = {}

(* call.Done <- call: the channel of Client.Call has room for one.         *)
done(k) == /\ Done[k] = 0
           /\ Done' = [Done EXCEPT ![k] = 1]
           /\ completions' = [completions EXCEPT ![k] = @ + 1]

-----------------------------------------------------------------------------
(* send, by a caller.                                                      *)

SendLock(k) ==
  /\ pc[k] = "start" /\ sending = Free
  /\ sending' = k
  /\ pc' = [pc EXCEPT ![k] = "register"]
  /\ UNCHANGED <<client, mu, network, call, found, receiver>>

(* Mutant: registerCall looks at closing only.                             *)
RegisterClosingOnly(k) ==
  /\ pc[k] = "register" /\ mu = Free
  /\ IF closing
       THEN /\ Error' = [Error EXCEPT ![k] = "shutdown"]
            /\ pc' = [pc EXCEPT ![k] = "fail"]
            /\ UNCHANGED <<seq, pending, CallSeq>>
       ELSE /\ seq <= MaxSeq
            /\ CallSeq' = [CallSeq EXCEPT ![k] = seq]
            /\ seq' = seq + 1
            /\ pending' = [pending EXCEPT ![seq] = k]
            /\ pc' = [pc EXCEPT ![k] = "write"]
            /\ UNCHANGED Error
  /\ UNCHANGED <<closing, shutdown, locks, network, Reply, Done, completions,
                 found, receiver>>

registerCall(k) ==
  /\ pc[k] = "register" /\ mu = Free
  /\ IF closing \/ shutdown
       THEN /\ Error' = [Error EXCEPT ![k] = "shutdown"]
            /\ pc' = [pc EXCEPT ![k] = "fail"]
            /\ UNCHANGED <<seq, pending, CallSeq>>
       ELSE /\ seq <= MaxSeq
            /\ CallSeq' = [CallSeq EXCEPT ![k] = seq]
            /\ seq' = seq + 1
            /\ pending' = [pending EXCEPT ![seq] = k]
            /\ pc' = [pc EXCEPT ![k] = "write"]
            /\ UNCHANGED Error
  /\ UNCHANGED <<closing, shutdown, locks, network, Reply, Done, completions,
                 found, receiver>>

(* GobCodec.Write ignores the result of Flush: on a broken connection it   *)
(* returns nil and the request is lost.  When an Encode fails, what was    *)
(* encoded is flushed before the codec closes the connection.              *)
Write(k) ==
  /\ pc[k] = "write"
  /\ wire' = wire \cup (IF conn = "open" THEN {[seq |-> CallSeq[k], call |-> k]} ELSE {})
  /\ \/ pc' = [pc EXCEPT ![k] = "unlock"]
     \/ pc' = [pc EXCEPT ![k] = "writeclose"]
  /\ UNCHANGED <<client, locks, conn, call, found, receiver>>

WriteClose(k) ==
  /\ pc[k] = "writeclose"
  /\ conn' = "closed"
  /\ pc' = [pc EXCEPT ![k] = "writeremove"]
  /\ UNCHANGED <<client, locks, wire, call, found, receiver>>

(* Mutant: send finishes the call without asking whether it still had it.  *)
WriteRemoveUnasked(k) ==
  /\ pc[k] = "writeremove" /\ mu = Free
  /\ pending' = [pending EXCEPT ![CallSeq[k]] = NoCall]
  /\ Error' = [Error EXCEPT ![k] = "write"]
  /\ pc' = [pc EXCEPT ![k] = "fail"]
  /\ UNCHANGED <<seq, closing, shutdown, locks, network, CallSeq, Reply, Done,
                 completions, found, receiver>>

(* removeCall returns nil when the receiver has handled the response.      *)
WriteRemove(k) ==
  /\ pc[k] = "writeremove" /\ mu = Free
  /\ pending' = [pending EXCEPT ![CallSeq[k]] = NoCall]
  /\ IF pending[CallSeq[k]] # NoCall
       THEN /\ Error' = [Error EXCEPT ![k] = "write"]
            /\ pc' = [pc EXCEPT ![k] = "fail"]
       ELSE /\ pc' = [pc EXCEPT ![k] = "unlock"]
            /\ UNCHANGED Error
  /\ UNCHANGED <<seq, closing, shutdown, locks, network, CallSeq, Reply, Done,
                 completions, found, receiver>>

SendDone(k) ==
  /\ pc[k] = "fail" /\ done(k)
  /\ pc' = [pc EXCEPT ![k] = "unlock"]
  /\ UNCHANGED <<client, locks, network, CallSeq, Error, Reply, found, receiver>>

SendUnlock(k) ==
  /\ pc[k] = "unlock"
  /\ sending' = Free
  /\ pc' = [pc EXCEPT ![k] = "select"]
  /\ UNCHANGED <<client, mu, network, call, found, receiver>>

-----------------------------------------------------------------------------
(* The select of Call; ctx may be done at any time.                        *)

SelectDone(k) ==
  /\ pc[k] = "select" /\ Done[k] = 1
  /\ Done' = [Done EXCEPT ![k] = 0]
  /\ pc' = [pc EXCEPT ![k] = "returned"]
  /\ UNCHANGED <<client, locks, network, CallSeq, Error, Reply, completions, found,
                 receiver>>

SelectCtx(k) ==
  /\ pc[k] = "select"
  /\ pc' = [pc EXCEPT ![k] = "cancel"]
  /\ UNCHANGED <<client, locks, network, call, found, receiver>>

(* Mutant: a cancelled call stays in pending.                              *)
CancelKeepsCall(k) ==
  /\ pc[k] = "cancel" /\ mu = Free
  /\ found' = [found EXCEPT ![k] = CallSeq[k] # 0 /\ pending[CallSeq[k]] = k]
  /\ pc' = [pc EXCEPT ![k] = "returned"]
  /\ UNCHANGED <<client, locks, network, call, receiver>>

(* removeCall(call.CallSeq); CallSeq is 0, and never a key, if send failed early.  *)
CancelRemove(k) ==
  /\ pc[k] = "cancel" /\ mu = Free
  /\ pending' = IF CallSeq[k] = 0 THEN pending
                ELSE [pending EXCEPT ![CallSeq[k]] = NoCall]
  /\ found' = [found EXCEPT ![k] = CallSeq[k] # 0 /\ pending[CallSeq[k]] = k]
  /\ pc' = [pc EXCEPT ![k] = "returned"]
  /\ UNCHANGED <<seq, closing, shutdown, locks, network, call, receiver>>

Caller(k) == \/ SendLock(k) \/ registerCall(k) \/ Write(k) \/ WriteClose(k)
             \/ WriteRemove(k) \/ SendDone(k) \/ SendUnlock(k)
             \/ SelectDone(k) \/ CancelRemove(k)

-----------------------------------------------------------------------------
(* receive, by the one receiver.                                           *)

(* The server answers requests in any order, each at most once; what it    *)
(* sent before it hung up can still be read.                               *)
ReadHeader ==
  /\ rpc = "header" /\ conn # "closed"
  /\ \E m \in wire : wire' = wire \ {m} /\ rhdr' = m
  /\ rfail' \in BOOLEAN
  /\ rpc' = "remove"
  /\ UNCHANGED <<client, locks, conn, call, caller, rcall, rerr, todo>>

ReadHeaderFails ==
  /\ rpc = "header" /\ conn # "open"
  /\ rpc' = "lock"
  /\ UNCHANGED <<client, locks, network, call, caller, rhdr, rfail, rcall, rerr,
                 todo>>

(* Mutant: the receiver looks the call up and leaves it in the map.        *)
ReceiveLookup ==
  /\ rpc = "remove" /\ mu = Free
  /\ rcall' = pending[rhdr.seq]
  /\ rpc' = "body"
  /\ UNCHANGED <<client, locks, network, call, caller, rhdr, rfail, rerr, todo>>

ReceiveRemove ==
  /\ rpc = "remove" /\ mu = Free
  /\ rcall' = pending[rhdr.seq]
  /\ pending' = [pending EXCEPT ![rhdr.seq] = NoCall]
  /\ rpc' = "body"
  /\ UNCHANGED <<seq, closing, shutdown, locks, network, call, caller, rhdr,
                 rfail, rerr, todo>>

(* A body cannot be read when the connection broke after the header, but   *)
(* what is in the buffer still can; and gob may be unable to decode it     *)
(* into the type of call.Reply, on any connection.                         *)
BodyMayFail == conn # "open" \/ (rcall # NoCall /\ ~rfail)

(* Mutant: the error of a body that could not be read is forgotten.        *)
ReadBodyForgetsError ==
  /\ rpc = "body"
  /\ rerr' \in BOOLEAN /\ (rerr' => BodyMayFail)
  /\ IF rcall = NoCall
       THEN /\ rpc' = IF rerr' THEN "lock" ELSE "header"
            /\ UNCHANGED <<Error, Reply>>
       ELSE /\ rpc' = "done"
            /\ Error' = [Error EXCEPT ![rcall] = IF rfail THEN "server" ELSE @]
            /\ Reply' = IF rfail \/ rerr' THEN Reply
                        ELSE [Reply EXCEPT ![rcall] = rhdr.call]
  /\ UNCHANGED <<client, locks, network, CallSeq, Done, completions, caller, rhdr,
                 rfail, rcall, todo>>

(* Without a call, and for an error of the server, the body is discarded.  *)
ReadBody ==
  /\ rpc = "body"
  /\ rerr' \in BOOLEAN /\ (rerr' => BodyMayFail)
  /\ IF rcall = NoCall
       THEN /\ rpc' = IF rerr' THEN "lock" ELSE "header"
            /\ UNCHANGED <<Error, Reply>>
       ELSE /\ rpc' = "done"
            /\ Error' = [Error EXCEPT ![rcall] =
                           IF rfail THEN "server" ELSE IF rerr' THEN "body" ELSE @]
            /\ Reply' = IF rfail \/ rerr' THEN Reply
                        ELSE [Reply EXCEPT ![rcall] = rhdr.call]
  /\ UNCHANGED <<client, locks, network, CallSeq, Done, completions, caller, rhdr,
                 rfail, rcall, todo>>

ReceiveDone ==
  /\ rpc = "done" /\ done(rcall)
  /\ rpc' = IF rerr THEN "lock" ELSE "header"
  /\ UNCHANGED <<client, locks, network, CallSeq, Error, Reply, caller, rhdr, rfail,
                 rcall, rerr, todo>>

-----------------------------------------------------------------------------
(* terminateCalls, by the receiver, once.  pending is not emptied.         *)

(* sending, then mu, which nobody keeps while waiting for sending.         *)
TerminateLock ==
  /\ rpc = "lock" /\ sending = Free /\ mu = Free
  /\ sending' = Receiver /\ mu' = Receiver
  /\ rpc' = "mark"
  /\ UNCHANGED <<client, network, call, caller, rhdr, rfail, rcall, rerr, todo>>

TerminateMark ==
  /\ rpc = "mark"
  /\ shutdown' = TRUE
  /\ todo' = {k \in Calls : \E s \in Seqs : pending[s] = k}
  /\ rpc' = "finish"
  /\ UNCHANGED <<seq, pending, closing, locks, network, call, caller, rhdr,
                 rfail, rcall, rerr>>

TerminateDone(k) ==
  /\ rpc = "finish" /\ k \in todo /\ done(k)
  /\ Error' = [Error EXCEPT ![k] = "read"]
  /\ todo' = todo \ {k}
  /\ UNCHANGED <<client, locks, network, CallSeq, Reply, caller, rpc, rhdr, rfail,
                 rcall, rerr>>

TerminateUnlock ==
  /\ rpc = "finish" /\ todo = {}
  /\ sending' = Free /\ mu' = Free
  /\ rpc' = "exited"
  /\ UNCHANGED <<client, network, call, caller, rhdr, rfail, rcall, rerr, todo>>

terminateCalls == \/ TerminateLock \/ TerminateMark \/ TerminateUnlock
                  \/ \E k \in Calls : TerminateDone(k)

receive == \/ ReadHeader \/ ReadHeaderFails \/ ReceiveRemove \/ ReadBody
           \/ ReceiveDone \/ terminateCalls

-----------------------------------------------------------------------------
(* The user closes the client; a second Close returns ErrShutdown.         *)
Close ==
  /\ mu = Free /\ ~closing
  /\ closing' = TRUE /\ conn' = "closed"
  /\ UNCHANGED <<seq, pending, shutdown, locks, wire, call, caller, receiver>>

(* The server hangs up: requests it has not answered may stay unanswered.  *)
HangUp ==
  /\ conn = "open"
  /\ conn' = "hungup"
  /\ UNCHANGED <<client, locks, wire, call, caller, receiver>>

Next == \/ \E k \in Calls : Caller(k) \/ SelectCtx(k)
        \/ receive \/ Close \/ HangUp

Spec == Init /\ [][Next]_vars

(* Goroutines run.  Weak fairness is enough for the mutexes, as each call  *)
(* and the receiver take them a bounded number of times.  ReadHeader: the  *)
(* server answers what it has received.  Nothing forces ctx to be done,    *)
(* Close or a hang-up.                                                     *)
Fairness == WF_vars(receive) /\ \A k \in Calls : WF_vars(Caller(k))
FairSpec == Spec /\ Fairness

-----------------------------------------------------------------------------
(* Types of all variables.                                                 *)
TypeOK ==
  /\ seq \in 1 .. MaxSeq + 1 /\ pending \in [Seqs -> Calls \cup {NoCall}]
  /\ closing \in BOOLEAN /\ shutdown \in BOOLEAN
  /\ sending \in Calls \cup {Free, Receiver} /\ mu \in {Free, Receiver}
  /\ conn \in {"open", "hungup", "closed"} /\ wire \subseteq Wires
  /\ CallSeq \in [Calls -> 0 .. MaxSeq] /\ Error \in [Calls -> Errors]
  /\ Reply \in [Calls -> Calls \cup {NoCall}] /\ Done \in [Calls -> {0, 1}]
  /\ completions \in [Calls -> Nat]
  /\ pc \in [Calls -> CallerPCs] /\ found \in [Calls -> BOOLEAN]
  /\ rpc \in ReceiverPCs /\ rhdr \in Wires \cup {NoCall} /\ rfail \in BOOLEAN
  /\ rcall \in Calls \cup {NoCall} /\ rerr \in BOOLEAN /\ todo \subseteq Calls

(* done() is called at most once per call, whether the answer, the failed  *)
(* write or the broken connection comes first.                             *)
DoneOnce == \A k \in Calls : completions[k] <= 1

(* done() never blocks: send and terminateCalls call it holding the locks  *)
(* that every other goroutine of the client needs.                         *)
DoneNeverBlocks ==
  /\ rpc = "done" => Done[rcall] = 0
  /\ \A k \in todo : Done[k] = 0
  /\ \A k \in Calls : pc[k] = "fail" => Done[k] = 0

(* A call that returns without an error has the answer to its own request, *)
(* although answers come in any order and calls are cancelled meanwhile.   *)
OwnReply ==
  \A k \in Calls :
    /\ Reply[k] \in {k, NoCall}
    /\ pc[k] = "select" /\ Done[k] = 1 /\ Error[k] = "nil" => Reply[k] = k

(* Once the receiver is gone nobody waits for it: a call still in its      *)
(* select has been finished, and one that comes later is refused.          *)
NoOrphans ==
  rpc = "exited" =>
    \A k \in Calls : pc[k] \in {"write", "select"} => Done[k] = 1

(* A late answer is dropped: after a cancelled call has taken itself out   *)
(* of pending, neither the receiver nor terminateCalls touches it.         *)
LateAnswerDropped ==
  [][\A k \in Calls : pc[k] = "returned" /\ found[k] =>
       /\ Reply'[k] = Reply[k] /\ Error'[k] = Error[k]
       /\ completions'[k] = completions[k]]_vars

(* Every call returns, with no help from its context, if the server        *)
(* answers or the connection breaks.                                       *)
CallReturns == \A k \in Calls : pc[k] = "start" ~> pc[k] = "returned"
=============================================================================
