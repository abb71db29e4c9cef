--------------------------- MODULE RpcServerProofs ---------------------------
(***************************************************************************)
(* Proofs about RpcServer, for any set of requests, with or without a      *)
(* handling timeout.  The invariant has two halves.  The goroutines: who   *)
(* holds sending, and which positions of handler, worker and loop go       *)
(* together, so that at most one of them is entitled to answer a request.  *)
(* The wire: what was sent is whole, and what is still to be answered has  *)
(* not been sent.  They meet in WireStep, which says how a step may extend *)
(* the wire.                                                               *)
(***************************************************************************)
EXTENDS RpcServer, TLAPS

(* The request r may still be answered.                                    *)
Unanswered(r) ==
  \/ r \in unread
  \/ loop = "send" /\ lreq = r
  \/ handler[r] \in {"select", "send"}
  \/ worker[r] = "send"

(* Whoever holds sending has just written the header of its response.      *)
LockInv ==
  /\ \A r \in Requests :
       /\ sending = <<"loop", r>> <=> loop = "body" /\ lreq = r
       /\ sending = <<"worker", r>> <=> worker[r] = "body"
       /\ sending = <<"handler", r>> <=> handler[r] = "body"

(* The worker answers only when the handler has let it, and the loop only  *)
(* what has no handler; when serveCodec has returned no handler is left.   *)
PairInv ==
  \A r \in Requests :
    /\ handler[r] \in {"select", "send", "body"} => worker[r] \in {"call", "called"}
    /\ worker[r] \in {"send", "body", "sent"} => handler[r] = "sent"
    /\ loop \in {"send", "body"} /\ lreq = r => handler[r] = "none" /\ r \notin unread
    /\ loop = "returned" => handler[r] \in {"none", "done"}

HeaderLast ==
  \A who \in {"loop", "handler", "worker"}, r \in Requests :
    sending = <<who, r>> => wire # <<>> /\ wire[Len(wire)] = <<"header", r>>

HeadersOnce ==
  /\ \A r \in Requests : Unanswered(r) =>
       \A i \in 1 .. Len(wire) : wire[i] # <<"header", r>>
  /\ \A r \in Requests : \A i, j \in 1 .. Len(wire) :
       wire[i] = <<"header", r>> /\ wire[j] = <<"header", r>> => i = j

GoInv == TypeOK /\ LockInv /\ PairInv
WireInv == HeaderLast /\ HeadersOnce /\ FramesWhole
Inv == GoInv /\ WireInv

(* How a step may extend the wire.                                         *)
WriteHeader(r) ==
  /\ wire' = Append(wire, <<"header", r>>)
  /\ Unanswered(r) /\ ~Unanswered(r)'
  /\ \E who \in {"loop", "handler", "worker"} : sending' = <<who, r>>
WriteBody(r) ==
  /\ wire' = Append(wire, <<"body", r>>)
  /\ \E who \in {"loop", "handler", "worker"} : sending = <<who, r>>
  /\ sending' = Nobody
WireStep ==
  /\ \/ UNCHANGED wire /\ sending' \in {sending, Nobody}
     \/ \E r \in Requests : WriteHeader(r) \/ WriteBody(r)
  /\ \A r \in Requests : Unanswered(r)' => Unanswered(r)

-----------------------------------------------------------------------------
(* The invariant holds when the connection is new.                         *)
LEMMA InvInit ==
  ASSUME Init
  PROVE  Inv
<1>1. TypeOK
  <2>1. /\ unread \subseteq Requests /\ failed \subseteq Requests
        /\ sending \in Senders \cup {Nobody} /\ lreq \in Requests
    BY DEF Init
  <2>2. hungup \in BOOLEAN /\ closed \in BOOLEAN /\ misaligned \in BOOLEAN
    BY DEF Init
  <2>3. wire \in Seq(Frames)
    BY DEF Init
  <2>4. /\ loop \in LoopPCs
        /\ handler \in [Requests -> HandlerPCs] /\ worker \in [Requests -> WorkerPCs]
        /\ \A r \in Requests : handler[r] = "none" /\ worker[r] = "none"
    BY DEF Init, LoopPCs, HandlerPCs, WorkerPCs
  <2> QED BY <2>1, <2>2, <2>3, <2>4 DEF TypeOK
<1>2. LockInv /\ PairInv
  BY MutexAssumption DEF Init, LockInv, PairInv, Senders
<1>3. WireInv
  BY MutexAssumption DEF Init, WireInv, HeaderLast, HeadersOnce, FramesWhole, Senders
<1> QED BY <1>1, <1>2, <1>3 DEF Inv, GoInv

(* What is written keeps the wire in order, however it is written.         *)
LEMMA WireInvStep ==
  ASSUME Inv, WireStep
  PROVE  WireInv'
<1>1. wire \in Seq(Frames) /\ Len(wire) \in Nat
  BY DEF Inv, GoInv, TypeOK
<1>2. CASE UNCHANGED wire /\ sending' \in {sending, Nobody}
  <2>1. HeaderLast'
    BY <1>2, MutexAssumption DEF Inv, WireInv, HeaderLast, Senders
  <2>2. HeadersOnce'
    BY <1>2 DEF Inv, WireInv, HeadersOnce, WireStep
  <2>3. FramesWhole'
    BY <1>2 DEF Inv, WireInv, FramesWhole
  <2> QED BY <2>1, <2>2, <2>3 DEF WireInv
<1>3. ASSUME NEW r \in Requests, WriteHeader(r)
      PROVE  WireInv'
  <2>1. /\ wire' = Append(wire, <<"header", r>>) /\ Len(wire') = Len(wire) + 1
        /\ wire'[Len(wire) + 1] = <<"header", r>>
        /\ \A i \in 1 .. Len(wire) : wire'[i] = wire[i]
    BY <1>1, <1>3 DEF WriteHeader, Frames
  <2>2. HeaderLast'
    BY <1>1, <1>3, <2>1 DEF WriteHeader, HeaderLast
  <2>3. HeadersOnce'
    <3>1. ASSUME NEW q \in Requests, Unanswered(q)', NEW i \in 1 .. Len(wire')
          PROVE  wire'[i] # <<"header", q>>
      <4>1. Unanswered(q) /\ q # r
        BY <1>3, <3>1 DEF WireStep, WriteHeader
      <4>2. CASE i = Len(wire) + 1
        BY <2>1, <4>1, <4>2
      <4>3. CASE i \in 1 .. Len(wire)
        BY <2>1, <4>1, <4>3 DEF Inv, WireInv, HeadersOnce
      <4> QED BY <1>1, <2>1, <4>2, <4>3
    <3>2. ASSUME NEW q \in Requests, NEW i \in 1 .. Len(wire'), NEW j \in 1 .. Len(wire'),
                 wire'[i] = <<"header", q>>, wire'[j] = <<"header", q>>
          PROVE  i = j
      <4>1. \A k \in 1 .. Len(wire) : wire[k] # <<"header", r>>
        BY <1>3 DEF WriteHeader, Inv, WireInv, HeadersOnce
      <4>2. CASE i \in 1 .. Len(wire) /\ j \in 1 .. Len(wire)
        BY <2>1, <3>2, <4>2 DEF Inv, WireInv, HeadersOnce
      <4>3. CASE i = Len(wire) + 1
        <5>1. q = r
          BY <2>1, <3>2, <4>3
        <5> QED BY <1>1, <2>1, <3>2, <4>1, <4>3, <5>1
      <4>4. CASE j = Len(wire) + 1
        <5>1. q = r
          BY <2>1, <3>2, <4>4
        <5> QED BY <1>1, <2>1, <3>2, <4>1, <4>4, <5>1
      <4> QED BY <1>1, <2>1, <4>2, <4>3, <4>4
    <3> QED BY <3>1, <3>2 DEF HeadersOnce
  <2>4. FramesWhole'
    BY <1>1, <2>1 DEF Inv, WireInv, FramesWhole
  <2> QED BY <2>2, <2>3, <2>4 DEF WireInv
<1>4. ASSUME NEW r \in Requests, WriteBody(r)
      PROVE  WireInv'
  <2>1. /\ wire' = Append(wire, <<"body", r>>) /\ Len(wire') = Len(wire) + 1
        /\ wire'[Len(wire) + 1] = <<"body", r>>
        /\ \A i \in 1 .. Len(wire) : wire'[i] = wire[i]
    BY <1>1, <1>4 DEF WriteBody, Frames
  <2>2. HeaderLast'
    BY <1>4, MutexAssumption DEF WriteBody, HeaderLast, Senders
  <2>3. HeadersOnce'
    <3>1. \A q \in Requests, i \in 1 .. Len(wire') : wire'[i] = <<"header", q>> =>
             i \in 1 .. Len(wire) /\ wire[i] = <<"header", q>>
      BY <1>1, <2>1
    <3>2. \A q \in Requests : Unanswered(q)' => Unanswered(q)
      BY DEF WireStep
    <3> QED BY <3>1, <3>2 DEF Inv, WireInv, HeadersOnce
  <2>4. FramesWhole'
    <3>1. wire # <<>> /\ wire[Len(wire)] = <<"header", r>>
      BY <1>4 DEF WriteBody, Inv, WireInv, HeaderLast
    <3> QED BY <1>1, <2>1, <3>1 DEF Inv, WireInv, FramesWhole
  <2> QED BY <2>2, <2>3, <2>4 DEF WireInv
<1> QED BY <1>2, <1>3, <1>4 DEF WireStep

-----------------------------------------------------------------------------
(* Every step keeps the goroutines in order and extends the wire as        *)
(* WireStep says.                                                          *)
LEMMA GoStep ==
  ASSUME Inv, Next
  PROVE  GoInv' /\ WireStep
<1> USE DEF Inv, GoInv, TypeOK, LoopPCs, HandlerPCs, WorkerPCs, conn
<1> DEFINE P == GoInv' /\ WireStep
<1>1. ASSUME NEW r \in Requests, ReadRequest(r) PROVE P
  <2>1. TypeOK'
    BY <1>1 DEF ReadRequest, Senders, Frames
  <2>2. LockInv'
    BY <1>1, MutexAssumption DEF ReadRequest, LockInv, Senders
  <2>3. PairInv'
    BY <1>1 DEF ReadRequest, PairInv
  <2>4. WireStep
    BY <1>1 DEF ReadRequest, WireStep, Unanswered
  <2> QED BY <2>1, <2>2, <2>3, <2>4
<1>2. ASSUME NEW r \in Requests, ReadUnknown(r) PROVE P
  <2>1. TypeOK'
    BY <1>2 DEF ReadUnknown, Senders, Frames
  <2>2. LockInv'
    BY <1>2, MutexAssumption DEF ReadUnknown, LockInv, Senders
  <2>3. PairInv'
    BY <1>2 DEF ReadUnknown, PairInv
  <2>4. WireStep
    BY <1>2 DEF ReadUnknown, WireStep, Unanswered
  <2> QED BY <2>1, <2>2, <2>3, <2>4
<1>3. ASSUME NEW r \in Requests, ReadBadBody(r) PROVE P
  <2>1. TypeOK'
    BY <1>3 DEF ReadBadBody, Senders, Frames
  <2>2. LockInv'
    BY <1>3, MutexAssumption DEF ReadBadBody, LockInv, Senders
  <2>3. PairInv'
    BY <1>3 DEF ReadBadBody, PairInv
  <2>4. WireStep
    BY <1>3 DEF ReadBadBody, WireStep, Unanswered
  <2> QED BY <2>1, <2>2, <2>3, <2>4
<1>4. ASSUME NEW r \in Requests, MethodReturns(r) PROVE P
  <2>1. TypeOK'
    BY <1>4 DEF MethodReturns, Senders, Frames
  <2>2. LockInv'
    BY <1>4, MutexAssumption DEF MethodReturns, LockInv, Senders
  <2>3. PairInv'
    BY <1>4 DEF MethodReturns, PairInv
  <2>4. WireStep
    BY <1>4 DEF MethodReturns, WireStep, Unanswered
  <2> QED BY <2>1, <2>2, <2>3, <2>4
<1>5. ASSUME NEW r \in Requests, Called(r) PROVE P
  <2>1. TypeOK'
    BY <1>5 DEF Called, Senders, Frames
  <2>2. LockInv'
    BY <1>5, MutexAssumption DEF Called, LockInv, Senders
  <2>3. PairInv'
    BY <1>5 DEF Called, PairInv
  <2>4. WireStep
    BY <1>5 DEF Called, WireStep, Unanswered
  <2> QED BY <2>1, <2>2, <2>3, <2>4
<1>6. ASSUME NEW r \in Requests, Sent(r) PROVE P
  <2>1. TypeOK'
    BY <1>6 DEF Sent, Senders, Frames
  <2>2. LockInv'
    BY <1>6, MutexAssumption DEF Sent, LockInv, Senders
  <2>3. PairInv'
    BY <1>6 DEF Sent, PairInv
  <2>4. WireStep
    BY <1>6 DEF Sent, WireStep, Unanswered
  <2> QED BY <2>1, <2>2, <2>3, <2>4
<1>7. ASSUME NEW r \in Requests, Timeout(r) PROVE P
  <2>1. TypeOK'
    BY <1>7 DEF Timeout, Senders, Frames
  <2>2. LockInv'
    BY <1>7, MutexAssumption DEF Timeout, LockInv, Senders
  <2>3. PairInv'
    BY <1>7 DEF Timeout, PairInv
  <2>4. WireStep
    BY <1>7 DEF Timeout, WireStep, Unanswered
  <2> QED BY <2>1, <2>2, <2>3, <2>4
<1>8. ASSUME NEW r \in Requests, WorkerSendHeader(r) PROVE P
  <2>1. TypeOK'
    BY <1>8 DEF WorkerSendHeader, SendHeader, Senders, Frames
  <2>2. LockInv'
    BY <1>8, MutexAssumption DEF WorkerSendHeader, SendHeader, LockInv, Senders
  <2>3. PairInv'
    BY <1>8 DEF WorkerSendHeader, SendHeader, PairInv
  <2>4. WireStep
    BY <1>8 DEF WorkerSendHeader, SendHeader, WriteHeader, LockInv, PairInv, WireStep, Unanswered
  <2> QED BY <2>1, <2>2, <2>3, <2>4
<1>9. ASSUME NEW r \in Requests, WorkerSendBody(r) PROVE P
  <2>1. TypeOK'
    <3> closed \in BOOLEAN
      OBVIOUS
    <3>0. UNCHANGED closed \/ closed' = TRUE
      BY <1>9 DEF WorkerSendBody, SendBody
    <3>1. closed' \in BOOLEAN
      <4>1. CASE UNCHANGED closed
        BY <4>1
      <4>2. CASE closed' = TRUE
        BY <4>2
      <4> QED BY <3>0, <4>1, <4>2
    <3>2. wire' \in Seq(Frames)
      <4>1. <<"body", r>> \in Frames /\ wire \in Seq(Frames)
        BY DEF Frames
      <4>2. wire' = Append(wire, <<"body", r>>) \/ UNCHANGED wire
        BY <1>9 DEF WorkerSendBody, SendBody
      <4> HIDE DEF Inv
      <4> QED BY <4>1, <4>2
    <3> QED BY <1>9, <3>1, <3>2 DEF WorkerSendBody, SendBody
  <2>2. LockInv'
    BY <1>9, MutexAssumption DEF WorkerSendBody, SendBody, LockInv, Senders
  <2>3. PairInv'
    BY <1>9 DEF WorkerSendBody, SendBody, PairInv
  <2>4. WireStep
    BY <1>9 DEF WorkerSendBody, SendBody, WriteBody, LockInv, PairInv, WireStep, Unanswered
  <2> QED BY <2>1, <2>2, <2>3, <2>4
<1>10. ASSUME NEW r \in Requests, WorkerSendFails(r) PROVE P
  <2>1. TypeOK'
    BY <1>10 DEF WorkerSendFails, SendFails, Senders, Frames
  <2>2. LockInv'
    BY <1>10, MutexAssumption DEF WorkerSendFails, SendFails, LockInv, Senders
  <2>3. PairInv'
    BY <1>10 DEF WorkerSendFails, SendFails, PairInv
  <2>4. WireStep
    BY <1>10 DEF WorkerSendFails, SendFails, WireStep, Unanswered
  <2> QED BY <2>1, <2>2, <2>3, <2>4
<1>11. ASSUME NEW r \in Requests, HandlerSendHeader(r) PROVE P
  <2>1. TypeOK'
    BY <1>11 DEF HandlerSendHeader, SendHeader, Senders, Frames
  <2>2. LockInv'
    BY <1>11, MutexAssumption DEF HandlerSendHeader, SendHeader, LockInv, Senders
  <2>3. PairInv'
    BY <1>11 DEF HandlerSendHeader, SendHeader, PairInv
  <2>4. WireStep
    BY <1>11 DEF HandlerSendHeader, SendHeader, WriteHeader, LockInv, PairInv, WireStep, Unanswered
  <2> QED BY <2>1, <2>2, <2>3, <2>4
<1>12. ASSUME NEW r \in Requests, HandlerSendBody(r) PROVE P
  <2>1. TypeOK'
    <3> closed \in BOOLEAN
      OBVIOUS
    <3>0. UNCHANGED closed \/ closed' = TRUE
      BY <1>12 DEF HandlerSendBody, SendBody
    <3>1. closed' \in BOOLEAN
      <4>1. CASE UNCHANGED closed
        BY <4>1
      <4>2. CASE closed' = TRUE
        BY <4>2
      <4> QED BY <3>0, <4>1, <4>2
    <3>2. wire' \in Seq(Frames)
      <4>1. <<"body", r>> \in Frames /\ wire \in Seq(Frames)
        BY DEF Frames
      <4>2. wire' = Append(wire, <<"body", r>>) \/ UNCHANGED wire
        BY <1>12 DEF HandlerSendBody, SendBody
      <4> HIDE DEF Inv
      <4> QED BY <4>1, <4>2
    <3> QED BY <1>12, <3>1, <3>2 DEF HandlerSendBody, SendBody
  <2>2. LockInv'
    BY <1>12, MutexAssumption DEF HandlerSendBody, SendBody, LockInv, Senders
  <2>3. PairInv'
    BY <1>12 DEF HandlerSendBody, SendBody, PairInv
  <2>4. WireStep
    BY <1>12 DEF HandlerSendBody, SendBody, WriteBody, LockInv, PairInv, WireStep, Unanswered
  <2> QED BY <2>1, <2>2, <2>3, <2>4
<1>13. ASSUME NEW r \in Requests, HandlerSendFails(r) PROVE P
  <2>1. TypeOK'
    BY <1>13 DEF HandlerSendFails, SendFails, Senders, Frames
  <2>2. LockInv'
    BY <1>13, MutexAssumption DEF HandlerSendFails, SendFails, LockInv, Senders
  <2>3. PairInv'
    BY <1>13 DEF HandlerSendFails, SendFails, PairInv
  <2>4. WireStep
    BY <1>13 DEF HandlerSendFails, SendFails, WireStep, Unanswered
  <2> QED BY <2>1, <2>2, <2>3, <2>4
<1>14. CASE LoopSendHeader
  <2>1. TypeOK'
    BY <1>14 DEF LoopSendHeader, SendHeader, Senders, Frames
  <2>2. LockInv'
    BY <1>14, MutexAssumption DEF LoopSendHeader, SendHeader, LockInv, Senders
  <2>3. PairInv'
    BY <1>14 DEF LoopSendHeader, SendHeader, PairInv
  <2>4. WireStep
    BY <1>14 DEF LoopSendHeader, SendHeader, WriteHeader, LockInv, PairInv, WireStep, Unanswered
  <2> QED BY <2>1, <2>2, <2>3, <2>4
<1>15. CASE LoopSendBody
  <2>1. TypeOK'
    <3> closed \in BOOLEAN
      OBVIOUS
    <3>0. UNCHANGED closed \/ closed' = TRUE
      BY <1>15 DEF LoopSendBody, SendBody
    <3>1. closed' \in BOOLEAN
      <4>1. CASE UNCHANGED closed
        BY <4>1
      <4>2. CASE closed' = TRUE
        BY <4>2
      <4> QED BY <3>0, <4>1, <4>2
    <3>2. wire' \in Seq(Frames)
      <4>1. <<"body", lreq>> \in Frames /\ wire \in Seq(Frames)
        BY DEF Frames
      <4>2. wire' = Append(wire, <<"body", lreq>>) \/ UNCHANGED wire
        BY <1>15 DEF LoopSendBody, SendBody
      <4> HIDE DEF Inv
      <4> QED BY <4>1, <4>2
    <3> QED BY <1>15, <3>1, <3>2 DEF LoopSendBody, SendBody
  <2>2. LockInv'
    BY <1>15, MutexAssumption DEF LoopSendBody, SendBody, LockInv, Senders
  <2>3. PairInv'
    BY <1>15 DEF LoopSendBody, SendBody, PairInv
  <2>4. WireStep
    BY <1>15 DEF LoopSendBody, SendBody, WriteBody, LockInv, PairInv, WireStep, Unanswered
  <2> QED BY <2>1, <2>2, <2>3, <2>4
<1>16. CASE LoopSendFails
  <2>1. TypeOK'
    BY <1>16 DEF LoopSendFails, SendFails, Senders, Frames
  <2>2. LockInv'
    BY <1>16, MutexAssumption DEF LoopSendFails, SendFails, LockInv, Senders
  <2>3. PairInv'
    BY <1>16 DEF LoopSendFails, SendFails, PairInv
  <2>4. WireStep
    BY <1>16 DEF LoopSendFails, SendFails, WireStep, Unanswered
  <2> QED BY <2>1, <2>2, <2>3, <2>4
<1>17. CASE ReadFails
  <2>1. TypeOK'
    BY <1>17 DEF ReadFails, Senders, Frames
  <2>2. LockInv'
    BY <1>17, MutexAssumption DEF ReadFails, LockInv, Senders
  <2>3. PairInv'
    BY <1>17 DEF ReadFails, PairInv
  <2>4. WireStep
    BY <1>17 DEF ReadFails, WireStep, Unanswered
  <2> QED BY <2>1, <2>2, <2>3, <2>4
<1>18. CASE WaitAndClose
  <2>1. TypeOK'
    BY <1>18 DEF WaitAndClose, Active, Senders, Frames
  <2>2. LockInv'
    BY <1>18, MutexAssumption DEF WaitAndClose, Active, LockInv, Senders
  <2>3. PairInv'
    BY <1>18 DEF WaitAndClose, Active, PairInv
  <2>4. WireStep
    BY <1>18 DEF WaitAndClose, Active, WireStep, Unanswered
  <2> QED BY <2>1, <2>2, <2>3, <2>4
<1>19. CASE HangUp
  <2>1. TypeOK'
    BY <1>19 DEF HangUp, Senders, Frames
  <2>2. LockInv'
    BY <1>19, MutexAssumption DEF HangUp, LockInv, Senders
  <2>3. PairInv'
    BY <1>19 DEF HangUp, PairInv
  <2>4. WireStep
    BY <1>19 DEF HangUp, WireStep, Unanswered
  <2> QED BY <2>1, <2>2, <2>3, <2>4
<1> QED BY <1>1, <1>2, <1>3, <1>4, <1>5, <1>6, <1>7, <1>8, <1>9, <1>10, <1>11, <1>12, <1>13, <1>14, <1>15, <1>16, <1>17, <1>18, <1>19 DEF Next, ServeCodec, HandleRequest

(* The inductive invariant.                                                *)
THEOREM Invariance == Spec => []Inv
<1>1. Init => Inv
  BY InvInit
<1>2. Inv /\ [Next]_vars => Inv'
  <2> SUFFICES ASSUME Inv, [Next]_vars PROVE Inv'
    OBVIOUS
  <2>1. CASE Next
    BY <2>1, GoStep, WireInvStep DEF Inv
  <2>2. CASE UNCHANGED vars
    BY <2>2 DEF vars, conn, Inv, GoInv, TypeOK, LockInv, PairInv, WireInv,
       HeaderLast, HeadersOnce, FramesWhole, Unanswered
  <2> QED BY <2>1, <2>2
<1> QED BY <1>1, <1>2, PTL DEF Spec

(* Type correctness: in particular a request has a worker as long as it    *)
(* has a handler.                                                          *)
THEOREM TypeCorrect == Spec => []TypeOK
<1>1. Inv => TypeOK
  BY DEF Inv, GoInv
<1> QED BY <1>1, Invariance, PTL

(* sendResponse is atomic on the connection: no body without its header    *)
(* right before it.                                                        *)
THEOREM ResponsesWhole == Spec => []FramesWhole
<1>1. Inv => FramesWhole
  BY DEF Inv, WireInv
<1> QED BY <1>1, Invariance, PTL

(* handleRequest and its worker never answer both: headers are unique by   *)
(* HeadersOnce, and bodies because each follows its header.                *)
THEOREM AnsweredOnce == Spec => []OneResponse
<1>1. Inv => OneResponse
  <2> SUFFICES ASSUME Inv,
                      NEW i \in 1 .. Len(wire), NEW j \in 1 .. Len(wire),
                      wire[i] = wire[j]
               PROVE  i = j
    BY DEF OneResponse
  <2>1. Len(wire) \in Nat /\ wire[i] \in Frames
    BY DEF Inv, GoInv, TypeOK
  <2>2. PICK f \in {"header", "body"}, r \in Requests : wire[i] = <<f, r>>
    BY <2>1 DEF Frames
  <2>3. CASE f = "header"
    BY <2>2, <2>3 DEF Inv, WireInv, HeadersOnce
  <2>4. CASE f = "body"
    <3>0. /\ wire[i][1] = "body" /\ wire[i][2] = r
          /\ wire[j][1] = "body" /\ wire[j][2] = r
      BY <2>2, <2>4
    <3>1. /\ i > 1 /\ wire[i - 1] = <<"header", r>>
          /\ j > 1 /\ wire[j - 1] = <<"header", r>>
      BY <3>0 DEF Inv, WireInv, FramesWhole
    <3>2. i - 1 \in 1 .. Len(wire) /\ j - 1 \in 1 .. Len(wire)
      BY <2>1, <3>1
    <3>3. i - 1 = j - 1
      BY <3>1, <3>2 DEF Inv, WireInv, HeadersOnce
    <3> QED BY <3>3
  <2> QED BY <2>3, <2>4
<1> QED BY <1>1, Invariance, PTL

(* wg.Wait() is enough: when serveCodec closes the connection no handler   *)
(* is left, and a worker that outlives its handler does not write.         *)
THEOREM ClosedForGood == Spec => []NothingAfterClose
<1>1. Inv => NothingAfterClose
  <2> SUFFICES ASSUME Inv, loop = "returned" PROVE NothingAfterClose
    BY DEF NothingAfterClose
  <2>1. \A r \in Requests : /\ worker[r] \notin {"send", "body"}
                            /\ handler[r] \notin {"select", "send", "body"}
    BY DEF Inv, GoInv, PairInv
  <2>2. sending = Nobody
    BY <2>1 DEF Inv, GoInv, TypeOK, LockInv, Senders
  <2> QED BY <2>1, <2>2 DEF NothingAfterClose
<1> QED BY <1>1, Invariance, PTL

(* The same as an action property: once serveCodec has returned, no step   *)
(* of any goroutine writes to the connection.                              *)
THEOREM ClosedWireFixed ==
  Spec => [][loop = "returned" => UNCHANGED wire]_vars
<1>1. Inv /\ [Next]_vars => [loop = "returned" => UNCHANGED wire]_vars
  <2> SUFFICES ASSUME Inv, Next, loop = "returned" PROVE UNCHANGED wire
    BY DEF vars
  <2>1. \A r \in Requests : /\ worker[r] \notin {"send", "body"}
                            /\ handler[r] \notin {"select", "send", "body"}
    BY DEF Inv, GoInv, PairInv
  <2> QED BY <2>1 DEF Next, ServeCodec, HandleRequest, HangUp, MethodReturns,
        LoopSendHeader, LoopSendBody, LoopSendFails, ReadFails, WaitAndClose,
        ReadRequest, ReadUnknown, ReadBadBody, Called, Sent, Timeout,
        WorkerSendHeader, WorkerSendBody, WorkerSendFails,
        HandlerSendHeader, HandlerSendBody, HandlerSendFails, conn
<1> QED BY <1>1, Invariance, PTL DEF Spec

-----------------------------------------------------------------------------
(* How a handler and its worker can be left waiting for each other.  The   *)
(* handler waits for sent: its worker is on the way to send it, or has     *)
(* exited after a method error.  A handler that answers itself, or is done *)
(* before its worker, has timed out.                                       *)
LeftWaiting ==
  \A r \in Requests :
    /\ handler[r] = "sent" =>
         worker[r] \in {"send", "body", "sent"} \/ (worker[r] = "exited" /\ r \in failed)
    /\ handler[r] \in {"send", "body"} => HandleTimeout
    /\ handler[r] = "done" => worker[r] = "exited" \/ HandleTimeout

(* ServeConn is kept from returning for ever only by a method that has     *)
(* returned an error: a handler that wg.Wait() waits for answers next, has *)
(* its worker about to, waits for a method that runs, or its method has    *)
(* failed.  A goroutine is left behind only if handling has a timeout.     *)
StuckOnlyAfterError ==
  /\ \A r \in Active :
       \/ handler[r] \in {"send", "body"}
       \/ handler[r] = "select" /\ worker[r] \in {"call", "called"}
       \/ handler[r] = "sent" /\ worker[r] \in {"send", "body", "sent"}
       \/ r \in failed
  /\ loop = "returned" /\ ~HandleTimeout =>
       \A r \in Requests : worker[r] \in {"none", "exited"}

(* THEOREM.  What rpc_server_hangs finds is the only way: without a method *)
(* error no handler is left waiting for a worker that has exited, and      *)
(* without a timeout no worker outlives the connection.                    *)
THEOREM HangsOnlyAfterError == Spec => []StuckOnlyAfterError
<1>1. Init => LeftWaiting
  BY DEF Init, LeftWaiting
<1>2. ASSUME Inv, LeftWaiting, [Next]_vars
      PROVE  LeftWaiting'
  <2>1. /\ handler \in [Requests -> HandlerPCs] /\ worker \in [Requests -> WorkerPCs]
        /\ failed \subseteq Requests
    BY <1>2 DEF Inv, GoInv, TypeOK
  <2>2. CASE UNCHANGED vars
    BY <1>2, <2>2 DEF vars, LeftWaiting
  <2>3. CASE HangUp \/ (ServeCodec /\ UNCHANGED <<handler, worker, failed>>)
    BY <1>2, <2>3 DEF HangUp, LeftWaiting
  <2>4. ASSUME NEW r \in Requests, ReadRequest(r)
        PROVE  LeftWaiting'
    BY <1>2, <2>1, <2>4 DEF ReadRequest, LeftWaiting
  <2>5. ASSUME NEW r \in Requests, MethodReturns(r)
        PROVE  LeftWaiting'
    BY <1>2, <2>1, <2>5 DEF MethodReturns, LeftWaiting
  <2>6. ASSUME NEW r \in Requests, Called(r) \/ Sent(r) \/ Timeout(r)
        PROVE  LeftWaiting'
    BY <1>2, <2>1, <2>6 DEF Called, Sent, Timeout, LeftWaiting
  <2>7. ASSUME NEW r \in Requests, WorkerSendHeader(r) \/ WorkerSendBody(r) \/ WorkerSendFails(r)
        PROVE  LeftWaiting'
    <3>1. worker[r] \in {"send", "body"} /\ handler[r] = "sent"
      BY <1>2, <2>7 DEF WorkerSendHeader, WorkerSendBody, WorkerSendFails, Inv, GoInv, PairInv
    <3>2. UNCHANGED <<handler, failed>>
      BY <2>7 DEF WorkerSendHeader, WorkerSendBody, WorkerSendFails
    <3>3. \/ worker' = [worker EXCEPT ![r] = "body"]
          \/ worker' = [worker EXCEPT ![r] = IF r \in failed THEN "exited" ELSE "sent"]
      BY <2>7 DEF WorkerSendHeader, WorkerSendBody, WorkerSendFails
    <3>4. QED
      BY <1>2, <2>1, <3>1, <3>2, <3>3 DEF LeftWaiting
  <2>8. ASSUME NEW r \in Requests,
               HandlerSendHeader(r) \/ HandlerSendBody(r) \/ HandlerSendFails(r)
        PROVE  LeftWaiting'
    BY <1>2, <2>1, <2>8 DEF HandlerSendHeader, HandlerSendBody, HandlerSendFails, LeftWaiting
  <2>9. CASE ServeCodec
    <3>1. \/ \E r \in Requests : ReadRequest(r)
          \/ UNCHANGED <<handler, worker, failed>>
      BY <2>9 DEF ServeCodec, ReadUnknown, ReadBadBody, LoopSendHeader, LoopSendBody,
                  LoopSendFails, ReadFails, WaitAndClose
    <3>2. QED
      BY <2>3, <2>4, <2>9, <3>1
  <2>10. QED
    BY <1>2, <2>2, <2>3, <2>5, <2>6, <2>7, <2>8, <2>9 DEF Next, HandleRequest
<1>3. Inv /\ LeftWaiting => StuckOnlyAfterError
  <2>1. SUFFICES ASSUME Inv, LeftWaiting PROVE StuckOnlyAfterError
    OBVIOUS
  <2>2. \A r \in Requests : handler[r] \in HandlerPCs /\ worker[r] \in WorkerPCs
    BY <2>1 DEF Inv, GoInv, TypeOK
  <2>3. \A r \in Active : r \in Requests /\ handler[r] \in {"select", "sent", "send", "body"}
    BY <2>2 DEF Active, HandlerPCs
  <2>4. \A r \in Requests : handler[r] = "none" => worker[r] = "none"
    BY <2>1 DEF Inv, GoInv, TypeOK
  <2>5. QED
    BY <2>1, <2>3, <2>4 DEF StuckOnlyAfterError, LeftWaiting, Inv, GoInv, PairInv
<1>4. QED
  BY <1>1, <1>2, <1>3, Invariance, PTL DEF Spec
=============================================================================
