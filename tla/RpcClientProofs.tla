--------------------------- MODULE RpcClientProofs ---------------------------
(***************************************************************************)
(* Proofs about RpcClient, for any set of calls.  The inductive invariant  *)
(* says who is in charge of a call: pending, the receiver that has taken   *)
(* it out, or the sender whose write failed.  At most one of them is, and  *)
(* until it has called done() nobody else has.                             *)
(***************************************************************************)
EXTENDS RpcClient, TLAPS

SendPCs == {"register", "write", "writeclose", "writeremove", "fail", "unlock"}

(* k is in the pending map; the receiver has taken k out of it.            *)
Filed(k)     == CallSeq[k] # 0 /\ pending[CallSeq[k]] = k
Receiving(k) == rpc \in {"body", "done"} /\ rcall = k

(* Who holds which lock, and what that excludes.                           *)
LockInv ==
  /\ \A k \in Calls : pc[k] \in SendPCs <=> sending = k
  /\ rpc \in {"mark", "finish"} <=> sending = Receiver
  /\ rpc \in {"mark", "finish"} <=> mu = Receiver
  /\ shutdown <=> rpc \in {"finish", "exited"}
  /\ rpc # "finish" => todo = {}
  /\ rpc = "exited" =>
       \A k \in Calls : pc[k] \notin {"write", "writeclose", "writeremove"}

(* Sequence numbers identify calls, in pending, on the wire and in the     *)
(* header just read.                                                       *)
SeqInv ==
  /\ \A k \in Calls : CallSeq[k] < seq
  /\ \A j, k \in Calls : CallSeq[j] = CallSeq[k] /\ CallSeq[k] # 0 => j = k
  /\ \A k \in Calls : /\ pc[k] \in {"start", "register"} => CallSeq[k] = 0
                      /\ pc[k] \in {"write", "writeclose", "writeremove"} =>
                           CallSeq[k] # 0
  /\ \A s \in Seqs : pending[s] # NoCall => CallSeq[pending[s]] = s
  /\ \A m \in wire : CallSeq[m.call] = m.seq
  /\ rpc \in {"remove", "body", "done"} =>
       rhdr \in Wires /\ CallSeq[rhdr.call] = rhdr.seq
  /\ rpc \in {"body", "done"} /\ rcall # NoCall => rcall = rhdr.call
  /\ rpc = "done" => rcall # NoCall

(* Whoever is in charge of a call finds it not yet finished.               *)
ChargeInv ==
  \A k \in Calls :
    /\ Done[k] <= completions[k] /\ completions[k] \in {0, 1}
    /\ Filed(k) /\ rpc \notin {"finish", "exited"} => completions[k] = 0
    /\ k \in todo => completions[k] = 0 /\ Filed(k)
    /\ Receiving(k) => completions[k] = 0 /\ ~Filed(k)
    /\ pc[k] \in {"start", "register", "fail"} =>
         completions[k] = 0 /\ ~Filed(k) /\ ~Receiving(k)
    /\ found[k] => pc[k] = "returned" /\ ~Filed(k) /\ ~Receiving(k)

(* What a finished call carries.                                           *)
OutcomeInv ==
  \A k \in Calls :
    /\ Reply[k] \in {k, NoCall}
    /\ completions[k] = 1 /\ Error[k] = "nil" => Reply[k] = k
    /\ rpc = "done" /\ rcall = k /\ Error[k] = "nil" => Reply[k] = k
    /\ pc[k] = "fail" => Error[k] # "nil"

(* A call that waits, or will, has somebody in charge or is finished.      *)
WaitInv ==
  \A k \in Calls :
    pc[k] \in {"write", "writeclose", "writeremove", "unlock", "select"} =>
      /\ Filed(k) \/ Receiving(k) \/ Done[k] = 1
      /\ rpc \in {"finish", "exited"} /\ Filed(k) => k \in todo \/ Done[k] = 1

Inv == TypeOK /\ LockInv /\ SeqInv /\ ChargeInv /\ OutcomeInv /\ WaitInv

-----------------------------------------------------------------------------
(* The invariant holds initially: no call has been made.                   *)
LEMMA InvInit == Init => Inv
<1> SUFFICES ASSUME Init PROVE Inv
  OBVIOUS
<1>1. TypeOK
  <2>1. 1 \in 1 .. MaxSeq + 1 /\ 0 \in 0 .. MaxSeq
    BY RpcAssumption
  <2> QED BY <2>1 DEF Init, TypeOK, CallerPCs, ReceiverPCs, Errors
<1>2. LockInv
  BY LockAssumption DEF Init, LockInv, SendPCs, Free, Receiver
<1>3. SeqInv /\ ChargeInv /\ OutcomeInv /\ WaitInv
  BY RpcAssumption DEF Init, SeqInv, ChargeInv, OutcomeInv, WaitInv, Filed, Receiving
<1> QED BY <1>1, <1>2, <1>3 DEF Inv

(* Every step of a caller preserves the invariant.                         *)
LEMMA InvCaller ==
  ASSUME NEW k \in Calls, Inv, Caller(k) \/ SelectCtx(k)
  PROVE  Inv'
<1>1. CASE SendLock(k)
  <2>1. TypeOK'
    BY <1>1, RpcAssumption, LockAssumption DEF Inv, SendLock, TypeOK,
       CallerPCs, ReceiverPCs, Errors, client, locks, network, call, caller,
       receiver
  <2>2. LockInv'
    <3>1. sending = Free /\ sending' = k /\ k # Receiver /\ k # Free /\ Free # Receiver
      BY <1>1, LockAssumption DEF SendLock, Free, Receiver
    <3>2. pc' = [pc EXCEPT ![k] = "register"]
          /\ UNCHANGED <<rpc, mu, shutdown, todo>>
      BY <1>1 DEF SendLock, client, receiver
    <3>3. \A j \in Calls : pc'[j] \in SendPCs <=> sending' = j
      BY <3>1, <3>2, LockAssumption DEF Inv, TypeOK, LockInv, SendPCs
    <3>4. \A j \in Calls : pc'[j] \notin {"write", "writeclose", "writeremove"}
                           \/ pc'[j] = pc[j]
      BY <3>2 DEF Inv, TypeOK
    <3> QED BY <3>1, <3>2, <3>3, <3>4 DEF Inv, LockInv
  <2>3. SeqInv'
    BY <1>1, RpcAssumption, LockAssumption DEF Inv, SendLock, TypeOK, SeqInv,
       client, locks, network, call, caller, receiver
  <2>4. ChargeInv'
    BY <1>1, RpcAssumption, LockAssumption DEF Inv, SendLock, TypeOK, SeqInv,
       ChargeInv, Filed, Receiving, client, locks, network, call, caller,
       receiver
  <2>5. OutcomeInv'
    BY <1>1, RpcAssumption, LockAssumption DEF Inv, SendLock, TypeOK,
       OutcomeInv, client, locks, network, call, caller, receiver
  <2>6. WaitInv'
    BY <1>1, RpcAssumption, LockAssumption DEF Inv, SendLock, TypeOK, SeqInv,
       WaitInv, Filed, Receiving, client, locks, network, call, caller,
       receiver
  <2> QED BY <2>1, <2>2, <2>3, <2>4, <2>5, <2>6 DEF Inv
<1>2. CASE registerCall(k)
  <2>a. CASE closing \/ shutdown
    <3>1. /\ Error' = [Error EXCEPT ![k] = "shutdown"]
          /\ pc' = [pc EXCEPT ![k] = "fail"] /\ pc[k] = "register"
          /\ UNCHANGED <<client, locks, network, CallSeq, Reply, Done, completions,
                         found, receiver>>
      BY <2>a, <1>2 DEF registerCall, client
    <3>2. TypeOK' /\ LockInv' /\ SeqInv'
      <4>1. TypeOK'
        BY <3>1 DEF Inv, TypeOK, CallerPCs, Errors, client, locks, network, receiver
      <4>2. LockInv'
        BY <3>1 DEF Inv, TypeOK, LockInv, SendPCs, client, locks, receiver
      <4>3. SeqInv'
        BY <3>1 DEF Inv, TypeOK, SeqInv, client, network, receiver
      <4> QED BY <4>1, <4>2, <4>3
    <3>3. ChargeInv'
      BY <3>1 DEF Inv, TypeOK, ChargeInv, Filed, Receiving, client, receiver
    <3>4. OutcomeInv'
      BY <3>1 DEF Inv, TypeOK, ChargeInv, OutcomeInv, receiver
    <3>5. WaitInv'
      BY <3>1 DEF Inv, TypeOK, WaitInv, Filed, Receiving, client, receiver
    <3> QED BY <3>2, <3>3, <3>4, <3>5 DEF Inv
  <2>b. CASE ~(closing \/ shutdown)
    <3>1. /\ pc[k] = "register" /\ seq \in Seqs /\ seq' = seq + 1
          /\ CallSeq' = [CallSeq EXCEPT ![k] = seq]
          /\ pending' = [pending EXCEPT ![seq] = k]
          /\ pc' = [pc EXCEPT ![k] = "write"]
          /\ UNCHANGED <<closing, shutdown, locks, network, Error, Reply, Done,
                         completions, found, receiver>>
      BY <2>b, <1>2, RpcAssumption DEF registerCall, Inv, TypeOK, Seqs
    <3>2. /\ CallSeq[k] = 0 /\ completions[k] = 0 /\ ~Receiving(k) /\ ~found[k]
          /\ k \notin todo /\ rpc \notin {"finish", "exited"} /\ seq \in Nat \ {0}
      BY <3>1, <2>b DEF Inv, TypeOK, SeqInv, ChargeInv, LockInv, Filed, Seqs
    <3>3. \A j \in Calls : CallSeq[j] \in Nat /\ CallSeq[j] < seq /\ CallSeq[j] # seq
      <4> SUFFICES ASSUME NEW j \in Calls
                   PROVE  CallSeq[j] \in Nat /\ CallSeq[j] < seq /\ CallSeq[j] # seq
        OBVIOUS
      <4>1. CallSeq[j] \in Nat
        BY RpcAssumption DEF Inv, TypeOK
      <4>2. CallSeq[j] < seq
        BY DEF Inv, SeqInv
      <4> QED BY <4>1, <4>2, <3>2
    <3>4. \A j \in Calls : CallSeq'[j] = IF j = k THEN seq ELSE CallSeq[j]
      BY <3>1 DEF Inv, TypeOK
    <3>5. \A s \in Seqs : pending'[s] = IF s = seq THEN k ELSE pending[s]
      BY <3>1 DEF Inv, TypeOK
    <3>6. \A s \in Seqs : pending[s] # k
      BY <3>2, RpcAssumption DEF Inv, SeqInv, Seqs
    <3>7. TypeOK'
      <4>1. seq + 1 \in 1 .. MaxSeq + 1 /\ seq \in 0 .. MaxSeq
        BY <3>1, RpcAssumption DEF Seqs
      <4> QED BY <4>1, <3>1 DEF Inv, TypeOK, CallerPCs, locks, network, receiver
    <3>8. LockInv'
      BY <3>1, <3>2 DEF Inv, TypeOK, LockInv, SendPCs, locks, receiver
    <3>9. SeqInv'
      <4>1. \A j \in Calls : CallSeq'[j] < seq'
        BY <3>1, <3>2, <3>3, <3>4
      <4>2. \A i, j \in Calls : CallSeq'[i] = CallSeq'[j] /\ CallSeq'[j] # 0 => i = j
        BY <3>3, <3>4 DEF Inv, SeqInv
      <4>3. \A j \in Calls : /\ pc'[j] \in {"start", "register"} => CallSeq'[j] = 0
                             /\ pc'[j] \in {"write", "writeclose", "writeremove"} =>
                                  CallSeq'[j] # 0
        BY <3>1, <3>2, <3>4 DEF Inv, TypeOK, SeqInv
      <4>4. \A s \in Seqs : pending'[s] # NoCall => CallSeq'[pending'[s]] = s
        BY <3>4, <3>5, <3>6 DEF Inv, TypeOK, SeqInv
      <4>5. \A j \in Calls : CallSeq[j] # 0 => CallSeq'[j] = CallSeq[j]
        BY <3>2, <3>4
      <4>6. \A m \in wire : m.call \in Calls /\ m.seq \in Seqs
        BY DEF Inv, TypeOK, Wires
      <4>7. \A m \in wire' : CallSeq'[m.call] = m.seq
        BY <3>1, <4>5, <4>6 DEF Inv, SeqInv, Seqs, network
      <4>8. rpc \in {"remove", "body", "done"} =>
              rhdr \in Wires /\ CallSeq'[rhdr.call] = rhdr.seq
        BY <4>5 DEF Inv, SeqInv, Seqs, Wires
      <4> QED BY <3>1, <4>1, <4>2, <4>3, <4>4, <4>7, <4>8 DEF Inv, SeqInv, receiver
    <3>10. \A j \in Calls : /\ Filed(j)' <=> (j = k \/ Filed(j))
                            /\ Receiving(j)' <=> Receiving(j)
      <4>1. \A j \in Calls : CallSeq[j] # 0 => CallSeq[j] \in Seqs
        BY DEF Inv, TypeOK, Seqs
      <4> QED BY <4>1, <3>1, <3>2, <3>3, <3>4, <3>5 DEF Filed, Receiving, receiver, Seqs
    <3>11. ChargeInv'
      BY <3>1, <3>2, <3>10 DEF Inv, TypeOK, ChargeInv, receiver
    <3>12. OutcomeInv'
      BY <3>1, <3>2 DEF Inv, TypeOK, OutcomeInv, receiver
    <3>13. WaitInv'
      BY <3>1, <3>2, <3>10 DEF Inv, TypeOK, WaitInv, receiver
    <3> QED BY <3>7, <3>8, <3>9, <3>11, <3>12, <3>13 DEF Inv
  <2> QED BY <2>a, <2>b
<1>3. CASE Write(k)
  <2>1. TypeOK'
    <3>1. [seq |-> CallSeq[k], call |-> k] \in Wires
      BY <1>3 DEF Write, Inv, TypeOK, SeqInv, Wires, Seqs
    <3> QED BY <3>1, <1>3 DEF Write, Inv, TypeOK, CallerPCs, client, locks, call,
               receiver
  <2>2. LockInv'
    BY <1>3, RpcAssumption, LockAssumption DEF Inv, Write, TypeOK, LockInv,
       SendPCs, client, locks, network, call, caller, receiver
  <2>3. SeqInv'
    BY <1>3, RpcAssumption, LockAssumption DEF Inv, Write, TypeOK, SeqInv,
       client, locks, network, call, caller, receiver
  <2>4. ChargeInv'
    BY <1>3, RpcAssumption, LockAssumption DEF Inv, Write, TypeOK, SeqInv,
       ChargeInv, Filed, Receiving, client, locks, network, call, caller,
       receiver
  <2>5. OutcomeInv'
    BY <1>3, RpcAssumption, LockAssumption DEF Inv, Write, TypeOK, OutcomeInv,
       client, locks, network, call, caller, receiver
  <2>6. WaitInv'
    BY <1>3, RpcAssumption, LockAssumption DEF Inv, Write, TypeOK, SeqInv,
       WaitInv, Filed, Receiving, client, locks, network, call, caller,
       receiver
  <2> QED BY <2>1, <2>2, <2>3, <2>4, <2>5, <2>6 DEF Inv
<1>4. CASE WriteClose(k)
  <2>1. TypeOK'
    BY <1>4, RpcAssumption, LockAssumption DEF Inv, WriteClose, TypeOK,
       CallerPCs, ReceiverPCs, Errors, client, locks, network, call, caller,
       receiver
  <2>2. LockInv'
    BY <1>4, RpcAssumption, LockAssumption DEF Inv, WriteClose, TypeOK,
       LockInv, SendPCs, client, locks, network, call, caller, receiver
  <2>3. SeqInv'
    BY <1>4, RpcAssumption, LockAssumption DEF Inv, WriteClose, TypeOK,
       SeqInv, client, locks, network, call, caller, receiver
  <2>4. ChargeInv'
    BY <1>4, RpcAssumption, LockAssumption DEF Inv, WriteClose, TypeOK,
       SeqInv, ChargeInv, Filed, Receiving, client, locks, network, call,
       caller, receiver
  <2>5. OutcomeInv'
    BY <1>4, RpcAssumption, LockAssumption DEF Inv, WriteClose, TypeOK,
       OutcomeInv, client, locks, network, call, caller, receiver
  <2>6. WaitInv'
    BY <1>4, RpcAssumption, LockAssumption DEF Inv, WriteClose, TypeOK,
       SeqInv, WaitInv, Filed, Receiving, client, locks, network, call,
       caller, receiver
  <2> QED BY <2>1, <2>2, <2>3, <2>4, <2>5, <2>6 DEF Inv
<1>5. CASE WriteRemove(k)
  <2>a. \A j \in Calls : /\ Filed(j)' <=> j # k /\ Filed(j)
                         /\ Receiving(j)' <=> Receiving(j)
    <3>1. \A j \in Calls : CallSeq[j] # 0 => CallSeq[j] \in Seqs
      BY DEF Inv, TypeOK, Seqs
    <3>2. UNCHANGED <<CallSeq, rpc, rcall>>
      BY <1>5 DEF WriteRemove, call, receiver
    <3>3. \A j \in Calls : j # k /\ CallSeq[j] # 0 => CallSeq[j] # CallSeq[k]
      BY DEF Inv, SeqInv
    <3>4. CallSeq[k] # 0 => pending' = [pending EXCEPT ![CallSeq[k]] = NoCall]
      BY <1>5 DEF WriteRemove
    <3>5. CallSeq[k] = 0 => pending' = pending
      BY <1>5 DEF WriteRemove, Inv, SeqInv
    <3> QED BY <3>1, <3>2, <3>3, <3>4, <3>5, RpcAssumption DEF Filed, Receiving, Inv,
               TypeOK
  <2>1. TypeOK'
    <3>1. /\ Error' \in [Calls -> Errors] /\ pc' \in [Calls -> CallerPCs]
          /\ pending' \in [Seqs -> Calls \cup {NoCall}]
      BY <1>5 DEF WriteRemove, Inv, TypeOK, CallerPCs, Errors
    <3> QED BY <3>1, <1>5 DEF WriteRemove, Inv, TypeOK, locks, network, receiver
  <2>2. LockInv'
    BY <1>5, RpcAssumption, LockAssumption DEF Inv, WriteRemove, TypeOK,
       LockInv, SendPCs, client, locks, network, call, caller, receiver
  <2>3. SeqInv'
    BY <1>5, RpcAssumption, LockAssumption DEF Inv, WriteRemove, TypeOK,
       SeqInv, client, locks, network, call, caller, receiver
  <2>4. ChargeInv'
    <3>1. CallSeq[k] # 0 /\ (pending[CallSeq[k]] # NoCall => Filed(k))
      BY <1>5 DEF WriteRemove, Inv, SeqInv, TypeOK, Filed, Seqs
    <3>2. Filed(k) => completions[k] = 0
      BY <1>5, LockAssumption DEF WriteRemove, Inv, LockInv, ChargeInv, SendPCs
    <3>3. k \notin todo
      BY <1>5, LockAssumption DEF WriteRemove, Inv, LockInv, SendPCs, Receiver, Free
    <3> QED BY <1>5, <2>a, <3>1, <3>2, <3>3 DEF WriteRemove, Inv, TypeOK, ChargeInv,
               receiver
  <2>5. OutcomeInv'
    BY <1>5, RpcAssumption, LockAssumption DEF Inv, WriteRemove, TypeOK,
       OutcomeInv, client, locks, network, call, caller, receiver
  <2>6. WaitInv'
    BY <1>5, RpcAssumption, LockAssumption DEF Inv, WriteRemove, TypeOK,
       SeqInv, WaitInv, Filed, Receiving, client, locks, network, call,
       caller, receiver
  <2> QED BY <2>1, <2>2, <2>3, <2>4, <2>5, <2>6 DEF Inv
<1>6. CASE SendDone(k)
  <2>1. TypeOK'
    BY <1>6, RpcAssumption, LockAssumption DEF Inv, SendDone, done, TypeOK,
       CallerPCs, ReceiverPCs, Errors, client, locks, network, call, caller,
       receiver
  <2>2. LockInv'
    BY <1>6, RpcAssumption, LockAssumption DEF Inv, SendDone, done, TypeOK,
       LockInv, SendPCs, client, locks, network, call, caller, receiver
  <2>3. SeqInv'
    BY <1>6, RpcAssumption, LockAssumption DEF Inv, SendDone, done, TypeOK,
       SeqInv, client, locks, network, call, caller, receiver
  <2>4. ChargeInv'
    BY <1>6, RpcAssumption, LockAssumption DEF Inv, SendDone, done, TypeOK,
       SeqInv, ChargeInv, Filed, Receiving, client, locks, network, call,
       caller, receiver
  <2>5. OutcomeInv'
    BY <1>6, RpcAssumption, LockAssumption DEF Inv, SendDone, done, TypeOK,
       OutcomeInv, client, locks, network, call, caller, receiver
  <2>6. WaitInv'
    BY <1>6, RpcAssumption, LockAssumption DEF Inv, SendDone, done, TypeOK,
       SeqInv, WaitInv, Filed, Receiving, client, locks, network, call,
       caller, receiver
  <2> QED BY <2>1, <2>2, <2>3, <2>4, <2>5, <2>6 DEF Inv
<1>7. CASE SendUnlock(k)
  <2>1. TypeOK'
    BY <1>7, RpcAssumption, LockAssumption DEF Inv, SendUnlock, TypeOK,
       CallerPCs, ReceiverPCs, Errors, client, locks, network, call, caller,
       receiver
  <2>2. LockInv'
    BY <1>7, RpcAssumption, LockAssumption DEF Inv, SendUnlock, TypeOK,
       LockInv, SendPCs, client, locks, network, call, caller, receiver
  <2>3. SeqInv'
    BY <1>7, RpcAssumption, LockAssumption DEF Inv, SendUnlock, TypeOK,
       SeqInv, client, locks, network, call, caller, receiver
  <2>4. ChargeInv'
    BY <1>7, RpcAssumption, LockAssumption DEF Inv, SendUnlock, TypeOK,
       SeqInv, ChargeInv, Filed, Receiving, client, locks, network, call,
       caller, receiver
  <2>5. OutcomeInv'
    BY <1>7, RpcAssumption, LockAssumption DEF Inv, SendUnlock, TypeOK,
       OutcomeInv, client, locks, network, call, caller, receiver
  <2>6. WaitInv'
    BY <1>7, RpcAssumption, LockAssumption DEF Inv, SendUnlock, TypeOK,
       SeqInv, WaitInv, Filed, Receiving, client, locks, network, call,
       caller, receiver
  <2> QED BY <2>1, <2>2, <2>3, <2>4, <2>5, <2>6 DEF Inv
<1>8. CASE SelectDone(k)
  <2>1. TypeOK'
    BY <1>8, RpcAssumption, LockAssumption DEF Inv, SelectDone, TypeOK,
       CallerPCs, ReceiverPCs, Errors, client, locks, network, call, caller,
       receiver
  <2>2. LockInv'
    BY <1>8, RpcAssumption, LockAssumption DEF Inv, SelectDone, TypeOK,
       LockInv, SendPCs, client, locks, network, call, caller, receiver
  <2>3. SeqInv'
    BY <1>8, RpcAssumption, LockAssumption DEF Inv, SelectDone, TypeOK,
       SeqInv, client, locks, network, call, caller, receiver
  <2>4. ChargeInv'
    BY <1>8, RpcAssumption, LockAssumption DEF Inv, SelectDone, TypeOK,
       SeqInv, ChargeInv, Filed, Receiving, client, locks, network, call,
       caller, receiver
  <2>5. OutcomeInv'
    BY <1>8, RpcAssumption, LockAssumption DEF Inv, SelectDone, TypeOK,
       OutcomeInv, client, locks, network, call, caller, receiver
  <2>6. WaitInv'
    BY <1>8, RpcAssumption, LockAssumption DEF Inv, SelectDone, TypeOK,
       SeqInv, WaitInv, Filed, Receiving, client, locks, network, call,
       caller, receiver
  <2> QED BY <2>1, <2>2, <2>3, <2>4, <2>5, <2>6 DEF Inv
<1>9. CASE SelectCtx(k)
  <2>1. TypeOK'
    BY <1>9, RpcAssumption, LockAssumption DEF Inv, SelectCtx, TypeOK,
       CallerPCs, ReceiverPCs, Errors, client, locks, network, call, caller,
       receiver
  <2>2. LockInv'
    BY <1>9, RpcAssumption, LockAssumption DEF Inv, SelectCtx, TypeOK,
       LockInv, SendPCs, client, locks, network, call, caller, receiver
  <2>3. SeqInv'
    BY <1>9, RpcAssumption, LockAssumption DEF Inv, SelectCtx, TypeOK, SeqInv,
       client, locks, network, call, caller, receiver
  <2>4. ChargeInv'
    BY <1>9, RpcAssumption, LockAssumption DEF Inv, SelectCtx, TypeOK, SeqInv,
       ChargeInv, Filed, Receiving, client, locks, network, call, caller,
       receiver
  <2>5. OutcomeInv'
    BY <1>9, RpcAssumption, LockAssumption DEF Inv, SelectCtx, TypeOK,
       OutcomeInv, client, locks, network, call, caller, receiver
  <2>6. WaitInv'
    BY <1>9, RpcAssumption, LockAssumption DEF Inv, SelectCtx, TypeOK, SeqInv,
       WaitInv, Filed, Receiving, client, locks, network, call, caller,
       receiver
  <2> QED BY <2>1, <2>2, <2>3, <2>4, <2>5, <2>6 DEF Inv
<1>10. CASE CancelRemove(k)
  <2>a. \A j \in Calls : /\ Filed(j)' <=> j # k /\ Filed(j)
                         /\ Receiving(j)' <=> Receiving(j)
    <3>1. \A j \in Calls : CallSeq[j] # 0 => CallSeq[j] \in Seqs
      BY DEF Inv, TypeOK, Seqs
    <3>2. UNCHANGED <<CallSeq, rpc, rcall>>
      BY <1>10 DEF CancelRemove, call, receiver
    <3>3. \A j \in Calls : j # k /\ CallSeq[j] # 0 => CallSeq[j] # CallSeq[k]
      BY DEF Inv, SeqInv
    <3>4. CallSeq[k] # 0 => pending' = [pending EXCEPT ![CallSeq[k]] = NoCall]
      BY <1>10 DEF CancelRemove
    <3>5. CallSeq[k] = 0 => pending' = pending
      BY <1>10 DEF CancelRemove, Inv, SeqInv
    <3> QED BY <3>1, <3>2, <3>3, <3>4, <3>5, RpcAssumption DEF Filed, Receiving, Inv,
               TypeOK
  <2>1. TypeOK'
    <3>1. found' \in [Calls -> BOOLEAN]
      BY <1>10, Zenon DEF CancelRemove, Inv, TypeOK
    <3> QED BY <3>1, <1>10 DEF CancelRemove, Inv, TypeOK, CallerPCs, locks, network,
               call, receiver
  <2>2. LockInv'
    BY <1>10, RpcAssumption, LockAssumption DEF Inv, CancelRemove, TypeOK,
       LockInv, SendPCs, client, locks, network, call, caller, receiver
  <2>3. SeqInv'
    BY <1>10, RpcAssumption, LockAssumption DEF Inv, CancelRemove, TypeOK,
       SeqInv, client, locks, network, call, caller, receiver
  <2>4. ChargeInv'
    <3>1. k \notin todo
      BY <1>10, LockAssumption DEF CancelRemove, Inv, LockInv, Receiver, Free
    <3>2. found'[k] => Filed(k)
      BY <1>10 DEF CancelRemove, Inv, TypeOK, Filed
    <3> QED BY <1>10, <2>a, <3>1, <3>2 DEF CancelRemove, Inv, TypeOK, ChargeInv, call,
               receiver
  <2>5. OutcomeInv'
    BY <1>10, RpcAssumption, LockAssumption DEF Inv, CancelRemove, TypeOK,
       OutcomeInv, client, locks, network, call, caller, receiver
  <2>6. WaitInv'
    BY <1>10, RpcAssumption, LockAssumption DEF Inv, CancelRemove, TypeOK,
       SeqInv, WaitInv, Filed, Receiving, client, locks, network, call,
       caller, receiver
  <2> QED BY <2>1, <2>2, <2>3, <2>4, <2>5, <2>6 DEF Inv
<1> QED BY <1>1, <1>2, <1>3, <1>4, <1>5, <1>6, <1>7, <1>8, <1>9, <1>10 DEF Caller

(* Every step of the receiver preserves the invariant.                     *)
LEMMA InvReceive == ASSUME Inv, receive PROVE Inv'
<1>1. CASE ReadHeader
  <2>1. TypeOK'
    BY <1>1, RpcAssumption, LockAssumption DEF Inv, ReadHeader, TypeOK,
       CallerPCs, ReceiverPCs, Errors, client, locks, network, call, caller,
       receiver
  <2>2. LockInv'
    BY <1>1, RpcAssumption, LockAssumption DEF Inv, ReadHeader, TypeOK,
       LockInv, SendPCs, client, locks, network, call, caller, receiver
  <2>3. SeqInv'
    BY <1>1, RpcAssumption, LockAssumption DEF Inv, ReadHeader, TypeOK,
       SeqInv, client, locks, network, call, caller, receiver
  <2>4. ChargeInv'
    BY <1>1, RpcAssumption, LockAssumption DEF Inv, ReadHeader, TypeOK,
       SeqInv, ChargeInv, Filed, Receiving, client, locks, network, call,
       caller, receiver
  <2>5. OutcomeInv'
    BY <1>1, RpcAssumption, LockAssumption DEF Inv, ReadHeader, TypeOK,
       OutcomeInv, client, locks, network, call, caller, receiver
  <2>6. WaitInv'
    BY <1>1, RpcAssumption, LockAssumption DEF Inv, ReadHeader, TypeOK,
       SeqInv, WaitInv, Filed, Receiving, client, locks, network, call,
       caller, receiver
  <2> QED BY <2>1, <2>2, <2>3, <2>4, <2>5, <2>6 DEF Inv
<1>2. CASE ReadHeaderFails
  <2>1. TypeOK'
    BY <1>2, RpcAssumption, LockAssumption DEF Inv, ReadHeaderFails, TypeOK,
       CallerPCs, ReceiverPCs, Errors, client, locks, network, call, caller,
       receiver
  <2>2. LockInv'
    BY <1>2, RpcAssumption, LockAssumption DEF Inv, ReadHeaderFails, TypeOK,
       LockInv, SendPCs, client, locks, network, call, caller, receiver
  <2>3. SeqInv'
    BY <1>2, RpcAssumption, LockAssumption DEF Inv, ReadHeaderFails, TypeOK,
       SeqInv, client, locks, network, call, caller, receiver
  <2>4. ChargeInv'
    BY <1>2, RpcAssumption, LockAssumption DEF Inv, ReadHeaderFails, TypeOK,
       SeqInv, ChargeInv, Filed, Receiving, client, locks, network, call,
       caller, receiver
  <2>5. OutcomeInv'
    BY <1>2, RpcAssumption, LockAssumption DEF Inv, ReadHeaderFails, TypeOK,
       OutcomeInv, client, locks, network, call, caller, receiver
  <2>6. WaitInv'
    BY <1>2, RpcAssumption, LockAssumption DEF Inv, ReadHeaderFails, TypeOK,
       SeqInv, WaitInv, Filed, Receiving, client, locks, network, call,
       caller, receiver
  <2> QED BY <2>1, <2>2, <2>3, <2>4, <2>5, <2>6 DEF Inv
<1>3. CASE ReceiveRemove
  <2>a. /\ rhdr.seq \in Seqs /\ rhdr.call \in Calls /\ CallSeq[rhdr.call] = rhdr.seq
        /\ rhdr \in Wires
    BY <1>3 DEF ReceiveRemove, Inv, SeqInv, Wires
  <2>b. /\ rcall' = pending[rhdr.seq] /\ rpc' = "body" /\ rpc = "remove"
        /\ pending' = [pending EXCEPT ![rhdr.seq] = NoCall]
        /\ UNCHANGED <<seq, closing, shutdown, locks, network, call, caller, rhdr,
                       rfail, rerr, todo>>
    BY <1>3 DEF ReceiveRemove
  <2>c. rcall' \in {NoCall, rhdr.call}
    BY <2>a, <2>b DEF Inv, TypeOK, SeqInv, Seqs
  <2>d. \A j \in Calls : /\ Filed(j)' <=> Filed(j) /\ j # rcall'
                         /\ Receiving(j)' <=> j = rcall'
                         /\ j = rcall' => Filed(j)
    <3>1. \A j \in Calls : CallSeq[j] # 0 => CallSeq[j] \in Seqs
      BY DEF Inv, TypeOK, Seqs
    <3>2. \A s \in Seqs : pending'[s] = IF s = rhdr.seq THEN NoCall ELSE pending[s]
      BY <2>b DEF Inv, TypeOK
    <3>3. \A j \in Calls : CallSeq[j] = rhdr.seq => j = rhdr.call
      BY <2>a DEF Inv, SeqInv, Seqs
    <3>4. CallSeq' = CallSeq /\ rhdr.seq # 0
      BY <2>a, <2>b DEF call, Seqs
    <3> QED BY <2>a, <2>b, <2>c, <3>1, <3>2, <3>3, <3>4, RpcAssumption
            DEF Filed, Receiving
  <2>1. TypeOK'
    BY <2>a, <2>b DEF Inv, TypeOK, ReceiverPCs, locks, network, call, caller
  <2>2. LockInv'
    BY <1>3, RpcAssumption, LockAssumption DEF Inv, ReceiveRemove, TypeOK,
       LockInv, SendPCs, client, locks, network, call, caller, receiver
  <2>3. SeqInv'
    BY <2>a, <2>b, <2>c DEF Inv, TypeOK, SeqInv, network, call, caller
  <2>4. ChargeInv'
    <3>1. todo = {} /\ todo' = todo
      BY <2>b DEF Inv, LockInv
    <3>2. \A j \in Calls : Filed(j) => completions[j] = 0 /\ ~found[j]
                                      /\ pc[j] \notin {"start", "register", "fail"}
      BY <2>b DEF Inv, ChargeInv
    <3> QED BY <2>b, <2>d, <3>1, <3>2 DEF Inv, ChargeInv, call, caller
  <2>5. OutcomeInv'
    BY <1>3, RpcAssumption, LockAssumption DEF Inv, ReceiveRemove, TypeOK,
       OutcomeInv, client, locks, network, call, caller, receiver
  <2>6. WaitInv'
    BY <2>b, <2>d DEF Inv, WaitInv, Receiving, call, caller
  <2> QED BY <2>1, <2>2, <2>3, <2>4, <2>5, <2>6 DEF Inv
<1>4. CASE ReadBody
  <2>1. TypeOK'
    <3>1. /\ Error' \in [Calls -> Errors]
          /\ Reply' \in [Calls -> Calls \cup {NoCall}]
          /\ rpc' \in ReceiverPCs
      BY <1>4 DEF ReadBody, Inv, TypeOK, SeqInv, Errors, Wires, ReceiverPCs
    <3>2. rerr' \in BOOLEAN
      BY <1>4 DEF ReadBody
    <3> QED BY <3>1, <3>2, <1>4 DEF ReadBody, Inv, TypeOK, client, locks, network,
               caller
  <2>2. LockInv'
    BY <1>4, RpcAssumption, LockAssumption DEF Inv, ReadBody, TypeOK, LockInv,
       SendPCs, client, locks, network, call, caller, receiver
  <2>3. SeqInv'
    BY <1>4, RpcAssumption, LockAssumption DEF Inv, ReadBody, TypeOK, SeqInv,
       client, locks, network, call, caller, receiver
  <2>4. ChargeInv'
    BY <1>4, RpcAssumption, LockAssumption DEF Inv, ReadBody, TypeOK, SeqInv,
       ChargeInv, Filed, Receiving, client, locks, network, call, caller,
       receiver
  <2>5. OutcomeInv'
    <3>1. CASE rcall = NoCall
      BY <1>4, <3>1 DEF ReadBody, Inv, TypeOK, OutcomeInv, caller
    <3>2. CASE rcall # NoCall
      <4>1. rcall \in Calls /\ rcall = rhdr.call /\ completions[rcall] = 0
            /\ pc[rcall] # "fail"
        BY <1>4, <3>2 DEF ReadBody, Inv, TypeOK, SeqInv, ChargeInv, Receiving
      <4>2. /\ \A j \in Calls \ {rcall} : Error'[j] = Error[j] /\ Reply'[j] = Reply[j]
            /\ Reply'[rcall] \in {rcall, NoCall}
            /\ Error'[rcall] = "nil" => Reply'[rcall] = rcall
        BY <1>4, <3>2, <4>1 DEF ReadBody, Inv, TypeOK, OutcomeInv
      <4> QED BY <1>4, <4>1, <4>2 DEF ReadBody, Inv, OutcomeInv, caller
    <3> QED BY <3>1, <3>2
  <2>6. WaitInv'
    BY <1>4, RpcAssumption, LockAssumption DEF Inv, ReadBody, TypeOK, SeqInv,
       WaitInv, Filed, Receiving, client, locks, network, call, caller,
       receiver
  <2> QED BY <2>1, <2>2, <2>3, <2>4, <2>5, <2>6 DEF Inv
<1>5. CASE ReceiveDone
  <2>1. TypeOK'
    <3>1. rcall \in Calls
      BY <1>5 DEF ReceiveDone, Inv, TypeOK, SeqInv
    <3>2. /\ Done' \in [Calls -> {0, 1}] /\ completions' \in [Calls -> Nat]
          /\ rpc' \in ReceiverPCs
      BY <1>5, <3>1 DEF ReceiveDone, done, Inv, TypeOK, ReceiverPCs
    <3> QED BY <3>2, <1>5 DEF ReceiveDone, Inv, TypeOK, client, locks, network, caller
  <2>2. LockInv'
    BY <1>5, RpcAssumption, LockAssumption DEF Inv, ReceiveDone, done, TypeOK,
       LockInv, SendPCs, client, locks, network, call, caller, receiver
  <2>3. SeqInv'
    BY <1>5, RpcAssumption, LockAssumption DEF Inv, ReceiveDone, done, TypeOK,
       SeqInv, client, locks, network, call, caller, receiver
  <2>4. ChargeInv'
    BY <1>5, RpcAssumption, LockAssumption DEF Inv, ReceiveDone, done, TypeOK,
       SeqInv, ChargeInv, Filed, Receiving, client, locks, network, call,
       caller, receiver
  <2>5. OutcomeInv'
    BY <1>5, RpcAssumption, LockAssumption DEF Inv, ReceiveDone, done, TypeOK,
       OutcomeInv, client, locks, network, call, caller, receiver
  <2>6. WaitInv'
    BY <1>5, RpcAssumption, LockAssumption DEF Inv, ReceiveDone, done, TypeOK,
       SeqInv, WaitInv, Filed, Receiving, client, locks, network, call,
       caller, receiver
  <2> QED BY <2>1, <2>2, <2>3, <2>4, <2>5, <2>6 DEF Inv
<1>6. CASE TerminateLock
  <2>1. TypeOK'
    BY <1>6, RpcAssumption, LockAssumption DEF Inv, TerminateLock, TypeOK,
       CallerPCs, ReceiverPCs, Errors, client, locks, network, call, caller,
       receiver
  <2>2. LockInv'
    BY <1>6, RpcAssumption, LockAssumption DEF Inv, TerminateLock, TypeOK,
       LockInv, SendPCs, client, locks, network, call, caller, receiver
  <2>3. SeqInv'
    BY <1>6, RpcAssumption, LockAssumption DEF Inv, TerminateLock, TypeOK,
       SeqInv, client, locks, network, call, caller, receiver
  <2>4. ChargeInv'
    BY <1>6, RpcAssumption, LockAssumption DEF Inv, TerminateLock, TypeOK,
       SeqInv, ChargeInv, Filed, Receiving, client, locks, network, call,
       caller, receiver
  <2>5. OutcomeInv'
    BY <1>6, RpcAssumption, LockAssumption DEF Inv, TerminateLock, TypeOK,
       OutcomeInv, client, locks, network, call, caller, receiver
  <2>6. WaitInv'
    BY <1>6, RpcAssumption, LockAssumption DEF Inv, TerminateLock, TypeOK,
       SeqInv, WaitInv, Filed, Receiving, client, locks, network, call,
       caller, receiver
  <2> QED BY <2>1, <2>2, <2>3, <2>4, <2>5, <2>6 DEF Inv
<1>7. CASE TerminateMark
  <2>a. \A j \in Calls : j \in todo' <=> Filed(j)
    BY <1>7, RpcAssumption DEF TerminateMark, Filed, Inv, TypeOK, SeqInv, Seqs
  <2>b. /\ rpc = "mark" /\ rpc' = "finish"
        /\ UNCHANGED <<pending, locks, call, caller, rcall>>
    BY <1>7 DEF TerminateMark
  <2>c. \A j \in Calls : (Filed(j)' <=> Filed(j)) /\ ~Receiving(j)'
    BY <2>b DEF Filed, Receiving, call
  <2>1. TypeOK'
    BY <1>7, RpcAssumption, LockAssumption DEF Inv, TerminateMark, TypeOK,
       CallerPCs, ReceiverPCs, Errors, client, locks, network, call, caller,
       receiver
  <2>2. LockInv'
    BY <1>7, RpcAssumption, LockAssumption DEF Inv, TerminateMark, TypeOK,
       LockInv, SendPCs, client, locks, network, call, caller, receiver
  <2>3. SeqInv'
    BY <1>7, RpcAssumption, LockAssumption DEF Inv, TerminateMark, TypeOK,
       SeqInv, client, locks, network, call, caller, receiver
  <2>4. ChargeInv'
    BY <2>a, <2>b, <2>c DEF Inv, ChargeInv, call, caller
  <2>5. OutcomeInv'
    BY <1>7, RpcAssumption, LockAssumption DEF Inv, TerminateMark, TypeOK,
       OutcomeInv, client, locks, network, call, caller, receiver
  <2>6. WaitInv'
    BY <2>a, <2>b, <2>c DEF Inv, WaitInv, Receiving, call, caller
  <2> QED BY <2>1, <2>2, <2>3, <2>4, <2>5, <2>6 DEF Inv
<1>8. CASE TerminateUnlock
  <2>1. TypeOK'
    BY <1>8, RpcAssumption, LockAssumption DEF Inv, TerminateUnlock, TypeOK,
       CallerPCs, ReceiverPCs, Errors, client, locks, network, call, caller,
       receiver
  <2>2. LockInv'
    <3>1. /\ rpc = "finish" /\ rpc' = "exited" /\ sending' = Free /\ mu' = Free
          /\ todo' = {} /\ UNCHANGED <<shutdown, pc>>
      BY <1>8 DEF TerminateUnlock, client, caller
    <3>2. \A j \in Calls : pc[j] \notin SendPCs
      BY <3>1, LockAssumption DEF Inv, LockInv
    <3>3. \A j \in Calls : pc'[j] \in SendPCs <=> sending' = j
      BY <3>1, <3>2, LockAssumption
    <3>4. Free # Receiver
      BY DEF Free, Receiver
    <3> QED BY <3>1, <3>2, <3>3, <3>4 DEF Inv, LockInv, SendPCs
  <2>3. SeqInv'
    BY <1>8, RpcAssumption, LockAssumption DEF Inv, TerminateUnlock, TypeOK,
       SeqInv, client, locks, network, call, caller, receiver
  <2>4. ChargeInv'
    BY <1>8, RpcAssumption, LockAssumption DEF Inv, TerminateUnlock, TypeOK,
       SeqInv, ChargeInv, Filed, Receiving, client, locks, network, call,
       caller, receiver
  <2>5. OutcomeInv'
    BY <1>8, RpcAssumption, LockAssumption DEF Inv, TerminateUnlock, TypeOK,
       OutcomeInv, client, locks, network, call, caller, receiver
  <2>6. WaitInv'
    BY <1>8, RpcAssumption, LockAssumption DEF Inv, TerminateUnlock, TypeOK,
       SeqInv, WaitInv, Filed, Receiving, client, locks, network, call,
       caller, receiver
  <2> QED BY <2>1, <2>2, <2>3, <2>4, <2>5, <2>6 DEF Inv
<1>9. ASSUME NEW k \in Calls, TerminateDone(k) PROVE Inv'
  <2>1. TypeOK'
    BY <1>9, RpcAssumption, LockAssumption DEF Inv, TerminateDone, done,
       TypeOK, CallerPCs, ReceiverPCs, Errors, client, locks, network, call,
       caller, receiver
  <2>2. LockInv'
    BY <1>9, RpcAssumption, LockAssumption DEF Inv, TerminateDone, done,
       TypeOK, LockInv, SendPCs, client, locks, network, call, caller,
       receiver
  <2>3. SeqInv'
    BY <1>9, RpcAssumption, LockAssumption DEF Inv, TerminateDone, done,
       TypeOK, SeqInv, client, locks, network, call, caller, receiver
  <2>4. ChargeInv'
    BY <1>9, RpcAssumption, LockAssumption DEF Inv, TerminateDone, done,
       TypeOK, SeqInv, ChargeInv, Filed, Receiving, client, locks, network,
       call, caller, receiver
  <2>5. OutcomeInv'
    BY <1>9, RpcAssumption, LockAssumption DEF Inv, TerminateDone, done,
       TypeOK, OutcomeInv, client, locks, network, call, caller, receiver
  <2>6. WaitInv'
    BY <1>9, RpcAssumption, LockAssumption DEF Inv, TerminateDone, done,
       TypeOK, SeqInv, WaitInv, Filed, Receiving, client, locks, network,
       call, caller, receiver
  <2> QED BY <2>1, <2>2, <2>3, <2>4, <2>5, <2>6 DEF Inv
<1> QED BY <1>1, <1>2, <1>3, <1>4, <1>5, <1>6, <1>7, <1>8, <1>9 DEF receive, terminateCalls

(* Closing the client and a hang-up of the server preserve the invariant.  *)
LEMMA InvBreak == ASSUME Inv, Close \/ HangUp PROVE Inv'
<1>1. /\ conn' \in {"hungup", "closed"} /\ closing' \in BOOLEAN
      /\ UNCHANGED <<seq, pending, shutdown, locks, wire, call, caller, receiver>>
  BY DEF Close, HangUp, Inv, TypeOK, client
<1>2. TypeOK'
  BY <1>1 DEF Inv, TypeOK, locks, call, caller, receiver
<1>3. LockInv' /\ SeqInv'
  BY <1>1 DEF Inv, LockInv, SeqInv, locks, call, caller, receiver
<1>4. ChargeInv' /\ OutcomeInv' /\ WaitInv'
  BY <1>1 DEF Inv, ChargeInv, OutcomeInv, WaitInv, Filed, Receiving, call, caller,
     receiver
<1> QED BY <1>2, <1>3, <1>4 DEF Inv

-----------------------------------------------------------------------------
(* The invariant holds in every behaviour of the client.                   *)
THEOREM InvAlways == Spec => []Inv
<1>1. Inv /\ [Next]_vars => Inv'
  <2>1. Inv /\ UNCHANGED vars => Inv'
    BY DEF vars, client, locks, network, call, caller, receiver, Inv, TypeOK,
       LockInv, SeqInv, ChargeInv, OutcomeInv, WaitInv, Filed, Receiving
  <2> QED BY <2>1, InvCaller, InvReceive, InvBreak DEF Next
<1> QED BY InvInit, <1>1, PTL DEF Spec

(* Every variable of the client keeps its type.                            *)
THEOREM TypeCorrect == Spec => []TypeOK
<1>1. Inv => TypeOK
  BY DEF Inv
<1> QED BY <1>1, InvAlways, PTL

(* A call is finished at most once, whichever of answer, failed write and  *)
(* broken connection comes first.                                          *)
THEOREM FinishedOnce == Spec => []DoneOnce
<1>1. Inv => DoneOnce
  <2> SUFFICES ASSUME Inv, NEW k \in Calls PROVE completions[k] <= 1
    BY DEF DoneOnce
  <2>1. completions[k] = 0 \/ completions[k] = 1
    BY DEF Inv, ChargeInv
  <2> QED BY <2>1
<1> QED BY <1>1, InvAlways, PTL

(* No goroutine blocks on a Done channel while it holds sending or mu.     *)
THEOREM NeverBlocked == Spec => []DoneNeverBlocks
<1>1. Inv => DoneNeverBlocks
  <2>1. ASSUME Inv, NEW k \in Calls, completions[k] = 0
        PROVE  Done[k] = 0
    BY <2>1 DEF Inv, TypeOK, ChargeInv
  <2> QED BY <2>1 DEF Inv, TypeOK, SeqInv, ChargeInv, DoneNeverBlocks, Receiving
<1> QED BY <1>1, InvAlways, PTL

(* A call gets the answer to its own request.                              *)
THEOREM AnswersOwn == Spec => []OwnReply
<1>1. Inv => OwnReply
  <2>1. ASSUME Inv, NEW k \in Calls, Done[k] = 1
        PROVE  completions[k] = 1
    BY <2>1 DEF Inv, TypeOK, ChargeInv
  <2> QED BY <2>1 DEF Inv, OutcomeInv, OwnReply
<1> QED BY <1>1, InvAlways, PTL

(* When the receiver has gone, no call is left waiting for it.             *)
THEOREM NoneOrphaned == Spec => []NoOrphans
<1>1. Inv => NoOrphans
  BY DEF Inv, LockInv, WaitInv, NoOrphans, Receiving
<1> QED BY <1>1, InvAlways, PTL

(* After a cancelled call took itself out of pending, nobody touches it.   *)
THEOREM LateDropped == Spec => LateAnswerDropped
<1>1. ASSUME Inv, [Next]_vars, NEW k \in Calls, pc[k] = "returned", found[k]
      PROVE  /\ Reply'[k] = Reply[k] /\ Error'[k] = Error[k]
             /\ completions'[k] = completions[k]
  <2>1. k \notin todo /\ ~(rpc \in {"body", "done"} /\ rcall = k)
    BY <1>1 DEF Inv, ChargeInv, Receiving
  <2>2. ASSUME NEW j \in Calls, Caller(j) \/ SelectCtx(j)
        PROVE  /\ Reply'[k] = Reply[k] /\ Error'[k] = Error[k]
               /\ completions'[k] = completions[k]
    <3>1. CASE pc[j] \in {"register", "writeremove", "fail"}
      BY <1>1, <2>2, <3>1 DEF Caller, SendLock, registerCall, Write, WriteClose,
         WriteRemove, SendDone, done, SendUnlock, SelectDone, SelectCtx,
         CancelRemove, Inv, TypeOK
    <3>2. CASE pc[j] \notin {"register", "writeremove", "fail"}
      BY <2>2, <3>2 DEF Caller, SendLock, registerCall, Write, WriteClose,
         WriteRemove, SendDone, SendUnlock, SelectDone, SelectCtx, CancelRemove,
         call
    <3> QED BY <3>1, <3>2
  <2>3. ASSUME receive
        PROVE  /\ Reply'[k] = Reply[k] /\ Error'[k] = Error[k]
               /\ completions'[k] = completions[k]
    <3>1. CASE ReadBody
      BY <1>1, <2>1, <3>1 DEF ReadBody, Inv, TypeOK
    <3>2. CASE ReceiveDone
      BY <1>1, <2>1, <3>2 DEF ReceiveDone, done, Inv, TypeOK
    <3>3. ASSUME NEW j \in Calls, TerminateDone(j)
          PROVE  /\ Reply'[k] = Reply[k] /\ Error'[k] = Error[k]
                 /\ completions'[k] = completions[k]
      BY <1>1, <2>1, <3>3 DEF TerminateDone, done, Inv, TypeOK
    <3>4. CASE \/ ReadHeader \/ ReadHeaderFails \/ ReceiveRemove
               \/ TerminateLock \/ TerminateMark \/ TerminateUnlock
      BY <3>4 DEF ReadHeader, ReadHeaderFails, ReceiveRemove, TerminateLock,
         TerminateMark, TerminateUnlock, call
    <3> QED BY <2>3, <3>1, <3>2, <3>3, <3>4 DEF receive, terminateCalls
  <2>4. CASE Close \/ HangUp \/ UNCHANGED vars
    BY <2>4 DEF Close, HangUp, vars, call
  <2> QED BY <1>1, <2>2, <2>3, <2>4 DEF Next
<1>2. Inv /\ [Next]_vars =>
        [\A k \in Calls : pc[k] = "returned" /\ found[k] =>
           /\ Reply'[k] = Reply[k] /\ Error'[k] = Error[k]
           /\ completions'[k] = completions[k]]_vars
  BY <1>1
<1> QED BY <1>2, InvAlways, PTL DEF Spec, LateAnswerDropped
=============================================================================
