------------------------- MODULE ObjectServerProofs -------------------------
(***************************************************************************)
(* Proofs about ObjectServer, for any number of clients, threads and       *)
(* descriptors.  The invariant has three layers.  Holding: a Connection is *)
(* with one thread, in one batch of events or behind one armed             *)
(* registration, never two.  Descriptors: a socket is behind one number,   *)
(* and behind none before it is accepted.  The dialogue: as long as no     *)
(* other connection has hit the socket of a client, what is under way on   *)
(* it and what its Connection has noted add up to one request, or to one   *)
(* response.                                                               *)
(***************************************************************************)
EXTENDS ObjectServer, FiniteSetTheorems, TLAPS

Kinds == {"err", "in", "out"}
Idle == {"none", "pool", "loop", "del"}
Closing == {"addfailed", "readdel", "readclose", "writeclose"}
Busy == {"add", "modin", "modout"} \cup Closing
Units == (SUBSET Clients) \X Int \X Int

ThreadShape ==
  /\ pc \in [Threads -> Idle \cup Busy]
  /\ at \in [Threads -> Clients \cup {None}]
  /\ connfd \in [Threads -> Descriptors \cup {0}]
  /\ \A t \in Threads : /\ pc[t] \in Busy <=> at[t] # None
                        /\ pc[t] \in Busy \cup {"del"} => connfd[t] \in Descriptors
BatchShape ==
  todo \in [Threads -> SUBSET ((Kinds \X Clients) \cup {<<"listen", None>>})]
TableShape ==
  /\ fd \in [Descriptors -> Clients \cup {None}]
  /\ reg \in [Clients -> Registrations \cup {None}]
  /\ conn \in [Clients -> Connections \cup {None}]
NetShape ==
  /\ backlog \in Seq(Clients)
  /\ up \in [Clients -> Seq(Clients)] /\ down \in [Clients -> Seq(Units)]
  /\ peer \in [Clients -> {"none", "open", "refused", "shut", "reset"}]
ClientShape ==
  /\ client \in [Clients -> {"new", "send", "recv", "payload", "done", "closed"}]
  /\ sent \in [Clients -> Nat]
Shape == ThreadShape /\ BatchShape /\ TableShape /\ NetShape /\ ClientShape

(* Who can touch Connection c: thread t is handling it, has an event for   *)
(* it in its batch, or socket s will report one.                           *)
Handles(t, c) == at[t] = c
Pending(t, k, c) == <<k, c>> \in todo[t]
Armed(s, c) == reg[s] # None /\ reg[s].ptr = c /\ reg[s].armed # "no"
Unheld(c) ==
  /\ \A t \in Threads : ~Handles(t, c) /\ \A k \in Kinds : ~Pending(t, k, c)
  /\ \A s \in Clients : ~Armed(s, c)
HeldOnce(c) ==
  /\ \A t, u \in Threads :
       /\ Handles(t, c) /\ Handles(u, c) => t = u
       /\ \A k \in Kinds : ~(Handles(t, c) /\ Pending(u, k, c))
       /\ \A k, l \in Kinds : Pending(t, k, c) /\ Pending(u, l, c) => t = u /\ k = l
       /\ \A s \in Clients : ~(Handles(t, c) /\ Armed(s, c))
       /\ \A s \in Clients, k \in Kinds : ~(Pending(t, k, c) /\ Armed(s, c))
  /\ \A r, s \in Clients : Armed(r, c) /\ Armed(s, c) => r = s
HoldInv == \A c \in Clients : HeldOnce(c) /\ (conn[c] = None => Unheld(c))

(* A client that is not accepted yet has neither a Connection nor a        *)
(* descriptor.                                                             *)
Queued(c) == \E i \in 1 .. Len(backlog) : backlog[i] = c
QueueInv ==
  /\ \A i, j \in 1 .. Len(backlog) : backlog[i] = backlog[j] => i = j
  /\ \A i \in 1 .. Len(backlog) : client[backlog[i]] # "new"
  /\ \A c \in Clients : client[c] = "new" \/ Queued(c) =>
       conn[c] = None /\ \A n \in Descriptors : fd[n] # c
FdInv == \A n, m \in Descriptors : fd[n] = fd[m] /\ fd[n] # None => n = m

(* Connection c is in use: somebody holds it, and is not closing it.       *)
Served(c) == ~Unheld(c) /\ \A t \in Threads : Handles(t, c) => pc[t] \notin Closing

(* The dialogue with client c.  It reads a response from its second unit   *)
(* on while it waits for the payload; what was sent and not yet answered   *)
(* is on its way or noted in the Connection k.                             *)
Off(c) == IF client[c] = "payload" THEN 1 ELSE 0
Due(c) == IF client[c] = "send" THEN sent[c] ELSE LenUnits + DataUnits
Own(c) == \A i \in 1 .. Len(up[c]) : up[c][i] = c
Response(c, len) ==
  /\ len \in 1 .. 2 /\ Off(c) + Len(down[c]) <= len
  /\ \A i \in 1 .. Len(down[c]) : down[c][i] = <<{c}, Off(c) + i, len>>
Reading(k) ==
  /\ k.outPtr = 0 /\ k.outLen = 0
  /\ \/ k.state = "READ_DATA" /\ k.lenPtr = LenUnits /\ k.inPtr < DataUnits
     \/ k.state \in {"INIT", "READ_LEN"} /\ k.inPtr = 0 /\ k.lenPtr < LenUnits
Fresh(k) == Reading(k) /\ k.lenPtr = 0 /\ k.inPtr = 0
Requesting(c, k) ==
  /\ client[c] \in {"send", "recv"} /\ down[c] = <<>> /\ Reading(k)
  /\ k.lenPtr + k.inPtr + Len(up[c]) = Due(c)
Answering(c, k) ==
  /\ client[c] \in {"recv", "payload"} /\ up[c] = <<>>
  /\ k.state = "WRITE_DATA" /\ k.lenPtr = 0 /\ k.inPtr = 0 /\ k.from = {c}
  /\ k.outPtr < k.outLen /\ Off(c) + Len(down[c]) = k.outPtr /\ Response(c, k.outLen)
Answered(c, k) ==
  /\ client[c] \in {"recv", "payload"} /\ up[c] = <<>> /\ Fresh(k)
  /\ down[c] # <<>> /\ Response(c, Off(c) + Len(down[c]))
Finished(c, k) ==
  client[c] = "done" /\ up[c] = <<>> /\ down[c] = <<>> /\ Fresh(k)
InStep(c, k) ==
  /\ k.from \subseteq {c} /\ Own(c)
  /\ Requesting(c, k) \/ Answering(c, k) \/ Answered(c, k) \/ Finished(c, k)
Talk(c) ==
  /\ client[c] = "new" => up[c] = <<>> /\ down[c] = <<>>
  /\ down[c] # <<>> => /\ client[c] \in {"recv", "payload"}
                       /\ \E len \in 1 .. 2 : Response(c, len)
  /\ Queued(c) /\ client[c] # "closed" =>
       /\ client[c] \in {"send", "recv"} /\ down[c] = <<>>
       /\ Own(c) /\ Len(up[c]) = Due(c)
  /\ Served(c) /\ client[c] # "closed" => fd[conn[c].fd] = c /\ InStep(c, conn[c])
ClientInv ==
  \A c \in Clients :
    /\ client[c] = "send" => sent[c] < LenUnits + DataUnits
    /\ client[c] = "new" => sent[c] = 0
    /\ client[c] = "closed" => peer[c] # "open"
    /\ client[c] \notin {"new", "closed"} => peer[c] \in {"open", "refused"}
TalkInv == ClientInv /\ \A c \in Clients \ stolen : Talk(c)

(* A step of a thread leaves the dialogue with client d alone.             *)
Spared(d) ==
  /\ up'[d] = up[d] /\ down'[d] = down[d]
  /\ Served(d)' => /\ Served(d) /\ conn'[d] = conn[d]
                   /\ fd[conn[d].fd] = d => fd'[conn[d].fd] = d

(* It accepts nobody, and does nothing for a client.                       *)
Plain ==
  /\ UNCHANGED <<backlog, client, sent>>
  /\ \A d \in Clients : /\ conn[d] = None => conn'[d] = None
                        /\ \/ peer'[d] = peer[d]
                           \/ peer[d] = "shut" /\ peer'[d] = "reset"
  /\ \A n \in Descriptors : fd'[n] \in {fd[n], None}
Accepted(d) ==
  /\ Queued(d) /\ up'[d] = up[d] /\ down'[d] = down[d]
  /\ \E n \in Descriptors : conn'[d] = ConnectionInit(n) /\ fd'[n] = d
Quiet == Plain /\ \A d \in Clients \ stolen' : Spared(d)
-----------------------------------------------------------------------------
(* A set of numbers has a smallest one, which Min chooses.                 *)
LEMMA LeastNumber ==
  ASSUME NEW S \in SUBSET Nat, S # {}
  PROVE  Min(S) \in S
<1> DEFINE Below(n) == {m \in S : m < n}
           Segments == {Below(n) : n \in S}
           R == StrictSubsetOrdering(S)
<1>1. \A m \in S : m \in Nat
  OBVIOUS
<1>2. Segments \subseteq FiniteSubsetsOf(S)
  <2>1. SUFFICES ASSUME NEW n \in S PROVE IsFiniteSet(Below(n))
    BY DEF FiniteSubsetsOf
  <2>2. Below(n) \in SUBSET Nat /\ n \in Nat
    OBVIOUS
  <2>3. \A m \in Below(n) : m \in Nat /\ m < n
    OBVIOUS
  <2>4. \A m \in Below(n) : m <= n
    BY ONLY <2>2, <2>3
  <2>5. QED
    BY ONLY <2>2, <2>4, FS_BoundedSetOfNaturals
<1>3. PICK B \in Segments : \A A \in Segments : <<A, B>> \notin R
  <2>1. IsWellFoundedOn(R, FiniteSubsetsOf(S))
    BY FS_StrictSubsetOrderingWellFounded
  <2>2. Segments # {}
    OBVIOUS
  <2> HIDE DEF Segments, R
  <2>3. QED
    BY <1>2, <2>1, <2>2, WFMin
<1>4. PICK n \in S : B = Below(n)
  OBVIOUS
<1>5. ASSUME NEW y \in S, y < n
      PROVE  FALSE
  <2>1. Below(y) \in Segments /\ Below(n) \in Segments
    OBVIOUS
  <2>2. y \in Below(n) /\ y \notin Below(y)
    BY <1>1, <1>5
  <2>3. \A m \in S : m < y => m < n
    BY <1>1, <1>5
  <2>4. Below(y) \subseteq Below(n)
    BY <2>3
  <2>5. <<Below(y), Below(n)>> \in R
    BY <2>2, <2>4 DEF StrictSubsetOrdering
  <2>6. QED
    BY <1>3, <1>4, <2>1, <2>5
<1>6. \A y \in S : n <= y
  BY <1>1, <1>5
<1>7. QED
  BY <1>6 DEF Min

(* The smaller of two numbers.                                             *)
LEMMA LesserOf ==
  ASSUME NEW a \in Int, NEW b \in Int
  PROVE  /\ Min({a, b}) \in {a, b} /\ Min({a, b}) \in Int
         /\ Min({a, b}) <= a /\ Min({a, b}) <= b
<1>1. \E x \in {a, b} : \A y \in {a, b} : x <= y
  BY a <= b \/ b <= a
<1>2. Min({a, b}) \in {a, b} /\ \A y \in {a, b} : Min({a, b}) <= y
  BY <1>1 DEF Min
<1>3. QED
  BY <1>2
-----------------------------------------------------------------------------
(* What the system calls leave behind.                                     *)

(* None is neither a client, a Connection nor a registration.              *)
LEMMA NoneApart ==
  None \notin Clients /\ None \notin Connections /\ None \notin Registrations
BY ServerAssumption

(* stolen only grows, and a call for one connection on the descriptor of   *)
(* another is recorded.                                                    *)
LEMMA StealEffect ==
  ASSUME NEW n, NEW c, Steal(n, c)
  PROVE  /\ stolen \subseteq stolen'
         /\ \A d \in Clients : fd[n] = d /\ d # c => d \in stolen'
BY NoneApart DEF Steal

(* close: the number is free, the registration of its socket is gone.      *)
LEMMA CloseEffect ==
  ASSUME TableShape, NEW n \in Descriptors, NEW c, CloseFd(n, c)
  PROVE  /\ fd' \in [Descriptors -> Clients \cup {None}]
         /\ fd'[n] = None /\ \A m \in Descriptors \ {n} : fd'[m] = fd[m]
         /\ reg' \in [Clients -> Registrations \cup {None}]
         /\ \A s, d \in Clients : Armed(s, d)' => Armed(s, d)
         /\ stolen \subseteq stolen'
         /\ \A d \in Clients : fd[n] = d /\ d # c => d \in stolen'
<1>1. Steal(n, c)
  BY DEF CloseFd
<1>2. fd' = [fd EXCEPT ![n] = None]
  BY DEF CloseFd
<1>3. reg' = [s \in Clients |-> IF s = fd[n] THEN None ELSE reg[s]]
  BY DEF CloseFd
<1>4. reg' \in [Clients -> Registrations \cup {None}]
  BY <1>3 DEF TableShape
<1>5. \A s \in Clients : reg'[s] \in {reg[s], None}
  BY <1>3
<1>6. \A s, d \in Clients : Armed(s, d)' => Armed(s, d)
  BY <1>5 DEF Armed
<1>7. QED
  BY <1>1, <1>2, <1>4, <1>6, StealEffect DEF TableShape

(* EPOLL_CTL_DEL: the registration of the socket is gone.                  *)
LEMMA DelEffect ==
  ASSUME TableShape, NEW n \in Descriptors, NEW c, EpollDel(n, c)
  PROVE  /\ reg' \in [Clients -> Registrations \cup {None}]
         /\ \A s, d \in Clients : Armed(s, d)' => Armed(s, d)
         /\ stolen \subseteq stolen'
         /\ \A d \in Clients : fd[n] = d /\ d # c => d \in stolen'
<1>1. Steal(n, c)
  BY DEF EpollDel
<1>3. reg' = [s \in Clients |-> IF s = fd[n] THEN None ELSE reg[s]]
  BY DEF EpollDel
<1>4. reg' \in [Clients -> Registrations \cup {None}]
  BY <1>3 DEF TableShape
<1>5. \A s \in Clients : reg'[s] \in {reg[s], None}
  BY <1>3
<1>6. \A s, d \in Clients : Armed(s, d)' => Armed(s, d)
  BY <1>5 DEF Armed
<1>7. QED
  BY <1>1, <1>4, <1>6, StealEffect

(* EPOLL_CTL_MOD: the socket behind n may become armed, for Connection c;  *)
(* nothing else does.                                                      *)
LEMMA ModEffect ==
  ASSUME TableShape, NEW n \in Descriptors, NEW c \in Clients,
         NEW armed \in {"in", "out"}, EpollMod(n, c, armed)
  PROVE  /\ reg' \in [Clients -> Registrations \cup {None}]
         /\ \A s, d \in Clients : Armed(s, d)' => Armed(s, d) \/ (d = c /\ s = fd[n])
         /\ stolen \subseteq stolen'
         /\ \A d \in Clients : fd[n] = d /\ d # c => d \in stolen'
<1>1. Steal(n, c)
  BY DEF EpollMod
<1>2. \A s \in Clients :
        reg'[s] = IF s = fd[n] /\ reg[s] # None
                  THEN [ptr |-> c, armed |-> armed] ELSE reg[s]
  BY DEF EpollMod
<1>3. reg' \in [Clients -> Registrations \cup {None}]
  <2>1. [ptr |-> c, armed |-> armed] \in Registrations
    BY DEF Registrations
  <2>2. reg' = [s \in Clients |-> reg'[s]]
    BY DEF EpollMod
  <2>3. QED
    BY <1>2, <2>1, <2>2 DEF TableShape
<1>4. \A s, d \in Clients : Armed(s, d)' => Armed(s, d) \/ (d = c /\ s = fd[n])
  BY <1>2 DEF Armed
<1>5. QED
  BY <1>1, <1>3, <1>4, StealEffect

(* A thread goes from one position to another.                             *)
LEMMA GoEffect ==
  ASSUME ThreadShape, NEW t \in Threads, NEW where \in {"loop", "del"} \cup Busy,
         NEW c \in Clients \cup {None}, NEW n \in Descriptors \cup {0},
         where \in Busy <=> c # None, where # "loop" => n \in Descriptors,
         Go(t, where, c, n)
  PROVE  /\ ThreadShape' /\ at'[t] = c /\ pc'[t] = where /\ connfd'[t] = n
         /\ \A u \in Threads \ {t} : at'[u] = at[u] /\ pc'[u] = pc[u]
<1>1. /\ pc' = [pc EXCEPT ![t] = where] /\ at' = [at EXCEPT ![t] = c]
      /\ connfd' = [connfd EXCEPT ![t] = n]
  BY DEF Go
<1>2. /\ at'[t] = c /\ pc'[t] = where /\ connfd'[t] = n
      /\ \A u \in Threads \ {t} : /\ at'[u] = at[u] /\ pc'[u] = pc[u]
                                  /\ connfd'[u] = connfd[u]
  BY <1>1 DEF ThreadShape
<1>3. /\ pc' \in [Threads -> Idle \cup Busy]
      /\ at' \in [Threads -> Clients \cup {None}]
      /\ connfd' \in [Threads -> Descriptors \cup {0}]
  BY <1>1 DEF ThreadShape, Idle
<1>4. ASSUME NEW u \in Threads
      PROVE  /\ pc'[u] \in Busy <=> at'[u] # None
             /\ pc'[u] \in Busy \cup {"del"} => connfd'[u] \in Descriptors
  <2>1. CASE u = t
    BY <1>2, <2>1 DEF Busy, Closing
  <2>2. CASE u # t
    BY <1>2, <2>2 DEF ThreadShape
  <2>3. QED
    BY <2>1, <2>2
<1>5. QED
  BY <1>2, <1>3, <1>4 DEF ThreadShape

(* A thread that is done with a Connection handles none.                   *)
LEMMA BackEffect ==
  ASSUME ThreadShape, NEW t \in Threads, Back(t)
  PROVE  /\ ThreadShape' /\ at'[t] = None /\ pc'[t] = "loop"
         /\ \A u \in Threads \ {t} : at'[u] = at[u] /\ pc'[u] = pc[u]
<1>1. Go(t, "loop", None, 0)
  BY DEF Back
<1>2. "loop" \notin Busy
  BY DEF Busy, Closing
<1>3. QED
  BY ONLY ThreadShape, t \in Threads, <1>1, <1>2, GoEffect

(* A thread that handles an event had it in its batch, and has no          *)
(* Connection in its hands; the Connection it is for exists.               *)
LEMMA EventEffect ==
  ASSUME ThreadShape, BatchShape, TableShape, HoldInv,
         NEW t \in Threads, NEW k \in Kinds, NEW c \in Clients, Event(t, k, c)
  PROVE  /\ BatchShape' /\ Pending(t, k, c) /\ at[t] = None /\ pc[t] = "loop"
         /\ \A u \in Threads, l \in Kinds, d \in Clients :
              Pending(u, l, d)' => Pending(u, l, d) /\ ~(u = t /\ l = k /\ d = c)
         /\ conn[c] \in Connections /\ conn[c].fd \in Descriptors
<1>1. pc[t] = "loop" /\ <<k, c>> \in todo[t] /\ todo' = [todo EXCEPT ![t] = @ \ {<<k, c>>}]
  BY DEF Event
<1>2. BatchShape'
  BY <1>1 DEF BatchShape
<1>3. at[t] = None
  BY <1>1 DEF ThreadShape, Busy, Closing
<1>4. ASSUME NEW u \in Threads, NEW l \in Kinds, NEW d \in Clients, Pending(u, l, d)'
      PROVE  Pending(u, l, d) /\ ~(u = t /\ l = k /\ d = c)
  <2>1. <<l, d>> \in todo'[u]
    BY <1>4 DEF Pending
  <2>2. CASE u = t
    <3>1. <<l, d>> \in todo[t] \ {<<k, c>>}
      BY <1>1, <2>1, <2>2 DEF BatchShape
    <3>2. QED
      BY <2>2, <3>1 DEF Pending
  <2>3. CASE u # t
    BY <1>1, <2>1, <2>3 DEF BatchShape, Pending
  <2>4. QED
    BY <2>2, <2>3
<1>5. Pending(t, k, c)
  BY <1>1 DEF Pending
<1>6. conn[c] # None
  BY <1>5 DEF HoldInv, Unheld
<1>7. conn[c] \in Connections
  BY <1>6 DEF TableShape
<1>8. QED
  BY <1>1, <1>2, <1>3, <1>4, <1>5, <1>7 DEF Connections
-----------------------------------------------------------------------------
(* Holding.  A step leaves the holders of a Connection alone or takes some *)
(* away, or it hands the Connection on from its one holder to another.     *)

Fewer(d) ==
  /\ \A u \in Threads : Handles(u, d)' => Handles(u, d)
  /\ \A u \in Threads, l \in Kinds : Pending(u, l, d)' => Pending(u, l, d)
  /\ \A s \in Clients : Armed(s, d)' => Armed(s, d)

(* With fewer holders, or none, a Connection is still held once.           *)
LEMMA FewerHolds ==
  ASSUME HoldInv, NEW d \in Clients, Fewer(d),
         conn'[d] = None => conn[d] = None \/ Unheld(d)'
  PROVE  HeldOnce(d)' /\ (conn'[d] = None => Unheld(d)')
<1>1. HeldOnce(d) /\ (conn[d] = None => Unheld(d))
  BY DEF HoldInv
<1>2. HeldOnce(d)'
  BY <1>1 DEF Fewer, HeldOnce
<1>3. Unheld(d) => Unheld(d)'
  BY DEF Fewer, Unheld
<1>4. QED
  BY <1>1, <1>2, <1>3

(* A thread takes an event out of its batch and handles it.                *)
LEMMA TakenHolds ==
  ASSUME ThreadShape, HoldInv, NEW t \in Threads, NEW k \in Kinds, NEW c \in Clients,
         Pending(t, k, c),
         \A u \in Threads, l \in Kinds, d \in Clients :
           Pending(u, l, d)' => Pending(u, l, d) /\ ~(u = t /\ l = k /\ d = c),
         at'[t] = c, \A u \in Threads \ {t} : at'[u] = at[u],
         \A s, d \in Clients : Armed(s, d)' => Armed(s, d),
         \A d \in Clients : conn'[d] = None => conn[d] = None
  PROVE  HoldInv'
<1>1. HeldOnce(c) /\ (conn[c] = None => Unheld(c))
  BY DEF HoldInv
<1>2. HeldOnce(c)'
  BY <1>1 DEF HeldOnce, Handles
<1>3. conn'[c] # None
  BY <1>1 DEF Unheld
<1>4. ASSUME NEW d \in Clients, d # c
      PROVE  HeldOnce(d)' /\ (conn'[d] = None => Unheld(d)')
  <2>1. Fewer(d)
    BY <1>4 DEF Fewer, Handles
  <2>2. QED
    BY <2>1, FewerHolds
<1>5. QED
  BY <1>2, <1>3, <1>4 DEF HoldInv

(* A thread lets a Connection go, to the registration of a socket or to    *)
(* nobody.                                                                 *)
LEMMA ArmedHolds ==
  ASSUME ThreadShape, HoldInv, NEW t \in Threads, NEW c \in Clients, NEW r,
         at[t] = c, at'[t] = None, \A u \in Threads \ {t} : at'[u] = at[u],
         UNCHANGED <<todo, conn>>,
         \A s, d \in Clients : Armed(s, d)' => Armed(s, d) \/ (d = c /\ s = r)
  PROVE  HoldInv'
<1>1. HeldOnce(c) /\ (conn[c] = None => Unheld(c))
  BY DEF HoldInv
<1>2. Handles(t, c)
  BY DEF Handles
<1>3. \A u \in Threads : ~Handles(u, c)' /\ \A l \in Kinds : ~Pending(u, l, c)'
  BY <1>1, <1>2, NoneApart DEF HeldOnce, Handles, Pending
<1>4. \A s \in Clients : Armed(s, c)' => s = r
  BY <1>1, <1>2 DEF HeldOnce
<1>5. HeldOnce(c)'
  BY <1>3, <1>4 DEF HeldOnce
<1>6. conn'[c] # None
  BY <1>1, <1>2 DEF Unheld
<1>7. ASSUME NEW d \in Clients, d # c
      PROVE  HeldOnce(d)' /\ (conn'[d] = None => Unheld(d)')
  <2>1. \A u \in Threads : Handles(u, d)' => Handles(u, d)
    BY NoneApart DEF Handles
  <2>2. \A u \in Threads, l \in Kinds : Pending(u, l, d)' => Pending(u, l, d)
    BY DEF Pending
  <2>3. Fewer(d)
    BY <1>7, <2>1, <2>2 DEF Fewer
  <2>4. QED
    BY <2>3, FewerHolds
<1>8. QED
  BY <1>5, <1>6, <1>7 DEF HoldInv

(* The one holder of a Connection leaves, and nobody comes.                *)
LEMMA LastHolder ==
  ASSUME HoldInv, NEW t \in Threads, NEW c \in Clients,
         at[t] = c \/ \E k \in Kinds : Pending(t, k, c) /\ ~Pending(t, k, c)',
         at'[t] = None, \A u \in Threads \ {t} : at'[u] = at[u],
         \A u \in Threads, l \in Kinds : Pending(u, l, c)' => Pending(u, l, c),
         \A s \in Clients : Armed(s, c)' => Armed(s, c)
  PROVE  Unheld(c)'
<1>1. HeldOnce(c)
  BY DEF HoldInv
<1>2. CASE at[t] = c
  <2>1. Handles(t, c)
    BY <1>2 DEF Handles
  <2>2. \A u \in Threads : ~Handles(u, c)'
    BY <1>1, <2>1, NoneApart DEF HeldOnce, Handles
  <2>3. QED
    BY <1>1, <2>1, <2>2 DEF HeldOnce, Unheld
<1>3. CASE \E k \in Kinds : Pending(t, k, c) /\ ~Pending(t, k, c)'
  <2>1. PICK k \in Kinds : Pending(t, k, c) /\ ~Pending(t, k, c)'
    BY <1>3
  <2>2. \A u \in Threads : ~Handles(u, c)'
    BY <1>1, <2>1, NoneApart DEF HeldOnce, Handles
  <2>3. \A u \in Threads, l \in Kinds : ~Pending(u, l, c)'
    BY <1>1, <2>1 DEF HeldOnce
  <2>4. \A s \in Clients : ~Armed(s, c)'
    BY <1>1, <2>1 DEF HeldOnce
  <2>5. QED
    BY <2>2, <2>3, <2>4 DEF Unheld
<1>4. QED
  BY <1>2, <1>3

(* A thread ends with a Connection, which is deleted.                      *)
LEMMA DeletedHolds ==
  ASSUME TableShape, HoldInv, NEW c \in Clients, Unheld(c)',
         \A d \in Clients : Fewer(d), conn' = [conn EXCEPT ![c] = None]
  PROVE  HoldInv'
<1>1. ASSUME NEW d \in Clients
      PROVE  HeldOnce(d)' /\ (conn'[d] = None => Unheld(d)')
  <2>1. conn'[d] = None => conn[d] = None \/ Unheld(d)'
    BY DEF TableShape
  <2>2. QED
    BY <2>1, FewerHolds
<1>2. QED
  BY <1>1 DEF HoldInv

(* A Connection that only loses holders, by a step of a thread which has   *)
(* another one in its hands, is spared.                                    *)
LEMMA FewerSpared ==
  ASSUME TableShape, HoldInv, NEW t \in Threads, NEW d \in Clients, Fewer(d),
         at[t] # d, \A u \in Threads \ {t} : at'[u] = at[u] /\ pc'[u] = pc[u],
         conn'[d] = conn[d], up'[d] = up[d], down'[d] = down[d],
         \A n \in Descriptors : fd[n] = d => fd'[n] = d
  PROVE  Spared(d)
<1>1. SUFFICES ASSUME Served(d)'
               PROVE  Served(d) /\ (fd[conn[d].fd] = d => fd'[conn[d].fd] = d)
  BY DEF Spared
<1>2. ~Unheld(d)
  <2>1. Unheld(d) => Unheld(d)'
    BY DEF Fewer, Unheld
  <2>2. QED
    BY <1>1, <2>1 DEF Served
<1>3. conn[d] \in Connections /\ conn[d].fd \in Descriptors
  BY <1>2 DEF HoldInv, TableShape, Connections
<1>4. \A u \in Threads : Handles(u, d) => pc[u] \notin Closing
  BY <1>1 DEF Served, Handles
<1>5. QED
  BY <1>2, <1>3, <1>4 DEF Served

(* So is one that its holder hands on as it was.                           *)
LEMMA HandedOnSpared ==
  ASSUME HoldInv, NEW t \in Threads, NEW c \in Clients,
         at[t] = c /\ pc[t] \notin Closing, UNCHANGED <<fd, conn, up, down>>
  PROVE  Spared(c)
<1>1. Handles(t, c) /\ HeldOnce(c)
  BY DEF Handles, HoldInv
<1>2. Served(c)
  BY <1>1 DEF Served, Unheld, HeldOnce
<1>3. QED
  BY <1>2 DEF Spared

(* And one that is about to be closed, or deleted.                         *)
LEMMA ClosedSpared ==
  ASSUME NEW c \in Clients, up'[c] = up[c], down'[c] = down[c],
         Unheld(c)' \/ \E t \in Threads : at'[t] = c /\ pc'[t] \in Closing
  PROVE  Spared(c)
BY DEF Spared, Served, Handles
-----------------------------------------------------------------------------
(* A Connection with some fields assigned is a Connection.                 *)
LEMMA FieldType ==
  ASSUME NEW k \in Connections
  PROVE  /\ \A i \in 0 .. LenUnits : [k EXCEPT !.lenPtr = i] \in Connections
         /\ \A i \in 0 .. DataUnits : [k EXCEPT !.inPtr = i] \in Connections
         /\ \A i \in Int : /\ [k EXCEPT !.outPtr = i] \in Connections
                           /\ [k EXCEPT !.outLen = i] \in Connections
         /\ \A f \in SUBSET Clients : [k EXCEPT !.from = f] \in Connections
         /\ \A st \in {"INIT", "READ_LEN", "READ_DATA", "WRITE_DATA"} :
              [k EXCEPT !.state = st] \in Connections
BY DEF Connections

(* A read leaves a Connection behind.                                      *)
LEMMA AfterReadType ==
  ASSUME NEW k \in Connections, NEW n \in Nat, NEW from \in SUBSET Clients,
         NEW size \in 1 .. 2,
         n <= IF k.state = "READ_DATA" THEN DataUnits - k.inPtr ELSE LenUnits - k.lenPtr
  PROVE  AfterRead(k, n, from, size) \in Connections
<1>1. /\ LenUnits \in Nat /\ DataUnits \in Nat /\ size \in Int
      /\ k.inPtr \in 0 .. DataUnits /\ k.lenPtr \in 0 .. LenUnits
  BY ServerAssumption DEF Connections
<1> DEFINE r == [k EXCEPT !.from = @ \cup from]
<1>2. r \in Connections /\ r.inPtr = k.inPtr /\ r.lenPtr = k.lenPtr
  BY DEF Connections
<1> HIDE DEF r
<1>3. /\ k.state = "READ_DATA" => r.inPtr + n \in 0 .. DataUnits
      /\ k.state # "READ_DATA" => r.lenPtr + n \in 0 .. LenUnits
  BY <1>1, <1>2
<1>4. k.state = "READ_DATA" => [r EXCEPT !.inPtr = @ + n] \in Connections
  BY <1>2, <1>3, FieldType
<1>5. Handle([r EXCEPT !.state = "READ_DONE"], size) \in Connections
  <2> DEFINE r1 == [r EXCEPT !.state = "WRITE_DATA"]
             r2 == [r1 EXCEPT !.lenPtr = 0]
             r3 == [r2 EXCEPT !.inPtr = 0]
  <2>1. Handle([r EXCEPT !.state = "READ_DONE"], size) = [r3 EXCEPT !.outLen = size]
    BY <1>2 DEF Handle, Connections
  <2>2. r1 \in Connections
    BY <1>2, FieldType
  <2> HIDE DEF r1
  <2>zero. 0 \in 0 .. LenUnits /\ 0 \in 0 .. DataUnits
    BY <1>1
  <2>3. r2 \in Connections
    BY <2>2, <2>zero DEF Connections
  <2> HIDE DEF r2
  <2>4. r3 \in Connections
    BY <2>3, <2>zero DEF Connections
  <2> HIDE DEF r3
  <2>5. QED
    BY <1>1, <2>1, <2>4, FieldType
<1>6. ASSUME NEW st \in {"READ_LEN", "READ_DATA"}, k.state # "READ_DATA"
      PROVE  [r EXCEPT !.lenPtr = @ + n, !.state = st] \in Connections
  <2>1. [r EXCEPT !.lenPtr = @ + n, !.state = st]
          = [[r EXCEPT !.lenPtr = r.lenPtr + n] EXCEPT !.state = st]
    BY <1>2 DEF Connections
  <2>2. QED
    BY <1>2, <1>3, <1>6, <2>1, FieldType
<1>7. QED
  BY <1>4, <1>5, <1>6 DEF AfterRead, r

(* So does a write.                                                        *)
LEMMA AfterWriteType ==
  ASSUME NEW k \in Connections, NEW n \in Int
  PROVE  AfterWrite(k, n) \in Connections
<1>1. [k EXCEPT !.outPtr = @ + n] \in Connections
  BY DEF Connections
<1>2. [k EXCEPT !.state = "INIT", !.outLen = 0, !.outPtr = 0, !.from = {}] \in Connections
  <2> DEFINE k1 == [k EXCEPT !.state = "INIT"]
             k2 == [k1 EXCEPT !.outLen = 0]
             k3 == [k2 EXCEPT !.outPtr = 0]
  <2>1. [k EXCEPT !.state = "INIT", !.outLen = 0, !.outPtr = 0, !.from = {}]
          = [k3 EXCEPT !.from = {}]
    BY DEF Connections
  <2>2. k1 \in Connections
    BY FieldType
  <2> HIDE DEF k1
  <2>3. k2 \in Connections
    BY <2>2 DEF Connections
  <2> HIDE DEF k2
  <2>4. k3 \in Connections
    BY <2>3 DEF Connections
  <2> HIDE DEF k3
  <2>5. QED
    BY <2>1, <2>4, FieldType
<1>3. QED
  BY <1>1, <1>2 DEF AfterWrite

(* What handleRead takes from the socket.                                  *)
LEMMA ReadSize ==
  ASSUME TableShape, NetShape, NEW c \in Clients, NEW s \in Clients,
         conn[c] \in Connections, up[s] # <<>>
  PROVE  LET n == Min({Wanted(c), Len(up[s])}) IN
         /\ n \in Nat /\ n <= Len(up[s]) /\ n <= Wanted(c)
         /\ n = Wanted(c) \/ n = Len(up[s])
         /\ Len(up[s]) \in Nat \ {0} /\ Wanted(c) \in Nat
<1>1. up[s] \in Seq(Clients)
  BY DEF NetShape
<1>2. Len(up[s]) \in Nat \ {0}
  BY <1>1
<1>3. Wanted(c) \in Nat
  BY ServerAssumption DEF Wanted, Connections
<1>4. Len(up[s]) \in Int /\ Wanted(c) \in Int
  BY <1>2, <1>3
<1> HIDE DEF Wanted
<1>5. QED
  BY <1>2, <1>3, <1>4, LesserOf

(* Each step of a thread keeps the shape of the state and the holding.     *)
LEMMA TakeTaskHolds ==
  ASSUME Shape, HoldInv, NEW t \in Threads, TakeTask(t)
  PROVE  Shape' /\ HoldInv' /\ Quiet
<1>1. pc' = [pc EXCEPT ![t] = "loop"] /\ pc[t] = "pool" /\ UNCHANGED <<at, connfd>>
  BY DEF TakeTask
<1>2. ThreadShape'
  BY <1>1 DEF Shape, ThreadShape, Idle, Busy, Closing
<1>3. UNCHANGED <<todo, fd, reg, conn, backlog, up, down, peer, client, sent, at>>
  BY DEF TakeTask, network, clients
<1>4. BatchShape' /\ TableShape' /\ NetShape' /\ ClientShape'
  BY <1>3 DEF Shape, BatchShape, TableShape, NetShape, ClientShape
<1>5. HoldInv'
  BY <1>3 DEF HoldInv, HeldOnce, Unheld, Handles, Pending, Armed
<1>6. Quiet
  <2>1. \A d \in Clients : Served(d)' => Served(d)
    BY <1>1, <1>3 DEF Shape, ThreadShape, Served, Unheld, Handles, Pending, Armed, Closing
  <2>2. QED
    BY <1>3, <2>1 DEF Quiet, Plain, Spared
<1>7. QED
  BY <1>2, <1>4, <1>5, <1>6 DEF Shape

(* The events of a batch were armed registrations, and are now disarmed.   *)
LEMMA EpollWaitHolds ==
  ASSUME Shape, HoldInv, NEW t \in Threads, EpollWait(t)
  PROVE  Shape' /\ HoldInv' /\ Quiet
<1>1. /\ todo[t] = {} /\ todo' = [todo EXCEPT ![t] = Ready]
      /\ reg' = [s \in Clients |-> IF s \in Fired
                                   THEN [reg[s] EXCEPT !.armed = "no"] ELSE reg[s]]
      /\ UNCHANGED <<pc, at, connfd, fd, conn, backlog, up, down, peer, client, sent>>
  BY DEF EpollWait, network, clients
<1>2. ASSUME NEW s \in Fired
      PROVE  /\ s \in Clients /\ reg[s] \in Registrations /\ reg[s].ptr \in Clients
             /\ EventKind(s) \in Kinds /\ reg[s].armed # "no" /\ Armed(s, reg[s].ptr)
  <2>1. s \in Clients /\ EventKind(s) # "none"
    BY DEF Fired
  <2>2. reg[s] # None /\ reg[s].armed # "no" /\ EventKind(s) \in Kinds
    BY <2>1 DEF EventKind, Kinds, Registrations, Shape, TableShape
  <2>3. reg[s] \in Registrations
    BY <2>1, <2>2 DEF Shape, TableShape
  <2>4. QED
    BY <2>1, <2>2, <2>3 DEF Registrations, Armed
<1>3. Ready \subseteq (Kinds \X Clients) \cup {<<"listen", None>>}
  BY <1>2 DEF Ready
<1>4. ASSUME NEW k \in Kinds, NEW c \in Clients, <<k, c>> \in Ready
      PROVE  \E s \in Fired : k = EventKind(s) /\ reg[s].ptr = c
  BY <1>4, NoneApart DEF Ready
<1>5. BatchShape'
  BY <1>1, <1>3 DEF Shape, BatchShape
<1>6. reg' \in [Clients -> Registrations \cup {None}]
  <2>1. \A s \in Fired : [reg[s] EXCEPT !.armed = "no"] \in Registrations
    BY <1>2 DEF Registrations
  <2>2. QED
    BY <1>1, <2>1 DEF Shape, TableShape
<1>7. \A s, c \in Clients : Armed(s, c)' => Armed(s, c) /\ s \notin Fired
  <2>1. ASSUME NEW s \in Clients, NEW c \in Clients, Armed(s, c)'
        PROVE  Armed(s, c) /\ s \notin Fired
    <3>1. CASE s \in Fired
      <4>1. reg'[s] = [reg[s] EXCEPT !.armed = "no"] /\ reg[s] \in Registrations
        BY <1>1, <1>2, <3>1
      <4>2. reg'[s].armed = "no"
        BY <4>1 DEF Registrations
      <4>3. QED
        BY <2>1, <4>2 DEF Armed
    <3>2. CASE s \notin Fired
      <4>1. reg'[s] = reg[s]
        BY <1>1, <3>2
      <4>2. QED
        BY <2>1, <3>2, <4>1 DEF Armed
    <3>3. QED
      BY <3>1, <3>2
  <2>2. QED
    BY <2>1
<1>8. \A u \in Threads, k \in Kinds, c \in Clients :
        Pending(u, k, c)' => \/ u # t /\ Pending(u, k, c)
                             \/ u = t /\ \E s \in Fired : k = EventKind(s) /\ reg[s].ptr = c
  BY <1>1, <1>4 DEF Pending, Shape, BatchShape
<1>9. \A u \in Threads, c \in Clients : Handles(u, c)' <=> Handles(u, c)
  BY <1>1 DEF Handles
<1>10. ASSUME NEW c \in Clients
       PROVE  HeldOnce(c)' /\ (conn'[c] = None => Unheld(c)')
  <2>1. HeldOnce(c) /\ (conn[c] = None => Unheld(c))
    BY DEF HoldInv
  <2>2. CASE \E s \in Fired : reg[s].ptr = c
    <3>1. PICK s \in Fired : reg[s].ptr = c
      BY <2>2
    <3>2. Armed(s, c) /\ s \in Clients /\ EventKind(s) \in Kinds
      BY <1>2, <3>1
    <3>3. /\ \A u \in Threads : ~Handles(u, c) /\ \A k \in Kinds : ~Pending(u, k, c)
          /\ \A r \in Clients : Armed(r, c) => r = s
      BY <2>1, <3>2 DEF HeldOnce
    <3>4. \A r \in Fired : reg[r].ptr = c => r = s
      BY <1>2, <3>3
    <3>5. \A u \in Threads : ~Handles(u, c)'
      BY <1>9, <3>3
    <3>6. \A u \in Threads, k \in Kinds : Pending(u, k, c)' => u = t /\ k = EventKind(s)
      BY <1>8, <3>3, <3>4
    <3>7. \A r \in Clients : ~Armed(r, c)'
      BY <1>7, <3>1, <3>3
    <3>8. HeldOnce(c)'
      BY <3>5, <3>6, <3>7 DEF HeldOnce
    <3>9. conn[c] # None
      BY <2>1, <3>2 DEF Unheld
    <3>10. QED
      BY <1>1, <3>8, <3>9
  <2>3. CASE \A s \in Fired : reg[s].ptr # c
    <3>1. Fewer(c)
      BY <1>7, <1>8, <1>9, <2>3 DEF Fewer
    <3>2. QED
      BY <1>1, <3>1, FewerHolds
  <2>4. QED
    BY <2>2, <2>3
<1>11. ThreadShape' /\ TableShape' /\ NetShape' /\ ClientShape'
  BY <1>1, <1>6 DEF Shape, ThreadShape, TableShape, NetShape, ClientShape
<1>12. Quiet
  <2>1. ASSUME NEW c \in Clients, Unheld(c)
        PROVE  Unheld(c)'
    <3>1. \A s \in Fired : reg[s].ptr # c
      BY <1>2, <2>1 DEF Unheld
    <3>2. QED
      BY <1>7, <1>8, <1>9, <2>1, <3>1 DEF Unheld
  <2>2. \A c \in Clients : Served(c)' => Served(c)
    BY <1>1, <1>9, <2>1 DEF Served
  <2>3. QED
    BY <1>1, <2>2 DEF Quiet, Plain, Spared
<1>13. QED
  BY <1>5, <1>10, <1>11, <1>12 DEF Shape, HoldInv

(* A thread that is between two steps has a Connection and a descriptor.   *)
LEMMA BusyThread ==
  ASSUME Shape, NEW t \in Threads
  PROVE  /\ pc[t] \in Busy => at[t] \in Clients /\ connfd[t] \in Descriptors
         /\ pc[t] = "del" => connfd[t] \in Descriptors
BY DEF Shape, ThreadShape

(* The late EPOLL_CTL_DEL of a deleted Connection.                         *)
LEMMA DelAfterDeleteHolds ==
  ASSUME Shape, HoldInv, NEW t \in Threads, DelAfterDelete(t)
  PROVE  Shape' /\ HoldInv' /\ Quiet
<1>1. /\ pc[t] = "del" /\ Back(t) /\ EpollDel(connfd[t], None)
      /\ UNCHANGED <<todo, fd, conn, backlog, up, down, peer, client, sent>>
  BY DEF DelAfterDelete, network, clients
<1>2. connfd[t] \in Descriptors
  BY <1>1, BusyThread
<1>3. /\ ThreadShape' /\ at'[t] = None
      /\ \A u \in Threads \ {t} : at'[u] = at[u] /\ pc'[u] = pc[u]
  BY <1>1, BackEffect DEF Shape
<1>4. /\ reg' \in [Clients -> Registrations \cup {None}]
      /\ \A s, d \in Clients : Armed(s, d)' => Armed(s, d)
  BY <1>1, <1>2, DelEffect DEF Shape
<1>5. \A d \in Clients : Fewer(d)
  BY <1>1, <1>3, <1>4, NoneApart DEF Fewer, Handles, Pending
<1>6. HoldInv'
  BY <1>1, <1>5, FewerHolds DEF HoldInv
<1>7. Quiet
  <2>1. at[t] = None
    BY <1>1 DEF Shape, ThreadShape, Busy, Closing
  <2>2. \A d \in Clients : Spared(d)
    BY <1>1, <1>3, <1>5, <2>1, NoneApart, FewerSpared DEF Shape
  <2>3. QED
    BY <1>1, <2>2 DEF Quiet, Plain
<1>8. QED
  BY <1>1, <1>3, <1>4, <1>6, <1>7 DEF Shape, BatchShape, TableShape, NetShape, ClientShape

(* A new connection is handed to the thread that accepted it.              *)
LEMMA AcceptHolds ==
  ASSUME Shape, HoldInv, QueueInv, NEW t \in Threads, Accept(t)
  PROVE  Shape' /\ HoldInv' /\ \A d \in Clients : Spared(d) \/ Accepted(d)
<1>1. /\ pc[t] = "loop" /\ todo' = [todo EXCEPT ![t] = @ \ {<<"listen", None>>}]
      /\ UNCHANGED <<reg, up, down, client, sent>>
  BY DEF Accept, Event, clients
<1>2. BatchShape' /\ ClientShape'
  BY <1>1 DEF Shape, BatchShape, ClientShape
<1>3. \A u \in Threads, l \in Kinds, d \in Clients : Pending(u, l, d)' => Pending(u, l, d)
  BY <1>1 DEF Shape, BatchShape, Pending
<1>4. \A s, d \in Clients : Armed(s, d)' <=> Armed(s, d)
  BY <1>1 DEF Armed
<1>others. ASSUME NEW d \in Clients, Fewer(d), conn'[d] = conn[d],
                 \A u \in Threads \ {t} : at'[u] = at[u] /\ pc'[u] = pc[u],
                 \A m \in Descriptors : fd[m] = d => fd'[m] = d
          PROVE  Spared(d)
  <2>1. at[t] # d
    BY <1>1, NoneApart DEF Shape, ThreadShape, Busy, Closing
  <2>2. QED
    BY <1>1, <1>others, <2>1, FewerSpared DEF Shape
<1> DEFINE free == {n \in Descriptors : fd[n] = None}
<1>5. CASE /\ backlog # <<>> /\ free # {} /\ backlog' = Tail(backlog)
           /\ fd' = [fd EXCEPT ![Min(free)] = Head(backlog)]
           /\ conn' = [conn EXCEPT ![Head(backlog)] = ConnectionInit(Min(free))]
           /\ Go(t, "add", Head(backlog), Min(free)) /\ UNCHANGED peer
  <2>1. Min(free) \in free
    BY <1>5, LeastNumber, ServerAssumption
  <2>2. PICK n \in Descriptors : n = Min(free) /\ fd[n] = None
    BY <2>1
  <2>3. PICK c \in Clients : c = Head(backlog) /\ Queued(c) /\ backlog' \in Seq(Clients)
    BY <1>5 DEF Shape, NetShape, Queued
  <2>4. ConnectionInit(n) \in Connections
    BY <2>2, ServerAssumption DEF ConnectionInit, Connections
  <2>5. TableShape' /\ NetShape'
    BY <1>1, <1>5, <2>2, <2>3, <2>4 DEF Shape, TableShape, NetShape
  <2>6. /\ ThreadShape' /\ at'[t] = c
        /\ \A u \in Threads \ {t} : at'[u] = at[u] /\ pc'[u] = pc[u]
    <3>1. Go(t, "add", c, n)
      BY <1>5, <2>2, <2>3
    <3>2. "add" \in Busy /\ c # None
      BY <2>3, NoneApart DEF Busy
    <3>3. ThreadShape
      BY DEF Shape
    <3>4. QED
      BY ONLY <2>2, <2>3, <3>1, <3>2, <3>3, t \in Threads, GoEffect
  <2>7. conn[c] = None
    BY <2>3 DEF QueueInv
  <2>8. HeldOnce(c)' /\ conn'[c] # None
    <3>1. Unheld(c)
      BY <2>3, <2>7 DEF HoldInv
    <3>2. HeldOnce(c)'
      BY <1>3, <1>4, <2>3, <2>6, <3>1 DEF Unheld, HeldOnce, Handles
    <3>3. conn'[c] # None
      BY <1>5, <2>2, <2>3, <2>4, NoneApart DEF Shape, TableShape
    <3>4. QED
      BY <3>2, <3>3
  <2>9. ASSUME NEW d \in Clients, d # c
        PROVE  HeldOnce(d)' /\ (conn'[d] = None => Unheld(d)')
    <3>1. Fewer(d)
      BY <1>3, <1>4, <2>6, <2>9 DEF Fewer, Handles
    <3>2. conn'[d] = conn[d]
      BY <1>5, <2>3, <2>9 DEF Shape, TableShape
    <3>3. QED
      BY <3>1, <3>2, FewerHolds
  <2>10. ASSUME NEW d \in Clients
         PROVE  Spared(d) \/ Accepted(d)
    <3>1. CASE d = c
      <4>1. conn'[c] = ConnectionInit(n) /\ fd'[n] = c
        BY <1>5, <2>2, <2>3 DEF Shape, TableShape
      <4>2. QED
        BY <1>1, <2>3, <3>1, <4>1 DEF Accepted
    <3>2. CASE d # c
      <4>1. Fewer(d)
        BY <1>3, <1>4, <2>6, <3>2 DEF Fewer, Handles
      <4>2. conn'[d] = conn[d]
        BY <1>5, <2>3, <3>2 DEF Shape, TableShape
      <4>3. \A m \in Descriptors : fd[m] = d => fd'[m] = d
        BY <1>5, <2>2, NoneApart DEF Shape, TableShape
      <4>4. QED
        BY <1>others, <2>6, <4>1, <4>2, <4>3
    <3>3. QED
      BY <3>1, <3>2
  <2>11. QED
    BY <1>2, <2>5, <2>6, <2>8, <2>9, <2>10 DEF Shape, HoldInv
<1>6. CASE /\ backlog # <<>> /\ backlog' = Tail(backlog)
           /\ peer' = [peer EXCEPT ![Head(backlog)] = "refused"]
           /\ UNCHANGED <<fd, conn, pc, at, connfd>>
  <2>1. NetShape'
    BY <1>1, <1>6 DEF Shape, NetShape
  <2>2. \A d \in Clients : Fewer(d)
    BY <1>3, <1>4, <1>6 DEF Fewer, Handles
  <2>3. \A d \in Clients : Spared(d)
    BY <1>others, <1>6, <2>2
  <2>4. QED
    BY <1>1, <1>2, <1>6, <2>1, <2>2, <2>3, FewerHolds DEF Shape, ThreadShape, TableShape, HoldInv
<1>7. CASE UNCHANGED <<backlog, peer, fd, conn, pc, at, connfd>>
  <2>1. \A d \in Clients : Fewer(d)
    BY <1>3, <1>4, <1>7 DEF Fewer, Handles
  <2>2. \A d \in Clients : Spared(d)
    BY <1>others, <1>7, <2>1
  <2>3. QED
    BY <1>1, <1>2, <1>7, <2>1, <2>2, FewerHolds
       DEF Shape, ThreadShape, TableShape, NetShape, HoldInv
<1>8. QED
  BY <1>5, <1>6, <1>7 DEF Accept

(* EPOLL_CTL_ADD hands a new Connection to its registration, or fails.     *)
LEMMA AcceptAddHolds ==
  ASSUME Shape, HoldInv, NEW t \in Threads, AcceptAdd(t)
  PROVE  Shape' /\ HoldInv' /\ Quiet
<1> DEFINE c == at[t] s == fd[connfd[t]]
<1>1. /\ pc[t] = "add"
      /\ UNCHANGED <<todo, fd, conn, backlog, up, down, peer, client, sent>>
  BY DEF AcceptAdd, network, clients
<1>2. c \in Clients /\ connfd[t] \in Descriptors /\ s \in Clients \cup {None}
  BY <1>1, BusyThread DEF Busy, Shape, TableShape
<1>3. BatchShape' /\ NetShape' /\ ClientShape'
  BY <1>1 DEF Shape, BatchShape, NetShape, ClientShape
<1> HIDE DEF c, s
<1>4. CASE /\ s # None /\ reg[s] = None
           /\ reg' = [reg EXCEPT ![s] = [ptr |-> c, armed |-> "in"]] /\ Back(t)
  <2>1. [ptr |-> c, armed |-> "in"] \in Registrations
    BY <1>2 DEF Registrations
  <2>2. TableShape'
    BY <1>1, <1>2, <1>4, <2>1 DEF Shape, TableShape
  <2>3. \A r, d \in Clients : Armed(r, d)' => Armed(r, d) \/ (d = c /\ r = s)
    BY <1>2, <1>4 DEF Shape, TableShape, Armed
  <2>4. /\ ThreadShape' /\ at'[t] = None
        /\ \A u \in Threads \ {t} : at'[u] = at[u] /\ pc'[u] = pc[u]
    BY <1>4, BackEffect DEF Shape
  <2>5. at[t] = c
    BY DEF c
  <2>6. HoldInv'
    BY <1>1, <1>2, <2>3, <2>4, <2>5, ArmedHolds DEF Shape
  <2>7. ASSUME NEW d \in Clients
        PROVE  Spared(d)
    <3>1. CASE d = c
      BY <1>1, <2>5, <3>1, HandedOnSpared DEF Closing
    <3>2. CASE d # c
      <4>1. Fewer(d)
        BY <1>1, <2>3, <2>4, <3>2, NoneApart DEF Fewer, Handles, Pending
      <4>2. QED
        BY <1>1, <2>4, <2>5, <3>2, <4>1, FewerSpared DEF Shape
    <3>3. QED
      BY <3>1, <3>2
  <2>8. QED
    BY <1>1, <1>3, <2>2, <2>4, <2>6, <2>7 DEF Shape, Quiet, Plain
<1>5. CASE Go(t, "addfailed", c, connfd[t]) /\ UNCHANGED reg
  <2>1. "addfailed" \in Busy /\ c # None /\ ThreadShape
    BY <1>2, NoneApart DEF Busy, Closing, Shape
  <2>2. /\ ThreadShape' /\ at'[t] = c /\ pc'[t] = "addfailed"
        /\ \A u \in Threads \ {t} : at'[u] = at[u] /\ pc'[u] = pc[u]
    BY ONLY <1>2, <1>5, <2>1, t \in Threads, GoEffect
  <2>3. \A d \in Clients : Fewer(d)
    BY <1>1, <1>5, <2>2 DEF Fewer, Handles, Pending, Armed, c
  <2>4. ASSUME NEW d \in Clients
        PROVE  Spared(d)
    <3>1. CASE d = c
      BY <1>1, <2>2, <3>1, ClosedSpared DEF Closing
    <3>2. CASE d # c
      BY <1>1, <2>2, <2>3, <3>2, FewerSpared DEF Shape, c
    <3>3. QED
      BY <3>1, <3>2
  <2>5. QED
    BY <1>1, <1>3, <1>5, <2>2, <2>3, <2>4, FewerHolds
       DEF Shape, TableShape, HoldInv, Quiet, Plain
<1>6. QED
  BY <1>4, <1>5 DEF AcceptAdd, c, s

(* The Connection that was not added is forgotten, not deleted.            *)
LEMMA AddFailedHolds ==
  ASSUME Shape, HoldInv, NEW t \in Threads, AddFailed(t)
  PROVE  Shape' /\ HoldInv' /\ Quiet
<1>1. /\ pc[t] = "addfailed" /\ Back(t) /\ CloseFd(connfd[t], at[t])
      /\ UNCHANGED <<todo, conn, backlog, up, down, peer, client, sent>>
  BY DEF AddFailed, network, clients
<1>2. connfd[t] \in Descriptors /\ at[t] \in Clients
  BY <1>1, BusyThread DEF Busy, Closing
<1>3. /\ ThreadShape' /\ at'[t] = None
      /\ \A u \in Threads \ {t} : at'[u] = at[u] /\ pc'[u] = pc[u]
  BY <1>1, BackEffect DEF Shape
<1>4. /\ fd' \in [Descriptors -> Clients \cup {None}]
      /\ fd'[connfd[t]] = None /\ \A m \in Descriptors \ {connfd[t]} : fd'[m] = fd[m]
      /\ \A d \in Clients : fd[connfd[t]] = d /\ d # at[t] => d \in stolen'
      /\ reg' \in [Clients -> Registrations \cup {None}]
      /\ \A s, d \in Clients : Armed(s, d)' => Armed(s, d)
  BY <1>1, <1>2, CloseEffect DEF Shape
<1>5. \A d \in Clients : Fewer(d)
  BY <1>1, <1>3, <1>4, NoneApart DEF Fewer, Handles, Pending
<1>6. HoldInv'
  BY <1>1, <1>5, FewerHolds DEF HoldInv
<1>7. Quiet
  <2>1. ASSUME NEW d \in Clients \ stolen'
        PROVE  Spared(d)
    <3>1. CASE d = at[t]
      <4>1. Unheld(d)'
        BY <1>3, <1>5, <3>1, LastHolder DEF Fewer
      <4>2. QED
        BY <1>1, <4>1, ClosedSpared
    <3>2. CASE d # at[t]
      BY <1>1, <1>3, <1>4, <1>5, <3>2, FewerSpared DEF Shape
    <3>3. QED
      BY <3>1, <3>2
  <2>2. QED
    BY <1>1, <1>4, <2>1 DEF Quiet, Plain
<1>8. QED
  BY <1>1, <1>3, <1>4, <1>6, <1>7 DEF Shape, BatchShape, TableShape, NetShape, ClientShape

(* The second EPOLL_CTL_DEL and close of a failed read.                    *)
LEMMA ReadFailsDelHolds ==
  ASSUME Shape, HoldInv, NEW t \in Threads, ReadFailsDel(t)
  PROVE  Shape' /\ HoldInv' /\ Quiet
<1>1. /\ pc[t] = "readdel" /\ Go(t, "readclose", at[t], connfd[t])
      /\ EpollDel(connfd[t], at[t])
      /\ UNCHANGED <<todo, fd, conn, backlog, up, down, peer, client, sent>>
  BY DEF ReadFailsDel, network, clients
<1>2. connfd[t] \in Descriptors /\ at[t] \in Clients
  BY <1>1, BusyThread DEF Busy, Closing
<1>3. /\ ThreadShape' /\ at'[t] = at[t] /\ pc'[t] = "readclose"
      /\ \A u \in Threads \ {t} : at'[u] = at[u] /\ pc'[u] = pc[u]
  <2>1. "readclose" \in Busy /\ at[t] # None /\ ThreadShape
    BY <1>2, NoneApart DEF Busy, Closing, Shape
  <2>2. QED
    BY ONLY <1>1, <1>2, <2>1, t \in Threads, GoEffect
<1>4. /\ reg' \in [Clients -> Registrations \cup {None}]
      /\ \A s, d \in Clients : Armed(s, d)' => Armed(s, d)
  BY <1>1, <1>2, DelEffect DEF Shape
<1>5. \A d \in Clients : Fewer(d)
  BY <1>1, <1>3, <1>4 DEF Fewer, Handles, Pending
<1>6. HoldInv'
  BY <1>1, <1>5, FewerHolds DEF HoldInv
<1>7. Quiet
  <2>1. ASSUME NEW d \in Clients
        PROVE  Spared(d)
    <3>1. CASE d = at[t]
      BY <1>1, <1>3, <3>1, ClosedSpared DEF Closing
    <3>2. CASE d # at[t]
      BY <1>1, <1>3, <1>5, <3>2, FewerSpared DEF Shape
    <3>3. QED
      BY <3>1, <3>2
  <2>2. QED
    BY <1>1, <2>1 DEF Quiet, Plain
<1>8. QED
  BY <1>1, <1>3, <1>4, <1>6, <1>7 DEF Shape, BatchShape, TableShape, NetShape, ClientShape

(* The close that ends a failed read or write deletes the Connection.      *)
LEMMA SecondCloseHolds ==
  ASSUME Shape, HoldInv, NEW t \in Threads, ReadFailsClose(t) \/ WriteFailsClose(t)
  PROVE  Shape' /\ HoldInv' /\ Quiet
<1>1. /\ pc[t] \in {"readclose", "writeclose"} /\ CloseFd(connfd[t], at[t])
      /\ conn' = [conn EXCEPT ![at[t]] = None]
      /\ UNCHANGED <<todo, backlog, up, down, peer, client, sent>>
  BY DEF ReadFailsClose, WriteFailsClose, network, clients
<1>2. Back(t) \/ Go(t, "del", None, connfd[t])
  BY DEF ReadFailsClose, WriteFailsClose
<1>3. connfd[t] \in Descriptors /\ at[t] \in Clients
  BY <1>1, BusyThread DEF Busy, Closing
<1>4. /\ ThreadShape' /\ at'[t] = None
      /\ \A u \in Threads \ {t} : at'[u] = at[u] /\ pc'[u] = pc[u]
  <2>1. CASE Back(t)
    BY <2>1, BackEffect DEF Shape
  <2>2. CASE Go(t, "del", None, connfd[t])
    <3>1. "del" \notin Busy /\ ThreadShape
      BY DEF Busy, Closing, Shape
    <3>2. QED
      BY ONLY <1>3, <2>2, <3>1, t \in Threads, GoEffect
  <2>3. QED
    BY <1>2, <2>1, <2>2
<1>5. /\ fd' \in [Descriptors -> Clients \cup {None}]
      /\ fd'[connfd[t]] = None /\ \A m \in Descriptors \ {connfd[t]} : fd'[m] = fd[m]
      /\ \A d \in Clients : fd[connfd[t]] = d /\ d # at[t] => d \in stolen'
      /\ reg' \in [Clients -> Registrations \cup {None}]
      /\ \A s, d \in Clients : Armed(s, d)' => Armed(s, d)
  BY <1>1, <1>3, CloseEffect DEF Shape
<1>6. \A d \in Clients : Fewer(d)
  BY <1>1, <1>4, <1>5, NoneApart DEF Fewer, Handles, Pending
<1>7. \A d \in Clients : d = at[t] => Unheld(d)'
  BY <1>4, <1>6, LastHolder DEF Fewer
<1>8. HoldInv'
  BY <1>1, <1>3, <1>6, <1>7, DeletedHolds DEF Shape
<1>9. TableShape'
  BY <1>1, <1>3, <1>5 DEF Shape, TableShape
<1>10. Quiet
  <2>1. ASSUME NEW d \in Clients \ stolen'
        PROVE  Spared(d)
    <3>1. CASE d = at[t]
      BY <1>1, <1>7, <3>1, ClosedSpared
    <3>2. CASE d # at[t]
      <4>1. conn'[d] = conn[d]
        BY <1>1, <3>2 DEF Shape, TableShape
      <4>2. \A m \in Descriptors : fd[m] = d => fd'[m] = d
        BY <1>5, <3>2
      <4>3. QED
        BY <1>1, <1>4, <1>6, <3>2, <4>1, <4>2, FewerSpared DEF Shape
    <3>3. QED
      BY <3>1, <3>2
  <2>2. \A d \in Clients : conn[d] = None => conn'[d] = None
    BY <1>1 DEF Shape, TableShape
  <2>3. QED
    BY <1>1, <1>5, <2>1, <2>2 DEF Quiet, Plain
<1>11. QED
  BY <1>1, <1>4, <1>8, <1>9, <1>10 DEF Shape, BatchShape, NetShape, ClientShape

(* The Connection goes back to the registration of its descriptor.         *)
LEMMA RearmHolds ==
  ASSUME Shape, HoldInv, NEW t \in Threads, Rearm(t)
  PROVE  Shape' /\ HoldInv' /\ Quiet
<1>1. /\ pc[t] \in {"modin", "modout"} /\ Back(t)
      /\ EpollMod(connfd[t], at[t], IF pc[t] = "modin" THEN "in" ELSE "out")
      /\ UNCHANGED <<todo, fd, conn, backlog, up, down, peer, client, sent>>
  BY DEF Rearm, network, clients
<1>2. connfd[t] \in Descriptors /\ at[t] \in Clients
  BY <1>1, BusyThread DEF Busy
<1>3. /\ ThreadShape' /\ at'[t] = None
      /\ \A u \in Threads \ {t} : at'[u] = at[u] /\ pc'[u] = pc[u]
  BY <1>1, BackEffect DEF Shape
<1>4. /\ reg' \in [Clients -> Registrations \cup {None}]
      /\ \A s, d \in Clients :
           Armed(s, d)' => Armed(s, d) \/ (d = at[t] /\ s = fd[connfd[t]])
  BY <1>1, <1>2, ModEffect DEF Shape
<1>5. HoldInv'
  BY <1>1, <1>2, <1>3, <1>4, ArmedHolds DEF Shape
<1>6. Quiet
  <2>1. ASSUME NEW d \in Clients
        PROVE  Spared(d)
    <3>1. CASE d = at[t]
      BY <1>1, <3>1, HandedOnSpared DEF Closing
    <3>2. CASE d # at[t]
      <4>1. Fewer(d)
        BY <1>1, <1>3, <1>4, <3>2, NoneApart DEF Fewer, Handles, Pending
      <4>2. QED
        BY <1>1, <1>3, <3>2, <4>1, FewerSpared DEF Shape
    <3>3. QED
      BY <3>1, <3>2
  <2>2. QED
    BY <1>1, <2>1 DEF Quiet, Plain
<1>7. QED
  BY <1>1, <1>3, <1>4, <1>5, <1>6 DEF Shape, BatchShape, TableShape, NetShape, ClientShape

(* An error event: the Connection is deleted at once.                      *)
LEMMA ErrorEventHolds ==
  ASSUME Shape, HoldInv, NEW t \in Threads, NEW c \in Clients, ErrorEvent(t, c)
  PROVE  Shape' /\ HoldInv' /\ Quiet
<1>1. /\ Event(t, "err", c) /\ Go(t, "del", None, conn[c].fd) /\ CloseFd(conn[c].fd, c)
      /\ conn' = [conn EXCEPT ![c] = None]
      /\ UNCHANGED <<backlog, up, down, peer, client, sent>>
  BY DEF ErrorEvent, network, clients
<1>2. ThreadShape /\ BatchShape /\ TableShape /\ "err" \in Kinds
  BY DEF Shape, Kinds
<1>3. /\ BatchShape' /\ Pending(t, "err", c) /\ at[t] = None /\ conn[c].fd \in Descriptors
      /\ \A u \in Threads, l \in Kinds, d \in Clients :
           Pending(u, l, d)' => Pending(u, l, d) /\ ~(u = t /\ l = "err" /\ d = c)
  BY ONLY <1>1, <1>2, HoldInv, t \in Threads, c \in Clients, EventEffect
<1>4. /\ ThreadShape' /\ at'[t] = None
      /\ \A u \in Threads \ {t} : at'[u] = at[u] /\ pc'[u] = pc[u]
  <2>1. "del" \notin Busy
    BY DEF Busy, Closing
  <2>2. QED
    BY ONLY <1>1, <1>2, <1>3, <2>1, t \in Threads, GoEffect
<1>5. /\ fd' \in [Descriptors -> Clients \cup {None}]
      /\ fd'[conn[c].fd] = None /\ \A m \in Descriptors \ {conn[c].fd} : fd'[m] = fd[m]
      /\ \A d \in Clients : fd[conn[c].fd] = d /\ d # c => d \in stolen'
      /\ reg' \in [Clients -> Registrations \cup {None}]
      /\ \A s, d \in Clients : Armed(s, d)' => Armed(s, d)
  BY <1>1, <1>2, <1>3, CloseEffect
<1>6. \A d \in Clients : Fewer(d)
  BY <1>3, <1>4, <1>5, NoneApart DEF Fewer, Handles
<1>7. Unheld(c)'
  <2>1. \E k \in Kinds : Pending(t, k, c) /\ ~Pending(t, k, c)'
    BY <1>2, <1>3
  <2>2. QED
    BY <1>4, <1>6, <2>1, LastHolder DEF Fewer
<1>8. HoldInv'
  BY <1>1, <1>2, <1>6, <1>7, DeletedHolds
<1>9. TableShape'
  BY <1>1, <1>5 DEF Shape, TableShape
<1>10. Quiet
  <2>1. ASSUME NEW d \in Clients \ stolen'
        PROVE  Spared(d)
    <3>1. CASE d = c
      BY <1>1, <1>7, <3>1, ClosedSpared
    <3>2. CASE d # c
      <4>1. conn'[d] = conn[d]
        BY <1>1, <3>2 DEF Shape, TableShape
      <4>2. \A m \in Descriptors : fd[m] = d => fd'[m] = d
        BY <1>5, <3>2
      <4>3. QED
        BY <1>1, <1>2, <1>3, <1>4, <1>6, <4>1, <4>2, NoneApart, FewerSpared
    <3>3. QED
      BY <3>1, <3>2
  <2>2. \A d \in Clients : conn[d] = None => conn'[d] = None
    BY <1>1 DEF Shape, TableShape
  <2>3. QED
    BY <1>1, <1>5, <2>1, <2>2 DEF Quiet, Plain
<1>11. QED
  BY <1>1, <1>3, <1>4, <1>8, <1>9, <1>10 DEF Shape, NetShape, ClientShape

(* An event that is handled in several steps: the thread keeps the         *)
(* Connection.                                                             *)
LEMMA EventTaken ==
  ASSUME Shape, HoldInv, NEW t \in Threads, NEW k \in Kinds, NEW c \in Clients,
         NEW where \in Busy, Event(t, k, c), Go(t, where, c, conn[c].fd),
         \A s, d \in Clients : Armed(s, d)' => Armed(s, d),
         TableShape', \A d \in Clients : conn'[d] = None => conn[d] = None
  PROVE  /\ ThreadShape' /\ BatchShape' /\ HoldInv' /\ Served(c)
         /\ at[t] = None /\ at'[t] = c /\ pc'[t] = where
         /\ \A u \in Threads \ {t} : at'[u] = at[u] /\ pc'[u] = pc[u]
         /\ \A d \in Clients \ {c} : Fewer(d)
<1>1. ThreadShape /\ BatchShape /\ TableShape
  BY DEF Shape
<1>2. /\ BatchShape' /\ Pending(t, k, c) /\ at[t] = None /\ conn[c].fd \in Descriptors
      /\ \A u \in Threads, l \in Kinds, d \in Clients :
           Pending(u, l, d)' => Pending(u, l, d) /\ ~(u = t /\ l = k /\ d = c)
  BY <1>1, EventEffect
<1>3. /\ ThreadShape' /\ at'[t] = c /\ pc'[t] = where
      /\ \A u \in Threads \ {t} : at'[u] = at[u] /\ pc'[u] = pc[u]
  <2>1. c # None
    BY NoneApart
  <2>2. QED
    BY ONLY <1>1, <1>2, <2>1, t \in Threads, c \in Clients, where \in Busy,
            Go(t, where, c, conn[c].fd), GoEffect DEF Busy, Closing
<1>4. HoldInv'
  BY <1>1, <1>2, <1>3, TakenHolds
<1>5. \A d \in Clients \ {c} : Fewer(d)
  BY <1>2, <1>3 DEF Fewer, Handles
<1>6. Served(c)
  <2>1. HeldOnce(c)
    BY DEF HoldInv
  <2>2. \A u \in Threads : ~Handles(u, c)
    BY <1>2, <2>1 DEF HeldOnce
  <2>3. QED
    BY <1>2, <2>2 DEF Served, Unheld
<1>7. QED
  BY <1>2, <1>3, <1>4, <1>5, <1>6

(* handleRead takes what is there.                                         *)
LEMMA HandleReadHolds ==
  ASSUME Shape, HoldInv, NEW t \in Threads, NEW c \in Clients, HandleRead(t, c)
  PROVE  Shape' /\ HoldInv' /\ Plain /\ \A d \in Clients \ (stolen' \cup {c}) : Spared(d)
<1> DEFINE s == fd[conn[c].fd]
           n == Min({Wanted(c), Len(up[s])})
           where == IF conn'[c].state = "WRITE_DATA" THEN "modout" ELSE "modin"
<1>1. /\ Event(t, "in", c) /\ s # None /\ up[s] # <<>>
      /\ up' = [up EXCEPT ![s] = SubSeq(@, n + 1, Len(@))]
      /\ \E size \in 1 .. 2 :
           conn' = [conn EXCEPT ![c] = AfterRead(@, n, {up[s][i] : i \in 1 .. n}, size)]
      /\ Go(t, where, c, conn[c].fd) /\ Steal(conn[c].fd, c)
      /\ UNCHANGED <<fd, reg, backlog, down, peer, client, sent>>
  BY DEF HandleRead, clients
<1>2. ThreadShape /\ BatchShape /\ TableShape /\ NetShape /\ "in" \in Kinds
  BY DEF Shape, Kinds
<1>3. conn[c] \in Connections /\ conn[c].fd \in Descriptors
  BY ONLY <1>1, <1>2, HoldInv, t \in Threads, c \in Clients, EventEffect
<1>4. s \in Clients /\ up[s] \in Seq(Clients)
  BY <1>1, <1>2, <1>3 DEF TableShape, NetShape
<1>5. n \in Nat /\ n <= Len(up[s]) /\ Len(up[s]) \in Nat /\ n <= Wanted(c)
  BY <1>1, <1>2, <1>3, <1>4, ReadSize
<1> HIDE DEF s, n
<1>6. {up[s][i] : i \in 1 .. n} \in SUBSET Clients
  <2>1. \A i \in 1 .. n : i \in 1 .. Len(up[s])
    BY <1>5
  <2>2. QED
    BY <1>4, <2>1
<1>7. PICK k \in Connections : conn' = [conn EXCEPT ![c] = k]
  BY <1>1, <1>3, <1>5, <1>6, AfterReadType DEF Wanted
<1>8. TableShape'
  BY <1>1, <1>2, <1>7 DEF TableShape
<1>9. \A d \in Clients : conn'[d] = None => conn[d] = None
  BY <1>2, <1>7, NoneApart DEF TableShape
<1>10. NetShape'
  <2>1. SubSeq(up[s], n + 1, Len(up[s])) \in Seq(Clients)
    BY <1>4, <1>5
  <2>2. QED
    BY <1>1, <1>2, <1>4, <2>1 DEF NetShape
<1>11. where \in Busy
  BY DEF Busy
<1>12. \A r, d \in Clients : Armed(r, d)' => Armed(r, d)
  BY <1>1 DEF Armed
<1> HIDE DEF where
<1>13. /\ ThreadShape' /\ BatchShape' /\ HoldInv' /\ Served(c)
       /\ at[t] = None /\ at'[t] = c /\ pc'[t] = where
       /\ \A u \in Threads \ {t} : at'[u] = at[u] /\ pc'[u] = pc[u]
       /\ \A d \in Clients \ {c} : Fewer(d)
  BY <1>1, <1>2, <1>8, <1>9, <1>11, <1>12, EventTaken
<1>14. ASSUME NEW d \in Clients \ (stolen' \cup {c})
       PROVE  Spared(d)
  <2>1. d # s
    BY <1>1, StealEffect DEF s
  <2>2. up'[d] = up[d] /\ conn'[d] = conn[d]
    BY <1>1, <1>2, <1>7, <2>1 DEF NetShape, TableShape
  <2>3. down'[d] = down[d] /\ (\A m \in Descriptors : fd[m] = d => fd'[m] = d)
    BY <1>1, <1>2
  <2>4. at[t] # d
    BY <1>13, NoneApart
  <2>5. Fewer(d)
    BY <1>13
  <2>6. \A u \in Threads \ {t} : at'[u] = at[u] /\ pc'[u] = pc[u]
    BY <1>13
  <2>7. QED
    BY ONLY <1>2, <2>2, <2>3, <2>4, <2>5, <2>6, HoldInv, t \in Threads, d \in Clients, FewerSpared
<1>15. Plain
  BY <1>1, <1>2, <1>3, <1>7, NoneApart DEF Plain, TableShape
<1>16. QED
  BY <1>1, <1>8, <1>10, <1>13, <1>14, <1>15 DEF Shape, ClientShape

(* Nothing to read yet.                                                    *)
LEMMA ReadAgainHolds ==
  ASSUME Shape, HoldInv, NEW t \in Threads, NEW c \in Clients, ReadAgain(t, c)
  PROVE  Shape' /\ HoldInv' /\ Quiet
<1>1. /\ Event(t, "in", c) /\ Go(t, "modin", c, conn[c].fd)
      /\ UNCHANGED <<fd, reg, conn, backlog, up, down, peer, client, sent>>
  BY DEF ReadAgain, network, clients
<1>2. "in" \in Kinds /\ "modin" \in Busy
  BY DEF Kinds, Busy
<1>3. TableShape' /\ NetShape' /\ ClientShape'
  BY <1>1 DEF Shape, TableShape, NetShape, ClientShape
<1>4. \A r, d \in Clients : Armed(r, d)' => Armed(r, d)
  BY <1>1 DEF Armed
<1>5. /\ ThreadShape' /\ BatchShape' /\ HoldInv' /\ Served(c)
      /\ at[t] = None /\ at'[t] = c /\ pc'[t] = "modin"
      /\ \A u \in Threads \ {t} : at'[u] = at[u] /\ pc'[u] = pc[u]
      /\ \A d \in Clients \ {c} : Fewer(d)
  BY <1>1, <1>2, <1>3, <1>4, EventTaken
<1>6. Quiet
  <2>1. ASSUME NEW d \in Clients
        PROVE  Spared(d)
    <3>1. CASE d = c
      BY <1>1, <1>5, <3>1 DEF Spared
    <3>2. CASE d # c
      BY <1>1, <1>5, <3>2, NoneApart, FewerSpared DEF Shape
    <3>3. QED
      BY <3>1, <3>2
  <2>2. QED
    BY <1>1, <2>1 DEF Quiet, Plain
<1>7. QED
  BY <1>3, <1>5, <1>6 DEF Shape

(* A read or a write fails: the first close.                               *)
LEMMA FirstCloseHolds ==
  ASSUME Shape, HoldInv, NEW t \in Threads, NEW c \in Clients,
         ReadFails(t, c) \/ WriteFails(t, c)
  PROVE  Shape' /\ HoldInv' /\ Quiet
<1>1. /\ CloseFd(conn[c].fd, c)
      /\ UNCHANGED <<conn, backlog, up, down, peer, client, sent>>
  BY DEF ReadFails, WriteFails, network, clients
<1>2. PICK k \in Kinds, where \in Closing : Event(t, k, c) /\ Go(t, where, c, conn[c].fd)
  <2>1. "in" \in Kinds /\ "out" \in Kinds /\ "readdel" \in Closing /\ "writeclose" \in Closing
    BY DEF Kinds, Closing
  <2>2. QED
    BY <2>1 DEF ReadFails, WriteFails
<1>3. ThreadShape /\ BatchShape /\ TableShape
  BY DEF Shape
<1>4. conn[c].fd \in Descriptors
  BY <1>2, <1>3, EventEffect
<1>5. /\ fd' \in [Descriptors -> Clients \cup {None}]
      /\ fd'[conn[c].fd] = None /\ \A m \in Descriptors \ {conn[c].fd} : fd'[m] = fd[m]
      /\ \A d \in Clients : fd[conn[c].fd] = d /\ d # c => d \in stolen'
      /\ reg' \in [Clients -> Registrations \cup {None}]
      /\ \A s, d \in Clients : Armed(s, d)' => Armed(s, d)
  BY <1>1, <1>3, <1>4, CloseEffect
<1>6. TableShape' /\ NetShape' /\ ClientShape'
  BY <1>1, <1>5 DEF Shape, TableShape, NetShape, ClientShape
<1>7. /\ ThreadShape' /\ BatchShape' /\ HoldInv' /\ Served(c)
      /\ at[t] = None /\ at'[t] = c /\ pc'[t] = where
      /\ \A u \in Threads \ {t} : at'[u] = at[u] /\ pc'[u] = pc[u]
      /\ \A d \in Clients \ {c} : Fewer(d)
  BY <1>1, <1>2, <1>5, <1>6, EventTaken DEF Busy
<1>8. Quiet
  <2>1. ASSUME NEW d \in Clients \ stolen'
        PROVE  Spared(d)
    <3>1. CASE d = c
      BY <1>1, <1>7, <3>1, ClosedSpared
    <3>2. CASE d # c
      <4>1. \A m \in Descriptors : fd[m] = d => fd'[m] = d
        BY <1>5, <3>2
      <4>2. QED
        BY <1>1, <1>3, <1>7, <3>2, <4>1, NoneApart, FewerSpared
    <3>3. QED
      BY <3>1, <3>2
  <2>2. QED
    BY <1>1, <1>5, <2>1 DEF Quiet, Plain
<1>9. QED
  BY <1>6, <1>7, <1>8 DEF Shape

(* handleWrite writes some of the response.                                *)
LEMMA HandleWriteHolds ==
  ASSUME Shape, HoldInv, NEW t \in Threads, NEW c \in Clients, HandleWrite(t, c)
  PROVE  Shape' /\ HoldInv' /\ Plain /\ \A d \in Clients \ (stolen' \cup {c}) : Spared(d)
<1> DEFINE s == fd[conn[c].fd] k == conn[c]
           where == IF conn'[c].state = "INIT" THEN "modin" ELSE "modout"
           piece(n) == [i \in 1 .. n |-> <<k.from, k.outPtr + i, k.outLen>>]
<1>1. PICK n \in 1 .. (k.outLen - k.outPtr) :
        /\ s # None
        /\ \/ down' = [down EXCEPT ![s] = @ \o piece(n)] /\ UNCHANGED peer
           \/ /\ peer[s] = "shut" /\ peer' = [peer EXCEPT ![s] = "reset"]
              /\ UNCHANGED down
        /\ conn' = [conn EXCEPT ![c] = AfterWrite(k, n)]
        /\ Go(t, where, c, k.fd)
  BY DEF HandleWrite
<1>2. /\ Event(t, "out", c) /\ Steal(k.fd, c) /\ UNCHANGED <<fd, reg, backlog, up, client, sent>>
  BY DEF HandleWrite, clients
<1>3. ThreadShape /\ BatchShape /\ TableShape /\ NetShape /\ "out" \in Kinds
  BY DEF Shape, Kinds
<1>4. k \in Connections /\ k.fd \in Descriptors
  BY ONLY <1>2, <1>3, HoldInv, t \in Threads, c \in Clients, EventEffect
<1>5. n \in Nat /\ s \in Clients
  BY <1>1, <1>3, <1>4 DEF TableShape, Connections
<1>6. AfterWrite(k, n) \in Connections
  BY <1>4, <1>5, AfterWriteType
<1>7. TableShape'
  BY <1>1, <1>2, <1>3, <1>6 DEF TableShape
<1>8. \A d \in Clients : conn'[d] = None => conn[d] = None
  BY <1>1, <1>3, <1>6, NoneApart DEF TableShape
<1>9. NetShape'
  <2>1. piece(n) \in Seq(Units)
    <3>1. \A i \in 1 .. n : <<k.from, k.outPtr + i, k.outLen>> \in Units
      BY <1>4, <1>5 DEF Connections, Units
    <3>2. QED
      BY <1>5, <3>1
  <2> HIDE DEF piece, s
  <2>2. down[s] \o piece(n) \in Seq(Units)
    BY <1>3, <1>5, <2>1 DEF NetShape
  <2>3. down' \in [Clients -> Seq(Units)]
    BY <1>1, <1>3, <1>5, <2>2 DEF NetShape
  <2>4. peer' \in [Clients -> {"none", "open", "refused", "shut", "reset"}]
    BY <1>1, <1>3, <1>5 DEF NetShape
  <2>5. QED
    BY <1>2, <1>3, <2>3, <2>4 DEF NetShape
<1>10. where \in Busy
  BY DEF Busy
<1>11. \A r, d \in Clients : Armed(r, d)' => Armed(r, d)
  BY <1>2 DEF Armed
<1> HIDE DEF where
<1>12. /\ ThreadShape' /\ BatchShape' /\ HoldInv' /\ Served(c)
       /\ at[t] = None /\ at'[t] = c /\ pc'[t] = where
       /\ \A u \in Threads \ {t} : at'[u] = at[u] /\ pc'[u] = pc[u]
       /\ \A d \in Clients \ {c} : Fewer(d)
  BY <1>1, <1>2, <1>3, <1>7, <1>8, <1>10, <1>11, EventTaken
<1>13. ASSUME NEW d \in Clients \ (stolen' \cup {c})
       PROVE  Spared(d)
  <2>1. d # s
    BY <1>2, StealEffect DEF s
  <2>2. down'[d] = down[d] /\ conn'[d] = conn[d]
    BY <1>1, <1>3, <2>1 DEF NetShape, TableShape
  <2>3. up'[d] = up[d] /\ (\A m \in Descriptors : fd[m] = d => fd'[m] = d)
    BY <1>2, <1>3
  <2>4. at[t] # d
    BY <1>12, NoneApart
  <2>5. Fewer(d)
    BY <1>12
  <2>6. \A u \in Threads \ {t} : at'[u] = at[u] /\ pc'[u] = pc[u]
    BY <1>12
  <2>7. QED
    BY ONLY <1>3, <2>2, <2>3, <2>4, <2>5, <2>6, HoldInv, t \in Threads, d \in Clients, FewerSpared
<1>14. Plain
  <2>1. \A d \in Clients : peer'[d] = peer[d] \/ (peer[d] = "shut" /\ peer'[d] = "reset")
    BY <1>1, <1>3 DEF NetShape
  <2>2. \A d \in Clients : conn[d] = None => conn'[d] = None
    BY <1>1, <1>3, <1>4, NoneApart DEF TableShape
  <2>3. QED
    BY <1>2, <2>1, <2>2 DEF Plain
<1>15. QED
  BY <1>2, <1>7, <1>9, <1>12, <1>13, <1>14 DEF Shape, ClientShape

(* The clients and the start of the server change no holder.               *)
LEMMA OthersHold ==
  ASSUME Shape, HoldInv, Submit \/ \E c \in Clients : Client(c)
  PROVE  Shape' /\ HoldInv'
<1>1. UNCHANGED <<pc, at, connfd, todo, fd, reg, conn>>
  BY DEF Submit, Client, Connect, Send, SendFails, Reads, Receive, ReceiveNothing,
         Disconnect, server
<1>2. ThreadShape' /\ BatchShape' /\ TableShape'
  BY <1>1 DEF Shape, ThreadShape, BatchShape, TableShape
<1>3. HoldInv'
  BY <1>1 DEF HoldInv, HeldOnce, Unheld, Handles, Pending, Armed
<1>4. NetShape' /\ ClientShape'
  <2>1. NetShape /\ ClientShape
    BY DEF Shape
  <2>2. CASE Submit
    BY <2>1, <2>2 DEF Submit, network, clients, NetShape, ClientShape
  <2>3. ASSUME NEW c \in Clients, Client(c)
        PROVE  NetShape' /\ ClientShape'
    <3>1. ASSUME NEW status, Over(c, status)
          PROVE  ClientShape'
      BY <2>1, <3>1 DEF Over, ClientShape
    <3>2. CASE Connect(c)
      BY <2>1, <3>2 DEF Connect, NetShape, ClientShape
    <3>3. CASE Send(c)
      <4>1. sent' \in [Clients -> Nat]
        BY <2>1, <3>3 DEF Send, ClientShape
      <4>2. client' \in [Clients -> {"new", "send", "recv", "payload", "done", "closed"}]
        BY <2>1, <3>3 DEF Send, ClientShape
      <4>3. up' \in [Clients -> Seq(Clients)]
        <5>1. up[c] \in Seq(Clients) /\ Append(up[c], c) \in Seq(Clients)
          BY <2>1 DEF NetShape
        <5>2. up' = [up EXCEPT ![c] = up[c]] \/ up' = [up EXCEPT ![c] = Append(up[c], c)]
          BY <3>3 DEF Send
        <5>3. QED
          BY <2>1, <5>1, <5>2 DEF NetShape
      <4>4. UNCHANGED <<backlog, down, peer>>
        BY <3>3 DEF Send
      <4>5. QED
        BY <2>1, <4>1, <4>2, <4>3, <4>4 DEF NetShape, ClientShape
    <3>4. CASE SendFails(c) \/ ReceiveNothing(c)
      <4>1. (\E status \in {"ok", "exception"} : Over(c, status)) /\ UNCHANGED <<backlog, up, down, peer>>
        BY <3>4 DEF SendFails, ReceiveNothing, network
      <4>2. QED
        BY <2>1, <3>1, <4>1 DEF NetShape
    <3>5. CASE Receive(c)
      <4>1. /\ down' = [down EXCEPT ![c] = Tail(@)] /\ down[c] # <<>>
            /\ UNCHANGED <<backlog, up, peer>>
        BY <3>5 DEF Receive
      <4>2. Tail(down[c]) \in Seq(Units)
        BY <2>1, <4>1 DEF NetShape
      <4>3. NetShape'
        BY <2>1, <4>1, <4>2 DEF NetShape
      <4>4. \/ client' = [client EXCEPT ![c] = "payload"] /\ UNCHANGED sent
            \/ Over(c, "ok")
        BY <3>5 DEF Receive
      <4>5. ClientShape'
        BY <2>1, <3>1, <4>4 DEF ClientShape
      <4>6. QED
        BY <4>3, <4>5
    <3>6. CASE Disconnect(c)
      BY <2>1, <3>6 DEF Disconnect, NetShape, ClientShape
    <3>7. QED
      BY <2>3, <3>2, <3>3, <3>4, <3>5, <3>6 DEF Client, Reads
  <2>4. QED
    BY <2>2, <2>3
<1>5. QED
  BY <1>2, <1>3, <1>4 DEF Shape
-----------------------------------------------------------------------------
(* Descriptors and the backlog.                                            *)

(* A step of a thread that accepts nobody.                                 *)
LEMMA PlainQueue ==
  ASSUME Shape, QueueInv, FdInv, Plain
  PROVE  QueueInv' /\ FdInv'
<1>1. \A d \in Clients : Queued(d)' <=> Queued(d)
  BY DEF Plain, Queued
<1>2. \A d \in Clients, n \in Descriptors : fd'[n] = d => fd[n] = d
  BY NoneApart DEF Plain
<1>3. FdInv'
  BY <1>2 DEF FdInv, Plain, Shape, TableShape
<1>4. QueueInv'
  BY <1>1, <1>2 DEF QueueInv, Plain
<1>5. QED
  BY <1>3, <1>4

(* The tail of the backlog without its first client.                       *)
LEMMA BacklogTail ==
  ASSUME Shape, QueueInv, backlog # <<>>, backlog' = Tail(backlog), UNCHANGED client
  PROVE  /\ \A i, j \in 1 .. Len(backlog') : backlog'[i] = backlog'[j] => i = j
         /\ \A i \in 1 .. Len(backlog') : client'[backlog'[i]] # "new"
         /\ \A d \in Clients : Queued(d)' => Queued(d) /\ d # Head(backlog)
         /\ Head(backlog) \in Clients /\ Queued(Head(backlog))
         /\ client[Head(backlog)] # "new"
<1>1. /\ backlog \in Seq(Clients) /\ Len(backlog) \in Nat \ {0}
      /\ Len(backlog') = Len(backlog) - 1 /\ Head(backlog) = backlog[1]
      /\ \A i \in 1 .. Len(backlog') : backlog'[i] = backlog[i + 1]
  BY DEF Shape, NetShape
<1>2. \A i \in 1 .. Len(backlog') : i + 1 \in 1 .. Len(backlog)
  BY <1>1
<1>3. 1 \in 1 .. Len(backlog)
  BY <1>1
<1>4. \A i \in 1 .. Len(backlog') : backlog'[i] # Head(backlog)
  BY <1>1, <1>2, <1>3 DEF QueueInv
<1>5. QED
  BY <1>1, <1>2, <1>3, <1>4 DEF QueueInv, Queued

(* accept gives a descriptor that was free to a client that had none.      *)
LEMMA AcceptQueue ==
  ASSUME Shape, QueueInv, FdInv, NEW t \in Threads, Accept(t)
  PROVE  QueueInv' /\ FdInv'
<1> DEFINE free == {n \in Descriptors : fd[n] = None}
<1>1. UNCHANGED client
  BY DEF Accept, clients
<1>2. CASE /\ backlog # <<>> /\ free # {} /\ backlog' = Tail(backlog)
           /\ fd' = [fd EXCEPT ![Min(free)] = Head(backlog)]
           /\ conn' = [conn EXCEPT ![Head(backlog)] = ConnectionInit(Min(free))]
  <2>1. PICK n \in Descriptors : n = Min(free) /\ fd[n] = None
    BY <1>2, LeastNumber, ServerAssumption
  <2>2. PICK c \in Clients : c = Head(backlog)
    BY <1>2 DEF Shape, NetShape
  <2>3. Queued(c) /\ client[c] # "new" /\ \A d \in Clients : Queued(d)' => Queued(d) /\ d # c
    BY <1>1, <1>2, <2>2, BacklogTail
  <2>4. fd' = [fd EXCEPT ![n] = c] /\ \A d \in Clients \ {c} : conn'[d] = conn[d]
    BY <1>2, <2>1, <2>2 DEF Shape, TableShape
  <2>5. \A m \in Descriptors : fd[m] # c
    BY <2>3 DEF QueueInv
  <2>6. FdInv'
    BY <2>4, <2>5 DEF FdInv, Shape, TableShape
  <2>7. ASSUME NEW d \in Clients, client'[d] = "new" \/ Queued(d)'
        PROVE  conn'[d] = None /\ \A m \in Descriptors : fd'[m] # d
    <3>1. d # c /\ (client[d] = "new" \/ Queued(d))
      BY <1>1, <2>3, <2>7
    <3>2. conn[d] = None /\ \A m \in Descriptors : fd[m] # d
      BY <3>1 DEF QueueInv
    <3>3. QED
      BY <2>4, <3>1, <3>2 DEF Shape, TableShape
  <2>8. QED
    BY <1>1, <1>2, <2>6, <2>7, BacklogTail DEF QueueInv
<1>3. CASE backlog # <<>> /\ backlog' = Tail(backlog) /\ UNCHANGED <<fd, conn>>
  <2>1. FdInv'
    BY <1>3 DEF FdInv
  <2>2. \A d \in Clients : client'[d] = "new" \/ Queued(d)' =>
          conn'[d] = None /\ \A m \in Descriptors : fd'[m] # d
    BY <1>1, <1>3, BacklogTail DEF QueueInv
  <2>3. QED
    BY <1>1, <1>3, <2>1, <2>2, BacklogTail DEF QueueInv
<1>4. CASE UNCHANGED <<backlog, fd, conn>>
  BY <1>1, <1>4 DEF QueueInv, FdInv, Queued
<1>5. QED
  BY <1>2, <1>3, <1>4 DEF Accept

(* A client queues up once, when it connects.                              *)
LEMMA OthersQueue ==
  ASSUME Shape, QueueInv, FdInv, Submit \/ \E c \in Clients : Client(c)
  PROVE  QueueInv' /\ FdInv'
<1>1. UNCHANGED <<fd, conn>>
  BY DEF Submit, Client, Connect, Send, SendFails, Reads, Receive, ReceiveNothing,
         Disconnect, server
<1>2. FdInv'
  BY <1>1 DEF FdInv
<1>3. ASSUME NEW c \in Clients, Connect(c)
      PROVE  QueueInv'
  <2>1. /\ client[c] = "new" /\ client' = [client EXCEPT ![c] = "send"]
        /\ backlog' = Append(backlog, c)
    BY <1>3 DEF Connect
  <2>2. /\ backlog \in Seq(Clients) /\ Len(backlog) \in Nat
        /\ Len(backlog') = Len(backlog) + 1 /\ backlog'[Len(backlog) + 1] = c
        /\ \A i \in 1 .. Len(backlog) : backlog'[i] = backlog[i]
    BY <2>1 DEF Shape, NetShape
  <2>3. \A i \in 1 .. Len(backlog') : i \in 1 .. Len(backlog) \/ i = Len(backlog) + 1
    BY <2>2
  <2>4. \A i \in 1 .. Len(backlog) : backlog[i] # c /\ backlog[i] \in Clients
    BY <2>1, <2>2 DEF QueueInv
  <2>5. \A i, j \in 1 .. Len(backlog') : backlog'[i] = backlog'[j] => i = j
    BY <2>2, <2>3, <2>4 DEF QueueInv
  <2>6. \A i \in 1 .. Len(backlog') : client'[backlog'[i]] # "new"
    BY <2>1, <2>2, <2>3, <2>4 DEF QueueInv, Shape, ClientShape
  <2>7. \A d \in Clients : client'[d] = "new" \/ Queued(d)' => client[d] = "new" \/ Queued(d)
    BY <2>1, <2>2, <2>3 DEF Queued, Shape, ClientShape
  <2>8. QED
    BY <1>1, <2>5, <2>6, <2>7 DEF QueueInv
<1>4. CASE /\ UNCHANGED backlog
           /\ \A d \in Clients : client'[d] = "new" <=> client[d] = "new"
  <2>1. \A d \in Clients : Queued(d)' <=> Queued(d)
    BY <1>4 DEF Queued
  <2>2. \A i \in 1 .. Len(backlog) : backlog[i] \in Clients
    BY DEF Shape, NetShape
  <2>3. \A i \in 1 .. Len(backlog') : client'[backlog'[i]] # "new"
    BY <1>4, <2>2 DEF QueueInv
  <2>4. \A d \in Clients : client'[d] = "new" \/ Queued(d)' =>
          conn'[d] = None /\ \A n \in Descriptors : fd'[n] # d
    BY <1>1, <1>4, <2>1 DEF QueueInv
  <2>5. \A i, j \in 1 .. Len(backlog') : backlog'[i] = backlog'[j] => i = j
    BY <1>4 DEF QueueInv
  <2>6. QED
    BY <1>2, <2>3, <2>4, <2>5 DEF QueueInv
<1>5. CASE Submit
  BY <1>4, <1>5 DEF Submit, network, clients
<1>6. ASSUME NEW c \in Clients, Client(c), ~Connect(c)
      PROVE  /\ UNCHANGED backlog
             /\ \A d \in Clients : client'[d] = "new" <=> client[d] = "new"
  <2>1. CASE Send(c)
    BY <2>1 DEF Send, Shape, ClientShape
  <2>2. CASE SendFails(c)
    BY <2>2 DEF SendFails, Over, network, Shape, ClientShape
  <2>3. CASE Receive(c)
    BY <2>3 DEF Receive, Over, Shape, ClientShape
  <2>4. CASE ReceiveNothing(c)
    BY <2>4 DEF ReceiveNothing, Over, network, Shape, ClientShape
  <2>5. CASE Disconnect(c)
    BY <2>5 DEF Disconnect, Shape, ClientShape
  <2>6. QED
    BY <1>6, <2>1, <2>2, <2>3, <2>4, <2>5 DEF Client, Reads
<1>7. QED
  BY <1>2, <1>3, <1>4, <1>5, <1>6
-----------------------------------------------------------------------------
(* The invariant of the server's side.                                     *)
ServerInv == Shape /\ HoldInv /\ QueueInv /\ FdInv

(* It holds when the server starts.                                        *)
LEMMA ServerInvInit ==
  ASSUME Init
  PROVE  ServerInv
<1>1. ThreadShape
  BY DEF Init, ThreadShape, Idle, Busy, Closing
<1>2. BatchShape /\ TableShape
  BY DEF Init, BatchShape, TableShape
<1>3. NetShape /\ ClientShape
  BY DEF Init, NetShape, ClientShape
<1>4. \A c \in Clients : Unheld(c)
  BY NoneApart DEF Init, Unheld, Handles, Pending, Armed
<1>5. HoldInv
  BY <1>4 DEF HoldInv, HeldOnce, Unheld
<1>6. QueueInv /\ FdInv
  <2>1. Len(backlog) = 0 /\ (\A c \in Clients : conn[c] = None)
          /\ \A n \in Descriptors : fd[n] = None
    BY DEF Init
  <2>2. QED
    BY <2>1, NoneApart DEF QueueInv, FdInv, Queued
<1>7. QED
  BY <1>1, <1>2, <1>3, <1>5, <1>6 DEF ServerInv, Shape

(* What a step of a thread does: nothing to any dialogue, an accept, a     *)
(* read or a write.                                                        *)
LEMMA LoopEffect ==
  ASSUME ServerInv, NEW t \in Threads, Loop(t)
  PROVE  /\ Shape' /\ HoldInv'
         /\ \/ Quiet
            \/ Accept(t) /\ \A d \in Clients : Spared(d) \/ Accepted(d)
            \/ Plain /\ \E c \in Clients :
                 /\ HandleRead(t, c) \/ HandleWrite(t, c)
                 /\ \A d \in Clients \ (stolen' \cup {c}) : Spared(d)
<1> USE DEF ServerInv
<1>1. CASE TakeTask(t)
  BY <1>1, TakeTaskHolds
<1>2. CASE EpollWait(t)
  BY <1>2, EpollWaitHolds
<1>3. CASE DelAfterDelete(t)
  BY <1>3, DelAfterDeleteHolds
<1>4. CASE Accept(t)
  BY <1>4, AcceptHolds
<1>5. CASE AcceptAdd(t)
  BY <1>5, AcceptAddHolds
<1>6. CASE AddFailed(t)
  BY <1>6, AddFailedHolds
<1>7. CASE ReadFailsDel(t)
  BY <1>7, ReadFailsDelHolds
<1>8. CASE ReadFailsClose(t) \/ WriteFailsClose(t)
  BY <1>8, SecondCloseHolds
<1>9. CASE Rearm(t)
  BY <1>9, RearmHolds
<1>10. ASSUME NEW c \in Clients, ErrorEvent(t, c)
       PROVE  Shape' /\ HoldInv' /\ Quiet
  BY <1>10, ErrorEventHolds
<1>11. ASSUME NEW c \in Clients, ReadAgain(t, c)
       PROVE  Shape' /\ HoldInv' /\ Quiet
  BY <1>11, ReadAgainHolds
<1>12. ASSUME NEW c \in Clients, ReadFails(t, c) \/ WriteFails(t, c)
       PROVE  Shape' /\ HoldInv' /\ Quiet
  BY <1>12, FirstCloseHolds
<1>13. ASSUME NEW c \in Clients, HandleRead(t, c)
       PROVE  /\ Shape' /\ HoldInv' /\ Plain
              /\ \A d \in Clients \ (stolen' \cup {c}) : Spared(d)
  BY <1>13, HandleReadHolds
<1>14. ASSUME NEW c \in Clients, HandleWrite(t, c)
       PROVE  /\ Shape' /\ HoldInv' /\ Plain
              /\ \A d \in Clients \ (stolen' \cup {c}) : Spared(d)
  BY <1>14, HandleWriteHolds
<1>15. QED
  BY <1>1, <1>2, <1>3, <1>4, <1>5, <1>6, <1>7, <1>8, <1>9, <1>10, <1>11, <1>12,
     <1>13, <1>14 DEF Loop

(* Every step keeps the invariant of the server's side.                    *)
LEMMA ServerInvNext ==
  ASSUME ServerInv, [Next]_vars
  PROVE  ServerInv'
<1> USE DEF ServerInv
<1>1. CASE Submit \/ \E c \in Clients : Client(c)
  BY <1>1, OthersHold, OthersQueue
<1>2. ASSUME NEW t \in Threads, Loop(t)
      PROVE  ServerInv'
  <2>1. Shape' /\ HoldInv' /\ (Plain \/ Accept(t))
    BY <1>2, LoopEffect DEF Quiet
  <2>2. QueueInv' /\ FdInv'
    BY <2>1, PlainQueue, AcceptQueue
  <2>3. QED
    BY <2>1, <2>2
<1>3. CASE UNCHANGED vars
  BY <1>3 DEF vars, server, network, clients, Shape, ThreadShape, BatchShape, TableShape,
     NetShape, ClientShape, HoldInv, HeldOnce, Unheld, Handles, Pending, Armed,
     QueueInv, Queued, FdInv
<1>4. QED
  BY <1>1, <1>2, <1>3 DEF Next

(* ServerInv is an invariant of the server.                                *)
THEOREM ServerInvariance == Spec => []ServerInv
BY ServerInvInit, ServerInvNext, PTL DEF Spec

(* Two holders of one Connection are the same.                             *)
LEMMA HoldersAgree ==
  ASSUME ServerInv, NEW c \in Clients, NEW x \in Holders(c), NEW y \in Holders(c)
  PROVE  x = y
<1>1. HeldOnce(c)
  BY DEF ServerInv, HoldInv
<1> DEFINE AsThread(z) == z \in Threads /\ Handles(z, c)
           AsEvent(z) == \E t \in Threads, k \in Kinds : z = <<t, k>> /\ Pending(t, k, c)
           AsSocket(z) == z \in Clients /\ Armed(z, c)
<1>2. ASSUME NEW z \in Holders(c)
      PROVE  AsThread(z) \/ AsEvent(z) \/ AsSocket(z)
  BY DEF Holders, Handles, Pending, Armed, Kinds
<1>3. CASE AsThread(x)
  BY <1>1, <1>2, <1>3 DEF HeldOnce
<1>4. CASE AsEvent(x)
  BY <1>1, <1>2, <1>4 DEF HeldOnce
<1>5. CASE AsSocket(x)
  BY <1>1, <1>2, <1>5 DEF HeldOnce
<1>6. QED
  BY <1>2, <1>3, <1>4, <1>5

(* At any time at most one thread, event or armed registration gives       *)
(* access to a Connection, and none does to one that loop has deleted:     *)
(* although loop closes descriptors twice, EPOLLONESHOT and the order of   *)
(* its steps keep a Connection from being used by two threads or after     *)
(* delete.                                                                 *)
THEOREM HandledOnce == Spec => []OneHandler
<1>1. ServerInv => OneHandler
  <2>1. SUFFICES ASSUME ServerInv, NEW c \in Clients
                 PROVE  /\ Cardinality(Holders(c)) <= 1
                        /\ conn[c] = None => Holders(c) = {}
    BY DEF OneHandler
  <2>2. CASE Holders(c) = {}
    BY <2>2, FS_EmptySet
  <2>3. CASE Holders(c) # {}
    <3>1. PICK x \in Holders(c) : TRUE
      BY <2>3
    <3>2. Holders(c) = {x}
      BY <2>1, HoldersAgree
    <3>3. Cardinality({x}) = 1
      BY FS_Singleton
    <3>4. conn[c] # None
      <4>1. ~Unheld(c)
        BY <3>1 DEF Holders, Unheld, Handles, Pending, Armed, Kinds
      <4>2. QED
        BY <2>1, <4>1 DEF ServerInv, HoldInv
    <3>5. QED
      BY <3>2, <3>3, <3>4
  <2>4. QED
    BY <2>2, <2>3
<1>2. QED
  BY <1>1, ServerInvariance, PTL
-----------------------------------------------------------------------------
(* The dialogue.                                                           *)

(* The dialogue stands in the fields of c, of its Connection and its       *)
(* socket.                                                                 *)
LEMMA SparedTalks ==
  ASSUME NEW d \in Clients, Talk(d), Spared(d), client'[d] = client[d],
         sent'[d] = sent[d], Queued(d)' => Queued(d)
  PROVE  Talk(d)'
<1>1. /\ up'[d] = up[d] /\ down'[d] = down[d]
      /\ client'[d] = client[d] /\ sent'[d] = sent[d]
  BY DEF Spared
<1>2. \A len \in 1 .. 2 : Response(d, len) => Response(d, len)'
  BY <1>1 DEF Response, Off
<1>3. ASSUME NEW k, InStep(d, k)
      PROVE  InStep(d, k)'
  BY <1>1, <1>3 DEF InStep, Own, Requesting, Answering, Answered, Finished, Response,
                    Off, Due
<1>4. /\ client'[d] = "new" => up'[d] = <<>> /\ down'[d] = <<>>
      /\ down'[d] # <<>> => /\ client'[d] \in {"recv", "payload"}
                            /\ \E len \in 1 .. 2 : Response(d, len)'
  BY <1>1, <1>2 DEF Talk
<1>5. Queued(d)' /\ client'[d] # "closed" =>
        /\ client'[d] \in {"send", "recv"} /\ down'[d] = <<>>
        /\ Own(d)' /\ Len(up'[d]) = Due(d)'
  BY <1>1 DEF Talk, Own, Due
<1>6. ASSUME Served(d)', client'[d] # "closed"
      PROVE  fd'[conn'[d].fd] = d /\ InStep(d, conn[d])' /\ conn'[d] = conn[d]
  <2>1. /\ Served(d) /\ conn'[d] = conn[d]
        /\ fd[conn[d].fd] = d => fd'[conn[d].fd] = d
    BY <1>6 DEF Spared
  <2>2. fd[conn[d].fd] = d /\ InStep(d, conn[d])
    BY <1>1, <1>6, <2>1 DEF Talk
  <2>3. PICK k : k = conn[d]
    OBVIOUS
  <2>4. InStep(d, k)'
    BY <1>3, <2>2, <2>3
  <2>5. QED
    BY <2>1, <2>2, <2>3, <2>4
<1>7. QED
  BY <1>4, <1>5, <1>6 DEF Talk

(* An accepted client has sent what is waiting on its socket, no more.     *)
LEMMA AcceptedTalks ==
  ASSUME Shape, ClientInv, NEW d \in Clients, Talk(d), Accepted(d), UNCHANGED <<client, sent>>
  PROVE  Talk(d)'
<1>1. /\ up'[d] = up[d] /\ down'[d] = down[d] /\ Queued(d)
      /\ client'[d] = client[d] /\ sent'[d] = sent[d]
  BY DEF Accepted
<1>2. PICK n \in Descriptors : conn'[d] = ConnectionInit(n) /\ fd'[n] = d
  BY DEF Accepted
<1>3. CASE client[d] = "closed"
  <2>1. \A len \in 1 .. 2 : Response(d, len) => Response(d, len)'
    BY <1>1 DEF Response, Off
  <2>2. QED
    BY <1>1, <1>3, <2>1 DEF Talk
<1>4. CASE client[d] # "closed"
  <2>1. /\ client[d] \in {"send", "recv"} /\ down[d] = <<>>
        /\ Own(d) /\ Len(up[d]) = Due(d)
    BY <1>1, <1>4 DEF Talk
  <2>2. PICK k : k = conn'[d]
    OBVIOUS
  <2>3. /\ k.fd = n /\ k.from = {} /\ k.lenPtr = 0 /\ k.inPtr = 0 /\ k.outPtr = 0
        /\ k.outLen = 0 /\ k.state = "INIT"
    BY <1>2, <2>2 DEF ConnectionInit
  <2>4. LenUnits \in Nat \ {0} /\ Due(d) \in Nat
    BY ServerAssumption DEF Due, Shape, ClientShape
  <2>5. Own(d)' /\ Due(d)' = Due(d)
    BY <1>1, <2>1 DEF Own, Due
  <2>6. Reading(k)
    BY <2>3, <2>4 DEF Reading
  <2>7. k.lenPtr + k.inPtr + Len(up'[d]) = Due(d)'
    BY <1>1, <2>1, <2>3, <2>4, <2>5
  <2>8. InStep(d, k)'
    BY <1>1, <2>1, <2>3, <2>5, <2>6, <2>7 DEF InStep, Requesting
  <2>9. fd'[conn'[d].fd] = d
    BY <1>2, <2>2, <2>3
  <2>10. InStep(d, conn[d])'
    BY <2>2, <2>8
  <2>11. QED
    BY <1>1, <2>1, <2>5, <2>9, <2>10 DEF Talk
<1>5. QED
  BY <1>3, <1>4

(* The fields of a Connection after a read.                                *)
LEMMA ReadFields ==
  ASSUME NEW k \in Connections, NEW n \in Nat, NEW from \in SUBSET Clients,
         NEW size \in 1 .. 2
  PROVE  LET r == AfterRead(k, n, from, size) IN
         /\ r.from = k.from \cup from /\ r.outPtr = k.outPtr /\ r.fd = k.fd
         /\ k.state = "READ_DATA" /\ k.inPtr + n < DataUnits =>
              /\ r.state = "READ_DATA" /\ r.lenPtr = k.lenPtr /\ r.inPtr = k.inPtr + n
              /\ r.outLen = k.outLen
         /\ k.state = "READ_DATA" /\ ~(k.inPtr + n < DataUnits) =>
              /\ r.state = "WRITE_DATA" /\ r.lenPtr = 0 /\ r.inPtr = 0 /\ r.outLen = size
         /\ k.state # "READ_DATA" =>
              /\ r.state = IF k.lenPtr + n < LenUnits THEN "READ_LEN" ELSE "READ_DATA"
              /\ r.lenPtr = k.lenPtr + n /\ r.inPtr = k.inPtr /\ r.outLen = k.outLen
<1>1. CASE k.state = "READ_DATA" /\ k.inPtr + n < DataUnits
  BY <1>1 DEF AfterRead, Connections
<1>2. CASE k.state = "READ_DATA" /\ ~(k.inPtr + n < DataUnits)
  BY <1>2 DEF AfterRead, Handle, Connections
<1>3. CASE k.state # "READ_DATA"
  BY <1>3 DEF AfterRead, Connections
<1>4. QED
  BY <1>1, <1>2, <1>3

(* The fields of a Connection after a write.                               *)
LEMMA WriteFields ==
  ASSUME NEW k \in Connections, NEW n \in Nat
  PROVE  LET r == AfterWrite(k, n) IN
         /\ r.lenPtr = k.lenPtr /\ r.inPtr = k.inPtr /\ r.fd = k.fd
         /\ k.outPtr + n < k.outLen =>
              /\ r.state = k.state /\ r.outPtr = k.outPtr + n
              /\ r.outLen = k.outLen /\ r.from = k.from
         /\ ~(k.outPtr + n < k.outLen) =>
              /\ r.state = "INIT" /\ r.outPtr = 0 /\ r.outLen = 0 /\ r.from = {}
<1>1. CASE k.outPtr + n < k.outLen
  BY <1>1 DEF AfterWrite, Connections
<1>2. CASE ~(k.outPtr + n < k.outLen)
  BY <1>2 DEF AfterWrite, Connections
<1>3. QED
  BY <1>1, <1>2

(* What is left of a sequence without its first n elements.                *)
LEMMA SuffixOf ==
  ASSUME NEW S, NEW u \in Seq(S), NEW n \in Nat, n <= Len(u)
  PROVE  /\ SubSeq(u, n + 1, Len(u)) \in Seq(S)
         /\ Len(SubSeq(u, n + 1, Len(u))) = Len(u) - n
<1>1. Len(u) \in Nat
  OBVIOUS
<1>2. \A i \in (n + 1) .. Len(u) : u[i] \in S
  BY <1>1
<1>3. SubSeq(u, n + 1, Len(u)) \in Seq(S)
  BY <1>1, <1>2
<1>4. CASE n < Len(u)
  BY <1>1, <1>4
<1>5. CASE n = Len(u)
  BY <1>1, <1>5
<1>6. n < Len(u) \/ n = Len(u)
  BY <1>1
<1>7. QED
  BY <1>3, <1>4, <1>5, <1>6

(* A read takes the next units of the request, and with the last of them   *)
(* the response begins.                                                    *)
LEMMA ReadTalks ==
  ASSUME ServerInv, ClientInv, NEW t \in Threads, NEW c \in Clients, Talk(c),
         HandleRead(t, c)
  PROVE  Talk(c)'
<1> DEFINE s == fd[conn[c].fd]
<1>1. /\ Event(t, "in", c) /\ s # None /\ up[s] # <<>>
      /\ LET n == Min({Wanted(c), Len(up[s])}) IN
           /\ up' = [up EXCEPT ![s] = SubSeq(@, n + 1, Len(@))]
           /\ \E size \in 1 .. 2 :
                conn' = [conn EXCEPT ![c] = AfterRead(@, n, {up[s][i] : i \in 1 .. n}, size)]
      /\ UNCHANGED <<fd, backlog, down, client, sent>>
  BY DEF HandleRead, clients
<1>2. ThreadShape /\ BatchShape /\ TableShape /\ NetShape /\ ClientShape /\ "in" \in Kinds
  BY DEF ServerInv, Shape, Kinds
<1>3. /\ conn[c] \in Connections /\ conn[c].fd \in Descriptors /\ Pending(t, "in", c)
  BY ONLY <1>1, <1>2, ServerInv, t \in Threads, c \in Clients, EventEffect DEF ServerInv
<1>4. down'[c] = down[c] /\ client'[c] = client[c] /\ sent'[c] = sent[c]
  BY <1>1
<1>5. ~Queued(c) /\ client[c] # "new" /\ ~Queued(c)'
  <2>1. conn[c] # None
    BY <1>3, NoneApart
  <2>2. QED
    BY <1>1, <2>1 DEF ServerInv, QueueInv, Queued
<1>6. \A len \in 1 .. 2 : Response(c, len) => Response(c, len)'
  BY <1>4 DEF Response, Off
<1>7. CASE client[c] = "closed"
  BY <1>4, <1>5, <1>6, <1>7 DEF Talk
<1>8. CASE client[c] # "closed"
  <2>1. Served(c)
    <3>1. HeldOnce(c)
      BY DEF ServerInv, HoldInv
    <3>2. \A u \in Threads : ~Handles(u, c)
      BY <1>2, <1>3, <3>1 DEF HeldOnce
    <3>3. QED
      BY <1>2, <1>3, <3>2 DEF Served, Unheld
  <2>2. s = c /\ InStep(c, conn[c])
    BY <1>8, <2>1 DEF Talk
  <2>3. PICK k \in Connections : k = conn[c]
    BY <1>3
  <2>4. PICK u \in Seq(Clients) : u = up[c]
    BY <1>2 DEF NetShape
  <2>5. u # <<>> /\ Len(u) \in Nat \ {0}
    BY <1>1, <2>2, <2>4
  <2>6. Requesting(c, k) /\ k.from \subseteq {c} /\ Own(c)
    BY <2>2, <2>3, <2>4, <2>5 DEF InStep, Answering, Answered, Finished
  <2>7. /\ client[c] \in {"send", "recv"} /\ down[c] = <<>> /\ Reading(k)
        /\ k.lenPtr + k.inPtr + Len(u) = Due(c)
    BY <2>4, <2>6 DEF Requesting
  <2>8. /\ k.lenPtr \in 0 .. LenUnits /\ k.inPtr \in 0 .. DataUnits
        /\ LenUnits \in Nat \ {0} /\ DataUnits \in Nat \ {0}
    BY ServerAssumption DEF Connections
  <2>9. Wanted(c) = IF k.state = "READ_DATA" THEN DataUnits - k.inPtr
                                             ELSE LenUnits - k.lenPtr
    BY <2>3 DEF Wanted
  <2>10. PICK n \in Nat : /\ n = Min({Wanted(c), Len(u)}) /\ n <= Len(u) /\ n <= Wanted(c)
                          /\ n = Wanted(c) \/ n = Len(u)
    BY <1>1, <1>2, <1>3, <2>2, <2>4, ReadSize
  <2>11. n >= 1
    BY <2>5, <2>7, <2>8, <2>9, <2>10 DEF Reading
  <2>12. up' = [up EXCEPT ![c] = SubSeq(u, n + 1, Len(u))]
    BY <1>1, <2>2, <2>4, <2>10
  <2>13. PICK size \in 1 .. 2 :
           conn' = [conn EXCEPT ![c] = AfterRead(k, n, {u[i] : i \in 1 .. n}, size)]
    <3>1. n = Min({Wanted(c), Len(up[s])}) /\ up[s] = u
      BY <2>2, <2>4, <2>10
    <3> HIDE DEF s
    <3>2. PICK size \in 1 .. 2 :
            conn' = [conn EXCEPT ![c] = AfterRead(@, n, {up[s][i] : i \in 1 .. n}, size)]
      BY <1>1, <3>1
    <3>3. QED
      BY <2>3, <3>1, <3>2
  <2>14. {u[i] : i \in 1 .. n} = {c}
    <3>1. \A i \in 1 .. n : i \in 1 .. Len(u)
      BY <2>5, <2>10
    <3>2. \A i \in 1 .. n : u[i] = c
      BY <2>4, <2>6, <3>1 DEF Own
    <3>3. 1 \in 1 .. n
      BY <2>11
    <3>4. QED
      BY <3>2, <3>3
  <2>15. /\ up'[c] \in Seq(Clients) /\ Len(up'[c]) = Len(u) - n
         /\ \A i \in 1 .. Len(up'[c]) : up'[c][i] = c
    <3>1. up'[c] = SubSeq(u, n + 1, Len(u))
      BY <1>2, <2>12 DEF NetShape
    <3>2. /\ Len(SubSeq(u, n + 1, Len(u))) = Len(u) - n
          /\ SubSeq(u, n + 1, Len(u)) \in Seq(Clients)
      BY <2>5, <2>10, SuffixOf
    <3>suffix. ASSUME NEW i \in 1 .. (Len(u) - n)
          PROVE  SubSeq(u, n + 1, Len(u))[i] = u[n + i]
      <4>1. SubSeq(u, n + 1, Len(u))[i] = u[(n + 1) + i - 1]
        BY <2>5, <2>10
      <4>2. (n + 1) + i - 1 = n + i
        BY <2>5, <2>10
      <4>3. QED
        BY <4>1, <4>2
    <3>3. \A i \in 1 .. (Len(u) - n) : n + i \in 1 .. Len(u)
      BY <2>5, <2>10
    <3>4. QED
      BY <2>4, <2>6, <3>1, <3>2, <3>3, <3>suffix DEF Own
  <2>16. PICK r : r = AfterRead(k, n, {c}, size) /\ r = conn'[c]
    BY <1>2, <2>13, <2>14 DEF TableShape
  <2>17. /\ r.from = k.from \cup {c} /\ r.outPtr = k.outPtr /\ r.fd = k.fd
         /\ k.state = "READ_DATA" /\ k.inPtr + n < DataUnits =>
              /\ r.state = "READ_DATA" /\ r.lenPtr = k.lenPtr /\ r.inPtr = k.inPtr + n
              /\ r.outLen = k.outLen
         /\ k.state = "READ_DATA" /\ ~(k.inPtr + n < DataUnits) =>
              /\ r.state = "WRITE_DATA" /\ r.lenPtr = 0 /\ r.inPtr = 0 /\ r.outLen = size
         /\ k.state # "READ_DATA" =>
              /\ r.state = IF k.lenPtr + n < LenUnits THEN "READ_LEN" ELSE "READ_DATA"
              /\ r.lenPtr = k.lenPtr + n /\ r.inPtr = k.inPtr /\ r.outLen = k.outLen
    <3>1. {c} \in SUBSET Clients
      OBVIOUS
    <3>2. QED
      BY ONLY <2>16, <3>1, k \in Connections, n \in Nat, size \in 1 .. 2, ReadFields
  <2>18. r.from = {c} /\ Own(c)' /\ Due(c)' = Due(c)
    BY <1>4, <2>6, <2>15, <2>17 DEF Own, Due
  <2>19. Requesting(c, r)' \/ Answering(c, r)'
    <3>1. CASE k.state = "READ_DATA" /\ k.inPtr + n < DataUnits
      <4>1. Reading(r)
        BY <2>7, <2>8, <2>17, <3>1 DEF Reading
      <4>2. r.lenPtr + r.inPtr + Len(up'[c]) = Due(c)'
        BY <2>5, <2>7, <2>8, <2>15, <2>17, <2>18, <3>1
      <4>3. QED
        BY <1>4, <2>7, <4>1, <4>2 DEF Requesting
    <3>2. CASE k.state # "READ_DATA"
      <4>1. k.inPtr = 0 /\ k.lenPtr < LenUnits /\ k.outPtr = 0 /\ k.outLen = 0
        BY <2>7, <3>2 DEF Reading
      <4>2. k.lenPtr + n <= LenUnits
        BY <2>8, <2>9, <2>10, <3>2
      <4>3. r.lenPtr + r.inPtr + Len(up'[c]) = Due(c)'
        BY <2>5, <2>7, <2>8, <2>15, <2>17, <2>18, <3>2
      <4>4. Reading(r)
        <5>1. CASE k.lenPtr + n < LenUnits
          BY <2>8, <2>17, <3>2, <4>1, <5>1 DEF Reading
        <5>2. CASE ~(k.lenPtr + n < LenUnits)
          <6>1. r.lenPtr = LenUnits /\ r.state = "READ_DATA" /\ r.inPtr = 0
            BY <2>8, <2>17, <3>2, <4>1, <4>2, <5>2
          <6>2. QED
            BY <2>8, <2>17, <3>2, <4>1, <6>1 DEF Reading
        <5>3. QED
          BY <5>1, <5>2
      <4>5. QED
        BY <1>4, <2>7, <4>3, <4>4 DEF Requesting
    <3>3. CASE k.state = "READ_DATA" /\ ~(k.inPtr + n < DataUnits)
      <4>1. k.lenPtr = LenUnits /\ k.outPtr = 0
        BY <2>7, <3>3 DEF Reading
      <4>2. k.inPtr + n = DataUnits
        BY <2>8, <2>9, <2>10, <3>3
      <4>3. Due(c) >= LenUnits + DataUnits /\ Due(c) = LenUnits + k.inPtr + Len(u)
        BY <2>5, <2>7, <2>8, <2>10, <4>1, <4>2
      <4>4. client[c] = "recv"
        <5>1. client[c] = "send" => Due(c) < LenUnits + DataUnits /\ Due(c) \in Nat
          BY <1>2 DEF ClientInv, Due, ClientShape
        <5>2. QED
          BY <2>7, <2>8, <4>3, <5>1
      <4>5. Len(u) = n
        <5>1. Due(c) = LenUnits + DataUnits
          BY <4>4 DEF Due
        <5>2. QED
          BY <2>5, <2>8, <4>2, <4>3, <5>1
      <4>6. up'[c] = <<>>
        BY <2>15, <4>5
      <4>7. Off(c)' = 0 /\ Len(down'[c]) = 0
        BY <1>4, <2>7, <4>4 DEF Off
      <4>8. Response(c, r.outLen)'
        <5>1. r.outLen = size
          BY <2>17, <3>3
        <5>2. Response(c, size)'
          BY <4>7 DEF Response
        <5>3. QED
          BY <5>1, <5>2
      <4>9. r.outPtr = 0 /\ r.outPtr < r.outLen /\ r.state = "WRITE_DATA"
              /\ r.lenPtr = 0 /\ r.inPtr = 0
        BY <2>17, <3>3, <4>1
      <4>10. QED
        BY <1>4, <2>18, <4>4, <4>6, <4>7, <4>8, <4>9 DEF Answering
    <3>4. QED
      BY <3>1, <3>2, <3>3
  <2>20. InStep(c, r)'
    BY <2>18, <2>19 DEF InStep
  <2>21. fd'[conn'[c].fd] = c /\ InStep(c, conn[c])'
    BY <1>1, <2>2, <2>3, <2>16, <2>17, <2>20
  <2>22. QED
    BY <1>4, <1>5, <2>7, <2>21 DEF Talk
<1>9. QED
  BY <1>7, <1>8

(* A write adds the next units of the response; after the last of them the *)
(* Connection is as new.                                                   *)
LEMMA WriteTalks ==
  ASSUME ServerInv, ClientInv, NEW t \in Threads, NEW c \in Clients, Talk(c),
         HandleWrite(t, c)
  PROVE  Talk(c)'
<1> DEFINE s == fd[conn[c].fd]
<1>1. PICK n \in 1 .. (conn[c].outLen - conn[c].outPtr) :
        /\ s # None /\ peer[s] \in {"open", "shut"}
        /\ IF peer[s] = "open"
           THEN down' = [down EXCEPT ![s] = @ \o
                  [i \in 1 .. n |-> <<conn[c].from, conn[c].outPtr + i, conn[c].outLen>>]]
           ELSE UNCHANGED down
        /\ conn' = [conn EXCEPT ![c] = AfterWrite(conn[c], n)]
  BY DEF HandleWrite
<1>2. Event(t, "out", c) /\ UNCHANGED <<fd, backlog, up, client, sent>>
  BY DEF HandleWrite, clients
<1>3. ThreadShape /\ BatchShape /\ TableShape /\ NetShape /\ ClientShape /\ "out" \in Kinds
  BY DEF ServerInv, Shape, Kinds
<1>4. conn[c] \in Connections /\ conn[c].fd \in Descriptors /\ Pending(t, "out", c)
  BY ONLY <1>2, <1>3, ServerInv, t \in Threads, c \in Clients, EventEffect DEF ServerInv
<1>5. up'[c] = up[c] /\ client'[c] = client[c] /\ sent'[c] = sent[c]
  BY <1>2
<1>6. ~Queued(c) /\ client[c] # "new" /\ ~Queued(c)'
  <2>1. conn[c] # None
    BY <1>4, NoneApart
  <2>2. QED
    BY <1>2, <2>1 DEF ServerInv, QueueInv, Queued
<1>7. CASE client[c] = "closed"
  <2>1. peer[c] # "open"
    BY <1>7 DEF ClientInv
  <2>2. down'[c] = down[c]
    <3>1. CASE peer[s] = "open"
      BY <1>1, <1>3, <2>1, <3>1 DEF NetShape
    <3>2. CASE peer[s] # "open"
      BY <1>1, <3>2
    <3>3. QED
      BY <3>1, <3>2
  <2>3. \A len \in 1 .. 2 : Response(c, len) => Response(c, len)'
    BY <1>5, <2>2 DEF Response, Off
  <2>4. QED
    BY <1>5, <1>6, <1>7, <2>2, <2>3 DEF Talk
<1>8. CASE client[c] # "closed"
  <2>1. Served(c)
    <3>1. HeldOnce(c)
      BY DEF ServerInv, HoldInv
    <3>2. \A u \in Threads : ~Handles(u, c)
      BY <1>3, <1>4, <3>1 DEF HeldOnce
    <3>3. QED
      BY <1>3, <1>4, <3>2 DEF Served, Unheld
  <2>2. s = c /\ InStep(c, conn[c])
    BY <1>8, <2>1 DEF Talk
  <2>3. PICK k \in Connections : k = conn[c]
    BY <1>4
  <2>4. n \in Nat \ {0} /\ k.outPtr \in Int /\ k.outLen \in Int /\ k.outPtr + n <= k.outLen
    BY <1>1, <2>3 DEF Connections
  <2>5. Answering(c, k) /\ Own(c)
    BY <2>2, <2>3, <2>4 DEF InStep, Requesting, Answered, Finished, Fresh, Reading
  <2>6. /\ client[c] \in {"recv", "payload"} /\ up[c] = <<>>
        /\ k.state = "WRITE_DATA" /\ k.lenPtr = 0 /\ k.inPtr = 0 /\ k.from = {c}
        /\ k.outPtr < k.outLen /\ Off(c) + Len(down[c]) = k.outPtr /\ Response(c, k.outLen)
    BY <2>5 DEF Answering
  <2>7. peer[c] = "open"
    BY <1>1, <1>6, <1>8, <2>2 DEF ClientInv
  <2> DEFINE piece == [i \in 1 .. n |-> <<{c}, k.outPtr + i, k.outLen>>]
  <2>8. PICK d \in Seq(Units) : d = down[c]
    BY <1>3 DEF NetShape
  <2>9. down' = [down EXCEPT ![c] = d \o piece]
    <3>1. down' = [down EXCEPT ![c] = down[c] \o
            [i \in 1 .. n |-> <<conn[c].from, conn[c].outPtr + i, conn[c].outLen>>]]
      BY <1>1, <2>2, <2>7
    <3>2. QED
      BY <2>3, <2>6, <2>8, <3>1
  <2>10. down'[c] = d \o piece
    BY <1>3, <2>9 DEF NetShape
  <2>11. /\ Off(c) \in {0, 1} /\ Off(c)' = Off(c)
    BY <1>5 DEF Off
  <2>12. PICK off \in {0, 1} : off = Off(c)
    BY <2>11
  <2>13. /\ Len(d) \in Nat /\ off + Len(d) = k.outPtr /\ k.outLen \in 1 .. 2
         /\ \A i \in 1 .. Len(d) : d[i] = <<{c}, off + i, k.outLen>>
    <3>1. Len(d) \in Nat /\ off + Len(d) = k.outPtr
      BY <2>6, <2>8, <2>12
    <3>2. PICK len : len = k.outLen
      OBVIOUS
    <3>3. Response(c, len)
      BY <2>6, <3>2
    <3>4. /\ len \in 1 .. 2
          /\ \A i \in 1 .. Len(d) : d[i] = <<{c}, off + i, len>>
      BY <2>8, <2>12, <3>3 DEF Response
    <3>5. QED
      BY <3>1, <3>2, <3>4
  <2>14. /\ Len(down'[c]) = Len(d) + n
         /\ \A i \in 1 .. (Len(d) + n) : down'[c][i] = <<{c}, off + i, k.outLen>>
    <3>1. piece \in Seq(Units) /\ Len(piece) = n
      <4>1. \A i \in 1 .. n : <<{c}, k.outPtr + i, k.outLen>> \in Units
        BY <2>4 DEF Units
      <4>2. QED
        BY <2>4, <4>1
    <3>2. \A i \in 1 .. n : piece[i] = <<{c}, k.outPtr + i, k.outLen>>
      OBVIOUS
    <3> HIDE DEF piece
    <3>3. Len(down'[c]) = Len(d) + n
      <4>1. Len(d \o piece) = Len(d) + Len(piece)
        BY ONLY d \in Seq(Units), <3>1
      <4>2. QED
        BY <2>10, <3>1, <4>1
    <3>4. ASSUME NEW i \in 1 .. (Len(d) + n)
          PROVE  down'[c][i] = <<{c}, off + i, k.outLen>>
      <4>1. CASE i <= Len(d)
        <5>1. i \in 1 .. Len(d)
          BY <2>4, <2>13, <4>1
        <5>2. down'[c][i] = d[i]
          BY <2>10, <3>1, <5>1
        <5>3. QED
          BY <2>13, <5>1, <5>2
      <4>2. CASE ~(i <= Len(d))
        <5>1. i - Len(d) \in 1 .. n
          BY <2>4, <2>13, <4>2
        <5>2. down'[c][i] = piece[i - Len(d)]
          BY <2>4, <2>10, <2>13, <3>1, <4>2
        <5>3. k.outPtr + (i - Len(d)) = off + i
          BY <2>4, <2>13
        <5>4. QED
          BY <3>2, <5>1, <5>2, <5>3
      <4>3. QED
        BY <4>1, <4>2
    <3>5. QED
      BY <3>3, <3>4
  <2>15. off + Len(down'[c]) = k.outPtr + n /\ Len(down'[c]) \in Nat \ {0}
    BY <2>4, <2>13, <2>14
  <2>16. Response(c, k.outLen)'
    <3>1. PICK len : len = k.outLen
      OBVIOUS
    <3>2. off + Len(down'[c]) <= len /\ len \in 1 .. 2
      BY <2>4, <2>13, <2>15, <3>1
    <3>3. \A i \in 1 .. Len(down'[c]) : down'[c][i] = <<{c}, off + i, len>>
      BY <2>14, <3>1
    <3>4. QED
      BY <2>11, <2>12, <3>1, <3>2, <3>3 DEF Response
  <2>17. down'[c] # <<>>
    BY <2>15
  <2>18. PICK r : r = AfterWrite(k, n) /\ r = conn'[c]
    BY <1>1, <1>3, <2>3 DEF TableShape
  <2>19. /\ r.lenPtr = 0 /\ r.inPtr = 0 /\ r.fd = k.fd
         /\ k.outPtr + n < k.outLen =>
              /\ r.state = k.state /\ r.outPtr = k.outPtr + n
              /\ r.outLen = k.outLen /\ r.from = k.from
         /\ ~(k.outPtr + n < k.outLen) =>
              /\ r.state = "INIT" /\ r.outPtr = 0 /\ r.outLen = 0 /\ r.from = {}
    <3>1. /\ r.lenPtr = k.lenPtr /\ r.inPtr = k.inPtr /\ r.fd = k.fd
          /\ k.outPtr + n < k.outLen =>
               /\ r.state = k.state /\ r.outPtr = k.outPtr + n
               /\ r.outLen = k.outLen /\ r.from = k.from
          /\ ~(k.outPtr + n < k.outLen) =>
               /\ r.state = "INIT" /\ r.outPtr = 0 /\ r.outLen = 0 /\ r.from = {}
      <4>1. n \in Nat /\ r = AfterWrite(k, n)
        BY ONLY <2>4, <2>18
      <4>2. QED
        BY ONLY <4>1, k \in Connections, WriteFields, Zenon
    <3>2. QED
      BY <2>6, <3>1
  <2>20. InStep(c, r)'
    <3>1. Own(c)'
      BY <1>5, <2>5 DEF Own
    <3>2. CASE k.outPtr + n < k.outLen
      <4>1. Off(c)' + Len(down'[c]) = r.outPtr /\ r.outPtr < r.outLen
        BY <2>11, <2>12, <2>15, <2>19, <3>2
      <4>2. Response(c, r.outLen)'
        BY <2>16, <2>19, <3>2
      <4>3. Answering(c, r)'
        BY <1>5, <2>6, <2>19, <3>2, <4>1, <4>2 DEF Answering
      <4>4. QED
        BY <2>6, <2>19, <3>1, <3>2, <4>3 DEF InStep
    <3>3. CASE ~(k.outPtr + n < k.outLen)
      <4>1. k.outPtr + n = k.outLen
        BY <2>4, <3>3
      <4>2. Fresh(r)
        BY <2>19, <3>3, ServerAssumption DEF Fresh, Reading
      <4>3. Off(c)' + Len(down'[c]) = k.outLen
        BY <2>11, <2>12, <2>15, <4>1
      <4>4. Response(c, Off(c) + Len(down[c]))'
        BY <2>16, <4>3
      <4>5. Answered(c, r)'
        BY <1>5, <2>6, <2>17, <4>2, <4>4 DEF Answered
      <4>6. QED
        BY <2>19, <3>1, <3>3, <4>5 DEF InStep
    <3>4. QED
      BY <3>2, <3>3
  <2>21. fd'[conn'[c].fd] = c /\ InStep(c, conn[c])'
    BY <1>2, <2>2, <2>3, <2>18, <2>19, <2>20
  <2>22. \E len \in 1 .. 2 : Response(c, len)'
    <3>1. PICK len \in 1 .. 2 : len = k.outLen
      BY <2>13
    <3>2. Response(c, len)'
      BY <2>16, <3>1
    <3>3. QED
      BY <3>2
  <2>23. QED
    BY <1>5, <1>6, <2>6, <2>17, <2>21, <2>22 DEF Talk
<1>9. QED
  BY <1>7, <1>8

(* A client whose socket the server has closed, or that was refused, is    *)
(* neither in the backlog nor served.                                      *)
LEMMA GoneUnserved ==
  ASSUME ServerInv, NEW c \in Clients, Talk(c), ServerGone(c), client[c] # "closed"
  PROVE  ~Queued(c) /\ ~Served(c)
<1>1. ~Queued(c)
  BY DEF ServerGone, Queued
<1>2. ASSUME Served(c)
      PROVE  FALSE
  <2>1. conn[c] # None
    BY <1>2 DEF Served, ServerInv, HoldInv
  <2>2. conn[c] \in Connections
    BY <2>1 DEF ServerInv, Shape, TableShape
  <2>3. conn[c].fd \in Descriptors
    BY <2>2 DEF Connections
  <2>4. fd[conn[c].fd] = c
    BY <1>2 DEF Talk
  <2>5. QED
    BY <2>3, <2>4 DEF ServerGone
<1>3. QED
  BY <1>1, <1>2

(* A step of a client leaves the server as it is.                          *)
LEMMA ServerStays ==
  ASSUME UNCHANGED server
  PROVE  UNCHANGED <<fd, conn, stolen>> /\ \A d \in Clients : Served(d)' <=> Served(d)
BY DEF server, Served, Unheld, Handles, Pending, Armed

(* A client that connects has sent nothing yet.                            *)
LEMMA ConnectTalks ==
  ASSUME ServerInv, ClientInv, NEW c \in Clients, Talk(c), Connect(c)
  PROVE  Talk(c)'
<1>1. /\ client[c] = "new" /\ client' = [client EXCEPT ![c] = "send"]
      /\ UNCHANGED <<server, up, down, sent>>
  BY DEF Connect
<1>2. client \in [Clients -> {"new", "send", "recv", "payload", "done", "closed"}]
  BY DEF ServerInv, Shape, ClientShape
<1>3. client'[c] = "send" /\ up'[c] = <<>> /\ down'[c] = <<>> /\ sent'[c] = 0
  BY <1>1, <1>2 DEF Talk, ClientInv
<1>4. ~Served(c)
  <2>1. conn[c] = None
    BY <1>1 DEF ServerInv, QueueInv
  <2>2. QED
    BY <2>1 DEF ServerInv, HoldInv, Served
<1>5. ~Served(c)'
  BY <1>1, <1>4, ServerStays
<1>6. Own(c)' /\ Len(up'[c]) = Due(c)'
  <2>1. Len(up'[c]) = 0
    BY <1>3
  <2>2. QED
    BY <1>3, <2>1 DEF Own, Due
<1>7. QED
  BY <1>3, <1>5, <1>6 DEF Talk

(* One more unit is due, and it is on its way if the server can take it.   *)
LEMMA SendTalks ==
  ASSUME ServerInv, ClientInv, NEW c \in Clients, Talk(c), Send(c)
  PROVE  Talk(c)'
<1>1. /\ client \in [Clients -> {"new", "send", "recv", "payload", "done", "closed"}]
      /\ sent \in [Clients -> Nat] /\ up \in [Clients -> Seq(Clients)]
      /\ LenUnits \in Nat \ {0} /\ DataUnits \in Nat \ {0}
  BY ServerAssumption DEF ServerInv, Shape, ClientShape, NetShape
<1>2. /\ client[c] = "send" /\ UNCHANGED <<server, backlog, down>>
      /\ up' = [up EXCEPT ![c] = IF ServerGone(c) THEN up[c] ELSE Append(up[c], c)]
      /\ IF sent[c] + 1 < LenUnits + DataUnits
         THEN sent' = [sent EXCEPT ![c] = sent[c] + 1] /\ UNCHANGED client
         ELSE sent' = [sent EXCEPT ![c] = 0] /\ client' = [client EXCEPT ![c] = "recv"]
  BY DEF Send
<1>3. sent[c] \in Nat /\ sent[c] < LenUnits + DataUnits
  BY <1>1, <1>2 DEF ClientInv
<1>4. down[c] = <<>> /\ down'[c] = <<>>
  BY <1>2 DEF Talk
<1>5. client'[c] \in {"send", "recv"} /\ Due(c) = sent[c] /\ Due(c)' = sent[c] + 1
  <2>1. CASE sent[c] + 1 < LenUnits + DataUnits
    BY <1>1, <1>2, <2>1 DEF Due
  <2>2. CASE ~(sent[c] + 1 < LenUnits + DataUnits)
    <3>1. client'[c] = "recv"
      BY <1>1, <1>2, <2>2
    <3>2. LenUnits + DataUnits = sent[c] + 1
      <4>1. PICK units \in Nat : units = LenUnits + DataUnits
        BY ONLY <1>1
      <4>2. QED
        BY ONLY <1>3, <2>2, <4>1
    <3>3. QED
      BY <1>2, <3>1, <3>2 DEF Due
  <2>3. QED
    BY <2>1, <2>2
<1>6. (Queued(c)' <=> Queued(c)) /\ (Served(c)' <=> Served(c)) /\ UNCHANGED <<fd, conn>>
  BY <1>2, ServerStays DEF Queued
<1>7. CASE ~Queued(c) /\ ~Served(c)
  BY <1>4, <1>5, <1>6, <1>7 DEF Talk
<1>8. CASE Queued(c) \/ Served(c)
  <2>1. Own(c)
    BY <1>2, <1>8 DEF Talk, InStep
  <2>2. up'[c] = Append(up[c], c)
    <3>1. ~ServerGone(c)
      BY <1>2, <1>8, GoneUnserved
    <3>2. QED
      BY <1>1, <1>2, <3>1
  <2>3. up[c] \in Seq(Clients) /\ Len(up[c]) \in Nat
    BY <1>1
  <2>4. Len(up'[c]) = Len(up[c]) + 1
    BY <2>2, <2>3
  <2>5. Own(c)'
    <3>1. ASSUME NEW i \in 1 .. (Len(up[c]) + 1)
          PROVE  Append(up[c], c)[i] = c
      <4>1. CASE i = Len(up[c]) + 1
        BY <2>3, <4>1
      <4>2. CASE i # Len(up[c]) + 1
        <5>1. i \in 1 .. Len(up[c])
          BY <2>3, <4>2
        <5>2. Append(up[c], c)[i] = up[c][i]
          BY <2>3, <5>1
        <5>3. QED
          BY <2>1, <5>1, <5>2 DEF Own
      <4>3. QED
        BY <4>1, <4>2
    <3>2. QED
      BY <2>2, <2>4, <3>1 DEF Own
  <2>6. Queued(c) => Len(up[c]) = sent[c]
    BY <1>2, <1>5 DEF Talk
  <2>7. Queued(c)' => Len(up'[c]) = Due(c)'
    BY <1>3, <1>5, <1>6, <2>3, <2>4, <2>6
  <2>8. ASSUME Served(c)
        PROVE  fd[conn[c].fd] = c /\ InStep(c, conn[c])'
    <3>1. fd[conn[c].fd] = c /\ InStep(c, conn[c])
      BY <1>2, <2>8 DEF Talk
    <3>2. PICK k : k = conn[c]
      OBVIOUS
    <3>3. k \in Connections
      <4>1. conn[c] # None
        BY <2>8 DEF Served, ServerInv, HoldInv
      <4>2. QED
        BY <3>2, <4>1 DEF ServerInv, Shape, TableShape
    <3>4. k.lenPtr \in Nat /\ k.inPtr \in Nat
      BY <1>1, <3>3 DEF Connections
    <3>5. k.from \subseteq {c} /\ Reading(k) /\ k.lenPtr + k.inPtr + Len(up[c]) = sent[c]
      <4>1. InStep(c, k)
        BY <3>1, <3>2
      <4>2. k.from \subseteq {c} /\ Requesting(c, k)
        BY <1>2, <4>1 DEF InStep, Answering, Answered, Finished
      <4>3. QED
        BY <1>5, <4>2 DEF Requesting
    <3>6. k.lenPtr + k.inPtr + Len(up'[c]) = Due(c)'
      <4>1. PICK m \in Nat : m = Len(up[c])
        BY <2>3
      <4>2. Len(up'[c]) = m + 1 /\ k.lenPtr + k.inPtr + m = sent[c] /\ Due(c)' = sent[c] + 1
        BY <1>5, <2>4, <3>5, <4>1
      <4>3. k.lenPtr + k.inPtr + (m + 1) = sent[c] + 1
        BY ONLY <1>3, <3>4, <4>2, m \in Nat
      <4>4. QED
        BY <4>2, <4>3
    <3>7. Requesting(c, k)'
      BY <1>4, <1>5, <3>5, <3>6 DEF Requesting
    <3>8. InStep(c, k)'
      BY <2>5, <3>5, <3>7 DEF InStep
    <3>9. QED
      BY <1>6, <3>1, <3>2, <3>8
  <2>9. QED
    BY <1>4, <1>5, <1>6, <2>5, <2>7, <2>8 DEF Talk
<1>9. QED
  BY <1>7, <1>8

(* A request to a server that has gone is over, and so is the dialogue.    *)
LEMMA GoneTalks ==
  ASSUME ServerInv, NEW c \in Clients, Talk(c), SendFails(c) \/ ReceiveNothing(c)
  PROVE  Talk(c)'
<1>1. /\ client[c] \in {"send", "recv", "payload"} /\ ServerGone(c)
      /\ UNCHANGED <<server, backlog, down>>
      /\ \E status \in {"ok", "exception"} : Over(c, status)
  BY DEF SendFails, ReceiveNothing, network
<1>2. client[c] = "send" \/ down[c] = <<>>
  BY DEF SendFails, ReceiveNothing
<1>3. down'[c] = <<>>
  BY <1>1, <1>2 DEF Talk
<1>4. client'[c] \in {"send", "done"}
  BY <1>1 DEF Over, ServerInv, Shape, ClientShape
<1>5. ~Queued(c) /\ ~Served(c)
  BY <1>1, GoneUnserved
<1>6. ~Queued(c)' /\ ~Served(c)'
  BY <1>1, <1>5, ServerStays DEF Queued
<1>7. QED
  BY <1>3, <1>4, <1>6 DEF Talk

(* A client that has closed its socket takes part in no dialogue.          *)
LEMMA DisconnectTalks ==
  ASSUME ServerInv, NEW c \in Clients, Disconnect(c)
  PROVE  Talk(c)'
<1>1. client'[c] = "closed" /\ down'[c] = <<>>
  BY DEF Disconnect, ServerInv, Shape, ClientShape, NetShape
<1>2. QED
  BY <1>1 DEF Talk

(* A client takes the head and, if it announces one, the payload of one    *)
(* response; with its last unit the next request may begin.                *)
LEMMA ReceiveTalks ==
  ASSUME ServerInv, NEW c \in Clients, Talk(c), Receive(c)
  PROVE  Talk(c)'
<1>1. /\ client \in [Clients -> {"new", "send", "recv", "payload", "done", "closed"}]
      /\ sent \in [Clients -> Nat] /\ down \in [Clients -> Seq(Units)]
  BY DEF ServerInv, Shape, ClientShape, NetShape
<1>2. /\ client[c] \in {"recv", "payload"} /\ down[c] # <<>>
      /\ down' = [down EXCEPT ![c] = Tail(down[c])] /\ UNCHANGED <<server, backlog, up>>
      /\ IF client[c] = "recv" /\ Head(down[c])[3] = 2
         THEN client' = [client EXCEPT ![c] = "payload"]
         ELSE Over(c, "ok")
  BY DEF Receive
<1>3. PICK d \in Seq(Units) : d = down[c]
  BY <1>1
<1>4. /\ Len(d) \in Nat \ {0} /\ Head(d) = d[1] /\ down'[c] = Tail(d)
      /\ Len(down'[c]) = Len(d) - 1
  BY <1>1, <1>2, <1>3
<1>5. \A i \in 1 .. (Len(d) - 1) : down'[c][i] = d[i + 1] /\ i + 1 \in 1 .. Len(d)
  BY <1>3, <1>4
<1>6. PICK off \in {0, 1} : off = Off(c) /\ (off = 0 <=> client[c] = "recv")
  BY <1>2 DEF Off
<1>7. PICK len \in 1 .. 2 : Response(c, len)
  BY <1>2 DEF Talk
<1>8. /\ off + Len(d) <= len
      /\ \A i \in 1 .. Len(d) : d[i] = <<{c}, off + i, len>>
  BY <1>3, <1>6, <1>7 DEF Response
<1>first. 1 \in 1 .. Len(d)
  BY ONLY <1>4
<1>9. Head(d)[3] = len
  <2>1. Head(d) = <<{c}, off + 1, len>>
    BY ONLY <1>4, <1>8, <1>first
  <2>2. QED
    BY ONLY <2>1
<1>10. ASSUME NEW m, Response(c, m)
       PROVE  m = len
  <2>1. \A i \in 1 .. Len(d) : d[i] = <<{c}, off + i, m>>
    BY <1>3, <1>6, <1>10 DEF Response
  <2>2. <<{c}, off + 1, m>> = <<{c}, off + 1, len>>
    BY ONLY <1>8, <1>first, <2>1
  <2>3. QED
    BY ONLY <2>2
<1>11. ~Queued(c)' /\ (Served(c)' <=> Served(c)) /\ UNCHANGED <<fd, conn>>
  BY <1>2, ServerStays DEF Queued, Talk
<1>12. up'[c] = up[c] /\ (Own(c)' <=> Own(c))
  BY <1>2 DEF Own
<1>13. ASSUME Served(c)
       PROVE  /\ fd[conn[c].fd] = c /\ conn[c].from \subseteq {c} /\ Own(c)
              /\ Answering(c, conn[c]) \/ Answered(c, conn[c])
  BY <1>2, <1>13 DEF Talk, InStep, Requesting, Finished
<1>14. CASE client[c] = "recv" /\ len = 2
  <2>1. client'[c] = "payload" /\ Off(c)' = 1 /\ off = 0
    BY <1>1, <1>2, <1>3, <1>6, <1>9, <1>14 DEF Off
  <2>2. Response(c, 2)'
    <3>1. 1 + Len(down'[c]) <= 2
      BY <1>4, <1>8, <1>14, <2>1
    <3>2. ASSUME NEW i \in 1 .. Len(down'[c])
          PROVE  down'[c][i] = <<{c}, 1 + i, 2>>
      <4>1. i \in 1 .. (Len(d) - 1)
        BY <1>4
      <4>2. d[i + 1] = <<{c}, 0 + (i + 1), 2>>
        BY <1>5, <1>8, <1>14, <2>1, <4>1
      <4>3. QED
        BY <1>5, <4>1, <4>2
    <3>3. /\ Off(c)' + Len(down'[c]) <= 2
          /\ \A i \in 1 .. Len(down'[c]) : down'[c][i] = <<{c}, Off(c)' + i, 2>>
      BY <2>1, <3>1, <3>2
    <3>4. 2 \in 1 .. 2
      OBVIOUS
    <3>5. QED
      BY ONLY <3>3, <3>4 DEF Response
  <2>3. ASSUME Served(c)
        PROVE  fd'[conn'[c].fd] = c /\ InStep(c, conn[c])'
    <3>1. PICK k : k = conn[c]
      OBVIOUS
    <3>2. k.from \subseteq {c} /\ Own(c) /\ (Answering(c, k) \/ Answered(c, k))
      BY <1>13, <2>3, <3>1
    <3>3. CASE Answering(c, k)
      <4>1. PICK m : m = k.outLen
        OBVIOUS
      <4>2. m = 2 /\ off + Len(d) = k.outPtr /\ k.outPtr < m
        BY <1>3, <1>6, <1>10, <1>14, <3>3, <4>1 DEF Answering
      <4>3. 1 + Len(down'[c]) = k.outPtr
        BY <1>4, <2>1, <4>2
      <4>4. Response(c, k.outLen)'
        BY <2>2, <4>1, <4>2
      <4>5. Answering(c, k)'
        BY <1>12, <2>1, <3>3, <4>1, <4>2, <4>3, <4>4 DEF Answering
      <4>6. QED
        BY <1>11, <1>12, <1>13, <2>3, <3>1, <3>2, <4>5 DEF InStep
    <3>4. CASE Answered(c, k)
      <4>1. PICK m : m = off + Len(d)
        OBVIOUS
      <4>2. m = 2
        BY <1>3, <1>6, <1>10, <1>14, <3>4, <4>1 DEF Answered
      <4>3. Len(d) = 2 /\ Len(down'[c]) = 1 /\ Off(c)' + Len(down'[c]) = 2
        <5>1. Len(d) = 2
          <6>1. PICK l \in Nat : l = Len(d)
            BY <1>4
          <6>2. 0 + l = 2
            BY <2>1, <4>1, <4>2, <6>1
          <6>3. l = 2
            BY ONLY <6>2, l \in Nat
          <6>4. QED
            BY ONLY <6>1, <6>3, Zenon
        <5>2. Len(down'[c]) = 1
          BY <1>4, <5>1
        <5>3. QED
          BY <2>1, <5>1, <5>2
      <4>4. down'[c] # <<>> /\ Response(c, Off(c) + Len(down[c]))'
        <5>1. down'[c] # <<>>
          BY <1>1, <1>4, <4>3
        <5>2. Response(c, Off(c) + Len(down[c]))'
          BY ONLY <2>2, <4>3
        <5>3. QED
          BY <5>1, <5>2
      <4>5. Answered(c, k)'
        BY <1>12, <2>1, <3>4, <4>4 DEF Answered
      <4>6. QED
        BY <1>11, <1>12, <1>13, <2>3, <3>1, <3>2, <4>5 DEF InStep
    <3>5. QED
      BY <3>2, <3>3, <3>4
  <2>4. QED
    BY <1>11, <2>1, <2>2, <2>3 DEF Talk
<1>15. CASE ~(client[c] = "recv" /\ len = 2)
  <2>1. Over(c, "ok")
    BY <1>2, <1>3, <1>9, <1>15
  <2>2. client'[c] \in {"send", "done"} /\ sent'[c] = 0
    BY <1>1, <2>1 DEF Over
  <2>3. off + 1 = len /\ Len(d) = 1
    <3>1. CASE off = 0
      <4>1. len = 1
        BY <1>6, <1>15, <3>1
      <4>2. QED
        BY <1>4, <1>8, <3>1, <4>1
    <3>2. CASE off = 1
      BY <1>4, <1>8, <3>2
    <3>3. QED
      BY <3>1, <3>2
  <2>4. down'[c] = <<>>
    BY <1>4, <2>3
  <2>5. ASSUME Served(c)
        PROVE  fd'[conn'[c].fd] = c /\ InStep(c, conn[c])'
    <3>1. PICK k : k = conn[c]
      OBVIOUS
    <3>2. k.from \subseteq {c} /\ Own(c) /\ (Answering(c, k) \/ Answered(c, k))
      BY <1>13, <2>5, <3>1
    <3>3. ~Answering(c, k)
      <4>1. SUFFICES ASSUME Answering(c, k) PROVE FALSE
        OBVIOUS
      <4>2. PICK m : m = k.outLen
        OBVIOUS
      <4>3. m = len /\ off + Len(d) < m
        BY <1>3, <1>6, <1>10, <4>1, <4>2 DEF Answering
      <4>4. QED
        BY <2>3, <4>3
    <3>4. Fresh(k) /\ up[c] = <<>>
      BY <3>2, <3>3 DEF Answered
    <3>5. Requesting(c, k)' \/ Finished(c, k)'
      <4>1. CASE client'[c] = "send"
        <5>1. Due(c)' = 0 /\ Len(up'[c]) = 0
          BY <1>12, <2>2, <3>4, <4>1 DEF Due
        <5>2. k.lenPtr = 0 /\ k.inPtr = 0 /\ Reading(k)
          BY <3>4 DEF Fresh
        <5>3. k.lenPtr + k.inPtr + Len(up'[c]) = Due(c)'
          BY <5>1, <5>2
        <5>4. QED
          BY <2>4, <4>1, <5>2, <5>3 DEF Requesting
      <4>2. CASE client'[c] = "done"
        BY <1>12, <2>4, <3>4, <4>2 DEF Finished
      <4>3. QED
        BY <2>2, <4>1, <4>2
    <3>6. QED
      BY <1>11, <1>12, <1>13, <2>5, <3>1, <3>2, <3>5 DEF InStep
  <2>6. QED
    BY <1>11, <2>2, <2>4, <2>5 DEF Talk
<1>16. QED
  BY <1>14, <1>15

(* A step of client c is one of c alone.                                   *)
LEMMA ClientTalks ==
  ASSUME ServerInv, TalkInv, NEW c \in Clients, Client(c)
  PROVE  TalkInv'
<1>1. ClientInv
  BY DEF TalkInv
<1>2. UNCHANGED server
  BY DEF Client, Connect, Send, SendFails, Reads, Receive, ReceiveNothing, Disconnect
<1>3. UNCHANGED <<fd, conn, stolen>> /\ \A d \in Clients : Served(d)' <=> Served(d)
  BY <1>2, ServerStays
<1>4. /\ client \in [Clients -> {"new", "send", "recv", "payload", "done", "closed"}]
      /\ sent \in [Clients -> Nat] /\ NetShape
  BY DEF ServerInv, Shape, ClientShape
<1>5. ASSUME c \notin stolen
      PROVE  Talk(c)'
  <2>1. Talk(c)
    BY <1>5 DEF TalkInv
  <2>2. QED
    BY <1>1, <2>1, ConnectTalks, SendTalks, GoneTalks, ReceiveTalks, DisconnectTalks
       DEF Client, Reads
<1>6. ASSUME NEW d \in Clients, d # c
      PROVE  /\ up'[d] = up[d] /\ down'[d] = down[d] /\ client'[d] = client[d]
             /\ sent'[d] = sent[d] /\ peer'[d] = peer[d]
  <2>1. CASE Connect(c)
    BY <1>4, <1>6, <2>1 DEF Connect, NetShape
  <2>2. CASE Send(c)
    BY <1>4, <1>6, <2>2 DEF Send, NetShape
  <2>3. CASE SendFails(c) \/ ReceiveNothing(c)
    BY <1>4, <1>6, <2>3 DEF SendFails, ReceiveNothing, Over, network
  <2>4. CASE Receive(c)
    BY <1>4, <1>6, <2>4 DEF Receive, Over, NetShape
  <2>5. CASE Disconnect(c)
    BY <1>4, <1>6, <2>5 DEF Disconnect, NetShape
  <2>6. QED
    BY <2>1, <2>2, <2>3, <2>4, <2>5 DEF Client, Reads
<1>7. ASSUME NEW d \in Clients, d # c
      PROVE  Queued(d)' => Queued(d)
  <2>1. CASE Connect(c)
    <3>1. backlog' = Append(backlog, c) /\ backlog \in Seq(Clients)
      BY <1>4, <2>1 DEF Connect, NetShape
    <3>2. /\ Len(backlog) \in Nat /\ Len(backlog') = Len(backlog) + 1
          /\ backlog'[Len(backlog) + 1] = c
          /\ \A i \in 1 .. Len(backlog) : backlog'[i] = backlog[i]
      BY <3>1
    <3>3. \A i \in 1 .. Len(backlog') : i \in 1 .. Len(backlog) \/ i = Len(backlog) + 1
      BY <3>2
    <3>4. QED
      BY <1>7, <3>2, <3>3 DEF Queued
  <2>2. CASE ~Connect(c)
    <3>1. UNCHANGED backlog
      BY <2>2 DEF Client, Send, SendFails, Reads, Receive, ReceiveNothing, Disconnect, network
    <3>2. QED
      BY <3>1 DEF Queued
  <2>3. QED
    BY <2>1, <2>2
<1>8. ASSUME NEW d \in Clients \ stolen, d # c
      PROVE  Talk(d)'
  <2>1. Talk(d)
    BY DEF TalkInv
  <2>2. Spared(d)
    BY <1>3, <1>6, <1>8 DEF Spared
  <2>3. QED
    BY <1>6, <1>7, <1>8, <2>1, <2>2, SparedTalks
<1>9. ClientInv'
  <2>1. LenUnits \in Nat \ {0} /\ DataUnits \in Nat \ {0}
    BY ServerAssumption
  <2>2. LenUnits + DataUnits \in Nat /\ 0 < LenUnits + DataUnits
    BY <2>1
  <2>3. /\ client'[c] = "send" => sent'[c] < LenUnits + DataUnits
        /\ client'[c] # "new"
        /\ client'[c] = "closed" => peer'[c] # "open"
        /\ client'[c] # "closed" => peer'[c] \in {"open", "refused"}
    <3> USE <1>1 DEF ClientInv, NetShape
    <3>1. CASE Connect(c)
      BY <1>4, <2>2, <3>1 DEF Connect
    <3>2. CASE Send(c)
      BY <1>4, <2>2, <3>2 DEF Send
    <3>3. CASE SendFails(c) \/ ReceiveNothing(c)
      BY <1>4, <2>2, <3>3 DEF SendFails, ReceiveNothing, Over, network
    <3>4. CASE Receive(c)
      BY <1>4, <2>2, <3>4 DEF Receive, Over
    <3>5. CASE Disconnect(c)
      BY <1>4, <2>2, <3>5 DEF Disconnect
    <3>6. QED
      BY <3>1, <3>2, <3>3, <3>4, <3>5 DEF Client, Reads
  <2>4. QED
    BY <1>1, <1>6, <2>3 DEF ClientInv
<1>10. QED
  BY <1>3, <1>5, <1>8, <1>9 DEF TalkInv

(* Once the socket of a client has been hit it counts as stolen for good.  *)
LEMMA StolenGrows ==
  ASSUME NEW t \in Threads, Loop(t)
  PROVE  stolen \subseteq stolen'
<1>1. \A n, c : Steal(n, c) => stolen \subseteq stolen'
  BY DEF Steal
<1>2. CASE TakeTask(t) \/ EpollWait(t) \/ Accept(t)
  BY <1>2 DEF TakeTask, EpollWait, Accept
<1>3. CASE DelAfterDelete(t) \/ ReadFailsDel(t)
  BY <1>1, <1>3 DEF DelAfterDelete, ReadFailsDel, EpollDel
<1>4. CASE AcceptAdd(t)
  BY <1>1, <1>4 DEF AcceptAdd
<1>5. CASE AddFailed(t) \/ ReadFailsClose(t) \/ WriteFailsClose(t)
  BY <1>1, <1>5 DEF AddFailed, ReadFailsClose, WriteFailsClose, CloseFd
<1>6. CASE Rearm(t)
  BY <1>1, <1>6 DEF Rearm, EpollMod
<1>7. ASSUME NEW c \in Clients,
             \/ ErrorEvent(t, c) \/ HandleRead(t, c) \/ ReadAgain(t, c)
             \/ ReadFails(t, c) \/ HandleWrite(t, c) \/ WriteFails(t, c)
      PROVE  stolen \subseteq stolen'
  BY <1>1, <1>7 DEF ErrorEvent, HandleRead, ReadAgain, ReadFails, HandleWrite, WriteFails,
                    CloseFd
<1>8. QED
  BY <1>2, <1>3, <1>4, <1>5, <1>6, <1>7 DEF Loop

(* What the threads do to the clients: a refusal, a reset after the end.   *)
LEMMA LoopKeepsClients ==
  ASSUME ServerInv, ClientInv, NEW t \in Threads, Plain \/ Accept(t)
  PROVE  /\ ClientInv' /\ UNCHANGED <<client, sent>>
         /\ \A d \in Clients : Queued(d)' => Queued(d)
<1>1. UNCHANGED <<client, sent>>
  BY DEF Plain, Accept, clients
<1>2. CASE Plain
  BY <1>1, <1>2 DEF Plain, ClientInv, Queued
<1>3. CASE Accept(t)
  <2>1. \/ /\ backlog # <<>> /\ backlog' = Tail(backlog)
           /\ UNCHANGED peer \/ peer' = [peer EXCEPT ![Head(backlog)] = "refused"]
        \/ UNCHANGED <<backlog, peer>>
    BY <1>3 DEF Accept
  <2>2. CASE UNCHANGED <<backlog, peer>>
    BY <1>1, <2>2 DEF ClientInv, Queued
  <2>3. CASE /\ backlog # <<>> /\ backlog' = Tail(backlog)
             /\ UNCHANGED peer \/ peer' = [peer EXCEPT ![Head(backlog)] = "refused"]
    <3>1. backlog \in Seq(Clients) /\ peer \in [Clients ->
            {"none", "open", "refused", "shut", "reset"}]
      BY DEF ServerInv, Shape, NetShape
    <3>2. /\ Len(backlog) \in Nat \ {0} /\ Head(backlog) = backlog[1]
          /\ Len(backlog') = Len(backlog) - 1
          /\ \A i \in 1 .. (Len(backlog) - 1) : backlog'[i] = backlog[i + 1]
      BY <2>3, <3>1
    <3>3. \A i \in 1 .. (Len(backlog) - 1) : i + 1 \in 1 .. Len(backlog)
      BY <3>2
    <3>4. \A d \in Clients : Queued(d)' => Queued(d)
      BY <3>2, <3>3 DEF Queued
    <3>5. 1 \in 1 .. Len(backlog)
      BY <3>2
    <3>6. Head(backlog) \in Clients /\ client[Head(backlog)] # "new"
      BY <3>1, <3>2, <3>5 DEF ServerInv, QueueInv
    <3>7. ClientInv'
      BY <1>1, <2>3, <3>1, <3>6 DEF ClientInv
    <3>8. QED
      BY <1>1, <3>4, <3>7
  <2>4. QED
    BY <2>1, <2>2, <2>3
<1>4. QED
  BY <1>2, <1>3

(* A step of a thread keeps every dialogue in step.                        *)
LEMMA LoopTalks ==
  ASSUME ServerInv, TalkInv, NEW t \in Threads, Loop(t)
  PROVE  TalkInv'
<1>1. /\ \/ Quiet
         \/ Accept(t) /\ \A d \in Clients : Spared(d) \/ Accepted(d)
         \/ Plain /\ \E c \in Clients :
              /\ HandleRead(t, c) \/ HandleWrite(t, c)
              /\ \A d \in Clients \ (stolen' \cup {c}) : Spared(d)
  BY LoopEffect
<1>2. ClientInv /\ (\A d \in Clients \ stolen' : Talk(d))
  BY StolenGrows DEF TalkInv
<1>3. Plain \/ Accept(t)
  BY <1>1 DEF Quiet
<1>4. /\ ClientInv' /\ UNCHANGED <<client, sent>>
      /\ \A d \in Clients : Queued(d)' => Queued(d)
  BY <1>2, <1>3, LoopKeepsClients
<1>5. ASSUME NEW d \in Clients \ stolen', Spared(d)
      PROVE  Talk(d)'
  BY <1>2, <1>4, <1>5, SparedTalks
<1>6. ASSUME NEW d \in Clients \ stolen', Accepted(d)
      PROVE  Talk(d)'
  BY <1>2, <1>4, <1>6, AcceptedTalks DEF ServerInv
<1>7. ASSUME NEW c \in Clients \ stolen', HandleRead(t, c) \/ HandleWrite(t, c)
      PROVE  Talk(c)'
  BY <1>2, <1>7, ReadTalks, WriteTalks
<1>8. \A d \in Clients \ stolen' : Talk(d)'
  <2>1. CASE Quiet
    BY <1>5, <2>1 DEF Quiet
  <2>2. CASE \A d \in Clients : Spared(d) \/ Accepted(d)
    BY <1>5, <1>6, <2>2
  <2>3. ASSUME NEW c \in Clients, HandleRead(t, c) \/ HandleWrite(t, c),
               \A d \in Clients \ (stolen' \cup {c}) : Spared(d)
        PROVE  \A d \in Clients \ stolen' : Talk(d)'
    BY <1>5, <1>7, <2>3
  <2>4. QED
    BY <1>1, <2>1, <2>2, <2>3
<1>9. QED
  BY <1>4, <1>8 DEF TalkInv

(* Nobody talks at the start.                                              *)
LEMMA TalkInit ==
  ASSUME Init
  PROVE  TalkInv
<1>1. /\ \A c \in Clients : /\ up[c] = <<>> /\ down[c] = <<>> /\ peer[c] = "none"
                            /\ client[c] \in {"new", "closed"} /\ sent[c] = 0
                            /\ conn[c] = None
      /\ Len(backlog) = 0
  BY DEF Init
<1>2. ClientInv
  BY <1>1 DEF ClientInv
<1>3. \A c \in Clients : ~Served(c) /\ ~Queued(c)
  BY <1>1, ServerInvInit DEF ServerInv, HoldInv, Served, Queued
<1>4. \A c \in Clients : Talk(c)
  BY <1>1, <1>3 DEF Talk
<1>5. QED
  BY <1>2, <1>4 DEF TalkInv

(* Every step keeps the invariant of the dialogues.                        *)
LEMMA TalkNext ==
  ASSUME ServerInv, TalkInv, [Next]_vars
  PROVE  TalkInv'
<1>1. CASE Submit \/ UNCHANGED vars
  <2>1. /\ UNCHANGED <<pc, at, todo, fd, reg, conn, stolen>>
        /\ UNCHANGED <<backlog, up, down, peer, client, sent>>
    BY <1>1 DEF Submit, vars, server, network, clients
  <2>2. ClientInv'
    BY <2>1 DEF TalkInv, ClientInv
  <2>3. ASSUME NEW d \in Clients \ stolen
        PROVE  Talk(d)'
    <3>1. Talk(d)
      BY DEF TalkInv
    <3>2. Spared(d)
      BY <2>1 DEF Spared, Served, Unheld, Handles, Pending, Armed
    <3>3. Queued(d)' => Queued(d)
      BY <2>1 DEF Queued
    <3>4. QED
      BY <2>1, <3>1, <3>2, <3>3, SparedTalks
  <2>4. QED
    BY <2>1, <2>2, <2>3 DEF TalkInv
<1>2. QED
  BY <1>1, LoopTalks, ClientTalks DEF Next

(* The dialogue of each client whose socket no other connection has hit is *)
(* in step with its requests: what loop and handleRead and handleWrite     *)
(* note in the Connection, with what is under way, makes up one request or *)
(* one response.                                                           *)
THEOREM DialogueInvariance == Spec => [](ServerInv /\ TalkInv)
<1>1. Init => ServerInv /\ TalkInv
  BY ServerInvInit, TalkInit
<1>2. ServerInv /\ TalkInv /\ [Next]_vars => (ServerInv /\ TalkInv)'
  BY ServerInvNext, TalkNext
<1>3. QED
  BY <1>1, <1>2, PTL DEF Spec

(* OwnResponse for any number of clients, threads and descriptors: what    *)
(* such a client reads next is the head, or the payload, of the response   *)
(* to its own request.                                                     *)
THEOREM OwnAnswers == Spec => []OwnResponse
<1>1. ServerInv /\ TalkInv => OwnResponse
  <2>1. SUFFICES ASSUME ServerInv, TalkInv, NEW c \in Clients \ stolen, down[c] # <<>>
                 PROVE  /\ Head(down[c])[1] = {c}
                        /\ client[c] = "recv" => Head(down[c])[2] = 1
                        /\ client[c] = "payload" => Head(down[c])[2] = 2
    BY DEF OwnResponse
  <2>2. PICK len \in 1 .. 2 : Response(c, len)
    BY <2>1 DEF TalkInv, Talk
  <2>3. down[c] \in Seq(Units)
    BY <2>1 DEF ServerInv, Shape, NetShape
  <2>4. Len(down[c]) \in Nat \ {0} /\ Head(down[c]) = down[c][1]
    BY <2>1, <2>3
  <2>5. down[c][1] = <<{c}, Off(c) + 1, len>>
    <3>1. 1 \in 1 .. Len(down[c])
      BY <2>4
    <3>2. \A i \in 1 .. Len(down[c]) : down[c][i] = <<{c}, Off(c) + i, len>>
      BY <2>2 DEF Response
    <3>3. QED
      BY ONLY <3>1, <3>2
  <2>6. /\ client[c] = "recv" => Off(c) = 0
        /\ client[c] = "payload" => Off(c) = 1
    BY DEF Off
  <2>7. Head(down[c])[1] = {c} /\ Head(down[c])[2] = Off(c) + 1
    <3>1. PICK x : x = Head(down[c])
      OBVIOUS
    <3>2. x = <<{c}, Off(c) + 1, len>>
      BY <2>4, <2>5, <3>1
    <3>3. x[1] = {c} /\ x[2] = Off(c) + 1
      BY ONLY <3>2
    <3>4. QED
      BY ONLY <3>1, <3>3
  <2>8. QED
    BY <2>6, <2>7
<1>2. QED
  BY <1>1, DialogueInvariance, PTL
=============================================================================
