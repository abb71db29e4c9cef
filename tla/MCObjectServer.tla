--------------------------- MODULE MCObjectServer ---------------------------
(* Model checking of ObjectServer: clients and threads as model values.    *)
EXTENDS ObjectServer, TLC

CONSTANTS c1, c2, c3, t1, t2

(* Two clients.  With two threads each makes one request; with one thread, *)
(* as many as Requests.                                                    *)
TwoClients ==
  /\ Init
  /\ client = [c \in Clients |-> IF c = c3 THEN "closed" ELSE "new"]
  /\ left[c3] = 1
  /\ \/ pc[t1] = "pool" /\ pc[t2] = "pool" /\ left[c1] = 1 /\ left[c2] = 1
     \/ pc[t1] = "pool" /\ pc[t2] = "none" /\ left[c1] = Requests /\ left[c2] = Requests

(* Three clients, from a state two threads can reach: t2 accepted c2, read *)
(* the end of its stream and closed descriptor 5, which it has still to    *)
(* close again; t1 accepted c1 with that number, c1 has sent its request,  *)
(* and t1 has the event; c3 has connected, too.                            *)
ThreeClients ==
  /\ tasks = 0 /\ pc = t1 :> "loop" @@ t2 :> "readclose"
  /\ at = t1 :> None @@ t2 :> c2 /\ connfd = t1 :> 0 @@ t2 :> 5
  /\ todo = t1 :> {<<"in", c1>>} @@ t2 :> {} /\ curfds = [t \in Threads |-> 2]
  /\ fd = [n \in Descriptors |-> IF n = 5 THEN c1 ELSE None]
  /\ reg = [c \in Clients |-> IF c = c1 THEN [ptr |-> c1, armed |-> "no"] ELSE None]
  /\ conn = [c \in Clients |-> IF c = c3 THEN None ELSE ConnectionInit(5)]
  /\ backlog = <<c3>> /\ down = [c \in Clients |-> <<>>]
  /\ up = [c \in Clients |-> IF c = c1 THEN <<c1, c1, c1>> ELSE <<>>]
  /\ peer = c1 :> "open" @@ c2 :> "shut" @@ c3 :> "open"
  /\ client = c1 :> "recv" @@ c2 :> "closed" @@ c3 :> "send"
  /\ sent = [c \in Clients |-> 0] /\ left = [c \in Clients |-> 1]
  /\ stolen = {}

MCInit == TwoClients \/ ThreeClients

MCSpec == MCInit /\ [][Next]_vars /\ Fairness
=============================================================================
