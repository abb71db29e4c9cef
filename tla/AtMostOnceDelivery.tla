------------------------- MODULE AtMostOnceDelivery -------------------------
(***************************************************************************)
(* What a queue or a channel between senders and receivers promises:       *)
(* a message is received only after it was sent, and at most once.  It     *)
(* does not promise that every message is received.                        *)
(***************************************************************************)
EXTENDS Naturals

CONSTANT Messages

VARIABLES sent,       \* the messages that have been sent
          received    \* how often each message has been received

Init == sent = {} /\ received = [m \in Messages |-> 0]

Send(m) == /\ m \notin sent
           /\ sent' = sent \cup {m}
           /\ UNCHANGED received

Receive(m) == /\ m \in sent /\ received[m] = 0
              /\ received' = [received EXCEPT ![m] = 1]
              /\ UNCHANGED sent

Next == \E m \in Messages : Send(m) \/ Receive(m)

Spec == Init /\ [][Next]_<<sent, received>>
=============================================================================
