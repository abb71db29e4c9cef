------------------------------ MODULE SPMCQueue ------------------------------
(***************************************************************************)
(* The lock-free single-producer multi-consumer queue of                   *)
(* opencode-demo2/include/SPMCQueue.h, used by threads of one process (the *)
(* way its tests use it).                                                  *)
(*                                                                         *)
(* One action per access to an atomic or to a slot of data[]; everything   *)
(* between two accesses is thread-local and belongs to the access before   *)
(* it.  All atomics are acquire/release and are interleaved here.  The     *)
(* three push overloads have the same accesses in the same order.          *)
(*                                                                         *)
(* The producer pushes 1, 2, ..., MaxItems (the sequence numbers of        *)
(* producer.cpp).  Segments are numbered in allocation order; 0 is         *)
(* nullptr.  total_size is a size_t: it wraps modulo SizeModulus.          *)
(***************************************************************************)
EXTENDS Naturals, FiniteSets

CONSTANTS Consumers,    \* consumer threads
          SegCap,       \* slots in one segment, SegmentSize / sizeof(T)
          MaxItems,     \* bound: how many items the producer pushes
          SizeModulus   \* 2^64 for a size_t

ASSUME SPMCAssumption ==
  /\ SegCap \in Nat \ {0}
  /\ MaxItems \in Nat
  /\ SizeModulus \in Nat \ {0}

Items    == 1 .. MaxItems
NoItem   == 0
Null     == 0
\* A push allocates at most one segment, so the bound on items bounds these.
Segments == 1 .. MaxItems + 1
Slots    == 0 .. SegCap - 1

VARIABLES
  head_segment, tail_segment,   \* SharedMemoryHeader
  total_segments, total_size,
  write_pos, read_pos,          \* QueueSegment fields, by segment
  next_segment, data,
  allocated,                    \* allocated_segments_.size()
  ppc, ptail, pwp, item,        \* the producer: pc, tail, write_pos, item
  cpc, chead, crp, cnext,       \* the consumers: pc, head, read_pos, next
  delivered,                    \* history: how often each item was popped
  last                          \* history: the last item each consumer popped

header   == <<head_segment, tail_segment, total_segments, total_size>>
segments == <<write_pos, read_pos, next_segment, data, allocated>>
producer == <<ppc, ptail, pwp, item>>
consumer == <<cpc, chead, crp, cnext>>
history  == <<delivered, last>>
vars     == <<header, segments, producer, consumer, history>>

ProducerPCs == {"idle", "pos", "link", "tail", "segments", "write",
                "publish", "size"}
ConsumerPCs == {"idle", "read", "compare", "next", "advance", "reload",
                "claim", "copy", "size"}

Init ==
  /\ head_segment = 1 /\ tail_segment = 1
  /\ total_segments = 1 /\ total_size = 0
  /\ write_pos = [s \in Segments |-> 0]
  /\ read_pos = [s \in Segments |-> 0]
  /\ next_segment = [s \in Segments |-> Null]
  /\ data = [s \in Segments |-> [p \in Slots |-> NoItem]]
  /\ allocated = 1
  /\ ppc = "idle" /\ ptail = Null /\ pwp = 0 /\ item = 1
  /\ cpc = [c \in Consumers |-> "idle"]
  /\ chead = [c \in Consumers |-> Null]
  /\ crp = [c \in Consumers |-> 0]
  /\ cnext = [c \in Consumers |-> Null]
  /\ delivered = [i \in Items |-> 0]
  /\ last = [c \in Consumers |-> NoItem]

-----------------------------------------------------------------------------
(* try_push / try_emplace_back, by the single producer.                    *)

PushLoadTail ==
  /\ ppc = "idle" /\ item \in Items
  /\ ptail' = tail_segment
  /\ ppc' = IF tail_segment = Null THEN "idle" ELSE "pos"
  /\ UNCHANGED <<header, segments, pwp, item, consumer, history>>

(* Mutant: the full segment is recognised one slot too late.               *)
PushLoadPosTooLate ==
  /\ ppc = "pos"
  /\ pwp' = write_pos[ptail]
  /\ ppc' = IF write_pos[ptail] > SegCap THEN "link" ELSE "write"
  /\ UNCHANGED <<header, segments, ptail, item, consumer, history>>

PushLoadPos ==
  /\ ppc = "pos"
  /\ pwp' = write_pos[ptail]
  /\ ppc' = IF write_pos[ptail] >= SegCap THEN "link" ELSE "write"
  /\ UNCHANGED <<header, segments, ptail, item, consumer, history>>

(* allocate_segment() and the compare-and-swap on next_segment.  When it   *)
(* fails, try_push returns false and push() tries the same item again.     *)
PushLink ==
  /\ ppc = "link" /\ allocated < MaxItems + 1
  /\ allocated' = allocated + 1
  /\ IF next_segment[ptail] = Null
       THEN /\ next_segment' = [next_segment EXCEPT ![ptail] = allocated + 1]
            /\ ppc' = "tail"
       ELSE /\ UNCHANGED next_segment
            /\ ppc' = "idle"
  /\ UNCHANGED <<header, write_pos, read_pos, data, ptail, pwp, item,
                 consumer, history>>

(* From here on the new segment is the one written, at slot 0.             *)
PushStoreTail ==
  /\ ppc = "tail"
  /\ tail_segment' = allocated
  /\ ptail' = allocated /\ pwp' = 0 /\ ppc' = "segments"
  /\ UNCHANGED <<head_segment, total_segments, total_size, segments, item,
                 consumer, history>>

PushCountSegment ==
  /\ ppc = "segments"
  /\ total_segments' = total_segments + 1
  /\ ppc' = "write"
  /\ UNCHANGED <<head_segment, tail_segment, total_size, segments, ptail,
                 pwp, item, consumer, history>>

PushWrite ==
  /\ ppc = "write"
  /\ data' = [data EXCEPT ![ptail][pwp] = item]
  /\ ppc' = "publish"
  /\ UNCHANGED <<header, write_pos, read_pos, next_segment, allocated, ptail,
                 pwp, item, consumer, history>>

PushPublish ==
  /\ ppc = "publish"
  /\ write_pos' = [write_pos EXCEPT ![ptail] = pwp + 1]
  /\ ppc' = "size"
  /\ UNCHANGED <<header, read_pos, next_segment, data, allocated, ptail, pwp,
                 item, consumer, history>>

PushSize ==
  /\ ppc = "size"
  /\ total_size' = (total_size + 1) % SizeModulus
  /\ item' = item + 1
  /\ ppc' = "idle"
  /\ UNCHANGED <<head_segment, tail_segment, total_segments, segments, ptail,
                 pwp, consumer, history>>

TryPush == \/ PushLoadTail \/ PushLoadPos \/ PushLink \/ PushStoreTail
           \/ PushCountSegment \/ PushWrite \/ PushPublish \/ PushSize

-----------------------------------------------------------------------------
(* try_pop, by any consumer.                                               *)

PopLoadHead(c) ==
  /\ cpc[c] = "idle"
  /\ chead' = [chead EXCEPT ![c] = head_segment]
  /\ cpc' = [cpc EXCEPT ![c] = IF head_segment = Null THEN "idle" ELSE "read"]
  /\ UNCHANGED <<header, segments, producer, crp, cnext, history>>

PopLoadReadPos(c) ==
  /\ cpc[c] = "read"
  /\ crp' = [crp EXCEPT ![c] = read_pos[chead[c]]]
  /\ cpc' = [cpc EXCEPT ![c] = "compare"]
  /\ UNCHANGED <<header, segments, producer, chead, cnext, history>>

(* Mutant: the empty segment is recognised one slot too late.              *)
PopCompareTooLate(c) ==
  /\ cpc[c] = "compare"
  /\ cpc' = [cpc EXCEPT ![c] = IF crp[c] > write_pos[chead[c]]
                                 THEN "next" ELSE "claim"]
  /\ UNCHANGED <<header, segments, producer, chead, crp, cnext, history>>

PopCompare(c) ==
  /\ cpc[c] = "compare"
  /\ cpc' = [cpc EXCEPT ![c] = IF crp[c] >= write_pos[chead[c]]
                                 THEN "next" ELSE "claim"]
  /\ UNCHANGED <<header, segments, producer, chead, crp, cnext, history>>

(* With no next segment the queue is empty and try_pop returns false.      *)
PopLoadNext(c) ==
  /\ cpc[c] = "next"
  /\ cnext' = [cnext EXCEPT ![c] = next_segment[chead[c]]]
  /\ cpc' = [cpc EXCEPT ![c] = IF next_segment[chead[c]] = Null
                                 THEN "idle" ELSE "advance"]
  /\ UNCHANGED <<header, segments, producer, chead, crp, history>>

(* Mutant: head_segment is stored without a compare-and-swap.              *)
PopAdvanceStore(c) ==
  /\ cpc[c] = "advance"
  /\ head_segment' = cnext[c]
  /\ chead' = [chead EXCEPT ![c] = cnext[c]]
  /\ cpc' = [cpc EXCEPT ![c] = "read"]
  /\ UNCHANGED <<tail_segment, total_segments, total_size, segments, producer,
                 crp, cnext, history>>

PopAdvance(c) ==
  /\ cpc[c] = "advance"
  /\ IF head_segment = chead[c]
       THEN /\ head_segment' = cnext[c]
            /\ chead' = [chead EXCEPT ![c] = cnext[c]]
            /\ cpc' = [cpc EXCEPT ![c] = "read"]
       ELSE /\ cpc' = [cpc EXCEPT ![c] = "reload"]
            /\ UNCHANGED <<head_segment, chead>>
  /\ UNCHANGED <<tail_segment, total_segments, total_size, segments, producer,
                 crp, cnext, history>>

(* Mutant: the consumer retries with the head it already had.              *)
PopReloadStale(c) ==
  /\ cpc[c] = "reload"
  /\ cpc' = [cpc EXCEPT ![c] = "read"]
  /\ UNCHANGED <<header, segments, producer, chead, crp, cnext, history>>

PopReload(c) ==
  /\ cpc[c] = "reload"
  /\ chead' = [chead EXCEPT ![c] = head_segment]
  /\ cpc' = [cpc EXCEPT ![c] = "read"]
  /\ UNCHANGED <<header, segments, producer, crp, cnext, history>>

PopClaim(c) ==
  /\ cpc[c] = "claim"
  /\ IF read_pos[chead[c]] = crp[c]
       THEN /\ read_pos' = [read_pos EXCEPT ![chead[c]] = crp[c] + 1]
            /\ cpc' = [cpc EXCEPT ![c] = "copy"]
       ELSE /\ cpc' = [cpc EXCEPT ![c] = "read"]
            /\ UNCHANGED read_pos
  /\ UNCHANGED <<header, write_pos, next_segment, data, allocated, producer,
                 chead, crp, cnext, history>>

PopCopy(c) ==
  /\ cpc[c] = "copy"
  /\ delivered' = [delivered EXCEPT ![data[chead[c]][crp[c]]] = @ + 1]
  /\ last' = [last EXCEPT ![c] = data[chead[c]][crp[c]]]
  /\ cpc' = [cpc EXCEPT ![c] = "size"]
  /\ UNCHANGED <<header, segments, producer, chead, crp, cnext>>

(* Mutant: the decrement of total_size is missing.                         *)
PopForgetSize(c) ==
  /\ cpc[c] = "size"
  /\ cpc' = [cpc EXCEPT ![c] = "idle"]
  /\ UNCHANGED <<header, segments, producer, chead, crp, cnext, history>>

PopSize(c) ==
  /\ cpc[c] = "size"
  /\ total_size' = (total_size + SizeModulus - 1) % SizeModulus
  /\ cpc' = [cpc EXCEPT ![c] = "idle"]
  /\ UNCHANGED <<head_segment, tail_segment, total_segments, segments,
                 producer, chead, crp, cnext, history>>

TryPop(c) == \/ PopLoadHead(c) \/ PopLoadReadPos(c) \/ PopCompare(c)
             \/ PopLoadNext(c) \/ PopAdvance(c) \/ PopReload(c)
             \/ PopClaim(c) \/ PopCopy(c) \/ PopSize(c)

-----------------------------------------------------------------------------
Next == TryPush \/ \E c \in Consumers : TryPop(c)

Spec == Init /\ [][Next]_vars

(* A running thread keeps taking steps inside a call; whether a consumer   *)
(* makes another call is up to it.                                         *)
Fairness == /\ WF_vars(TryPush)
            /\ \A c \in Consumers : WF_vars(cpc[c] # "idle" /\ TryPop(c))

FairSpec == Spec /\ Fairness

-----------------------------------------------------------------------------
(* size() and empty().                                                     *)
size  == total_size
empty == total_size = 0

(* Pushed: the items whose slot has been published.  Unclaimed: those no   *)
(* consumer has advanced read_pos over.                                    *)
Pushed      == item - 1 + (IF ppc = "size" THEN 1 ELSE 0)
Popped      == Cardinality({i \in Items : delivered[i] > 0})
Published   == {sp \in Segments \X Slots : sp[2] < write_pos[sp[1]]}
Unclaimed   == {sp \in Published : sp[2] >= read_pos[sp[1]]}
(* A consumer is inside segment s: it will look at its positions again.    *)
Inside(s)   == \E c \in Consumers : /\ cpc[c] \in {"read", "compare", "claim"}
                                    /\ chead[c] = s

(* The types of all variables; every pointer a thread holds while it uses  *)
(* it is a segment.                                                        *)
TypeOK ==
  /\ head_segment \in Segments /\ tail_segment \in Segments
  /\ total_segments \in Nat /\ total_size \in 0 .. SizeModulus - 1
  /\ write_pos \in [Segments -> 0 .. SegCap]
  /\ read_pos \in [Segments -> 0 .. SegCap]
  /\ next_segment \in [Segments -> Segments \cup {Null}]
  /\ data \in [Segments -> [Slots -> Items \cup {NoItem}]]
  /\ allocated \in Segments
  /\ ppc \in ProducerPCs /\ ptail \in Segments \cup {Null}
  /\ pwp \in 0 .. SegCap /\ item \in 1 .. MaxItems + 1
  /\ cpc \in [Consumers -> ConsumerPCs]
  /\ chead \in [Consumers -> Segments \cup {Null}]
  /\ crp \in [Consumers -> 0 .. SegCap]
  /\ cnext \in [Consumers -> Segments \cup {Null}]
  /\ delivered \in [Items -> Nat]
  /\ last \in [Consumers -> Items \cup {NoItem}]

(* No item is popped twice, however the read_pos and head_segment          *)
(* compare-and-swaps of the consumers interleave.                          *)
AtMostOnce == \A i \in Items : delivered[i] <= 1

(* The slot a consumer copies after its claim (data[read_pos], a plain     *)
(* read) holds a published item: it is never the slot the producer is      *)
(* writing, and no other consumer copies the same one.                     *)
CopiesArePublished ==
  \A c \in Consumers : cpc[c] = "copy" =>
     /\ crp[c] < write_pos[chead[c]]
     /\ data[chead[c]][crp[c]] \in Items
     /\ ppc \in {"write", "publish"} => <<chead[c], crp[c]>> # <<ptail, pwp>>
     /\ \A d \in Consumers \ {c} :
          cpc[d] = "copy" => <<chead[c], crp[c]>> # <<chead[d], crp[d]>>

(* The segment chain is one the single producer alone extends: when it     *)
(* links a new segment, the tail has no successor, so try_push never       *)
(* returns false and never leaks the segment it allocated.                 *)
LinkNeverFails == ppc = "link" => next_segment[ptail] = Null

(* The queue implements at-most-once delivery: an item is sent when        *)
(* write_pos is stored, and received when a consumer has copied it.        *)
SentItems == {i \in Items : i <= Pushed}
Delivery  == INSTANCE AtMostOnceDelivery
               WITH Messages <- Items, sent <- SentItems, received <- delivered
ImplementsDelivery == Delivery!Spec

(* size() is exact, lost items included, whenever no call is between its   *)
(* publication or its copy and the update of total_size.                   *)
SizeExactWhenQuiet ==
  (ppc # "size" /\ \A c \in Consumers : cpc[c] # "size")
     => total_size = (item - 1 - Popped) % SizeModulus

(* A consumer pops items in the order in which they were pushed, across    *)
(* segments too.                                                           *)
InOrder ==
  [][\A c \in Consumers : last'[c] # last[c] => last'[c] > last[c]]_vars

(* A call of try_pop returns: every retry of its loop is paid for by       *)
(* another consumer's progress, so a bounded number of items bounds it.    *)
PopReturns == \A c \in Consumers : cpc[c] # "idle" ~> cpc[c] = "idle"

(* No published item is left behind: head_segment has not moved past the   *)
(* segment of an unclaimed item, unless a consumer is still inside it.     *)
NoLostItems ==
  \A sp \in Unclaimed : sp[1] >= head_segment \/ Inside(sp[1])
=============================================================================
