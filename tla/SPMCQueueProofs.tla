--------------------------- MODULE SPMCQueueProofs ---------------------------
(***************************************************************************)
(* Proofs about SPMCQueue, for any number of consumers, items and slots.   *)
(* The inductive invariant Inv says where the producer stands in the       *)
(* segment chain, that published slots hold the items in push order, and   *)
(* that a slot not yet claimed, or claimed and not yet copied, holds an    *)
(* item that nobody has popped.  SizeInv adds what total_size counts, up   *)
(* to a multiple of SizeModulus.                                           *)
(***************************************************************************)
EXTENDS SPMCQueue, Integers, FiniteSetTheorems, TLAPS

(* The producer works on the last segment; later segments are untouched.   *)
ProducerInv ==
  /\ tail_segment = IF ppc = "tail" THEN allocated - 1 ELSE allocated
  /\ ppc # "idle" => item \in Items /\ ptail = tail_segment
  /\ ppc \in {"link", "tail"} => pwp = SegCap
  /\ ppc \in {"segments", "write", "publish"} =>
       pwp = write_pos[ptail] /\ pwp < SegCap
  /\ ppc = "segments" => pwp = 0
  /\ ppc = "publish" => data[ptail][pwp] = item
  /\ \A s \in Segments :
       /\ next_segment[s] = IF s < allocated THEN s + 1 ELSE Null
       /\ s > tail_segment => write_pos[s] = 0

(* Published slots hold pushed items, in the order of the segments and of  *)
(* the slots in them.                                                      *)
DataInv ==
  /\ \A s \in Segments : \A p \in Slots :
       p < write_pos[s] => data[s][p] \in Items /\ data[s][p] <= Pushed
  /\ \A s, t \in Segments : \A p, q \in Slots :
       /\ p < write_pos[s] /\ q < write_pos[t]
       /\ s < t \/ (s = t /\ p < q)
       => data[s][p] < data[t][q]

(* What a consumer knows about the slot it is about to claim or to copy.   *)
ConsumerInv ==
  \A c \in Consumers :
    /\ chead[c] <= head_segment
    /\ cpc[c] # "idle" => chead[c] \in Segments
    /\ cpc[c] = "advance" => cnext[c] \in Segments /\ cnext[c] = chead[c] + 1
    /\ cpc[c] \in {"claim", "copy"} => crp[c] < write_pos[chead[c]]
    /\ cpc[c] = "copy" =>
         /\ crp[c] < read_pos[chead[c]]
         /\ \A d \in Consumers \ {c} : cpc[d] = "copy" =>
              <<chead[c], crp[c]>> # <<chead[d], crp[d]>>

(* An item is popped after it was pushed, once, and by the consumer that   *)
(* claimed its slot.                                                       *)
DeliveryInv ==
  /\ \A i \in Items : delivered[i] <= 1 /\ (i > Pushed => delivered[i] = 0)
  /\ \A s \in Segments : \A p \in Slots :
       p < write_pos[s] /\ p >= read_pos[s] => delivered[data[s][p]] = 0
  /\ \A c \in Consumers : cpc[c] = "copy" => delivered[data[chead[c]][crp[c]]] = 0

(* What a consumer has not yet reached comes after what it popped last.    *)
OrderInv ==
  \A c \in Consumers :
    /\ last[c] <= Pushed
    /\ cpc[c] = "copy" => last[c] < data[chead[c]][crp[c]]
    /\ \A s \in Segments : \A p \in Slots :
         p < write_pos[s] /\ p >= read_pos[s] /\ s >= chead[c]
           => last[c] < data[s][p]

Inv == TypeOK /\ ProducerInv /\ DataInv /\ ConsumerInv /\ DeliveryInv /\ OrderInv

-----------------------------------------------------------------------------
(* The remainder modulo a positive number is a residue.                    *)
LEMMA ModRange == ASSUME NEW a \in Nat, NEW m \in Nat \ {0}
                  PROVE  a % m \in 0 .. m - 1
  OBVIOUS

(* The invariant holds in the initial state: nothing is published.         *)
LEMMA InvInit == Init => Inv
  BY SPMCAssumption DEF Init, Inv, TypeOK, ProducerInv, DataInv, ConsumerInv,
     DeliveryInv, OrderInv, Items, Segments, Slots, Null, NoItem, Pushed,
     ProducerPCs, ConsumerPCs

(* A slot being copied is a published slot of an existing segment.         *)
LEMMA CopySlot ==
  ASSUME Inv, NEW c \in Consumers, cpc[c] = "copy"
  PROVE  chead[c] \in Segments /\ crp[c] \in Slots /\ crp[c] < write_pos[chead[c]]
  BY SPMCAssumption DEF Inv, TypeOK, ConsumerInv, Slots

(* Two published slots hold different items.                               *)
LEMMA Distinct ==
  ASSUME Inv, NEW s \in Segments, NEW t \in Segments, NEW p \in Slots,
         NEW q \in Slots, p < write_pos[s], q < write_pos[t],
         <<s, p>> # <<t, q>>
  PROVE  data[s][p] # data[t][q]
<1>1. \/ s < t \/ (s = t /\ p < q)
      \/ t < s \/ (t = s /\ q < p)
  BY DEF Segments, Slots
<1>2. data[s][p] \in Items /\ data[t][q] \in Items
  BY DEF Inv, DataInv
<1>3. data[s][p] < data[t][q] \/ data[t][q] < data[s][p]
  BY <1>1 DEF Inv, DataInv
<1> QED BY <1>2, <1>3 DEF Items

(* Every step of the producer's try_push preserves the invariant.          *)
LEMMA InvPush == Inv /\ TryPush => Inv'
<1> SUFFICES ASSUME Inv, TryPush PROVE Inv'
  OBVIOUS
<1>1. CASE PushLoadTail
  <2>0. Pushed' = Pushed /\ Pushed \in Nat
    BY <1>1 DEF Inv, TypeOK, PushLoadTail, Pushed, ProducerPCs
  <2>1. TypeOK'
    BY <1>1, SPMCAssumption DEF Inv, PushLoadTail, TypeOK, ProducerPCs,
       header, segments, consumer, history
  <2>2. ProducerInv'
    BY <1>1, SPMCAssumption DEF Inv, PushLoadTail, TypeOK, ProducerInv, Null,
       Segments, header, segments, consumer, history
  <2>3. DataInv'
    BY <1>1, <2>0, SPMCAssumption DEF Inv, PushLoadTail, DataInv, header,
       segments, consumer, history
  <2>4. ConsumerInv'
    BY <1>1, SPMCAssumption DEF Inv, PushLoadTail, TypeOK, ConsumerInv,
       header, segments, consumer, history
  <2>5. DeliveryInv'
    BY <1>1, <2>0, SPMCAssumption DEF Inv, PushLoadTail, DeliveryInv, header,
       segments, consumer, history
  <2>6. OrderInv'
    BY <1>1, <2>0, SPMCAssumption DEF Inv, PushLoadTail, OrderInv, header,
       segments, consumer, history
  <2> QED BY <2>1, <2>2, <2>3, <2>4, <2>5, <2>6 DEF Inv
<1>2. CASE PushLoadPos
  <2>0. Pushed' = Pushed /\ Pushed \in Nat
    BY <1>2 DEF Inv, TypeOK, PushLoadPos, Pushed, ProducerPCs
  <2>1. TypeOK'
    BY <1>2, SPMCAssumption DEF Inv, PushLoadPos, TypeOK, ProducerPCs,
       ProducerInv, header, segments, consumer, history
  <2>2. ProducerInv'
    BY <1>2, SPMCAssumption DEF Inv, PushLoadPos, TypeOK, ProducerInv,
       Segments, header, segments, consumer, history
  <2>3. DataInv'
    BY <1>2, <2>0, SPMCAssumption DEF Inv, PushLoadPos, DataInv, header,
       segments, consumer, history
  <2>4. ConsumerInv'
    BY <1>2, SPMCAssumption DEF Inv, PushLoadPos, TypeOK, ConsumerInv, header,
       segments, consumer, history
  <2>5. DeliveryInv'
    BY <1>2, <2>0, SPMCAssumption DEF Inv, PushLoadPos, DeliveryInv, header,
       segments, consumer, history
  <2>6. OrderInv'
    BY <1>2, <2>0, SPMCAssumption DEF Inv, PushLoadPos, OrderInv, header,
       segments, consumer, history
  <2> QED BY <2>1, <2>2, <2>3, <2>4, <2>5, <2>6 DEF Inv
<1>3. CASE PushLink
  <2>0. Pushed' = Pushed /\ Pushed \in Nat
    BY <1>3 DEF Inv, TypeOK, PushLink, Pushed, ProducerPCs
  <2>1. TypeOK'
    <3>1. allocated + 1 \in Segments
      BY <1>3, SPMCAssumption DEF PushLink, Inv, TypeOK, Segments
    <3> QED BY <3>1, <1>3 DEF PushLink, Inv, TypeOK, ProducerPCs, header, consumer,
               history
  <2>2. ProducerInv'
    <3>1. /\ allocated \in Segments /\ ptail = allocated /\ tail_segment = allocated
          /\ next_segment[ptail] = Null /\ pwp = SegCap /\ item \in Items
      BY <1>3 DEF PushLink, Inv, TypeOK, ProducerInv
    <3>2. /\ next_segment' = [next_segment EXCEPT ![allocated] = allocated + 1]
          /\ ppc' = "tail" /\ allocated' = allocated + 1
      BY <1>3, <3>1 DEF PushLink
    <3>3. \A s \in Segments :
            next_segment'[s] = IF s < allocated + 1 THEN s + 1 ELSE Null
      BY <3>1, <3>2 DEF Inv, TypeOK, ProducerInv, Segments, Null
    <3>4. tail_segment' = allocated' - 1
      BY <1>3, <3>1 DEF PushLink, header, Segments
    <3> QED BY <1>3, <3>1, <3>2, <3>3, <3>4 DEF PushLink, Inv, ProducerInv, header
  <2>3. DataInv'
    BY <1>3, <2>0, SPMCAssumption DEF Inv, PushLink, DataInv, header,
       segments, consumer, history
  <2>4. ConsumerInv'
    BY <1>3, SPMCAssumption DEF Inv, PushLink, TypeOK, ConsumerInv, header,
       segments, consumer, history
  <2>5. DeliveryInv'
    BY <1>3, <2>0, SPMCAssumption DEF Inv, PushLink, DeliveryInv, header,
       segments, consumer, history
  <2>6. OrderInv'
    BY <1>3, <2>0, SPMCAssumption DEF Inv, PushLink, OrderInv, header,
       segments, consumer, history
  <2> QED BY <2>1, <2>2, <2>3, <2>4, <2>5, <2>6 DEF Inv
<1>4. CASE PushStoreTail
  <2>0. Pushed' = Pushed /\ Pushed \in Nat
    BY <1>4 DEF Inv, TypeOK, PushStoreTail, Pushed, ProducerPCs
  <2>1. TypeOK'
    BY <1>4, SPMCAssumption DEF Inv, PushStoreTail, TypeOK, ProducerPCs,
       ProducerInv, header, segments, consumer, history
  <2>2. ProducerInv'
    BY <1>4, SPMCAssumption DEF Inv, PushStoreTail, TypeOK, ProducerInv,
       Segments, header, segments, consumer, history
  <2>3. DataInv'
    BY <1>4, <2>0, SPMCAssumption DEF Inv, PushStoreTail, DataInv, header,
       segments, consumer, history
  <2>4. ConsumerInv'
    BY <1>4, SPMCAssumption DEF Inv, PushStoreTail, TypeOK, ConsumerInv,
       header, segments, consumer, history
  <2>5. DeliveryInv'
    BY <1>4, <2>0, SPMCAssumption DEF Inv, PushStoreTail, DeliveryInv, header,
       segments, consumer, history
  <2>6. OrderInv'
    BY <1>4, <2>0, SPMCAssumption DEF Inv, PushStoreTail, OrderInv, header,
       segments, consumer, history
  <2> QED BY <2>1, <2>2, <2>3, <2>4, <2>5, <2>6 DEF Inv
<1>5. CASE PushCountSegment
  <2>0. Pushed' = Pushed /\ Pushed \in Nat
    BY <1>5 DEF Inv, TypeOK, PushCountSegment, Pushed, ProducerPCs
  <2>1. TypeOK'
    BY <1>5, SPMCAssumption DEF Inv, PushCountSegment, TypeOK, ProducerPCs,
       header, segments, consumer, history
  <2>2. ProducerInv'
    BY <1>5, SPMCAssumption DEF Inv, PushCountSegment, TypeOK, ProducerInv,
       header, segments, consumer, history
  <2>3. DataInv'
    BY <1>5, <2>0, SPMCAssumption DEF Inv, PushCountSegment, DataInv, header,
       segments, consumer, history
  <2>4. ConsumerInv'
    BY <1>5, SPMCAssumption DEF Inv, PushCountSegment, TypeOK, ConsumerInv,
       header, segments, consumer, history
  <2>5. DeliveryInv'
    BY <1>5, <2>0, SPMCAssumption DEF Inv, PushCountSegment, DeliveryInv,
       header, segments, consumer, history
  <2>6. OrderInv'
    BY <1>5, <2>0, SPMCAssumption DEF Inv, PushCountSegment, OrderInv, header,
       segments, consumer, history
  <2> QED BY <2>1, <2>2, <2>3, <2>4, <2>5, <2>6 DEF Inv
<1>6. CASE PushWrite
  <2>0. Pushed' = Pushed /\ Pushed \in Nat
    BY <1>6 DEF Inv, TypeOK, PushWrite, Pushed, ProducerPCs
  <2>a. ptail \in Segments /\ pwp \in Slots /\ pwp = write_pos[ptail] /\ item \in Items
    BY <1>6, SPMCAssumption DEF PushWrite, Inv, TypeOK, ProducerInv, Slots
  <2>b. \A s \in Segments : \A p \in Slots :
          p < write_pos[s] => data'[s][p] = data[s][p]
    BY <1>6, <2>a DEF PushWrite, Inv, TypeOK, Slots
  <2>c. data'[ptail][pwp] = item
    BY <1>6, <2>a DEF PushWrite, Inv, TypeOK
  <2>1. TypeOK'
    BY <1>6, SPMCAssumption DEF Inv, PushWrite, TypeOK, ProducerPCs,
       ProducerInv, header, segments, consumer, history
  <2>2. ProducerInv'
    BY <1>6, <2>a, <2>c DEF PushWrite, Inv, ProducerInv, header
  <2>3. DataInv'
    BY <1>6, <2>0, <2>b DEF PushWrite, Inv, DataInv
  <2>4. ConsumerInv'
    BY <1>6, SPMCAssumption DEF Inv, PushWrite, TypeOK, ConsumerInv, header,
       segments, consumer, history
  <2>5. DeliveryInv'
    BY <1>6, <2>0, <2>b, CopySlot DEF PushWrite, Inv, DeliveryInv, consumer, history
  <2>6. OrderInv'
    BY <1>6, <2>0, <2>b, CopySlot DEF PushWrite, Inv, OrderInv, consumer, history
  <2> QED BY <2>1, <2>2, <2>3, <2>4, <2>5, <2>6 DEF Inv
<1>7. CASE PushPublish
  <2>0. Pushed' = Pushed + 1 /\ Pushed = item - 1 /\ Pushed \in Nat
    BY <1>7 DEF Inv, TypeOK, PushPublish, Pushed
  <2>a. /\ ptail \in Segments /\ pwp \in Slots /\ pwp = write_pos[ptail]
        /\ item \in Items /\ data[ptail][pwp] = item /\ ptail = tail_segment
    BY <1>7, SPMCAssumption DEF PushPublish, Inv, TypeOK, ProducerInv, Slots
  <2>b. \A s \in Segments : \A p \in Slots :
          p < write_pos'[s] => p < write_pos[s] \/ (s = ptail /\ p = pwp)
    BY <1>7, <2>a DEF PushPublish, Inv, TypeOK, Slots
  <2>1. TypeOK'
    <3>1. pwp + 1 \in 0 .. SegCap
      BY <1>7, SPMCAssumption DEF PushPublish, Inv, TypeOK, ProducerInv
    <3> QED BY <3>1, <1>7 DEF PushPublish, Inv, TypeOK, ProducerPCs, header,
               consumer, history
  <2>2. ProducerInv'
    BY <1>7, SPMCAssumption DEF Inv, PushPublish, TypeOK, ProducerInv, header,
       segments, consumer, history
  <2>3. DataInv'
    <3>1. \A s \in Segments : \A p \in Slots : p < write_pos'[s] =>
            data'[s][p] \in Items /\ data'[s][p] <= Pushed'
      BY <1>7, <2>0, <2>a, <2>b DEF PushPublish, Inv, DataInv, Items
    <3>2. ASSUME NEW s \in Segments, NEW t \in Segments, NEW p \in Slots,
                 NEW q \in Slots, p < write_pos'[s], q < write_pos'[t],
                 s < t \/ (s = t /\ p < q)
          PROVE  data'[s][p] < data'[t][q]
      <4>1. p < write_pos[s]
        <5> SUFFICES ASSUME s = ptail, p = pwp PROVE FALSE
          BY <3>2, <2>b
        <5>1. CASE s < t
          <6> write_pos[t] = 0 /\ t # ptail
            BY <5>1, <2>a DEF Inv, ProducerInv, Segments
          <6> QED BY <2>b, <3>2 DEF Slots
        <5>2. CASE s = t /\ p < q
          <6>1. q < pwp \/ q = pwp
            BY <5>2, <2>a, <2>b, <3>2
          <6> QED BY <6>1, <5>2, <2>a DEF Slots
        <5> QED BY <5>1, <5>2, <3>2
      <4>2. CASE q < write_pos[t]
        BY <4>1, <4>2, <3>2, <1>7 DEF PushPublish, Inv, DataInv
      <4>3. CASE t = ptail /\ q = pwp
        BY <4>1, <4>3, <2>0, <2>a, <1>7 DEF PushPublish, Inv, DataInv, Items
      <4> QED BY <4>2, <4>3, <2>b, <3>2
    <3> QED BY <3>1, <3>2 DEF DataInv
  <2>4. ConsumerInv'
    BY <1>7, SPMCAssumption DEF Inv, PushPublish, TypeOK, ConsumerInv,
       ProducerInv, header, segments, consumer, history
  <2>5. DeliveryInv'
    <3>1. \A i \in Items : delivered[i] <= 1 /\ (i > Pushed + 1 => delivered[i] = 0)
      BY <2>0 DEF Inv, DeliveryInv, Items
    <3>2. delivered[item] = 0
      BY <2>0, <2>a DEF Inv, DeliveryInv, Items
    <3>3. \A s \in Segments : \A p \in Slots :
            p < write_pos'[s] /\ p >= read_pos[s] => delivered[data[s][p]] = 0
      BY <3>2, <2>a, <2>b DEF Inv, DeliveryInv
    <3> QED BY <1>7, <2>0, <3>1, <3>3 DEF PushPublish, Inv, DeliveryInv, consumer,
               history
  <2>6. OrderInv'
    <3>1. \A d \in Consumers : last[d] <= Pushed + 1 /\ last[d] < item
      <4> SUFFICES ASSUME NEW d \in Consumers
                   PROVE  last[d] <= Pushed + 1 /\ last[d] < item
        OBVIOUS
      <4>1. last[d] \in Nat /\ item \in Nat
        BY SPMCAssumption DEF Inv, TypeOK, Items, NoItem
      <4>2. last[d] <= Pushed
        BY DEF Inv, OrderInv
      <4> QED BY <4>1, <4>2, <2>0
    <3>2. \A d \in Consumers : \A s \in Segments : \A p \in Slots :
            p < write_pos'[s] /\ p >= read_pos[s] /\ s >= chead[d]
              => last[d] < data[s][p]
      BY <3>1, <2>a, <2>b DEF Inv, OrderInv
    <3> QED BY <1>7, <2>0, <3>1, <3>2 DEF PushPublish, Inv, OrderInv, consumer,
               history
  <2> QED BY <2>1, <2>2, <2>3, <2>4, <2>5, <2>6 DEF Inv
<1>8. CASE PushSize
  <2>0. Pushed' = Pushed /\ Pushed \in Nat
    BY <1>8 DEF Inv, TypeOK, PushSize, Pushed, ProducerPCs
  <2>1. TypeOK'
    <3>1. total_size' \in 0 .. SizeModulus - 1
      BY <1>8, ModRange, SPMCAssumption DEF PushSize, Inv, TypeOK
    <3>2. item' \in 1 .. MaxItems + 1
      BY <1>8, SPMCAssumption DEF PushSize, Inv, TypeOK, ProducerInv, Items
    <3> QED BY <3>1, <3>2, <1>8 DEF PushSize, Inv, TypeOK, ProducerPCs, segments,
               consumer, history
  <2>2. ProducerInv'
    BY <1>8, SPMCAssumption DEF Inv, PushSize, TypeOK, ProducerInv, header,
       segments, consumer, history
  <2>3. DataInv'
    BY <1>8, <2>0, SPMCAssumption DEF Inv, PushSize, DataInv, header,
       segments, consumer, history
  <2>4. ConsumerInv'
    BY <1>8, SPMCAssumption DEF Inv, PushSize, TypeOK, ConsumerInv, header,
       segments, consumer, history
  <2>5. DeliveryInv'
    BY <1>8, <2>0, SPMCAssumption DEF Inv, PushSize, DeliveryInv, header,
       segments, consumer, history
  <2>6. OrderInv'
    BY <1>8, <2>0, SPMCAssumption DEF Inv, PushSize, OrderInv, header,
       segments, consumer, history
  <2> QED BY <2>1, <2>2, <2>3, <2>4, <2>5, <2>6 DEF Inv
<1> QED BY <1>1, <1>2, <1>3, <1>4, <1>5, <1>6, <1>7, <1>8 DEF TryPush

(* Every step of a consumer's try_pop preserves the invariant.             *)
LEMMA InvPop == ASSUME NEW c \in Consumers, Inv, TryPop(c) PROVE Inv'
<1>1. CASE PopLoadHead(c)
  <2>0. Pushed' = Pushed /\ Pushed \in Nat
    BY <1>1 DEF Inv, TypeOK, PopLoadHead, Pushed, ProducerPCs, segments,
       producer
  <2>1. TypeOK'
    BY <1>1, SPMCAssumption DEF Inv, PopLoadHead, TypeOK, ConsumerPCs, header,
       segments, producer, history
  <2>2. ProducerInv'
    BY <1>1, SPMCAssumption DEF Inv, PopLoadHead, TypeOK, ProducerInv, header,
       segments, producer, history
  <2>3. DataInv'
    BY <1>1, <2>0, SPMCAssumption DEF Inv, PopLoadHead, DataInv, header,
       segments, producer, history
  <2>4. ConsumerInv'
    BY <1>1, SPMCAssumption DEF Inv, PopLoadHead, TypeOK, ConsumerInv, Null,
       Segments, header, segments, producer, history
  <2>5. DeliveryInv'
    BY <1>1, <2>0, SPMCAssumption DEF Inv, PopLoadHead, DeliveryInv, TypeOK,
       header, segments, producer, history
  <2>6. OrderInv'
    BY <1>1, <2>0, SPMCAssumption DEF Inv, PopLoadHead, OrderInv, TypeOK,
       ConsumerInv, Segments, Null, header, segments, producer, history
  <2> QED BY <2>1, <2>2, <2>3, <2>4, <2>5, <2>6 DEF Inv
<1>2. CASE PopLoadReadPos(c)
  <2>0. Pushed' = Pushed /\ Pushed \in Nat
    BY <1>2 DEF Inv, TypeOK, PopLoadReadPos, Pushed, ProducerPCs, segments,
       producer
  <2>1. TypeOK'
    BY <1>2, SPMCAssumption DEF Inv, PopLoadReadPos, TypeOK, ConsumerPCs,
       ConsumerInv, header, segments, producer, history
  <2>2. ProducerInv'
    BY <1>2, SPMCAssumption DEF Inv, PopLoadReadPos, TypeOK, ProducerInv,
       header, segments, producer, history
  <2>3. DataInv'
    BY <1>2, <2>0, SPMCAssumption DEF Inv, PopLoadReadPos, DataInv, header,
       segments, producer, history
  <2>4. ConsumerInv'
    BY <1>2, SPMCAssumption DEF Inv, PopLoadReadPos, TypeOK, ConsumerInv,
       header, segments, producer, history
  <2>5. DeliveryInv'
    BY <1>2, <2>0, SPMCAssumption DEF Inv, PopLoadReadPos, DeliveryInv,
       TypeOK, header, segments, producer, history
  <2>6. OrderInv'
    BY <1>2, <2>0, SPMCAssumption DEF Inv, PopLoadReadPos, OrderInv, TypeOK,
       header, segments, producer, history
  <2> QED BY <2>1, <2>2, <2>3, <2>4, <2>5, <2>6 DEF Inv
<1>3. CASE PopCompare(c)
  <2>0. Pushed' = Pushed /\ Pushed \in Nat
    BY <1>3 DEF Inv, TypeOK, PopCompare, Pushed, ProducerPCs, segments,
       producer
  <2>1. TypeOK'
    BY <1>3, SPMCAssumption DEF Inv, PopCompare, TypeOK, ConsumerPCs, header,
       segments, producer, history
  <2>2. ProducerInv'
    BY <1>3, SPMCAssumption DEF Inv, PopCompare, TypeOK, ProducerInv, header,
       segments, producer, history
  <2>3. DataInv'
    BY <1>3, <2>0, SPMCAssumption DEF Inv, PopCompare, DataInv, header,
       segments, producer, history
  <2>4. ConsumerInv'
    BY <1>3, SPMCAssumption DEF Inv, PopCompare, TypeOK, ConsumerInv,
       Segments, header, segments, producer, history
  <2>5. DeliveryInv'
    BY <1>3, <2>0, SPMCAssumption DEF Inv, PopCompare, DeliveryInv, TypeOK,
       header, segments, producer, history
  <2>6. OrderInv'
    BY <1>3, <2>0, SPMCAssumption DEF Inv, PopCompare, OrderInv, TypeOK,
       header, segments, producer, history
  <2> QED BY <2>1, <2>2, <2>3, <2>4, <2>5, <2>6 DEF Inv
<1>4. CASE PopLoadNext(c)
  <2>0. Pushed' = Pushed /\ Pushed \in Nat
    BY <1>4 DEF Inv, TypeOK, PopLoadNext, Pushed, ProducerPCs, segments,
       producer
  <2>1. TypeOK'
    BY <1>4, SPMCAssumption DEF Inv, PopLoadNext, TypeOK, ConsumerPCs,
       ConsumerInv, header, segments, producer, history
  <2>2. ProducerInv'
    BY <1>4, SPMCAssumption DEF Inv, PopLoadNext, TypeOK, ProducerInv, header,
       segments, producer, history
  <2>3. DataInv'
    BY <1>4, <2>0, SPMCAssumption DEF Inv, PopLoadNext, DataInv, header,
       segments, producer, history
  <2>4. ConsumerInv'
    <3>1. chead[c] \in Segments
      BY <1>4 DEF PopLoadNext, Inv, ConsumerInv
    <3>2. next_segment[chead[c]] # Null =>
            next_segment[chead[c]] \in Segments /\ next_segment[chead[c]] = chead[c] + 1
      BY <3>1 DEF Inv, TypeOK, ProducerInv
    <3> QED BY <1>4, <3>1, <3>2 DEF PopLoadNext, Inv, TypeOK, ConsumerInv, header,
               segments
  <2>5. DeliveryInv'
    BY <1>4, <2>0, SPMCAssumption DEF Inv, PopLoadNext, DeliveryInv, TypeOK,
       header, segments, producer, history
  <2>6. OrderInv'
    BY <1>4, <2>0, SPMCAssumption DEF Inv, PopLoadNext, OrderInv, TypeOK,
       header, segments, producer, history
  <2> QED BY <2>1, <2>2, <2>3, <2>4, <2>5, <2>6 DEF Inv
<1>5. CASE PopAdvance(c)
  <2>0. Pushed' = Pushed /\ Pushed \in Nat
    BY <1>5 DEF Inv, TypeOK, PopAdvance, Pushed, ProducerPCs, segments,
       producer
  <2>a. chead[c] \in Segments /\ cnext[c] \in Segments /\ cnext[c] = chead[c] + 1
    BY <1>5 DEF PopAdvance, Inv, ConsumerInv
  <2>b. chead'[c] \in Segments /\ chead'[c] >= chead[c]
        /\ \A d \in Consumers \ {c} : chead'[d] = chead[d]
    BY <1>5, <2>a DEF PopAdvance, Inv, TypeOK, Segments
  <2>1. TypeOK'
    BY <1>5, SPMCAssumption DEF Inv, PopAdvance, TypeOK, ConsumerPCs,
       ConsumerInv, header, segments, producer, history
  <2>2. ProducerInv'
    BY <1>5, SPMCAssumption DEF Inv, PopAdvance, TypeOK, ProducerInv, header,
       segments, producer, history
  <2>3. DataInv'
    BY <1>5, <2>0, SPMCAssumption DEF Inv, PopAdvance, DataInv, header,
       segments, producer, history
  <2>4. ConsumerInv'
    <3>1. head_segment' \in Nat /\ head_segment \in Nat
      BY <1>5, <2>a DEF PopAdvance, Inv, TypeOK, Segments
    <3>2. head_segment' >= head_segment /\ chead'[c] <= head_segment'
      BY <1>5, <2>a DEF PopAdvance, Inv, TypeOK, ConsumerInv, Segments
    <3>3. ASSUME NEW d \in Consumers \ {c} PROVE chead'[d] <= head_segment'
      <4>1. chead[d] \in Nat /\ chead[d] <= head_segment
        BY DEF Inv, TypeOK, ConsumerInv, Segments, Null
      <4> QED BY <4>1, <3>1, <3>2, <2>b
    <3>4. cpc' = [cpc EXCEPT ![c] = cpc'[c]] /\ cpc'[c] \in {"read", "reload"}
      BY <1>5 DEF PopAdvance, Inv, TypeOK
    <3>5. ASSUME NEW d \in Consumers
          PROVE  /\ chead'[d] <= head_segment'
                 /\ cpc'[d] # "idle" => chead'[d] \in Segments
                 /\ cpc'[d] \in {"advance", "claim", "copy"} =>
                      d # c /\ cpc'[d] = cpc[d] /\ chead'[d] = chead[d]
      BY <2>b, <3>2, <3>3, <3>4 DEF Inv, TypeOK, ConsumerInv
    <3>6. UNCHANGED <<crp, cnext, write_pos, read_pos>>
      BY <1>5 DEF PopAdvance, segments
    <3> QED BY <3>5, <3>6 DEF Inv, ConsumerInv
  <2>5. DeliveryInv'
    BY <1>5, <2>0, SPMCAssumption DEF Inv, PopAdvance, DeliveryInv, TypeOK,
       header, segments, producer, history
  <2>6. OrderInv'
    <3>1. \A d \in Consumers : \A s \in Segments :
            s >= chead'[d] => s >= chead[d]
      <4> SUFFICES ASSUME NEW s \in Segments, s >= chead'[c]
                   PROVE  s >= chead[c]
        BY <2>b
      <4> QED BY <2>a, <2>b DEF Segments
    <3>2. \A d \in Consumers : cpc'[d] = "copy" => d # c /\ cpc[d] = "copy"
      BY <1>5 DEF PopAdvance, Inv, TypeOK
    <3> QED BY <1>5, <2>0, <2>b, <3>1, <3>2 DEF PopAdvance, Inv, OrderInv, segments,
               history
  <2> QED BY <2>1, <2>2, <2>3, <2>4, <2>5, <2>6 DEF Inv
<1>6. CASE PopReload(c)
  <2>0. Pushed' = Pushed /\ Pushed \in Nat
    BY <1>6 DEF Inv, TypeOK, PopReload, Pushed, ProducerPCs, segments,
       producer
  <2>1. TypeOK'
    BY <1>6, SPMCAssumption DEF Inv, PopReload, TypeOK, ConsumerPCs, header,
       segments, producer, history
  <2>2. ProducerInv'
    BY <1>6, SPMCAssumption DEF Inv, PopReload, TypeOK, ProducerInv, header,
       segments, producer, history
  <2>3. DataInv'
    BY <1>6, <2>0, SPMCAssumption DEF Inv, PopReload, DataInv, header,
       segments, producer, history
  <2>4. ConsumerInv'
    BY <1>6, SPMCAssumption DEF Inv, PopReload, TypeOK, ConsumerInv, Segments,
       Null, header, segments, producer, history
  <2>5. DeliveryInv'
    BY <1>6, <2>0, SPMCAssumption DEF Inv, PopReload, DeliveryInv, TypeOK,
       header, segments, producer, history
  <2>6. OrderInv'
    BY <1>6, <2>0, SPMCAssumption DEF Inv, PopReload, OrderInv, TypeOK,
       ConsumerInv, Segments, Null, header, segments, producer, history
  <2> QED BY <2>1, <2>2, <2>3, <2>4, <2>5, <2>6 DEF Inv
<1>7. CASE PopClaim(c)
  <2>0. Pushed' = Pushed /\ Pushed \in Nat
    BY <1>7 DEF Inv, TypeOK, PopClaim, Pushed, ProducerPCs, segments, producer
  <2>a. chead[c] \in Segments /\ crp[c] \in Slots /\ crp[c] < write_pos[chead[c]]
    BY <1>7, SPMCAssumption DEF PopClaim, Inv, TypeOK, ConsumerInv, Slots
  <2>b. \A s \in Segments : \A p \in Slots : p >= read_pos'[s] => p >= read_pos[s]
    <3>1. \A s \in Segments : read_pos'[s] \in Nat /\ read_pos[s] \in Nat
                              /\ read_pos'[s] >= read_pos[s]
      BY <1>7, <2>a, SPMCAssumption DEF PopClaim, Inv, TypeOK, Slots
    <3> QED BY <3>1 DEF Slots
  <2>c. \A d \in Consumers : cpc'[d] = "copy" =>
          IF d = c THEN read_pos[chead[c]] = crp[c] ELSE cpc[d] = "copy"
    BY <1>7 DEF PopClaim, Inv, TypeOK
  <2>1. TypeOK'
    <3>1. crp[c] + 1 \in 0 .. SegCap
      BY <1>7, SPMCAssumption DEF PopClaim, Inv, TypeOK, ConsumerInv
    <3> QED BY <3>1, <1>7 DEF PopClaim, Inv, TypeOK, ConsumerPCs, header, producer,
               history
  <2>2. ProducerInv'
    BY <1>7, SPMCAssumption DEF Inv, PopClaim, TypeOK, ProducerInv, header,
       segments, producer, history
  <2>3. DataInv'
    BY <1>7, <2>0, SPMCAssumption DEF Inv, PopClaim, DataInv, header,
       segments, producer, history
  <2>4. ConsumerInv'
    BY <1>7, SPMCAssumption DEF Inv, PopClaim, TypeOK, ConsumerInv, header,
       segments, producer, history
  <2>5. DeliveryInv'
    <3>1. read_pos[chead[c]] = crp[c] => delivered[data[chead[c]][crp[c]]] = 0
      BY <2>a DEF Inv, DeliveryInv, Slots
    <3> QED BY <1>7, <2>0, <2>b, <2>c, <3>1 DEF PopClaim, Inv, DeliveryInv, history
  <2>6. OrderInv'
    <3>1. read_pos[chead[c]] = crp[c] => last[c] < data[chead[c]][crp[c]]
      BY <2>a DEF Inv, OrderInv, Slots, Segments
    <3> QED BY <1>7, <2>0, <2>b, <2>c, <3>1 DEF PopClaim, Inv, OrderInv, history
  <2> QED BY <2>1, <2>2, <2>3, <2>4, <2>5, <2>6 DEF Inv
<1>8. CASE PopCopy(c)
  <2>0. Pushed' = Pushed /\ Pushed \in Nat
    BY <1>8 DEF Inv, TypeOK, PopCopy, Pushed, ProducerPCs, segments, producer
  <2>a. /\ chead[c] \in Segments /\ crp[c] \in Slots
        /\ crp[c] < write_pos[chead[c]] /\ crp[c] < read_pos[chead[c]]
    BY <1>8, CopySlot DEF PopCopy, Inv, ConsumerInv
  <2> DEFINE i == data[chead[c]][crp[c]]
  <2>b. i \in Items /\ i <= Pushed /\ delivered[i] = 0 /\ last[c] < i
    BY <1>8, <2>a DEF PopCopy, Inv, DataInv, DeliveryInv, OrderInv
  <2>c. /\ delivered' = [delivered EXCEPT ![i] = delivered[i] + 1]
        /\ last' = [last EXCEPT ![c] = i]
    BY <1>8 DEF PopCopy
  <2>d. \A d \in Consumers : cpc'[d] = "copy" => d # c /\ cpc[d] = "copy"
    BY <1>8 DEF PopCopy, Inv, TypeOK
  <2> HIDE DEF i
  <2>1. TypeOK'
    BY <1>8, <2>b, <2>c DEF PopCopy, Inv, TypeOK, ConsumerPCs, header, segments,
       producer
  <2>2. ProducerInv'
    BY <1>8, SPMCAssumption DEF Inv, PopCopy, TypeOK, ProducerInv, header,
       segments, producer, history
  <2>3. DataInv'
    BY <1>8, <2>0, SPMCAssumption DEF Inv, PopCopy, DataInv, header, segments,
       producer, history
  <2>4. ConsumerInv'
    BY <1>8, SPMCAssumption DEF Inv, PopCopy, TypeOK, ConsumerInv, header,
       segments, producer, history
  <2>5. DeliveryInv'
    <3>1. \A j \in Items : /\ delivered'[j] <= 1
                           /\ j # i => delivered'[j] = delivered[j]
      BY <2>b, <2>c DEF Inv, TypeOK, DeliveryInv
    <3>2. \A j \in Items : j > Pushed' => delivered'[j] = 0
      <4>1. \A j \in Items : j > Pushed => j # i /\ delivered[j] = 0
        BY <2>0, <2>b DEF Inv, DeliveryInv, Items
      <4> QED BY <4>1, <2>0, <3>1
    <3>3. ASSUME NEW s \in Segments, NEW p \in Slots, p < write_pos[s],
                 <<s, p>> # <<chead[c], crp[c]>>
          PROVE  data[s][p] \in Items /\ data[s][p] # i
      BY <2>a, <3>3, Distinct DEF i, Inv, DataInv
    <3>4. \A s \in Segments : \A p \in Slots :
            p < write_pos[s] /\ p >= read_pos[s] => delivered'[data[s][p]] = 0
      <4> SUFFICES ASSUME NEW s \in Segments, NEW p \in Slots,
                          p < write_pos[s], p >= read_pos[s]
                   PROVE  delivered'[data[s][p]] = 0
        OBVIOUS
      <4>1. <<s, p>> # <<chead[c], crp[c]>>
        BY <2>a DEF Slots, Inv, TypeOK
      <4>2. delivered[data[s][p]] = 0
        BY DEF Inv, DeliveryInv
      <4>3. data[s][p] \in Items /\ data[s][p] # i
        BY <4>1, <3>3
      <4> QED BY <4>2, <4>3, <3>1
    <3>5. \A d \in Consumers : cpc'[d] = "copy" =>
            delivered'[data[chead[d]][crp[d]]] = 0
      <4> SUFFICES ASSUME NEW d \in Consumers, cpc'[d] = "copy"
                   PROVE  delivered'[data[chead[d]][crp[d]]] = 0
        OBVIOUS
      <4>1. /\ chead[d] \in Segments /\ crp[d] \in Slots
            /\ crp[d] < write_pos[chead[d]] /\ cpc[d] = "copy"
            /\ <<chead[d], crp[d]>> # <<chead[c], crp[c]>>
        BY <1>8, <2>d, CopySlot DEF PopCopy, Inv, ConsumerInv
      <4>2. delivered[data[chead[d]][crp[d]]] = 0
        BY <4>1 DEF Inv, DeliveryInv
      <4>3. data[chead[d]][crp[d]] \in Items /\ data[chead[d]][crp[d]] # i
        BY <4>1, <3>3
      <4> QED BY <4>2, <4>3, <3>1
    <3>6. UNCHANGED <<write_pos, read_pos, data, chead, crp>>
      BY <1>8 DEF PopCopy, segments
    <3> QED BY <3>1, <3>2, <3>4, <3>5, <3>6 DEF DeliveryInv
  <2>6. OrderInv'
    <3>1. \A s \in Segments : \A p \in Slots :
            p < write_pos[s] /\ p >= read_pos[s] /\ s >= chead[c] => i < data[s][p]
      <4> SUFFICES ASSUME NEW s \in Segments, NEW p \in Slots,
                          p < write_pos[s], p >= read_pos[s], s >= chead[c]
                   PROVE  i < data[s][p]
        OBVIOUS
      <4>1. chead[c] < s \/ (chead[c] = s /\ crp[c] < p)
        BY <2>a DEF Segments, Slots, Inv, TypeOK
      <4> QED BY <4>1, <2>a DEF i, Inv, DataInv
    <3>2. last'[c] = i /\ \A d \in Consumers \ {c} : last'[d] = last[d]
      BY <2>c DEF Inv, TypeOK
    <3> QED BY <1>8, <2>0, <2>b, <2>d, <3>1, <3>2 DEF PopCopy, Inv, OrderInv, segments
  <2> QED BY <2>1, <2>2, <2>3, <2>4, <2>5, <2>6 DEF Inv
<1>9. CASE PopSize(c)
  <2>0. Pushed' = Pushed /\ Pushed \in Nat
    BY <1>9 DEF Inv, TypeOK, PopSize, Pushed, ProducerPCs, segments, producer
  <2>1. TypeOK'
    <3>1. total_size' \in 0 .. SizeModulus - 1
      <4> total_size + SizeModulus - 1 \in Nat
        BY SPMCAssumption DEF Inv, TypeOK
      <4> QED BY <1>9, ModRange, SPMCAssumption DEF PopSize
    <3> QED BY <3>1, <1>9 DEF PopSize, Inv, TypeOK, ConsumerPCs, segments,
               producer, history
  <2>2. ProducerInv'
    BY <1>9, SPMCAssumption DEF Inv, PopSize, TypeOK, ProducerInv, header,
       segments, producer, history
  <2>3. DataInv'
    BY <1>9, <2>0, SPMCAssumption DEF Inv, PopSize, DataInv, header, segments,
       producer, history
  <2>4. ConsumerInv'
    BY <1>9, SPMCAssumption DEF Inv, PopSize, TypeOK, ConsumerInv, header,
       segments, producer, history
  <2>5. DeliveryInv'
    BY <1>9, <2>0, SPMCAssumption DEF Inv, PopSize, DeliveryInv, TypeOK,
       header, segments, producer, history
  <2>6. OrderInv'
    BY <1>9, <2>0, SPMCAssumption DEF Inv, PopSize, OrderInv, TypeOK, header,
       segments, producer, history
  <2> QED BY <2>1, <2>2, <2>3, <2>4, <2>5, <2>6 DEF Inv
<1> QED BY <1>1, <1>2, <1>3, <1>4, <1>5, <1>6, <1>7, <1>8, <1>9 DEF TryPop

-----------------------------------------------------------------------------
(* The invariant holds in every behaviour of the queue.                    *)
THEOREM InvAlways == Spec => []Inv
<1>1. Inv /\ [Next]_vars => Inv'
  <2>1. Inv /\ UNCHANGED vars => Inv'
    BY DEF vars, header, segments, producer, consumer, history, Inv, TypeOK,
       ProducerInv, DataInv, ConsumerInv, DeliveryInv, OrderInv, Pushed
  <2> QED BY <2>1, InvPush, InvPop DEF Next
<1> QED BY InvInit, <1>1, PTL DEF Spec

(* Every variable of the queue keeps its type: no write_pos or read_pos    *)
(* passes the end of its segment, no pointer in use is null.               *)
THEOREM TypeCorrect == Spec => []TypeOK
<1>1. Inv => TypeOK
  BY DEF Inv
<1> QED BY <1>1, InvAlways, PTL

(* No item is popped twice.                                                *)
THEOREM PoppedAtMostOnce == Spec => []AtMostOnce
<1>1. Inv => AtMostOnce
  BY DEF Inv, DeliveryInv, AtMostOnce
<1> QED BY <1>1, InvAlways, PTL

(* A consumer that has claimed a slot copies a published item, out of the  *)
(* way of the producer and of the other consumers.                         *)
THEOREM CopiesSafe == Spec => []CopiesArePublished
<1>1. Inv => CopiesArePublished
  <2> SUFFICES ASSUME Inv, NEW c \in Consumers, cpc[c] = "copy"
               PROVE  /\ crp[c] < write_pos[chead[c]]
                      /\ data[chead[c]][crp[c]] \in Items
                      /\ ppc \in {"write", "publish"} =>
                           <<chead[c], crp[c]>> # <<ptail, pwp>>
                      /\ \A d \in Consumers \ {c} : cpc[d] = "copy" =>
                           <<chead[c], crp[c]>> # <<chead[d], crp[d]>>
    BY DEF CopiesArePublished
  <2>1. chead[c] \in Segments /\ crp[c] \in Slots /\ crp[c] < write_pos[chead[c]]
    BY CopySlot
  <2>2. ASSUME ppc \in {"write", "publish"}
        PROVE  <<chead[c], crp[c]>> # <<ptail, pwp>>
    <3>1. pwp = write_pos[ptail]
      BY <2>2 DEF Inv, ProducerInv
    <3> QED BY <3>1, <2>1 DEF Slots
  <2> QED BY <2>1, <2>2 DEF Inv, DataInv, ConsumerInv
<1> QED BY <1>1, InvAlways, PTL

(* The producer always finds the tail of the chain without a successor.    *)
THEOREM LinkSucceeds == Spec => []LinkNeverFails
<1>1. Inv => LinkNeverFails
  BY DEF Inv, TypeOK, ProducerInv, LinkNeverFails, Segments
<1> QED BY <1>1, InvAlways, PTL

(* Each consumer pops in push order.                                       *)
THEOREM PoppedInOrder == Spec => InOrder
<1>1. ASSUME Inv, [Next]_vars, NEW c \in Consumers, last'[c] # last[c]
      PROVE  last'[c] > last[c]
  <2>1. PICK d \in Consumers : PopCopy(d)
    BY <1>1 DEF Next, TryPush, TryPop, PushLoadTail, PushLoadPos, PushLink,
       PushStoreTail, PushCountSegment, PushWrite, PushPublish, PushSize,
       PopLoadHead, PopLoadReadPos, PopCompare, PopLoadNext, PopAdvance,
       PopReload, PopClaim, PopSize, vars, history
  <2>2. d = c /\ last'[c] = data[chead[c]][crp[c]]
    BY <1>1, <2>1 DEF PopCopy, Inv, TypeOK
  <2>3. last[c] < data[chead[c]][crp[c]] /\ data[chead[c]][crp[c]] \in Items
    BY <1>1, <2>1, <2>2, CopySlot DEF PopCopy, Inv, OrderInv, DataInv
  <2>4. last[c] \in Nat
    BY <1>1 DEF Inv, TypeOK, Items, NoItem
  <2> QED BY <2>2, <2>3, <2>4 DEF Items
<1>2. Inv /\ [Next]_vars =>
        [\A c \in Consumers : last'[c] # last[c] => last'[c] > last[c]]_vars
  BY <1>1
<1> QED BY <1>2, InvAlways, PTL DEF Spec, InOrder

(* The queue implements at-most-once delivery: storing write_pos is the    *)
(* send, copying a claimed slot the receive, and nothing else is visible.  *)
THEOREM QueueDelivers == Spec => ImplementsDelivery
<1>1. Init => Delivery!Init
  BY SPMCAssumption DEF Init, Delivery!Init, SentItems, Pushed, Items
<1>2. ASSUME Inv, [Next]_vars
      PROVE  [Delivery!Next]_<<SentItems, delivered>>
  <2>1. CASE PushPublish
    <3>1. Pushed = item - 1 /\ Pushed' = item /\ item \in Items
      BY <1>2, <2>1 DEF PushPublish, Inv, TypeOK, ProducerInv, Pushed
    <3>2. item \notin SentItems /\ SentItems' = SentItems \cup {item}
      BY <3>1, SPMCAssumption DEF SentItems, Items
    <3> QED BY <3>1, <3>2, <2>1 DEF PushPublish, history, Delivery!Next,
               Delivery!Send
  <2>2. ASSUME NEW c \in Consumers, PopCopy(c)
        PROVE  Delivery!Next
    <3> DEFINE i == data[chead[c]][crp[c]]
    <3>1. i \in Items /\ i <= Pushed /\ delivered[i] = 0
      BY <1>2, <2>2, CopySlot DEF PopCopy, Inv, DataInv, DeliveryInv
    <3>2. delivered' = [delivered EXCEPT ![i] = 1]
      <4>1. delivered' = [delivered EXCEPT ![i] = delivered[i] + 1]
        BY <2>2 DEF PopCopy
      <4> HIDE DEF i
      <4> QED BY <4>1, <3>1
    <3>3. SentItems' = SentItems
      BY <2>2 DEF PopCopy, producer, SentItems, Pushed
    <3> HIDE DEF i
    <3>4. Delivery!Receive(i)
      BY <3>1, <3>2, <3>3 DEF Delivery!Receive, SentItems
    <3> QED BY <3>1, <3>4 DEF Delivery!Next
  <2>3. CASE UNCHANGED vars
    BY <2>3 DEF vars, producer, history, SentItems, Pushed
  <2>4. CASE TryPush /\ ~PushPublish
    <3>1. Pushed' = Pushed /\ delivered' = delivered
      BY <1>2, <2>4 DEF TryPush, PushLoadTail, PushLoadPos, PushLink,
         PushStoreTail, PushCountSegment, PushWrite, PushSize, Pushed, history,
         Inv, TypeOK
    <3> QED BY <3>1 DEF SentItems
  <2>5. ASSUME NEW c \in Consumers, TryPop(c), ~PopCopy(c)
        PROVE  UNCHANGED <<SentItems, delivered>>
    BY <2>5 DEF TryPop, PopLoadHead, PopLoadReadPos, PopCompare, PopLoadNext,
       PopAdvance, PopReload, PopClaim, PopSize, producer, history, SentItems,
       Pushed
  <2> QED BY <1>2, <2>1, <2>2, <2>3, <2>4, <2>5 DEF Next
<1> QED BY <1>1, <1>2, InvAlways, PTL DEF Spec, ImplementsDelivery, Delivery!Spec
-----------------------------------------------------------------------------
(* The calls of try_pop that have copied an item and not yet counted it.   *)
Sizing == {c \in Consumers : cpc[c] = "size"}

(* total_size counts the items whose push is over and whose pop is not: it *)
(* wraps when a consumer is faster than the end of the push.               *)
SizeInv ==
  /\ IsFiniteSet(Sizing)
  /\ \E k \in Int : (item - 1 - Popped) + Cardinality(Sizing) = k * SizeModulus + total_size

(* A residue is what % makes of it and any multiple of the modulus.        *)
LEMMA ModUnique ==
  ASSUME NEW m \in Nat \ {0}, NEW r \in 0 .. m - 1, NEW k \in Int
  PROVE  (k * m + r) % m = r
  OBVIOUS

(* Incrementing a size_t.                                                  *)
LEMMA ModUp ==
  ASSUME NEW m \in Nat \ {0}, NEW r \in 0 .. m - 1, NEW k \in Int, NEW a \in Int,
         a = k * m + r
  PROVE  \E j \in Int : a + 1 = j * m + ((r + 1) % m)
<1>1. CASE r + 1 < m
  <2>1. (r + 1) % m = r + 1
    BY <1>1
  <2>2. a + 1 = k * m + (r + 1)
    OBVIOUS
  <2> QED BY <2>1, <2>2
<1>2. CASE r + 1 = m
  <2>1. (r + 1) % m = 0
    BY <1>2
  <2>2. a + 1 = (k + 1) * m + 0 /\ k + 1 \in Int
    BY <1>2
  <2> QED BY <2>1, <2>2
<1> QED BY <1>1, <1>2

(* Decrementing a size_t.                                                  *)
LEMMA ModDown ==
  ASSUME NEW m \in Nat \ {0}, NEW r \in 0 .. m - 1, NEW k \in Int, NEW a \in Int,
         a = k * m + r
  PROVE  \E j \in Int : a - 1 = j * m + ((r + m - 1) % m)
<1>1. CASE r > 0
  <2>1. (r + m - 1) % m = r - 1
    BY <1>1
  <2>2. a - 1 = k * m + (r - 1)
    OBVIOUS
  <2> QED BY <2>1, <2>2
<1>2. CASE r = 0
  <2>1. (r + m - 1) % m = m - 1
    BY <1>2
  <2>2. a - 1 = (k - 1) * m + (m - 1) /\ k - 1 \in Int
    BY <1>2
  <2> QED BY <2>1, <2>2
<1> QED BY <1>1, <1>2

(* Finitely many items have been popped.                                   *)
LEMMA PoppedFinite ==
  /\ IsFiniteSet({i \in Items : delivered[i] > 0}) /\ Popped \in Nat
<1>1. IsFiniteSet(Items)
  BY SPMCAssumption, FS_Interval DEF Items
<1>2. {i \in Items : delivered[i] > 0} \in SUBSET Items
  OBVIOUS
<1>3. IsFiniteSet({i \in Items : delivered[i] > 0})
  BY <1>1, <1>2, FS_Subset
<1> QED BY <1>3, FS_CardinalityType DEF Popped

(* The steps that count: the end of a push, the copy of an item and the    *)
(* end of a pop.                                                           *)
LEMMA SizeNext ==
  ASSUME Inv, SizeInv, [Next]_vars
  PROVE  SizeInv'
<1>1. PICK k \in Int :
        (item - 1 - Popped) + Cardinality(Sizing) = k * SizeModulus + total_size
  BY DEF SizeInv
<1>2. /\ IsFiniteSet(Sizing) /\ Cardinality(Sizing) \in Nat
      /\ item \in Nat /\ total_size \in 0 .. SizeModulus - 1 /\ Popped \in Nat
      /\ SizeModulus \in Nat \ {0}
  BY SPMCAssumption, FS_CardinalityType, PoppedFinite DEF SizeInv, Inv, TypeOK
<1>3. CASE UNCHANGED <<item, total_size, delivered>> /\ Sizing' = Sizing
  BY <1>3 DEF SizeInv, Popped
<1>4. CASE PushSize
  <2>1. /\ item' = item + 1 /\ total_size' = (total_size + 1) % SizeModulus
        /\ Sizing' = Sizing /\ Popped' = Popped
    BY <1>4 DEF PushSize, consumer, history, Sizing, Popped
  <2>2. PICK a \in Int : a = (item - 1 - Popped) + Cardinality(Sizing)
    BY <1>2
  <2>3. PICK j \in Int : a + 1 = j * SizeModulus + ((total_size + 1) % SizeModulus)
    BY <1>1, <1>2, <2>2, ModUp
  <2>4. a + 1 = (item' - 1 - Popped') + Cardinality(Sizing')
    BY <1>2, <2>1, <2>2
  <2> QED BY <1>2, <2>1, <2>3, <2>4 DEF SizeInv
<1>5. ASSUME NEW c \in Consumers, PopCopy(c)
      PROVE  SizeInv'
  <2>1. PICK i : i = data[chead[c]][crp[c]]
    OBVIOUS
  <2>2. i \in Items /\ delivered[i] = 0 /\ delivered \in [Items -> Nat]
    BY <1>5, <2>1, CopySlot DEF PopCopy, Inv, TypeOK, DataInv, DeliveryInv
  <2>3. /\ cpc[c] = "copy" /\ cpc' = [cpc EXCEPT ![c] = "size"]
        /\ delivered' = [delivered EXCEPT ![i] = delivered[i] + 1]
        /\ UNCHANGED <<item, total_size>>
    BY <1>5, <2>1 DEF PopCopy, header, producer
  <2>4. Sizing' = Sizing \cup {c} /\ c \notin Sizing
    BY <2>3 DEF Sizing, Inv, TypeOK
  <2>5. IsFiniteSet(Sizing') /\ Cardinality(Sizing') = Cardinality(Sizing) + 1
    BY <1>2, <2>4, FS_AddElement
  <2> DEFINE P == {j \in Items : delivered[j] > 0}
  <2>6. {j \in Items : delivered'[j] > 0} = P \cup {i} /\ i \notin P
    BY <2>2, <2>3
  <2>7. Popped' = Popped + 1
    <3>1. IsFiniteSet(P) /\ Popped = Cardinality(P)
      BY PoppedFinite DEF Popped
    <3>2. Popped' = Cardinality(P \cup {i})
      BY <2>6 DEF Popped
    <3> HIDE DEF P
    <3> QED BY <2>6, <3>1, <3>2, FS_AddElement
  <2>8. (item' - 1 - Popped') + Cardinality(Sizing') = k * SizeModulus + total_size'
    <3>1. (item' - 1 - Popped') + Cardinality(Sizing') = (item - 1 - Popped) + Cardinality(Sizing)
      BY <1>2, <2>3, <2>5, <2>7
    <3> QED BY <1>1, <2>3, <3>1
  <2> QED BY <2>5, <2>8 DEF SizeInv
<1>6. ASSUME NEW c \in Consumers, PopSize(c)
      PROVE  SizeInv'
  <2>1. /\ cpc[c] = "size" /\ cpc' = [cpc EXCEPT ![c] = "idle"]
        /\ total_size' = (total_size + SizeModulus - 1) % SizeModulus
        /\ item' = item /\ Popped' = Popped
    BY <1>6 DEF PopSize, producer, history, Popped
  <2>2. Sizing' = Sizing \ {c} /\ c \in Sizing
    BY <2>1 DEF Sizing, Inv, TypeOK
  <2>3. IsFiniteSet(Sizing') /\ Cardinality(Sizing') = Cardinality(Sizing) - 1
    BY <1>2, <2>2, FS_RemoveElement
  <2>4. PICK a \in Int : a = (item - 1 - Popped) + Cardinality(Sizing)
    BY <1>2
  <2>5. PICK j \in Int :
          a - 1 = j * SizeModulus + ((total_size + SizeModulus - 1) % SizeModulus)
    BY <1>1, <1>2, <2>4, ModDown
  <2>6. a - 1 = (item' - 1 - Popped') + Cardinality(Sizing')
    BY <1>2, <2>1, <2>3, <2>4
  <2> QED BY <2>1, <2>3, <2>5, <2>6 DEF SizeInv
<1>7. CASE TryPush /\ ~PushSize
  BY <1>3, <1>7 DEF TryPush, PushLoadTail, PushLoadPos, PushLink, PushStoreTail,
     PushCountSegment, PushWrite, PushPublish, header, consumer, history, Sizing
<1>8. ASSUME NEW c \in Consumers, TryPop(c), ~PopCopy(c), ~PopSize(c)
      PROVE  SizeInv'
  <2>1. UNCHANGED <<item, total_size, delivered>>
    BY <1>8 DEF TryPop, PopLoadHead, PopLoadReadPos, PopCompare, PopLoadNext, PopAdvance,
       PopReload, PopClaim, header, producer, history
  <2>2. cpc[c] # "size" /\ \E to \in ConsumerPCs \ {"size"} : cpc' = [cpc EXCEPT ![c] = to]
    BY <1>8 DEF TryPop, PopLoadHead, PopLoadReadPos, PopCompare, PopLoadNext, PopAdvance,
       PopReload, PopClaim, ConsumerPCs
  <2>3. Sizing' = Sizing
    BY <2>2 DEF Sizing, Inv, TypeOK
  <2> QED BY <1>3, <2>1, <2>3
<1>9. CASE UNCHANGED vars
  BY <1>3, <1>9 DEF vars, header, producer, consumer, history, Sizing
<1> QED BY <1>4, <1>5, <1>6, <1>7, <1>8, <1>9 DEF Next

(* When no call is between its publication or its copy and the update of   *)
(* total_size, size() is exact modulo the width of size_t, for any number  *)
(* of consumers.                                                           *)
THEOREM SizeExact == Spec => []SizeExactWhenQuiet
<1>1. Init => SizeInv
  <2> SUFFICES ASSUME Init PROVE SizeInv
    OBVIOUS
  <2>1. Sizing = {} /\ item = 1 /\ total_size = 0
    BY DEF Init, Sizing
  <2>2. {i \in Items : delivered[i] > 0} = {}
    BY DEF Init
  <2>3. Popped = 0 /\ IsFiniteSet(Sizing) /\ Cardinality(Sizing) = 0
    BY <2>1, <2>2, FS_EmptySet DEF Popped
  <2>4. (item - 1 - Popped) + Cardinality(Sizing) = 0 * SizeModulus + total_size
    BY <2>1, <2>3, SPMCAssumption
  <2> QED BY <2>3, <2>4 DEF SizeInv
<1>2. Inv /\ SizeInv /\ [Next]_vars => SizeInv'
  BY SizeNext
<1>3. Inv /\ SizeInv => SizeExactWhenQuiet
  <2> SUFFICES ASSUME Inv, SizeInv, \A c \in Consumers : cpc[c] # "size"
               PROVE  total_size = (item - 1 - Popped) % SizeModulus
    BY DEF SizeExactWhenQuiet
  <2>1. Sizing = {}
    BY DEF Sizing
  <2>2. Cardinality(Sizing) = 0
    BY <2>1, FS_EmptySet
  <2>3. PICK k \in Int :
          (item - 1 - Popped) + Cardinality(Sizing) = k * SizeModulus + total_size
    BY DEF SizeInv
  <2>4. item \in Nat /\ Popped \in Nat /\ total_size \in 0 .. SizeModulus - 1
    BY PoppedFinite DEF Inv, TypeOK
  <2>5. item - 1 - Popped = k * SizeModulus + total_size
    BY <2>2, <2>3, <2>4
  <2> QED BY <2>4, <2>5, SPMCAssumption, ModUnique
<1> QED BY <1>1, <1>2, <1>3, InvAlways, PTL DEF Spec

-----------------------------------------------------------------------------
(* What becomes of every item.  A segment that has a successor is full, so *)
(* that head_segment only ever passes full ones.                           *)
ChainInv ==
  /\ head_segment <= allocated
  /\ \A s \in Segments : read_pos[s] <= write_pos[s]
  /\ ppc = "link" => write_pos[ptail] = SegCap
  /\ \A s \in Segments : s < allocated => write_pos[s] = SegCap
  /\ \A c \in Consumers : cpc[c] = "advance" => cnext[c] <= allocated

(* A consumer has claimed the slot and is about to copy it.                *)
Copying(s, p) == \E c \in Consumers : cpc[c] = "copy" /\ chead[c] = s /\ crp[c] = p

(* Claimed slots are being copied or have been; every pushed item is in a  *)
(* slot.                                                                   *)
AccountInv ==
  /\ \A s \in Segments : \A p \in Slots :
       p < write_pos[s] /\ p < read_pos[s] => delivered[data[s][p]] = 1 \/ Copying(s, p)
  /\ \A i \in Items : i <= Pushed =>
       \E s \in Segments : \E p \in Slots : p < write_pos[s] /\ data[s][p] = i

(* Every pushed item has been popped, is being copied, or is still in the  *)
(* queue, unclaimed; it can be out of reach only in a full segment that    *)
(* head_segment has passed, and so only after the queue was extended.      *)
EveryItemAccounted ==
  \A i \in Items : i <= Pushed =>
    \/ delivered[i] = 1
    \/ \E c \in Consumers : cpc[c] = "copy" /\ data[chead[c]][crp[c]] = i
    \/ \E sp \in Unclaimed :
         /\ data[sp[1]][sp[2]] = i
         /\ sp[1] < head_segment => write_pos[sp[1]] = SegCap /\ allocated > 1

(* The chain is kept by the producer.                                      *)
LEMMA ChainPush ==
  ASSUME Inv, ChainInv, TryPush
  PROVE  ChainInv'
<1> USE SPMCAssumption DEF header, segments, consumer, history
<1>1. CASE PushLoadTail
  BY <1>1 DEF ChainInv, PushLoadTail
<1>2. CASE PushLoadPos
  <2>1. ptail \in Segments /\ write_pos[ptail] \in 0..SegCap
    BY <1>2 DEF PushLoadPos, Inv, TypeOK, ProducerInv
  <2>2. QED
    BY <1>2, <2>1 DEF ChainInv, PushLoadPos
<1>3. CASE PushLink
  <2>1. ptail = allocated /\ allocated \in Segments /\ head_segment \in Segments
    BY <1>3 DEF PushLink, Inv, TypeOK, ProducerInv
  <2>2. allocated' = allocated + 1 /\ UNCHANGED <<head_segment, write_pos, read_pos, cpc, cnext>> /\ ppc' # "link"
    BY <1>3 DEF PushLink
  <2>3. \A s \in Segments : s < allocated + 1 => s < allocated \/ s = ptail
    BY <2>1 DEF Segments
  <2>4. \A c \in Consumers : cpc[c] = "advance" => cnext[c] \in Segments
    BY DEF Inv, ConsumerInv
  <2>5. write_pos[ptail] = SegCap
    BY <1>3 DEF PushLink, ChainInv
  <2>6. QED
    BY <2>1, <2>2, <2>3, <2>4, <2>5 DEF ChainInv, Segments
<1>4. CASE PushStoreTail
  BY <1>4 DEF ChainInv, PushStoreTail
<1>5. CASE PushCountSegment
  BY <1>5 DEF ChainInv, PushCountSegment
<1>6. CASE PushWrite
  BY <1>6 DEF ChainInv, PushWrite
<1>7. CASE PushPublish
  <2>1. ptail = allocated /\ allocated \in Segments /\ pwp = write_pos[ptail] /\ pwp \in 0..SegCap
    BY <1>7 DEF PushPublish, Inv, TypeOK, ProducerInv
  <2>2. /\ write_pos' = [write_pos EXCEPT ![ptail] = pwp + 1] /\ ppc' = "size"
        /\ UNCHANGED <<head_segment, read_pos, cpc, cnext, allocated>>
    BY <1>7 DEF PushPublish
  <2>3. /\ write_pos'[ptail] = pwp + 1
        /\ \A s \in Segments : s # ptail => write_pos'[s] = write_pos[s]
    BY <2>1, <2>2 DEF Inv, TypeOK
  <2>4. \A s \in Segments : s < allocated => s # ptail
    BY <2>1 DEF Segments
  <2>5. ASSUME NEW s \in Segments PROVE read_pos[s] <= write_pos'[s]
    <3>1. read_pos[s] \in 0..SegCap /\ read_pos[s] <= write_pos[s]
      BY DEF Inv, TypeOK, ChainInv
    <3>2. QED
      BY <2>1, <2>3, <3>1
  <2>6. QED
    BY <2>2, <2>3, <2>4, <2>5 DEF ChainInv
<1>8. CASE PushSize
  BY <1>8 DEF ChainInv, PushSize
<1>9. QED
  BY <1>1, <1>2, <1>3, <1>4, <1>5, <1>6, <1>7, <1>8 DEF TryPush

(* The chain is kept by a consumer: it moves on to a linked segment, and   *)
(* claims no slot that is not published.                                   *)
LEMMA ChainPop ==
  ASSUME NEW c \in Consumers, Inv, ChainInv, TryPop(c)
  PROVE  ChainInv'
<1>1. UNCHANGED <<write_pos, allocated, ppc, ptail>>
  BY DEF TryPop, PopLoadHead, PopLoadReadPos, PopCompare, PopLoadNext, PopAdvance, PopReload,
         PopClaim, PopCopy, PopSize, header, segments, producer
<1>2. head_segment' <= allocated
  <2>1. CASE PopAdvance(c)
    BY <2>1 DEF PopAdvance, ChainInv
  <2>2. CASE ~PopAdvance(c)
    BY <2>2 DEF TryPop, PopLoadHead, PopLoadReadPos, PopCompare, PopLoadNext, PopReload,
                PopClaim, PopCopy, PopSize, header, ChainInv
  <2>3. QED
    BY <2>1, <2>2
<1>3. ASSUME NEW s \in Segments PROVE read_pos'[s] <= write_pos[s]
  <2>1. CASE PopClaim(c)
    <3>1. /\ chead[c] \in Segments /\ crp[c] < write_pos[chead[c]] /\ crp[c] \in 0..SegCap
          /\ write_pos[chead[c]] \in 0..SegCap /\ read_pos \in [Segments -> 0..SegCap]
      BY <2>1 DEF PopClaim, Inv, TypeOK, ConsumerInv
    <3>2. crp[c] + 1 <= write_pos[chead[c]]
      BY <3>1, SPMCAssumption
    <3>3. read_pos' = read_pos \/ read_pos' = [read_pos EXCEPT ![chead[c]] = crp[c] + 1]
      BY <2>1 DEF PopClaim
    <3>4. QED
      BY <3>1, <3>2, <3>3 DEF ChainInv
  <2>2. CASE ~PopClaim(c)
    BY <2>2 DEF TryPop, PopLoadHead, PopLoadReadPos, PopCompare, PopLoadNext, PopReload,
                PopAdvance, PopCopy, PopSize, segments, ChainInv
  <2>3. QED
    BY <2>1, <2>2
<1>4. ASSUME NEW d \in Consumers, cpc'[d] = "advance" PROVE cnext'[d] <= allocated
  <2>1. CASE PopLoadNext(c)
    <3>1. chead[c] \in Segments /\ allocated \in Segments
      BY <2>1 DEF PopLoadNext, Inv, TypeOK, ConsumerInv
    <3>2. next_segment[chead[c]] # Null => next_segment[chead[c]] = chead[c] + 1 /\ chead[c] < allocated
      BY <3>1 DEF Inv, ProducerInv
    <3>3. cnext' = [cnext EXCEPT ![c] = next_segment[chead[c]]]
      BY <2>1 DEF PopLoadNext
    <3>4. cpc' = [cpc EXCEPT ![c] = IF next_segment[chead[c]] = Null THEN "idle" ELSE "advance"]
      BY <2>1 DEF PopLoadNext
    <3>5. CASE d = c
      <4>1. next_segment[chead[c]] # Null
        BY <1>4, <3>4, <3>5 DEF Inv, TypeOK
      <4>2. cnext'[d] = chead[c] + 1 /\ chead[c] < allocated
        BY <3>2, <3>3, <3>5, <4>1 DEF Inv, TypeOK
      <4>3. QED
        BY <3>1, <4>2 DEF Segments
    <3>6. CASE d # c
      BY <1>4, <3>3, <3>4, <3>6 DEF Inv, TypeOK, ChainInv
    <3>7. QED
      BY <3>5, <3>6
  <2>2. CASE ~PopLoadNext(c)
    <3>1. UNCHANGED cnext
      BY <2>2 DEF TryPop, PopLoadHead, PopLoadReadPos, PopCompare, PopReload, PopAdvance,
                  PopClaim, PopCopy, PopSize
    <3>2. cpc[d] = "advance"
      BY <1>4, <2>2 DEF TryPop, PopLoadHead, PopLoadReadPos, PopCompare, PopReload, PopAdvance,
                  PopClaim, PopCopy, PopSize, Inv, TypeOK
    <3>3. QED
      BY <3>1, <3>2 DEF ChainInv
  <2>3. QED
    BY <2>1, <2>2
<1>5. QED
  BY <1>1, <1>2, <1>3, <1>4 DEF ChainInv

(* A step that neither publishes, claims nor copies loses sight of no      *)
(* item.                                                                   *)
LEMMA AccountFrame ==
  ASSUME AccountInv, UNCHANGED <<write_pos, read_pos, data, delivered>>, Pushed' = Pushed,
         \A c \in Consumers : cpc[c] = "copy" =>
           cpc'[c] = "copy" /\ chead'[c] = chead[c] /\ crp'[c] = crp[c]
  PROVE  AccountInv'
<1>1. \A s, p : Copying(s, p) => Copying(s, p)'
  BY DEF Copying
<1>2. QED
  BY <1>1 DEF AccountInv

(* The producer accounts for the item it publishes.                        *)
LEMMA AccountPush ==
  ASSUME Inv, ChainInv, AccountInv, TryPush
  PROVE  AccountInv'
<1>1. UNCHANGED <<read_pos, delivered, cpc, chead, crp>>
  BY DEF TryPush, PushLoadTail, PushLoadPos, PushLink, PushStoreTail, PushCountSegment,
         PushWrite, PushPublish, PushSize, segments, consumer, history
<1>2. \A s, p : Copying(s, p)' = Copying(s, p)
  BY <1>1 DEF Copying
<1>3. CASE PushWrite
  <2>1. ptail \in Segments /\ pwp = write_pos[ptail] /\ pwp \in 0..SegCap /\ pwp < SegCap
    BY <1>3 DEF PushWrite, Inv, TypeOK, ProducerInv
  <2>2. data' = [data EXCEPT ![ptail][pwp] = item] /\ UNCHANGED write_pos /\ Pushed' = Pushed
    BY <1>3 DEF PushWrite, Pushed
  <2>3. \A s \in Segments : \A p \in Slots : p < write_pos[s] => data'[s][p] = data[s][p]
    BY <2>1, <2>2, SPMCAssumption DEF Inv, TypeOK, Slots
  <2>4. QED
    BY <1>1, <1>2, <2>2, <2>3 DEF AccountInv
<1>4. CASE PushPublish
  <2>1. /\ ptail \in Segments /\ pwp = write_pos[ptail] /\ pwp \in Slots /\ data[ptail][pwp] = item
        /\ item \in Items
    BY <1>4, SPMCAssumption DEF PushPublish, Inv, TypeOK, ProducerInv, Slots
  <2>2. write_pos' = [write_pos EXCEPT ![ptail] = pwp + 1] /\ UNCHANGED data
    BY <1>4 DEF PushPublish
  <2>3. Pushed' = item /\ Pushed = item - 1
    <3>1. ppc = "publish" /\ ppc' = "size" /\ UNCHANGED item /\ item \in Nat
      BY <1>4, <2>1, SPMCAssumption DEF PushPublish, Items
    <3>2. QED
      BY <3>1 DEF Pushed
  <2>4. /\ write_pos'[ptail] = pwp + 1 /\ pwp < pwp + 1
        /\ \A s \in Segments : s # ptail => write_pos'[s] = write_pos[s]
    BY <2>1, <2>2 DEF Inv, TypeOK, Slots
  <2>5. ASSUME NEW s \in Segments, NEW p \in Slots, p < write_pos'[s], p < read_pos[s]
        PROVE  delivered[data[s][p]] = 1 \/ Copying(s, p)
    <3>1. read_pos[s] <= write_pos[s] /\ read_pos[s] \in 0..SegCap /\ write_pos[s] \in 0..SegCap
      BY DEF ChainInv, Inv, TypeOK
    <3>2. p < write_pos[s]
      BY <2>5, <3>1, SPMCAssumption DEF Slots
    <3>3. QED
      BY <2>5, <3>2 DEF AccountInv
  <2>6. ASSUME NEW i \in Items, i <= Pushed'
        PROVE  \E s \in Segments : \E p \in Slots : p < write_pos'[s] /\ data[s][p] = i
    <3>1. CASE i = item
      BY <2>1, <2>4, <3>1
    <3>2. CASE i # item
      <4>1. i <= Pushed
        BY <2>1, <2>3, <2>6, <3>2, SPMCAssumption DEF Items
      <4>2. PICK s \in Segments, p \in Slots : p < write_pos[s] /\ data[s][p] = i
        BY <4>1 DEF AccountInv
      <4>3. p < write_pos'[s]
        <5>1. p \in Nat /\ pwp \in Nat
          BY <2>1, <4>2, SPMCAssumption DEF Slots
        <5>2. CASE s = ptail
          <6>1. p < pwp /\ write_pos'[s] = pwp + 1
            BY <2>1, <2>4, <4>2, <5>2
          <6>2. QED
            BY ONLY <5>1, <6>1
        <5>3. CASE s # ptail
          BY <2>4, <4>2, <5>3
        <5>4. QED
          BY <5>2, <5>3
      <4>4. QED
        BY <4>2, <4>3
    <3>3. QED
      BY <3>1, <3>2
  <2>7. QED
    BY <1>1, <1>2, <2>2, <2>5, <2>6 DEF AccountInv
<1>5. CASE ~PushWrite /\ ~PushPublish
  <2>1. UNCHANGED <<write_pos, data>>
    BY <1>5 DEF TryPush, PushLoadTail, PushLoadPos, PushLink, PushStoreTail, PushCountSegment,
         PushSize, segments
  <2>2. Pushed' = Pushed
    <3>1. CASE PushSize
      <4>1. ppc = "size" /\ ppc' = "idle" /\ item' = item + 1 /\ item \in Nat
        BY <3>1, SPMCAssumption DEF PushSize, Inv, TypeOK
      <4>2. QED
        BY <4>1 DEF Pushed
    <3>2. CASE ~PushSize
      <4>1. UNCHANGED item /\ ppc # "size" /\ ppc' # "size"
        BY <1>5, <3>2 DEF TryPush, PushLoadTail, PushLoadPos, PushLink, PushStoreTail, PushCountSegment
      <4>2. QED
        BY <4>1 DEF Pushed
    <3>3. QED
      BY <3>1, <3>2
  <2>3. QED
    BY <1>1, <2>1, <2>2, AccountFrame
<1>6. QED
  BY <1>3, <1>4, <1>5

(* A consumer accounts for the slot it claims, and for the item it copies. *)
LEMMA AccountPop ==
  ASSUME NEW c \in Consumers, Inv, AccountInv, TryPop(c)
  PROVE  AccountInv'
<1>1. UNCHANGED <<write_pos, data>> /\ Pushed' = Pushed
  BY DEF TryPop, PopLoadHead, PopLoadReadPos, PopCompare, PopLoadNext, PopAdvance, PopReload,
         PopClaim, PopCopy, PopSize, segments, producer, Pushed
<1>2. cpc \in [Consumers -> ConsumerPCs]
  BY DEF Inv, TypeOK
<1>3. CASE PopClaim(c)
  <2>1. CASE read_pos[chead[c]] = crp[c]
    <3>1. /\ read_pos' = [read_pos EXCEPT ![chead[c]] = crp[c] + 1]
          /\ cpc' = [cpc EXCEPT ![c] = "copy"] /\ cpc[c] = "claim"
          /\ UNCHANGED <<chead, crp, delivered>>
      BY <1>3, <2>1 DEF PopClaim, history
    <3>2. chead[c] \in Segments /\ crp[c] \in 0..SegCap /\ read_pos \in [Segments -> 0..SegCap]
      BY <3>1 DEF Inv, TypeOK, ConsumerInv
    <3>3. Copying(chead[c], crp[c])' /\ \A s, p : Copying(s, p) => Copying(s, p)'
      BY <1>2, <3>1 DEF Copying
    <3>4. ASSUME NEW s \in Segments, NEW p \in Slots, p < read_pos'[s]
          PROVE  p < read_pos[s] \/ (s = chead[c] /\ p = crp[c])
      BY <2>1, <3>1, <3>2, <3>4, SPMCAssumption DEF Slots
    <3>5. QED
      BY <1>1, <3>1, <3>3, <3>4 DEF AccountInv
  <2>2. CASE read_pos[chead[c]] # crp[c]
    <3>1. /\ UNCHANGED <<read_pos, delivered, chead, crp>> /\ cpc[c] = "claim"
          /\ cpc' = [cpc EXCEPT ![c] = "read"]
      BY <1>3, <2>2 DEF PopClaim, history
    <3>2. QED
      BY <1>1, <1>2, <3>1, AccountFrame
  <2>3. QED
    BY <2>1, <2>2
<1>4. CASE PopCopy(c)
  <2>1. PICK x : x = data[chead[c]][crp[c]]
    OBVIOUS
  <2>2. /\ delivered' = [delivered EXCEPT ![x] = delivered[x] + 1]
        /\ cpc' = [cpc EXCEPT ![c] = "size"] /\ cpc[c] = "copy"
        /\ UNCHANGED <<read_pos, chead, crp>>
    BY <1>4, <2>1 DEF PopCopy, segments
  <2>3. /\ chead[c] \in Segments /\ crp[c] \in Slots /\ crp[c] < write_pos[chead[c]]
        /\ x \in Items /\ delivered[x] = 0 /\ delivered \in [Items -> Nat]
    BY <2>1, <2>2, CopySlot DEF Inv, TypeOK, DataInv, DeliveryInv
  <2>4. delivered'[x] = 1 /\ \A i \in Items : i # x => delivered'[i] = delivered[i]
    BY <2>2, <2>3
  <2>5. ASSUME NEW s \in Segments, NEW p \in Slots, p < write_pos[s], p < read_pos[s]
        PROVE  delivered'[data[s][p]] = 1 \/ Copying(s, p)'
    <3>1. CASE data[s][p] = x
      BY <2>4, <3>1
    <3>2. CASE data[s][p] # x
      <4>1. data[s][p] \in Items
        BY <2>5 DEF Inv, DataInv
      <4>2. CASE delivered[data[s][p]] = 1
        BY <2>4, <3>2, <4>1, <4>2
      <4>3. CASE Copying(s, p)
        <5>1. PICK d \in Consumers : cpc[d] = "copy" /\ chead[d] = s /\ crp[d] = p
          BY <4>3 DEF Copying
        <5>2. d # c
          BY <2>1, <3>2, <5>1
        <5>3. cpc'[d] = "copy" /\ chead'[d] = s /\ crp'[d] = p
          BY <1>2, <2>2, <5>1, <5>2
        <5>4. QED
          BY <5>3 DEF Copying
      <4>4. QED
        BY <2>5, <4>2, <4>3 DEF AccountInv
    <3>3. QED
      BY <3>1, <3>2
  <2>6. QED
    BY <1>1, <2>2, <2>5 DEF AccountInv
<1>5. CASE ~PopClaim(c) /\ ~PopCopy(c)
  <2>1. UNCHANGED <<read_pos, delivered>>
    BY <1>5 DEF TryPop, PopLoadHead, PopLoadReadPos, PopCompare, PopLoadNext, PopAdvance, PopReload,
         PopSize, segments, history
  <2>2. cpc[c] # "copy" /\ \A d \in Consumers : d # c => cpc'[d] = cpc[d] /\ chead'[d] = chead[d] /\ crp'[d] = crp[d]
    BY <1>2, <1>5 DEF TryPop, PopLoadHead, PopLoadReadPos, PopCompare, PopLoadNext, PopAdvance, PopReload,
         PopSize, Inv, TypeOK
  <2>3. QED
    BY <1>1, <2>1, <2>2, AccountFrame
<1>6. QED
  BY <1>3, <1>4, <1>5

(* THEOREM.  The queue destroys no item: each one pushed has been popped,  *)
(* is being copied, or is there unclaimed.  What spmc_lost_items finds is  *)
(* the only way to lose one: an item stays behind in a full segment that   *)
(* head_segment has passed, after the queue was extended.                  *)
THEOREM NothingDestroyed == Spec => []EveryItemAccounted
<1>1. Init => ChainInv /\ AccountInv
  BY SPMCAssumption DEF Init, ChainInv, AccountInv, Segments, Slots, Items, Pushed
<1>2. Inv /\ ChainInv /\ AccountInv /\ [Next]_vars => ChainInv' /\ AccountInv'
  <2>1. SUFFICES ASSUME Inv, ChainInv, AccountInv, [Next]_vars PROVE ChainInv' /\ AccountInv'
    OBVIOUS
  <2>2. CASE UNCHANGED vars
    <3>1. UNCHANGED <<head_segment, allocated, write_pos, read_pos, data, delivered, ppc, ptail, item, cpc, chead, crp, cnext>>
      BY <2>2 DEF vars, header, segments, producer, consumer, history
    <3>2. Pushed' = Pushed
      BY <3>1 DEF Pushed
    <3>3. AccountInv'
      BY <2>1, <3>1, <3>2, AccountFrame
    <3>4. ChainInv'
      BY <2>1, <3>1 DEF ChainInv
    <3>5. QED
      BY <3>3, <3>4
  <2>3. CASE TryPush
    BY <2>1, <2>3, ChainPush, AccountPush
  <2>4. ASSUME NEW c \in Consumers, TryPop(c) PROVE ChainInv' /\ AccountInv'
    BY <2>1, <2>4, ChainPop, AccountPop
  <2>5. QED
    BY <2>1, <2>2, <2>3, <2>4 DEF Next
<1>3. Inv /\ ChainInv /\ AccountInv => EveryItemAccounted
  <2>1. SUFFICES ASSUME Inv, ChainInv, AccountInv, NEW i \in Items, i <= Pushed
                 PROVE  \/ delivered[i] = 1
                        \/ \E c \in Consumers : cpc[c] = "copy" /\ data[chead[c]][crp[c]] = i
                        \/ \E sp \in Unclaimed :
                             /\ data[sp[1]][sp[2]] = i
                             /\ sp[1] < head_segment => write_pos[sp[1]] = SegCap /\ allocated > 1
    BY DEF EveryItemAccounted
  <2>2. PICK s \in Segments, p \in Slots : p < write_pos[s] /\ data[s][p] = i
    BY <2>1 DEF AccountInv
  <2>3. CASE p < read_pos[s]
    BY <2>1, <2>2, <2>3 DEF AccountInv, Copying
  <2>4. CASE ~(p < read_pos[s])
    <3>1. read_pos[s] \in 0..SegCap /\ p \in Nat /\ s \in Nat /\ allocated \in Nat /\ head_segment \in Nat /\ s >= 1
      BY <2>1, SPMCAssumption DEF Inv, TypeOK, Slots, Segments
    <3>2. p >= read_pos[s]
      BY <2>4, <3>1, SPMCAssumption
    <3>3. <<s, p>> \in Unclaimed
      BY <2>2, <3>2 DEF Unclaimed, Published
    <3>4. s < head_segment => write_pos[s] = SegCap /\ allocated > 1
      BY <2>1, <3>1 DEF ChainInv
    <3>5. QED
      BY <2>2, <3>3, <3>4
  <2>5. QED
    BY <2>3, <2>4
<1>4. QED
  BY <1>1, <1>2, <1>3, InvAlways, PTL DEF Spec
=============================================================================
