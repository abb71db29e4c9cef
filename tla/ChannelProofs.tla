---------------------------- MODULE ChannelProofs ----------------------------
(***************************************************************************)
(* Proofs about Channel, for any number of coroutines, any capacity and    *)
(* any number of writes.  The invariant is built in five layers, each      *)
(* preserved with the help of the others:                                  *)
(*   ShapeInv   the lists and the buffer fit the capacity (NoNeedlessWait) *)
(*   OrderInv   the values in the channel, oldest first (Fifo)             *)
(*   PlaceInv   every suspended coroutine is in exactly one list or is     *)
(*              resumed by exactly one call (NoneStranded)                 *)
(*   CarryInv   while the channel is open, the values that left it: each   *)
(*              is carried by one reader and not received, or received     *)
(*   GoneInv    what a destroyed writer takes along is nowhere else        *)
(*              (with CarryInv: NothingLostWhileOpen)                      *)
(***************************************************************************)
EXTENDS Channel, TLAPS

InList(s, x) == \E i \in 1 .. Len(s) : s[i] = x
NoDuplicates(s) == \A i, j \in 1 .. Len(s) : s[i] = s[j] => i = j

ShapeInv == ChannelTypeOK /\ (cleaned => ~active) /\ NoNeedlessWait

(* Somebody is about to resume c with v.                                   *)
Wakes(c, v) ==
  \E d \in Coroutines : \E i \in 1 .. Len(wake[d]) : wake[d][i] = <<c, v>>

(* Nobody is resumed twice, ...                                            *)
WakeOnce ==
  \A d, e \in Coroutines : \A i \in 1 .. Len(wake[d]), j \in 1 .. Len(wake[e]) :
    wake[d][i][1] = wake[e][j][1] => d = e /\ i = j
(* ... a coroutine waits at one place and has nothing to resume then, and  *)
(* a reader is resumed with a value.                                       *)
PlaceInv ==
  /\ NoneStranded /\ WakeOnce
  /\ NoDuplicates(writer_list) /\ NoDuplicates(reader_list)
  /\ \A c \in Coroutines :
       /\ Waiting(c) => ~Woken(c) /\ wake[c] = <<>>
       /\ wake[c] # <<>> => pc[c] \in {"suspended", "resumed"}
       /\ c \in Readers => ~Wakes(c, NoValue)

(* Fifo in terms of the two sequences, with the bounds that make a new     *)
(* value the largest and a value handed to a reader the smallest.          *)
OrderInv ==
  /\ handed <= writes
  /\ \A i \in 1 .. Len(buffer) : handed < buffer[i] /\ buffer[i] <= writes
  /\ \A i \in 1 .. Len(writer_list) :
       handed < val[writer_list[i]] /\ val[writer_list[i]] <= writes
  /\ \A i, j \in 1 .. Len(buffer) : i < j => buffer[i] < buffer[j]
  /\ \A i, j \in 1 .. Len(writer_list) :
       i < j => val[writer_list[i]] < val[writer_list[j]]
  /\ \A i \in 1 .. Len(buffer), j \in 1 .. Len(writer_list) :
       buffer[i] < val[writer_list[j]]

InBuffer(v) == \E i \in 1 .. Len(buffer) : buffer[i] = v
AtWriter(v) == \E c \in Writers : val[c] = v /\ (Waiting(c) \/ pc[c] = "destroyed")
Stored(v)   == InBuffer(v) \/ \E c \in Writers : Waiting(c) /\ val[c] = v

(* The reader c has been given v and has not returned it yet.              *)
Carries(c, v) ==
  (pc[c] = "resumed" /\ val[c] = v) \/ Wakes(c, v)

CarryInv ==
  active =>
    /\ \A c \in Readers, v \in WriteNumbers \cup {NoValue} : Carries(c, v) =>
         /\ v # NoValue /\ v <= handed /\ received[v] = 0
         /\ \A d \in Readers : Carries(d, v) => c = d
    /\ \A v \in WriteNumbers : /\ received[v] \in {0, 1}
                               /\ v > handed => received[v] = 0
    /\ \A v \in 1 .. writes :
         \/ InBuffer(v) \/ AtWriter(v) \/ received[v] = 1
         \/ \E c \in Readers : Carries(c, v)

(* Only readers are resumed with values, and what a destroyed writer takes *)
(* along is nowhere else.                                                  *)
GoneInv ==
  active =>
    /\ \A w \in Writers, v \in WriteNumbers : ~Wakes(w, v)
    /\ \A w \in Writers : pc[w] = "destroyed" =>
         /\ val[w] \in 1 .. writes /\ ~Stored(val[w]) /\ received[val[w]] = 0
         /\ \A c \in Readers : ~Carries(c, val[w])
         /\ \A x \in Writers : pc[x] = "destroyed" /\ val[x] = val[w] => x = w

Inv == ShapeInv /\ PlaceInv /\ OrderInv /\ CarryInv /\ GoneInv

-----------------------------------------------------------------------------
(* What the operations on the lists and the buffer do to their elements.   *)

(* Append adds one element at the end.                                     *)
LEMMA ListAppend ==
  ASSUME NEW S, NEW s \in Seq(S), NEW e \in S
  PROVE  /\ Append(s, e) \in Seq(S) /\ Append(s, e) # <<>>
         /\ Len(Append(s, e)) = Len(s) + 1
         /\ \A i \in 1 .. Len(s) : Append(s, e)[i] = s[i]
         /\ Append(s, e)[Len(s) + 1] = e
         /\ \A x : InList(Append(s, e), x) <=> InList(s, x) \/ x = e
         /\ NoDuplicates(s) /\ ~InList(s, e) => NoDuplicates(Append(s, e))
<1> DEFINE t == Append(s, e)
<1>1. /\ t \in Seq(S) /\ t # <<>> /\ Len(t) = Len(s) + 1 /\ Len(s) \in Nat
      /\ \A i \in 1 .. Len(s) : t[i] = s[i]
      /\ t[Len(s) + 1] = e
  OBVIOUS
<1> HIDE DEF t
<1>2. \A x : InList(t, x) <=> InList(s, x) \/ x = e
  BY <1>1 DEF InList
<1>3. NoDuplicates(s) /\ ~InList(s, e) => NoDuplicates(t)
  BY <1>1 DEF InList, NoDuplicates
<1> QED BY <1>1, <1>2, <1>3 DEF t

(* Tail removes the first element.                                         *)
LEMMA ListTail ==
  ASSUME NEW S, NEW s \in Seq(S), s # <<>>
  PROVE  /\ Head(s) \in S /\ Head(s) = s[1] /\ Tail(s) \in Seq(S)
         /\ Len(s) \in Nat /\ Len(s) > 0 /\ Len(Tail(s)) = Len(s) - 1
         /\ \A i \in 1 .. Len(s) - 1 : Tail(s)[i] = s[i + 1]
         /\ \A x : InList(s, x) <=> InList(Tail(s), x) \/ x = Head(s)
         /\ NoDuplicates(s) => NoDuplicates(Tail(s)) /\ ~InList(Tail(s), Head(s))
<1> DEFINE t == Tail(s)
<1>1. /\ t \in Seq(S) /\ Len(t) = Len(s) - 1 /\ Len(s) \in Nat /\ Len(s) > 0
      /\ Head(s) = s[1] /\ Head(s) \in S
      /\ \A i \in 1 .. Len(s) - 1 : t[i] = s[i + 1]
  OBVIOUS
<1> HIDE DEF t
<1>2. \A x : InList(s, x) <=> InList(t, x) \/ x = Head(s)
  <2> TAKE x
  <2>1. ASSUME NEW i \in 1 .. Len(s), s[i] = x PROVE InList(t, x) \/ x = Head(s)
    <3>1. CASE i = 1
      BY <1>1, <2>1, <3>1
    <3>2. CASE i > 1
      <4>1. i - 1 \in 1 .. Len(t) /\ t[i - 1] = x
        BY <1>1, <2>1, <3>2
      <4> QED BY <4>1 DEF InList
    <3> QED BY <1>1, <3>1, <3>2
  <2>2. ASSUME NEW i \in 1 .. Len(t), t[i] = x PROVE InList(s, x)
    <3>1. i + 1 \in 1 .. Len(s) /\ s[i + 1] = x
      BY <1>1, <2>2
    <3> QED BY <3>1 DEF InList
  <2>3. x = Head(s) => InList(s, x)
    BY <1>1 DEF InList
  <2> QED BY <2>1, <2>2, <2>3 DEF InList
<1>3. NoDuplicates(s) => NoDuplicates(t) /\ ~InList(t, Head(s))
  BY <1>1 DEF InList, NoDuplicates
<1> QED BY <1>1, <1>2, <1>3 DEF t

(* RemoveAt removes the k-th element and keeps the order of the others.    *)
LEMMA ListRemoveAt ==
  ASSUME NEW S, NEW s \in Seq(S), NEW k \in 1 .. Len(s)
  PROVE  /\ RemoveAt(s, k) \in Seq(S)
         /\ Len(s) \in Nat /\ Len(RemoveAt(s, k)) = Len(s) - 1
         /\ \A i \in 1 .. Len(s) - 1 :
              RemoveAt(s, k)[i] = IF i < k THEN s[i] ELSE s[i + 1]
         /\ \A x : InList(s, x) <=> InList(RemoveAt(s, k), x) \/ x = s[k]
         /\ NoDuplicates(s) => /\ NoDuplicates(RemoveAt(s, k))
                               /\ ~InList(RemoveAt(s, k), s[k])
<1> DEFINE t == RemoveAt(s, k)
           a == SubSeq(s, 1, k - 1)
           b == SubSeq(s, k + 1, Len(s))
<1>0. Len(s) \in Nat
  OBVIOUS
<1>1. /\ a \in Seq(S) /\ Len(a) = k - 1
      /\ \A i \in 1 .. k - 1 : a[i] = s[i]
  BY <1>0
<1>2. /\ b \in Seq(S) /\ Len(b) = Len(s) - k
      /\ \A i \in 1 .. Len(s) - k : b[i] = s[i + k]
  BY <1>0
<1>3. t = a \o b
  BY DEF RemoveAt
<1> HIDE DEF t, a, b
<1>4. t \in Seq(S) /\ Len(t) = Len(s) - 1
  BY <1>0, <1>1, <1>2, <1>3
<1>5. ASSUME NEW i \in 1 .. Len(s) - 1 PROVE t[i] = IF i < k THEN s[i] ELSE s[i + 1]
  <2>1. t[i] = IF i <= Len(a) THEN a[i] ELSE b[i - Len(a)]
    BY <1>0, <1>1, <1>2, <1>3
  <2>2. CASE i < k
    BY <1>0, <1>1, <2>1, <2>2
  <2>3. CASE ~(i < k)
    <3>1. i - Len(a) \in 1 .. Len(s) - k /\ (i - Len(a)) + k = i + 1 /\ ~(i <= Len(a))
      BY <1>0, <1>1, <2>3
    <3> QED BY <1>2, <2>1, <2>3, <3>1
  <2> QED BY <2>2, <2>3
<1>6. \A x : InList(s, x) <=> InList(t, x) \/ x = s[k]
  <2> TAKE x
  <2>1. ASSUME NEW i \in 1 .. Len(s), s[i] = x PROVE InList(t, x) \/ x = s[k]
    <3>1. CASE i < k
      <4>1. i \in 1 .. Len(t) /\ t[i] = x
        BY <1>0, <1>4, <1>5, <2>1, <3>1
      <4> QED BY <4>1 DEF InList
    <3>2. CASE i > k
      <4>1. i - 1 \in 1 .. Len(t) /\ t[i - 1] = x
        BY <1>0, <1>4, <1>5, <2>1, <3>2
      <4> QED BY <4>1 DEF InList
    <3> QED BY <2>1, <3>1, <3>2
  <2>2. ASSUME NEW i \in 1 .. Len(t), t[i] = x PROVE InList(s, x)
    <3>1. CASE i < k
      <4>1. i \in 1 .. Len(s) /\ s[i] = x
        BY <1>0, <1>4, <1>5, <2>2, <3>1
      <4> QED BY <4>1 DEF InList
    <3>2. CASE ~(i < k)
      <4>1. i + 1 \in 1 .. Len(s) /\ s[i + 1] = x
        BY <1>0, <1>4, <1>5, <2>2, <3>2
      <4> QED BY <4>1 DEF InList
    <3> QED BY <3>1, <3>2
  <2>3. x = s[k] => InList(s, x)
    BY DEF InList
  <2> QED BY <2>1, <2>2, <2>3 DEF InList
<1>7. NoDuplicates(s) => NoDuplicates(t) /\ ~InList(t, s[k])
  <2> DEFINE f(i) == IF i < k THEN i ELSE i + 1
  <2>1. \A i \in 1 .. Len(t) : f(i) \in 1 .. Len(s) /\ f(i) # k /\ t[i] = s[f(i)]
    BY <1>0, <1>4, <1>5
  <2>2. \A i, j \in 1 .. Len(t) : f(i) = f(j) => i = j
    BY <1>0, <1>4
  <2> HIDE DEF f
  <2> QED BY <2>1, <2>2 DEF InList, NoDuplicates
<1> QED BY <1>0, <1>4, <1>5, <1>6, <1>7 DEF t

-----------------------------------------------------------------------------
(* Layer 1: types, and what fits where.                                    *)

Resumes == Seq(Coroutines \X (WriteNumbers \cup {NoValue}))

(* What a call resumes is a sequence of coroutines with their values.      *)
LEMMA TwoResumes ==
  ASSUME NEW a \in Coroutines, NEW b \in Coroutines,
         NEW u \in WriteNumbers \cup {NoValue}, NEW v \in WriteNumbers \cup {NoValue}
  PROVE  /\ << <<a, u>> >> \in Resumes /\ << <<a, u>>, <<b, v>> >> \in Resumes
         /\ <<>> \in Resumes
<1>1. /\ <<a, u>> \in Coroutines \X (WriteNumbers \cup {NoValue})
      /\ <<b, v>> \in Coroutines \X (WriteNumbers \cup {NoValue})
  OBVIOUS
<1> QED BY <1>1 DEF Resumes

(* What a call that suspends c leaves behind, whatever else it does.       *)
LEMMA SuspendTypes ==
  ASSUME ChannelTypeOK, NEW c \in Coroutines, NEW rs \in Resumes, Suspend(c, rs)
  PROVE  /\ pc' \in [Coroutines -> PCs] /\ wake' \in [Coroutines -> Resumes]
         /\ active' \in BOOLEAN /\ cleaned' \in BOOLEAN
         /\ buffer_capacity' \in Capacities /\ received' \in [WriteNumbers -> Nat]
         /\ active = TRUE /\ active' = TRUE /\ cleaned' = cleaned
         /\ pc[c] = "suspending" /\ pc'[c] = "suspended" /\ wake'[c] = rs
         /\ \A x \in Coroutines : x # c => pc'[x] = pc[x] /\ wake'[x] = wake[x]
<1>1. active' \in BOOLEAN /\ cleaned' \in BOOLEAN /\ active = TRUE /\ active' = TRUE
  BY DEF ChannelTypeOK, Suspend
<1>2. pc' \in [Coroutines -> PCs] /\ wake' \in [Coroutines -> Resumes]
  BY DEF ChannelTypeOK, Suspend, Resumes, PCs
<1> QED BY <1>1, <1>2 DEF ChannelTypeOK, Suspend, Resumes

(* The value a write gets.                                                 *)
LEMMA AcceptTypes ==
  ASSUME ChannelTypeOK, NEW c \in Coroutines, Accept(c)
  PROVE  /\ c \in Writers /\ writes + 1 \in WriteNumbers /\ writes' \in 0 .. MaxWrites
         /\ writes' = writes + 1
         /\ val' \in [Coroutines -> WriteNumbers \cup {NoValue}] /\ val'[c] = writes + 1
         /\ \A x \in Coroutines : x # c => val'[x] = val[x]
<1>1. writes + 1 \in WriteNumbers /\ writes' \in 0 .. MaxWrites
  BY ChannelAssumption DEF ChannelTypeOK, Accept, WriteNumbers
<1> QED BY <1>1 DEF ChannelTypeOK, Accept

(* The value a reader gets.                                                *)
LEMMA FetchTypes ==
  ASSUME ChannelTypeOK, NEW c \in Coroutines, NEW v \in WriteNumbers, Fetch(c, v)
  PROVE  /\ c \in Readers /\ handed' = v /\ handed' \in 0 .. MaxWrites
         /\ val' \in [Coroutines -> WriteNumbers \cup {NoValue}]
         /\ \A x \in Coroutines : x # c => val'[x] = val[x]
         /\ writes' \in 0 .. MaxWrites
<1>1. v \in 0 .. MaxWrites
  BY ChannelAssumption DEF WriteNumbers
<1> QED BY <1>1 DEF ChannelTypeOK, Fetch

(* The writer that waits longest has a value.                              *)
LEMMA HeadWriter ==
  ASSUME ChannelTypeOK, OrderInv, writer_list # <<>>
  PROVE  /\ Head(writer_list) \in Writers /\ Head(writer_list) \in Coroutines
         /\ val[Head(writer_list)] \in WriteNumbers
<1>1. /\ Head(writer_list) = writer_list[1] /\ Head(writer_list) \in Writers
      /\ 1 \in 1 .. Len(writer_list)
  BY ListTail DEF ChannelTypeOK
<1>2. handed < val[writer_list[1]]
  BY <1>1 DEF OrderInv
<1> QED BY <1>1, <1>2, ChannelAssumption DEF ChannelTypeOK, WriteNumbers, NoValue, Coroutines

(* Every step keeps the types and NoNeedlessWait.                          *)
LEMMA ShapeStep ==
  ASSUME ShapeInv, OrderInv, ChannelNext
  PROVE  ShapeInv'
<1>0. /\ ChannelTypeOK /\ (cleaned => ~active) /\ NoNeedlessWait
      /\ buffer \in Seq(WriteNumbers) /\ writer_list \in Seq(Writers)
      /\ reader_list \in Seq(Readers) /\ buffer_capacity \in Nat
      /\ Len(buffer) \in Nat
  BY ChannelAssumption DEF ShapeInv, ChannelTypeOK
<1>1. ASSUME NEW c \in Coroutines, Enter(c) \/ PushToClosed(c) PROVE ShapeInv'
  <2>1. pc' \in [Coroutines -> PCs] /\ UNCHANGED <<channel, val, wake, calls>>
    BY <1>0, <1>1 DEF Enter, PushToClosed, ChannelTypeOK, PCs
  <2> QED BY <1>0, <2>1 DEF ShapeInv, ChannelTypeOK, NoNeedlessWait, channel, calls
<1>2. ASSUME NEW c \in Coroutines, WriteToReader(c) PROVE ShapeInv'
  <2> DEFINE rs == << <<Head(reader_list), writes + 1>>, <<c, NoValue>> >>
  <2>1. Accept(c) /\ Suspend(c, rs) /\ reader_list # <<>>
    BY <1>2 DEF WriteToReader
  <2>2. /\ Tail(reader_list) \in Seq(Readers) /\ Head(reader_list) \in Coroutines
    BY <1>0, <2>1, ListTail DEF Coroutines
  <2>3. rs \in Resumes
    BY <1>0, <2>1, <2>2, TwoResumes, AcceptTypes
  <2> HIDE DEF rs
  <2>4. ChannelTypeOK'
    <3>1. writes + 1 \in 0 .. MaxWrites
      BY <1>0, <2>1, AcceptTypes
    <3> QED BY <1>0, <1>2, <2>1, <2>2, <2>3, <3>1, SuspendTypes, AcceptTypes
            DEF WriteToReader, ChannelTypeOK, Resumes
  <2> QED BY <1>0, <1>2, <2>1, <2>3, <2>4, SuspendTypes
          DEF WriteToReader, ShapeInv, NoNeedlessWait, Suspend
<1>3. ASSUME NEW c \in Coroutines, WriteToBuffer(c) PROVE ShapeInv'
  <2> DEFINE rs == << <<c, NoValue>> >>
  <2>1. Accept(c) /\ Suspend(c, rs) /\ rs \in Resumes
    BY <1>3, TwoResumes DEF WriteToBuffer
  <2> HIDE DEF rs
  <2>2. /\ buffer' \in Seq(WriteNumbers) /\ Len(buffer') = Len(buffer) + 1
    BY <1>0, <1>3, <2>1, AcceptTypes, ListAppend DEF WriteToBuffer
  <2>3. ChannelTypeOK'
    BY <1>0, <1>3, <2>1, <2>2, SuspendTypes, AcceptTypes DEF WriteToBuffer, ChannelTypeOK, Resumes
  <2> QED BY <1>0, <1>3, <2>1, <2>2, <2>3, SuspendTypes
          DEF WriteToBuffer, ShapeInv, NoNeedlessWait, Suspend
<1>4. ASSUME NEW c \in Coroutines, WriteWaits(c) PROVE ShapeInv'
  <2>1. Accept(c) /\ Suspend(c, <<>>) /\ <<>> \in Resumes
    BY <1>4, TwoResumes DEF WriteWaits, Resumes
  <2>2. writer_list' \in Seq(Writers)
    BY <1>0, <1>4, <2>1, AcceptTypes, ListAppend DEF WriteWaits
  <2>3. ChannelTypeOK'
    BY <1>0, <1>4, <2>1, <2>2, SuspendTypes, AcceptTypes DEF WriteWaits, ChannelTypeOK, Resumes
  <2> QED BY <1>0, <1>4, <2>1, <2>2, <2>3, SuspendTypes
          DEF WriteWaits, ShapeInv, NoNeedlessWait, Suspend
<1>5. ASSUME NEW c \in Coroutines, ReadBuffer(c) PROVE ShapeInv'
  <2> DEFINE rs == << <<c, Head(buffer)>> >>
  <2>1. Fetch(c, Head(buffer)) /\ Suspend(c, rs) /\ buffer # <<>>
    BY <1>5 DEF ReadBuffer
  <2>2. /\ Head(buffer) \in WriteNumbers /\ Tail(buffer) \in Seq(WriteNumbers)
        /\ Len(Tail(buffer)) = Len(buffer) - 1
    BY <1>0, <2>1, ListTail
  <2>3. rs \in Resumes
    BY <2>2, TwoResumes
  <2> HIDE DEF rs
  <2>4. ChannelTypeOK'
    BY <1>0, <1>5, <2>1, <2>2, <2>3, SuspendTypes, FetchTypes
       DEF ReadBuffer, Fetch, ChannelTypeOK, Resumes
  <2> QED BY <1>0, <1>5, <2>1, <2>2, <2>3, <2>4, SuspendTypes
          DEF ReadBuffer, Fetch, ShapeInv, NoNeedlessWait, Suspend
<1>6. ASSUME NEW c \in Coroutines, ReadAndRefill(c) PROVE ShapeInv'
  <2> DEFINE rs == << <<Head(writer_list), NoValue>>, <<c, Head(buffer)>> >>
  <2>1. Fetch(c, Head(buffer)) /\ Suspend(c, rs) /\ buffer # <<>> /\ writer_list # <<>>
    BY <1>6 DEF ReadAndRefill
  <2>2. /\ Head(buffer) \in WriteNumbers /\ Tail(buffer) \in Seq(WriteNumbers)
        /\ Len(Tail(buffer)) = Len(buffer) - 1 /\ Tail(writer_list) \in Seq(Writers)
    BY <1>0, <2>1, ListTail
  <2>3. rs \in Resumes
    BY <1>0, <2>1, <2>2, TwoResumes, HeadWriter
  <2> HIDE DEF rs
  <2>4. buffer' \in Seq(WriteNumbers) /\ Len(buffer') = Len(buffer)
    BY <1>0, <1>6, <2>1, <2>2, ListAppend, HeadWriter DEF ReadAndRefill
  <2>5. ChannelTypeOK'
    BY <1>0, <1>6, <2>1, <2>2, <2>3, <2>4, SuspendTypes, FetchTypes
       DEF ReadAndRefill, Fetch, ChannelTypeOK, Resumes
  <2> QED BY <1>0, <1>6, <2>1, <2>2, <2>3, <2>4, <2>5, SuspendTypes
          DEF ReadAndRefill, Fetch, ShapeInv, NoNeedlessWait, Suspend
<1>7. ASSUME NEW c \in Coroutines, ReadFromWriter(c) PROVE ShapeInv'
  <2> DEFINE v  == val[Head(writer_list)]
             rs == << <<c, v>>, <<Head(writer_list), NoValue>> >>
  <2>1. Fetch(c, v) /\ Suspend(c, rs) /\ writer_list # <<>>
    BY <1>7 DEF ReadFromWriter
  <2>2. Tail(writer_list) \in Seq(Writers) /\ v \in WriteNumbers
    BY <1>0, <2>1, ListTail, HeadWriter
  <2>3. rs \in Resumes
    BY <1>0, <2>1, <2>2, TwoResumes, HeadWriter
  <2> HIDE DEF rs, v
  <2>4. ChannelTypeOK'
    BY <1>0, <1>7, <2>1, <2>2, <2>3, SuspendTypes, FetchTypes
       DEF ReadFromWriter, Fetch, ChannelTypeOK, Resumes
  <2> QED BY <1>0, <1>7, <2>1, <2>3, <2>4, SuspendTypes
          DEF ReadFromWriter, Fetch, ShapeInv, NoNeedlessWait, Suspend
<1>8. ASSUME NEW c \in Coroutines, ReadWaits(c) PROVE ShapeInv'
  <2>1. Suspend(c, <<>>) /\ <<>> \in Resumes
    BY <1>8, TwoResumes DEF ReadWaits, Resumes
  <2>2. reader_list' \in Seq(Readers)
    BY <1>0, <1>8, ListAppend DEF ReadWaits
  <2>3. ChannelTypeOK'
    BY <1>0, <1>8, <2>1, <2>2, SuspendTypes DEF ReadWaits, ChannelTypeOK, Resumes
  <2> QED BY <1>0, <1>8, <2>1, <2>2, <2>3, SuspendTypes
          DEF ReadWaits, ShapeInv, NoNeedlessWait, Suspend
<1>9. ASSUME NEW c \in Coroutines, Resume(c) PROVE ShapeInv'
  <2>1. /\ Head(wake[c]) \in Coroutines \X (WriteNumbers \cup {NoValue})
        /\ Tail(wake[c]) \in Resumes
    BY <1>0, <1>9, ListTail DEF Resume, ChannelTypeOK, Resumes
  <2>2. wake' \in [Coroutines -> Resumes]
    BY <1>0, <1>9, <2>1 DEF Resume, ChannelTypeOK, Resumes
  <2>3. pc' \in [Coroutines -> PCs] /\ val' \in [Coroutines -> WriteNumbers \cup {NoValue}]
    BY <1>0, <1>9, <2>1 DEF Resume, ChannelTypeOK, PCs
  <2> QED BY <1>0, <1>9, <2>2, <2>3
          DEF Resume, channel, calls, ShapeInv, ChannelTypeOK, NoNeedlessWait, Resumes
<1>10. ASSUME NEW c \in Coroutines, Continue(c) PROVE ShapeInv'
  <2>1. received' \in [WriteNumbers -> Nat]
    <3>1. CASE active /\ c \in Readers
      <4>1. received' = [received EXCEPT ![val[c]] = @ + 1] /\ received \in [WriteNumbers -> Nat]
        BY <1>0, <1>10, <3>1 DEF Continue, ChannelTypeOK
      <4>2. received' = [v \in WriteNumbers |-> IF v = val[c] THEN received[v] + 1 ELSE received[v]]
        BY <4>1
      <4>3. \A v \in WriteNumbers : received[v] \in Nat
        BY <4>1
      <4> QED BY <4>2, <4>3
    <3>2. CASE ~(active /\ c \in Readers)
      <4>1. received' = received
        BY <1>10, <3>2 DEF Continue
      <4> QED BY <1>0, <4>1 DEF ChannelTypeOK
    <3> QED BY <3>1, <3>2
  <2>2. pc' \in [Coroutines -> PCs]
    BY <1>0, <1>10 DEF Continue, ChannelTypeOK, PCs
  <2> QED BY <1>0, <1>10, <2>1, <2>2
          DEF Continue, channel, ShapeInv, ChannelTypeOK, NoNeedlessWait
<1>11. ASSUME NEW c \in Coroutines, Destroy(c) PROVE ShapeInv'
  <2>1. /\ pc' \in [Coroutines -> PCs]
        /\ UNCHANGED <<active, cleaned, buffer_capacity, buffer, val, wake, calls>>
    BY <1>0, <1>11 DEF Destroy, ChannelTypeOK, PCs
  <2>2. /\ writer_list' \in Seq(Writers) /\ (writer_list = <<>> => writer_list' = <<>>)
        /\ reader_list' \in Seq(Readers) /\ (reader_list = <<>> => reader_list' = <<>>)
    <3>1. CASE \E i \in 1 .. Len(writer_list) :
                 /\ writer_list' = RemoveAt(writer_list, i)
                 /\ UNCHANGED reader_list
      BY <1>0, <3>1, ListRemoveAt
    <3>2. CASE \E i \in 1 .. Len(reader_list) :
                 /\ reader_list' = RemoveAt(reader_list, i)
                 /\ UNCHANGED writer_list
      BY <1>0, <3>2, ListRemoveAt
    <3> QED BY <1>11, <3>1, <3>2 DEF Destroy
  <2> QED BY <1>0, <2>1, <2>2 DEF calls, ShapeInv, ChannelTypeOK, NoNeedlessWait
<1>12. CASE Close
  BY <1>0, <1>12 DEF Close, calls, ShapeInv, ChannelTypeOK, NoNeedlessWait
<1>13. CASE clean_up
  <2>1. ChannelTypeOK'
    <3>1. pc' \in [Coroutines -> PCs]
      BY <1>0, <1>13 DEF clean_up, ChannelTypeOK, PCs
    <3> QED BY <1>0, <1>13, <3>1 DEF clean_up, calls, ChannelTypeOK
  <2> QED BY <1>0, <1>13, <2>1 DEF clean_up, ShapeInv, NoNeedlessWait
<1> QED BY <1>1, <1>2, <1>3, <1>4, <1>5, <1>6, <1>7, <1>8, <1>9, <1>10, <1>11,
           <1>12, <1>13 DEF ChannelNext, Step, try_push_writer, try_push_reader

-----------------------------------------------------------------------------
(* Layer 2: the order of the values in the channel.                        *)

(* A listed writer is suspended, so a call of another coroutine leaves its *)
(* value alone.                                                            *)
LEMMA ListedWriters ==
  ASSUME ShapeInv, NoneStranded
  PROVE  \A i \in 1 .. Len(writer_list) :
           /\ writer_list[i] \in Writers /\ writer_list[i] \in Coroutines
           /\ writer_list[i] \notin Readers
           /\ pc[writer_list[i]] = "suspended" /\ val[writer_list[i]] \in Nat
<1>1. \A i \in 1 .. Len(writer_list) :
        writer_list[i] \in Writers /\ Waiting(writer_list[i])
  BY DEF ShapeInv, ChannelTypeOK, Waiting
<1>2. \A c \in Coroutines : val[c] \in Nat
  BY ChannelAssumption DEF ShapeInv, ChannelTypeOK, WriteNumbers, NoValue
<1> QED BY <1>1, <1>2, ChannelAssumption DEF NoneStranded, Coroutines

(* Steps that move no value keep the order.                                *)
LEMMA OrderKept ==
  ASSUME ShapeInv, NoneStranded, OrderInv,
         UNCHANGED <<buffer, writer_list, handed, writes>>,
         \A i \in 1 .. Len(writer_list) : val'[writer_list[i]] = val[writer_list[i]]
  PROVE  OrderInv'
BY DEF OrderInv

(* The same order for any two sequences b and w of length m and n, and     *)
(* what pushing, popping and removing do to it.                            *)
Ordered(b, m, w, n, h, k) ==
  /\ h <= k
  /\ \A i \in 1 .. m : b[i] \in Nat /\ h < b[i] /\ b[i] <= k
  /\ \A i \in 1 .. n : w[i] \in Nat /\ h < w[i] /\ w[i] <= k
  /\ \A i, j \in 1 .. m : i < j => b[i] < b[j]
  /\ \A i, j \in 1 .. n : i < j => w[i] < w[j]
  /\ \A i \in 1 .. m, j \in 1 .. n : b[i] < w[j]

(* A value larger than all comes last.                                     *)
LEMMA OrderedPush ==
  ASSUME NEW b, NEW m \in Nat, NEW w, NEW n \in Nat, NEW h \in Nat, NEW k \in Nat,
         Ordered(b, m, w, n, h, k), NEW u,
         \A i \in 1 .. n : u[i] = w[i], u[n + 1] = k + 1
  PROVE  Ordered(b, m, u, n + 1, h, k + 1)
<1>1. \A i \in 1 .. n + 1 : i \in 1 .. n \/ i = n + 1
  OBVIOUS
<1> QED BY <1>1 DEF Ordered

(* Reading the oldest value and moving the oldest writer's into the        *)
(* buffer.                                                                 *)
LEMMA OrderedRefill ==
  ASSUME NEW b, NEW m \in Nat, NEW w, NEW n \in Nat, NEW h \in Nat, NEW k \in Nat,
         Ordered(b, m, w, n, h, k), NEW a, NEW u, m > 0, n > 0,
         \A i \in 1 .. m - 1 : a[i] = b[i + 1], a[m] = w[1],
         \A i \in 1 .. n - 1 : u[i] = w[i + 1]
  PROVE  Ordered(a, m, u, n - 1, b[1], k)
<1>1. /\ \A i \in 1 .. m : i \in 1 .. m - 1 \/ i = m
      /\ \A i \in 1 .. m - 1 : i + 1 \in 1 .. m /\ 1 < i + 1
      /\ \A i \in 1 .. n - 1 : i + 1 \in 1 .. n /\ 1 < i + 1
      /\ 1 \in 1 .. m /\ 1 \in 1 .. n
  OBVIOUS
<1>2. \A i \in 1 .. m : b[1] < a[i] /\ a[i] \in Nat /\ a[i] <= k
  BY <1>1 DEF Ordered
<1>3. \A i \in 1 .. n - 1 : b[1] < u[i] /\ u[i] \in Nat /\ u[i] <= k
  BY <1>1 DEF Ordered
<1>4. \A i, j \in 1 .. m : i < j => a[i] < a[j]
  BY <1>1 DEF Ordered
<1>5. \A i, j \in 1 .. n - 1 : i < j => u[i] < u[j]
  BY <1>1 DEF Ordered
<1>6. \A i \in 1 .. m, j \in 1 .. n - 1 : a[i] < u[j]
  BY <1>1 DEF Ordered
<1>7. b[1] <= k
  BY <1>1 DEF Ordered
<1> QED BY <1>2, <1>3, <1>4, <1>5, <1>6, <1>7 DEF Ordered

(* Reading from the writer that waits longest, past an empty buffer.       *)
LEMMA OrderedPop ==
  ASSUME NEW b, NEW w, NEW n \in Nat, NEW h \in Nat, NEW k \in Nat,
         Ordered(b, 0, w, n, h, k), NEW u, n > 0,
         \A i \in 1 .. n - 1 : u[i] = w[i + 1]
  PROVE  Ordered(b, 0, u, n - 1, w[1], k)
<1>1. /\ \A i \in 1 .. n - 1 : i + 1 \in 1 .. n /\ 1 < i + 1
      /\ 1 \in 1 .. n
  OBVIOUS
<1> QED BY <1>1 DEF Ordered

(* Destroying any waiting writer.                                          *)
LEMMA OrderedRemove ==
  ASSUME NEW b, NEW m \in Nat, NEW w, NEW n \in Nat, NEW h \in Nat, NEW k \in Nat,
         Ordered(b, m, w, n, h, k), NEW u, NEW r \in 1 .. n,
         \A i \in 1 .. n - 1 : u[i] = IF i < r THEN w[i] ELSE w[i + 1]
  PROVE  Ordered(b, m, u, n - 1, h, k)
<1> DEFINE f(i) == IF i < r THEN i ELSE i + 1
<1>1. \A i \in 1 .. n - 1 : f(i) \in 1 .. n /\ u[i] = w[f(i)]
  OBVIOUS
<1>2. \A i, j \in 1 .. n - 1 : i < j => f(i) < f(j)
  OBVIOUS
<1> HIDE DEF f
<1> QED BY <1>1, <1>2 DEF Ordered

(* Every step keeps the order of the values.                               *)
LEMMA OrderStep ==
  ASSUME ShapeInv, NoneStranded, OrderInv, ChannelNext
  PROVE  OrderInv'
<1>0. /\ ChannelTypeOK /\ NoNeedlessWait
      /\ buffer \in Seq(WriteNumbers) /\ writer_list \in Seq(Writers)
      /\ reader_list \in Seq(Readers) /\ writes \in Nat /\ handed \in Nat
      /\ Len(buffer) \in Nat /\ Len(writer_list) \in Nat
      /\ \A i \in 1 .. Len(buffer) : buffer[i] \in Nat
  BY ChannelAssumption DEF ShapeInv, ChannelTypeOK, WriteNumbers
<1> DEFINE L == Len(writer_list)
           M == Len(buffer)
           W == [i \in 1 .. L |-> val[writer_list[i]]]
           X == [i \in 1 .. Len(writer_list') |-> val'[writer_list'[i]]]
<1>00. \A i \in 1 .. L : /\ writer_list[i] \in Coroutines /\ writer_list[i] \in Writers
                         /\ writer_list[i] \notin Readers
                         /\ pc[writer_list[i]] = "suspended"
                         /\ val[writer_list[i]] \in Nat
  BY ListedWriters
<1>01. Ordered(buffer, M, W, L, handed, writes)
  BY <1>0, <1>00 DEF Ordered, OrderInv
<1>02. Ordered(buffer', Len(buffer'), X, Len(writer_list'), handed', writes') => OrderInv'
  BY DEF Ordered, OrderInv
<1> HIDE DEF W, X
<1>1. ASSUME NEW c \in Coroutines, Enter(c) \/ PushToClosed(c) \/ Continue(c)
      PROVE OrderInv'
  <2>1. UNCHANGED <<buffer, writer_list, handed, writes, val>>
    BY <1>1 DEF Enter, PushToClosed, Continue, channel, calls
  <2> QED BY <2>1, OrderKept
<1>2. ASSUME NEW c \in Coroutines, WriteToReader(c) PROVE OrderInv'
  <2>1. buffer' = <<>> /\ writer_list' = <<>> /\ handed' = writes'
    BY <1>0, <1>2 DEF WriteToReader, NoNeedlessWait, Accept
  <2>2. handed' <= writes'
    BY <1>0, <1>2, <2>1 DEF WriteToReader
  <2> QED BY <2>1, <2>2 DEF OrderInv
<1>3. ASSUME NEW c \in Coroutines, WriteToBuffer(c) PROVE OrderInv'
  <2>1. /\ writer_list = <<>> /\ writer_list' = <<>>
        /\ Accept(c) /\ writes' = writes + 1 /\ handed' = handed
        /\ buffer' = Append(buffer, writes + 1)
    BY <1>0, <1>3 DEF WriteToBuffer, NoNeedlessWait, Accept, ShapeInv, ChannelTypeOK
  <2>2. /\ Len(buffer') = Len(buffer) + 1 /\ buffer'[Len(buffer) + 1] = writes + 1
        /\ \A i \in 1 .. Len(buffer) : buffer'[i] = buffer[i]
    BY <1>0, <2>1, AcceptTypes, ListAppend
  <2> QED BY <1>0, <2>1, <2>2 DEF OrderInv
<1>4. ASSUME NEW c \in Coroutines, WriteWaits(c) PROVE OrderInv'
  <2>1. /\ Accept(c) /\ writes' = writes + 1 /\ UNCHANGED <<handed, buffer>>
        /\ writer_list' = Append(writer_list, c) /\ pc[c] = "suspending"
    BY <1>4 DEF WriteWaits, Accept, Suspend
  <2>2. /\ Len(writer_list') = L + 1 /\ writer_list'[L + 1] = c
        /\ \A i \in 1 .. L : writer_list'[i] = writer_list[i]
    BY <1>0, <2>1, AcceptTypes, ListAppend
  <2>3. /\ val'[writer_list'[L + 1]] = writes + 1
        /\ \A i \in 1 .. L : val'[writer_list'[i]] = val[writer_list[i]]
    BY <1>0, <1>00, <2>1, <2>2, AcceptTypes
  <2>4. X[L + 1] = writes + 1 /\ \A i \in 1 .. L : X[i] = W[i]
    BY <1>0, <2>2, <2>3 DEF X, W
  <2>5. Ordered(buffer, M, X, L + 1, handed, writes + 1)
    BY <1>0, <1>01, <2>4, OrderedPush
  <2> QED BY <1>02, <2>1, <2>2, <2>5
<1>5. ASSUME NEW c \in Coroutines, ReadBuffer(c) PROVE OrderInv'
  <2>1. /\ writer_list' = <<>> /\ buffer # <<>>
        /\ buffer' = Tail(buffer) /\ handed' = Head(buffer) /\ writes' = writes
    BY <1>5 DEF ReadBuffer, Fetch
  <2>2. /\ Len(buffer') = Len(buffer) - 1 /\ handed' = buffer[1] /\ Len(buffer) > 0
        /\ \A i \in 1 .. Len(buffer') : buffer'[i] = buffer[i + 1]
    BY <1>0, <2>1, ListTail
  <2> QED BY <1>0, <2>1, <2>2 DEF OrderInv
<1>6. ASSUME NEW c \in Coroutines, ReadAndRefill(c) PROVE OrderInv'
  <2>1. /\ buffer # <<>> /\ writer_list # <<>> /\ writes' = writes
        /\ Fetch(c, Head(buffer)) /\ handed' = Head(buffer)
        /\ buffer' = Append(Tail(buffer), val[Head(writer_list)])
        /\ writer_list' = Tail(writer_list) /\ pc[c] = "suspending"
    BY <1>6 DEF ReadAndRefill, Fetch, Suspend
  <2>2. /\ Head(buffer) \in WriteNumbers /\ handed' = buffer[1] /\ Len(buffer) > 0
        /\ Tail(buffer) \in Seq(WriteNumbers) /\ Len(Tail(buffer)) = Len(buffer) - 1
        /\ \A i \in 1 .. Len(buffer) - 1 : Tail(buffer)[i] = buffer[i + 1]
    BY <1>0, <2>1, ListTail
  <2>3. /\ Head(writer_list) = writer_list[1] /\ L > 0 /\ Len(writer_list') = L - 1
        /\ \A i \in 1 .. L - 1 : writer_list'[i] = writer_list[i + 1]
    BY <1>0, <2>1, ListTail
  <2>4. /\ Len(buffer') = Len(buffer) /\ buffer'[Len(buffer)] = val[writer_list[1]]
        /\ \A i \in 1 .. Len(buffer) - 1 : buffer'[i] = buffer[i + 1]
    <3>1. val[Head(writer_list)] \in WriteNumbers
      BY <1>0, <2>1, HeadWriter
    <3>2. (Len(buffer) - 1) + 1 = Len(buffer)
      BY <1>0
    <3> QED BY <2>1, <2>2, <2>3, <3>1, <3>2, ListAppend
  <2>5. \A i \in 1 .. L - 1 : val'[writer_list'[i]] = val[writer_list[i + 1]]
    <3>1. \A i \in 1 .. L - 1 : i + 1 \in 1 .. L
      BY <1>0
    <3> QED BY <1>0, <1>00, <2>1, <2>2, <2>3, <3>1, FetchTypes
  <2>6. W[1] = val[writer_list[1]] /\ \A i \in 1 .. L - 1 : X[i] = W[i + 1]
    BY <1>0, <2>3, <2>5 DEF X, W
  <2>7. Ordered(buffer', M, X, L - 1, buffer[1], writes)
    BY <1>0, <1>01, <2>2, <2>3, <2>4, <2>6, OrderedRefill
  <2> QED BY <1>02, <2>1, <2>2, <2>3, <2>4, <2>7
<1>7. ASSUME NEW c \in Coroutines, ReadFromWriter(c) PROVE OrderInv'
  <2>1. /\ buffer' = <<>> /\ writer_list # <<>> /\ writes' = writes
        /\ Fetch(c, val[Head(writer_list)]) /\ handed' = val[Head(writer_list)]
        /\ writer_list' = Tail(writer_list) /\ pc[c] = "suspending"
    BY <1>7 DEF ReadFromWriter, Fetch, Suspend
  <2>2. /\ Head(writer_list) = writer_list[1] /\ L > 0 /\ Len(writer_list') = L - 1
        /\ \A i \in 1 .. L - 1 : writer_list'[i] = writer_list[i + 1]
    BY <1>0, <2>1, ListTail
  <2>3. \A i \in 1 .. L - 1 : val'[writer_list'[i]] = val[writer_list[i + 1]]
    <3>1. \A i \in 1 .. L - 1 : i + 1 \in 1 .. L
      BY <1>0
    <3>2. val[Head(writer_list)] \in WriteNumbers
      BY <1>0, <2>1, HeadWriter
    <3> QED BY <1>0, <1>00, <2>1, <2>2, <3>1, <3>2, FetchTypes
  <2>4. W[1] = val[writer_list[1]] /\ \A i \in 1 .. L - 1 : X[i] = W[i + 1]
    BY <1>0, <2>2, <2>3 DEF X, W
  <2>5. buffer = <<>> /\ Len(buffer') = 0
    BY <1>7, <2>1 DEF ReadFromWriter
  <2>6. Ordered(buffer, 0, W, L, handed, writes)
    BY <1>01, <2>5
  <2>7. Ordered(buffer, 0, X, L - 1, val[writer_list[1]], writes)
    BY <1>0, <2>2, <2>4, <2>6, OrderedPop
  <2> QED BY <1>02, <2>1, <2>2, <2>5, <2>7
<1>8. ASSUME NEW c \in Coroutines, ReadWaits(c) PROVE OrderInv'
  <2>1. /\ UNCHANGED <<buffer, writer_list, handed, writes>>
        /\ val' = [val EXCEPT ![c] = NoValue] /\ pc[c] = "suspending"
    BY <1>8 DEF ReadWaits, Suspend
  <2>2. \A i \in 1 .. L : val'[writer_list[i]] = val[writer_list[i]]
    BY <1>0, <1>00, <2>1 DEF ChannelTypeOK
  <2> QED BY <2>1, <2>2, OrderKept
<1>9. ASSUME NEW c \in Coroutines, Resume(c) PROVE OrderInv'
  <2>1. /\ UNCHANGED <<buffer, writer_list, handed, writes>>
        /\ \A w \in Coroutines : w \notin Readers => val'[w] = val[w]
    <3>1. PICK w \in Coroutines, v \in WriteNumbers \cup {NoValue} : Head(wake[c]) = <<w, v>>
      BY <1>0, <1>9, ListTail DEF Resume, ChannelTypeOK
    <3>2. Head(wake[c])[1] = w /\ Head(wake[c])[2] = v
      BY <3>1
    <3>3. val' = val \/ (w \in Readers /\ val' = [val EXCEPT ![w] = v])
      BY <1>9, <3>2 DEF Resume
    <3> QED BY <1>0, <1>9, <3>1, <3>3 DEF Resume, channel, calls, ChannelTypeOK
  <2> QED BY <1>00, <2>1, OrderKept
<1>10. ASSUME NEW c \in Coroutines, Destroy(c) PROVE OrderInv'
  <2>1. UNCHANGED <<buffer, handed, writes, val>>
    BY <1>10 DEF Destroy, calls
  <2>2. CASE UNCHANGED writer_list
    BY <2>1, <2>2, OrderKept
  <2>3. ASSUME NEW k \in 1 .. L, writer_list' = RemoveAt(writer_list, k)
        PROVE  OrderInv'
    <3>1. /\ Len(writer_list') = L - 1
          /\ \A i \in 1 .. L - 1 :
               writer_list'[i] = IF i < k THEN writer_list[i] ELSE writer_list[i + 1]
      <4>1. writer_list \in Seq(Writers) /\ k \in 1 .. Len(writer_list)
        BY <1>0
      <4> QED BY ONLY <2>3, <4>1, ListRemoveAt
    <3>2. \A i \in 1 .. L - 1 : X[i] = IF i < k THEN W[i] ELSE W[i + 1]
      <4> SUFFICES ASSUME NEW i \in 1 .. L - 1
                   PROVE  X[i] = IF i < k THEN W[i] ELSE W[i + 1]
        OBVIOUS
      <4>1. i \in 1 .. Len(writer_list') /\ i \in 1 .. L /\ i + 1 \in 1 .. L
        BY <1>0, <3>1
      <4>2. /\ X[i] = val[writer_list'[i]] /\ W[i] = val[writer_list[i]]
            /\ W[i + 1] = val[writer_list[i + 1]]
        BY <2>1, <4>1 DEF X, W
      <4> QED BY <3>1, <4>2
    <3>3. Ordered(buffer, M, X, L - 1, handed, writes)
      BY <1>0, <1>01, <3>2, OrderedRemove
    <3> QED BY <1>02, <2>1, <3>1, <3>3
  <2> QED BY <1>10, <2>2, <2>3 DEF Destroy
<1>11. CASE clean_up
  <2>1. buffer' = <<>> /\ writer_list' = <<>> /\ UNCHANGED <<handed, writes>>
    BY <1>11 DEF clean_up, calls
  <2> QED BY <2>1 DEF OrderInv
<1>12. CASE Close
  <2>1. UNCHANGED <<buffer, writer_list, handed, writes, val>>
    BY <1>12 DEF Close, calls
  <2> QED BY <2>1, OrderKept
<1> QED BY <1>1, <1>2, <1>3, <1>4, <1>5, <1>6, <1>7, <1>8, <1>9, <1>10, <1>11,
           <1>12 DEF ChannelNext, Step, try_push_writer, try_push_reader

-----------------------------------------------------------------------------
(* Layer 3: who waits where, and who resumes whom.                         *)

(* Waiting in terms of the two lists.                                      *)
LEMMA WaitingInLists ==
  \A c : Waiting(c) <=> InList(writer_list, c) \/ InList(reader_list, c)
BY DEF Waiting, InList

(* Who is resumed is resumed with some value.                              *)
LEMMA WokenIsWakes ==
  ASSUME ChannelTypeOK
  PROVE  \A c \in Coroutines : Woken(c) <=> \E v \in WriteNumbers \cup {NoValue} : Wakes(c, v)
<1>1. ASSUME NEW d \in Coroutines, NEW i \in 1 .. Len(wake[d])
      PROVE  \E c \in Coroutines, v \in WriteNumbers \cup {NoValue} :
                wake[d][i] = <<c, v>> /\ wake[d][i][1] = c /\ wake[d][i][2] = v
  <2>1. wake[d][i] \in Coroutines \X (WriteNumbers \cup {NoValue})
    BY DEF ChannelTypeOK
  <2> QED BY <2>1
<1>2. ASSUME NEW c \in Coroutines, Woken(c)
      PROVE  \E v \in WriteNumbers \cup {NoValue} : Wakes(c, v)
  <2>1. PICK d \in Coroutines : \E i \in 1 .. Len(wake[d]) : wake[d][i][1] = c
    BY <1>2 DEF Woken
  <2>2. PICK i \in 1 .. Len(wake[d]) : wake[d][i][1] = c
    BY <2>1
  <2>3. PICK v \in WriteNumbers \cup {NoValue} : wake[d][i] = <<c, v>>
    BY <1>1, <2>2
  <2> QED BY <2>3 DEF Wakes
<1>3. ASSUME NEW c \in Coroutines, NEW v, Wakes(c, v) PROVE Woken(c)
  <2>1. PICK d \in Coroutines : \E i \in 1 .. Len(wake[d]) : wake[d][i] = <<c, v>>
    BY <1>3 DEF Wakes
  <2>2. \E i \in 1 .. Len(wake[d]) : wake[d][i][1] = c
    BY <2>1
  <2> QED BY <2>2 DEF Woken
<1> QED BY <1>2, <1>3

(* A call that suspends its coroutine adds its resumes to those pending.   *)
Targets(rs, x) == \E i \in 1 .. Len(rs) : rs[i][1] = x

(* Its resumes join those pending; nobody is resumed twice.                *)
LEMMA SuspendWakes ==
  ASSUME ChannelTypeOK, WakeOnce, NEW c \in Coroutines, NEW rs \in Resumes,
         wake[c] = <<>>, Suspend(c, rs),
         \A i, j \in 1 .. Len(rs) : rs[i][1] = rs[j][1] => i = j,
         \A i \in 1 .. Len(rs) : ~Woken(rs[i][1])
  PROVE  /\ WakeOnce'
         /\ \A x, v : Wakes(x, v)' <=> Wakes(x, v) \/ InList(rs, <<x, v>>)
         /\ \A x : Woken(x)' <=> Woken(x) \/ Targets(rs, x)
<1>1. /\ wake'[c] = rs /\ \A x \in Coroutines : x # c => wake'[x] = wake[x]
      /\ Len(wake[c]) = 0
  BY SuspendTypes
<1>2. ASSUME NEW x, NEW v PROVE Wakes(x, v)' <=> Wakes(x, v) \/ InList(rs, <<x, v>>)
  <2>1. ASSUME NEW d \in Coroutines, NEW i \in 1 .. Len(wake'[d]), wake'[d][i] = <<x, v>>
        PROVE  Wakes(x, v) \/ InList(rs, <<x, v>>)
    BY <1>1, <2>1 DEF Wakes, InList
  <2>2. ASSUME NEW d \in Coroutines, NEW i \in 1 .. Len(wake[d]), wake[d][i] = <<x, v>>
        PROVE  Wakes(x, v)'
    <3>1. d # c /\ wake'[d] = wake[d]
      BY <1>1, <2>2
    <3> QED BY <2>2, <3>1 DEF Wakes
  <2>3. InList(rs, <<x, v>>) => Wakes(x, v)'
    BY <1>1 DEF Wakes, InList
  <2> QED BY <2>1, <2>2, <2>3 DEF Wakes
<1>3. ASSUME NEW x PROVE Woken(x)' <=> Woken(x) \/ Targets(rs, x)
  BY <1>1 DEF Woken, Targets
<1>4. WakeOnce'
  <2> SUFFICES ASSUME NEW d \in Coroutines, NEW e \in Coroutines,
                      NEW i \in 1 .. Len(wake'[d]), NEW j \in 1 .. Len(wake'[e]),
                      wake'[d][i][1] = wake'[e][j][1]
               PROVE  d = e /\ i = j
    BY DEF WakeOnce
  <2>1. CASE d = c /\ e = c
    BY <1>1, <2>1
  <2>2. CASE d # c /\ e # c
    BY <1>1, <2>2 DEF WakeOnce
  <2>3. CASE d = c /\ e # c
    BY <1>1, <2>3 DEF Woken
  <2>4. CASE d # c /\ e = c
    BY <1>1, <2>4 DEF Woken
  <2> QED BY <2>1, <2>2, <2>3, <2>4
<1> QED BY <1>2, <1>3, <1>4

(* It keeps everybody in one place if it resumes only itself and those it  *)
(* takes out of a list, and waits itself if it resumes nobody.             *)
LEMMA SuspendPlaces ==
  ASSUME ShapeInv, PlaceInv, NEW c \in Coroutines, NEW rs \in Resumes,
         Suspend(c, rs),
         NoDuplicates(writer_list)', NoDuplicates(reader_list)',
         \A x \in Coroutines :
            Waiting(x)' <=> (Waiting(x) /\ ~Targets(rs, x)) \/ (x = c /\ rs = <<>>),
         rs # <<>> => Targets(rs, c),
         \A i \in 1 .. Len(rs) : rs[i][1] = c \/ Waiting(rs[i][1]),
         \A i, j \in 1 .. Len(rs) : rs[i][1] = rs[j][1] => i = j,
         \A x \in Readers : ~InList(rs, <<x, NoValue>>)
  PROVE  /\ PlaceInv'
         /\ \A x, v : Wakes(x, v)' <=> Wakes(x, v) \/ InList(rs, <<x, v>>)
<1>0. ChannelTypeOK /\ \A i \in 1 .. Len(rs) : rs[i][1] \in Coroutines
  BY DEF ShapeInv, Resumes
<1>1. /\ pc[c] = "suspending" /\ pc'[c] = "suspended" /\ wake'[c] = rs
      /\ \A x \in Coroutines : x # c => pc'[x] = pc[x] /\ wake'[x] = wake[x]
  BY <1>0, SuspendTypes
<1>2. ~Waiting(c) /\ ~Woken(c) /\ wake[c] = <<>>
  BY <1>1 DEF PlaceInv, NoneStranded
<1>3. \A i \in 1 .. Len(rs) : ~Woken(rs[i][1])
  BY <1>0, <1>2 DEF PlaceInv
<1>4. /\ WakeOnce'
      /\ \A x, v : Wakes(x, v)' <=> Wakes(x, v) \/ InList(rs, <<x, v>>)
      /\ \A x : Woken(x)' <=> Woken(x) \/ Targets(rs, x)
  BY <1>0, <1>2, <1>3, SuspendWakes DEF PlaceInv
<1>5. \A x \in Coroutines : Targets(rs, x) => x = c \/ Waiting(x)
  BY DEF Targets
<1>6. ~Targets(<<>>, c)
  BY DEF Targets
<1>7. NoneStranded'
  <2> SUFFICES ASSUME NEW x \in Coroutines
               PROVE  (pc'[x] = "suspended") <=> (Waiting(x)' \/ Woken(x)')
    BY DEF NoneStranded
  <2>1. (pc[x] = "suspended") <=> (Waiting(x) \/ Woken(x))
    BY DEF PlaceInv, NoneStranded
  <2>2. CASE x = c
    BY <1>1, <1>4, <2>2
  <2>3. CASE x # c
    BY <1>1, <1>4, <1>5, <2>1, <2>3
  <2> QED BY <2>2, <2>3
<1>8. ASSUME NEW x \in Coroutines
      PROVE  /\ Waiting(x)' => ~Woken(x)' /\ wake'[x] = <<>>
             /\ wake'[x] # <<>> => pc'[x] \in {"suspended", "resumed"}
             /\ x \in Readers => ~Wakes(x, NoValue)'
  BY <1>1, <1>2, <1>4, <1>6 DEF PlaceInv
<1> QED BY <1>4, <1>7, <1>8 DEF PlaceInv

(* The resumes of a call spelled out.                                      *)
LEMMA OneTarget ==
  ASSUME NEW a, NEW u
  PROVE  LET rs == << <<a, u>> >> IN
         /\ Len(rs) = 1 /\ rs # <<>>
         /\ \A i \in 1 .. Len(rs) : i = 1 /\ rs[i][1] = a
         /\ \A x : Targets(rs, x) <=> x = a
         /\ \A x, v : InList(rs, <<x, v>>) <=> x = a /\ v = u
BY DEF Targets, InList

(* Two resumes of different coroutines.                                    *)
LEMMA TwoTargets ==
  ASSUME NEW a, NEW u, NEW b, NEW w, a # b
  PROVE  LET rs == << <<a, u>>, <<b, w>> >> IN
         /\ Len(rs) = 2 /\ rs # <<>>
         /\ \A i \in 1 .. Len(rs) : rs[i][1] = a \/ rs[i][1] = b
         /\ \A i, j \in 1 .. Len(rs) : rs[i][1] = rs[j][1] => i = j
         /\ \A x : Targets(rs, x) <=> x = a \/ x = b
         /\ \A x, v : InList(rs, <<x, v>>) <=> (x = a /\ v = u) \/ (x = b /\ v = w)
<1> DEFINE rs == << <<a, u>>, <<b, w>> >>
<1>1. /\ Len(rs) = 2 /\ rs[1] = <<a, u>> /\ rs[2] = <<b, w>>
      /\ rs[1][1] = a /\ rs[2][1] = b /\ rs # <<>>
  OBVIOUS
<1> HIDE DEF rs
<1>2. \A i \in 1 .. Len(rs) : i = 1 \/ i = 2
  BY <1>1
<1>3. /\ \A x : Targets(rs, x) <=> x = a \/ x = b
      /\ \A x, v : InList(rs, <<x, v>>) <=> (x = a /\ v = u) \/ (x = b /\ v = w)
  BY <1>1, <1>2 DEF Targets, InList
<1>4. /\ \A i \in 1 .. Len(rs) : rs[i][1] = a \/ rs[i][1] = b
      /\ \A i, j \in 1 .. Len(rs) : rs[i][1] = rs[j][1] => i = j
  BY <1>1, <1>2
<1> QED BY <1>1, <1>3, <1>4 DEF rs

(* A call that resumes nobody.                                             *)
LEMMA NoTarget ==
  /\ <<>> \in Resumes /\ Len(<<>>) = 0
  /\ \A x : ~Targets(<<>>, x) /\ ~InList(<<>>, x)
BY DEF Resumes, Targets, InList

(* A coroutine that calls the channel is in no list.                       *)
LEMMA CallerIsFree ==
  ASSUME ShapeInv, PlaceInv, NEW c \in Coroutines, pc[c] = "suspending"
  PROVE  ~InList(writer_list, c) /\ ~InList(reader_list, c)
BY WaitingInLists DEF PlaceInv, NoneStranded

(* A write to a waiting reader resumes that reader and the writer itself.  *)
LEMMA WriteToReaderPlaces ==
  ASSUME ShapeInv, PlaceInv, NEW c \in Coroutines, WriteToReader(c)
  PROVE  /\ PlaceInv'
         /\ \A x, v : Wakes(x, v)' <=> \/ Wakes(x, v)
                                       \/ x = Head(reader_list) /\ v = writes + 1
                                       \/ x = c /\ v = NoValue
         /\ Head(reader_list) \in Readers
<1> DEFINE h == Head(reader_list)
           rs == << <<h, writes + 1>>, <<c, NoValue>> >>
<1>1. /\ ChannelTypeOK /\ Accept(c) /\ Suspend(c, rs) /\ reader_list # <<>>
      /\ reader_list' = Tail(reader_list) /\ writer_list' = writer_list
      /\ reader_list \in Seq(Readers) /\ pc[c] = "suspending"
  BY DEF WriteToReader, ShapeInv, ChannelTypeOK, Suspend
<1>2. /\ h \in Readers /\ h \in Coroutines /\ c \in Writers /\ c \notin Readers /\ h # c
      /\ writes + 1 \in WriteNumbers /\ writes + 1 # NoValue
  BY <1>1, ListTail, AcceptTypes, ChannelAssumption DEF Coroutines, WriteNumbers, NoValue
<1>3. rs \in Resumes
  BY <1>2, TwoResumes
<1>4. /\ \A x : InList(reader_list, x) <=> InList(reader_list', x) \/ x = h
      /\ NoDuplicates(reader_list') /\ ~InList(reader_list', h)
      /\ NoDuplicates(writer_list')
  BY <1>1, ListTail DEF PlaceInv
<1>5. ~InList(writer_list, h)
  BY <1>1, <1>2, ChannelAssumption DEF InList, ShapeInv, ChannelTypeOK
<1> HIDE DEF h, rs
<1>6. /\ rs # <<>>
      /\ \A i \in 1 .. Len(rs) : rs[i][1] = h \/ rs[i][1] = c
      /\ \A i, j \in 1 .. Len(rs) : rs[i][1] = rs[j][1] => i = j
      /\ \A x : Targets(rs, x) <=> x = h \/ x = c
      /\ \A x, v : InList(rs, <<x, v>>) <=> (x = h /\ v = writes + 1) \/ (x = c /\ v = NoValue)
  BY <1>2, TwoTargets DEF rs
<1>7. /\ \A x : Waiting(x) <=> InList(writer_list, x) \/ InList(reader_list, x)
      /\ \A x : Waiting(x)' <=> InList(writer_list', x) \/ InList(reader_list', x)
      /\ ~InList(writer_list, c) /\ ~InList(reader_list, c)
  <2>1. \A x : Waiting(x)' <=> InList(writer_list', x) \/ InList(reader_list', x)
    BY DEF Waiting, InList
  <2> QED BY <1>1, <2>1, WaitingInLists, CallerIsFree
<1>8. \A x \in Coroutines : Waiting(x)' <=> (Waiting(x) /\ ~Targets(rs, x))
  BY <1>1, <1>4, <1>5, <1>6, <1>7
<1>9. \A i \in 1 .. Len(rs) : rs[i][1] = c \/ Waiting(rs[i][1])
  BY <1>4, <1>6, <1>7
<1>10. \A x \in Readers : ~InList(rs, <<x, NoValue>>)
  BY <1>2, <1>6
<1>11. /\ PlaceInv'
       /\ \A x, v : Wakes(x, v)' <=> Wakes(x, v) \/ InList(rs, <<x, v>>)
  BY <1>1, <1>3, <1>4, <1>6, <1>8, <1>9, <1>10, SuspendPlaces
<1> QED BY <1>2, <1>6, <1>11 DEF h

(* A write into the buffer resumes only the writer itself.                 *)
LEMMA WriteToBufferPlaces ==
  ASSUME ShapeInv, PlaceInv, NEW c \in Coroutines, WriteToBuffer(c)
  PROVE  /\ PlaceInv'
         /\ \A x, v : Wakes(x, v)' <=> Wakes(x, v) \/ (x = c /\ v = NoValue)
<1> DEFINE rs == << <<c, NoValue>> >>
<1>1. /\ Suspend(c, rs) /\ rs \in Resumes /\ pc[c] = "suspending"
      /\ reader_list' = reader_list /\ writer_list' = writer_list
      /\ c \in Writers /\ c \notin Readers
  BY TwoResumes, ChannelAssumption DEF WriteToBuffer, Suspend, Accept
<1> HIDE DEF rs
<1>2. /\ rs # <<>>
      /\ \A i \in 1 .. Len(rs) : i = 1 /\ rs[i][1] = c
      /\ \A x : Targets(rs, x) <=> x = c
      /\ \A x, v : InList(rs, <<x, v>>) <=> x = c /\ v = NoValue
  BY OneTarget DEF rs
<1>3. NoDuplicates(writer_list') /\ NoDuplicates(reader_list')
  BY <1>1 DEF PlaceInv
<1>4. \A x : Waiting(x)' <=> Waiting(x)
  BY <1>1 DEF Waiting
<1>5. ~Waiting(c)
  BY <1>1, CallerIsFree, WaitingInLists
<1>6. /\ PlaceInv'
      /\ \A x, v : Wakes(x, v)' <=> Wakes(x, v) \/ InList(rs, <<x, v>>)
  BY <1>1, <1>2, <1>3, <1>4, <1>5, SuspendPlaces
<1> QED BY <1>2, <1>6

(* A reader that takes a buffered value resumes only itself.               *)
LEMMA ReadBufferPlaces ==
  ASSUME ShapeInv, PlaceInv, NEW c \in Coroutines, ReadBuffer(c)
  PROVE  /\ PlaceInv'
         /\ \A x, v : Wakes(x, v)' <=> Wakes(x, v) \/ (x = c /\ v = Head(buffer))
         /\ Head(buffer) \in WriteNumbers
<1> DEFINE b  == Head(buffer)
           rs == << <<c, b>> >>
<1>1. /\ Suspend(c, rs) /\ pc[c] = "suspending"
      /\ reader_list' = reader_list /\ writer_list' = writer_list
      /\ buffer # <<>> /\ buffer \in Seq(WriteNumbers)
  BY DEF ReadBuffer, Fetch, Suspend, ShapeInv, ChannelTypeOK
<1>2. b \in WriteNumbers /\ b # NoValue
  BY <1>1, ListTail, ChannelAssumption DEF WriteNumbers, NoValue
<1>3. rs \in Resumes
  BY <1>2, TwoResumes
<1> HIDE DEF b, rs
<1>4. /\ rs # <<>>
      /\ \A i \in 1 .. Len(rs) : i = 1 /\ rs[i][1] = c
      /\ \A x : Targets(rs, x) <=> x = c
      /\ \A x, v : InList(rs, <<x, v>>) <=> x = c /\ v = b
  BY OneTarget DEF rs
<1>5. NoDuplicates(writer_list') /\ NoDuplicates(reader_list')
  BY <1>1 DEF PlaceInv
<1>6. \A x : Waiting(x)' <=> Waiting(x)
  BY <1>1 DEF Waiting
<1>7. ~Waiting(c)
  BY <1>1, CallerIsFree, WaitingInLists
<1>8. /\ PlaceInv'
      /\ \A x, v : Wakes(x, v)' <=> Wakes(x, v) \/ InList(rs, <<x, v>>)
  BY <1>1, <1>2, <1>3, <1>4, <1>5, <1>6, <1>7, SuspendPlaces
<1> QED BY <1>2, <1>4, <1>8 DEF b

(* A coroutine that has to wait is added to its list and resumes nobody.   *)
LEMMA WaitsPlaces ==
  ASSUME ShapeInv, PlaceInv, NEW c \in Coroutines, WriteWaits(c) \/ ReadWaits(c)
  PROVE  /\ PlaceInv'
         /\ \A x, v : Wakes(x, v)' <=> Wakes(x, v)
<1>1. /\ Suspend(c, <<>>) /\ pc[c] = "suspending"
      /\ writer_list \in Seq(Writers) /\ reader_list \in Seq(Readers)
  BY DEF WriteWaits, ReadWaits, Suspend, ShapeInv, ChannelTypeOK
<1>2. ~InList(writer_list, c) /\ ~InList(reader_list, c)
  BY <1>1, CallerIsFree
<1>3. /\ NoDuplicates(writer_list') /\ NoDuplicates(reader_list')
      /\ \A x : \/ InList(writer_list', x) \/ InList(reader_list', x)
                <=> InList(writer_list, x) \/ InList(reader_list, x) \/ x = c
  <2>1. CASE WriteWaits(c)
    <3>1. c \in Writers /\ writer_list' = Append(writer_list, c) /\ reader_list' = reader_list
      BY <2>1 DEF WriteWaits, Accept
    <3>2. /\ \A x : InList(writer_list', x) <=> InList(writer_list, x) \/ x = c
          /\ NoDuplicates(writer_list')
      BY <1>1, <1>2, <3>1, ListAppend DEF PlaceInv
    <3> QED BY <3>1, <3>2 DEF PlaceInv
  <2>2. CASE ReadWaits(c)
    <3>1. c \in Readers /\ reader_list' = Append(reader_list, c) /\ writer_list' = writer_list
      BY <2>2 DEF ReadWaits
    <3>2. /\ \A x : InList(reader_list', x) <=> InList(reader_list, x) \/ x = c
          /\ NoDuplicates(reader_list')
      BY <1>1, <1>2, <3>1, ListAppend DEF PlaceInv
    <3> QED BY <3>1, <3>2 DEF PlaceInv
  <2> QED BY <2>1, <2>2
<1>4. \A x : Waiting(x)' <=> Waiting(x) \/ x = c
  <2>1. \A x : Waiting(x)' <=> InList(writer_list', x) \/ InList(reader_list', x)
    BY DEF Waiting, InList
  <2> QED BY <1>3, <2>1, WaitingInLists
<1>5. /\ PlaceInv'
      /\ \A x, v : Wakes(x, v)' <=> Wakes(x, v) \/ InList(<<>>, <<x, v>>)
  BY <1>1, <1>3, <1>4, NoTarget, SuspendPlaces
<1> QED BY <1>5, NoTarget

(* A reader that makes room, or takes the value of a waiting writer,       *)
(* resumes that writer and itself.                                         *)
LEMMA ReadPopsWriterPlaces ==
  ASSUME ShapeInv, OrderInv, PlaceInv, NEW c \in Coroutines, NEW b \in WriteNumbers, c \in Readers,
         writer_list # <<>>, NEW rs,
         \/ rs = << <<Head(writer_list), NoValue>>, <<c, b>> >>
         \/ rs = << <<c, b>>, <<Head(writer_list), NoValue>> >>,
         Suspend(c, rs), writer_list' = Tail(writer_list), UNCHANGED reader_list
  PROVE  /\ PlaceInv'
         /\ \A x, v : Wakes(x, v)' <=> \/ Wakes(x, v)
                                       \/ x = Head(writer_list) /\ v = NoValue
                                       \/ x = c /\ v = b
<1> DEFINE h == Head(writer_list)
<1>1. ChannelTypeOK /\ writer_list \in Seq(Writers) /\ pc[c] = "suspending" /\ b # NoValue
  <2>1. ChannelTypeOK /\ writer_list \in Seq(Writers)
    BY DEF ShapeInv, ChannelTypeOK
  <2>2. b # NoValue
    BY ChannelAssumption DEF WriteNumbers, NoValue
  <2> QED BY <2>1, <2>2 DEF Suspend
<1>2. /\ h \in Writers /\ h \in Coroutines /\ h \notin Readers /\ h # c
  BY <1>1, HeadWriter, ChannelAssumption
<1>3. rs \in Resumes
  BY <1>2, TwoResumes
<1>4. /\ \A x : InList(writer_list, x) <=> InList(writer_list', x) \/ x = h
      /\ NoDuplicates(writer_list') /\ ~InList(writer_list', h)
      /\ NoDuplicates(reader_list')
  BY <1>1, ListTail DEF PlaceInv
<1>5. ~InList(reader_list, h)
  <2>1. reader_list \in Seq(Readers)
    BY <1>1 DEF ChannelTypeOK
  <2> QED BY <1>2, <2>1 DEF InList
<1> HIDE DEF h
<1>6. /\ rs # <<>>
      /\ \A i \in 1 .. Len(rs) : rs[i][1] = h \/ rs[i][1] = c
      /\ \A i, j \in 1 .. Len(rs) : rs[i][1] = rs[j][1] => i = j
      /\ \A x : Targets(rs, x) <=> x = h \/ x = c
      /\ \A x, v : InList(rs, <<x, v>>) <=> (x = h /\ v = NoValue) \/ (x = c /\ v = b)
  <2>1. CASE rs = << <<h, NoValue>>, <<c, b>> >>
    BY <1>2, <2>1, TwoTargets
  <2>2. CASE rs = << <<c, b>>, <<h, NoValue>> >>
    BY <1>2, <2>2, TwoTargets
  <2> QED BY <2>1, <2>2 DEF h
<1>7. /\ \A x : Waiting(x) <=> InList(writer_list, x) \/ InList(reader_list, x)
      /\ \A x : Waiting(x)' <=> InList(writer_list', x) \/ InList(reader_list', x)
      /\ ~InList(writer_list, c) /\ ~InList(reader_list, c)
  <2>1. \A x : Waiting(x)' <=> InList(writer_list', x) \/ InList(reader_list', x)
    BY DEF Waiting, InList
  <2> QED BY <1>1, <2>1, WaitingInLists, CallerIsFree
<1>8. \A x \in Coroutines : Waiting(x)' <=> (Waiting(x) /\ ~Targets(rs, x))
  BY <1>1, <1>4, <1>5, <1>6, <1>7
<1>9. \A i \in 1 .. Len(rs) : rs[i][1] = c \/ Waiting(rs[i][1])
  BY <1>4, <1>6, <1>7
<1>10. \A x \in Readers : ~InList(rs, <<x, NoValue>>)
  BY <1>1, <1>2, <1>6
<1>11. /\ PlaceInv'
       /\ \A x, v : Wakes(x, v)' <=> Wakes(x, v) \/ InList(rs, <<x, v>>)
  BY <1>1, <1>3, <1>4, <1>6, <1>8, <1>9, <1>10, SuspendPlaces
<1> QED BY <1>2, <1>6, <1>11 DEF h

(* Awaiter::resume takes the coroutine out of the pending resumes.         *)
LEMMA ResumePlaces ==
  ASSUME ShapeInv, PlaceInv, NEW c \in Coroutines, Resume(c)
  PROVE  /\ PlaceInv'
         /\ \E w \in Coroutines, v \in WriteNumbers \cup {NoValue} :
              /\ Wakes(w, v) /\ \A u : Wakes(w, u) => u = v
              /\ pc[w] = "suspended"
              /\ pc' = [pc EXCEPT ![w] = "resumed"]
              /\ val' = IF w \in Readers THEN [val EXCEPT ![w] = v] ELSE val
              /\ \A x, u : Wakes(x, u)' <=> Wakes(x, u) /\ x # w
<1>1. /\ ChannelTypeOK /\ wake[c] \in Resumes /\ wake[c] # <<>>
      /\ wake' = [wake EXCEPT ![c] = Tail(wake[c])]
      /\ pc \in [Coroutines -> PCs] /\ wake \in [Coroutines -> Resumes]
  BY DEF ShapeInv, ChannelTypeOK, Resume, Resumes
<1>2. PICK w \in Coroutines, v \in WriteNumbers \cup {NoValue} : Head(wake[c]) = <<w, v>>
  BY <1>1, ListTail DEF Resumes
<1>3. Head(wake[c])[1] = w /\ Head(wake[c])[2] = v
  BY <1>2
<1>4. /\ pc' = [pc EXCEPT ![w] = "resumed"]
      /\ val' = IF w \in Readers THEN [val EXCEPT ![w] = v] ELSE val
      /\ UNCHANGED <<channel, calls>>
  BY <1>3 DEF Resume
<1>5. /\ wake[c][1] = <<w, v>> /\ wake[c][1][1] = w /\ Len(wake[c]) \in Nat /\ Len(wake[c]) > 0
      /\ Len(wake'[c]) = Len(wake[c]) - 1
      /\ \A i \in 1 .. Len(wake[c]) - 1 : wake'[c][i] = wake[c][i + 1]
      /\ \A x \in Coroutines : x # c => wake'[x] = wake[x]
  <2>1. wake'[c] = Tail(wake[c]) /\ \A x \in Coroutines : x # c => wake'[x] = wake[x]
    BY <1>1
  <2> QED BY <1>1, <1>2, <1>3, <2>1, ListTail DEF Resumes
<1>6. Wakes(w, v) /\ Woken(w)
  BY <1>5 DEF Wakes, Woken
<1>7. ASSUME NEW d \in Coroutines, NEW i \in 1 .. Len(wake[d]), wake[d][i][1] = w
      PROVE  d = c /\ i = 1
  BY <1>5, <1>7 DEF PlaceInv, WakeOnce
<1>8. \A d \in Coroutines : \A i \in 1 .. Len(wake'[d]) :
        \E j \in 1 .. Len(wake[d]) : /\ wake'[d][i] = wake[d][j] /\ wake[d][j][1] # w
                                     /\ j = IF d = c THEN i + 1 ELSE i
  BY <1>5, <1>7
<1>9. ASSUME NEW d \in Coroutines, NEW j \in 1 .. Len(wake[d]), wake[d][j][1] # w
      PROVE  \E i \in 1 .. Len(wake'[d]) : wake'[d][i] = wake[d][j]
  <2>1. CASE d = c
    <3>1. j # 1
      BY <1>5, <1>9, <2>1
    <3>2. j - 1 \in 1 .. Len(wake'[c]) /\ wake'[c][j - 1] = wake[c][j]
      BY <1>5, <2>1, <3>1
    <3> QED BY <2>1, <3>2
  <2>2. CASE d # c
    BY <1>5, <2>2
  <2> QED BY <2>1, <2>2
<1>10. ASSUME NEW x, NEW u PROVE Wakes(x, u)' <=> Wakes(x, u) /\ x # w
  <2>1. <<x, u>>[1] = x
    OBVIOUS
  <2>2. Wakes(x, u)' => Wakes(x, u) /\ x # w
    <3> SUFFICES ASSUME NEW d \in Coroutines, NEW i \in 1 .. Len(wake'[d]),
                        wake'[d][i] = <<x, u>>
                 PROVE  Wakes(x, u) /\ x # w
      BY DEF Wakes
    <3>1. PICK j \in 1 .. Len(wake[d]) : wake'[d][i] = wake[d][j] /\ wake[d][j][1] # w
      BY <1>8
    <3> QED BY <2>1, <3>1 DEF Wakes
  <2>3. Wakes(x, u) /\ x # w => Wakes(x, u)'
    BY <1>9, <2>1 DEF Wakes
  <2> QED BY <2>2, <2>3
<1>11. \A x : Woken(x)' <=> Woken(x) /\ x # w
  <2>1. \A x : Woken(x)' => Woken(x) /\ x # w
    BY <1>8 DEF Woken
  <2>2. \A x : Woken(x) /\ x # w => Woken(x)'
    BY <1>9 DEF Woken
  <2> QED BY <2>1, <2>2
<1>12. WakeOnce'
  <2> SUFFICES ASSUME NEW d \in Coroutines, NEW e \in Coroutines,
                      NEW i \in 1 .. Len(wake'[d]), NEW j \in 1 .. Len(wake'[e]),
                      wake'[d][i][1] = wake'[e][j][1]
               PROVE  d = e /\ i = j
    BY DEF WakeOnce
  <2>1. PICK k \in 1 .. Len(wake[d]) : wake'[d][i] = wake[d][k] /\ k = IF d = c THEN i + 1 ELSE i
    BY <1>8
  <2>2. PICK l \in 1 .. Len(wake[e]) : wake'[e][j] = wake[e][l] /\ l = IF e = c THEN j + 1 ELSE j
    BY <1>8
  <2>3. d = e /\ k = l
    BY <2>1, <2>2 DEF PlaceInv, WakeOnce
  <2> QED BY <2>1, <2>2, <2>3
<1>13. \A u : Wakes(w, u) => u = v
  <2> SUFFICES ASSUME NEW u, NEW d \in Coroutines, NEW i \in 1 .. Len(wake[d]),
                      wake[d][i] = <<w, u>>
               PROVE  u = v
    BY DEF Wakes
  <2>1. wake[d][i][1] = w
    OBVIOUS
  <2>2. d = c /\ i = 1
    BY <1>7, <2>1
  <2> QED BY <1>5, <2>2
<1>14. pc[w] = "suspended" /\ ~Waiting(w)
  BY <1>6 DEF PlaceInv, NoneStranded
<1>15. \A x : Waiting(x)' <=> Waiting(x)
  BY <1>4 DEF Waiting, channel
<1>16. PlaceInv'
  <2>1. NoneStranded'
    BY <1>1, <1>4, <1>11, <1>14, <1>15 DEF PlaceInv, NoneStranded
  <2>2. NoDuplicates(writer_list)' /\ NoDuplicates(reader_list)'
    BY <1>4 DEF PlaceInv, channel
  <2>3. ASSUME NEW x \in Coroutines
        PROVE  /\ Waiting(x)' => ~Woken(x)' /\ wake'[x] = <<>>
               /\ wake'[x] # <<>> => pc'[x] \in {"suspended", "resumed"}
               /\ x \in Readers => ~Wakes(x, NoValue)'
    <3>1. wake'[x] # <<>> => wake[x] # <<>>
      BY <1>1, <1>5
    <3>2. wake'[x] # <<>> => pc'[x] \in {"suspended", "resumed"}
      BY <1>1, <1>4, <3>1 DEF PlaceInv
    <3> QED BY <1>10, <1>11, <1>15, <3>1, <3>2 DEF PlaceInv
  <2> QED BY <1>12, <2>1, <2>2, <2>3 DEF PlaceInv
<1> QED BY <1>4, <1>6, <1>10, <1>13, <1>14, <1>16

(* Outside the lists a coroutine moves on its own.                         *)
LEMMA AlonePlaces ==
  ASSUME ShapeInv, PlaceInv, NEW c \in Coroutines,
         Enter(c) \/ PushToClosed(c) \/ Continue(c)
  PROVE  /\ PlaceInv' /\ UNCHANGED <<channel, val, wake, writes, handed>>
         /\ pc[c] # "suspended" /\ pc'[c] \notin {"suspended", "resumed", "destroyed"}
         /\ pc[c] # "destroyed" /\ wake[c] = <<>>
         /\ \A x \in Coroutines : x # c => pc'[x] = pc[x]
<1>1. /\ UNCHANGED <<channel, val, wake, writes, handed>>
      /\ pc[c] \notin {"suspended", "destroyed"}
      /\ pc'[c] \notin {"suspended", "resumed", "destroyed"} /\ wake[c] = <<>>
      /\ \A x \in Coroutines : x # c => pc'[x] = pc[x]
  BY DEF Enter, PushToClosed, Continue, calls, ShapeInv, ChannelTypeOK, PlaceInv
<1>2. /\ \A x : Waiting(x)' <=> Waiting(x)
      /\ \A x : Woken(x)' <=> Woken(x)
      /\ \A x : Wakes(x, NoValue)' <=> Wakes(x, NoValue)
      /\ WakeOnce' /\ NoDuplicates(writer_list') /\ NoDuplicates(reader_list')
  BY <1>1 DEF Waiting, Woken, Wakes, channel, PlaceInv, WakeOnce
<1>3. NoneStranded'
  BY <1>1, <1>2 DEF PlaceInv, NoneStranded
<1>4. ASSUME NEW x \in Coroutines
      PROVE  /\ Waiting(x)' => ~Woken(x)' /\ wake'[x] = <<>>
             /\ wake'[x] # <<>> => pc'[x] \in {"suspended", "resumed"}
             /\ x \in Readers => ~Wakes(x, NoValue)'
  BY <1>1, <1>2 DEF PlaceInv
<1> QED BY <1>1, <1>2, <1>3, <1>4 DEF PlaceInv

(* The destructor of an awaiter takes it out of its list.                  *)
LEMMA DestroyPlaces ==
  ASSUME ShapeInv, PlaceInv, NEW c \in Coroutines, Destroy(c)
  PROVE  /\ PlaceInv' /\ Waiting(c) /\ \A x : Waiting(x)' <=> Waiting(x) /\ x # c
         /\ pc' = [pc EXCEPT ![c] = "destroyed"]
<1>0. writer_list \in Seq(Writers) /\ reader_list \in Seq(Readers)
  BY DEF ShapeInv, ChannelTypeOK
<1>1. /\ NoDuplicates(writer_list') /\ NoDuplicates(reader_list')
      /\ InList(writer_list, c) \/ InList(reader_list, c)
      /\ \A x : \/ InList(writer_list', x) \/ InList(reader_list', x)
                <=> (InList(writer_list, x) \/ InList(reader_list, x)) /\ x # c
  <2>1. CASE \E i \in 1 .. Len(writer_list) :
               /\ writer_list[i] = c /\ writer_list' = RemoveAt(writer_list, i)
               /\ UNCHANGED reader_list
    <3>1. PICK i \in 1 .. Len(writer_list) :
               /\ writer_list[i] = c /\ writer_list' = RemoveAt(writer_list, i)
               /\ UNCHANGED reader_list
      BY <2>1
    <3>2. /\ \A x : InList(writer_list, x) <=> InList(writer_list', x) \/ x = c
          /\ NoDuplicates(writer_list') /\ ~InList(writer_list', c)
      BY <1>0, <3>1, ListRemoveAt DEF PlaceInv
    <3>3. c \in Writers
      BY <1>0, <3>1
    <3>4. ~InList(reader_list, c)
      BY <1>0, <3>3, ChannelAssumption DEF InList
    <3> QED BY <3>1, <3>2, <3>4 DEF PlaceInv
  <2>2. CASE \E i \in 1 .. Len(reader_list) :
               /\ reader_list[i] = c /\ reader_list' = RemoveAt(reader_list, i)
               /\ UNCHANGED writer_list
    <3>1. PICK i \in 1 .. Len(reader_list) :
               /\ reader_list[i] = c /\ reader_list' = RemoveAt(reader_list, i)
               /\ UNCHANGED writer_list
      BY <2>2
    <3>2. /\ \A x : InList(reader_list, x) <=> InList(reader_list', x) \/ x = c
          /\ NoDuplicates(reader_list') /\ ~InList(reader_list', c)
      BY <1>0, <3>1, ListRemoveAt DEF PlaceInv
    <3>3. c \in Readers
      BY <1>0, <3>1
    <3>4. ~InList(writer_list, c)
      BY <1>0, <3>3, ChannelAssumption DEF InList
    <3> QED BY <3>1, <3>2, <3>4 DEF PlaceInv
  <2> QED BY <2>1, <2>2 DEF Destroy
<1>2. Waiting(c) /\ \A x : Waiting(x)' <=> Waiting(x) /\ x # c
  <2>1. \A x : Waiting(x)' <=> InList(writer_list', x) \/ InList(reader_list', x)
    BY DEF Waiting, InList
  <2> QED BY <1>1, <2>1, WaitingInLists
<1>3. /\ UNCHANGED wake /\ pc' = [pc EXCEPT ![c] = "destroyed"]
      /\ pc'[c] = "destroyed" /\ \A x \in Coroutines : x # c => pc'[x] = pc[x]
  BY DEF Destroy, ShapeInv, ChannelTypeOK
<1>4. ~Woken(c) /\ wake[c] = <<>>
  BY <1>2 DEF PlaceInv
<1>5. /\ \A x : Woken(x)' <=> Woken(x)
      /\ \A x : Wakes(x, NoValue)' <=> Wakes(x, NoValue)
      /\ WakeOnce'
  BY <1>3 DEF Woken, Wakes, PlaceInv, WakeOnce
<1>6. NoneStranded'
  BY <1>2, <1>3, <1>4, <1>5 DEF PlaceInv, NoneStranded
<1>7. ASSUME NEW x \in Coroutines
      PROVE  /\ Waiting(x)' => ~Woken(x)' /\ wake'[x] = <<>>
             /\ wake'[x] # <<>> => pc'[x] \in {"suspended", "resumed"}
             /\ x \in Readers => ~Wakes(x, NoValue)'
  BY <1>2, <1>3, <1>4, <1>5 DEF PlaceInv
<1> QED BY <1>1, <1>2, <1>3, <1>5, <1>6, <1>7 DEF PlaceInv

(* close() moves everybody who waits to its executor.                      *)
LEMMA CleanUpPlaces ==
  ASSUME ShapeInv, PlaceInv, Close \/ clean_up
  PROVE  PlaceInv'
<1>1. CASE Close
  <2>1. UNCHANGED <<writer_list, reader_list, pc, wake>>
    BY <1>1 DEF Close
  <2>2. /\ \A x : Waiting(x)' <=> Waiting(x)
        /\ \A x : Woken(x)' <=> Woken(x)
        /\ \A x : Wakes(x, NoValue)' <=> Wakes(x, NoValue)
        /\ WakeOnce' /\ NoDuplicates(writer_list') /\ NoDuplicates(reader_list')
    BY <2>1 DEF Waiting, Woken, Wakes, PlaceInv, WakeOnce
  <2>3. NoneStranded'
    BY <2>1, <2>2 DEF PlaceInv, NoneStranded
  <2>4. ASSUME NEW x \in Coroutines
        PROVE  /\ Waiting(x)' => ~Woken(x)' /\ wake'[x] = <<>>
               /\ wake'[x] # <<>> => pc'[x] \in {"suspended", "resumed"}
               /\ x \in Readers => ~Wakes(x, NoValue)'
    BY <2>1, <2>2 DEF PlaceInv
  <2> QED BY <2>2, <2>3, <2>4 DEF PlaceInv
<1>2. CASE clean_up
  <2>1. /\ UNCHANGED wake /\ writer_list' = <<>> /\ reader_list' = <<>>
        /\ \A x \in Coroutines : pc'[x] = IF Waiting(x) THEN "resumed" ELSE pc[x]
    BY <1>2 DEF clean_up
  <2>2. /\ \A x : Woken(x)' <=> Woken(x)
        /\ \A x : Wakes(x, NoValue)' <=> Wakes(x, NoValue)
        /\ WakeOnce'
    BY <2>1 DEF Woken, Wakes, PlaceInv, WakeOnce
  <2>3. \A x : ~Waiting(x)'
    BY <2>1 DEF Waiting
  <2>4. NoneStranded'
    BY <2>1, <2>2, <2>3 DEF PlaceInv, NoneStranded
  <2>5. NoDuplicates(writer_list') /\ NoDuplicates(reader_list')
    BY <2>1 DEF NoDuplicates
  <2>6. ASSUME NEW x \in Coroutines
        PROVE  /\ Waiting(x)' => ~Woken(x)' /\ wake'[x] = <<>>
               /\ wake'[x] # <<>> => pc'[x] \in {"suspended", "resumed"}
               /\ x \in Readers => ~Wakes(x, NoValue)'
    BY <2>1, <2>2, <2>3 DEF PlaceInv
  <2> QED BY <2>2, <2>4, <2>5, <2>6 DEF PlaceInv
<1> QED BY <1>1, <1>2

(* Every step keeps every coroutine in one place.                          *)
LEMMA PlaceStep ==
  ASSUME ShapeInv, OrderInv, PlaceInv, ChannelNext
  PROVE  PlaceInv'
<1>0. ChannelTypeOK
  BY DEF ShapeInv
<1>1. ASSUME NEW c \in Coroutines, ReadAndRefill(c) PROVE PlaceInv'
  <2>1. Head(buffer) \in WriteNumbers
    BY <1>0, <1>1, ListTail DEF ReadAndRefill, ChannelTypeOK
  <2> QED BY <1>1, <2>1, ReadPopsWriterPlaces DEF ReadAndRefill, Fetch
<1>2. ASSUME NEW c \in Coroutines, ReadFromWriter(c) PROVE PlaceInv'
  <2>1. val[Head(writer_list)] \in WriteNumbers
    BY <1>0, <1>2, HeadWriter DEF ReadFromWriter
  <2> QED BY <1>2, <2>1, ReadPopsWriterPlaces DEF ReadFromWriter, Fetch
<1>3. ASSUME NEW c \in Coroutines, Resume(c) PROVE PlaceInv'
  BY <1>3, ResumePlaces
<1>4. ASSUME NEW c \in Coroutines,
             WriteToReader(c) \/ WriteToBuffer(c) \/ WriteWaits(c) \/ ReadBuffer(c) \/ ReadWaits(c)
      PROVE  PlaceInv'
  BY <1>4, WriteToReaderPlaces, WriteToBufferPlaces, WaitsPlaces, ReadBufferPlaces
<1>5. ASSUME NEW c \in Coroutines,
             Enter(c) \/ PushToClosed(c) \/ Continue(c) \/ Destroy(c)
      PROVE  PlaceInv'
  BY <1>5, AlonePlaces, DestroyPlaces
<1> QED BY <1>1, <1>2, <1>3, <1>4, <1>5, CleanUpPlaces
        DEF ChannelNext, Step, try_push_writer, try_push_reader

-----------------------------------------------------------------------------
(* Layer 4: the values that left the channel.                              *)

Kept(v) == InBuffer(v) \/ AtWriter(v)

(* A step that hands no value to a reader and receives none, ...           *)
LEMMA CarryKept ==
  ASSUME ShapeInv, ShapeInv', OrderInv, CarryInv, active = TRUE,
         \A x \in Readers, v \in WriteNumbers \cup {NoValue} : Carries(x, v)' <=> Carries(x, v),
         UNCHANGED <<received, handed>>,
         \A v \in WriteNumbers : Kept(v) => Kept(v)',
         \/ UNCHANGED writes
         \/ writes' = writes + 1 /\ \A v \in WriteNumbers : v = writes + 1 => Kept(v)'
  PROVE  CarryInv'
<1>1. /\ writes \in Nat /\ 1 .. writes \subseteq WriteNumbers /\ 1 .. writes' \subseteq WriteNumbers
      /\ \A v \in 1 .. writes' : v \in 1 .. writes \/ (v = writes' /\ writes' # writes)
  BY ChannelAssumption DEF ShapeInv, ChannelTypeOK, WriteNumbers
<1>2. /\ \A c \in Readers, v \in WriteNumbers \cup {NoValue} : Carries(c, v) =>
           /\ v # NoValue /\ v <= handed /\ received[v] = 0
           /\ \A d \in Readers : Carries(d, v) => c = d
      /\ \A v \in WriteNumbers : /\ received[v] \in {0, 1}
                                 /\ v > handed => received[v] = 0
      /\ \A v \in 1 .. writes :
           Kept(v) \/ received[v] = 1 \/ \E c \in Readers : Carries(c, v)
  BY DEF CarryInv, Kept
<1>3. /\ \A c \in Readers, v \in WriteNumbers \cup {NoValue} : Carries(c, v)' =>
           /\ v # NoValue /\ v <= handed' /\ received'[v] = 0
           /\ \A d \in Readers : Carries(d, v)' => c = d
      /\ \A v \in WriteNumbers : /\ received'[v] \in {0, 1}
                                 /\ v > handed' => received'[v] = 0
  BY <1>2
<1>4. \A v \in 1 .. writes' :
        Kept(v)' \/ received'[v] = 1 \/ \E c \in Readers : Carries(c, v)'
  <2> SUFFICES ASSUME NEW v \in 1 .. writes'
               PROVE  Kept(v)' \/ received'[v] = 1 \/ \E c \in Readers : Carries(c, v)'
    OBVIOUS
  <2>1. CASE v \in 1 .. writes
    <3>1. v \in WriteNumbers
      BY <1>1
    <3> QED BY <1>2, <2>1, <3>1
  <2>2. CASE v = writes' /\ writes' # writes
    BY <1>1, <2>2
  <2> QED BY <1>1, <2>1, <2>2
<1> QED BY <1>3, <1>4 DEF CarryInv, Kept

(* ... and one that hands the reader r the next value b.                   *)
LEMMA CarryHanded ==
  ASSUME ShapeInv, ShapeInv', OrderInv, CarryInv, active = TRUE,
         NEW r \in Readers, NEW b \in WriteNumbers, handed < b, handed' = b,
         \A x \in Readers, v \in WriteNumbers \cup {NoValue} :
            Carries(x, v)' <=> Carries(x, v) \/ (x = r /\ v = b),
         UNCHANGED received,
         \A v \in WriteNumbers : Kept(v) => Kept(v)' \/ v = b,
         UNCHANGED writes \/ (writes' = writes + 1 /\ b = writes + 1)
  PROVE  CarryInv'
<1>1. /\ writes \in Nat /\ 1 .. writes \subseteq WriteNumbers /\ 1 .. writes' \subseteq WriteNumbers
      /\ handed \in Nat /\ b \in Nat /\ b # NoValue /\ WriteNumbers \subseteq Nat
      /\ \A v \in 1 .. writes' : v \in 1 .. writes \/ (v = writes' /\ writes' # writes)
  BY ChannelAssumption DEF ShapeInv, ChannelTypeOK, WriteNumbers, NoValue
<1>2. /\ \A c \in Readers, v \in WriteNumbers \cup {NoValue} : Carries(c, v) =>
           /\ v # NoValue /\ v <= handed /\ received[v] = 0
           /\ \A d \in Readers : Carries(d, v) => c = d
      /\ \A v \in WriteNumbers : /\ received[v] \in {0, 1}
                                 /\ v > handed => received[v] = 0
      /\ \A v \in 1 .. writes :
           Kept(v) \/ received[v] = 1 \/ \E c \in Readers : Carries(c, v)
  BY DEF CarryInv, Kept
<1>3. /\ received[b] = 0 /\ \A c \in Readers : ~Carries(c, b)
  BY <1>1, <1>2
<1>4. ASSUME NEW c \in Readers, NEW v \in WriteNumbers \cup {NoValue}, Carries(c, v)'
      PROVE  /\ v # NoValue /\ v <= handed' /\ received'[v] = 0
             /\ \A d \in Readers : Carries(d, v)' => c = d
  <2>1. CASE v = b
    BY <1>1, <1>3, <1>4, <2>1
  <2>2. CASE v # b
    BY <1>1, <1>2, <1>4, <2>2
  <2> QED BY <2>1, <2>2
<1>5. \A v \in WriteNumbers : /\ received'[v] \in {0, 1}
                              /\ v > handed' => received'[v] = 0
  BY <1>1, <1>2
<1>6. Carries(r, b)'
  OBVIOUS
<1>7. \A v \in 1 .. writes' :
        Kept(v)' \/ received'[v] = 1 \/ \E c \in Readers : Carries(c, v)'
  BY <1>1, <1>2, <1>6
<1> QED BY <1>4, <1>5, <1>7 DEF CarryInv, Kept

(* A step that destroys no writer leaves alone what was taken along.       *)
LEMMA GoneKept ==
  ASSUME GoneInv, active = TRUE, writes \in Nat, writes' \in {writes, writes + 1},
         \A w \in Writers : pc'[w] = "destroyed" => pc[w] = "destroyed" /\ val'[w] = val[w],
         \A w \in Writers, v \in WriteNumbers : Wakes(w, v)' => Wakes(w, v),
         \A v \in 1 .. writes :
           /\ Stored(v)' => Stored(v)
           /\ \A c \in Readers : Carries(c, v)' =>
                Stored(v) \/ \E d \in Readers : Carries(d, v)
           /\ received'[v] = received[v] \/ \E d \in Readers : Carries(d, v)
  PROVE  GoneInv'
<1> SUFFICES ASSUME NEW w \in Writers, pc'[w] = "destroyed"
             PROVE  /\ val'[w] \in 1 .. writes' /\ ~Stored(val[w])' /\ received'[val'[w]] = 0
                    /\ \A c \in Readers : ~Carries(c, val[w])'
                    /\ \A x \in Writers : pc'[x] = "destroyed" /\ val'[x] = val'[w] => x = w
  BY DEF GoneInv
<1>1. PICK v : v = val[w]
  OBVIOUS
<1>2. /\ v \in 1 .. writes /\ ~Stored(v) /\ received[v] = 0
      /\ \A c \in Readers : ~Carries(c, v)
      /\ \A x \in Writers : pc[x] = "destroyed" /\ val[x] = v => x = w
      /\ val'[w] = v
  BY <1>1 DEF GoneInv
<1>3. v \in 1 .. writes' /\ ~Stored(v)' /\ received'[v] = 0 /\ \A c \in Readers : ~Carries(c, v)'
  BY <1>2
<1>4. \A x \in Writers : pc'[x] = "destroyed" /\ val'[x] = val'[w] => x = w
  BY <1>2
<1>5. (Stored(val[w])' <=> Stored(v)') /\ \A c \in Readers : Carries(c, val[w])' <=> Carries(c, v)'
  BY <1>2 DEF Stored, InBuffer, Carries, Wakes
<1> QED BY <1>2, <1>3, <1>4, <1>5

(* Every step keeps track of every value while the channel is open.        *)
LEMMA CarryStep ==
  ASSUME ShapeInv, ShapeInv', OrderInv, PlaceInv, PlaceInv', CarryInv, GoneInv, ChannelNext
  PROVE  CarryInv' /\ GoneInv'
<1>0. /\ ChannelTypeOK /\ ChannelTypeOK' /\ NoNeedlessWait
      /\ buffer \in Seq(WriteNumbers) /\ writer_list \in Seq(Writers)
      /\ reader_list \in Seq(Readers) /\ writes \in Nat /\ handed \in Nat
      /\ handed <= writes
      /\ Writers \subseteq Coroutines /\ Readers \subseteq Coroutines
      /\ \A c \in Readers : c \notin Writers
  BY ChannelAssumption DEF ShapeInv, ChannelTypeOK, Coroutines, OrderInv
<1>01. SUFFICES ASSUME active' = TRUE PROVE CarryInv' /\ GoneInv'
  <2>1. active' = TRUE \/ active' = FALSE
    BY <1>0 DEF ChannelTypeOK
  <2> QED BY <2>1 DEF CarryInv, GoneInv
<1>02. /\ \A v : Kept(v) <=> \/ InList(buffer, v)
                            \/ \E c \in Writers : val[c] = v /\ (Waiting(c) \/ pc[c] = "destroyed")
       /\ \A v : Kept(v)' <=> \/ InList(buffer', v)
                             \/ \E c \in Writers : val'[c] = v /\ (Waiting(c)' \/ pc'[c] = "destroyed")
  BY DEF Kept, InBuffer, AtWriter, InList
(* A coroutine that calls carries nothing.                                 *)
<1>03. ASSUME NEW c \in Coroutines, NEW rs, Suspend(c, rs)
       PROVE  /\ active = TRUE /\ pc[c] = "suspending" /\ pc'[c] = "suspended"
              /\ \A x \in Coroutines : x # c => pc'[x] = pc[x]
              /\ ~Waiting(c) /\ ~Woken(c) /\ UNCHANGED received
              /\ \A v \in WriteNumbers \cup {NoValue} : ~Carries(c, v) /\ ~Wakes(c, v)
  <2>1. /\ active = TRUE /\ pc[c] = "suspending" /\ pc'[c] = "suspended"
        /\ \A x \in Coroutines : x # c => pc'[x] = pc[x]
        /\ UNCHANGED received
    BY <1>0, <1>03 DEF Suspend, ChannelTypeOK
  <2>2. ~Waiting(c) /\ ~Woken(c)
    BY <2>1 DEF PlaceInv, NoneStranded
  <2> QED BY <1>0, <2>1, <2>2, WokenIsWakes DEF Carries
(* Who is unaffected by the call of c goes on carrying what it did.        *)
<1>04. ASSUME NEW c \in Coroutines, NEW rs, Suspend(c, rs),
              \A x \in Coroutines : x # c => val'[x] = val[x]
       PROVE  \A x \in Readers, v \in WriteNumbers \cup {NoValue} :
                 Carries(x, v)' <=> (x # c /\ pc[x] = "resumed" /\ val[x] = v) \/ Wakes(x, v)'
  BY <1>0, <1>03, <1>04 DEF Carries
(* What its buffer and its lists keep is kept.                             *)
<1>05. ASSUME NEW c \in Coroutines, NEW rs, Suspend(c, rs),
              \A x \in Coroutines : x # c => val'[x] = val[x],
              \A x : Waiting(x) => Waiting(x)',
              NEW v, InList(buffer, v) => InList(buffer', v), Kept(v)
       PROVE  Kept(v)'
  <2>1. CASE InList(buffer, v)
    BY <1>02, <1>05, <2>1
  <2>2. ASSUME NEW d \in Writers, val[d] = v, Waiting(d) \/ pc[d] = "destroyed"
        PROVE  Kept(v)'
    <3>1. d # c /\ d \in Coroutines
      BY <1>0, <1>03, <1>05, <2>2
    <3>2. val'[d] = v /\ (Waiting(d)' \/ pc'[d] = "destroyed")
      BY <1>03, <1>05, <2>2, <3>1
    <3> QED BY <1>02, <3>2
  <2> QED BY <1>02, <1>05, <2>1, <2>2
(* A writer waits in writer_list.                                          *)
<1>06. /\ \A v : Stored(v) <=>
            InList(buffer, v) \/ \E c \in Writers : val[c] = v /\ InList(writer_list, c)
       /\ \A v : Stored(v)' <=>
            InList(buffer', v) \/ \E c \in Writers : val'[c] = v /\ InList(writer_list', c)
  <2>1. reader_list' \in Seq(Readers)
    BY <1>0 DEF ChannelTypeOK
  <2>2. \A c \in Writers : ~InList(reader_list, c) /\ ~InList(reader_list', c)
    BY <1>0, <2>1 DEF InList
  <2> QED BY <2>2 DEF Stored, InBuffer, InList, Waiting
<1>07. ASSUME NEW c \in Coroutines, NEW rs, Suspend(c, rs),
              \A x \in Coroutines : x # c => val'[x] = val[x]
       PROVE  /\ ~InList(writer_list, c)
              /\ \A w \in Writers : pc'[w] = "destroyed" =>
                     pc[w] = "destroyed" /\ val'[w] = val[w]
  BY <1>0, <1>03, <1>07, WaitingInLists
<1>08. 1 .. writes \subseteq WriteNumbers /\ NoValue \notin WriteNumbers
  BY <1>0, ChannelAssumption DEF ChannelTypeOK, WriteNumbers, NoValue
<1>1. ASSUME NEW c \in Coroutines, WriteToReader(c) PROVE CarryInv' /\ GoneInv'
  <2> DEFINE h == Head(reader_list)
  <2>1. /\ Accept(c) /\ Suspend(c, << <<h, writes + 1>>, <<c, NoValue>> >>)
        /\ buffer = <<>> /\ writer_list = <<>> /\ UNCHANGED <<buffer, writer_list>>
        /\ handed' = writes + 1
    BY <1>0, <1>1 DEF WriteToReader, NoNeedlessWait
  <2>2. /\ c \in Writers /\ writes + 1 \in WriteNumbers /\ writes' = writes + 1 /\ val'[c] = writes + 1
        /\ \A x \in Coroutines : x # c => val'[x] = val[x]
    BY <1>0, <2>1, AcceptTypes
  <2>3. /\ h \in Readers /\ h # c
        /\ \A x, v : Wakes(x, v)' <=> Wakes(x, v) \/ (x = h /\ v = writes + 1)
                                                  \/ (x = c /\ v = NoValue)
    BY <1>0, <1>1, <2>2, WriteToReaderPlaces
  <2>4. \A x \in Readers, v \in WriteNumbers \cup {NoValue} :
            Carries(x, v)' <=> Carries(x, v) \/ (x = h /\ v = writes + 1)
    BY <1>0, <1>03, <1>04, <2>1, <2>2, <2>3 DEF Carries
  <2>5. \A v \in WriteNumbers : Kept(v) => Kept(v)'
    <3>1. ASSUME NEW d \in Writers, Waiting(d) \/ pc[d] = "destroyed"
          PROVE  d # c /\ (Waiting(d)' \/ pc'[d] = "destroyed")
      <4>1. ~InList(writer_list, d) /\ ~InList(reader_list, d)
        BY <1>0, <2>1 DEF InList
      <4> QED BY <1>0, <1>03, <2>1, <3>1, <4>1, WaitingInLists
    <3> QED BY <1>0, <1>02, <2>1, <2>2, <3>1
  <2> HIDE DEF h
  <2>6. active = TRUE /\ UNCHANGED received
    BY <1>03, <2>1
  <2>7. handed < writes + 1
    BY <1>0
  <2>8. CarryInv'
    BY <2>1, <2>2, <2>3, <2>4, <2>5, <2>6, <2>7, CarryHanded
  <2>9. \A v \in 1 .. writes : Stored(v)' => Stored(v)
    <3>1. \A x : ~InList(writer_list, x) /\ ~InList(buffer, x)
      BY <2>1 DEF InList
    <3> QED BY <1>06, <2>1, <3>1
  <2>10. /\ \A v \in 1 .. writes, x \in Readers : Carries(x, v)' => Carries(x, v)
         /\ \A x \in Writers, u \in WriteNumbers : Wakes(x, u)' => Wakes(x, u)
    BY <1>0, <1>08, <2>3, <2>4
  <2>11. GoneInv'
    BY <1>0, <1>07, <2>1, <2>2, <2>6, <2>9, <2>10, GoneKept
  <2> QED BY <2>8, <2>11
<1>2. ASSUME NEW c \in Coroutines, WriteToBuffer(c) PROVE CarryInv' /\ GoneInv'
  <2>1. /\ Accept(c) /\ Suspend(c, << <<c, NoValue>> >>) /\ UNCHANGED <<writer_list, reader_list, handed>>
        /\ buffer' = Append(buffer, writes + 1)
    BY <1>2 DEF WriteToBuffer
  <2>2. /\ c \in Writers /\ writes + 1 \in WriteNumbers /\ writes' = writes + 1
        /\ \A x \in Coroutines : x # c => val'[x] = val[x]
    BY <1>0, <2>1, AcceptTypes
  <2>3. \A x, v : Wakes(x, v)' <=> Wakes(x, v) \/ (x = c /\ v = NoValue)
    BY <1>2, WriteToBufferPlaces
  <2>4. \A x \in Readers, v \in WriteNumbers \cup {NoValue} : Carries(x, v)' <=> Carries(x, v)
    BY <1>0, <1>03, <1>04, <2>1, <2>2, <2>3 DEF Carries
  <2>5. \A v : InList(buffer', v) <=> InList(buffer, v) \/ v = writes + 1
    BY <1>0, <2>1, <2>2, ListAppend
  <2>6. \A x : Waiting(x)' <=> Waiting(x)
    BY <2>1 DEF Waiting
  <2>7. \A v \in WriteNumbers : Kept(v) => Kept(v)'
    BY <1>05, <2>1, <2>2, <2>5, <2>6
  <2>8. active = TRUE /\ UNCHANGED received
    BY <1>03, <2>1
  <2>9. \A v \in WriteNumbers : v = writes + 1 => Kept(v)'
    BY <1>02, <2>5
  <2>10. CarryInv'
    BY <2>1, <2>2, <2>4, <2>7, <2>8, <2>9, CarryKept
  <2>11. \A v \in 1 .. writes : Stored(v)' => Stored(v)
    <3>1. ASSUME NEW v \in 1 .. writes, InList(buffer', v) PROVE InList(buffer, v)
      BY <1>0, <2>5, <3>1
    <3>2. ASSUME NEW d \in Writers, InList(writer_list', d)
          PROVE  InList(writer_list, d) /\ val'[d] = val[d]
      BY <1>0, <1>07, <2>1, <2>2, <3>2
    <3> QED BY <1>06, <3>1, <3>2
  <2>12. \A x \in Writers, u \in WriteNumbers : Wakes(x, u)' => Wakes(x, u)
    BY <1>08, <2>3
  <2>13. GoneInv'
    BY <1>0, <1>07, <1>08, <2>1, <2>2, <2>4, <2>8, <2>11, <2>12, GoneKept
  <2> QED BY <2>10, <2>13
<1>3. ASSUME NEW c \in Coroutines, WriteWaits(c) PROVE CarryInv' /\ GoneInv'
  <2>1. /\ Accept(c) /\ Suspend(c, <<>>) /\ UNCHANGED <<buffer, reader_list, handed>>
        /\ writer_list' = Append(writer_list, c)
    BY <1>3 DEF WriteWaits
  <2>2. /\ c \in Writers /\ writes' = writes + 1 /\ val'[c] = writes + 1
        /\ \A x \in Coroutines : x # c => val'[x] = val[x]
    BY <1>0, <2>1, AcceptTypes
  <2>3. \A x, v : Wakes(x, v)' <=> Wakes(x, v)
    BY <1>3, WaitsPlaces
  <2>4. \A x \in Readers, v \in WriteNumbers \cup {NoValue} : Carries(x, v)' <=> Carries(x, v)
    BY <1>0, <1>03, <1>04, <2>1, <2>2, <2>3 DEF Carries
  <2>5. \A x : Waiting(x)' <=> Waiting(x) \/ x = c
    <3>1. \A x : InList(writer_list', x) <=> InList(writer_list, x) \/ x = c
      BY <1>0, <2>1, <2>2, ListAppend
    <3>2. \A x : Waiting(x)' <=> InList(writer_list', x) \/ InList(reader_list', x)
      BY DEF Waiting, InList
    <3> QED BY <2>1, <3>1, <3>2, WaitingInLists
  <2>6. \A v \in WriteNumbers : Kept(v) => Kept(v)'
    BY <1>05, <2>1, <2>2, <2>5
  <2>7. active = TRUE /\ UNCHANGED received
    BY <1>03, <2>1
  <2>8. \A v \in WriteNumbers : v = writes + 1 => Kept(v)'
    BY <1>02, <2>2, <2>5
  <2>9. CarryInv'
    BY <2>1, <2>2, <2>4, <2>6, <2>7, <2>8, CarryKept
  <2>10. \A v \in 1 .. writes : Stored(v)' => Stored(v)
    <3>1. \A x : InList(writer_list', x) <=> InList(writer_list, x) \/ x = c
      BY <1>0, <2>1, <2>2, ListAppend
    <3> QED BY <1>0, <1>06, <1>07, <2>1, <2>2, <3>1
  <2>11. GoneInv'
    BY <1>0, <1>07, <1>08, <2>1, <2>2, <2>3, <2>4, <2>7, <2>10, GoneKept
  <2> QED BY <2>9, <2>11
<1>4. ASSUME NEW c \in Coroutines, ReadBuffer(c) PROVE CarryInv' /\ GoneInv'
  <2> DEFINE b == Head(buffer)
  <2>1. /\ Fetch(c, b) /\ Suspend(c, << <<c, b>> >>) /\ buffer # <<>>
        /\ UNCHANGED <<writer_list, reader_list, writes>>
        /\ buffer' = Tail(buffer) /\ handed' = b
    BY <1>4 DEF ReadBuffer, Fetch
  <2>2. /\ \A x, v : Wakes(x, v)' <=> Wakes(x, v) \/ (x = c /\ v = b)
        /\ b \in WriteNumbers
    BY <1>4, ReadBufferPlaces
  <2>3. c \in Readers /\ \A x \in Coroutines : x # c => val'[x] = val[x]
    BY <1>0, <2>1, <2>2, FetchTypes
  <2>4. /\ handed < b
        /\ \A v : InList(buffer, v) <=> InList(buffer', v) \/ v = b
    <3>1. 1 \in 1 .. Len(buffer) /\ b = buffer[1]
      BY <1>0, <2>1, ListTail
    <3> QED BY <1>0, <2>1, <3>1, ListTail DEF OrderInv
  <2> HIDE DEF b
  <2>5. \A x \in Readers, v \in WriteNumbers \cup {NoValue} :
            Carries(x, v)' <=> Carries(x, v) \/ (x = c /\ v = b)
    BY <1>0, <1>03, <1>04, <2>1, <2>2, <2>3 DEF Carries
  <2>6. \A x : Waiting(x)' <=> Waiting(x)
    BY <2>1 DEF Waiting
  <2>7. \A v \in WriteNumbers : Kept(v) => Kept(v)' \/ v = b
    BY <1>05, <2>1, <2>3, <2>4, <2>6
  <2>8. active = TRUE /\ UNCHANGED received
    BY <1>03, <2>1
  <2>9. CarryInv'
    BY <2>1, <2>2, <2>3, <2>4, <2>5, <2>7, <2>8, CarryHanded
  <2>10. Stored(b) /\ \A v \in 1 .. writes : Stored(v)' => Stored(v)
    BY <1>0, <1>06, <1>07, <2>1, <2>3, <2>4
  <2>11. \A x \in Writers, u \in WriteNumbers : Wakes(x, u)' => Wakes(x, u)
    BY <1>0, <2>2, <2>3
  <2>12. GoneInv'
    BY <1>0, <1>07, <1>08, <2>1, <2>3, <2>5, <2>8, <2>10, <2>11, GoneKept
  <2> QED BY <2>9, <2>12
<1>5. ASSUME NEW c \in Coroutines, ReadAndRefill(c) PROVE CarryInv' /\ GoneInv'
  <2> DEFINE b == Head(buffer)
             h == Head(writer_list)
             rs == << <<h, NoValue>>, <<c, b>> >>
  <2>1. /\ Fetch(c, b) /\ Suspend(c, rs) /\ buffer # <<>> /\ writer_list # <<>>
        /\ UNCHANGED <<reader_list, writes>> /\ c \in Readers
        /\ buffer' = Append(Tail(buffer), val[h]) /\ writer_list' = Tail(writer_list)
        /\ handed' = b
    BY <1>5 DEF ReadAndRefill, Fetch
  <2>2. /\ b = buffer[1] /\ 1 \in 1 .. Len(buffer) /\ b \in WriteNumbers
        /\ Tail(buffer) \in Seq(WriteNumbers)
        /\ \A v : InList(buffer, v) <=> InList(Tail(buffer), v) \/ v = b
    BY <1>0, <2>1, ListTail
  <2>3. h \in Writers /\ val[h] \in WriteNumbers
    BY <1>0, <2>1, HeadWriter
  <2>4. \A v : InList(buffer', v) <=> InList(Tail(buffer), v) \/ v = val[h]
    <3> DEFINE t == Tail(buffer)
               n == val[h]
    <3>1. t \in Seq(WriteNumbers) /\ n \in WriteNumbers /\ buffer' = Append(t, n)
      BY <2>1, <2>2, <2>3
    <3> HIDE DEF t, n
    <3>2. \A v : InList(buffer', v) <=> InList(t, v) \/ v = n
      BY <3>1, ListAppend
    <3> QED BY <3>2 DEF t, n
  <2>5. \A x, v : Wakes(x, v)' <=> Wakes(x, v) \/ (x = h /\ v = NoValue) \/ (x = c /\ v = b)
    BY <2>1, <2>2, ReadPopsWriterPlaces
  <2>6. \A x \in Coroutines : x # c => val'[x] = val[x]
    BY <1>0, <2>1, <2>2, FetchTypes
  <2>7. \A x : Waiting(x) => Waiting(x)' \/ x = h
    <3>1. \A x : InList(writer_list, x) <=> InList(writer_list', x) \/ x = h
      BY <1>0, <2>1, ListTail
    <3>2. \A x : Waiting(x)' <=> InList(writer_list', x) \/ InList(reader_list', x)
      BY DEF Waiting, InList
    <3> QED BY <2>1, <3>1, <3>2, WaitingInLists
  <2>8. handed < b
    BY <2>2 DEF OrderInv
  <2>9. active = TRUE /\ UNCHANGED received
    BY <1>03, <2>1
  <2>10. pc[h] = "suspended"
    <3>1. InList(writer_list, h)
      BY <1>0, <2>1, ListTail
    <3> QED BY <1>0, <2>3, <3>1, WaitingInLists DEF PlaceInv, NoneStranded
  <2>11. \A x \in Readers, v \in WriteNumbers \cup {NoValue} :
            Carries(x, v)' <=> (x # c /\ pc[x] = "resumed" /\ val[x] = v) \/ Wakes(x, v)'
    BY <1>04, <2>1, <2>6
  <2>12. /\ \A x \in Coroutines : x # c => pc'[x] = pc[x]
         /\ ~Waiting(c) /\ pc[c] = "suspending"
         /\ \A v \in WriteNumbers \cup {NoValue} : ~Carries(c, v) /\ ~Wakes(c, v)
    BY <1>03, <2>1
  <2> HIDE DEF b, h, rs
  <2>13. \A x \in Readers, v \in WriteNumbers \cup {NoValue} :
            Carries(x, v)' <=> Carries(x, v) \/ (x = c /\ v = b)
    BY <1>0, <2>3, <2>5, <2>11, <2>12 DEF Carries
  <2>14. \A v \in WriteNumbers : Kept(v) => Kept(v)' \/ v = b
    <3> SUFFICES ASSUME NEW v \in WriteNumbers, Kept(v), v # b PROVE Kept(v)'
      OBVIOUS
    <3>1. CASE InList(buffer, v)
      BY <1>02, <2>2, <2>4, <3>1
    <3>2. ASSUME NEW d \in Writers, val[d] = v, Waiting(d) \/ pc[d] = "destroyed"
          PROVE  Kept(v)'
      <4>1. CASE d = h
        BY <1>02, <2>4, <3>2, <4>1
      <4>2. CASE d # h
        BY <1>0, <1>02, <2>1, <2>6, <2>7, <2>12, <3>2, <4>2
      <4> QED BY <4>1, <4>2
    <3> QED BY <1>02, <3>1, <3>2
  <2>15. CarryInv'
    BY <2>1, <2>2, <2>8, <2>9, <2>13, <2>14, CarryHanded
  <2>16. Stored(b) /\ \A v \in 1 .. writes : Stored(v)' => Stored(v)
    <3>1. \A x : InList(writer_list, x) <=> InList(writer_list', x) \/ x = h
      BY <1>0, <2>1, ListTail DEF h
    <3>2. Stored(b)
      BY <1>06, <2>2
    <3>3. ASSUME NEW v, InList(buffer', v) PROVE Stored(v)
      <4>1. InList(buffer, v) \/ v = val[h]
        BY <2>2, <2>4, <3>3
      <4>2. InList(writer_list, h)
        BY <3>1
      <4> QED BY ONLY <4>1, <4>2, <2>3, <1>06
    <3>4. ASSUME NEW d \in Writers, InList(writer_list', d)
          PROVE  val'[d] = val[d] /\ InList(writer_list, d)
      BY <1>0, <2>1, <2>6, <3>1, <3>4
    <3>5. ASSUME NEW v, Stored(v)' PROVE Stored(v)
      BY ONLY <1>06, <3>3, <3>4, <3>5
    <3> QED BY <3>2, <3>5
  <2>17. \A x \in Writers, u \in WriteNumbers : Wakes(x, u)' => Wakes(x, u)
    BY <1>0, <1>08, <2>1, <2>5
  <2>18. GoneInv'
    BY <1>0, <1>07, <1>08, <2>1, <2>6, <2>9, <2>13, <2>16, <2>17, GoneKept
  <2> QED BY <2>15, <2>18
<1>6. ASSUME NEW c \in Coroutines, ReadFromWriter(c) PROVE CarryInv' /\ GoneInv'
  <2> DEFINE h == Head(writer_list)
             b == val[h]
             rs == << <<c, b>>, <<h, NoValue>> >>
  <2>1. /\ Fetch(c, b) /\ Suspend(c, rs) /\ buffer = <<>> /\ writer_list # <<>>
        /\ UNCHANGED <<reader_list, writes, buffer>> /\ c \in Readers
        /\ writer_list' = Tail(writer_list) /\ handed' = b
    BY <1>6 DEF ReadFromWriter, Fetch
  <2>2. h \in Writers /\ b \in WriteNumbers
    BY <1>0, <2>1, HeadWriter
  <2>3. \A x, v : Wakes(x, v)' <=> Wakes(x, v) \/ (x = h /\ v = NoValue) \/ (x = c /\ v = b)
    BY <2>1, <2>2, ReadPopsWriterPlaces
  <2>4. \A x \in Coroutines : x # c => val'[x] = val[x]
    BY <1>0, <2>1, <2>2, FetchTypes
  <2>5. \A x : Waiting(x) => Waiting(x)' \/ x = h
    <3>1. \A x : InList(writer_list, x) <=> InList(writer_list', x) \/ x = h
      BY <1>0, <2>1, ListTail
    <3>2. \A x : Waiting(x)' <=> InList(writer_list', x) \/ InList(reader_list', x)
      BY DEF Waiting, InList
    <3> QED BY <2>1, <3>1, <3>2, WaitingInLists
  <2>6. handed < b
    <3>1. h = writer_list[1] /\ 1 \in 1 .. Len(writer_list)
      BY <1>0, <2>1, ListTail
    <3> QED BY <3>1 DEF OrderInv
  <2>7. active = TRUE /\ UNCHANGED received
    BY <1>03, <2>1
  <2>8. \A x \in Readers, v \in WriteNumbers \cup {NoValue} :
            Carries(x, v)' <=> (x # c /\ pc[x] = "resumed" /\ val[x] = v) \/ Wakes(x, v)'
    BY <1>04, <2>1, <2>4
  <2>9. /\ \A x \in Coroutines : x # c => pc'[x] = pc[x]
        /\ ~Waiting(c) /\ pc[c] = "suspending"
        /\ \A v \in WriteNumbers \cup {NoValue} : ~Carries(c, v) /\ ~Wakes(c, v)
    BY <1>03, <2>1
  <2>10. \A v \in WriteNumbers : Kept(v) => Kept(v)' \/ v = b
    <3> SUFFICES ASSUME NEW v \in WriteNumbers, NEW d \in Writers, val[d] = v, v # b,
                        Waiting(d) \/ pc[d] = "destroyed"
                 PROVE  Kept(v)'
      <4>1. \A v : ~InList(buffer, v)
        BY <2>1 DEF InList
      <4> QED BY <1>02, <4>1
    <3>1. d # h /\ d # c
      BY <1>0, <2>1
    <3> QED BY <1>0, <1>02, <2>4, <2>5, <2>9, <3>1
  <2> HIDE DEF b, h, rs
  <2>11. \A x \in Readers, v \in WriteNumbers \cup {NoValue} :
            Carries(x, v)' <=> Carries(x, v) \/ (x = c /\ v = b)
    BY <1>0, <2>2, <2>3, <2>8, <2>9 DEF Carries
  <2>12. CarryInv'
    BY <2>1, <2>2, <2>6, <2>7, <2>10, <2>11, CarryHanded
  <2>13. Stored(b) /\ \A v \in 1 .. writes : Stored(v)' => Stored(v)
    <3>1. \A x : InList(writer_list, x) <=> InList(writer_list', x) \/ x = h
      BY <1>0, <2>1, ListTail DEF h
    <3>2. b = val[h]
      BY DEF b
    <3> QED BY <1>0, <1>06, <1>07, <2>1, <2>2, <2>4, <3>1, <3>2
  <2>14. \A x \in Writers, u \in WriteNumbers : Wakes(x, u)' => Wakes(x, u)
    BY <1>0, <1>08, <2>1, <2>3
  <2>15. GoneInv'
    BY <1>0, <1>07, <1>08, <2>1, <2>4, <2>7, <2>11, <2>13, <2>14, GoneKept
  <2> QED BY <2>12, <2>15
<1>7. ASSUME NEW c \in Coroutines, ReadWaits(c) PROVE CarryInv' /\ GoneInv'
  <2>1. /\ Suspend(c, <<>>) /\ UNCHANGED <<buffer, writer_list, writes, handed>>
        /\ c \in Readers /\ reader_list' = Append(reader_list, c)
        /\ \A x \in Coroutines : x # c => val'[x] = val[x]
    BY <1>0, <1>7 DEF ReadWaits, ChannelTypeOK
  <2>2. \A x, v : Wakes(x, v)' <=> Wakes(x, v)
    BY <1>7, WaitsPlaces
  <2>3. \A x \in Readers, v \in WriteNumbers \cup {NoValue} : Carries(x, v)' <=> Carries(x, v)
    BY <1>0, <1>03, <1>04, <2>1, <2>2 DEF Carries
  <2>4. \A x : Waiting(x) => Waiting(x)'
    <3>1. \A x : InList(reader_list', x) <=> InList(reader_list, x) \/ x = c
      BY <1>0, <2>1, ListAppend
    <3>2. \A x : Waiting(x)' <=> InList(writer_list', x) \/ InList(reader_list', x)
      BY DEF Waiting, InList
    <3> QED BY <2>1, <3>1, <3>2, WaitingInLists
  <2>5. \A v \in WriteNumbers : Kept(v) => Kept(v)'
    BY <1>05, <2>1, <2>4
  <2>6. active = TRUE /\ UNCHANGED received
    BY <1>03, <2>1
  <2>7. CarryInv'
    BY <2>1, <2>3, <2>5, <2>6, CarryKept
  <2>8. \A v \in 1 .. writes : Stored(v)' => Stored(v)
    BY <1>0, <1>06, <1>07, <2>1
  <2>9. GoneInv'
    BY <1>0, <1>07, <1>08, <2>1, <2>2, <2>3, <2>6, <2>8, GoneKept
  <2> QED BY <2>7, <2>9
<1>8. ASSUME NEW c \in Coroutines, Resume(c) PROVE CarryInv' /\ GoneInv'
  <2>1. PICK w \in Coroutines, v \in WriteNumbers \cup {NoValue} :
          /\ Wakes(w, v) /\ \A u : Wakes(w, u) => u = v
          /\ pc[w] = "suspended"
          /\ pc' = [pc EXCEPT ![w] = "resumed"]
          /\ val' = IF w \in Readers THEN [val EXCEPT ![w] = v] ELSE val
          /\ \A x, u : Wakes(x, u)' <=> Wakes(x, u) /\ x # w
    BY <1>8, ResumePlaces
  <2>2. /\ UNCHANGED <<buffer, writer_list, reader_list, writes, handed, received>>
        /\ active = TRUE
    BY <1>8, <1>01 DEF Resume, channel, calls
  <2>3. /\ pc'[w] = "resumed" /\ \A x \in Coroutines : x # w => pc'[x] = pc[x]
        /\ w \in Readers => val'[w] = v
        /\ \A x \in Coroutines : x # w => val'[x] = val[x]
        /\ \A x \in Writers : val'[x] = val[x]
    BY <1>0, <2>1 DEF ChannelTypeOK
  <2>4. ASSUME NEW x \in Readers, NEW u \in WriteNumbers \cup {NoValue}
        PROVE  Carries(x, u)' <=> Carries(x, u)
    <3>1. CASE x = w
      BY <2>1, <2>3, <3>1 DEF Carries
    <3>2. CASE x # w
      BY <1>0, <2>1, <2>3, <3>2 DEF Carries
    <3> QED BY <3>1, <3>2
  <2>5. \A x : Waiting(x)' <=> Waiting(x)
    BY <2>2 DEF Waiting
  <2>6. \A u \in WriteNumbers : Kept(u) => Kept(u)'
    BY <1>0, <1>02, <2>1, <2>2, <2>3, <2>5
  <2>7. CarryInv'
    BY <2>2, <2>4, <2>6, CarryKept
  <2>8. \A u \in 1 .. writes : Stored(u)' => Stored(u)
    BY <1>06, <2>2, <2>3
  <2>9. /\ \A x \in Writers : pc'[x] = "destroyed" => pc[x] = "destroyed" /\ val'[x] = val[x]
        /\ \A x \in Writers, u \in WriteNumbers : Wakes(x, u)' => Wakes(x, u)
    BY <1>0, <2>1, <2>3
  <2>10. GoneInv'
    BY <1>0, <1>08, <2>2, <2>4, <2>8, <2>9, GoneKept
  <2> QED BY <2>7, <2>10
<1>9. ASSUME NEW c \in Coroutines, Enter(c) \/ PushToClosed(c) \/ Continue(c)
      PROVE  CarryInv' /\ GoneInv'
  <2>1. /\ UNCHANGED <<channel, val, wake, writes, handed>>
        /\ pc[c] # "suspended" /\ pc'[c] \notin {"suspended", "resumed", "destroyed"}
        /\ pc[c] # "destroyed" /\ wake[c] = <<>>
        /\ \A x \in Coroutines : x # c => pc'[x] = pc[x]
    BY <1>9, AlonePlaces
  <2>2. active = TRUE /\ UNCHANGED <<buffer, writer_list, reader_list>>
    BY <2>1, <1>01 DEF channel
  <2>3. ~Woken(c)
    BY <2>1 DEF PlaceInv, NoneStranded
  <2>4. /\ \A x, v : Wakes(x, v)' <=> Wakes(x, v)
        /\ \A x : Waiting(x)' <=> Waiting(x)
        /\ \A v \in WriteNumbers \cup {NoValue} : ~Wakes(c, v)
    BY <1>0, <2>1, <2>2, <2>3, WokenIsWakes DEF Wakes, Waiting
  <2>5. \A x \in Readers, v \in WriteNumbers \cup {NoValue} :
           Carries(x, v)' <=> Carries(x, v) /\ x # c
    BY <1>0, <2>1, <2>4 DEF Carries
  <2>6. \A v \in WriteNumbers : Kept(v) => Kept(v)'
    BY <1>0, <1>02, <2>1, <2>2, <2>4
  <2>9. /\ \A v \in 1 .. writes : Stored(v)' => Stored(v)
        /\ \A x \in Writers : pc'[x] = "destroyed" => pc[x] = "destroyed" /\ val'[x] = val[x]
    BY <1>0, <1>06, <2>1, <2>2
  <2>7. CASE pc[c] = "resumed" /\ c \in Readers
    <3> DEFINE v == val[c]
    <3>1. Continue(c)
      BY <1>9, <2>7 DEF Enter, PushToClosed
    <3>2. received' = [received EXCEPT ![v] = @ + 1]
      BY <2>2, <2>7, <3>1 DEF Continue
    <3>3. v \in WriteNumbers \cup {NoValue} /\ Carries(c, v)
      BY <1>0, <2>7 DEF ChannelTypeOK, Carries
    <3>4. v \in WriteNumbers /\ received[v] = 0 /\ v <= handed
      BY <2>2, <2>7, <3>3 DEF CarryInv
    <3> HIDE DEF v
    <3>5. received'[v] = 1 /\ \A u \in WriteNumbers : u # v => received'[u] = received[u]
      BY <1>0, <3>2, <3>4 DEF ChannelTypeOK
    <3>6. /\ 1 .. writes \subseteq WriteNumbers /\ WriteNumbers \subseteq Nat
      BY <1>0, ChannelAssumption DEF ChannelTypeOK, WriteNumbers
    <3>7. ASSUME NEW x \in Readers, NEW u \in WriteNumbers \cup {NoValue}, Carries(x, u)'
          PROVE  /\ u # NoValue /\ u <= handed' /\ received'[u] = 0
                 /\ \A d \in Readers : Carries(d, u)' => x = d
      <4>1. Carries(x, u) /\ x # c
        BY <2>5, <3>7
      <4>2. u # NoValue /\ u <= handed /\ received[u] = 0
            /\ \A d \in Readers : Carries(d, u) => x = d
        BY <2>2, <4>1 DEF CarryInv
      <4>3. u # v
        BY <2>7, <3>3, <4>1, <4>2
      <4> QED BY <2>1, <2>5, <3>5, <4>2, <4>3
    <3>8. \A u \in WriteNumbers : /\ received'[u] \in {0, 1}
                                  /\ u > handed' => received'[u] = 0
      <4>1. \A u \in WriteNumbers : /\ received[u] \in {0, 1}
                                    /\ u > handed => received[u] = 0
        BY <2>2 DEF CarryInv
      <4>2. handed' = handed /\ handed \in Nat /\ v \in Nat
        BY <1>0, <2>1, <3>4, <3>6
      <4>3. ASSUME NEW u \in WriteNumbers, u # v
            PROVE  received'[u] \in {0, 1} /\ (u > handed' => received'[u] = 0)
        BY <3>5, <4>1, <4>2, <4>3
      <4>4. received'[v] \in {0, 1} /\ ~(v > handed')
        BY <3>4, <3>5, <4>2
      <4> QED BY <4>3, <4>4
    <3>9. ASSUME NEW u \in 1 .. writes'
          PROVE Kept(u)' \/ received'[u] = 1 \/ \E x \in Readers : Carries(x, u)'
      <4>1. u \in 1 .. writes /\ u \in WriteNumbers
        BY <2>1, <3>6
      <4>2. Kept(u) \/ received[u] = 1 \/ \E x \in Readers : Carries(x, u)
        BY <2>2, <4>1 DEF CarryInv, Kept
      <4>3. CASE u = v
        BY <3>5, <4>3
      <4>4. CASE u # v
        <5>1. ~Carries(c, u)
          BY <2>3, <2>4, <2>7, <4>1, <4>4 DEF Carries, v
        <5> QED BY <2>5, <2>6, <3>5, <4>1, <4>2, <4>4, <5>1
      <4> QED BY <4>3, <4>4
    <3>10. CarryInv'
      BY <3>7, <3>8, <3>9 DEF CarryInv, Kept
    <3>11. \A u \in 1 .. writes : received'[u] = received[u] \/ \E d \in Readers : Carries(d, u)
      BY <2>7, <3>3, <3>5, <3>6
    <3> QED BY <1>0, <1>08, <2>1, <2>2, <2>4, <2>5, <2>9, <3>10, <3>11, GoneKept
  <2>8. CASE ~(pc[c] = "resumed" /\ c \in Readers)
    <3>1. UNCHANGED received
      BY <1>9, <2>8 DEF Enter, PushToClosed, Continue, calls
    <3>2. \A x \in Readers, v \in WriteNumbers \cup {NoValue} : Carries(x, v)' <=> Carries(x, v)
      BY <2>4, <2>5, <2>8 DEF Carries
    <3>3. CarryInv'
      BY <2>1, <2>2, <2>6, <3>1, <3>2, CarryKept
    <3>4. GoneInv'
      BY <1>0, <1>08, <2>1, <2>2, <2>4, <2>9, <3>1, <3>2, GoneKept
    <3> QED BY <3>3, <3>4
  <2> QED BY <2>7, <2>8
<1>10. ASSUME NEW c \in Coroutines, Destroy(c) PROVE CarryInv' /\ GoneInv'
  <2>1. /\ Waiting(c) /\ \A x : Waiting(x)' <=> Waiting(x) /\ x # c
        /\ pc' = [pc EXCEPT ![c] = "destroyed"]
    BY <1>10, DestroyPlaces
  <2>2. /\ UNCHANGED <<buffer, val, wake, writes, handed, received>> /\ active = TRUE
    BY <1>10, <1>01 DEF Destroy, calls
  <2>3. /\ pc[c] = "suspended" /\ pc'[c] = "destroyed"
        /\ \A x \in Coroutines : x # c => pc'[x] = pc[x]
    BY <1>0, <2>1 DEF ChannelTypeOK, PlaceInv, NoneStranded
  <2>4. \A x, v : Wakes(x, v)' <=> Wakes(x, v)
    BY <2>2 DEF Wakes
  <2>5. \A x \in Readers, v \in WriteNumbers \cup {NoValue} : Carries(x, v)' <=> Carries(x, v)
    BY <1>0, <2>2, <2>3, <2>4 DEF Carries
  <2>6. \A v \in WriteNumbers : Kept(v) => Kept(v)'
    BY <1>0, <1>02, <2>1, <2>2, <2>3
  <2>7. CarryInv'
    BY <2>2, <2>5, <2>6, CarryKept
  <2>8. \A v : Stored(v)' <=> InBuffer(v) \/ \E x \in Writers : Waiting(x) /\ x # c /\ val[x] = v
    BY <2>1, <2>2 DEF Stored, InBuffer
  <2>9. CASE c \notin Writers
    <3>1. /\ \A v \in 1 .. writes : Stored(v)' => Stored(v)
          /\ \A x \in Writers : pc'[x] = "destroyed" => pc[x] = "destroyed" /\ val'[x] = val[x]
      BY <1>0, <2>2, <2>3, <2>8, <2>9 DEF Stored
    <3>2. GoneInv'
      BY <1>0, <1>08, <2>2, <2>4, <2>5, <3>1, GoneKept
    <3> QED BY <2>7, <3>2
  <2>10. CASE c \in Writers
    <3>1. PICK i \in 1 .. Len(writer_list) : writer_list[i] = c
      BY <1>0, <2>1, <2>10 DEF Waiting
    <3>2. PICK b : b = val[c]
      OBVIOUS
    <3>3. Stored(b) /\ handed < b /\ b <= writes /\ b \in WriteNumbers
      <4>1. handed < b /\ b <= writes /\ b \in WriteNumbers \cup {NoValue}
        BY <1>0, <3>1, <3>2 DEF OrderInv, ChannelTypeOK
      <4>2. b # NoValue
        BY <1>0, <4>1 DEF NoValue
      <4> QED BY <2>1, <2>10, <3>2, <4>1, <4>2 DEF Stored
    <3>4. b \in 1 .. writes
      BY <1>0, <3>3 DEF WriteNumbers
    <3>5. ~Stored(b)'
      <4>1. ~InBuffer(b)
        <5>1. b \in Nat /\ ~(b < b) /\ val[writer_list[i]] = b
          BY <1>0, <3>1, <3>2, <3>4
        <5> QED BY <3>1, <5>1 DEF OrderInv, InBuffer
      <4>2. ASSUME NEW x \in Writers, Waiting(x), x # c PROVE val[x] # b
        <5>1. PICK j \in 1 .. Len(writer_list) : writer_list[j] = x
          BY <1>0, <4>2 DEF Waiting
        <5>2. i < j \/ j < i
          BY <1>0, <3>1, <4>2, <5>1
        <5>3. val[x] \in Int /\ b \in Int
          BY <1>0, <4>2, <3>3 DEF ChannelTypeOK, WriteNumbers, NoValue
        <5> QED BY <3>1, <3>2, <5>1, <5>2, <5>3 DEF OrderInv
      <4> QED BY <2>8, <4>1, <4>2
    <3>6. received[b] = 0 /\ \A x \in Readers : ~Carries(x, b)
      <4>1. b > handed /\ ~(b <= handed)
        BY <1>0, <3>3, <3>4
      <4> QED BY <2>2, <3>3, <4>1 DEF CarryInv
    <3>7. \A w \in Writers : pc[w] = "destroyed" => val[w] # b
      BY <2>2, <3>3 DEF GoneInv
    <3>8. \A v : Stored(v)' => Stored(v)
      BY <2>8 DEF Stored
    <3>9. ASSUME NEW w \in Writers, pc'[w] = "destroyed"
          PROVE  /\ val[w] \in 1 .. writes /\ ~Stored(val[w])' /\ received[val[w]] = 0
                 /\ \A x \in Readers : ~Carries(x, val[w])
                 /\ \A x \in Writers : pc'[x] = "destroyed" /\ val[x] = val[w] => x = w
      <4>1. CASE w = c
        <5>1. Stored(val[w])' <=> Stored(b)'
          BY <2>2, <3>2, <4>1 DEF Stored, InBuffer
        <5> QED BY <1>0, <2>3, <3>2, <3>4, <3>5, <3>6, <3>7, <4>1, <5>1
      <4>2. CASE w # c
        <5>1. pc[w] = "destroyed"
          BY <1>0, <2>3, <3>9, <4>2
        <5>2. PICK u : u = val[w]
          OBVIOUS
        <5>3. Stored(val[w])' <=> Stored(u)'
          BY <2>2, <5>2 DEF Stored, InBuffer
        <5>4. /\ u \in 1 .. writes /\ ~Stored(u) /\ received[u] = 0
              /\ \A x \in Readers : ~Carries(x, u)
              /\ \A x \in Writers : pc[x] = "destroyed" /\ val[x] = u => x = w
          BY <2>2, <5>1, <5>2 DEF GoneInv
        <5>5. u # b
          BY <3>7, <5>1, <5>2
        <5> QED BY <1>0, <2>3, <3>2, <3>8, <5>2, <5>3, <5>4, <5>5
      <4> QED BY <4>1, <4>2
    <3>10. GoneInv'
      <4>1. \A x \in Readers, w \in Writers : Carries(x, val[w])' <=> Carries(x, val[w])
        BY <1>0, <2>2, <2>3, <2>4 DEF Carries
      <4> QED BY <2>2, <2>4, <3>9, <4>1 DEF GoneInv
    <3> QED BY <2>7, <3>10
  <2> QED BY <2>9, <2>10
<1>11. CASE Close \/ clean_up
  BY <1>01, <1>11 DEF Close, clean_up
<1> QED BY <1>1, <1>2, <1>3, <1>4, <1>5, <1>6, <1>7, <1>8, <1>9, <1>10, <1>11
        DEF ChannelNext, Step, try_push_writer, try_push_reader

-----------------------------------------------------------------------------
(* The new channel.                                                        *)
LEMMA InvInit ==
  ASSUME ChannelInit PROVE Inv
<1>1. ChannelTypeOK
  <2>1. /\ active \in BOOLEAN /\ cleaned \in BOOLEAN /\ buffer_capacity \in Capacities
    BY DEF ChannelInit
  <2>2. /\ buffer \in Seq(WriteNumbers) /\ writer_list \in Seq(Writers) /\ reader_list \in Seq(Readers)
    BY DEF ChannelInit
  <2>3. /\ pc \in [Coroutines -> PCs] /\ val \in [Coroutines -> WriteNumbers \cup {NoValue}]
    BY DEF ChannelInit, PCs
  <2>4. /\ wake \in [Coroutines -> Resumes]
    BY NoTarget DEF ChannelInit
  <2>5. /\ writes \in 0 .. MaxWrites /\ handed \in 0 .. MaxWrites
        /\ received \in [WriteNumbers -> Nat]
    BY ChannelAssumption DEF ChannelInit, NoValue
  <2> QED BY <2>1, <2>2, <2>3, <2>4, <2>5 DEF ChannelTypeOK, Resumes
<1>2. ShapeInv
  BY <1>1, ChannelAssumption DEF ChannelInit, ShapeInv, NoNeedlessWait
<1>3. /\ \A x : ~Waiting(x) /\ ~Woken(x)
      /\ \A x, v : ~Wakes(x, v)
  BY DEF ChannelInit, Waiting, Woken, Wakes
<1>4. PlaceInv
  <2>1. NoneStranded
    BY <1>3 DEF ChannelInit, NoneStranded
  <2>2. WakeOnce /\ NoDuplicates(writer_list) /\ NoDuplicates(reader_list)
    BY DEF ChannelInit, WakeOnce, NoDuplicates
  <2>3. \A c \in Coroutines : wake[c] = <<>>
    BY DEF ChannelInit
  <2> QED BY <1>3, <2>1, <2>2, <2>3 DEF PlaceInv
<1>5. OrderInv
  BY DEF ChannelInit, OrderInv, NoValue
<1>6. CarryInv
  <2>1. \A c \in Readers : \A v : ~Carries(c, v)
    BY <1>3 DEF ChannelInit, Carries, Coroutines
  <2> QED BY <2>1 DEF ChannelInit, CarryInv
<1>7. GoneInv
  BY <1>3 DEF ChannelInit, GoneInv, Coroutines
<1> QED BY <1>2, <1>4, <1>5, <1>6, <1>7 DEF Inv

(* The inductive invariant of the channel.                                 *)
THEOREM Invariance == ChannelSpec => []Inv
<1>1. ChannelInit => Inv
  BY InvInit
<1>2. Inv /\ [ChannelNext]_channelVars => Inv'
  <2> SUFFICES ASSUME Inv, [ChannelNext]_channelVars PROVE Inv'
    OBVIOUS
  <2>1. CASE ChannelNext
    <3>1. ShapeInv' /\ OrderInv' /\ PlaceInv'
      BY <2>1, ShapeStep, OrderStep, PlaceStep DEF Inv, PlaceInv
    <3> QED BY <2>1, <3>1, CarryStep DEF Inv
  <2>2. CASE UNCHANGED channelVars
    <3> USE <2>2 DEF channelVars, channel, calls
    <3>1. ShapeInv'
      BY DEF Inv, ShapeInv, ChannelTypeOK, NoNeedlessWait
    <3>2. OrderInv'
      BY DEF Inv, OrderInv
    <3>3. /\ \A x : Waiting(x)' <=> Waiting(x)
          /\ \A x : Woken(x)' <=> Woken(x)
          /\ \A x, v : Wakes(x, v)' <=> Wakes(x, v)
          /\ \A x, v : Carries(x, v)' <=> Carries(x, v)
      BY DEF Waiting, Woken, Wakes, Carries
    <3>4. PlaceInv'
      <4>1. NoneStranded' /\ WakeOnce'
        BY <3>3 DEF Inv, PlaceInv, NoneStranded, WakeOnce
      <4> QED BY <3>3, <4>1 DEF Inv, PlaceInv
    <3>5. CarryInv'
      BY <3>3 DEF Inv, CarryInv, InBuffer, AtWriter
    <3>6. GoneInv'
      <4>1. \A v : Stored(v)' <=> Stored(v)
        BY <3>3 DEF Stored, InBuffer
      <4>2. \A w \in Writers : /\ Stored(val[w])' <=> Stored(val[w])
                               /\ \A c \in Readers : Carries(c, val[w])' <=> Carries(c, val[w])
        BY DEF Stored, InBuffer, Waiting, Carries, Wakes
      <4> QED BY <3>3, <4>2 DEF Inv, GoneInv
    <3> QED BY <3>1, <3>2, <3>4, <3>5, <3>6 DEF Inv
  <2> QED BY <2>1, <2>2
<1> QED BY <1>1, <1>2, PTL DEF ChannelSpec

(* Type correctness.                                                       *)
THEOREM TypeCorrect == ChannelSpec => []ChannelTypeOK
<1>1. Inv => ChannelTypeOK
  BY DEF Inv, ShapeInv
<1> QED BY <1>1, Invariance, PTL

(* Nobody waits for what is there, whatever the capacity, 0 included.      *)
THEOREM WaitsOnlyIfNeeded == ChannelSpec => []NoNeedlessWait
<1>1. Inv => NoNeedlessWait
  BY DEF Inv, ShapeInv
<1> QED BY <1>1, Invariance, PTL

(* Values leave the channel in the order in which the writes got hold of   *)
(* it, also when waiting writers refill the buffer or are destroyed.       *)
THEOREM FirstInFirstOut == ChannelSpec => []Fifo
<1>1. Inv => Fifo
  <2> SUFFICES ASSUME Inv PROVE Fifo
    OBVIOUS
  <2> DEFINE m == Len(buffer)
             n == Len(writer_list)
             w == [i \in 1 .. n |-> val[writer_list[i]]]
  <2>1. /\ m \in Nat /\ n \in Nat /\ buffer \in Seq(WriteNumbers)
        /\ \A i \in 1 .. n : val[writer_list[i]] \in WriteNumbers \cup {NoValue}
    BY DEF Inv, ShapeInv, ChannelTypeOK, Coroutines
  <2>2. w \in Seq(WriteNumbers \cup {NoValue}) /\ Len(w) = n
    BY <2>1
  <2>3. /\ Len(InChannel) = m + n
        /\ \A i \in 1 .. m + n : InChannel[i] = IF i <= m THEN buffer[i] ELSE w[i - m]
    BY <2>1, <2>2 DEF InChannel
  <2>4. \A i \in 1 .. n : w[i] = val[writer_list[i]]
    OBVIOUS
  <2> HIDE DEF w
  <2>5. /\ \A i \in 1 .. m : handed < buffer[i]
        /\ \A i \in 1 .. n : handed < w[i]
        /\ \A i, j \in 1 .. m : i < j => buffer[i] < buffer[j]
        /\ \A i, j \in 1 .. n : i < j => w[i] < w[j]
        /\ \A i \in 1 .. m, j \in 1 .. n : buffer[i] < w[j]
    BY <2>4 DEF Inv, OrderInv
  <2>6. SUFFICES ASSUME NEW j \in 1 .. m + n
                 PROVE  /\ handed < InChannel[j]
                        /\ \A i \in 1 .. j - 1 : InChannel[i] < InChannel[j]
    BY <2>3 DEF Fifo
  <2>7. CASE j <= m
    BY <2>1, <2>3, <2>5, <2>7
  <2>8. CASE ~(j <= m)
    <3>1. j - m \in 1 .. n /\ InChannel[j] = w[j - m]
      BY <2>1, <2>3, <2>8
    <3>2. ASSUME NEW i \in 1 .. j - 1 PROVE InChannel[i] < InChannel[j]
      <4>1. CASE i <= m
        BY <2>1, <2>3, <2>5, <3>1, <4>1
      <4>2. CASE ~(i <= m)
        <5>1. i - m \in 1 .. n /\ i - m < j - m /\ InChannel[i] = w[i - m]
          BY <2>1, <2>3, <4>2
        <5> QED BY <2>5, <3>1, <5>1
      <4> QED BY <4>1, <4>2
    <3> QED BY <2>5, <3>1, <3>2
  <2> QED BY <2>7, <2>8
<1> QED BY <1>1, Invariance, PTL

(* No coroutine is stranded or resumed twice, however calls, close() and   *)
(* destructors interleave.                                                 *)
THEOREM NobodyStranded == ChannelSpec => []NoneStranded
<1>1. Inv => NoneStranded
  BY DEF Inv, PlaceInv
<1> QED BY <1>1, Invariance, PTL

(* A place where a value can be.                                           *)
LEMMA PlacesAre ==
  ASSUME NEW v, NEW p
  PROVE  p \in Places(v) <=>
           \/ \E i \in 1 .. Len(buffer) : buffer[i] = v /\ p = <<"buffer", i>>
           \/ \E c \in Writers : /\ val[c] = v /\ (Waiting(c) \/ pc[c] = "destroyed")
                                 /\ p = <<"writer", c>>
           \/ \E c \in Coroutines : \E i \in 1 .. Len(wake[c]) :
                wake[c][i][2] = v /\ p = <<"resume", c, i>>
           \/ \E c \in Readers : val[c] = v /\ pc[c] = "resumed" /\ p = <<"reader", c>>
           \/ \E n \in 1 .. received[v] : p = <<"received", n>>
<1> DEFINE B == {<<"buffer", i>> : i \in {j \in 1 .. Len(buffer) : buffer[j] = v}}
           W == {<<"writer", c>> : c \in {d \in Writers :
                   val[d] = v /\ (Waiting(d) \/ pc[d] = "destroyed")}}
           S(c) == {<<"resume", c, i>> : i \in {j \in 1 .. Len(wake[c]) : wake[c][j][2] = v}}
           U == UNION {S(c) : c \in Coroutines}
           R == {<<"reader", c>> : c \in {d \in Readers : val[d] = v /\ pc[d] = "resumed"}}
           E == {<<"received", n>> : n \in 1 .. received[v]}
<1>0. Places(v) = B \cup W \cup U \cup R \cup E
  BY DEF Places
<1>2. p \in B <=> \E i \in 1 .. Len(buffer) : buffer[i] = v /\ p = <<"buffer", i>>
  OBVIOUS
<1>3. p \in W <=> \E c \in Writers : /\ val[c] = v /\ (Waiting(c) \/ pc[c] = "destroyed")
                                     /\ p = <<"writer", c>>
  OBVIOUS
<1>4. \A c : p \in S(c) <=> \E i \in 1 .. Len(wake[c]) : wake[c][i][2] = v /\ p = <<"resume", c, i>>
  OBVIOUS
<1>5. p \in R <=> \E c \in Readers : val[c] = v /\ pc[c] = "resumed" /\ p = <<"reader", c>>
  OBVIOUS
<1>6. p \in E <=> \E n \in 1 .. received[v] : p = <<"received", n>>
  OBVIOUS
<1>7. p \in U <=> \E c \in Coroutines : p \in S(c)
  BY Zenon
<1> HIDE DEF B, W, S, U, R, E
<1>1. p \in Places(v) <=> p \in B \/ p \in W \/ p \in U \/ p \in R \/ p \in E
  BY <1>0
<1> QED BY <1>1, <1>2, <1>3, <1>4, <1>5, <1>6, <1>7

(* A written value is at one place, and at no other.                       *)
LEMMA OnePlace ==
  ASSUME Inv, active, NEW v \in 1 .. writes
  PROVE  \E p \in Places(v) : Places(v) = {p}
<1>0. /\ ChannelTypeOK /\ Readers \subseteq Coroutines /\ Writers \subseteq Coroutines
      /\ buffer \in Seq(WriteNumbers) /\ writer_list \in Seq(Writers)
      /\ reader_list \in Seq(Readers) /\ handed \in Nat
      /\ \A c \in Readers : c \notin Writers
  BY ChannelAssumption DEF Inv, ShapeInv, ChannelTypeOK, Coroutines
<1>01. v \in WriteNumbers /\ v # NoValue /\ v \in Nat /\ v <= writes
  BY <1>0, ChannelAssumption DEF ChannelTypeOK, WriteNumbers, NoValue
<1>02. received[v] \in {0, 1} /\ (v > handed => received[v] = 0)
  BY <1>01 DEF Inv, CarryInv
<1> DEFINE Buf(i) == i \in 1 .. Len(buffer) /\ buffer[i] = v
           Wr(c)  == c \in Writers /\ val[c] = v /\ (Waiting(c) \/ pc[c] = "destroyed")
           Res(c, i) == c \in Coroutines /\ i \in 1 .. Len(wake[c]) /\ wake[c][i][2] = v
           Rd(c)  == c \in Readers /\ val[c] = v /\ pc[c] = "resumed"
(* A call resumes a reader with the value, ...                             *)
<1>1. ASSUME NEW c, NEW i, Res(c, i)
      PROVE  wake[c][i][1] \in Readers /\ Wakes(wake[c][i][1], v)
  <2>1. wake[c][i] \in Coroutines \X (WriteNumbers \cup {NoValue})
    BY <1>0, <1>1 DEF ChannelTypeOK
  <2>2. PICK x \in Coroutines, u \in WriteNumbers \cup {NoValue} : wake[c][i] = <<x, u>>
    BY <2>1
  <2>3. wake[c][i][1] = x /\ wake[c][i][2] = u /\ u = v
    BY <1>1, <2>2
  <2>4. Wakes(x, v)
    BY <1>1, <2>2, <2>3 DEF Wakes
  <2>5. x \in Readers
    BY <1>01, <2>2, <2>4 DEF Inv, GoneInv, Coroutines
  <2> QED BY <2>3, <2>4, <2>5
(* ... who carries it, then and after it was resumed.                      *)
<1>2. ASSUME NEW c \in Readers, NEW d \in Readers, Carries(c, v), Carries(d, v)
      PROVE  c = d /\ v <= handed /\ received[v] = 0
  BY <1>01, <1>2 DEF Inv, CarryInv
<1>3. \A c : Rd(c) => Carries(c, v)
  BY DEF Carries
<1>4. \A c, i : Res(c, i) => Carries(wake[c][i][1], v)
  BY <1>1 DEF Carries
(* No two places of a kind.                                                *)
<1>5. ASSUME NEW i, NEW j, Buf(i), Buf(j) PROVE i = j
  <2>1. i < j \/ j < i \/ i = j
    BY <1>0, <1>5
  <2>2. buffer[i] = v /\ buffer[j] = v /\ ~(v < v)
    BY <1>01, <1>5
  <2> QED BY <1>5, <2>1, <2>2 DEF Inv, OrderInv
<1>6. ASSUME NEW c, NEW d, Wr(c), Wr(d) PROVE c = d
  <2>1. CASE pc[c] = "destroyed" /\ pc[d] = "destroyed"
    BY <1>6, <2>1 DEF Inv, GoneInv
  <2>2. CASE Waiting(c) /\ Waiting(d)
    <3>1. PICK i \in 1 .. Len(writer_list) : writer_list[i] = c
      BY <1>0, <1>6, <2>2 DEF Waiting
    <3>2. PICK j \in 1 .. Len(writer_list) : writer_list[j] = d
      BY <1>0, <1>6, <2>2 DEF Waiting
    <3>3. i < j \/ j < i \/ i = j
      BY <1>0
    <3>4. val[writer_list[i]] = v /\ val[writer_list[j]] = v /\ ~(v < v)
      BY <1>01, <1>6, <3>1, <3>2
    <3>5. i = j
      BY <3>3, <3>4 DEF Inv, OrderInv
    <3> QED BY <3>1, <3>2, <3>5
  <2>3. CASE pc[c] = "destroyed" /\ Waiting(d)
    BY <1>6, <2>3 DEF Inv, GoneInv, Stored
  <2>4. CASE Waiting(c) /\ pc[d] = "destroyed"
    BY <1>6, <2>4 DEF Inv, GoneInv, Stored
  <2> QED BY <1>6, <2>1, <2>2, <2>3, <2>4
<1>7. ASSUME NEW c, NEW i, NEW d, NEW j, Res(c, i), Res(d, j) PROVE c = d /\ i = j
  <2>1. wake[c][i][1] = wake[d][j][1]
    BY <1>1, <1>2, <1>4, <1>7
  <2> QED BY <1>7, <2>1 DEF Inv, PlaceInv, WakeOnce
<1>8. ASSUME NEW c, NEW d, Rd(c), Rd(d) PROVE c = d
  BY <1>2, <1>3, <1>8
(* And no two of different kinds.                                          *)
<1>9. ASSUME NEW i, NEW c, Buf(i), Wr(c) PROVE FALSE
  <2>1. CASE pc[c] = "destroyed"
    BY <1>9, <2>1 DEF Inv, GoneInv, Stored, InBuffer
  <2>2. CASE Waiting(c)
    <3>1. PICK j \in 1 .. Len(writer_list) : writer_list[j] = c
      BY <1>0, <1>9, <2>2 DEF Waiting
    <3>2. v < v
      BY <1>9, <3>1 DEF Inv, OrderInv
    <3> QED BY <1>01, <3>2
  <2> QED BY <1>9, <2>1, <2>2
<1>10. ASSUME NEW i, Buf(i) PROVE handed < v
  BY <1>10 DEF Inv, OrderInv
<1>11. ASSUME NEW c, Wr(c)
       PROVE  received[v] = 0 /\ \A x \in Readers : ~Carries(x, v)
  <2>1. CASE pc[c] = "destroyed"
    BY <1>11, <2>1 DEF Inv, GoneInv
  <2>2. CASE Waiting(c)
    <3>1. PICK j \in 1 .. Len(writer_list) : writer_list[j] = c
      BY <1>0, <1>11, <2>2 DEF Waiting
    <3>2. handed < v
      BY <1>11, <3>1 DEF Inv, OrderInv
    <3> QED BY <1>0, <1>01, <1>02, <1>2, <3>2
  <2> QED BY <1>11, <2>1, <2>2
<1>12. ASSUME NEW i, Buf(i)
       PROVE  received[v] = 0 /\ \A x \in Readers : ~Carries(x, v)
  BY <1>0, <1>01, <1>02, <1>2, <1>10, <1>12
<1>13. ASSUME NEW c, NEW d, NEW j, Rd(c), Res(d, j) PROVE FALSE
  <2>1. c = wake[d][j][1]
    BY <1>1, <1>2, <1>3, <1>4, <1>13
  <2>2. Woken(c)
    BY <1>13, <2>1 DEF Woken
  <2> QED BY <1>0, <1>13, <2>2 DEF Inv, PlaceInv, NoneStranded
<1>14. \/ \E i : Buf(i)
       \/ \E c : Wr(c)
       \/ \E c, i : Res(c, i)
       \/ \E c : Rd(c)
       \/ received[v] = 1
  <2>1. InBuffer(v) \/ AtWriter(v) \/ received[v] = 1 \/ \E c \in Readers : Carries(c, v)
    BY DEF Inv, CarryInv
  <2>2. ASSUME NEW c \in Readers, Wakes(c, v) PROVE \E d, i : Res(d, i)
    <3>1. PICK d \in Coroutines : \E i \in 1 .. Len(wake[d]) : wake[d][i] = <<c, v>>
      BY <2>2 DEF Wakes
    <3>2. \E i \in 1 .. Len(wake[d]) : wake[d][i][2] = v
      BY <3>1
    <3> QED BY <3>2
  <2> QED BY <2>1, <2>2 DEF InBuffer, AtWriter, Carries
<1>15. \A p : p \in Places(v) <=>
          \/ \E i : Buf(i) /\ p = <<"buffer", i>>
          \/ \E c : Wr(c) /\ p = <<"writer", c>>
          \/ \E c, i : Res(c, i) /\ p = <<"resume", c, i>>
          \/ \E c : Rd(c) /\ p = <<"reader", c>>
          \/ received[v] = 1 /\ p = <<"received", 1>>
  <2> TAKE p
  <2>1. (\E n \in 1 .. received[v] : p = <<"received", n>>) <=>
          received[v] = 1 /\ p = <<"received", 1>>
    BY <1>02
  <2> QED BY <2>1, PlacesAre
<1> HIDE DEF Buf, Wr, Res, Rd
<1>16. \A c, i : Res(c, i) => \E x \in Readers : Carries(x, v)
  BY <1>1, <1>4
<1>17. \A c : Rd(c) => c \in Readers
  BY DEF Rd
<1>18. (\E x \in Readers : Carries(x, v)) => received[v] = 0
  BY <1>2
<1>19. SUFFICES \E p : p \in Places(v) /\ \A q \in Places(v) : q = p
  OBVIOUS
<1>20. ASSUME NEW i, Buf(i) PROVE \A q \in Places(v) : q = <<"buffer", i>>
  BY <1>3, <1>5, <1>9, <1>12, <1>15, <1>16, <1>17, <1>20
<1>21. ASSUME NEW c, Wr(c) PROVE \A q \in Places(v) : q = <<"writer", c>>
  BY <1>3, <1>6, <1>9, <1>11, <1>15, <1>16, <1>17, <1>21
<1>22. ASSUME NEW c, NEW i, Res(c, i) PROVE \A q \in Places(v) : q = <<"resume", c, i>>
  BY <1>7, <1>11, <1>12, <1>13, <1>15, <1>16, <1>18, <1>22
<1>23. ASSUME NEW c, Rd(c) PROVE \A q \in Places(v) : q = <<"reader", c>>
  BY <1>3, <1>8, <1>11, <1>12, <1>13, <1>15, <1>17, <1>18, <1>23
<1>24. ASSUME received[v] = 1 PROVE \A q \in Places(v) : q = <<"received", 1>>
  BY <1>3, <1>11, <1>12, <1>15, <1>16, <1>17, <1>18, <1>24
<1>25. CASE \E i : Buf(i)
  BY <1>15, <1>20, <1>25
<1>26. CASE \E c : Wr(c)
  BY <1>15, <1>21, <1>26
<1>27. CASE \E c, i : Res(c, i)
  BY <1>15, <1>22, <1>27
<1>28. CASE \E c : Rd(c)
  BY <1>15, <1>23, <1>28
<1>29. CASE received[v] = 1
  BY <1>15, <1>24, <1>29
<1> QED BY <1>14, <1>25, <1>26, <1>27, <1>28, <1>29

(* A written value is at exactly one place while the channel is open, and  *)
(* a reader that continues has one.                                        *)
THEOREM NothingLost == ChannelSpec => []NothingLostWhileOpen
<1>1. Inv => NothingLostWhileOpen
  <2> SUFFICES ASSUME Inv, active PROVE NothingLostWhileOpen
    BY DEF NothingLostWhileOpen
  <2>1. ChannelTypeOK /\ Readers \subseteq Coroutines
    BY DEF Inv, ShapeInv, Coroutines
  <2>2. \A v \in 1 .. writes : \E p \in Places(v) : Places(v) = {p}
    BY OnePlace
  <2>3. ASSUME NEW c \in Readers, pc[c] = "resumed" PROVE val[c] # NoValue
    <3>1. val[c] \in WriteNumbers \cup {NoValue} /\ Carries(c, val[c])
      BY <2>1, <2>3 DEF ChannelTypeOK, Carries
    <3> QED BY <3>1 DEF Inv, CarryInv
  <2> QED BY <2>2, <2>3 DEF NothingLostWhileOpen
<1> QED BY <1>1, Invariance, PTL

(* Only await_resume of a reader returns a value, and one that was written *)
(* and not returned before; only a write that is accepted sends one.       *)
LEMMA DeliveryStep ==
  ASSUME Inv, [ChannelNext]_channelVars
  PROVE  [Delivery!Next]_<<1 .. writes, received>>
<1>0. ChannelTypeOK /\ writes \in Nat /\ WriteNumbers \subseteq Nat
  BY ChannelAssumption DEF Inv, ShapeInv, ChannelTypeOK, WriteNumbers
<1>1. CASE UNCHANGED <<writes, received>>
  BY <1>1
<1>2. ASSUME NEW c \in Coroutines, Accept(c), UNCHANGED received
      PROVE  Delivery!Next
  <2>1. writes + 1 \in WriteNumbers /\ writes' = writes + 1
    BY <1>0, <1>2, AcceptTypes
  <2>2. writes + 1 \notin 1 .. writes /\ 1 .. writes' = (1 .. writes) \cup {writes + 1}
    BY <1>0, <2>1
  <2>3. Delivery!Send(writes + 1)
    BY <1>2, <2>2 DEF Delivery!Send
  <2> QED BY <2>1, <2>3 DEF Delivery!Next
<1>3. ASSUME NEW c \in Coroutines, Continue(c), ~UNCHANGED received
      PROVE  Delivery!Next
  <2> DEFINE v == val[c]
  <2>1. /\ active /\ c \in Readers /\ pc[c] = "resumed" /\ UNCHANGED writes
        /\ received' = [received EXCEPT ![v] = @ + 1]
    BY <1>3 DEF Continue
  <2>2. v \in WriteNumbers \cup {NoValue} /\ Carries(c, v)
    BY <1>0, <2>1 DEF ChannelTypeOK, Carries
  <2>3. v \in WriteNumbers /\ received[v] = 0 /\ v <= handed /\ handed <= writes
    BY <2>1, <2>2 DEF Inv, CarryInv, OrderInv
  <2>4. v \in 1 .. writes
    BY <1>0, <2>3 DEF ChannelTypeOK, WriteNumbers
  <2>5. received' = [received EXCEPT ![v] = 1]
    BY <2>1, <2>3
  <2> HIDE DEF v
  <2>6. Delivery!Receive(v)
    BY <2>1, <2>3, <2>4, <2>5 DEF Delivery!Receive
  <2> QED BY <2>3, <2>6 DEF Delivery!Next
<1>4. CASE ChannelNext
  <2>1. ASSUME NEW c \in Coroutines, try_push_writer(c)
        PROVE  Accept(c) /\ UNCHANGED received
    BY <2>1 DEF try_push_writer, WriteToReader, WriteToBuffer, WriteWaits, Suspend
  <2>2. ASSUME NEW c \in Coroutines,
               \/ Enter(c) \/ PushToClosed(c) \/ try_push_reader(c)
               \/ Resume(c) \/ Destroy(c)
        PROVE  UNCHANGED <<writes, received>>
    BY <2>2 DEF Enter, PushToClosed, try_push_reader, ReadBuffer, ReadAndRefill,
          ReadFromWriter, ReadWaits, Fetch, Suspend, Resume, Destroy, calls
  <2>3. ASSUME Close \/ clean_up PROVE UNCHANGED <<writes, received>>
    BY <2>3 DEF Close, clean_up, calls
  <2>4. ASSUME NEW c \in Coroutines, Continue(c) PROVE UNCHANGED writes
    BY <2>4 DEF Continue
  <2> QED BY <1>1, <1>2, <1>3, <1>4, <2>1, <2>2, <2>3, <2>4 DEF ChannelNext, Step
<1> QED BY <1>1, <1>4 DEF channelVars, calls

(* The channel implements AtMostOnceDelivery: a value is received at most  *)
(* once and only after it was written, closed or not.                      *)
THEOREM Refinement == ChannelSpec => ChannelDelivers
<1>1. ChannelInit => Delivery!Init
  <2> SUFFICES ASSUME ChannelInit PROVE Delivery!Init
    OBVIOUS
  <2>1. 1 .. writes = {}
    BY DEF ChannelInit
  <2> QED BY <2>1 DEF ChannelInit, Delivery!Init
<1>2. Inv /\ [ChannelNext]_channelVars => [Delivery!Next]_<<1 .. writes, received>>
  BY DeliveryStep
<1> QED BY <1>1, <1>2, Invariance, PTL DEF ChannelSpec, ChannelDelivers, Delivery!Spec
=============================================================================
