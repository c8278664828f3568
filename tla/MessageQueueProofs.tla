------------------------- MODULE MessageQueueProofs -------------------------
(***************************************************************************)
(* The message queue is a first-in first-out queue of size - 1 messages,   *)
(* and its consumer is woken up, for every size and number of messages.    *)
(***************************************************************************)
EXTENDS MessageQueue, Segments

\* The number of messages in the array.
Count == IF min <= max THEN max - min ELSE max - min + Size

\* The index after i.
After(i) == IF i + 1 = Size THEN 0 ELSE i + 1

\* The places from min to max hold the messages that were put and not got.
RingInv ==
  /\ sent = Len(out) + Count
  /\ \A i \in 1 .. Len(out) : out[i] = i
  /\ \A i \in 0 .. Size - 1 :
       /\ min <= i /\ (i < max \/ max < min) => data[i] = Len(out) + 1 + i - min
       /\ max < min /\ i < max => data[i] = Len(out) + 1 + i + Size - min

\* Who sleeps is in pthread_cond_wait; the producer ends with the last message.
ThreadInv ==
  /\ "consumer" \in cond_empty => pc["consumer"] = "wait"
  /\ pc["producer"] # "end" => sent < Last

\* The contents as the abstract queue sees them.
QueuedInv ==
  /\ Len(out) \in Nat /\ Count \in 0 .. Size - 1
  /\ Queued = Segment(Len(out), Count)

\* The inductive invariant.
IInv == MqType /\ RingInv /\ ThreadInv /\ ConsumerNotForgotten

-----------------------------------------------------------------------------
(* The arithmetic of the indices.                                          *)

\* The remainders in the code are those of a number below twice the size.
LEMMA Remainder ==
  ASSUME NEW i \in 0 .. 2 * Size - 1
  PROVE  i % Size = IF i < Size THEN i ELSE i - Size
  <1>1. Size \in Nat \ {0}
    BY SizeAssumption
  <1>2. CASE i < Size
    BY <1>1, <1>2
  <1>3. CASE i >= Size
    BY <1>1, <1>3
  <1>4. QED
    BY <1>1, <1>2, <1>3

\* Both indices move to the next place, and the queue is full one place before they meet.
LEMMA Indices ==
  ASSUME MqType
  PROVE  /\ Size \in Nat \ {0} /\ min \in 0 .. Size - 1 /\ max \in 0 .. Size - 1
         /\ (min + 1) % Size = After(min) /\ After(min) \in 0 .. Size - 1
         /\ (max + 1) % Size = After(max) /\ After(max) \in 0 .. Size - 1
         /\ (max - min + Size) % Size = Count
         /\ Count \in 0 .. Size - 1
         /\ empty <=> Count = 0
         /\ full <=> Count = Size - 1
  <1>1. Size \in Nat \ {0} /\ min \in 0 .. Size - 1 /\ max \in 0 .. Size - 1
    BY SizeAssumption DEF MqType
  <1>2. /\ min + 1 \in 0 .. 2 * Size - 1 /\ max + 1 \in 0 .. 2 * Size - 1
        /\ max - min + Size \in 0 .. 2 * Size - 1
    BY <1>1
  <1>3. /\ (min + 1) % Size = After(min) /\ After(min) \in 0 .. Size - 1
        /\ (max + 1) % Size = After(max) /\ After(max) \in 0 .. Size - 1
    <2>1. PICK a, b \in 0 .. 2 * Size - 1 : a = min + 1 /\ b = max + 1
      BY <1>2
    <2>2. /\ a % Size = IF a < Size THEN a ELSE a - Size
          /\ b % Size = IF b < Size THEN b ELSE b - Size
      BY Remainder
    <2>3. QED
      BY <1>1, <2>1, <2>2 DEF After
  <1>4. (max - min + Size) % Size = Count
    <2>1. PICK a \in 0 .. 2 * Size - 1 : a = max - min + Size
      BY <1>2
    <2>2. a % Size = IF a < Size THEN a ELSE a - Size
      BY Remainder
    <2>3. QED
      BY <1>1, <2>1, <2>2 DEF Count
  <1>5. Count \in 0 .. Size - 1 /\ (empty <=> Count = 0)
    BY <1>1 DEF Count, empty
  <1>6. full <=> Count = Size - 1
    BY <1>1, <1>3 DEF Count, full, After
  <1>7. QED
    BY <1>1, <1>3, <1>4, <1>5, <1>6

\* The messages in the queue are those that were put after the ones that were got.
LEMMA QueuedIsSegment == MqType /\ RingInv => QueuedInv
  <1> SUFFICES ASSUME MqType, RingInv
               PROVE  /\ Len(out) \in Nat /\ Count \in 0 .. Size - 1
                      /\ Queued = Segment(Len(out), Count)
    BY DEF QueuedInv
  <1>1. /\ Size \in Nat \ {0} /\ min \in 0 .. Size - 1 /\ max \in 0 .. Size - 1
        /\ Count \in 0 .. Size - 1 /\ (max - min + Size) % Size = Count
    BY Indices
  <1>2. Len(out) \in Nat
    BY DEF MqType
  <1>3. PICK n \in Nat : n = Len(out)
    BY <1>2
  <1>4. \A i \in 0 .. Size - 1 :
          /\ min <= i /\ (i < max \/ max < min) => data[i] = n + 1 + i - min
          /\ max < min /\ i < max => data[i] = n + 1 + i + Size - min
    BY <1>3 DEF RingInv
  <1>5. ASSUME NEW j \in 1 .. Count
        PROVE  data[(min + j - 1) % Size] = n + j
    <2>1. PICK m \in 0 .. 2 * Size - 1 : m = min + j - 1
      BY <1>1
    <2>2. m % Size = IF m < Size THEN m ELSE m - Size
      BY Remainder
    <2>3. CASE m < Size
      <3>1. m \in 0 .. Size - 1 /\ min <= m /\ (m < max \/ max < min)
        BY <1>1, <2>1, <2>3 DEF Count
      <3>2. n + 1 + m - min = n + j
        BY <1>1, <2>1
      <3>3. QED
        BY <1>4, <2>1, <2>2, <2>3, <3>1, <3>2
    <2>4. CASE m >= Size
      <3>1. PICK q \in 0 .. Size - 1 : q = m - Size
        BY <1>1, <2>1, <2>4
      <3>2. max < min /\ q < max
        BY <1>1, <2>1, <2>4, <3>1 DEF Count
      <3>3. n + 1 + q + Size - min = n + j
        BY <1>1, <2>1, <3>1
      <3>4. m % Size = q
        BY <1>1, <2>1, <2>2, <2>4, <3>1
      <3>5. QED
        BY <1>4, <2>1, <3>1, <3>2, <3>3, <3>4
    <2>5. QED
      BY <1>1, <2>1, <2>3, <2>4
  <1>6. Queued = Segment(n, Count)
    BY Zenon, <1>1, <1>5 DEF Queued, Segment
  <1>7. QED
    BY <1>1, <1>3, <1>6

-----------------------------------------------------------------------------
(* The steps of the two threads.                                           *)

\* pthread_mq_put when there is room keeps the invariant and is accepted by the queue.
LEMMA PutStep ==
  ASSUME IInv, Put
  PROVE  IInv' /\ Channel!Next
  <1>0. /\ data' = [data EXCEPT ![max] = sent + 1]
        /\ cond_empty' = IF empty THEN {} ELSE cond_empty
        /\ max' = After(max) /\ sent' = sent + 1
        /\ pc' = [pc EXCEPT !["producer"] = IF sent' = Last THEN "end" ELSE "run"]
        /\ min' = min /\ cond_full' = cond_full /\ out' = out
        /\ Count < Size - 1
    <2>1. /\ Count # Size - 1 /\ Count \in 0 .. Size - 1 /\ Size \in Nat
          /\ (max + 1) % Size = After(max)
      BY Indices DEF IInv, Put
    <2>2. QED
      BY <2>1 DEF Put
  <1>1. /\ Size \in Nat \ {0} /\ min \in 0 .. Size - 1 /\ max \in 0 .. Size - 1
        /\ After(max) \in 0 .. Size - 1 /\ Count \in 0 .. Size - 1
    BY Indices DEF IInv
  <1>2. /\ pc["producer"] # "end" /\ pc["producer"] \in {"run", "wait", "end"}
        /\ pc \in [MqThread -> {"run", "wait", "end"}] /\ "producer" \in MqThread
        /\ Last \in Nat \ {0} /\ sent \in 0 .. Last /\ sent < Last
    BY LastAssumption DEF IInv, Put, MqAtTest, MqType, ThreadInv, MqThread
  <1>3. sent' \in 1 .. Last
    BY <1>0, <1>2
  <1>4. MqType'
    <2>1. data' \in [0 .. Size - 1 -> 0 .. Last]
      BY <1>0, <1>1, <1>3 DEF IInv, MqType
    <2>2. pc' \in [MqThread -> {"run", "wait", "end"}]
      BY <1>0, <1>2
    <2>3. cond_empty' \subseteq {"consumer"}
      BY Zenon, <1>0 DEF IInv, MqType
    <2>4. QED
      BY SMTT(30), <1>0, <1>1, <1>3, <2>1, <2>2, <2>3 DEF IInv, MqType
  <1>5. PICK n \in Nat : n = Len(out) /\ sent = n + Count
    BY DEF IInv, MqType, RingInv
  <1>6. Count' = Count + 1
    BY <1>0, <1>1 DEF Count, After
  <1>7. RingInv'
    <2>1. sent' = Len(out') + Count'
      BY <1>0, <1>1, <1>5, <1>6
    <2>2. \A i \in 1 .. Len(out') : out'[i] = i
      BY <1>0 DEF IInv, RingInv
    <2>3. ASSUME NEW i \in 0 .. Size - 1
          PROVE  /\ min' <= i /\ (i < max' \/ max' < min') => data'[i] = n + 1 + i - min'
                 /\ max' < min' /\ i < max' => data'[i] = n + 1 + i + Size - min'
      <3>1. CASE i = max
        <4>1. data'[i] = sent + 1
          BY <1>0, <1>1, <3>1 DEF IInv, MqType
        <4>2. QED
          BY <1>0, <1>1, <1>5, <3>1, <4>1 DEF After, Count
      <3>2. CASE i # max
        <4>1. data'[i] = data[i]
          BY <1>0, <1>1, <3>2 DEF IInv, MqType
        <4>2. /\ min <= i /\ (i < max \/ max < min) => data[i] = n + 1 + i - min
              /\ max < min /\ i < max => data[i] = n + 1 + i + Size - min
          BY <1>5, <2>3 DEF IInv, RingInv
        <4>3. QED
          BY <1>0, <1>1, <3>2, <4>1, <4>2 DEF After, Count
      <3>3. QED
        BY <3>1, <3>2
    <2>4. QED
      BY <1>0, <1>5, <2>1, <2>2, <2>3 DEF RingInv
  <1>8. "consumer" \notin cond_empty'
    BY <1>0 DEF IInv, ConsumerNotForgotten
  <1>9. ThreadInv' /\ ConsumerNotForgotten'
    <2>1. pc'["producer"] # "end" => sent' < Last
      BY <1>0, <1>2, <1>3
    <2>2. QED
      BY <1>8, <2>1 DEF ThreadInv, ConsumerNotForgotten
  <1>10. Channel!Next
    <2>1. PICK d \in 0 .. Size - 1 : d = Count /\ Queued = Segment(n, d)
      BY <1>5, QueuedIsSegment DEF IInv, QueuedInv
    <2>2. Queued' = Segment(n, d + 1)
      <3>1. QueuedInv'
        BY <1>4, <1>7, QueuedIsSegment, PTL
      <3>2. QED
        BY <1>0, <1>5, <1>6, <2>1, <3>1 DEF QueuedInv
    <2>3. Len(Queued) = d
      BY <2>1, SegmentType
    <2>4. sent = n + d /\ 1 \in Nat /\ d \in Nat
      BY <1>1, <1>5, <2>1
    <2>5. Queued' = Queued \o [i \in 1 .. 1 |-> sent + i]
      <3>1. Segment(n, d) \o Segment(n + d, 1) = Segment(n, d + 1)
        BY Zenon, <2>4, SegmentConcat
      <3>2. QED
        BY <2>1, <2>2, <2>4, <3>1 DEF Segment
    <2>6. Len(Queued) + 1 <= Size - 1 /\ 1 \in 1 .. Size - 1
      BY <1>0, <1>1, <2>1, <2>3
    <2>7. Channel!Accept(1)
      BY <1>0, <2>5, <2>6 DEF Channel!Accept
    <2>8. QED
      BY <2>6, <2>7 DEF Channel!Next
  <1>11. QED
    BY <1>4, <1>7, <1>9, <1>10 DEF IInv

\* pthread_mq_get when there is a message keeps the invariant and is a delivery.
LEMMA GetStep ==
  ASSUME IInv, Get
  PROVE  IInv' /\ Channel!Next
  <1>0. /\ out' = Append(out, data[min])
        /\ cond_empty' \in {{}, cond_empty}
        /\ min' = After(min)
        /\ pc' = [pc EXCEPT !["consumer"] = IF data[min] = Last THEN "end" ELSE "run"]
        /\ data' = data /\ max' = max /\ cond_full' = cond_full /\ sent' = sent
        /\ Count > 0
    <2>1. Count # 0 /\ Count \in 0 .. Size - 1 /\ Size \in Nat /\ (min + 1) % Size = After(min)
      BY Indices DEF IInv, Get
    <2>2. QED
      BY <2>1 DEF Get
  <1>1. /\ Size \in Nat \ {0} /\ min \in 0 .. Size - 1 /\ max \in 0 .. Size - 1
        /\ After(min) \in 0 .. Size - 1 /\ Count \in 0 .. Size - 1
    BY Indices DEF IInv
  <1>2. "consumer" \notin cond_empty
    BY DEF IInv, Get, MqAtTest, ThreadInv
  <1>3. PICK n \in Nat : n = Len(out) /\ sent = n + Count
    BY DEF IInv, MqType, RingInv
  <1>4. \A i \in 0 .. Size - 1 :
          /\ min <= i /\ (i < max \/ max < min) => data[i] = n + 1 + i - min
          /\ max < min /\ i < max => data[i] = n + 1 + i + Size - min
    BY <1>3 DEF IInv, RingInv
  <1>5. data[min] = n + 1
    <2>1. min <= min /\ (min < max \/ max < min)
      BY <1>0, <1>1 DEF Count
    <2>2. data[min] = n + 1 + min - min
      BY <1>1, <1>4, <2>1
    <2>3. QED
      BY <1>1, <2>2
  <1>6. n + 1 \in 1 .. Last
    BY SMTT(30), <1>0, <1>1, <1>3, LastAssumption DEF IInv, MqType
  <1>7. /\ out' \in Seq(1 .. Last) /\ Len(out') = n + 1
        /\ \A i \in 1 .. n + 1 : out'[i] = IF i <= n THEN out[i] ELSE n + 1
    <2>1. out \in Seq(1 .. Last) /\ out' = Append(out, n + 1)
      BY <1>0, <1>5 DEF IInv, MqType
    <2>2. QED
      BY <1>3, <1>6, <2>1
  <1>8. MqType'
    <2>1. pc' \in [MqThread -> {"run", "wait", "end"}]
      BY Zenon, <1>0 DEF IInv, MqType
    <2>2. cond_empty' \subseteq {"consumer"}
      BY Zenon, <1>0 DEF IInv, MqType
    <2>3. QED
      BY SMTT(30), <1>0, <1>1, <1>7, <2>1, <2>2 DEF IInv, MqType
  <1>9. Count' = Count - 1
    BY <1>0, <1>1 DEF Count, After
  <1>10. RingInv'
    <2>1. sent' = Len(out') + Count'
      BY <1>0, <1>1, <1>3, <1>7, <1>9
    <2>2. \A i \in 1 .. Len(out') : out'[i] = i
      <3>1. \A i \in 1 .. n : out[i] = i
        BY <1>3 DEF IInv, RingInv
      <3>2. ASSUME NEW i \in 1 .. n + 1 PROVE out'[i] = i
        <4>1. CASE i <= n
          BY <1>7, <3>1, <4>1
        <4>2. CASE i > n
          BY <1>7, <4>2
        <4>3. QED
          BY <4>1, <4>2
      <3>3. QED
        BY <1>7, <3>2
    <2>3. ASSUME NEW i \in 0 .. Size - 1
          PROVE  /\ min' <= i /\ (i < max' \/ max' < min') => data'[i] = n + 1 + 1 + i - min'
                 /\ max' < min' /\ i < max' => data'[i] = n + 1 + 1 + i + Size - min'
      <3>1. /\ min <= i /\ (i < max \/ max < min) => data[i] = n + 1 + i - min
            /\ max < min /\ i < max => data[i] = n + 1 + i + Size - min
        BY <1>4, <2>3
      <3>2. CASE min + 1 = Size
        <4>1. min' = 0 /\ max' = max /\ data' = data
          BY <1>0, <3>2 DEF After
        <4>2. max < min
          BY <1>0, <1>1, <3>2 DEF Count
        <4>3. i < max => data[i] = n + 1 + i + Size - min
          BY <3>1, <4>2
        <4>4. n + 1 + i + Size - min = n + 1 + 1 + i - 0
          BY <1>1, <3>2
        <4>5. ~ (max' < min')
          BY <1>1, <4>1
        <4>6. QED
          BY <4>1, <4>3, <4>4, <4>5
      <3>3. CASE min + 1 # Size
        <4>1. min' = min + 1 /\ max' = max /\ data' = data
          BY <1>0, <3>3 DEF After
        <4>2. QED
          BY <1>0, <1>1, <3>1, <3>3, <4>1 DEF Count
      <3>4. QED
        BY <3>2, <3>3
    <2>4. QED
      BY <1>7, <2>1, <2>2, <2>3 DEF RingInv
  <1>11. ThreadInv' /\ ConsumerNotForgotten'
    <2>1. "consumer" \notin cond_empty'
      BY <1>0, <1>2
    <2>2. pc'["producer"] = pc["producer"]
      BY <1>0 DEF IInv, MqType, MqThread
    <2>3. QED
      BY <1>0, <2>1, <2>2 DEF IInv, ThreadInv, ConsumerNotForgotten
  <1>12. Channel!Next
    <2>1. PICK d \in 0 .. Size - 1 : d = Count /\ Queued = Segment(n, d)
      BY <1>3, QueuedIsSegment DEF IInv, QueuedInv
    <2>2. Queued' = Segment(n + 1, d - 1)
      <3>1. QueuedInv'
        BY <1>8, <1>10, QueuedIsSegment, PTL
      <3>2. QED
        BY <1>7, <1>9, <2>1, <3>1 DEF QueuedInv
    <2>3. Len(Queued) = d
      BY <2>1, SegmentType
    <2>4. d \in Nat /\ 1 \in 0 .. d /\ 1 \in 1 .. Size - 1
      BY <1>0, <1>1, <2>1
    <2>5. /\ SubSeq(Segment(n, d), 1, 1) = Segment(n, 1)
          /\ SubSeq(Segment(n, d), 1 + 1, d) = Segment(n + 1, d - 1)
      BY Zenon, <2>4, SegmentSplit
    <2>6. out' = out \o Segment(n, 1)
      <3>1. Segment(n, 1) = <<n + 1>>
        BY DEF Segment
      <3>2. Append(out, n + 1) = out \o <<n + 1>>
        BY DEF IInv, MqType
      <3>3. QED
        BY Zenon, <1>0, <1>5, <3>1, <3>2
    <2>7. Channel!Deliver(1)
      <3>1. out' = out \o SubSeq(Queued, 1, 1)
        BY Zenon, <2>1, <2>5, <2>6
      <3>2. Queued' = SubSeq(Queued, 1 + 1, Len(Queued))
        BY <2>1, <2>2, <2>3, <2>5
      <3>3. 1 <= Len(Queued)
        BY <2>3, <2>4
      <3>4. QED
        BY <1>0, <3>1, <3>2, <3>3 DEF Channel!Deliver
    <2>8. QED
      BY <2>4, <2>7 DEF Channel!Next
  <1>13. QED
    BY <1>8, <1>10, <1>11, <1>12 DEF IInv

\* The other steps leave the queue alone.
LEMMA OtherStep ==
  ASSUME IInv, GetWait \/ PutWait \/ (\E t \in MqThread : Spurious(t)) \/ UNCHANGED mqvars
  PROVE  IInv' /\ UNCHANGED <<Queued, sent, out>>
  <1>1. UNCHANGED <<data, min, max, sent, out>>
    BY DEF GetWait, PutWait, Spurious, mqvars
  <1>2. RingInv' /\ UNCHANGED <<Queued, empty>>
    BY <1>1 DEF IInv, RingInv, Count, Queued, empty
  <1>3. MqType' /\ ThreadInv' /\ ConsumerNotForgotten'
    <2>1. CASE GetWait
      BY <1>1, <1>2, <2>1
         DEF GetWait, MqAtTest, IInv, MqType, ThreadInv, ConsumerNotForgotten, MqThread
    <2>2. CASE PutWait
      BY <1>1, <1>2, <2>2
         DEF PutWait, MqAtTest, IInv, MqType, ThreadInv, ConsumerNotForgotten, MqThread
    <2>3. CASE (\E t \in MqThread : Spurious(t)) \/ UNCHANGED mqvars
      BY Zenon, <1>1, <1>2, <2>3
         DEF Spurious, mqvars, IInv, MqType, ThreadInv, ConsumerNotForgotten
    <2>4. QED
      BY <2>1, <2>2, <2>3
  <1>4. QED
    BY <1>1, <1>2, <1>3 DEF IInv

\* A step keeps the invariant, and is a step of the abstract queue or changes nothing in it.
LEMMA Step ==
  ASSUME IInv, [MqNext]_mqvars
  PROVE  IInv' /\ (Channel!Next \/ UNCHANGED <<Queued, sent, out>>)
  BY PutStep, GetStep, OtherStep DEF MqNext

\* pthread_mq_init leaves an empty queue.
LEMMA Start ==
  ASSUME MqInit
  PROVE  IInv /\ Channel!Init
  <1>1. Size \in Nat \ {0} /\ Last \in Nat \ {0} /\ Len(out) = 0
    BY SizeAssumption, LastAssumption DEF MqInit
  <1>2. Count = 0
    BY DEF MqInit, Count
  <1>3. MqType
    BY <1>1 DEF MqInit, MqType, MqThread
  <1>4. RingInv
    BY <1>1, <1>2 DEF MqInit, RingInv
  <1>5. ThreadInv /\ ConsumerNotForgotten
    BY <1>1 DEF MqInit, ThreadInv, ConsumerNotForgotten
  <1>6. Queued = <<>>
    <2>1. (max - min + Size) % Size = 0
      BY <1>2, <1>3, Indices
    <2>2. QED
      BY <2>1 DEF Queued
  <1>7. QED
    BY <1>3, <1>4, <1>5, <1>6 DEF IInv, MqInit, Channel!Init

\* The indices stay inside of the array and the array holds what it should.
THEOREM Invariance == MqSpec => []IInv
  <1>1. MqInit => IInv
    BY Start
  <1>2. IInv /\ [MqNext]_mqvars => IInv'
    BY Step
  <1>3. QED
    BY <1>1, <1>2, PTL DEF MqSpec

\* No index leaves the array and no message but those put is got.
THEOREM TypeCorrect == MqSpec => []MqType
  <1>1. IInv => MqType
    BY DEF IInv
  <1>2. QED
    BY <1>1, Invariance, PTL

\* The consumer does not sleep while there are messages: pthread_mq_put, which broadcasts
\* only when it found the queue empty, wakes it up in time.
THEOREM NoLostWakeup == MqSpec => []ConsumerNotForgotten
  <1>1. IInv => ConsumerNotForgotten
    BY DEF IInv
  <1>2. QED
    BY <1>1, Invariance, PTL

\* The queue is a first-in first-out queue of size - 1 messages.
THEOREM Refinement == MqSpec => ImplementsChannel
  <1>1. MqInit => Channel!Init
    BY Start
  <1>2. IInv /\ [MqNext]_mqvars => [Channel!Next]_(Channel!vars)
    BY Step DEF Channel!vars
  <1>3. QED
    BY <1>1, <1>2, Invariance, PTL DEF MqSpec, ImplementsChannel, Channel!Spec

=============================================================================
