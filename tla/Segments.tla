------------------------------ MODULE Segments ------------------------------
(***************************************************************************)
(* The contents of a channel whose items are numbered in the order in      *)
(* which it accepts them are consecutive numbers.  Lemmas about sequences  *)
(* of consecutive numbers, for the proofs that the ring buffers of the     *)
(* pipe drivers and of the message queue implement BoundedChannel.         *)
(***************************************************************************)
EXTENDS Integers, Sequences, SequenceTheorems, TLAPS

\* The numbers n + 1 to n + d.
Segment(n, d) == [i \in 1 .. d |-> n + i]

\* A segment is a sequence, of the length it says.
LEMMA SegmentType ==
  ASSUME NEW n \in Nat, NEW d \in Nat
  PROVE  /\ Segment(n, d) \in Seq(Nat)
         /\ Len(Segment(n, d)) = d
         /\ \A i \in 1 .. d : Segment(n, d)[i] = n + i
  <1>1. \A i \in 1 .. d : n + i \in Nat
    OBVIOUS
  <1>2. QED
    BY <1>1 DEF Segment

\* A sequence whose items are consecutive is a segment.
LEMMA SegmentUnique ==
  ASSUME NEW s \in Seq(Nat), NEW n \in Nat, NEW d \in Nat,
         Len(s) = d, \A i \in 1 .. d : s[i] = n + i
  PROVE  s = Segment(n, d)
  BY LenProperties DEF Segment

\* What is accepted continues what is there.
LEMMA SegmentConcat ==
  ASSUME NEW n \in Nat, NEW d \in Nat, NEW k \in Nat
  PROVE  Segment(n, d) \o Segment(n + d, k) = Segment(n, d + k)
  <1> DEFINE a == Segment(n, d)
             b == Segment(n + d, k)
             c == a \o b
  <1>1. /\ a \in Seq(Nat) /\ Len(a) = d /\ \A i \in 1 .. d : a[i] = n + i
        /\ b \in Seq(Nat) /\ Len(b) = k /\ \A i \in 1 .. k : b[i] = (n + d) + i
    <2>1. n + d \in Nat
      OBVIOUS
    <2>2. QED
      BY Zenon, <2>1, SegmentType
  <1> HIDE DEF a, b
  <1>2. /\ c \in Seq(Nat) /\ Len(c) = d + k
        /\ \A i \in 1 .. d + k : c[i] = IF i <= d THEN a[i] ELSE b[i - d]
    <2>1. /\ c \in Seq(Nat) /\ Len(c) = Len(a) + Len(b)
          /\ \A i \in 1 .. Len(a) + Len(b) : c[i] = IF i <= Len(a) THEN a[i] ELSE b[i - Len(a)]
      BY <1>1, ConcatProperties, Zenon
    <2>2. QED
      BY SMTT(30), <1>1, <2>1
  <1> HIDE DEF c
  <1>3. \A i \in 1 .. d + k : c[i] = n + i
    <2> TAKE i \in 1 .. d + k
    <2>1. CASE i <= d
      BY <1>1, <1>2, <2>1
    <2>2. CASE i > d
      <3>1. c[i] = b[i - d] /\ i - d \in 1 .. k
        BY <1>2, <2>2
      <3>2. QED
        BY <1>1, <3>1
    <2>3. QED
      BY <2>1, <2>2
  <1>4. c = Segment(n, d + k)
    <2>1. d + k \in Nat
      OBVIOUS
    <2>2. QED
      BY <1>2, <1>3, <2>1, SegmentUnique
  <1>5. QED
    BY <1>4 DEF a, b, c

\* What is delivered is the front of what is there, and the rest stays.
LEMMA SegmentSplit ==
  ASSUME NEW n \in Nat, NEW d \in Nat, NEW k \in 0 .. d
  PROVE  /\ SubSeq(Segment(n, d), 1, k) = Segment(n, k)
         /\ SubSeq(Segment(n, d), k + 1, d) = Segment(n + k, d - k)
  <1> DEFINE a == Segment(n, d)
  <1>1. a \in Seq(Nat) /\ Len(a) = d /\ \A i \in 1 .. d : a[i] = n + i
    BY SegmentType
  <1> HIDE DEF a
  <1>2. SubSeq(a, 1, k) = [i \in 1 .. k |-> a[i]]
    BY <1>1
  <1>3. [i \in 1 .. k |-> a[i]] = Segment(n, k)
    BY <1>1 DEF Segment
  <1>4. SubSeq(a, k + 1, d) = [i \in 1 .. d - k |-> a[k + i]]
    BY <1>1
  <1>5. \A i \in 1 .. d - k : a[k + i] = (n + k) + i
    <2> TAKE i \in 1 .. d - k
    <2>1. k + i \in 1 .. d
      OBVIOUS
    <2>2. QED
      BY <1>1, <2>1
  <1>6. [i \in 1 .. d - k |-> a[k + i]] = Segment(n + k, d - k)
    BY <1>5 DEF Segment
  <1>7. QED
    BY Zenon, <1>2, <1>3, <1>4, <1>6 DEF a

=============================================================================
