---------------------------- MODULE DriverProofs ----------------------------
(***************************************************************************)
(* Proofs about the device drivers.  simple_pipe implements a first-in     *)
(* first-out channel of pipe_size - 1 items, for every size of its ring,   *)
(* for calls that do not overlap; the kernel modules load and unload       *)
(* cleanly, any of them side by side; and nobody sleeps through an event   *)
(* of the module that can be polled.                                       *)
(***************************************************************************)
EXTENDS SimplePipe, Register, PollDevice, Segments

-----------------------------------------------------------------------------
(* The pipe.                                                               *)

InRing == data(Size, read_pos, write_pos)
Free == room(Size, read_pos, write_pos)

\* The places from read_pos to write_pos hold the items that were accepted and not
\* delivered, and what was delivered is what was accepted before them.
RingInv ==
  /\ InRing \in 0 .. Size - 1 /\ Free = Size - 1 - InRing
  /\ accepted = Len(delivered) + InRing
  /\ \A i \in 1 .. Len(delivered) : delivered[i] = i
  /\ \A i \in Place :
       /\ read_pos <= i /\ (i < write_pos \/ write_pos < read_pos)
            => ring[i] = Len(delivered) + 1 + i - read_pos
       /\ write_pos < read_pos /\ i < write_pos
            => ring[i] = Len(delivered) + 1 + i + Size - read_pos

\* A piece of k items of the w that a write has left fits before the end of the memory,
\* and is all of them or goes to the end.
Fits(k, w) ==
  /\ k \in 1 .. w /\ w <= Free /\ write_pos \in Place /\ write_pos + k <= Size
  /\ write_pos < read_pos => write_pos + k < read_pos
  /\ k < w => write_pos + k = Size

\* The same of a read: the piece is there, and in one piece.
There(k, w) ==
  /\ k \in 1 .. w /\ w <= InRing /\ read_pos \in Place /\ read_pos + k <= Size
  /\ read_pos <= write_pos => read_pos + k <= write_pos
  /\ k < w => read_pos + k = Size

\* Where a pipe_write is.
WriteInv(u) ==
  /\ read_pos \in Place
  /\ step[u] = "split" => write_pos \in Place /\ work[u] \in 1 .. Free
  /\ step[u] \in {"copy", "move"} => Fits(piece[u], work[u])
  /\ step[u] = "move" =>
       \A i \in write_pos .. write_pos + piece[u] - 1 : ring[i] = accepted + (i - write_pos) + 1
  /\ step[u] = "wrap" =>
       /\ piece[u] \in 1 .. work[u] /\ work[u] - piece[u] <= Free
       /\ piece[u] < work[u] => write_pos = Size

\* Where a pipe_read is.
ReadInv(u) ==
  /\ write_pos \in Place
  /\ step[u] = "split" => read_pos \in Place /\ work[u] \in 1 .. InRing
  /\ step[u] \in {"copy", "move"} => There(piece[u], work[u])
  /\ step[u] = "move" => buf[u] = Segment(Len(delivered), piece[u])
  /\ step[u] = "wrap" =>
       /\ piece[u] \in 1 .. work[u] /\ work[u] - piece[u] <= InRing
       /\ piece[u] < work[u] => read_pos = Size

\* Where the calls are.
CallInv ==
  /\ \A u \in User : call[u] = "write" => WriteInv(u)
  /\ \A u \in User : call[u] = "read" => ReadInv(u)
  /\ \A u \in User : call[u] = "none" => step[u] = "split"
  /\ (\A u \in User : call[u] = "none") => read_pos \in Place /\ write_pos \in Place

\* The contents as the channel sees them.
ContentInv ==
  /\ Len(delivered) \in Nat /\ InRing \in 0 .. Size - 1
  /\ Content = Segment(Len(delivered), InRing)

\* The inductive invariant of calls that do not overlap.
IInv == Type /\ RingInv /\ CallInv

-----------------------------------------------------------------------------
(* The arithmetic of the ring.                                             *)

\* Whatever the positions are, one place is neither used nor to be used: that is how
\* pipe_data and pipe_room tell a full ring from an empty one.
THEOREM OnePlaceStaysFree ==
  ASSUME NEW size \in Nat \ {0}, NEW read \in 0 .. size - 1, NEW write \in 0 .. size - 1
  PROVE  /\ data(size, read, write) \in 0 .. size - 1
         /\ room(size, read, write) \in 0 .. size - 1
         /\ data(size, read, write) + room(size, read, write) = size - 1
  <1>1. CASE read <= write
    <2>1. data(size, read, write) = write - read
          /\ room(size, read, write) = size - write + read - 1
      BY Zenon, <1>1 DEF data, room
    <2>2. QED
      BY <1>1, <2>1
  <1>2. CASE ~ (read <= write)
    <2>1. data(size, read, write) = size - read + write
          /\ room(size, read, write) = read - write - 1
      BY Zenon, <1>2 DEF data, room
    <2>2. QED
      BY <1>2, <2>1
  <1>3. QED
    BY Zenon, <1>1, <1>2

\* What the lemmas below use of the state.
LEMMA RingTypes ==
  ASSUME Type
  PROVE  /\ Size \in Nat \ {0} /\ read_pos \in 0 .. Size /\ write_pos \in 0 .. Size
         /\ ring \in [0 .. Size - 1 -> Nat] /\ accepted \in Nat
         /\ delivered \in Seq(Nat) /\ Len(delivered) \in Nat
  <1>1. /\ Size \in Nat \ {0} /\ read_pos \in 0 .. Size /\ write_pos \in 0 .. Size
        /\ ring \in [0 .. Size - 1 -> Nat] /\ accepted \in Nat
        /\ delivered \in Seq(Nat)
    BY Zenon, SizeAssumption DEF Type, Place
  <1>2. Len(delivered) \in Nat
    BY <1>1
  <1>3. QED
    BY Zenon, <1>1, <1>2

\* Writing into places that are free does not disturb what is there.
LEMMA CopyKeeps ==
  ASSUME Type, RingInv, NEW k, NEW w, Fits(k, w), w \in Nat, read_pos \in Place,
         \A i \in Place : i \notin write_pos .. write_pos + k - 1 => ring'[i] = ring[i],
         UNCHANGED <<read_pos, write_pos, accepted, delivered>>
  PROVE  RingInv' /\ InRing' = InRing /\ Free' = Free
  <1>1. /\ Size \in Nat \ {0} /\ read_pos \in 0 .. Size - 1 /\ write_pos \in 0 .. Size - 1
        /\ Len(delivered) \in Nat
    BY Zenon, RingTypes DEF Fits, Place
  <1>2. /\ k \in 1 .. w /\ w <= Free /\ write_pos + k <= Size
        /\ write_pos < read_pos => write_pos + k < read_pos
    BY Zenon DEF Fits
  <1>3. InRing' = InRing /\ Free' = Free
    BY Zenon DEF InRing, Free
  <1>4. ASSUME NEW i \in Place
        PROVE  /\ read_pos <= i /\ (i < write_pos \/ write_pos < read_pos)
                    => ring'[i] = Len(delivered) + 1 + i - read_pos
               /\ write_pos < read_pos /\ i < write_pos
                    => ring'[i] = Len(delivered) + 1 + i + Size - read_pos
    <2>1. CASE i \in write_pos .. write_pos + k - 1
      <3>1. write_pos <= i /\ (write_pos < read_pos => i < read_pos) /\ i \in Int
        BY <1>1, <1>2, <2>1
      <3>2. ~ (i < write_pos) /\ (write_pos < read_pos => ~ (read_pos <= i))
        BY <1>1, <3>1
      <3>3. QED
        BY Zenon, <3>2
    <2>2. CASE i \notin write_pos .. write_pos + k - 1
      <3>1. ring'[i] = ring[i]
        BY Zenon, <2>2
      <3>2. QED
        BY Zenon, <1>4, <3>1 DEF RingInv
    <2>3. QED
      BY Zenon, <2>1, <2>2
  <1>5. QED
    BY Zenon, <1>3, <1>4 DEF RingInv, Place

\* The position of the writer moves over k items that have been copied.
LEMMA MoveIn ==
  ASSUME Type, RingInv, NEW k, NEW w \in Nat, Fits(k, w), read_pos \in Place,
         \A i \in write_pos .. write_pos + k - 1 : ring[i] = accepted + (i - write_pos) + 1,
         write_pos' = write_pos + k, accepted' = accepted + k,
         UNCHANGED <<ring, read_pos, delivered>>
  PROVE  /\ RingInv'
         /\ InRing' = InRing + k /\ Free' = Free - k
         /\ write_pos' \in 0 .. Size /\ accepted' \in Nat
  <1>1. /\ Size \in Nat \ {0} /\ read_pos \in 0 .. Size - 1 /\ write_pos \in 0 .. Size - 1
        /\ accepted \in Nat /\ Len(delivered) \in Nat
    BY Zenon, RingTypes DEF Fits, Place
  <1>2. /\ k \in 1 .. w /\ w <= Free /\ write_pos + k <= Size
        /\ write_pos < read_pos => write_pos + k < read_pos
    BY Zenon DEF Fits
  <1>3. /\ InRing \in 0 .. Size - 1 /\ Free = Size - 1 - InRing
        /\ accepted = Len(delivered) + InRing
    BY Zenon DEF RingInv
  <1>4. InRing' = InRing + k /\ Free' = Free - k
    BY <1>1, <1>2 DEF InRing, Free, data, room
  <1>5. write_pos' \in 0 .. Size /\ accepted' \in Nat
    BY <1>1, <1>2
  <1>6. /\ InRing' \in 0 .. Size - 1 /\ Free' = Size - 1 - InRing'
        /\ accepted' = Len(delivered) + InRing'
    BY <1>1, <1>2, <1>3, <1>4
  <1>7. ASSUME NEW i \in Place
        PROVE  /\ read_pos <= i /\ (i < write_pos' \/ write_pos' < read_pos)
                    => ring[i] = Len(delivered) + 1 + i - read_pos
               /\ write_pos' < read_pos /\ i < write_pos'
                    => ring[i] = Len(delivered) + 1 + i + Size - read_pos
    <2>1. i \in 0 .. Size - 1
      BY Zenon DEF Place
    <2>2. CASE i \in write_pos .. write_pos + k - 1
      <3>1. ring[i] = accepted + (i - write_pos) + 1
        BY Zenon, <2>2
      <3>2. /\ read_pos <= write_pos => InRing = write_pos - read_pos
            /\ write_pos < read_pos => InRing = Size - read_pos + write_pos
        BY <1>1 DEF InRing, data
      <3>3. CASE read_pos <= write_pos
        <4>1. InRing = write_pos - read_pos
          BY Zenon, <3>2, <3>3
        <4>2. ring[i] = Len(delivered) + 1 + i - read_pos
          BY <1>1, <1>3, <2>1, <3>1, <4>1
        <4>3. ~ (write_pos' < read_pos)
          BY <1>1, <1>2, <3>3
        <4>4. QED
          BY Zenon, <4>2, <4>3
      <3>4. CASE write_pos < read_pos
        <4>1. InRing = Size - read_pos + write_pos
          BY Zenon, <3>2, <3>4
        <4>2. ring[i] = Len(delivered) + 1 + i + Size - read_pos
          BY <1>1, <1>3, <2>1, <3>1, <4>1
        <4>3. ~ (read_pos <= i)
          BY <1>1, <1>2, <2>1, <2>2, <3>4
        <4>4. QED
          BY Zenon, <4>2, <4>3
      <3>5. QED
        BY <1>1, <3>3, <3>4
    <2>3. CASE i \notin write_pos .. write_pos + k - 1
      <3>1. /\ read_pos <= i /\ (i < write_pos \/ write_pos < read_pos)
                 => ring[i] = Len(delivered) + 1 + i - read_pos
            /\ write_pos < read_pos /\ i < write_pos
                 => ring[i] = Len(delivered) + 1 + i + Size - read_pos
        BY Zenon, <1>7 DEF RingInv
      <3>2. QED
        BY <1>1, <1>2, <2>1, <2>3, <3>1
    <2>4. QED
      BY Zenon, <2>2, <2>3
  <1>8. \A i \in 1 .. Len(delivered) : delivered[i] = i
    BY Zenon DEF RingInv
  <1>9. QED
    BY Zenon, <1>4, <1>5, <1>6, <1>7, <1>8 DEF RingInv, Place

\* The oldest k items, when they are in one piece.
LEMMA OldestItems ==
  ASSUME Type, RingInv, NEW k, NEW w \in Nat, There(k, w), write_pos \in Place
  PROVE  \A j \in 1 .. k : read_pos + j - 1 \in Place /\ ring[read_pos + j - 1] = Len(delivered) + j
  <1>1. /\ Size \in Nat \ {0} /\ read_pos \in 0 .. Size - 1 /\ write_pos \in 0 .. Size - 1
        /\ Len(delivered) \in Nat
    BY Zenon, RingTypes DEF There, Place
  <1>2. /\ k \in 1 .. w /\ w <= InRing /\ read_pos + k <= Size
        /\ read_pos <= write_pos => read_pos + k <= write_pos
    BY Zenon DEF There
  <1> TAKE j \in 1 .. k
  <1>3. PICK m \in 0 .. Size - 1 : m = read_pos + j - 1
    BY <1>1, <1>2
  <1>4. read_pos <= m /\ (m < write_pos \/ write_pos < read_pos)
    BY <1>1, <1>2, <1>3
  <1>5. ring[m] = Len(delivered) + 1 + m - read_pos
    BY Zenon, <1>3, <1>4 DEF RingInv, Place
  <1>6. Len(delivered) + 1 + m - read_pos = Len(delivered) + j
    BY <1>1, <1>2, <1>3
  <1>7. QED
    BY Zenon, <1>3, <1>5, <1>6 DEF Place

\* What is delivered when the next k items follow.
LEMMA DeliveredGrows ==
  ASSUME NEW s \in Seq(Nat), \A i \in 1 .. Len(s) : s[i] = i, NEW k \in Nat,
         NEW t, t = s \o Segment(Len(s), k)
  PROVE  t \in Seq(Nat) /\ Len(t) = Len(s) + k /\ \A i \in 1 .. Len(t) : t[i] = i
  <1> DEFINE n == Len(s)
             got == Segment(n, k)
  <1>1. n \in Nat
    OBVIOUS
  <1>2. got \in Seq(Nat) /\ Len(got) = k /\ \A i \in 1 .. k : got[i] = n + i
    BY Zenon, <1>1, SegmentType
  <1> HIDE DEF got
  <1>3. /\ t \in Seq(Nat) /\ Len(t) = Len(s) + Len(got)
        /\ \A i \in 1 .. Len(s) + Len(got) : t[i] =
             IF i <= Len(s) THEN s[i] ELSE got[i - Len(s)]
    BY <1>2, ConcatProperties, Zenon DEF got
  <1>4. ASSUME NEW i \in 1 .. n + k
        PROVE  t[i] = i
    <2>1. CASE i <= n
      BY <1>1, <1>2, <1>3, <2>1
    <2>2. CASE i > n
      <3>1. t[i] = got[i - n] /\ i - n \in 1 .. k
        BY <1>1, <1>2, <1>3, <2>2
      <3>2. QED
        BY <1>1, <1>2, <3>1
    <2>3. i <= n \/ i > n
      BY <1>1
    <2>4. QED
      BY Zenon, <2>1, <2>2, <2>3
  <1>5. Len(t) = n + k
    BY Zenon, <1>2, <1>3
  <1>6. QED
    BY Zenon, <1>3, <1>4, <1>5

\* The position of the reader moves over k items that have been copied.
LEMMA MoveOut ==
  ASSUME Type, RingInv, NEW k, NEW w \in Nat, There(k, w), write_pos \in Place,
         delivered' = delivered \o Segment(Len(delivered), k),
         read_pos' = read_pos + k, UNCHANGED <<ring, write_pos, accepted>>
  PROVE  /\ RingInv'
         /\ InRing' = InRing - k
         /\ read_pos' \in 0 .. Size /\ delivered' \in Seq(Nat)
         /\ Len(delivered') = Len(delivered) + k
  <1>1. /\ Size \in Nat \ {0} /\ read_pos \in 0 .. Size - 1 /\ write_pos \in 0 .. Size - 1
        /\ Len(delivered) \in Nat /\ delivered \in Seq(Nat)
    BY Zenon, RingTypes DEF There, Place
  <1>2. /\ k \in 1 .. w /\ w <= InRing /\ read_pos + k <= Size
        /\ read_pos <= write_pos => read_pos + k <= write_pos
    BY Zenon DEF There
  <1>3. PICK n \in Nat : n = Len(delivered)
    BY Zenon, <1>1
  <1>4. /\ InRing \in 0 .. Size - 1 /\ Free = Size - 1 - InRing /\ accepted = n + InRing
        /\ \A i \in 1 .. n : delivered[i] = i
        /\ \A i \in Place :
             /\ read_pos <= i /\ (i < write_pos \/ write_pos < read_pos)
                  => ring[i] = n + 1 + i - read_pos
             /\ write_pos < read_pos /\ i < write_pos
                  => ring[i] = n + 1 + i + Size - read_pos
    BY Zenon, <1>3 DEF RingInv
  <1>5. InRing' = InRing - k /\ Free' = Free + k
    BY <1>1, <1>2 DEF InRing, Free, data, room
  <1>6. k \in Nat
    BY <1>2
  <1>7. /\ delivered' \in Seq(Nat) /\ Len(delivered') = n + k
        /\ \A i \in 1 .. Len(delivered') : delivered'[i] = i
    BY Zenon, <1>1, <1>3, <1>4, <1>6, DeliveredGrows
  <1>8. /\ InRing' \in 0 .. Size - 1 /\ Free' = Size - 1 - InRing'
        /\ accepted = (n + k) + InRing' /\ read_pos' \in 0 .. Size
    BY <1>1, <1>2, <1>4, <1>5
  <1>9. ASSUME NEW i \in Place
        PROVE  /\ read_pos' <= i /\ (i < write_pos \/ write_pos < read_pos')
                    => ring[i] = (n + k) + 1 + i - read_pos'
               /\ write_pos < read_pos' /\ i < write_pos
                    => ring[i] = (n + k) + 1 + i + Size - read_pos'
    <2>1. i \in 0 .. Size - 1
      BY Zenon DEF Place
    <2>2. /\ read_pos <= i /\ (i < write_pos \/ write_pos < read_pos)
               => ring[i] = n + 1 + i - read_pos
          /\ write_pos < read_pos /\ i < write_pos
               => ring[i] = n + 1 + i + Size - read_pos
      BY Zenon, <1>4, <1>9
    <2>3. QED
      BY <1>1, <1>2, <1>6, <2>1, <2>2
  <1>10. QED
    BY Zenon, <1>3, <1>5, <1>7, <1>8, <1>9 DEF RingInv, Place

\* Going back to the start of the memory changes nothing else.
LEMMA WrapWrite ==
  ASSUME Type, RingInv, read_pos \in Place, write_pos' = AtStart(write_pos),
         UNCHANGED <<ring, read_pos, accepted, delivered>>
  PROVE  RingInv' /\ InRing' = InRing /\ Free' = Free /\ write_pos' \in Place
  <1>1. /\ Size \in Nat \ {0} /\ read_pos \in 0 .. Size - 1 /\ write_pos \in 0 .. Size
        /\ Len(delivered) \in Nat
    BY Zenon, RingTypes DEF Place
  <1>2. CASE write_pos = Size
    <2>1. write_pos' = 0
      BY Zenon, <1>2 DEF AtStart
    <2>2. InRing = Size - read_pos /\ InRing <= Size - 1 /\ Free = read_pos - 1
      BY <1>1, <1>2 DEF InRing, Free, data, room, RingInv
    <2>3. read_pos > 0
      BY <1>1, <2>2
    <2>4. InRing' = Size - read_pos /\ Free' = read_pos - 1
      BY <1>1, <2>1, <2>3 DEF InRing, Free, data, room
    <2>5. ASSUME NEW i \in Place
          PROVE  /\ read_pos <= i => ring[i] = Len(delivered) + 1 + i - read_pos
                 /\ ~ (i < 0)
      <3>1. i \in 0 .. Size - 1
        BY Zenon DEF Place
      <3>2. i < write_pos /\ ~ (i < 0)
        BY <1>1, <1>2, <3>1
      <3>3. QED
        BY Zenon, <3>2 DEF RingInv
    <2>6. 0 \in Place
      BY <1>1 DEF Place
    <2>7. QED
      BY Zenon, <2>1, <2>2, <2>4, <2>5, <2>6 DEF RingInv, Place
  <1>3. CASE write_pos # Size
    <2>1. write_pos' = write_pos
      BY Zenon, <1>3 DEF AtStart
    <2>2. write_pos \in Place
      BY <1>1, <1>3 DEF Place
    <2>3. QED
      BY Zenon, <2>1, <2>2 DEF RingInv, InRing, Free
  <1>4. QED
    BY Zenon, <1>2, <1>3

\* The same of the reading position.
LEMMA WrapRead ==
  ASSUME Type, RingInv, write_pos \in Place, read_pos' = AtStart(read_pos),
         UNCHANGED <<ring, write_pos, accepted, delivered>>
  PROVE  RingInv' /\ InRing' = InRing /\ Free' = Free /\ read_pos' \in Place
  <1>1. /\ Size \in Nat \ {0} /\ write_pos \in 0 .. Size - 1 /\ read_pos \in 0 .. Size
        /\ Len(delivered) \in Nat
    BY Zenon, RingTypes DEF Place
  <1>2. CASE read_pos = Size
    <2>1. read_pos' = 0
      BY Zenon, <1>2 DEF AtStart
    <2>2. InRing = write_pos /\ Free = Size - write_pos - 1
      BY <1>1, <1>2 DEF InRing, Free, data, room
    <2>3. InRing' = write_pos /\ Free' = Size - write_pos - 1
      BY <1>1, <2>1 DEF InRing, Free, data, room
    <2>4. ASSUME NEW i \in Place
          PROVE  i < write_pos => ring[i] = Len(delivered) + 1 + i - 0
      <3>1. i \in 0 .. Size - 1 /\ write_pos < read_pos
        BY <1>1, <1>2 DEF Place
      <3>2. i < write_pos => ring[i] = Len(delivered) + 1 + i + Size - read_pos
        BY Zenon, <3>1 DEF RingInv
      <3>3. QED
        BY <1>1, <1>2, <3>1, <3>2
    <2>5. 0 \in Place /\ ~ (write_pos < 0)
      BY <1>1 DEF Place
    <2>6. QED
      BY Zenon, <2>1, <2>2, <2>3, <2>4, <2>5 DEF RingInv, Place
  <1>3. CASE read_pos # Size
    <2>1. read_pos' = read_pos
      BY Zenon, <1>3 DEF AtStart
    <2>2. read_pos \in Place
      BY <1>1, <1>3 DEF Place
    <2>3. QED
      BY Zenon, <2>1, <2>2 DEF RingInv, InRing, Free
  <1>4. QED
    BY Zenon, <1>2, <1>3

-----------------------------------------------------------------------------
(* The pieces of a call.                                                   *)

\* The first piece of pipe_write.
LEMMA FirstWrite ==
  ASSUME Type, read_pos \in Place, write_pos \in Place, NEW w \in 1 .. Free
  PROVE  Fits(IF read_pos <= write_pos THEN min(Size - write_pos, w) ELSE w, w)
  <1> DEFINE k == IF read_pos <= write_pos THEN min(Size - write_pos, w) ELSE w
  <1>1. /\ Size \in Nat \ {0} /\ read_pos \in 0 .. Size - 1 /\ write_pos \in 0 .. Size - 1
        /\ Free \in Int
    BY SizeAssumption DEF Place, Free, room
  <1>2. k \in 1 .. w /\ w <= Free /\ write_pos + k <= Size
        /\ (write_pos < read_pos => write_pos + k < read_pos)
        /\ (k < w => write_pos + k = Size)
    <2>1. CASE read_pos <= write_pos
      <3>1. k = min(Size - write_pos, w)
        BY Zenon, <2>1
      <3>2. QED
        BY <1>1, <2>1, <3>1 DEF min, Least
    <2>2. CASE ~ (read_pos <= write_pos)
      <3>1. k = w /\ Free = read_pos - write_pos - 1
        BY Zenon, <2>2 DEF Free, room
      <3>2. QED
        BY <1>1, <2>2, <3>1
    <2>3. QED
      BY Zenon, <2>1, <2>2
  <1>3. QED
    BY Zenon, <1>2 DEF Fits

\* The first piece of pipe_read.
LEMMA FirstRead ==
  ASSUME Type, read_pos \in Place, write_pos \in Place, NEW w \in 1 .. InRing
  PROVE  There(IF read_pos <= write_pos THEN w ELSE min(Size - read_pos, w), w)
  <1> DEFINE k == IF read_pos <= write_pos THEN w ELSE min(Size - read_pos, w)
  <1>1. /\ Size \in Nat \ {0} /\ read_pos \in 0 .. Size - 1 /\ write_pos \in 0 .. Size - 1
        /\ InRing \in Int
    BY SizeAssumption DEF Place, InRing, data
  <1>2. k \in 1 .. w /\ w <= InRing /\ read_pos + k <= Size
        /\ (read_pos <= write_pos => read_pos + k <= write_pos)
        /\ (k < w => read_pos + k = Size)
    <2>1. CASE read_pos <= write_pos
      <3>1. k = w /\ InRing = write_pos - read_pos
        BY Zenon, <2>1 DEF InRing, data
      <3>2. QED
        BY <1>1, <2>1, <3>1
    <2>2. CASE ~ (read_pos <= write_pos)
      <3>1. k = min(Size - read_pos, w)
        BY Zenon, <2>2
      <3>2. QED
        BY <1>1, <2>2, <3>1 DEF min, Least
    <2>3. QED
      BY Zenon, <2>1, <2>2
  <1>3. QED
    BY Zenon, <1>2 DEF There

\* The second piece starts at the start of the memory, and fits or is there.
LEMMA SecondPiece ==
  ASSUME NEW pos \in Place, NEW w
  PROVE  /\ w \in 1 .. room(Size, pos, 0) =>
              w \in 1 .. w /\ 0 + w <= Size /\ (0 < pos => 0 + w < pos)
         /\ w \in 1 .. data(Size, 0, pos) =>
              w \in 1 .. w /\ 0 + w <= Size /\ (0 <= pos => 0 + w <= pos)
  <1>1. Size \in Nat \ {0} /\ pos \in 0 .. Size - 1
    BY Zenon, SizeAssumption DEF Place
  <1>2. QED
    BY <1>1 DEF room, data

-----------------------------------------------------------------------------
(* The ring as the channel.                                                *)

\* The items in the ring are the accepted ones that come after the delivered ones.
LEMMA ContentIsSegment == Type /\ RingInv => ContentInv
  <1> SUFFICES ASSUME Type, RingInv
               PROVE  /\ Len(delivered) \in Nat /\ InRing \in 0 .. Size - 1
                      /\ Content = Segment(Len(delivered), InRing)
    BY Zenon DEF ContentInv
  <1>1. /\ Size \in Nat \ {0} /\ read_pos \in 0 .. Size /\ write_pos \in 0 .. Size
        /\ Len(delivered) \in Nat
    BY Zenon, RingTypes
  <1>2. InRing \in 0 .. Size - 1
    BY Zenon DEF RingInv
  <1>3. PICK n \in Nat : n = Len(delivered)
    BY Zenon, <1>1
  <1>4. \A i \in Place :
          /\ read_pos <= i /\ (i < write_pos \/ write_pos < read_pos)
               => ring[i] = n + 1 + i - read_pos
          /\ write_pos < read_pos /\ i < write_pos
               => ring[i] = n + 1 + i + Size - read_pos
    BY Zenon, <1>3 DEF RingInv
  <1>5. ASSUME NEW j \in 1 .. InRing
        PROVE  ring[(read_pos + j - 1) % Size] = n + j
    <2>1. PICK m \in Nat : m = read_pos + j - 1
      BY <1>1, <1>2
    <2>2. CASE m < Size
      <3>1. m % Size = m
        BY <1>1, <2>1, <2>2
      <3>2. m \in Place /\ read_pos <= m /\ (m < write_pos \/ write_pos < read_pos)
        BY <1>1, <1>2, <2>1, <2>2 DEF Place, InRing, data
      <3>3. n + 1 + m - read_pos = n + j
        BY <1>1, <1>2, <2>1
      <3>4. QED
        BY Zenon, <1>4, <2>1, <3>1, <3>2, <3>3
    <2>3. CASE m >= Size
      <3>1. PICK q \in 0 .. Size - 1 : q = m - Size
        BY <1>1, <1>2, <2>1, <2>3
      <3>2. m % Size = q
        <4>1. m \in Size .. 2 * Size - 1
          BY <1>1, <3>1
        <4>2. QED
          BY <1>1, <3>1, <4>1
      <3>3. q \in Place /\ write_pos < read_pos /\ q < write_pos
        BY <1>1, <1>2, <2>1, <2>3, <3>1 DEF Place, InRing, data
      <3>4. n + 1 + q + Size - read_pos = n + j
        BY <1>1, <1>2, <2>1, <3>1
      <3>5. QED
        BY Zenon, <1>4, <2>1, <3>2, <3>3, <3>4
    <2>4. QED
      BY <1>1, <2>1, <2>2, <2>3
  <1>6. Content = Segment(n, InRing)
    BY Zenon, <1>5 DEF Content, Segment, InRing
  <1>7. QED
    BY Zenon, <1>2, <1>3, <1>6

\* A step that moves neither an end of the contents leaves the channel alone.
LEMMA ContentSame ==
  ASSUME Type, RingInv, Type', RingInv', InRing' = InRing, delivered' = delivered
  PROVE  Content' = Content
  <1>1. ContentInv
    BY Zenon, ContentIsSegment
  <1>2. ContentInv'
    BY ContentIsSegment, PTL
  <1>3. QED
    BY Zenon, <1>1, <1>2 DEF ContentInv

\* A piece into the ring is accepted by the channel.
LEMMA PieceAccepted ==
  ASSUME Type, RingInv, Type', RingInv', NEW k \in 1 .. Free, InRing' = InRing + k,
         accepted' = accepted + k, delivered' = delivered
  PROVE  Channel!Next
  <1>1. Size \in Nat \ {0}
    BY Zenon, SizeAssumption
  <1>2. Free = Size - 1 - InRing /\ InRing \in 0 .. Size - 1
    BY Zenon DEF RingInv
  <1>3. k \in Nat /\ k <= Free /\ k \in 1 .. Size - 1
    BY <1>1, <1>2
  <1>6. PICK n \in Nat, d \in 0 .. Size - 1 :
          n = Len(delivered) /\ d = InRing /\ Content = Segment(n, d)
    BY Zenon, ContentIsSegment DEF ContentInv
  <1>7. Content' = Segment(n, d + k)
    <2>1. ContentInv'
      BY ContentIsSegment, PTL
    <2>2. QED
      BY Zenon, <1>6, <2>1 DEF ContentInv
  <1>8. accepted = n + d
    BY Zenon, <1>6 DEF RingInv
  <1>9. Len(Content) = d
    BY <1>6, SegmentType
  <1>10. Content' = Content \o [i \in 1 .. k |-> accepted + i]
    BY <1>3, <1>6, <1>7, <1>8, SegmentConcat DEF Segment
  <1>11. Len(Content) + k <= Size - 1
    BY <1>1, <1>2, <1>3, <1>6, <1>9
  <1>12. Channel!Accept(k)
    BY Zenon, <1>10, <1>11 DEF Channel!Accept
  <1>13. QED
    BY Zenon, <1>3, <1>12 DEF Channel!Next

\* A piece out of the ring is delivered by the channel.
LEMMA PieceDelivered ==
  ASSUME Type, RingInv, Type', RingInv', NEW k \in 1 .. InRing, InRing' = InRing - k,
         delivered' = delivered \o Segment(Len(delivered), k), accepted' = accepted,
         Len(delivered') = Len(delivered) + k
  PROVE  Channel!Next
  <1>1. Size \in Nat \ {0}
    BY Zenon, SizeAssumption
  <1>2. PICK n \in Nat, d \in 0 .. Size - 1 :
          n = Len(delivered) /\ d = InRing /\ Content = Segment(n, d)
    BY Zenon, ContentIsSegment DEF ContentInv
  <1>3. k \in Nat /\ k <= InRing /\ k \in 1 .. Size - 1 /\ k \in 0 .. d /\ d - k \in Nat
    BY <1>1, <1>2
  <1>6. Content' = Segment(n + k, d - k)
    <2>1. ContentInv'
      BY ContentIsSegment, PTL
    <2>2. QED
      BY Zenon, <1>2, <2>1 DEF ContentInv
  <1>7. Len(Content) = d
    BY <1>2, SegmentType
  <1>8. /\ SubSeq(Content, 1, k) = Segment(n, k)
        /\ SubSeq(Content, k + 1, Len(Content)) = Segment(n + k, d - k)
    <2>1. d \in Nat
      BY <1>1
    <2>2. /\ SubSeq(Segment(n, d), 1, k) = Segment(n, k)
          /\ SubSeq(Segment(n, d), k + 1, d) = Segment(n + k, d - k)
      BY Zenon, <1>3, <2>1, SegmentSplit
    <2>3. QED
      BY Zenon, <1>2, <1>7, <2>2
  <1>9. Channel!Deliver(k)
    <2>1. delivered' = delivered \o SubSeq(Content, 1, k)
      BY Zenon, <1>2, <1>8
    <2>2. Content' = SubSeq(Content, k + 1, Len(Content))
      BY Zenon, <1>6, <1>8
    <2>3. k <= Len(Content)
      BY <1>3, <1>7
    <2>4. QED
      BY Zenon, <2>1, <2>2, <2>3 DEF Channel!Deliver
  <1>10. QED
    BY Zenon, <1>3, <1>9 DEF Channel!Next

-----------------------------------------------------------------------------
(* Every step.                                                             *)

\* When the call of u is the only one, the others are idle.
LEMMA OthersIdle ==
  ASSUME IInv, Alone, NEW u \in User, call[u] # "none"
  PROVE  \A v \in User : v # u => call[v] = "none" /\ step[v] = "split"
  BY Zenon DEF IInv, CallInv, Alone

\* What a step of u has to show when the others are idle.
LEMMA OneCallInv ==
  ASSUME NEW u \in User,
         \A v \in User : v # u => call'[v] = "none" /\ step'[v] = "split",
         call'[u] = "write" => WriteInv(u)', call'[u] = "read" => ReadInv(u)',
         call'[u] = "none" => /\ step'[u] = "split"
                              /\ read_pos' \in Place /\ write_pos' \in Place
  PROVE  CallInv'
  <1>1. ASSUME NEW v \in User
        PROVE  /\ call'[v] = "write" => WriteInv(v)'
               /\ call'[v] = "read" => ReadInv(v)'
               /\ call'[v] = "none" => step'[v] = "split"
    <2>1. CASE v = u
      BY Zenon, <2>1
    <2>2. CASE v # u
      <3>1. call'[v] = "none" /\ step'[v] = "split"
        BY Zenon, <2>2
      <3>2. call'[v] # "write" /\ call'[v] # "read"
        BY <3>1
      <3>3. QED
        BY Zenon, <3>1, <3>2
    <2>3. QED
      BY Zenon, <2>1, <2>2
  <1>2. (\A v \in User : call'[v] = "none") => read_pos' \in Place /\ write_pos' \in Place
    BY Zenon
  <1>3. QED
    BY Zenon, <1>1, <1>2 DEF CallInv, User, Place

\* The beginning of a call, which leaves the ring alone.
LEMMA BeginStep ==
  ASSUME IInv, Alone', NEW u \in User, NEW name \in {"write", "read"}, NEW amount,
         NEW count \in 1 .. Size, Begin(u, name, amount, count),
         amount = IF name = "write" THEN Free ELSE InRing
  PROVE  IInv' /\ UNCHANGED <<Content, accepted, delivered>>
  <1>1. Type /\ RingInv /\ CallInv
    BY Zenon DEF IInv
  <1>2. /\ call' = [call EXCEPT ![u] = name] /\ work' = [work EXCEPT ![u] = min(amount, count)]
        /\ UNCHANGED <<ring, read_pos, write_pos, accepted, delivered, step, piece, buf>>
        /\ call[u] = "none" /\ amount # 0
    BY Zenon DEF Begin
  <1>3. /\ call'[u] = name /\ work'[u] = min(amount, count)
        /\ \A v \in User : v # u => call'[v] = call[v]
    BY Zenon, <1>1, <1>2 DEF Type
  <1>4. \A v \in User : call[v] = "none"
    <2>1. call'[u] # "none"
      BY <1>3
    <2>2. QED
      BY Zenon, <1>2, <1>3, <2>1 DEF Alone
  <1>5. read_pos \in Place /\ write_pos \in Place /\ \A v \in User : step[v] = "split"
    BY Zenon, <1>1, <1>4 DEF CallInv
  <1>6. InRing \in 0 .. Size - 1 /\ Free = Size - 1 - InRing /\ Size \in Nat \ {0}
    BY Zenon, <1>1, SizeAssumption DEF RingInv
  <1>7. min(amount, count) \in 1 .. amount /\ min(amount, count) \in Nat
    <2>1. amount \in 0 .. Size - 1
      BY <1>6
    <2>2. QED
      BY <1>2, <1>6, <2>1 DEF min, Least
  <1>8. Type'
    <2>1. call' \in [User -> {"none", "read", "write"}]
      BY <1>1, <1>2 DEF Type
    <2>2. work' \in [User -> Nat]
      BY <1>1, <1>2, <1>7 DEF Type
    <2>3. QED
      BY Zenon, <1>1, <1>2, <2>1, <2>2 DEF Type, Place, User
  <1>9. RingInv' /\ UNCHANGED <<Content, InRing, Free>>
    BY Zenon, <1>1, <1>2 DEF RingInv, Content, InRing, Free, Place
  <1>10. step'[u] = "split" /\ \A v \in User : v # u => call'[v] = "none" /\ step'[v] = "split"
    BY Zenon, <1>2, <1>3, <1>4, <1>5
  <1>11. step'[u] \notin {"copy", "move"} /\ step'[u] # "move" /\ step'[u] # "wrap"
    BY <1>10
  <1>12. call'[u] = "write" => WriteInv(u)'
    <2>1. call'[u] = "write" => work'[u] \in 1 .. Free'
      BY Zenon, <1>3, <1>7, <1>9
    <2>2. QED
      BY Zenon, <1>2, <1>5, <1>11, <2>1 DEF WriteInv, Place
  <1>13. call'[u] = "read" => ReadInv(u)'
    <2>1. call'[u] = "read" => work'[u] \in 1 .. InRing'
      <3>1. "read" # "write"
        OBVIOUS
      <3>2. QED
        BY Zenon, <1>3, <1>7, <1>9, <3>1
    <2>2. QED
      BY Zenon, <1>2, <1>5, <1>11, <2>1 DEF ReadInv, Place
  <1>14. CallInv'
    BY Zenon, <1>2, <1>5, <1>10, <1>12, <1>13, OneCallInv
  <1>15. QED
    BY Zenon, <1>2, <1>8, <1>9, <1>14 DEF IInv

\* The test of the positions.
LEMMA SplitStep ==
  ASSUME IInv, Alone, NEW u \in User, Split(u)
  PROVE  IInv' /\ UNCHANGED <<Content, accepted, delivered>>
  <1>1. Type /\ RingInv /\ CallInv
    BY Zenon DEF IInv
  <1> DEFINE k == IF (call[u] = "write") = (read_pos <= write_pos)
                  THEN min(Size - Pos(u), work[u]) ELSE work[u]
  <1>2. /\ piece' = [piece EXCEPT ![u] = k] /\ step' = [step EXCEPT ![u] = "copy"]
        /\ UNCHANGED <<ring, read_pos, write_pos, accepted, delivered, call, work, buf>>
        /\ call[u] # "none" /\ step[u] = "split"
    BY Zenon DEF Split
  <1>3. piece'[u] = k /\ step'[u] = "copy" /\ \A v \in User : v # u => step'[v] = step[v]
    BY Zenon, <1>1, <1>2 DEF Type
  <1>4. \A v \in User : v # u => call'[v] = "none" /\ step'[v] = "split"
    BY Zenon, <1>2, <1>3, OthersIdle
  <1>5. RingInv' /\ UNCHANGED <<Content, InRing, Free>>
    BY Zenon, <1>1, <1>2 DEF RingInv, Content, InRing, Free, Place
  <1>6. step'[u] # "split" /\ step'[u] # "move" /\ step'[u] # "wrap"
    BY <1>3
  <1>7. /\ call[u] = "write" \/ call[u] = "read"
        /\ Size \in Nat \ {0} /\ InRing \in 0 .. Size - 1 /\ Free = Size - 1 - InRing
    <2>1. call[u] \in {"none", "read", "write"}
      BY Zenon, <1>1 DEF Type
    <2>2. call[u] = "write" \/ call[u] = "read"
      BY Zenon, <1>2, <2>1
    <2>3. QED
      BY Zenon, <1>1, <2>2, SizeAssumption DEF RingInv
  <1>8. CASE call[u] = "write"
    <2>1. WriteInv(u)
      BY Zenon, <1>1, <1>8 DEF CallInv
    <2>2. read_pos \in Place /\ write_pos \in Place /\ work[u] \in 1 .. Free
      BY Zenon, <1>2, <2>1 DEF WriteInv
    <2>3. k = IF read_pos <= write_pos THEN min(Size - write_pos, work[u]) ELSE work[u]
      BY Zenon, <1>8 DEF Pos
    <2>4. Fits(k, work[u])
      BY Zenon, <1>1, <2>2, <2>3, FirstWrite
    <2>5. k \in Nat
      <3>1. k \in 1 .. work[u]
        BY Zenon, <2>4 DEF Fits
      <3>2. QED
        BY <3>1
    <2>6. Fits(piece[u], work[u])'
      BY Zenon, <1>2, <1>3, <1>5, <2>4 DEF Fits, Place
    <2>7. WriteInv(u)'
      BY Zenon, <1>2, <1>6, <2>2, <2>6 DEF WriteInv, Place
    <2>8. call'[u] # "read" /\ call'[u] # "none"
      BY <1>2, <1>8
    <2>9. CallInv'
      BY Zenon, <1>4, <2>7, <2>8, OneCallInv
    <2>10. Type'
      <3>1. step' \in [User -> {"split", "copy", "move", "wrap"}]
        BY <1>1, <1>2 DEF Type
      <3>2. piece' \in [User -> Nat]
        BY <1>1, <1>2, <2>5 DEF Type
      <3>3. QED
        BY Zenon, <1>1, <1>2, <3>1, <3>2 DEF Type, Place, User
    <2>11. QED
      BY Zenon, <1>2, <1>5, <2>9, <2>10 DEF IInv
  <1>9. CASE call[u] = "read"
    <2>1. ReadInv(u)
      BY Zenon, <1>1, <1>9 DEF CallInv
    <2>2. read_pos \in Place /\ write_pos \in Place /\ work[u] \in 1 .. InRing
      BY Zenon, <1>2, <2>1 DEF ReadInv
    <2>3. k = IF read_pos <= write_pos THEN work[u] ELSE min(Size - read_pos, work[u])
      <3>1. call[u] # "write" /\ (read_pos <= write_pos) \in BOOLEAN
        BY <1>9
      <3>2. QED
        BY <3>1 DEF Pos
    <2>4. There(k, work[u])
      BY Zenon, <1>1, <2>2, <2>3, FirstRead
    <2>5. k \in Nat
      <3>1. k \in 1 .. work[u]
        BY Zenon, <2>4 DEF There
      <3>2. QED
        BY <3>1
    <2>6. There(piece[u], work[u])'
      BY Zenon, <1>2, <1>3, <1>5, <2>4 DEF There, Place
    <2>7. ReadInv(u)'
      BY Zenon, <1>2, <1>6, <2>2, <2>6 DEF ReadInv, Place
    <2>8. call'[u] # "write" /\ call'[u] # "none"
      BY <1>2, <1>9
    <2>9. CallInv'
      BY Zenon, <1>4, <2>7, <2>8, OneCallInv
    <2>10. Type'
      <3>1. step' \in [User -> {"split", "copy", "move", "wrap"}]
        BY <1>1, <1>2 DEF Type
      <3>2. piece' \in [User -> Nat]
        BY <1>1, <1>2, <2>5 DEF Type
      <3>3. QED
        BY Zenon, <1>1, <1>2, <3>1, <3>2 DEF Type, Place, User
    <2>11. QED
      BY Zenon, <1>2, <1>5, <2>9, <2>10 DEF IInv
  <1>10. QED
    BY Zenon, <1>7, <1>8, <1>9

\* A call that is at a piece, and what is known of it.
LEMMA AtPiece ==
  ASSUME IInv, NEW u \in User, step[u] = "copy" \/ step[u] = "move", call[u] # "none"
  PROVE  /\ \/ call[u] = "write" /\ Fits(piece[u], work[u]) /\ read_pos \in Place
            \/ call[u] = "read" /\ There(piece[u], work[u]) /\ write_pos \in Place
         /\ read_pos \in Place /\ write_pos \in Place /\ work[u] \in Nat /\ piece[u] \in Nat
  <1>1. call[u] = "write" \/ call[u] = "read"
    BY Zenon DEF IInv, Type
  <1>2. work[u] \in Nat /\ piece[u] \in Nat
    BY Zenon DEF IInv, Type
  <1>3. step[u] \in {"copy", "move"}
    BY Zenon
  <1>4. CASE call[u] = "write"
    <2>1. WriteInv(u)
      BY Zenon, <1>4 DEF IInv, CallInv
    <2>2. Fits(piece[u], work[u]) /\ read_pos \in Place
      BY Zenon, <1>3, <2>1 DEF WriteInv
    <2>3. QED
      BY Zenon, <1>2, <1>4, <2>2 DEF Fits
  <1>5. CASE call[u] = "read"
    <2>1. ReadInv(u)
      BY Zenon, <1>5 DEF IInv, CallInv
    <2>2. There(piece[u], work[u]) /\ write_pos \in Place
      BY Zenon, <1>3, <2>1 DEF ReadInv
    <2>3. QED
      BY Zenon, <1>2, <1>5, <2>2 DEF There
  <1>6. QED
    BY Zenon, <1>1, <1>4, <1>5

\* The copy of a piece.
LEMMA CopyStep ==
  ASSUME IInv, Alone, NEW u \in User, Copy(u)
  PROVE  IInv' /\ UNCHANGED <<Content, accepted, delivered>>
  <1>1. Type /\ RingInv /\ CallInv
    BY Zenon DEF IInv
  <1>2. /\ step' = [step EXCEPT ![u] = "move"] /\ call[u] # "none" /\ step[u] = "copy"
        /\ UNCHANGED <<read_pos, write_pos, accepted, delivered, call, work, piece>>
    BY Zenon DEF Copy
  <1>3. step'[u] = "move" /\ \A v \in User : v # u => step'[v] = step[v]
    BY Zenon, <1>1, <1>2 DEF Type
  <1>4. \A v \in User : v # u => call'[v] = "none" /\ step'[v] = "split"
    BY Zenon, <1>2, <1>3, OthersIdle
  <1>5. step'[u] # "split" /\ step'[u] # "wrap"
    BY <1>3
  <1>6. /\ \/ call[u] = "write" /\ Fits(piece[u], work[u])
           \/ call[u] = "read" /\ There(piece[u], work[u])
        /\ read_pos \in Place /\ write_pos \in Place /\ work[u] \in Nat /\ piece[u] \in Nat
    BY Zenon, <1>2, AtPiece
  <1>7. step' \in [User -> {"split", "copy", "move", "wrap"}]
    BY <1>1, <1>2 DEF Type
  <1>8. CASE call[u] = "write" /\ Fits(piece[u], work[u])
    <2>1. ring' = Filled(u, piece[u]) /\ buf' = buf
      BY Zenon, <1>8 DEF Copy
    <2>2. \A i \in Place : ring'[i] = IF i \in write_pos .. write_pos + piece[u] - 1
                                      THEN accepted + (i - write_pos) + 1 ELSE ring[i]
      BY Zenon, <1>8, <2>1 DEF Filled, Span, Pos
    <2>3. RingInv' /\ InRing' = InRing /\ Free' = Free
      BY Zenon, <1>1, <1>2, <1>6, <1>8, <2>2, CopyKeeps
    <2>4. ASSUME NEW i \in write_pos .. write_pos + piece[u] - 1
          PROVE  i \in Place
      <3>1. Size \in Nat \ {0} /\ write_pos \in 0 .. Size - 1 /\ write_pos + piece[u] <= Size
        BY Zenon, <1>6, <1>8, SizeAssumption DEF Fits, Place
      <3>2. QED
        BY <1>6, <3>1 DEF Place
    <2>5. ring' \in [Place -> Nat]
      <3>1. ASSUME NEW i \in Place
            PROVE  (IF i \in Span(u, piece[u]) THEN accepted + (i - write_pos) + 1 ELSE ring[i]) \in Nat
        <4>1. accepted \in Nat /\ ring[i] \in Nat
          BY Zenon, <1>1 DEF Type
        <4>2. write_pos \in Int
          BY <1>6 DEF Place
        <4>3. ASSUME i \in Span(u, piece[u])
              PROVE  accepted + (i - write_pos) + 1 \in Nat
          <5>1. i \in write_pos .. write_pos + piece[u] - 1
            BY Zenon, <1>8, <4>3 DEF Span, Pos
          <5>2. QED
            BY <1>6, <4>1, <4>2, <5>1
        <4>4. QED
          BY Zenon, <4>1, <4>3
      <3>2. QED
        BY Zenon, <2>1, <3>1 DEF Filled
    <2>6. Type'
      BY Zenon, <1>1, <1>2, <1>7, <2>1, <2>5 DEF Type, Place, User
    <2>7. WriteInv(u)'
      <3>1. Fits(piece[u], work[u])'
        BY Zenon, <1>2, <1>8, <2>3 DEF Fits, Place
      <3>2. \A i \in write_pos .. write_pos + piece[u] - 1 : ring'[i] = accepted + (i - write_pos) + 1
        BY Zenon, <2>2, <2>4
      <3>3. QED
        BY Zenon, <1>2, <1>5, <1>6, <3>1, <3>2 DEF WriteInv, Place
    <2>8. call'[u] # "read" /\ call'[u] # "none"
      BY <1>2, <1>8
    <2>9. CallInv'
      BY Zenon, <1>4, <2>7, <2>8, OneCallInv
    <2>10. Content' = Content
      BY Zenon, <1>1, <1>2, <2>3, <2>6, ContentSame
    <2>11. QED
      BY Zenon, <1>2, <2>3, <2>6, <2>9, <2>10 DEF IInv
  <1>9. CASE call[u] = "read" /\ There(piece[u], work[u])
    <2> DEFINE got == [i \in 1 .. piece[u] |->
                         IF read_pos + i - 1 \in Place THEN ring[read_pos + i - 1] ELSE 0]
    <2>0. call[u] # "write"
      BY <1>9
    <2>1. ring' = ring /\ buf' = [buf EXCEPT ![u] = got]
      BY Zenon, <2>0 DEF Copy
    <2>2. RingInv' /\ InRing' = InRing /\ Free' = Free /\ Content' = Content
      BY Zenon, <1>1, <1>2, <2>1 DEF RingInv, InRing, Free, Content, Place
    <2>3. got = Segment(Len(delivered), piece[u])
      <3>1. \A j \in 1 .. piece[u] : read_pos + j - 1 \in Place
                                     /\ ring[read_pos + j - 1] = Len(delivered) + j
        BY Zenon, <1>1, <1>6, <1>9, OldestItems
      <3>2. QED
        BY Zenon, <3>1 DEF Segment
    <2>4. Len(delivered) \in Nat
      BY Zenon, <1>1, RingTypes
    <2>5. got \in Seq(Nat)
      BY Zenon, <1>6, <2>3, <2>4, SegmentType
    <2>6. buf'[u] = got /\ buf' \in [User -> Seq(Nat)]
      <3>1. buf \in [User -> Seq(Nat)]
        BY Zenon, <1>1 DEF Type
      <3> HIDE DEF got
      <3>2. QED
        BY Zenon, <2>1, <2>5, <3>1
    <2>7. Type'
      BY Zenon, <1>1, <1>2, <1>7, <2>1, <2>6 DEF Type, Place, User
    <2>8. ReadInv(u)'
      <3>1. There(piece[u], work[u])'
        BY Zenon, <1>2, <1>9, <2>2 DEF There, Place
      <3>2. buf'[u] = Segment(Len(delivered), piece[u])
        BY Zenon, <2>3, <2>6
      <3>3. QED
        BY Zenon, <1>2, <1>5, <1>6, <3>1, <3>2 DEF ReadInv, Place
    <2>9. call'[u] # "write" /\ call'[u] # "none"
      BY <1>2, <1>9
    <2>10. CallInv'
      BY Zenon, <1>4, <2>8, <2>9, OneCallInv
    <2>11. QED
      BY Zenon, <1>2, <2>2, <2>7, <2>10 DEF IInv
  <1>10. QED
    BY Zenon, <1>6, <1>8, <1>9

\* What returning does to the state of a call.
LEMMA Returned ==
  ASSUME IInv, Alone, NEW u \in User, Return(u), call[u] # "none"
  PROVE  /\ call'[u] = "none" /\ step'[u] = "split"
         /\ \A v \in User : v # u => call'[v] = "none" /\ step'[v] = "split"
         /\ call' \in [User -> {"none", "read", "write"}]
         /\ step' \in [User -> {"split", "copy", "move", "wrap"}]
         /\ work' \in [User -> Nat] /\ piece' \in [User -> Nat]
  <1>1. Type
    BY Zenon DEF IInv
  <1>2. /\ call' \in [User -> {"none", "read", "write"}]
        /\ step' \in [User -> {"split", "copy", "move", "wrap"}]
        /\ work' \in [User -> Nat] /\ piece' \in [User -> Nat]
    BY <1>1 DEF Type, Return
  <1>3. /\ call'[u] = "none" /\ step'[u] = "split"
        /\ \A v \in User : v # u => call'[v] = call[v] /\ step'[v] = step[v]
    BY Zenon, <1>1 DEF Type, Return
  <1>4. QED
    BY Zenon, <1>2, <1>3, OthersIdle

\* A piece that cannot be copied.
LEMMA FaultStep ==
  ASSUME IInv, Alone, NEW u \in User, Fault(u)
  PROVE  IInv' /\ UNCHANGED <<Content, accepted, delivered>>
  <1>1. Type /\ RingInv /\ CallInv
    BY Zenon DEF IInv
  <1>2. /\ Return(u) /\ call[u] # "none" /\ step[u] = "copy"
        /\ UNCHANGED <<read_pos, write_pos, accepted, delivered, buf>>
    BY Zenon DEF Fault
  <1>3. /\ call'[u] = "none" /\ step'[u] = "split"
        /\ \A v \in User : v # u => call'[v] = "none" /\ step'[v] = "split"
        /\ call' \in [User -> {"none", "read", "write"}]
        /\ step' \in [User -> {"split", "copy", "move", "wrap"}]
        /\ work' \in [User -> Nat] /\ piece' \in [User -> Nat]
    BY Zenon, <1>2, Returned
  <1>4. /\ \/ call[u] = "write" /\ Fits(piece[u], work[u])
           \/ call[u] = "read" /\ There(piece[u], work[u])
        /\ read_pos \in Place /\ write_pos \in Place /\ work[u] \in Nat /\ piece[u] \in Nat
    BY Zenon, <1>2, AtPiece
  <1>5. call'[u] # "write" /\ call'[u] # "read"
    BY <1>3
  <1>6. CallInv'
    BY Zenon, <1>2, <1>3, <1>4, <1>5, OneCallInv
  <1>7. CASE call[u] = "write" /\ Fits(piece[u], work[u])
    <2>1. PICK n \in 0 .. piece[u] - 1 :
            ring' = [i \in Place |-> IF i \in Span(u, piece[u]) \ Span(u, n)
                                     THEN 0 ELSE Filled(u, n)[i]]
      BY Zenon, <1>7 DEF Fault
    <2>2. Span(u, piece[u]) = write_pos .. write_pos + piece[u] - 1
          /\ Span(u, n) = write_pos .. write_pos + n - 1
      BY Zenon, <1>7 DEF Span, Pos
    <2>3. write_pos \in Int /\ n \in Nat /\ n < piece[u]
      BY <1>4 DEF Place
    <2>4. ASSUME NEW i \in Place
          PROVE  /\ ring'[i] \in Nat
                 /\ i \notin write_pos .. write_pos + piece[u] - 1 => ring'[i] = ring[i]
      <3>1. accepted \in Nat /\ ring[i] \in Nat
        BY Zenon, <1>1 DEF Type
      <3>2. Filled(u, n)[i] = IF i \in Span(u, n) THEN accepted + (i - write_pos) + 1 ELSE ring[i]
        BY Zenon DEF Filled
      <3>3. CASE i \in Span(u, n)
        <4>1. accepted + (i - write_pos) + 1 \in Nat /\ i \in write_pos .. write_pos + piece[u] - 1
          BY <1>4, <2>2, <2>3, <3>1, <3>3
        <4>2. ring'[i] = accepted + (i - write_pos) + 1
          BY Zenon, <2>1, <3>2, <3>3
        <4>3. QED
          BY Zenon, <4>1, <4>2
      <3>4. CASE i \notin Span(u, n) /\ i \in Span(u, piece[u])
        <4>1. ring'[i] = 0
          BY Zenon, <2>1, <3>4
        <4>2. QED
          BY <2>2, <3>4, <4>1
      <3>5. CASE i \notin Span(u, n) /\ i \notin Span(u, piece[u])
        <4>1. ring'[i] = ring[i]
          BY Zenon, <2>1, <3>2, <3>5
        <4>2. QED
          BY Zenon, <3>1, <4>1
      <3>6. QED
        BY Zenon, <3>3, <3>4, <3>5
    <2>5. RingInv' /\ InRing' = InRing /\ Free' = Free
      BY Zenon, <1>1, <1>2, <1>4, <1>7, <2>4, CopyKeeps
    <2>6. ring' \in [Place -> Nat]
      <3>1. ring' = [i \in Place |-> ring'[i]]
        BY Zenon, <2>1
      <3>2. QED
        BY Zenon, <2>4, <3>1
    <2>7. Type'
      BY Zenon, <1>1, <1>2, <1>3, <2>6 DEF Type, Place, User
    <2>8. Content' = Content
      BY Zenon, <1>1, <1>2, <2>5, <2>7, ContentSame
    <2>9. QED
      BY Zenon, <1>2, <1>6, <2>5, <2>7, <2>8 DEF IInv
  <1>8. CASE call[u] = "read" /\ There(piece[u], work[u])
    <2>0. call[u] # "write"
      BY <1>8
    <2>1. ring' = ring
      BY Zenon, <2>0 DEF Fault
    <2>2. RingInv' /\ Content' = Content
      BY Zenon, <1>1, <1>2, <2>1 DEF RingInv, InRing, Free, Content, Place
    <2>3. Type'
      BY Zenon, <1>1, <1>2, <1>3, <2>1 DEF Type, Place, User
    <2>4. QED
      BY Zenon, <1>2, <1>6, <2>2, <2>3 DEF IInv
  <1>9. QED
    BY Zenon, <1>4, <1>7, <1>8

\* A position moves over a piece.
LEMMA MoveStep ==
  ASSUME IInv, Alone, NEW u \in User, Move(u)
  PROVE  IInv' /\ Channel!Next
  <1>1. Type /\ RingInv /\ CallInv
    BY Zenon DEF IInv
  <1>2. /\ step' = [step EXCEPT ![u] = "wrap"] /\ call[u] # "none" /\ step[u] = "move"
        /\ UNCHANGED <<ring, call, work, piece>>
    BY Zenon DEF Move
  <1>3. step'[u] = "wrap" /\ \A v \in User : v # u => step'[v] = step[v]
    BY Zenon, <1>1, <1>2 DEF Type
  <1>4. \A v \in User : v # u => call'[v] = "none" /\ step'[v] = "split"
    BY Zenon, <1>2, <1>3, OthersIdle
  <1>5. step'[u] # "split" /\ step'[u] \notin {"copy", "move"} /\ step'[u] # "move"
    BY <1>3
  <1>6. /\ \/ call[u] = "write" /\ Fits(piece[u], work[u])
           \/ call[u] = "read" /\ There(piece[u], work[u])
        /\ read_pos \in Place /\ write_pos \in Place /\ work[u] \in Nat /\ piece[u] \in Nat
    BY Zenon, <1>2, AtPiece
  <1>7. step' \in [User -> {"split", "copy", "move", "wrap"}]
    BY <1>1, <1>2 DEF Type
  <1>8. Size \in Nat \ {0} /\ InRing \in 0 .. Size - 1 /\ Free = Size - 1 - InRing
    BY Zenon, <1>1, SizeAssumption DEF RingInv
  <1>9. CASE call[u] = "write" /\ Fits(piece[u], work[u])
    <2>1. /\ write_pos' = write_pos + piece[u] /\ accepted' = accepted + piece[u]
          /\ UNCHANGED <<read_pos, delivered, buf>>
      BY Zenon, <1>9 DEF Move
    <2>2. \A i \in write_pos .. write_pos + piece[u] - 1 : ring[i] = accepted + (i - write_pos) + 1
      BY Zenon, <1>1, <1>2, <1>9 DEF CallInv, WriteInv
    <2>3. /\ RingInv' /\ InRing' = InRing + piece[u] /\ Free' = Free - piece[u]
          /\ write_pos' \in 0 .. Size /\ accepted' \in Nat
      BY Zenon, <1>1, <1>2, <1>6, <1>9, <2>1, <2>2, MoveIn
    <2>4. Type'
      BY Zenon, <1>1, <1>2, <1>7, <2>1, <2>3 DEF Type, Place, User
    <2>5. /\ piece[u] \in 1 .. work[u] /\ work[u] <= Free
          /\ piece[u] < work[u] => write_pos + piece[u] = Size
      BY Zenon, <1>9 DEF Fits
    <2>6. WriteInv(u)'
      <3>1. work[u] - piece[u] <= Free'
        BY <1>6, <1>8, <2>3, <2>5
      <3>2. QED
        BY Zenon, <1>2, <1>5, <1>6, <2>1, <2>5, <3>1 DEF WriteInv, Place
    <2>7. call'[u] # "read" /\ call'[u] # "none"
      BY <1>2, <1>9
    <2>8. CallInv'
      BY Zenon, <1>4, <2>6, <2>7, OneCallInv
    <2>9. piece[u] \in 1 .. Free
      BY <1>6, <1>8, <2>5
    <2>10. Channel!Next
      BY Zenon, <1>1, <2>1, <2>3, <2>4, <2>9, PieceAccepted
    <2>11. QED
      BY Zenon, <2>3, <2>4, <2>8, <2>10 DEF IInv
  <1>10. CASE call[u] = "read" /\ There(piece[u], work[u])
    <2>0. call[u] # "write"
      BY <1>10
    <2>1. /\ read_pos' = read_pos + piece[u] /\ delivered' = delivered \o buf[u]
          /\ buf' = [buf EXCEPT ![u] = <<>>]
          /\ UNCHANGED <<write_pos, accepted>>
      BY Zenon, <2>0 DEF Move
    <2>2. delivered' = delivered \o Segment(Len(delivered), piece[u])
      BY Zenon, <1>1, <1>2, <1>10, <2>1 DEF CallInv, ReadInv
    <2>3. /\ RingInv' /\ InRing' = InRing - piece[u]
          /\ read_pos' \in 0 .. Size /\ delivered' \in Seq(Nat)
          /\ Len(delivered') = Len(delivered) + piece[u]
      BY Zenon, <1>1, <1>2, <1>6, <1>10, <2>1, <2>2, MoveOut
    <2>4. buf' \in [User -> Seq(Nat)]
      BY <1>1, <2>1 DEF Type
    <2>5. Type'
      BY Zenon, <1>1, <1>2, <1>7, <2>1, <2>3, <2>4 DEF Type, Place, User
    <2>6. /\ piece[u] \in 1 .. work[u] /\ work[u] <= InRing
          /\ piece[u] < work[u] => read_pos + piece[u] = Size
      BY Zenon, <1>10 DEF There
    <2>7. ReadInv(u)'
      <3>1. work[u] - piece[u] <= InRing'
        BY <1>6, <1>8, <2>3, <2>6
      <3>2. QED
        BY Zenon, <1>2, <1>5, <1>6, <2>1, <2>6, <3>1 DEF ReadInv, Place
    <2>8. call'[u] # "write" /\ call'[u] # "none"
      BY <1>2, <1>10
    <2>9. CallInv'
      BY Zenon, <1>4, <2>7, <2>8, OneCallInv
    <2>10. piece[u] \in 1 .. InRing
      BY <1>6, <1>8, <2>6
    <2>11. Channel!Next
      BY Zenon, <1>1, <2>1, <2>2, <2>3, <2>5, <2>10, PieceDelivered
    <2>12. QED
      BY Zenon, <2>3, <2>5, <2>9, <2>11 DEF IInv
  <1>11. QED
    BY Zenon, <1>6, <1>9, <1>10

\* What going on to the second piece does to the state of a call.
LEMMA GoneOn ==
  ASSUME IInv, Alone, NEW u \in User, Continue(u), call[u] # "none", piece[u] < work[u],
         piece[u] \in 1 .. work[u]
  PROVE  /\ call' = call /\ step'[u] = "copy"
         /\ work'[u] = work[u] - piece[u] /\ piece'[u] = work[u] - piece[u]
         /\ \A v \in User : v # u => call'[v] = "none" /\ step'[v] = "split"
         /\ step' \in [User -> {"split", "copy", "move", "wrap"}]
         /\ work' \in [User -> Nat] /\ piece' \in [User -> Nat]
         /\ work[u] - piece[u] \in Nat \ {0}
  <1>1. Type
    BY Zenon DEF IInv
  <1>2. /\ work' = [work EXCEPT ![u] = @ - piece[u]]
        /\ piece' = [piece EXCEPT ![u] = work[u] - @]
        /\ step' = [step EXCEPT ![u] = "copy"] /\ call' = call
    BY Zenon DEF Continue
  <1>3. work \in [User -> Nat] /\ piece \in [User -> Nat]
    BY Zenon, <1>1 DEF Type
  <1>4. work[u] \in Nat /\ piece[u] \in Nat
    BY Zenon, <1>3
  <1>5. work[u] - piece[u] \in Nat \ {0}
    BY <1>4
  <1>6. work' \in [User -> Nat] /\ piece' \in [User -> Nat]
    BY <1>2, <1>3, <1>5
  <1>7. step' \in [User -> {"split", "copy", "move", "wrap"}]
    BY <1>1, <1>2 DEF Type
  <1>8. work'[u] = work[u] - piece[u] /\ piece'[u] = work[u] - piece[u]
    BY Zenon, <1>2, <1>3
  <1>9. step'[u] = "copy" /\ \A v \in User : v # u => step'[v] = step[v]
    BY Zenon, <1>1, <1>2 DEF Type
  <1>10. QED
    BY Zenon, <1>2, <1>5, <1>6, <1>7, <1>8, <1>9, OthersIdle

\* A position goes back to the start, and the call goes on or returns.
LEMMA WrapStep ==
  ASSUME IInv, Alone, NEW u \in User, Wrap(u)
  PROVE  IInv' /\ UNCHANGED <<Content, accepted, delivered>>
  <1>1. Type /\ RingInv /\ CallInv
    BY Zenon DEF IInv
  <1>2. /\ Continue(u) /\ call[u] # "none" /\ step[u] = "wrap"
        /\ UNCHANGED <<ring, accepted, delivered, buf>>
    BY Zenon DEF Wrap
  <1>3. call[u] = "write" \/ call[u] = "read"
    BY Zenon, <1>1, <1>2 DEF Type
  <1>4. /\ read_pos' \in Place /\ write_pos' \in Place
        /\ RingInv' /\ InRing' = InRing /\ Free' = Free
        /\ piece[u] \in 1 .. work[u]
        /\ \/ call[u] = "write" /\ work[u] - piece[u] <= Free
              /\ (piece[u] < work[u] => write_pos' = 0)
           \/ call[u] = "read" /\ work[u] - piece[u] <= InRing
              /\ (piece[u] < work[u] => read_pos' = 0)
    <2>1. CASE call[u] = "write"
      <3>1. write_pos' = AtStart(write_pos) /\ read_pos' = read_pos
        BY Zenon, <2>1 DEF Wrap
      <3>2. WriteInv(u)
        BY Zenon, <1>1, <2>1 DEF CallInv
      <3>3. /\ read_pos \in Place /\ piece[u] \in 1 .. work[u] /\ work[u] - piece[u] <= Free
            /\ piece[u] < work[u] => write_pos = Size
        BY Zenon, <1>2, <3>2 DEF WriteInv
      <3>4. RingInv' /\ InRing' = InRing /\ Free' = Free /\ write_pos' \in Place
        BY Zenon, <1>1, <1>2, <3>1, <3>3, WrapWrite
      <3>5. QED
        BY Zenon, <2>1, <3>1, <3>3, <3>4 DEF AtStart
    <2>2. CASE call[u] = "read"
      <3>0. call[u] # "write"
        BY <2>2
      <3>1. read_pos' = AtStart(read_pos) /\ write_pos' = write_pos
        BY Zenon, <3>0 DEF Wrap
      <3>2. ReadInv(u)
        BY Zenon, <1>1, <2>2 DEF CallInv
      <3>3. /\ write_pos \in Place /\ piece[u] \in 1 .. work[u] /\ work[u] - piece[u] <= InRing
            /\ piece[u] < work[u] => read_pos = Size
        BY Zenon, <1>2, <3>2 DEF ReadInv
      <3>4. RingInv' /\ InRing' = InRing /\ Free' = Free /\ read_pos' \in Place
        BY Zenon, <1>1, <1>2, <3>1, <3>3, WrapRead
      <3>5. QED
        BY Zenon, <2>2, <3>1, <3>3, <3>4 DEF AtStart
    <2>3. QED
      BY Zenon, <1>3, <2>1, <2>2
  <1>5. read_pos' \in 0 .. Size /\ write_pos' \in 0 .. Size
    BY <1>4, SizeAssumption DEF Place
  <1>6. InRing \in 0 .. Size - 1 /\ Free = Size - 1 - InRing /\ Size \in Nat \ {0}
    BY Zenon, <1>1, SizeAssumption DEF RingInv
  <1>7. CASE piece[u] < work[u]
    <2> DEFINE w == work[u] - piece[u]
    <2>1. /\ call' = call /\ step'[u] = "copy" /\ work'[u] = w /\ piece'[u] = w
          /\ \A v \in User : v # u => call'[v] = "none" /\ step'[v] = "split"
          /\ step' \in [User -> {"split", "copy", "move", "wrap"}]
          /\ work' \in [User -> Nat] /\ piece' \in [User -> Nat]
          /\ w \in Nat \ {0}
      BY Zenon, <1>2, <1>4, <1>7, GoneOn
    <2>2. step'[u] # "split" /\ step'[u] # "move" /\ step'[u] # "wrap"
      BY <2>1
    <2>3. Type'
      BY Zenon, <1>1, <1>2, <1>5, <2>1 DEF Type, Place, User
    <2> HIDE DEF w
    <2>4. ~ (w < w)
      BY <2>1
    <2>5. CASE call[u] = "write"
      <3>0. call[u] # "read"
        BY <2>5
      <3>1. write_pos' = 0 /\ w <= Free
        BY Zenon, <1>4, <1>7, <3>0 DEF w
      <3>2. w \in 1 .. Free
        BY <1>6, <2>1, <3>1
      <3>3. w \in 1 .. room(Size, read_pos', 0)
        BY Zenon, <1>4, <3>1, <3>2 DEF Free
      <3>4. w \in 1 .. w /\ 0 + w <= Size /\ (0 < read_pos' => 0 + w < read_pos')
        BY Zenon, <1>4, <3>3, SecondPiece
      <3>5. Fits(piece[u], work[u])'
        BY Zenon, <1>4, <2>1, <2>4, <3>1, <3>4 DEF Fits, Place
      <3>6. WriteInv(u)'
        BY Zenon, <1>4, <2>2, <3>5 DEF WriteInv, Place
      <3>7. call'[u] # "none" /\ call'[u] # "read"
        BY Zenon, <1>2, <2>1, <3>0
      <3>8. CallInv'
        BY Zenon, <2>1, <3>6, <3>7, OneCallInv
      <3>9. QED
        BY Zenon, <1>1, <1>2, <1>4, <2>3, <3>8, ContentSame DEF IInv
    <2>6. CASE call[u] = "read"
      <3>0. call[u] # "write"
        BY <2>6
      <3>1. read_pos' = 0 /\ w <= InRing
        BY Zenon, <1>4, <1>7, <3>0 DEF w
      <3>2. w \in 1 .. InRing
        BY <1>6, <2>1, <3>1
      <3>3. w \in 1 .. data(Size, 0, write_pos')
        BY Zenon, <1>4, <3>1, <3>2 DEF InRing
      <3>4. w \in 1 .. w /\ 0 + w <= Size /\ (0 <= write_pos' => 0 + w <= write_pos')
        BY Zenon, <1>4, <3>3, SecondPiece
      <3>5. There(piece[u], work[u])'
        BY Zenon, <1>4, <2>1, <2>4, <3>1, <3>4 DEF There, Place
      <3>6. ReadInv(u)'
        BY Zenon, <1>4, <2>2, <3>5 DEF ReadInv, Place
      <3>7. call'[u] # "none" /\ call'[u] # "write"
        BY Zenon, <1>2, <2>1, <3>0
      <3>8. CallInv'
        BY Zenon, <2>1, <3>6, <3>7, OneCallInv
      <3>9. QED
        BY Zenon, <1>1, <1>2, <1>4, <2>3, <3>8, ContentSame DEF IInv
    <2>7. QED
      BY Zenon, <1>3, <2>5, <2>6
  <1>8. CASE ~ (piece[u] < work[u])
    <2>1. Return(u)
      BY Zenon, <1>2, <1>8 DEF Continue
    <2>2. /\ call'[u] = "none" /\ step'[u] = "split"
          /\ \A v \in User : v # u => call'[v] = "none" /\ step'[v] = "split"
          /\ call' \in [User -> {"none", "read", "write"}]
          /\ step' \in [User -> {"split", "copy", "move", "wrap"}]
          /\ work' \in [User -> Nat] /\ piece' \in [User -> Nat]
      BY Zenon, <1>2, <2>1, Returned
    <2>3. call'[u] # "write" /\ call'[u] # "read"
      BY <2>2
    <2>4. CallInv'
      BY Zenon, <1>4, <2>2, <2>3, OneCallInv
    <2>5. Type'
      BY Zenon, <1>1, <1>2, <1>5, <2>2 DEF Type, Place, User
    <2>6. QED
      BY Zenon, <1>1, <1>2, <1>4, <2>4, <2>5, ContentSame DEF IInv
  <1>9. QED
    BY Zenon, <1>7, <1>8

\* A step keeps the invariant, and is a step of the channel or changes nothing in it.
LEMMA Step ==
  ASSUME IInv, Alone, Alone', [Next]_vars
  PROVE  IInv' /\ (Channel!Next \/ UNCHANGED <<Content, accepted, delivered>>)
  <1>1. ASSUME NEW u \in Writer, NEW count \in 1 .. Size, pipe_write(u, count)
        PROVE  IInv' /\ UNCHANGED <<Content, accepted, delivered>>
    <2>1. u \in User /\ Begin(u, "write", Free, count)
      BY Zenon, <1>1 DEF pipe_write, User, Free
    <2>2. QED
      BY Zenon, <2>1, BeginStep
  <1>2. ASSUME NEW u \in Reader, NEW count \in 1 .. Size, pipe_read(u, count)
        PROVE  IInv' /\ UNCHANGED <<Content, accepted, delivered>>
    <2>1. u \in User /\ Begin(u, "read", InRing, count) /\ "read" # "write"
      BY <1>2 DEF pipe_read, User, InRing
    <2>2. QED
      BY Zenon, <2>1, BeginStep
  <1>3. ASSUME NEW u \in User, Split(u) \/ Copy(u) \/ Fault(u) \/ Move(u) \/ Wrap(u)
        PROVE  IInv' /\ (Channel!Next \/ UNCHANGED <<Content, accepted, delivered>>)
    BY Zenon, <1>3, SplitStep, CopyStep, FaultStep, MoveStep, WrapStep
  <1>4. ASSUME UNCHANGED vars
        PROVE  IInv' /\ UNCHANGED <<Content, accepted, delivered>>
    <2>1. UNCHANGED <<ring, read_pos, write_pos, accepted, delivered, call, step, work, piece, buf>>
      BY Zenon, <1>4 DEF vars, callvars
    <2>2. Type' /\ RingInv' /\ Content' = Content
      BY Zenon, <2>1 DEF IInv, Type, RingInv, InRing, Free, Content, Place, User
    <2>3. CallInv'
      BY Zenon, <2>1 DEF IInv, CallInv, WriteInv, ReadInv, Fits, There, InRing, Free, Place, User
    <2>4. QED
      BY Zenon, <2>1, <2>2, <2>3 DEF IInv
  <1>5. QED
    BY Zenon, <1>1, <1>2, <1>3, <1>4 DEF Next

\* pipe_ctor leaves an empty channel.
LEMMA Start ==
  ASSUME Init
  PROVE  IInv /\ Channel!Init
  <1>1. Size \in Nat \ {0} /\ Len(delivered) = 0 /\ read_pos = 0 /\ write_pos = 0
    BY Zenon, SizeAssumption DEF Init
  <1>2. InRing = 0 /\ Free = Size - 1
    BY <1>1 DEF InRing, Free, data, room
  <1>3. Type
    BY <1>1 DEF Init, Type, Place
  <1>4. RingInv
    BY <1>1, <1>2 DEF Init, RingInv, Place
  <1>5. CallInv
    BY <1>1 DEF Init, CallInv, Place
  <1>6. Content = <<>>
    BY <1>1, <1>2 DEF Content, InRing
  <1>7. QED
    BY Zenon, <1>3, <1>4, <1>5, <1>6 DEF IInv, Init, Channel!Init

\* When calls do not overlap, the positions stay inside of the memory whenever no call is
\* under way, and the ring holds what it should at every step of a call.
THEOREM Invariance == Spec /\ []Alone => []IInv
  <1>1. Init => IInv
    BY Zenon, Start
  <1>2. IInv /\ Alone /\ Alone' /\ [Next]_vars => IInv'
    BY Zenon, Step
  <1>3. QED
    BY <1>1, <1>2, PTL DEF Spec

\* When calls do not overlap, the driver is a first-in first-out channel of pipe_size - 1
\* items, for any users: no item is lost, repeated or delivered out of order by the
\* wrapping of the positions, by calls of two pieces, or by calls that fail between them.
\* Nothing in the driver keeps calls apart, and without the condition the theorem is
\* false: one reader and one writer are enough.
THEOREM Refinement == Spec /\ []Alone => RingIsChannel
  <1>1. Init => Channel!Init
    BY Zenon, Start
  <1>2. IInv /\ Alone /\ Alone' /\ [Next]_vars => [Channel!Next]_(Channel!vars)
    BY Zenon, Step DEF Channel!vars
  <1>3. QED
    BY <1>1, <1>2, Invariance, PTL DEF Spec, RingIsChannel, Channel!Spec

-----------------------------------------------------------------------------
(* The load and the unload of the modules.                                 *)

\* The resources that the first k calls of an init function acquire.
Gets(f, k) == {f.init[i].get : i \in 1 .. k}

\* The resources that a list of releases names.
Listed(s) == {s[i] : i \in 1 .. Len(s)}

\* The releases of the driver f in s release nothing twice, and nothing before what needs it.
InOrder(f, s) ==
  /\ s \in Seq(Resource)
  /\ \A i, j \in 1 .. Len(s) : s[i] = s[j] => i = j
  /\ \A n \in Needs, i \in 1 .. Len(s) :
       s[i] = n[1] /\ n[2] \in Gets(f, Len(f.init)) => \E j \in i + 1 .. Len(s) : s[j] = n[2]

\* What the driver releases when its call k has failed.
Unwinding(f, k) == f.init[k].inline \o SubSeq(f.labels, f.init[k].label, Len(f.labels))

\* What has to be right about the text of a driver: it acquires nothing twice, and what a
\* resource needs before it; it goes on without a proc entry only; and whichever call fails,
\* as well as in the exit function, it releases in order what it has acquired.
Sound(f) ==
  /\ Len(f.init) \in Nat /\ DOMAIN f.init = 1 .. Len(f.init)
  /\ \A k \in 1 .. Len(f.init) : f.init[k].get \in Resource
  /\ \A i, k \in 1 .. Len(f.init) : f.init[i].get = f.init[k].get => i = k
  /\ \A k \in 1 .. Len(f.init) : "ignore" \in f.init[k].fails => f.init[k].get = "proc"
  /\ \A n \in Needs, k \in 1 .. Len(f.init) :
       f.init[k].get = n[1] /\ n[2] \in Gets(f, Len(f.init)) => n[2] \in Gets(f, k - 1)
  /\ \A k \in 1 .. Len(f.init) : "goto" \in f.init[k].fails =>
       InOrder(f, Unwinding(f, k)) /\ Listed(Unwinding(f, k)) = Gets(f, k - 1)
  /\ InOrder(f, f.exit) /\ Listed(f.exit) = Gets(f, Len(f.init))

\* What a driver f has acquired, and has not released, after a calls of its init function or
\* with the releases p before it.
Owned(f, a, p) == Gets(f, a) \cup Listed(p)

\* The driver holds what it owns, with the possible exception of its proc entry.
Good(f, a, p, h) ==
  /\ Sound(f)
  /\ a \in 0 .. Len(f.init)
  /\ p # <<>> => a = 0
  /\ InOrder(f, p)
  /\ h \in [Resource -> {0, 1}]
  /\ \A r \in Resource : h[r] = 1 => r \in Owned(f, a, p)
  /\ \A r \in Resource \ {"proc"} : r \in Owned(f, a, p) => h[r] = 1

\* The inductive invariant: besides, the major number has one owner.
RegisterInv ==
  /\ at \in [Present -> Int]
  /\ plan \in [Present -> Seq(Resource)]
  /\ held \in [Present -> [Resource -> {0, 1}]]
  /\ \A d \in Present : Good(driver[d], at[d], plan[d], held[d])
  /\ \A d, e \in Present : held[d]["major"] = 1 /\ held[e]["major"] = 1 => d = e

-----------------------------------------------------------------------------
(* The text of the drivers.                                                *)

\* What an init function has to do: it acquires nothing twice, what a resource needs
\* before the resource, and it goes on without a proc entry only.
Basic(f) ==
  /\ Len(f.init) \in Nat /\ DOMAIN f.init = 1 .. Len(f.init)
  /\ \A k \in 1 .. Len(f.init) : f.init[k].get \in Resource
  /\ \A i, k \in 1 .. Len(f.init) : f.init[i].get = f.init[k].get => i = k
  /\ \A k \in 1 .. Len(f.init) : "ignore" \in f.init[k].fails => f.init[k].get = "proc"
  /\ \A n \in Needs, k \in 1 .. Len(f.init) :
       f.init[k].get = n[1] /\ n[2] \in Gets(f, Len(f.init)) => n[2] \in Gets(f, k - 1)

\* s names what the first k - 1 calls of f acquire, the last one first.
Mirror(f, k, s) ==
  /\ s \in Seq(Resource) /\ Len(s) = k - 1
  /\ \A i \in 1 .. k - 1 : s[i] = f.init[k - i].get

\* Releases in the order opposite to that of the calls are in order.
LEMMA MirrorInOrder ==
  ASSUME NEW f, Basic(f), NEW k \in 1 .. Len(f.init) + 1, NEW s, Mirror(f, k, s)
  PROVE  InOrder(f, s) /\ Listed(s) = Gets(f, k - 1)
  <1>0. Len(f.init) \in Nat /\ s \in Seq(Resource) /\ Len(s) = k - 1
    BY Zenon DEF Basic, Mirror
  <1>1. ASSUME NEW i \in 1 .. Len(s), NEW j \in 1 .. Len(s), s[i] = s[j]
        PROVE  i = j
    <2>1. /\ k - i \in 1 .. Len(f.init) /\ k - j \in 1 .. Len(f.init)
          /\ f.init[k - i].get = f.init[k - j].get
      <3>1. /\ k - i \in 1 .. Len(f.init) /\ k - j \in 1 .. Len(f.init)
            /\ i \in 1 .. k - 1 /\ j \in 1 .. k - 1
        BY <1>0
      <3>2. f.init[k - i].get = f.init[k - j].get
        BY Zenon, <1>1, <3>1 DEF Mirror
      <3>3. QED
        BY Zenon, <3>1, <3>2
    <2>2. k - i = k - j
      BY Zenon, <2>1 DEF Basic
    <2>3. QED
      BY <1>0, <2>2
  <1>2. ASSUME NEW n \in Needs, NEW i \in 1 .. Len(s), s[i] = n[1],
               n[2] \in Gets(f, Len(f.init))
        PROVE  \E j \in i + 1 .. Len(s) : s[j] = n[2]
    <2>1. n[2] \in Gets(f, k - i - 1)
      BY <1>0, <1>2 DEF Basic, Mirror
    <2>2. PICK m \in 1 .. k - i - 1 : f.init[m].get = n[2]
      BY Zenon, <2>1 DEF Gets
    <2>3. k - m \in i + 1 .. Len(s) /\ s[k - m] = n[2]
      BY <1>0, <2>2 DEF Mirror
    <2>4. QED
      BY Zenon, <2>3
  <1>3. Listed(s) = Gets(f, k - 1)
    <2>1. ASSUME NEW i \in 1 .. Len(s)
          PROVE  s[i] \in Gets(f, k - 1)
      <3>1. i \in 1 .. k - 1 /\ k - i \in 1 .. k - 1
        BY <1>0
      <3>2. QED
        BY Zenon, <3>1 DEF Mirror, Gets
    <2>2. ASSUME NEW m \in 1 .. k - 1
          PROVE  f.init[m].get \in Listed(s)
      <3>1. k - m \in 1 .. Len(s) /\ s[k - m] = f.init[m].get
        BY <1>0 DEF Mirror
      <3>2. QED
        BY Zenon, <3>1 DEF Listed
    <2>3. QED
      BY Zenon, <2>1, <2>2 DEF Listed, Gets
  <1>4. QED
    BY Zenon, <1>0, <1>1, <1>2, <1>3 DEF InOrder

\* The labels undo the calls one by one, the last one but one first, and a call that fails
\* jumps to the label that undoes the call before it.
Labelled(f) ==
  /\ f.labels \in Seq(Resource) /\ Len(f.labels) = Len(f.init) - 1
  /\ \A j \in 1 .. Len(f.labels) : f.labels[j] = f.init[Len(f.init) - j].get
  /\ \A k \in 1 .. Len(f.init) : "goto" \in f.init[k].fails =>
       f.init[k].inline = <<>> /\ f.init[k].label = Len(f.init) - k + 1

\* The part of a list of releases that a jump to one of its labels leaves.
LEMMA FromLabel ==
  ASSUME NEW list \in Seq(Resource), NEW N \in Nat, Len(list) = N - 1, NEW k \in 1 .. N
  PROVE  LET s == SubSeq(list, N - k + 1, N - 1) IN
         /\ s \in Seq(Resource) /\ Len(s) = k - 1
         /\ \A i \in 1 .. k - 1 : s[i] = list[N - k + i]
  <1> DEFINE m == N - k + 1
             n == N - 1
  <1>1. /\ m \in Int /\ n \in Int /\ n - m + 1 = k - 1
        /\ (IF m <= n THEN n - m + 1 ELSE 0) = k - 1
        /\ \A i \in 1 .. k - 1 : m + i - 1 = N - k + i
    OBVIOUS
  <1>2. \A i \in m .. n : list[i] \in Resource
    OBVIOUS
  <1> HIDE DEF m, n
  <1>3. /\ SubSeq(list, m, n) \in Seq(Resource)
        /\ Len(SubSeq(list, m, n)) = IF m <= n THEN n - m + 1 ELSE 0
        /\ \A i \in 1 .. n - m + 1 : SubSeq(list, m, n)[i] = list[m + i - 1]
    BY <1>1, <1>2, SubSeqProperties
  <1>4. /\ SubSeq(list, m, n) \in Seq(Resource) /\ Len(SubSeq(list, m, n)) = k - 1
        /\ \A i \in 1 .. k - 1 : SubSeq(list, m, n)[i] = list[N - k + i]
    BY Zenon, <1>1, <1>3
  <1>5. QED
    BY Zenon, <1>4 DEF m, n

\* Falling through the labels releases in the order opposite to that of the calls.
LEMMA LabelsMirror ==
  ASSUME NEW f, Basic(f), Labelled(f), NEW k \in 1 .. Len(f.init), "goto" \in f.init[k].fails
  PROVE  Mirror(f, k, Unwinding(f, k))
  <1> DEFINE N == Len(f.init)
             s == SubSeq(f.labels, N - k + 1, N - 1)
  <1>1. N \in Nat /\ f.labels \in Seq(Resource) /\ Len(f.labels) = N - 1
    BY Zenon DEF Basic, Labelled
  <1>2. f.init[k].inline = <<>> /\ f.init[k].label = N - k + 1
    BY Zenon DEF Labelled
  <1>3. /\ s \in Seq(Resource) /\ Len(s) = k - 1
        /\ \A i \in 1 .. k - 1 : s[i] = f.labels[N - k + i]
    BY Zenon, <1>1, FromLabel
  <1>4. Unwinding(f, k) = s
    BY <1>1, <1>2, <1>3 DEF Unwinding
  <1>5. ASSUME NEW i \in 1 .. k - 1
        PROVE  s[i] = f.init[k - i].get
    <2>1. N - k + i \in 1 .. Len(f.labels) /\ N - (N - k + i) = k - i
      BY <1>1
    <2>2. f.labels[N - k + i] = f.init[N - (N - k + i)].get
      BY Zenon, <2>1 DEF Labelled
    <2>3. QED
      BY Zenon, <1>3, <2>1, <2>2
  <1> HIDE DEF s
  <1>6. QED
    BY Zenon, <1>3, <1>4, <1>5 DEF Mirror

\* A driver whose error paths undo its calls in the opposite order is sound if its exit
\* function is.
LEMMA MirroredIsSound ==
  ASSUME NEW f, Basic(f), InOrder(f, f.exit), Listed(f.exit) = Gets(f, Len(f.init)),
         \A k \in 1 .. Len(f.init) : "goto" \in f.init[k].fails => Mirror(f, k, Unwinding(f, k))
  PROVE  Sound(f)
  <1>1. ASSUME NEW k \in 1 .. Len(f.init), "goto" \in f.init[k].fails
        PROVE  InOrder(f, Unwinding(f, k)) /\ Listed(Unwinding(f, k)) = Gets(f, k - 1)
    <2>1. k \in 1 .. Len(f.init) + 1
      BY DEF Basic
    <2>2. QED
      BY Zenon, <1>1, <2>1, MirrorInOrder
  <1>2. QED
    BY Zenon, <1>1 DEF Sound, Basic

\* So is a driver whose exit function does the same.
LEMMA LabelledIsSound ==
  ASSUME NEW f, Basic(f), Labelled(f), Mirror(f, Len(f.init) + 1, f.exit)
  PROVE  Sound(f)
  <1>1. Len(f.init) + 1 \in 1 .. Len(f.init) + 1 /\ Len(f.init) + 1 - 1 = Len(f.init)
    BY DEF Basic
  <1>2. InOrder(f, f.exit) /\ Listed(f.exit) = Gets(f, Len(f.init))
    BY <1>1, MirrorInOrder
  <1>3. QED
    BY Zenon, <1>2, LabelsMirror, MirroredIsSound

\* The calls, the labels and the exit function of myzero fit.
LEMMA SoundZero == Sound(myzero)
  <1>1. /\ myzero.init = <<Try("region", 4), Try("cdev", 3), Try("class", 2),
                              Try("device", 1)>>
        /\ myzero.labels = <<"class", "cdev", "region">>
        /\ myzero.exit = <<"device", "class", "cdev", "region">>
    BY Zenon DEF myzero, Driver
  <1>2. Basic(myzero)
    BY <1>1 DEF Basic, Resource, Needs, Gets, Try, Calling
  <1>3. Labelled(myzero)
    BY <1>1 DEF Labelled, Resource, Try, Calling
  <1>4. Mirror(myzero, Len(myzero.init) + 1, myzero.exit)
    BY <1>1 DEF Mirror, Resource, Try, Calling
  <1>5. QED
    BY Zenon, <1>2, <1>3, <1>4, LabelledIsSound

\* The calls, the labels and the exit function of mynull fit.
LEMMA SoundNull == Sound(mynull)
  <1>1. /\ mynull.init = <<Try("major", 3), Try("class", 2), Try("device", 1)>>
        /\ mynull.labels = <<"class", "major">>
        /\ mynull.exit = <<"device", "class", "major">>
    BY Zenon DEF mynull, Driver
  <1>2. Basic(mynull)
    BY <1>1 DEF Basic, Resource, Needs, Gets, Try, Calling
  <1>3. Labelled(mynull)
    BY <1>1 DEF Labelled, Resource, Try, Calling
  <1>4. Mirror(mynull, Len(mynull.init) + 1, mynull.exit)
    BY <1>1 DEF Mirror, Resource, Try, Calling
  <1>5. QED
    BY Zenon, <1>2, <1>3, <1>4, LabelledIsSound

\* The calls, the labels and the exit function of irqcatch fit.
LEMMA SoundIrqcatch == Sound(irqcatch)
  <1>1. /\ irqcatch.init = <<Unseen("proc"), Try("irq", 1)>>
        /\ irqcatch.labels = <<"proc">>
        /\ irqcatch.exit = <<"irq", "proc">>
    BY Zenon DEF irqcatch, Driver
  <1>2. Basic(irqcatch)
    BY <1>1 DEF Basic, Resource, Needs, Gets, Try, Calling, Unseen
  <1>3. Labelled(irqcatch)
    BY <1>1 DEF Labelled, Resource, Try, Calling, Unseen
  <1>4. Mirror(irqcatch, Len(irqcatch.init) + 1, irqcatch.exit)
    BY <1>1 DEF Mirror, Resource, Try, Calling, Unseen
  <1>5. QED
    BY Zenon, <1>2, <1>3, <1>4, LabelledIsSound

\* The calls, the labels and the exit function of clipboard_basic fit.
LEMMA SoundClipboardBasic == Sound(clipboard_basic)
  <1>1. /\ clipboard_basic.init = <<Untested("memory"), Try("region", 4),
                              Calling("cdev", <<>>, 3, {"goto", "crash"}), Try("class", 2), Try("device", 1)>>
        /\ clipboard_basic.labels = <<"class", "cdev", "region", "memory">>
        /\ clipboard_basic.exit = <<"device", "class", "cdev", "region", "memory">>
    BY Zenon DEF clipboard_basic, Driver
  <1>2. Basic(clipboard_basic)
    BY <1>1 DEF Basic, Resource, Needs, Gets, Try, Calling, Untested
  <1>3. Labelled(clipboard_basic)
    BY <1>1 DEF Labelled, Resource, Try, Calling, Untested
  <1>4. Mirror(clipboard_basic, Len(clipboard_basic.init) + 1, clipboard_basic.exit)
    BY <1>1 DEF Mirror, Resource, Try, Calling, Untested
  <1>5. QED
    BY Zenon, <1>2, <1>3, <1>4, LabelledIsSound

\* The calls, the labels and the exit function of register_dev fit.
LEMMA SoundRegisterDev == Sound(register_dev)
  <1>1. /\ register_dev.init = <<Try("class", 5), Untested("memory"), Try("region", 3),
                              Try("cdev", 2), Try("device", 1)>>
        /\ register_dev.labels = <<"cdev", "region", "memory", "class">>
        /\ register_dev.exit = <<"device", "cdev", "region", "memory", "class">>
    BY Zenon DEF register_dev, Driver
  <1>2. Basic(register_dev)
    BY <1>1 DEF Basic, Resource, Needs, Gets, Try, Calling, Untested
  <1>3. Labelled(register_dev)
    BY <1>1 DEF Labelled, Resource, Try, Calling, Untested
  <1>4. Mirror(register_dev, Len(register_dev.init) + 1, register_dev.exit)
    BY <1>1 DEF Mirror, Resource, Try, Calling, Untested
  <1>5. QED
    BY Zenon, <1>2, <1>3, <1>4, LabelledIsSound

\* The calls, the labels and the exit function of netfilter fit.
LEMMA SoundNetfilter == Sound(netfilter)
  <1>1. /\ netfilter.init = <<Try("hook", 1)>>
        /\ netfilter.labels = <<>>
        /\ netfilter.exit = <<"hook">>
    BY Zenon DEF netfilter, Driver
  <1>2. Basic(netfilter)
    BY <1>1 DEF Basic, Resource, Needs, Gets, Try, Calling
  <1>3. Labelled(netfilter)
    BY <1>1 DEF Labelled, Resource, Try, Calling
  <1>4. Mirror(netfilter, Len(netfilter.init) + 1, netfilter.exit)
    BY <1>1 DEF Mirror, Resource, Try, Calling
  <1>5. QED
    BY Zenon, <1>2, <1>3, <1>4, LabelledIsSound

\* The calls, the labels and the exit function of hrtimer fit.
LEMMA SoundHrtimer == Sound(hrtimer)
  <1>1. /\ hrtimer.init = <<Sure("timer")>>
        /\ hrtimer.labels = <<>>
        /\ hrtimer.exit = <<"timer">>
    BY Zenon DEF hrtimer, Driver
  <1>2. Basic(hrtimer)
    BY <1>1 DEF Basic, Resource, Needs, Gets, Sure, Calling
  <1>3. Labelled(hrtimer)
    BY <1>1 DEF Labelled, Resource, Sure, Calling
  <1>4. Mirror(hrtimer, Len(hrtimer.init) + 1, hrtimer.exit)
    BY <1>1 DEF Mirror, Resource, Sure, Calling
  <1>5. QED
    BY Zenon, <1>2, <1>3, <1>4, LabelledIsSound

\* clipboard removes its proc entry first in its exit function, and last but one otherwise.
LEMMA SoundClipboard == Sound(clipboard)
  <1>1. /\ clipboard.init = <<Try("memory", 5), Unseen("proc"), Try("region", 3),
                              Try("cdev", 2), Try("irq", 1)>>
        /\ clipboard.labels = <<"cdev", "region", "proc", "memory">>
        /\ clipboard.exit = <<"proc", "irq", "cdev", "region", "memory">>
    BY Zenon DEF clipboard, Driver
  <1>2. Basic(clipboard)
    BY <1>1 DEF Basic, Resource, Needs, Gets, Try, Calling, Unseen
  <1>3. Labelled(clipboard)
    BY <1>1 DEF Labelled, Resource, Try, Calling, Unseen
  <1>4. InOrder(clipboard, clipboard.exit)
    BY <1>1 DEF InOrder, Resource, Needs, Gets, Try, Calling, Unseen
  <1>5. Listed(clipboard.exit) = Gets(clipboard, Len(clipboard.init))
    BY <1>1 DEF Listed, Gets, Try, Calling, Unseen
  <1>6. QED
    BY Zenon, <1>2, <1>3, <1>4, <1>5, LabelsMirror, MirroredIsSound

\* Without labels nothing is released under them.
LEMMA NoLabels ==
  /\ <<>> \o SubSeq(<<>>, 1, Len(<<>>)) = <<>>
  /\ \A x : <<x>> \o SubSeq(<<>>, 1, Len(<<>>)) = <<x>>
  <1>1. SubSeq(<<>>, 1, Len(<<>>)) = <<>>
    OBVIOUS
  <1>2. <<>> \o <<>> = <<>>
    OBVIOUS
  <1>3. ASSUME NEW x PROVE <<x>> \o <<>> = <<x>>
    OBVIOUS
  <1>4. QED
    BY Zenon, <1>1, <1>2, <1>3

\* netdev has no labels: the branch of its second call undoes the first.
LEMMA SoundNetdev == Sound(netdev)
  <1>1. /\ netdev.init = <<Try("etherdev", 1), TryInline("netdev", "etherdev")>>
        /\ netdev.labels = <<>>
        /\ netdev.exit = <<"netdev", "etherdev">>
    BY Zenon DEF netdev, Driver
  <1>2. Basic(netdev)
    BY <1>1 DEF Basic, Resource, Needs, Gets, Try, TryInline, Calling
  <1>3. Unwinding(netdev, 1) = <<>> /\ Unwinding(netdev, 2) = <<"etherdev">>
    <2>1. /\ netdev.init[1].inline = <<>> /\ netdev.init[1].label = 1
          /\ netdev.init[2].inline = <<"etherdev">> /\ netdev.init[2].label = 1
      BY <1>1 DEF Try, TryInline, Calling
    <2>2. QED
      BY Zenon, <1>1, <2>1, NoLabels DEF Unwinding
  <1>4. \A k \in 1 .. Len(netdev.init) : Mirror(netdev, k, Unwinding(netdev, k))
    <2>1. Len(netdev.init) = 2 /\ netdev.init[1].get = "etherdev"
      BY <1>1 DEF Try, TryInline, Calling
    <2>2. Mirror(netdev, 1, <<>>) /\ Mirror(netdev, 2, <<"etherdev">>)
      BY <2>1 DEF Mirror, Resource
    <2>3. \A k \in 1 .. 2 : k = 1 \/ k = 2
      OBVIOUS
    <2>4. QED
      BY Zenon, <1>3, <2>1, <2>2, <2>3
  <1>5. Mirror(netdev, Len(netdev.init) + 1, netdev.exit)
    BY <1>1 DEF Mirror, Resource, Try, TryInline, Calling
  <1>6. /\ InOrder(netdev, netdev.exit)
        /\ Listed(netdev.exit) = Gets(netdev, Len(netdev.init))
    <2>1. 3 \in 1 .. Len(netdev.init) + 1 /\ Len(netdev.init) = 2
      BY <1>1
    <2>2. QED
      BY <1>2, <1>5, <2>1, MirrorInOrder
  <1>7. QED
    BY Zenon, <1>2, <1>4, <1>6, MirroredIsSound

\* kmem_cache has no labels: the branch of its second call undoes the first.
LEMMA SoundKmemCache == Sound(kmem_cache)
  <1>1. /\ kmem_cache.init = <<Try("cache", 1), TryInline("object", "cache")>>
        /\ kmem_cache.labels = <<>>
        /\ kmem_cache.exit = <<"object", "cache">>
    BY Zenon DEF kmem_cache, Driver
  <1>2. Basic(kmem_cache)
    BY <1>1 DEF Basic, Resource, Needs, Gets, Try, TryInline, Calling
  <1>3. Unwinding(kmem_cache, 1) = <<>> /\ Unwinding(kmem_cache, 2) = <<"cache">>
    <2>1. /\ kmem_cache.init[1].inline = <<>> /\ kmem_cache.init[1].label = 1
          /\ kmem_cache.init[2].inline = <<"cache">> /\ kmem_cache.init[2].label = 1
      BY <1>1 DEF Try, TryInline, Calling
    <2>2. QED
      BY Zenon, <1>1, <2>1, NoLabels DEF Unwinding
  <1>4. \A k \in 1 .. Len(kmem_cache.init) : Mirror(kmem_cache, k, Unwinding(kmem_cache, k))
    <2>1. Len(kmem_cache.init) = 2 /\ kmem_cache.init[1].get = "cache"
      BY <1>1 DEF Try, TryInline, Calling
    <2>2. Mirror(kmem_cache, 1, <<>>) /\ Mirror(kmem_cache, 2, <<"cache">>)
      BY <2>1 DEF Mirror, Resource
    <2>3. \A k \in 1 .. 2 : k = 1 \/ k = 2
      OBVIOUS
    <2>4. QED
      BY Zenon, <1>3, <2>1, <2>2, <2>3
  <1>5. Mirror(kmem_cache, Len(kmem_cache.init) + 1, kmem_cache.exit)
    BY <1>1 DEF Mirror, Resource, Try, TryInline, Calling
  <1>6. /\ InOrder(kmem_cache, kmem_cache.exit)
        /\ Listed(kmem_cache.exit) = Gets(kmem_cache, Len(kmem_cache.init))
    <2>1. 3 \in 1 .. Len(kmem_cache.init) + 1 /\ Len(kmem_cache.init) = 2
      BY <1>1
    <2>2. QED
      BY <1>2, <1>5, <2>1, MirrorInOrder
  <1>7. QED
    BY Zenon, <1>2, <1>4, <1>6, MirroredIsSound

\* Every driver is sound.
LEMMA AllSound == \A d \in DOMAIN Functions : Sound(Functions[d])
  <1> SUFFICES ASSUME NEW d \in DOMAIN Functions
               PROVE  Sound(Functions[d])
    BY Zenon
  <1>1. Functions[d] \in {myzero, mynull, irqcatch, clipboard, clipboard_basic, netdev,
                          register_dev, kmem_cache, netfilter, hrtimer}
    BY DEF Functions, aaa, use_count, myempty, markveltzer, sleep_wakeup, cant_kill, chrdev
  <1>2. QED
    BY Zenon, <1>1, SoundZero, SoundNull, SoundIrqcatch, SoundClipboard, SoundClipboardBasic,
       SoundNetdev, SoundRegisterDev, SoundKmemCache, SoundNetfilter, SoundHrtimer

-----------------------------------------------------------------------------
(* One driver.                                                             *)

\* What a driver has acquired grows with each call.
LEMMA GetsGrow ==
  ASSUME NEW f, NEW k \in Nat
  PROVE  Gets(f, k + 1) = Gets(f, k) \cup {f.init[k + 1].get}
  <1>1. \A i : i \in 1 .. k + 1 <=> i \in 1 .. k \/ i = k + 1
    OBVIOUS
  <1>2. QED
    BY Zenon, <1>1 DEF Gets

\* Before the first call nothing is acquired, and an empty list releases nothing.
LEMMA NothingYet == (\A f : Gets(f, 0) = {}) /\ Listed(<<>>) = {}
  <1>1. \A i : i \notin 1 .. 0
    OBVIOUS
  <1>2. Len(<<>>) = 0
    BY Zenon
  <1>3. QED
    BY Zenon, <1>1, <1>2 DEF Gets, Listed

\* One release.
LEMMA OneRelease ==
  ASSUME NEW f, NEW s, InOrder(f, s), s # <<>>
  PROVE  /\ InOrder(f, Tail(s))
         /\ Head(s) \in Resource /\ Head(s) \notin Listed(Tail(s))
         /\ Listed(s) = Listed(Tail(s)) \cup {Head(s)}
  <1>1. /\ s \in Seq(Resource) /\ Len(s) \in Nat \ {0} /\ Head(s) = s[1]
        /\ Tail(s) \in Seq(Resource) /\ Len(Tail(s)) = Len(s) - 1
        /\ \A i \in 1 .. Len(s) - 1 : Tail(s)[i] = s[i + 1]
    BY DEF InOrder
  <1> DEFINE t == Tail(s)
  <1> HIDE DEF t
  <1>2. /\ t \in Seq(Resource) /\ Len(t) = Len(s) - 1
        /\ \A i \in 1 .. Len(s) - 1 : t[i] = s[i + 1]
    BY Zenon, <1>1 DEF t
  <1>3. \A i, j \in 1 .. Len(t) : t[i] = t[j] => i = j
    BY <1>1, <1>2 DEF InOrder
  <1>4. ASSUME NEW n \in Needs, NEW i \in 1 .. Len(t), t[i] = n[1],
               n[2] \in Gets(f, Len(f.init))
        PROVE  \E j \in i + 1 .. Len(t) : t[j] = n[2]
    <2>1. i + 1 \in 1 .. Len(s) /\ s[i + 1] = n[1]
      BY <1>1, <1>2, <1>4
    <2>2. PICK j \in i + 1 + 1 .. Len(s) : s[j] = n[2]
      BY Zenon, <1>4, <2>1 DEF InOrder
    <2>3. j - 1 \in i + 1 .. Len(t) /\ t[j - 1] = n[2]
      BY <1>1, <1>2, <2>2
    <2>4. QED
      BY Zenon, <2>3
  <1>5. InOrder(f, t)
    BY Zenon, <1>2, <1>3, <1>4 DEF InOrder
  <1>6. s[1] \in Resource
    BY <1>1
  <1>7. s[1] \notin Listed(t)
    <2> SUFFICES ASSUME NEW i \in 1 .. Len(t), t[i] = s[1]
                 PROVE  FALSE
      BY Zenon DEF Listed
    <2>1. i + 1 \in 1 .. Len(s) /\ 1 \in 1 .. Len(s) /\ s[i + 1] = s[1] /\ i + 1 # 1
      BY <1>1, <1>2
    <2>2. QED
      BY Zenon, <2>1 DEF InOrder
  <1>8. Listed(s) = Listed(t) \cup {s[1]}
    <2>1. ASSUME NEW i \in 1 .. Len(s)
          PROVE  s[i] \in Listed(t) \cup {s[1]}
      <3>1. CASE i = 1
        BY Zenon, <3>1
      <3>2. CASE i # 1
        <4>1. i - 1 \in 1 .. Len(t) /\ t[i - 1] = s[i]
          BY <1>1, <1>2, <3>2
        <4>2. QED
          BY Zenon, <4>1 DEF Listed
      <3>3. QED
        BY Zenon, <3>1, <3>2
    <2>2. ASSUME NEW i \in 1 .. Len(t)
          PROVE  t[i] \in Listed(s)
      <3>1. i + 1 \in 1 .. Len(s) /\ t[i] = s[i + 1]
        BY <1>1, <1>2
      <3>2. QED
        BY Zenon, <3>1 DEF Listed
    <2>3. s[1] \in Listed(s)
      <3>1. 1 \in 1 .. Len(s)
        BY <1>1
      <3>2. QED
        BY Zenon, <3>1 DEF Listed
    <2>4. QED
      BY Zenon, <2>1, <2>2, <2>3 DEF Listed
  <1>9. QED
    BY Zenon, <1>1, <1>5, <1>6, <1>7, <1>8 DEF t

\* A driver that makes its next call.
LEMMA GoodAcquire ==
  ASSUME NEW f, NEW a, NEW p, NEW h, Good(f, a, p, h), p = <<>>, a < Len(f.init),
         NEW g, g = f.init[a + 1].get
  PROVE  /\ a \in Nat /\ g \in Resource /\ h[g] = 0
         /\ \A v : v = [h EXCEPT ![g] = 1] => Good(f, a + 1, p, v)
  <1>1. Sound(f) /\ a \in 0 .. Len(f.init) /\ InOrder(f, p) /\ h \in [Resource -> {0, 1}]
    BY Zenon DEF Good
  <1>2. Len(f.init) \in Nat
    BY Zenon, <1>1 DEF Sound
  <1>3. /\ a \in Nat /\ a + 1 \in 1 .. Len(f.init) /\ a + 1 \in 0 .. Len(f.init)
        /\ \A i \in 1 .. a : i \in 1 .. Len(f.init) /\ i # a + 1
    BY <1>1, <1>2
  <1>4. g \in Resource
    BY Zenon, <1>1, <1>3 DEF Sound
  <1>5. g \notin Gets(f, a)
    BY Zenon, <1>1, <1>3 DEF Gets, Sound
  <1>6. Owned(f, a, p) = Gets(f, a) /\ Owned(f, a + 1, p) = Gets(f, a) \cup {g}
    BY Zenon, <1>3, GetsGrow, NothingYet DEF Owned
  <1>7. h[g] = 0
    <2>1. h[g] # 1
      BY Zenon, <1>4, <1>5, <1>6 DEF Good
    <2>2. QED
      BY Zenon, <2>1, <1>1, <1>4
  <1>8. ASSUME NEW v, v = [h EXCEPT ![g] = 1]
        PROVE  Good(f, a + 1, p, v)
    <2>1. /\ v \in [Resource -> {0, 1}] /\ v[g] = 1
          /\ \A r \in Resource : r # g => v[r] = h[r]
      BY Zenon, <1>1, <1>4, <1>8
    <2>2. \A r \in Resource : v[r] = 1 => r \in Owned(f, a + 1, p)
      BY Zenon, <1>6, <2>1 DEF Good
    <2>3. \A r \in Resource \ {"proc"} : r \in Owned(f, a + 1, p) => v[r] = 1
      BY Zenon, <1>6, <2>1 DEF Good
    <2>4. QED
      BY Zenon, <1>1, <1>3, <2>1, <2>2, <2>3 DEF Good
  <1>9. QED
    BY Zenon, <1>3, <1>4, <1>7, <1>8

\* A driver that goes on without a proc entry.
LEMMA GoodUnseen ==
  ASSUME NEW f, NEW a, NEW p, NEW h, Good(f, a, p, h), p = <<>>, a < Len(f.init),
         "ignore" \in f.init[a + 1].fails
  PROVE  a \in Nat /\ Good(f, a + 1, p, h)
  <1>1. Sound(f) /\ a \in 0 .. Len(f.init) /\ InOrder(f, p) /\ h \in [Resource -> {0, 1}]
    BY Zenon DEF Good
  <1>2. Len(f.init) \in Nat
    BY Zenon, <1>1 DEF Sound
  <1>3. a \in Nat /\ a + 1 \in 1 .. Len(f.init) /\ a + 1 \in 0 .. Len(f.init)
    BY <1>1, <1>2
  <1>4. f.init[a + 1].get = "proc"
    BY Zenon, <1>1, <1>3 DEF Sound
  <1>5. Owned(f, a, p) = Gets(f, a) /\ Owned(f, a + 1, p) = Gets(f, a) \cup {"proc"}
    BY Zenon, <1>3, <1>4, GetsGrow, NothingYet DEF Owned
  <1>6. \A r \in Resource : h[r] = 1 => r \in Owned(f, a + 1, p)
    BY Zenon, <1>5 DEF Good
  <1>7. \A r \in Resource \ {"proc"} : r \in Owned(f, a + 1, p) => h[r] = 1
    BY Zenon, <1>5 DEF Good
  <1>8. QED
    BY Zenon, <1>1, <1>3, <1>6, <1>7 DEF Good

\* A driver whose next call fails, and which unwinds.
LEMMA GoodUnwind ==
  ASSUME NEW f, NEW a, NEW p, NEW h, Good(f, a, p, h), p = <<>>, a < Len(f.init),
         "goto" \in f.init[a + 1].fails
  PROVE  Good(f, 0, Unwinding(f, a + 1), h)
  <1> DEFINE u == Unwinding(f, a + 1)
  <1> HIDE DEF u
  <1>1. Sound(f) /\ a \in 0 .. Len(f.init) /\ h \in [Resource -> {0, 1}]
    BY Zenon DEF Good
  <1>2. Len(f.init) \in Nat
    BY Zenon, <1>1 DEF Sound
  <1>3. a + 1 \in 1 .. Len(f.init) /\ (a + 1) - 1 = a /\ 0 \in 0 .. Len(f.init)
    BY <1>1, <1>2
  <1>4. InOrder(f, u) /\ Listed(u) = Gets(f, (a + 1) - 1)
    BY Zenon, <1>1, <1>3 DEF Sound, u
  <1>5. Owned(f, 0, u) = Owned(f, a, p)
    BY Zenon, <1>3, <1>4, NothingYet DEF Owned
  <1>6. Good(f, 0, u, h)
    BY Zenon, <1>1, <1>3, <1>4, <1>5 DEF Good
  <1>7. QED
    BY Zenon, <1>6 DEF u

\* A driver that is unloaded.
LEMMA GoodUnload ==
  ASSUME NEW f, NEW a, NEW p, NEW h, Good(f, a, p, h), p = <<>>, a = Len(f.init)
  PROVE  Good(f, 0, f.exit, h)
  <1>1. /\ Sound(f) /\ h \in [Resource -> {0, 1}]
        /\ InOrder(f, f.exit) /\ Listed(f.exit) = Gets(f, a)
    BY Zenon DEF Good, Sound
  <1>2. 0 \in 0 .. Len(f.init)
    BY <1>1 DEF Sound
  <1>3. Owned(f, 0, f.exit) = Owned(f, a, p)
    BY Zenon, <1>1, NothingYet DEF Owned
  <1>4. QED
    BY Zenon, <1>1, <1>2, <1>3 DEF Good

\* A driver that releases.
LEMMA GoodRelease ==
  ASSUME NEW f, NEW a, NEW p, NEW h, Good(f, a, p, h), p # <<>>
  PROVE  /\ Head(p) \in Resource
         /\ Head(p) # "proc" => h[Head(p)] = 1
         /\ \A v : v = [h EXCEPT ![Head(p)] = 0] => Good(f, a, Tail(p), v)
  <1> DEFINE r == Head(p)
             t == Tail(p)
  <1>1. /\ InOrder(f, t) /\ r \in Resource /\ r \notin Listed(t)
        /\ Listed(p) = Listed(t) \cup {r}
    <2>1. InOrder(f, p)
      BY Zenon DEF Good
    <2>2. QED
      BY Zenon, <2>1, OneRelease
  <1> HIDE DEF r, t
  <1>2. Sound(f) /\ a = 0 /\ a \in 0 .. Len(f.init) /\ h \in [Resource -> {0, 1}]
    BY Zenon DEF Good
  <1>3. Owned(f, a, p) = Listed(t) \cup {r} /\ Owned(f, a, t) = Listed(t)
    BY Zenon, <1>1, <1>2, NothingYet DEF Owned
  <1>4. r # "proc" => h[r] = 1
    BY Zenon, <1>1, <1>3 DEF Good
  <1>5. ASSUME NEW v, v = [h EXCEPT ![r] = 0]
        PROVE  Good(f, a, t, v)
    <2>1. /\ v \in [Resource -> {0, 1}] /\ v[r] # 1
          /\ \A q \in Resource : q # r => v[q] = h[q]
      BY <1>1, <1>2, <1>5
    <2>2. \A q \in Resource : v[q] = 1 => q \in Owned(f, a, t)
      BY Zenon, <1>3, <2>1 DEF Good
    <2>3. \A q \in Resource \ {"proc"} : q \in Owned(f, a, t) => v[q] = 1
      BY Zenon, <1>1, <1>3, <2>1 DEF Good
    <2>4. QED
      BY Zenon, <1>1, <1>2, <2>1, <2>2, <2>3 DEF Good
  <1>6. QED
    BY Zenon, <1>1, <1>4, <1>5 DEF r, t

\* A driver as NothingLeft wants it.
LEMMA GoodIsClean ==
  ASSUME NEW f, NEW a, NEW p, NEW h, Good(f, a, p, h)
  PROVE  /\ a = 0 /\ p = <<>> => \A r \in Resource : h[r] = 0
         /\ a = Len(f.init) /\ p = <<>> =>
              \A r \in Resource \ {"proc"} : r \in Gets(f, Len(f.init)) => h[r] = 1
         /\ \A n \in Needs : n[2] \in Gets(f, Len(f.init)) /\ h[n[1]] > 0 => h[n[2]] = 1
  <1>1. /\ Sound(f) /\ a \in 0 .. Len(f.init) /\ h \in [Resource -> {0, 1}] /\ InOrder(f, p)
        /\ Len(f.init) \in Nat
    BY Zenon DEF Good, Sound
  <1>2. ASSUME a = 0, p = <<>>, NEW r \in Resource
        PROVE  h[r] = 0
    <2>1. Owned(f, a, p) = {}
      BY Zenon, <1>2, NothingYet DEF Owned
    <2>2. h[r] # 1
      BY Zenon, <2>1 DEF Good
    <2>3. QED
      BY Zenon, <1>1, <2>2
  <1>3. ASSUME a = Len(f.init), p = <<>>, NEW r \in Resource \ {"proc"},
               r \in Gets(f, Len(f.init))
        PROVE  h[r] = 1
    BY Zenon, <1>3 DEF Good, Owned
  <1>4. ASSUME NEW n \in Needs, n[2] \in Gets(f, Len(f.init)), h[n[1]] > 0
        PROVE  h[n[2]] = 1
    <2>1. n[1] \in Resource /\ n[2] \in Resource \ {"proc"}
      BY DEF Needs, Resource
    <2>2. h[n[1]] = 1
      BY <1>1, <1>4, <2>1
    <2>3. CASE n[1] \in Gets(f, a)
      <3>1. PICK k \in 1 .. a : n[1] = f.init[k].get
        BY Zenon, <2>3 DEF Gets
      <3>2. k \in 1 .. Len(f.init) /\ \A i \in 1 .. k - 1 : i \in 1 .. a
        BY <1>1
      <3>3. n[2] \in Gets(f, k - 1)
        BY Zenon, <1>1, <1>4, <3>1, <3>2 DEF Sound
      <3>4. n[2] \in Gets(f, a)
        BY Zenon, <3>2, <3>3 DEF Gets
      <3>5. QED
        BY Zenon, <2>1, <3>4 DEF Good, Owned
    <2>4. CASE n[1] \in Listed(p)
      <3>1. PICK i \in 1 .. Len(p) : n[1] = p[i]
        BY Zenon, <2>4 DEF Listed
      <3>2. PICK j \in i + 1 .. Len(p) : p[j] = n[2]
        BY Zenon, <1>1, <1>4, <3>1 DEF InOrder
      <3>3. j \in 1 .. Len(p)
        <4>1. Len(p) \in Nat
          BY <1>1 DEF InOrder
        <4>2. QED
          BY <4>1
      <3>4. n[2] \in Listed(p)
        BY Zenon, <3>2, <3>3 DEF Listed
      <3>5. QED
        BY Zenon, <2>1, <3>4 DEF Good, Owned
    <2>5. QED
      BY Zenon, <2>1, <2>2, <2>3, <2>4 DEF Good, Owned
  <1>5. QED
    BY Zenon, <1>2, <1>3, <1>4

-----------------------------------------------------------------------------
(* The drivers side by side.                                               *)

\* The drivers that are loaded are among those of the repository.
KnownDrivers == \A load \in Loads : load \subseteq DOMAIN Functions

\* A step of one driver leaves the others as they are.
LEMMA OneSteps ==
  ASSUME RegisterInv, NEW d \in Present, UNCHANGED driver,
         NEW a, NEW p, NEW h, Good(driver[d], a, p, h),
         at' = [at EXCEPT ![d] = a], plan' = [plan EXCEPT ![d] = p],
         held' = [held EXCEPT ![d] = h],
         h["major"] = 1 => \A e \in Present : e # d => held[e]["major"] # 1
  PROVE  RegisterInv'
  <1>1. a \in Int /\ p \in Seq(Resource) /\ h \in [Resource -> {0, 1}]
    <2>1. a \in 0 .. Len(driver[d].init) /\ InOrder(driver[d], p) /\ h \in [Resource -> {0, 1}]
      BY Zenon DEF Good
    <2>2. Len(driver[d].init) \in Nat
      BY Zenon DEF Good, Sound
    <2>3. QED
      BY <2>1, <2>2 DEF InOrder
  <1>2. /\ at \in [Present -> Int] /\ plan \in [Present -> Seq(Resource)]
        /\ held \in [Present -> [Resource -> {0, 1}]] /\ Present' = Present
    BY Zenon DEF RegisterInv, Present
  <1>3. /\ at' \in [Present -> Int] /\ plan' \in [Present -> Seq(Resource)]
        /\ held' \in [Present -> [Resource -> {0, 1}]]
    BY Zenon, <1>1, <1>2
  <1>4. /\ at'[d] = a /\ plan'[d] = p /\ held'[d] = h
        /\ \A e \in Present : e # d =>
             at'[e] = at[e] /\ plan'[e] = plan[e] /\ held'[e] = held[e]
    BY Zenon, <1>2
  <1>5. ASSUME NEW e \in Present
        PROVE  Good(driver'[e], at'[e], plan'[e], held'[e])
    <2>1. CASE e = d
      BY Zenon, <1>4, <2>1
    <2>2. CASE e # d
      <3>1. Good(driver[e], at[e], plan[e], held[e])
        BY Zenon DEF RegisterInv
      <3>2. /\ driver'[e] = driver[e] /\ at'[e] = at[e] /\ plan'[e] = plan[e]
            /\ held'[e] = held[e]
        BY Zenon, <1>4, <2>2
      <3>3. QED
        BY Zenon, <3>1, <3>2
    <2>3. QED
      BY Zenon, <2>1, <2>2
  <1>6. ASSUME NEW b \in Present, NEW e \in Present,
               held'[b]["major"] = 1, held'[e]["major"] = 1
        PROVE  b = e
    BY Zenon, <1>4, <1>6 DEF RegisterInv
  <1>7. (\A e \in Present : Good(driver[e], at[e], plan[e], held[e]))'
    BY Zenon, <1>2, <1>5
  <1>8. QED
    BY Zenon, <1>2, <1>3, <1>6, <1>7 DEF RegisterInv

\* Before anything is loaded.
LEMMA InitRegister == KnownDrivers /\ RegisterInit => RegisterInv
  <1> SUFFICES ASSUME KnownDrivers, RegisterInit
               PROVE  RegisterInv
    BY Zenon
  <1>1. PICK load \in Loads :
          /\ driver = [d \in load |-> Functions[d]] /\ at = [d \in load |-> 0]
          /\ plan = [d \in load |-> <<>>] /\ held = [d \in load |-> [r \in Resource |-> 0]]
    BY Zenon DEF RegisterInit
  <1> DEFINE none == [r \in Resource |-> 0]
  <1>2. none \in [Resource -> {0, 1}] /\ \A r \in Resource : none[r] # 1
    OBVIOUS
  <1>3. <<>> \in Seq(Resource) /\ Len(<<>>) = 0 /\ 0 \in Int /\ \A i : i \notin 1 .. 0
    OBVIOUS
  <1>4. Present = load /\ "major" \in Resource
    BY Zenon, <1>1 DEF Present, Resource
  <1> HIDE DEF none
  <1>5. /\ at \in [Present -> Int] /\ plan \in [Present -> Seq(Resource)]
        /\ held \in [Present -> [Resource -> {0, 1}]]
    <2>1. held = [d \in load |-> none]
      BY Zenon, <1>1 DEF none
    <2>2. QED
      BY Zenon, <1>1, <1>2, <1>3, <1>4, <2>1
  <1>6. ASSUME NEW d \in Present
        PROVE  Good(driver[d], at[d], plan[d], held[d])
    <2>1. driver[d] = Functions[d] /\ at[d] = 0 /\ plan[d] = <<>> /\ held[d] = none
      BY Zenon, <1>1, <1>4 DEF none
    <2>2. Sound(Functions[d])
      BY Zenon, <1>4, AllSound DEF KnownDrivers
    <2>3. 0 \in 0 .. Len(Functions[d].init)
      BY <2>2 DEF Sound
    <2>4. InOrder(Functions[d], <<>>)
      BY Zenon, <1>3 DEF InOrder
    <2>5. Owned(Functions[d], 0, <<>>) = {}
      BY Zenon, NothingYet DEF Owned
    <2>6. Good(Functions[d], 0, <<>>, none)
      BY Zenon, <1>2, <2>2, <2>3, <2>4, <2>5 DEF Good
    <2>7. QED
      BY Zenon, <2>1, <2>6
  <1>7. \A d \in Present : held[d]["major"] # 1
    <2>1. \A d \in Present : held[d] = none
      BY Zenon, <1>1, <1>4 DEF none
    <2>2. QED
      BY Zenon, <1>2, <1>4, <2>1
  <1>8. QED
    BY Zenon, <1>5, <1>6, <1>7 DEF RegisterInv

\* A call that succeeds.
LEMMA AcquireKeeps ==
  ASSUME RegisterInv, NEW d \in Present, Acquire(d)
  PROVE  RegisterInv'
  <1> DEFINE f == driver[d]
             g == f.init[at[d] + 1].get
             v == [held[d] EXCEPT ![g] = 1]
  <1>1. /\ Good(f, at[d], plan[d], held[d]) /\ plan[d] = <<>> /\ at[d] < Len(f.init)
        /\ UNCHANGED <<driver, plan>>
    BY Zenon DEF RegisterInv, Acquire, Loading
  <1>2. /\ g \in Resource /\ held[d][g] = 0 /\ at[d] \in Nat
        /\ Good(f, at[d] + 1, plan[d], v)
    <2>1. /\ g \in Resource /\ held[d][g] = 0 /\ at[d] \in Nat
          /\ \A w : w = [held[d] EXCEPT ![g] = 1] => Good(f, at[d] + 1, plan[d], w)
      <3> HIDE DEF f
      <3>1. g = f.init[at[d] + 1].get
        BY Zenon
      <3> HIDE DEF g
      <3>2. QED
        BY <1>1, <3>1, GoodAcquire
    <2>2. QED
      BY Zenon, <2>1
  <1>3. /\ held \in [Present -> [Resource -> {0, 1}]] /\ at \in [Present -> Int]
        /\ plan \in [Present -> Seq(Resource)]
    BY Zenon DEF RegisterInv
  <1>4. /\ at' = [at EXCEPT ![d] = at[d] + 1]
        /\ held' = [held EXCEPT ![d] = [held[d] EXCEPT ![g] = held[d][g] + 1]]
    BY Zenon DEF Acquire, Call
  <1>5. held[d][g] + 1 = 1
    BY <1>2
  <1>6. held' = [held EXCEPT ![d] = v]
    BY Zenon, <1>4, <1>5
  <1>7. plan' = [plan EXCEPT ![d] = plan[d]]
    BY Zenon, <1>1, <1>3
  <1>8. ASSUME v["major"] = 1, NEW e \in Present, e # d
        PROVE  held[e]["major"] # 1
    <2>1. held[d] \in [Resource -> {0, 1}] /\ "major" \in Resource
      BY Zenon, <1>3 DEF Resource
    <2>2. CASE g = "major"
      <3>1. held[e]["major"] = 0
        BY Zenon, <2>2 DEF Acquire, Call
      <3>2. QED
        BY <3>1
    <2>3. CASE g # "major"
      <3>1. held[d]["major"] = 1
        BY Zenon, <1>8, <2>1, <2>3
      <3>2. QED
        BY Zenon, <1>8, <3>1 DEF RegisterInv
    <2>4. QED
      BY Zenon, <2>2, <2>3
  <1> HIDE DEF f, v
  <1>9. UNCHANGED driver /\ Good(driver[d], at[d] + 1, plan[d], v)
    BY Zenon, <1>1, <1>2 DEF f
  <1>10. QED
    BY Zenon, <1>4, <1>6, <1>7, <1>8, <1>9, OneSteps

\* A call that fails.
LEMMA FailKeeps ==
  ASSUME RegisterInv, NEW d \in Present, Fail(d)
  PROVE  RegisterInv'
  <1>1. /\ Good(driver[d], at[d], plan[d], held[d]) /\ plan[d] = <<>>
        /\ at[d] < Len(driver[d].init)
    BY Zenon DEF RegisterInv, Fail, Loading
  <1>2. UNCHANGED driver /\ UNCHANGED held
    BY Zenon DEF Fail
  <1>3. held' = [held EXCEPT ![d] = held[d]]
    <2>1. held \in [Present -> [Resource -> {0, 1}]]
      BY Zenon DEF RegisterInv
    <2>2. QED
      BY Zenon, <1>2, <2>1
  <1>4. held[d]["major"] = 1 => \A e \in Present : e # d => held[e]["major"] # 1
    BY Zenon DEF RegisterInv
  <1>5. /\ "goto" \in driver[d].init[at[d] + 1].fails /\ at' = [at EXCEPT ![d] = 0]
        /\ plan' = [plan EXCEPT ![d] = Unwinding(driver[d], at[d] + 1)]
    BY Zenon DEF Fail, Call, Unwinding
  <1>6. Good(driver[d], 0, Unwinding(driver[d], at[d] + 1), held[d])
    BY Zenon, <1>1, <1>5, GoodUnwind
  <1>7. QED
    BY Zenon, <1>2, <1>3, <1>4, <1>5, <1>6, OneSteps

\* A call whose failure the driver does not notice.
LEMMA GoOnKeeps ==
  ASSUME RegisterInv, NEW d \in Present, GoOn(d)
  PROVE  RegisterInv'
  <1>1. /\ Good(driver[d], at[d], plan[d], held[d]) /\ plan[d] = <<>>
        /\ at[d] < Len(driver[d].init) /\ "ignore" \in driver[d].init[at[d] + 1].fails
        /\ at' = [at EXCEPT ![d] = at[d] + 1]
        /\ UNCHANGED driver /\ UNCHANGED held /\ UNCHANGED plan
    BY Zenon DEF RegisterInv, GoOn, Loading, Call
  <1>2. held' = [held EXCEPT ![d] = held[d]] /\ plan' = [plan EXCEPT ![d] = plan[d]]
    <2>1. held \in [Present -> [Resource -> {0, 1}]] /\ plan \in [Present -> Seq(Resource)]
      BY Zenon DEF RegisterInv
    <2>2. QED
      BY Zenon, <1>1, <2>1
  <1>3. held[d]["major"] = 1 => \A e \in Present : e # d => held[e]["major"] # 1
    BY Zenon DEF RegisterInv
  <1>4. Good(driver[d], at[d] + 1, plan[d], held[d])
    BY Zenon, <1>1, GoodUnseen
  <1>5. UNCHANGED driver /\ at' = [at EXCEPT ![d] = at[d] + 1]
    BY Zenon, <1>1
  <1>6. QED
    BY Zenon, <1>2, <1>3, <1>4, <1>5, OneSteps

\* An unload.
LEMMA UnloadKeeps ==
  ASSUME RegisterInv, NEW d \in Present, Unload(d)
  PROVE  RegisterInv'
  <1>1. /\ Good(driver[d], at[d], plan[d], held[d]) /\ plan[d] = <<>>
        /\ at[d] = Len(driver[d].init) /\ UNCHANGED driver /\ UNCHANGED held
        /\ plan' = [plan EXCEPT ![d] = driver[d].exit] /\ at' = [at EXCEPT ![d] = 0]
    BY Zenon DEF RegisterInv, Unload, Loaded
  <1>2. held' = [held EXCEPT ![d] = held[d]]
    <2>1. held \in [Present -> [Resource -> {0, 1}]]
      BY Zenon DEF RegisterInv
    <2>2. QED
      BY Zenon, <1>1, <2>1
  <1>3. held[d]["major"] = 1 => \A e \in Present : e # d => held[e]["major"] # 1
    BY Zenon DEF RegisterInv
  <1>4. Good(driver[d], 0, driver[d].exit, held[d])
    BY Zenon, <1>1, GoodUnload
  <1>5. QED
    BY Zenon, <1>1, <1>2, <1>3, <1>4, OneSteps

\* A release.  The owner of the major number is the driver that gives it back.
LEMMA ReleaseKeeps ==
  ASSUME RegisterInv, NEW d \in Present, Release(d)
  PROVE  RegisterInv'
  <1> DEFINE r == Head(plan[d])
             v == [held[d] EXCEPT ![r] = 0]
  <1>1. /\ Good(driver[d], at[d], plan[d], held[d]) /\ plan[d] # <<>>
        /\ plan' = [plan EXCEPT ![d] = Tail(plan[d])]
        /\ UNCHANGED driver /\ UNCHANGED at
    BY Zenon DEF RegisterInv, Release
  <1>2. /\ held \in [Present -> [Resource -> {0, 1}]] /\ at \in [Present -> Int]
        /\ held[d] \in [Resource -> {0, 1}]
    BY Zenon DEF RegisterInv
  <1>3. /\ r \in Resource /\ (r # "proc" => held[d][r] = 1)
        /\ Good(driver[d], at[d], Tail(plan[d]), v)
    <2>1. /\ Head(plan[d]) \in Resource
          /\ Head(plan[d]) # "proc" => held[d][Head(plan[d])] = 1
          /\ \A w : w = [held[d] EXCEPT ![Head(plan[d])] = 0] =>
               Good(driver[d], at[d], Tail(plan[d]), w)
      BY Zenon, <1>1, GoodRelease
    <2>2. QED
      BY Zenon, <2>1
  <1>4. held' = IF r = "proc" /\ held[d][r] = 0 THEN held
                ELSE [held EXCEPT ![Loser(d, r)] =
                        [held[Loser(d, r)] EXCEPT ![r] = held[Loser(d, r)][r] - 1]]
    BY Zenon DEF Release
  <1> HIDE DEF r
  <1>5. Loser(d, r) = d
    <2>1. CASE r = "major"
      <3>1. held[d][r] = 1 /\ 1 > 0
        BY <1>3, <2>1
      <3>2. \A e \in Present : held[e][r] > 0 => e = d
        <4>1. ASSUME NEW e \in Present, held[e][r] > 0
              PROVE  held[e][r] = 1
          BY <1>2, <1>3, <4>1
        <4>2. QED
          BY Zenon, <2>1, <3>1, <4>1 DEF RegisterInv
      <3>3. QED
        BY Zenon, <2>1, <3>1, <3>2 DEF Loser
    <2>2. CASE r # "major"
      BY Zenon, <2>2 DEF Loser
    <2>3. QED
      BY Zenon, <2>1, <2>2
  <1>6. held' = [held EXCEPT ![d] = v]
    <2>1. CASE r = "proc" /\ held[d][r] = 0
      <3>1. v = held[d]
        BY Zenon, <1>2, <2>1
      <3>2. QED
        BY Zenon, <1>2, <1>4, <2>1, <3>1
    <2>2. CASE ~ (r = "proc" /\ held[d][r] = 0)
      <3>1. held[d][r] = 1
        BY Zenon, <1>2, <1>3, <2>2
      <3>2. held[d][r] - 1 = 0
        BY <3>1
      <3>3. QED
        BY Zenon, <1>4, <1>5, <2>2, <3>2
    <2>3. QED
      BY Zenon, <2>1, <2>2
  <1>7. v["major"] = 1 => \A e \in Present : e # d => held[e]["major"] # 1
    <2>1. v["major"] = 1 => held[d]["major"] = 1
      BY Zenon, <1>2, <1>3 DEF Resource
    <2>2. QED
      BY Zenon, <2>1 DEF RegisterInv
  <1>8. at' = [at EXCEPT ![d] = at[d]]
    BY Zenon, <1>1, <1>2
  <1> HIDE DEF v
  <1>9. QED
    BY Zenon, <1>1, <1>3, <1>6, <1>7, <1>8, OneSteps

\* Every step keeps the invariant.
LEMMA NextRegister == RegisterInv /\ [RegisterNext]_regvars => RegisterInv'
  <1> SUFFICES ASSUME RegisterInv, [RegisterNext]_regvars
               PROVE  RegisterInv'
    BY Zenon
  <1>1. CASE RegisterNext
    <2>1. ASSUME NEW d \in Present, Crash(d)
          PROVE  RegisterInv'
      BY Zenon, <2>1 DEF Crash, RegisterInv, Present
    <2>2. QED
      BY Zenon, <1>1, <2>1, AcquireKeeps, FailKeeps, GoOnKeeps, UnloadKeeps, ReleaseKeeps
         DEF RegisterNext
  <1>2. CASE UNCHANGED regvars
    BY Zenon, <1>2 DEF regvars, RegisterInv, Present
  <1>3. QED
    BY Zenon, <1>1, <1>2

\* A crash is possible in the two drivers only that do not test an allocation.
LEMMA FewCrash ==
  \A d \in DOMAIN Functions \ {"clipboard_basic", "register_dev"} :
    \A k \in 1 .. Len(Functions[d].init) : "crash" \notin Functions[d].init[k].fails
  <1> SUFFICES ASSUME NEW d \in DOMAIN Functions \ {"clipboard_basic", "register_dev"},
                      NEW k \in 1 .. Len(Functions[d].init)
               PROVE  "crash" \notin Functions[d].init[k].fails
    BY Zenon
  <1>1. Functions[d] \in {myzero, mynull, irqcatch, clipboard, netdev, kmem_cache, netfilter,
                          hrtimer}
    BY DEF Functions, aaa, use_count, myempty, markveltzer, sleep_wakeup, cant_kill, chrdev
  <1>2. /\ \A i \in 1 .. Len(myzero.init) : "crash" \notin myzero.init[i].fails
        /\ \A i \in 1 .. Len(mynull.init) : "crash" \notin mynull.init[i].fails
        /\ \A i \in 1 .. Len(irqcatch.init) : "crash" \notin irqcatch.init[i].fails
        /\ \A i \in 1 .. Len(clipboard.init) : "crash" \notin clipboard.init[i].fails
    BY DEF myzero, mynull, irqcatch, clipboard, Driver, Try, Unseen, Calling
  <1>3. /\ \A i \in 1 .. Len(netdev.init) : "crash" \notin netdev.init[i].fails
        /\ \A i \in 1 .. Len(kmem_cache.init) : "crash" \notin kmem_cache.init[i].fails
        /\ \A i \in 1 .. Len(netfilter.init) : "crash" \notin netfilter.init[i].fails
        /\ \A i \in 1 .. Len(hrtimer.init) : "crash" \notin hrtimer.init[i].fails
    BY DEF netdev, kmem_cache, netfilter, hrtimer, Driver, Try, TryInline, Sure, Calling
  <1>4. QED
    BY Zenon, <1>1, <1>2, <1>3

\* The drivers keep their text, and which of them may have crashed.
CrashInv ==
  /\ \A d \in Present : d \in DOMAIN Functions /\ driver[d] = Functions[d]
  /\ oops \subseteq Present
  /\ oops \subseteq {"clipboard_basic", "register_dev"}

\* Before anything is loaded.
LEMMA InitCrash == KnownDrivers /\ RegisterInit => CrashInv
  <1> SUFFICES ASSUME KnownDrivers, RegisterInit
               PROVE  CrashInv
    BY Zenon
  <1>1. PICK load \in Loads : driver = [d \in load |-> Functions[d]] /\ oops = {}
    BY Zenon DEF RegisterInit
  <1>2. \A d \in load : d \in DOMAIN Functions
    BY Zenon, <1>1 DEF KnownDrivers
  <1>3. QED
    BY Zenon, <1>1, <1>2 DEF CrashInv, Present

\* Every step keeps it.
LEMMA NextCrash == RegisterInv /\ CrashInv /\ [RegisterNext]_regvars => CrashInv'
  <1> SUFFICES ASSUME RegisterInv, CrashInv, [RegisterNext]_regvars
               PROVE  CrashInv'
    BY Zenon
  <1>1. driver' = driver
    BY Zenon DEF RegisterNext, regvars, Acquire, Fail, GoOn, Crash, Unload, Release
  <1>2. ASSUME NEW d \in Present, Crash(d)
        PROVE  CrashInv'
    <2>1. /\ "crash" \in driver[d].init[at[d] + 1].fails /\ at[d] < Len(driver[d].init)
          /\ oops' = oops \cup {d}
      BY Zenon, <1>2 DEF Crash, Loading, Call
    <2>2. at[d] \in 0 .. Len(driver[d].init) /\ Len(driver[d].init) \in Nat
      BY Zenon DEF RegisterInv, Good, Sound
    <2>3. at[d] + 1 \in 1 .. Len(driver[d].init)
      BY <2>1, <2>2
    <2>4. d \in {"clipboard_basic", "register_dev"}
      BY Zenon, <2>1, <2>3, FewCrash DEF CrashInv
    <2>5. QED
      BY Zenon, <1>1, <2>1, <2>4 DEF CrashInv, Present
  <1>3. ASSUME UNCHANGED oops
        PROVE  CrashInv'
    BY Zenon, <1>1, <1>3 DEF CrashInv, Present
  <1>4. QED
    BY Zenon, <1>2, <1>3 DEF RegisterNext, regvars, Acquire, Fail, GoOn, Unload, Release

\* The invariant gives the soundness of the registrations.
LEMMA InvIsClean == RegisterInv /\ CrashInv => NothingLeft
  <1> SUFFICES ASSUME RegisterInv, CrashInv, NEW d \in Present
               PROVE  /\ Absent(d) => \A r \in Resource : held[d][r] = 0
                      /\ Loaded(d) =>
                           \A r \in Resource \ {"proc"} : Uses(d, r) => held[d][r] = 1
                      /\ \A n \in Needs :
                           Uses(d, n[2]) /\ held[d][n[1]] > 0 => held[d][n[2]] = 1
    BY Zenon DEF NothingLeft, CrashInv
  <1> DEFINE all == Gets(driver[d], Len(driver[d].init))
  <1>1. Good(driver[d], at[d], plan[d], held[d]) /\ Sound(driver[d])
    BY Zenon DEF RegisterInv, Good
  <1>2. \A r : Uses(d, r) => r \in all
    <2>1. DOMAIN driver[d].init = 1 .. Len(driver[d].init)
      BY Zenon, <1>1 DEF Sound
    <2>2. QED
      BY Zenon, <2>1 DEF Uses, Gets
  <1>3. /\ Absent(d) => \A r \in Resource : held[d][r] = 0
        /\ Loaded(d) => \A r \in Resource \ {"proc"} : r \in all => held[d][r] = 1
        /\ \A n \in Needs : n[2] \in all /\ held[d][n[1]] > 0 => held[d][n[2]] = 1
    BY <1>1, GoodIsClean DEF Absent, Loaded
  <1> HIDE DEF all
  <1>4. QED
    BY Zenon, <1>2, <1>3

\* Whichever drivers of the repository are loaded side by side, in whatever order their calls
\* succeed and fail, allocations included, as often as they are loaded and unloaded: a driver
\* that is not loaded has left nothing behind and has given back nothing of another, one that
\* is loaded holds all it acquired, no resource is ever there without the one it needs, and a
\* failed allocation is fatal in the init functions of clipboard_basic and device.inc only.
THEOREM DriversClean == ASSUME KnownDrivers PROVE RegisterSpec => []NothingLeft
  <1>1. RegisterInit => RegisterInv /\ CrashInv
    BY Zenon, InitRegister, InitCrash
  <1>2. RegisterInv /\ CrashInv /\ [RegisterNext]_regvars => (RegisterInv /\ CrashInv)'
    BY Zenon, NextRegister, NextCrash
  <1>3. QED
    BY <1>1, <1>2, InvIsClean, PTL DEF RegisterSpec

\* No init function has more than five calls.
FewCalls == \A d \in Present : Len(driver[d].init) <= 5

\* It is so in the text of every driver.
LEMMA AllFew == \A d \in DOMAIN Functions : Len(Functions[d].init) <= 5
  <1> SUFFICES ASSUME NEW d \in DOMAIN Functions
               PROVE  Len(Functions[d].init) <= 5
    BY Zenon
  <1>1. Functions[d] \in {myzero, mynull, irqcatch, clipboard, clipboard_basic, netdev,
                          register_dev, kmem_cache, netfilter, hrtimer}
    BY DEF Functions, aaa, use_count, myempty, markveltzer, sleep_wakeup, cant_kill, chrdev
  <1>2. /\ Len(myzero.init) <= 5 /\ Len(mynull.init) <= 5 /\ Len(irqcatch.init) <= 5
        /\ Len(clipboard.init) <= 5 /\ Len(clipboard_basic.init) <= 5
    BY DEF myzero, mynull, irqcatch, clipboard, clipboard_basic, Driver
  <1>3. /\ Len(netdev.init) <= 5 /\ Len(register_dev.init) <= 5 /\ Len(kmem_cache.init) <= 5
        /\ Len(netfilter.init) <= 5 /\ Len(hrtimer.init) <= 5
    BY DEF netdev, register_dev, kmem_cache, netfilter, hrtimer, Driver
  <1>4. QED
    BY Zenon, <1>1, <1>2, <1>3

\* The drivers that are present stay the same.
LEMMA FewStay ==
  /\ KnownDrivers /\ RegisterInit => FewCalls
  /\ FewCalls /\ [RegisterNext]_regvars => FewCalls'
  <1>1. ASSUME KnownDrivers, RegisterInit
        PROVE  FewCalls
    <2>1. PICK load \in Loads : driver = [d \in load |-> Functions[d]]
      BY Zenon, <1>1 DEF RegisterInit
    <2>2. \A d \in load : d \in DOMAIN Functions
      BY Zenon, <1>1, <2>1 DEF KnownDrivers
    <2>3. QED
      BY Zenon, <2>1, <2>2, AllFew DEF FewCalls, Present
  <1>2. ASSUME FewCalls, [RegisterNext]_regvars
        PROVE  FewCalls'
    <2>1. driver' = driver
      BY Zenon, <1>2 DEF RegisterNext, regvars, Acquire, Fail, GoOn, Crash, Unload, Release
    <2>2. QED
      BY Zenon, <1>2, <2>1 DEF FewCalls, Present
  <1>3. QED
    BY Zenon, <1>1, <1>2

\* The invariant gives the type.
LEMMA InvIsTyped == RegisterInv /\ CrashInv /\ FewCalls => RegisterType
  <1> SUFFICES ASSUME RegisterInv, CrashInv, FewCalls
               PROVE  RegisterType
    BY Zenon
  <1>1. ASSUME NEW d \in Present
        PROVE  at[d] \in 0 .. 5 /\ (plan[d] = <<>> \/ at[d] = 0)
    <2>1. /\ at[d] \in 0 .. Len(driver[d].init) /\ Sound(driver[d])
          /\ plan[d] # <<>> => at[d] = 0
      BY Zenon DEF RegisterInv, Good
    <2>2. Len(driver[d].init) \in Nat /\ Len(driver[d].init) <= 5
      BY Zenon, <2>1 DEF Sound, FewCalls
    <2>3. at[d] \in 0 .. 5
      BY <2>1, <2>2
    <2>4. QED
      BY Zenon, <2>1, <2>3
  <1>2. at \in [Present -> 0 .. 5]
    <2>1. at \in [Present -> Int]
      BY Zenon DEF RegisterInv
    <2>2. QED
      BY Zenon, <1>1, <2>1
  <1>3. held \in [Present -> [Resource -> -1 .. 1]]
    <2>1. 0 \in -1 .. 1 /\ 1 \in -1 .. 1
      OBVIOUS
    <2>2. \A h \in [Resource -> {0, 1}] : h \in [Resource -> -1 .. 1]
      BY Zenon, <2>1
    <2>3. QED
      BY Zenon, <2>2 DEF RegisterInv
  <1>4. QED
    BY Zenon, <1>1, <1>2, <1>3 DEF RegisterType, CrashInv

\* Whichever drivers of the repository are loaded side by side, their state keeps its type.
THEOREM RegisterTyped == ASSUME KnownDrivers PROVE RegisterSpec => []RegisterType
  <1>1. RegisterInit => RegisterInv /\ CrashInv /\ FewCalls
    BY Zenon, InitRegister, InitCrash, FewStay
  <1>2. RegisterInv /\ CrashInv /\ FewCalls /\ [RegisterNext]_regvars
          => (RegisterInv /\ CrashInv /\ FewCalls)'
    BY Zenon, NextRegister, NextCrash, FewStay
  <1>3. QED
    BY <1>1, <1>2, InvIsTyped, PTL DEF RegisterSpec

-----------------------------------------------------------------------------
(* mod_poll.c                                                              *)

\* A process is on the wait queue from its poll_wait until poll(2) returns or kern_poll is
\* called again, and nobody sleeps through an event.
PollInv ==
  /\ PollType
  /\ \A p \in Poller : ppc[p] \in {"mask", "triggered", "asleep"} => p \in wq
  /\ SleepersReached

\* A step of a process in poll(2) keeps the invariant.
LEMMA PollKeeps ==
  ASSUME PollInv, NEW p \in Poller, Poll(p) \/ kern_poll(p)
  PROVE  PollInv'
  <1>1. CASE Poll(p)
    BY <1>1 DEF Poll, PollInv, PollType, SleepersReached
  <1>2. CASE PollWait(p)
    BY <1>2 DEF PollWait, PollInv, PollType, SleepersReached
  <1>3. CASE ReadMask(p)
    BY <1>3 DEF ReadMask, PollInv, PollType, SleepersReached
  <1>4. QED
    BY Zenon, <1>1, <1>2, <1>3 DEF kern_poll

\* A step of a process in ioctl(2) keeps the invariant.
LEMMA IoctlKeeps ==
  ASSUME PollInv, NEW c \in Caller, kern_unlocked_ioctl(c)
  PROVE  PollInv'
  <1>1. CASE WAKE(c) \/ RESET(c)
    BY <1>1 DEF WAKE, RESET, Store, PollInv, PollType, SleepersReached
  <1>2. CASE WakeUpAll(c)
    BY <1>2 DEF WakeUpAll, PollInv, PollType, SleepersReached
  <1>3. QED
    BY Zenon, <1>1, <1>2 DEF kern_unlocked_ioctl

\* The invariant holds always.
LEMMA PollInvariance == PollSpec => []PollInv
  <1>1. PollInit => PollInv
    BY DEF PollInit, PollInv, PollType, SleepersReached
  <1>2. PollInv /\ [PollNext]_pollvars => PollInv'
    <2> SUFFICES ASSUME PollInv, [PollNext]_pollvars
                 PROVE  PollInv'
      BY Zenon
    <2>1. CASE PollNext
      BY Zenon, <2>1, PollKeeps, IoctlKeeps DEF PollNext
    <2>2. CASE UNCHANGED pollvars
      BY Zenon, <2>2 DEF pollvars, PollInv, PollType, SleepersReached
    <2>3. QED
      BY Zenon, <2>1, <2>2
  <1>3. QED
    BY <1>1, <1>2, PTL DEF PollSpec

\* For any processes that poll the device and call its ioctl: nobody sleeps through an event,
\* at whatever point between the poll_wait and the sleep the WAKE comes, and however the
\* calls of WAKE and RESET overlap.
THEOREM EventsReach == PollSpec => []SleepersReached
  <1>1. PollInv => SleepersReached
    BY Zenon DEF PollInv
  <1>2. QED
    BY <1>1, PollInvariance, PTL

\* The state of the device keeps its type.
THEOREM PollTyped == PollSpec => []PollType
  <1>1. PollInv => PollType
    BY Zenon DEF PollInv
  <1>2. QED
    BY <1>1, PollInvariance, PTL

=============================================================================
