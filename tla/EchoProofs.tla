----------------------------- MODULE EchoProofs -----------------------------
(***************************************************************************)
(* Proofs about the echo servers: each client gets its own bytes back in   *)
(* order, and a server never waits while there is work, for every size of  *)
(* the pipes and any number of clients.                                    *)
(***************************************************************************)
EXTENDS EchoServer, Segments

-----------------------------------------------------------------------------
(* The echo server.                                                        *)

\* What the numbers of the server and the names of the clients have to be.
Service ==
  IsFiniteSet(Client) /\ Nobody \notin Client /\ BufSize \in Nat \ {0} /\ SockSize \in Nat

\* The CircularPipes.
Pipes == [read : 0 .. BufSize - 1, write : 0 .. BufSize - 1, mem : [0 .. BufSize - 1 -> Nat]]

Fill(p) == data(BufSize, p.read, p.write)

\* Is there a byte at place i of a ring, and which one, when it holds what follows the
\* first ones ?
Inside(r, w, i) == IF r <= w THEN r <= i /\ i < w ELSE r <= i \/ i < w
Byte(size, r, i, first) == IF r <= i THEN first + 1 + i - r ELSE first + 1 + i + size - r

\* The bytes of a pipe follow the first ones.
Follow(p, first) == \A i \in 0 .. BufSize - 1 :
  Inside(p.read, p.write, i) => p.mem[i] = Byte(BufSize, p.read, i, first)

\* The types.
StateInv ==
  /\ conn \in [Client -> {"new", "queued", "open", "closed"}]
  /\ typed \in [Client -> Nat] /\ unread \in [Client -> Nat]
  /\ pipe \in [Client -> Pipes] /\ interest \in [Client -> SUBSET {"in", "out"}]
  /\ echoed \in [Client -> Seq(Nat)] /\ wire \in [Client -> 0 .. SockSize]
  /\ fdbuffermap \in [FD -> Client \cup {Nobody}] /\ timermap \in [FD -> FD \cup {0}]
  /\ \A e \in batch : e.fd \in FD \cup {sockfd}

\* A descriptor is the socket of an open connection, which has no other, or the timer of
\* such a socket, which has no other, or free.
MapInv ==
  /\ \A fd \in FD : fdbuffermap[fd] # Nobody => conn[fdbuffermap[fd]] = "open"
  /\ \A f, g \in FD : fdbuffermap[f] = fdbuffermap[g] => f = g \/ fdbuffermap[f] = Nobody
  /\ \A t \in FD : timermap[t] # 0 =>
       fdbuffermap[t] = Nobody /\ fdbuffermap[timermap[t]] # Nobody
  /\ \A s, t \in FD : timermap[s] = timermap[t] => s = t \/ timermap[s] = 0

\* What came back is what was sent first, and the pipe holds what was sent next.
BytesOf(c) ==
  /\ \A i \in 1 .. Len(echoed[c]) : echoed[c][i] = i
  /\ conn[c] # "closed" => /\ typed[c] = Len(echoed[c]) + Fill(pipe[c]) + unread[c]
                           /\ Follow(pipe[c], Len(echoed[c]))
ByteInv == \A c \in Client : BytesOf(c)

\* The inductive invariant of the server.
EchoInv == StateInv /\ MapInv /\ ByteInv

-----------------------------------------------------------------------------
(* The CircularPipe.                                                       *)

\* The positions after a push of n bytes.
LEMMA PushPositions ==
  ASSUME NEW size \in Nat \ {0}, NEW r \in 0 .. size - 1, NEW w \in 0 .. size - 1,
         NEW n \in Nat, n <= pushCount(size, r, w), NEW x, x = (w + n) % size
  PROVE  /\ x \in 0 .. size - 1
         /\ data(size, r, w) \in Nat /\ data(size, r, x) = data(size, r, w) + n
         /\ x = (IF w + n = size THEN 0 ELSE w + n)
         /\ w + n \in 0 .. size /\ (w < r => w + n < r) /\ (r = 0 => w + n < size)
  <1>1. w + n \in 0 .. size /\ (w < r => w + n < r) /\ (r = 0 => w + n < size)
    BY DEF pushCount
  <1>2. (w + n) % size = IF w + n = size THEN 0 ELSE w + n
    BY <1>1
  <1>3. QED
    BY <1>1, <1>2 DEF data

\* The positions after a pull of k bytes.
LEMMA PullPositions ==
  ASSUME NEW size \in Nat \ {0}, NEW r \in 0 .. size - 1, NEW w \in 0 .. size - 1,
         NEW k \in Nat, k <= pullCount(size, r, w), NEW x, x = (r + k) % size
  PROVE  /\ x \in 0 .. size - 1
         /\ data(size, r, w) \in Nat /\ data(size, x, w) = data(size, r, w) - k
         /\ x = (IF r + k = size THEN 0 ELSE r + k)
         /\ r + k \in 0 .. size /\ (r <= w => r + k <= w)
  <1>1. r + k \in 0 .. size /\ (r <= w => r + k <= w)
    BY DEF pullCount
  <1>2. (r + k) % size = IF r + k = size THEN 0 ELSE r + k
    BY <1>1
  <1>3. QED
    BY <1>1, <1>2 DEF data

\* The sizes of the pieces are numbers of bytes.
LEMMA PieceSizes ==
  ASSUME NEW size \in Nat \ {0}, NEW r \in 0 .. size - 1, NEW w \in 0 .. size - 1
  PROVE  pushCount(size, r, w) \in Nat /\ pullCount(size, r, w) \in Nat
  BY DEF pushCount, pullCount

\* After a push, a place that holds a byte was filled by it, or held the byte before.
LEMMA PushPlace ==
  ASSUME NEW size \in Nat \ {0}, NEW r \in 0 .. size - 1, NEW w \in 0 .. size - 1,
         NEW n \in Nat, n <= pushCount(size, r, w), NEW x, x = (w + n) % size,
         NEW first \in Nat, NEW i \in 0 .. size - 1, Inside(r, x, i)
  PROVE  IF i \in w .. w + n - 1
         THEN first + data(size, r, w) + (i - w) + 1 = Byte(size, r, i, first)
         ELSE Inside(r, w, i)
  BY PushPositions DEF Inside, Byte, data

\* After a pull, a place that holds a byte held the same byte before.
LEMMA PullPlace ==
  ASSUME NEW size \in Nat \ {0}, NEW r \in 0 .. size - 1, NEW w \in 0 .. size - 1,
         NEW k \in Nat, k <= pullCount(size, r, w), NEW x, x = (r + k) % size,
         NEW first \in Nat, NEW i \in 0 .. size - 1, Inside(x, w, i)
  PROVE  Inside(r, w, i) /\ Byte(size, r, i, first) = Byte(size, x, i, first + k)
  <1>1. /\ x = (IF r + k = size THEN 0 ELSE r + k)
        /\ r + k \in 0 .. size /\ (r <= w => r + k <= w)
    BY PullPositions
  <1>2. CASE r + k = size
    BY <1>1, <1>2 DEF Inside, Byte
  <1>3. CASE r + k # size
    BY <1>1, <1>3 DEF Inside, Byte
  <1>4. QED
    BY Zenon, <1>2, <1>3

\* What a pull reads are the oldest bytes, in order.
LEMMA PulledBytes ==
  ASSUME NEW size \in Nat \ {0}, NEW r \in 0 .. size - 1, NEW w \in 0 .. size - 1,
         NEW k \in Nat, k <= pullCount(size, r, w), NEW first \in Nat, NEW m,
         \A i \in 0 .. size - 1 : Inside(r, w, i) => m[i] = Byte(size, r, i, first)
  PROVE  [i \in 1 .. k |-> m[r + i - 1]] = Segment(first, k)
  <1>1. ASSUME NEW j \in 1 .. k
        PROVE  /\ r + j - 1 \in 0 .. size - 1 /\ Inside(r, w, r + j - 1)
               /\ Byte(size, r, r + j - 1, first) = first + j
    BY PullPositions DEF Inside, Byte
  <1>2. \A j \in 1 .. k : m[r + j - 1] = first + j
    BY Zenon, <1>1
  <1>3. QED
    BY Zenon, <1>2 DEF Segment

\* A pipe is made of its positions and its memory.
LEMMA PipeMade ==
  ASSUME NEW r \in 0 .. BufSize - 1, NEW w \in 0 .. BufSize - 1,
         NEW m \in [0 .. BufSize - 1 -> Nat]
  PROVE  [read |-> r, write |-> w, mem |-> m] \in Pipes
  BY Zenon DEF Pipes

\* What a pipe holds is a number of bytes.
LEMMA FillNat ==
  ASSUME BufSize \in Nat \ {0}, NEW p \in Pipes
  PROVE  Fill(p) \in Nat
  BY SMTT(30) DEF Fill, data, Pipes

\* push adds n bytes to what the pipe holds.
LEMMA PushAdds ==
  ASSUME BufSize \in Nat \ {0}, NEW p \in Pipes, NEW first \in Nat, Follow(p, first),
         NEW n \in Nat, n <= pushCount(BufSize, p.read, p.write),
         NEW q, q = push(p, n, first + Fill(p))
  PROVE  q \in Pipes /\ Follow(q, first) /\ Fill(q) = Fill(p) + n
  <1>1. PICK r \in 0 .. BufSize - 1, w \in 0 .. BufSize - 1, m \in [0 .. BufSize - 1 -> Nat] :
          p = [read |-> r, write |-> w, mem |-> m]
    BY Zenon DEF Pipes
  <1>2. n <= pushCount(BufSize, r, w)
    BY Zenon, <1>1
  <1>3. PICK x : x = (w + n) % BufSize
    BY Zenon
  <1>4. PICK d : d = data(BufSize, r, w)
    BY Zenon
  <1>5. x \in 0 .. BufSize - 1 /\ d \in Nat /\ data(BufSize, r, x) = d + n
    BY <1>2, <1>3, <1>4, PushPositions
  <1>6. PICK g : g = [i \in 0 .. BufSize - 1 |-> IF i \in w .. w + n - 1
                                                THEN first + d + (i - w) + 1 ELSE m[i]]
    BY Zenon
  <1>7. q = [read |-> r, write |-> x, mem |-> g]
    BY Zenon, <1>1, <1>3, <1>4, <1>6 DEF push, Fill
  <1>8. ASSUME NEW i \in 0 .. BufSize - 1, Inside(r, x, i)
        PROVE  g[i] = Byte(BufSize, r, i, first)
    <2>1. IF i \in w .. w + n - 1
          THEN first + data(BufSize, r, w) + (i - w) + 1 = Byte(BufSize, r, i, first)
          ELSE Inside(r, w, i)
      BY SMTT(30), <1>2, <1>3, <1>8, PushPlace
    <2>2. Inside(r, w, i) => m[i] = Byte(BufSize, r, i, first)
      BY Zenon, <1>1 DEF Follow
    <2>3. QED
      BY Zenon, <1>4, <1>6, <2>1, <2>2
  <1>9. \A i \in 0 .. BufSize - 1 : g[i] \in Nat
    <2>1. \A i \in 0 .. BufSize - 1 : i \in w .. w + n - 1 => first + d + (i - w) + 1 \in Nat
      BY <1>5
    <2>2. QED
      BY Zenon, <1>6, <2>1
  <1>10. g \in [0 .. BufSize - 1 -> Nat]
    BY Zenon, <1>6, <1>9
  <1>11. q \in Pipes /\ Fill(q) = Fill(p) + n
    <2>1. q \in Pipes
      BY Zenon, <1>5, <1>7, <1>10, PipeMade
    <2>2. QED
      BY <1>1, <1>4, <1>5, <1>7, <2>1 DEF Fill
  <1>12. Follow(q, first)
    BY SMTT(30), <1>7, <1>8 DEF Follow
  <1>13. QED
    BY Zenon, <1>11, <1>12

\* pull takes the oldest k bytes, in order.
LEMMA PullTakes ==
  ASSUME BufSize \in Nat \ {0}, NEW p \in Pipes, NEW first \in Nat, Follow(p, first),
         NEW k \in Nat, k <= pullCount(BufSize, p.read, p.write),
         NEW q, q = pull(p, k)
  PROVE  /\ q \in Pipes /\ Follow(q, first + k) /\ Fill(q) = Fill(p) - k
         /\ Pulled(p, k) = Segment(first, k)
  <1>1. PICK r \in 0 .. BufSize - 1, w \in 0 .. BufSize - 1, m \in [0 .. BufSize - 1 -> Nat] :
          p = [read |-> r, write |-> w, mem |-> m]
    BY Zenon DEF Pipes
  <1>2. k <= pullCount(BufSize, r, w)
    BY Zenon, <1>1
  <1>3. PICK x : x = (r + k) % BufSize
    BY Zenon
  <1>4. x \in 0 .. BufSize - 1 /\ data(BufSize, x, w) = data(BufSize, r, w) - k
    BY <1>2, <1>3, PullPositions
  <1>5. q = [read |-> x, write |-> w, mem |-> m]
    BY Zenon, <1>1, <1>3 DEF pull
  <1>6. \A i \in 0 .. BufSize - 1 : Inside(r, w, i) => m[i] = Byte(BufSize, r, i, first)
    BY Zenon, <1>1 DEF Follow
  <1>7. ASSUME NEW i \in 0 .. BufSize - 1, Inside(x, w, i)
        PROVE  m[i] = Byte(BufSize, x, i, first + k)
    <2>1. Inside(r, w, i) /\ Byte(BufSize, r, i, first) = Byte(BufSize, x, i, first + k)
      BY SMTT(30), <1>2, <1>3, <1>7, PullPlace
    <2>2. QED
      BY Zenon, <1>6, <2>1
  <1>8. [i \in 1 .. k |-> m[r + i - 1]] = Segment(first, k)
    BY SMTT(30), <1>2, <1>6, PulledBytes
  <1>9. q \in Pipes /\ Fill(q) = Fill(p) - k
    BY SMTT(30), <1>1, <1>4, <1>5 DEF Pipes, Fill
  <1>10. Follow(q, first + k)
    BY SMTT(30), <1>5, <1>7 DEF Follow
  <1>11. Pulled(p, k) = Segment(first, k)
    BY Zenon, <1>1, <1>8 DEF Pulled
  <1>12. QED
    BY Zenon, <1>9, <1>10, <1>11

\* What is written back continues what was written back before.
LEMMA EchoGrows ==
  ASSUME NEW s \in Seq(Nat), \A i \in 1 .. Len(s) : s[i] = i, NEW k \in Nat
  PROVE  LET t == s \o Segment(Len(s), k)
         IN /\ t \in Seq(Nat) /\ Len(t) = Len(s) + k
            /\ \A i \in 1 .. Len(t) : t[i] = i
  <1>1. Len(s) \in Nat
    OBVIOUS
  <1>2. PICK u : u = Segment(Len(s), k)
    BY Zenon
  <1>3. u \in Seq(Nat) /\ Len(u) = k /\ \A i \in 1 .. k : u[i] = Len(s) + i
    BY Zenon, <1>1, <1>2, SegmentType
  <1>4. /\ s \o u \in Seq(Nat) /\ Len(s \o u) = Len(s) + Len(u)
        /\ \A i \in 1 .. Len(s) + Len(u) :
             (s \o u)[i] = IF i <= Len(s) THEN s[i] ELSE u[i - Len(s)]
    BY Zenon, <1>3, ConcatProperties
  <1>5. ASSUME NEW i \in 1 .. Len(s) + k
        PROVE  (s \o u)[i] = i
    <2>1. CASE i <= Len(s)
      BY <1>1, <1>3, <1>4, <2>1
    <2>2. CASE ~ (i <= Len(s))
      <3>1. i - Len(s) \in 1 .. k /\ (s \o u)[i] = u[i - Len(s)]
        BY <1>1, <1>3, <1>4, <2>2
      <3>2. QED
        BY <1>1, <1>3, <3>1
    <2>3. QED
      BY Zenon, <2>1, <2>2
  <1>6. QED
    BY Zenon, <1>2, <1>3, <1>4, <1>5

-----------------------------------------------------------------------------
(* The steps.                                                              *)

\* A step of a client or of its timer moves nothing.
LEMMA ClientEcho ==
  ASSUME Service, EchoInv, NEW c \in Client, Visiting(c)
  PROVE  EchoInv'
  <1>1. UNCHANGED <<pipe, interest, echoed, fdbuffermap, timermap, batch>>
    BY Zenon DEF Visiting, Connect, Send, Receive, HangUp, Reset, Expire, server
  <1>2. /\ conn' \in [Client -> {"new", "queued", "open", "closed"}]
        /\ \A d \in Client : /\ conn[d] \in {"open", "closed"} => conn'[d] = conn[d]
                             /\ conn'[d] # "closed" => conn[d] # "closed"
    BY Zenon DEF Visiting, Connect, Send, Receive, HangUp, Reset, Expire, server, EchoInv,
       StateInv
  <1>3. /\ typed' \in [Client -> Nat] /\ unread' \in [Client -> Nat]
        /\ \A d \in Client : \/ typed'[d] = typed[d] /\ unread'[d] = unread[d]
                             \/ typed'[d] = typed[d] + 1 /\ unread'[d] = unread[d] + 1
    <2>1. CASE UNCHANGED <<typed, unread>>
      BY Zenon, <2>1 DEF EchoInv, StateInv
    <2>2. CASE Send(c)
      BY SMTT(30), <2>2 DEF Send, EchoInv, StateInv
    <2>3. QED
      BY Zenon, <2>1, <2>2 DEF Visiting, Connect, Receive, HangUp, Reset, Expire
  <1>8. wire' \in [Client -> 0 .. SockSize]
    <2>1. CASE UNCHANGED wire
      BY Zenon, <2>1 DEF EchoInv, StateInv
    <2>2. CASE Receive(c)
      BY SMTT(30), <2>2 DEF Receive, EchoInv, StateInv, Service
    <2>3. QED
      BY Zenon, <2>1, <2>2 DEF Visiting, Connect, Send, HangUp, Reset, Expire
  <1>4. StateInv'
    BY Zenon, <1>1, <1>2, <1>3, <1>8 DEF EchoInv, StateInv, FD, sockfd, Pipes
  <1>5. MapInv'
    <2>1. ASSUME NEW fd \in FD, fdbuffermap[fd] # Nobody
          PROVE  conn'[fdbuffermap[fd]] = "open"
      BY <1>2, <2>1 DEF EchoInv, StateInv, MapInv
    <2>2. QED
      BY Zenon, <1>1, <2>1 DEF EchoInv, MapInv, FD
  <1>6. ASSUME NEW d \in Client
        PROVE  BytesOf(d)'
    <2>1. BytesOf(d) /\ Len(echoed[d]) \in Nat /\ pipe[d] \in Pipes /\ typed[d] \in Nat
          /\ unread[d] \in Nat
      BY DEF EchoInv, StateInv, ByteInv
    <2>2. Fill(pipe[d]) \in Int
      BY SMTT(30), <2>1 DEF Fill, data, Pipes, Service
    <2>3. echoed'[d] = echoed[d] /\ pipe'[d] = pipe[d]
      BY Zenon, <1>1
    <2>4. conn[d] # "closed" =>
            typed'[d] = Len(echoed'[d]) + Fill(pipe'[d]) + unread'[d]
      <3>1. conn[d] # "closed" => typed[d] = Len(echoed[d]) + Fill(pipe[d]) + unread[d]
        BY Zenon, <2>1 DEF BytesOf
      <3>2. \/ typed'[d] = typed[d] /\ unread'[d] = unread[d]
            \/ typed'[d] = typed[d] + 1 /\ unread'[d] = unread[d] + 1
        BY Zenon, <1>3
      <3>3. conn[d] # "closed" => typed'[d] = Len(echoed[d]) + Fill(pipe[d]) + unread'[d]
        BY SMTT(30), <2>1, <2>2, <3>1, <3>2
      <3>4. QED
        BY Zenon, <2>3, <3>3
    <2>5. QED
      BY Zenon, <1>1, <1>2, <2>1, <2>3, <2>4 DEF BytesOf
  <1>7. QED
    BY Zenon, <1>4, <1>5, <1>6 DEF EchoInv, ByteInv

\* epoll_wait, an event of a descriptor that is free and a failed call move nothing.
LEMMA IdleEcho ==
  ASSUME Service, EchoInv, epoll_wait \/ \E e \in batch : Ignore(e) \/ CallFails(e)
  PROVE  EchoInv'
  <1>1. UNCHANGED <<conn, typed, unread, pipe, interest, echoed, wire, fdbuffermap, timermap>>
    BY Zenon DEF epoll_wait, Ignore, CallFails
  <1>2. \A e \in batch' : e.fd \in FD \cup {sockfd}
    <2>1. CASE epoll_wait
      BY SMTT(30), <2>1 DEF epoll_wait
    <2>2. CASE \E e \in batch : Ignore(e) \/ CallFails(e)
      BY Zenon, <2>2 DEF Ignore, CallFails, EchoInv, StateInv
    <2>3. QED
      BY Zenon, <2>1, <2>2
  <1>3. StateInv'
    BY Zenon, <1>1, <1>2 DEF EchoInv, StateInv, FD, sockfd, Pipes
  <1>4. MapInv'
    BY Zenon, <1>1 DEF EchoInv, MapInv, FD
  <1>5. ByteInv'
    BY Zenon, <1>1 DEF EchoInv, ByteInv, BytesOf, Follow, Fill
  <1>6. QED
    BY Zenon, <1>3, <1>4, <1>5 DEF EchoInv

\* Closing a connection frees its descriptors, and no other.
LEMMA Closes ==
  ASSUME Service, StateInv, MapInv, NEW fd \in FD, NEW c \in Client, fdbuffermap[fd] = c,
         Disconnect(fd, c)
  PROVE  /\ MapInv'
         /\ conn' \in [Client -> {"new", "queued", "open", "closed"}]
         /\ unread' \in [Client -> Nat] /\ pipe' \in [Client -> Pipes]
         /\ interest' \in [Client -> SUBSET {"in", "out"}] /\ wire' \in [Client -> 0 .. SockSize]
         /\ fdbuffermap' \in [FD -> Client \cup {Nobody}] /\ timermap' \in [FD -> FD \cup {0}]
         /\ conn'[c] = "closed"
         /\ \A d \in Client \ {c} : /\ conn'[d] = conn[d] /\ pipe'[d] = pipe[d]
                                    /\ unread'[d] = unread[d]
  <1>1. /\ conn' = [conn EXCEPT ![c] = "closed"]
        /\ fdbuffermap' = [fdbuffermap EXCEPT ![fd] = Nobody]
        /\ timermap' = [t \in FD |-> IF timermap[t] = fd THEN 0 ELSE timermap[t]]
        /\ pipe' = [pipe EXCEPT ![c] = CircularPipe]
        /\ interest' = [interest EXCEPT ![c] = {}]
        /\ unread' = [unread EXCEPT ![c] = 0] /\ wire' = [wire EXCEPT ![c] = 0]
    BY Zenon DEF Disconnect
  <1>11. 0 \in 0 .. SockSize
    BY DEF Service
  <1>2. CircularPipe \in Pipes
    BY DEF CircularPipe, Pipes, Service
  <1>3. /\ \A f \in FD : fdbuffermap'[f] = IF f = fd THEN Nobody ELSE fdbuffermap[f]
        /\ \A t \in FD : timermap'[t] = IF timermap[t] = fd THEN 0 ELSE timermap[t]
        /\ \A d \in Client : conn'[d] = IF d = c THEN "closed" ELSE conn[d]
        /\ c # Nobody
    BY Zenon, <1>1 DEF StateInv, Service
  <1>4. \A f \in FD : f # fd => fdbuffermap[f] # c
    BY Zenon, <1>3 DEF MapInv
  <1>5. ASSUME NEW f \in FD, fdbuffermap'[f] # Nobody
        PROVE  conn'[fdbuffermap'[f]] = "open"
    <2>1. f # fd /\ fdbuffermap'[f] = fdbuffermap[f] /\ fdbuffermap[f] # Nobody
      BY Zenon, <1>3, <1>5
    <2>2. fdbuffermap[f] \in Client /\ fdbuffermap[f] # c
      BY Zenon, <1>4, <2>1 DEF StateInv
    <2>3. QED
      BY SMTT(30), <1>3, <2>1, <2>2 DEF MapInv
  <1>6. \A f, g \in FD : fdbuffermap'[f] = fdbuffermap'[g] => f = g \/ fdbuffermap'[f] = Nobody
    BY SMTT(30), <1>3 DEF MapInv
  <1>7. ASSUME NEW t \in FD, timermap'[t] # 0
        PROVE  fdbuffermap'[t] = Nobody /\ fdbuffermap'[timermap'[t]] # Nobody
    <2>1. timermap'[t] = timermap[t] /\ timermap[t] # fd /\ timermap[t] # 0
      BY Zenon, <1>3, <1>7
    <2>2. /\ timermap[t] \in FD /\ fdbuffermap[t] = Nobody
          /\ fdbuffermap[timermap[t]] # Nobody
      BY Zenon, <2>1 DEF StateInv, MapInv
    <2>3. QED
      BY Zenon, <1>3, <2>1, <2>2
  <1>8. \A s, t \in FD : timermap'[s] = timermap'[t] => s = t \/ timermap'[s] = 0
    BY SMTT(30), <1>3 DEF MapInv
  <1>9. MapInv'
    BY Zenon, <1>5, <1>6, <1>7, <1>8 DEF MapInv, FD
  <1>10. QED
    BY Zenon, <1>1, <1>2, <1>3, <1>9, <1>11 DEF StateInv

\* An event of a timer closes the connection of the timer's socket.
LEMMA TimeoutEcho ==
  ASSUME Service, EchoInv, NEW e \in batch, Timeout(e)
  PROVE  EchoInv'
  <1>1. /\ e.fd # sockfd /\ fdbuffermap[e.fd] = Nobody /\ timermap[e.fd] # 0
        /\ Disconnect(timermap[e.fd], fdbuffermap[timermap[e.fd]])
        /\ batch' = batch \ {e} /\ typed' = typed /\ echoed' = echoed
    BY Zenon DEF Timeout
  <1>2. e.fd \in FD
    BY Zenon, <1>1 DEF EchoInv, StateInv
  <1>3. PICK fd \in FD : fd = timermap[e.fd]
    BY Zenon, <1>1, <1>2 DEF EchoInv, StateInv
  <1>4. fdbuffermap[fd] # Nobody
    BY Zenon, <1>1, <1>2, <1>3 DEF EchoInv, MapInv
  <1>5. PICK c \in Client : c = fdbuffermap[fd]
    BY Zenon, <1>4 DEF EchoInv, StateInv
  <1>6. /\ MapInv'
        /\ conn' \in [Client -> {"new", "queued", "open", "closed"}]
        /\ unread' \in [Client -> Nat] /\ pipe' \in [Client -> Pipes]
        /\ interest' \in [Client -> SUBSET {"in", "out"}] /\ wire' \in [Client -> 0 .. SockSize]
        /\ fdbuffermap' \in [FD -> Client \cup {Nobody}] /\ timermap' \in [FD -> FD \cup {0}]
        /\ conn'[c] = "closed"
        /\ \A d \in Client \ {c} : /\ conn'[d] = conn[d] /\ pipe'[d] = pipe[d]
                                   /\ unread'[d] = unread[d]
    BY Zenon, <1>1, <1>3, <1>5, Closes DEF EchoInv
  <1>7. StateInv'
    BY Zenon, <1>1, <1>6 DEF EchoInv, StateInv, FD, sockfd, Pipes
  <1>8. ASSUME NEW d \in Client
        PROVE  BytesOf(d)'
    <2>1. BytesOf(d)
      BY DEF EchoInv, ByteInv
    <2>2. CASE d = c
      BY Zenon, <1>1, <1>6, <2>1, <2>2 DEF BytesOf
    <2>3. CASE d # c
      BY Zenon, <1>1, <1>6, <2>1, <2>3 DEF BytesOf, Fill, Follow
    <2>4. QED
      BY Zenon, <2>2, <2>3
  <1>9. QED
    BY Zenon, <1>6, <1>7, <1>8 DEF EchoInv, ByteInv

\* n bytes are read from the socket of c and fill its pipe.
IsRead(c, n, filled) ==
  /\ n \in Nat /\ n <= pushCount(BufSize, pipe[c].read, pipe[c].write)
  /\ filled = push(pipe[c], n, typed[c] - unread[c])

\* The first bytes of the pipe can be written back.
IsEchoed(c, n, filled, len) ==
  LET q == pull(filled, len)
      t == echoed[c] \o Pulled(filled, len)
  IN /\ q \in Pipes /\ t \in Seq(Nat)
     /\ \A i \in 1 .. Len(t) : t[i] = i
     /\ typed[c] = Len(t) + Fill(q) + (unread[c] - n)
     /\ Follow(q, Len(t))

\* What is read goes to the pipe, and what the pipe holds goes back.
LEMMA Moves ==
  ASSUME Service, EchoInv, NEW c \in Client, conn[c] # "closed",
         NEW n, NEW filled, IsRead(c, n, filled)
  PROVE  /\ filled \in Pipes
         /\ \A len \in Nat :
              len <= pullCount(BufSize, filled.read, filled.write) =>
                IsEchoed(c, n, filled, len)
  <1>1. PICK k \in Nat : k = Len(echoed[c])
    BY DEF EchoInv, StateInv
  <1>2. /\ BufSize \in Nat \ {0} /\ pipe[c] \in Pipes /\ echoed[c] \in Seq(Nat)
        /\ typed[c] \in Nat /\ unread[c] \in Nat
        /\ \A i \in 1 .. Len(echoed[c]) : echoed[c][i] = i
        /\ typed[c] = k + Fill(pipe[c]) + unread[c]
        /\ Follow(pipe[c], k)
    BY Zenon, <1>1 DEF EchoInv, StateInv, ByteInv, BytesOf, Service
  <1>3. Fill(pipe[c]) \in Nat
    BY Zenon, <1>2, FillNat
  <1>4. typed[c] - unread[c] = k + Fill(pipe[c])
    BY SMTT(30), <1>2, <1>3
  <1>5. filled \in Pipes /\ Follow(filled, k) /\ Fill(filled) = Fill(pipe[c]) + n
    <2>1. /\ n \in Nat /\ n <= pushCount(BufSize, pipe[c].read, pipe[c].write)
          /\ filled = push(pipe[c], n, k + Fill(pipe[c]))
      BY Zenon, <1>4 DEF IsRead
    <2>2. QED
      BY SMTT(30), <1>2, <2>1, PushAdds
  <1>6. ASSUME NEW len \in Nat, len <= pullCount(BufSize, filled.read, filled.write),
               NEW q, q = pull(filled, len), NEW t, t = echoed[c] \o Pulled(filled, len)
        PROVE  /\ q \in Pipes /\ t \in Seq(Nat)
               /\ \A i \in 1 .. Len(t) : t[i] = i
               /\ typed[c] = Len(t) + Fill(q) + (unread[c] - n)
               /\ Follow(q, Len(t))
    <2>1. /\ q \in Pipes /\ Follow(q, k + len) /\ Fill(q) = Fill(filled) - len
          /\ Pulled(filled, len) = Segment(k, len)
      BY SMTT(30), <1>2, <1>5, <1>6, PullTakes
    <2>2. t = echoed[c] \o Segment(Len(echoed[c]), len)
      BY Zenon, <1>1, <1>6, <2>1
    <2>3. t \in Seq(Nat) /\ Len(t) = k + len /\ \A i \in 1 .. Len(t) : t[i] = i
      BY Zenon, <1>1, <1>2, <2>2, EchoGrows
    <2>4. typed[c] = (k + len) + Fill(q) + (unread[c] - n)
      <3>1. /\ typed[c] = k + Fill(pipe[c]) + unread[c] /\ Fill(filled) = Fill(pipe[c]) + n
            /\ Fill(q) = Fill(filled) - len /\ unread[c] \in Nat /\ n \in Nat
        BY Zenon, <1>2, <1>5, <2>1 DEF IsRead
      <3>2. QED
        BY SMTT(30), <1>3, <3>1
    <2>5. QED
      BY Zenon, <2>1, <2>3, <2>4
  <1>7. QED
    BY Zenon, <1>5, <1>6 DEF IsEchoed

\* An event of a socket.
LEMMA ServeEcho ==
  ASSUME Service, EchoInv, NEW e \in batch, Serve(e)
  PROVE  EchoInv'
  <1>1. e.fd \in FD
    BY Zenon DEF Serve, EchoInv, StateInv
  <1>2. fdbuffermap[e.fd] # Nobody
    BY Zenon DEF Serve
  <1>3. PICK c \in Client : c = fdbuffermap[e.fd]
    BY Zenon, <1>1, <1>2 DEF EchoInv, StateInv
  <1> DEFINE reads == "in" \in e.events
             writes == "out" \in e.events
  <1>5. PICK n : n = IF reads THEN Least(pushCount(BufSize, pipe[c].read, pipe[c].write),
                                         unread[c]) ELSE 0
    BY Zenon
  <1>6. PICK filled : filled = push(pipe[c], n, typed[c] - unread[c])
    BY Zenon
  <1>7. PICK most : most = IF writes THEN pullCount(BufSize, filled.read, filled.write) ELSE 0
    BY Zenon
  <1>8. PICK len \in Written(c, most) :
          /\ echoed' = [echoed EXCEPT ![c] = @ \o Pulled(filled, len)]
          /\ IF "rdhup" \in e.events THEN Disconnect(e.fd, c)
             ELSE ReadWrite(c, reads, writes, n, filled, len)
    BY Zenon, <1>3, <1>5, <1>6, <1>7 DEF Serve
  <1>9. batch' = batch \ {e} /\ typed' = typed
    BY Zenon DEF Serve
  <1>10. /\ conn[c] = "open" /\ pipe[c] \in Pipes /\ unread[c] \in Nat /\ typed[c] \in Nat
         /\ BufSize \in Nat \ {0}
    BY SMTT(30), <1>1, <1>2, <1>3 DEF EchoInv, StateInv, MapInv, Service
  <1>11. /\ n \in Nat /\ n <= unread[c]
         /\ n <= pushCount(BufSize, pipe[c].read, pipe[c].write)
    <2>1. pipe[c].read \in 0 .. BufSize - 1 /\ pipe[c].write \in 0 .. BufSize - 1
      BY Zenon, <1>10 DEF Pipes
    <2>2. pushCount(BufSize, pipe[c].read, pipe[c].write) \in Nat
      BY Zenon, <1>10, <2>1, PieceSizes
    <2>3. QED
      BY SMTT(30), <1>5, <1>10, <2>2 DEF Least
  <1>12. /\ filled \in Pipes
         /\ \A l \in Nat :
              l <= pullCount(BufSize, filled.read, filled.write) => IsEchoed(c, n, filled, l)
    <2>1. conn[c] # "closed" /\ IsRead(c, n, filled)
      BY Zenon, <1>6, <1>10, <1>11 DEF IsRead
    <2>2. QED
      BY Zenon, <2>1, Moves
  <1>13. len \in Nat /\ len <= pullCount(BufSize, filled.read, filled.write)
    <2>1. filled.read \in 0 .. BufSize - 1 /\ filled.write \in 0 .. BufSize - 1
      BY Zenon, <1>12 DEF Pipes
    <2>2. pullCount(BufSize, filled.read, filled.write) \in Nat
      BY Zenon, <1>10, <2>1, PieceSizes
    <2>3. len \in 0 .. most /\ wire[c] + len <= SockSize
      BY Zenon, <1>8 DEF Written
    <2>4. QED
      BY SMTT(30), <1>7, <2>2, <2>3
  <1>14. /\ echoed' \in [Client -> Seq(Nat)]
         /\ \A i \in 1 .. Len(echoed'[c]) : echoed'[c][i] = i
         /\ \A d \in Client \ {c} : echoed'[d] = echoed[d]
         /\ pull(filled, len) \in Pipes
         /\ typed[c] = Len(echoed'[c]) + Fill(pull(filled, len)) + (unread[c] - n)
         /\ Follow(pull(filled, len), Len(echoed'[c]))
    <2>1. /\ echoed'[c] = echoed[c] \o Pulled(filled, len)
          /\ \A d \in Client \ {c} : echoed'[d] = echoed[d]
      BY Zenon, <1>8 DEF EchoInv, StateInv
    <2>2. /\ pull(filled, len) \in Pipes /\ echoed'[c] \in Seq(Nat)
          /\ \A i \in 1 .. Len(echoed'[c]) : echoed'[c][i] = i
          /\ typed[c] = Len(echoed'[c]) + Fill(pull(filled, len)) + (unread[c] - n)
          /\ Follow(pull(filled, len), Len(echoed'[c]))
      BY Zenon, <1>12, <1>13, <2>1 DEF IsEchoed
    <2>3. echoed' \in [Client -> Seq(Nat)]
      BY Zenon, <1>8, <2>1, <2>2 DEF EchoInv, StateInv
    <2>4. QED
      BY Zenon, <2>1, <2>2, <2>3
  <1>15. CASE "rdhup" \in e.events
    <2>1. /\ MapInv'
          /\ conn' \in [Client -> {"new", "queued", "open", "closed"}]
          /\ unread' \in [Client -> Nat] /\ pipe' \in [Client -> Pipes]
          /\ interest' \in [Client -> SUBSET {"in", "out"}] /\ wire' \in [Client -> 0 .. SockSize]
          /\ fdbuffermap' \in [FD -> Client \cup {Nobody}] /\ timermap' \in [FD -> FD \cup {0}]
          /\ conn'[c] = "closed"
          /\ \A d \in Client \ {c} : /\ conn'[d] = conn[d] /\ pipe'[d] = pipe[d]
                                     /\ unread'[d] = unread[d]
      BY Zenon, <1>1, <1>3, <1>8, <1>15, Closes DEF EchoInv
    <2>2. StateInv'
      BY Zenon, <1>9, <1>14, <2>1 DEF EchoInv, StateInv, FD, sockfd, Pipes
    <2>3. ASSUME NEW d \in Client
          PROVE  BytesOf(d)'
      <3>1. BytesOf(d)
        BY DEF EchoInv, ByteInv
      <3>2. CASE d = c
        BY Zenon, <1>14, <2>1, <3>2 DEF BytesOf
      <3>3. CASE d # c
        BY Zenon, <1>9, <1>14, <2>1, <3>1, <3>3 DEF BytesOf, Fill, Follow
      <3>4. QED
        BY Zenon, <3>2, <3>3
    <2>4. QED
      BY Zenon, <2>1, <2>2, <2>3 DEF EchoInv, ByteInv
  <1>16. CASE "rdhup" \notin e.events
    <2>1. /\ pipe' = [pipe EXCEPT ![c] = pull(filled, len)]
          /\ interest' = IF reads \/ writes
                         THEN [interest EXCEPT ![c] = register_fd(pull(filled, len))]
                         ELSE interest
          /\ unread' = [unread EXCEPT ![c] = @ - n]
          /\ wire' = [wire EXCEPT ![c] = @ + len]
          /\ UNCHANGED <<conn, fdbuffermap, timermap>>
      BY Zenon, <1>8, <1>16 DEF ReadWrite
    <2>9. wire' \in [Client -> 0 .. SockSize]
      <3>1. wire[c] + len <= SockSize
        BY Zenon, <1>8 DEF Written
      <3>2. wire[c] \in 0 .. SockSize
        BY Zenon DEF EchoInv, StateInv
      <3>3. wire[c] + len \in 0 .. SockSize
        BY <1>13, <3>1, <3>2 DEF Service
      <3>4. QED
        BY Zenon, <2>1, <3>3 DEF EchoInv, StateInv
    <2>2. register_fd(pull(filled, len)) \in SUBSET {"in", "out"}
      BY Zenon DEF register_fd
    <2>3. unread' \in [Client -> Nat] /\ unread'[c] = unread[c] - n
      BY SMTT(30), <1>10, <1>11, <2>1 DEF EchoInv, StateInv
    <2>4. pipe' \in [Client -> Pipes] /\ interest' \in [Client -> SUBSET {"in", "out"}]
      BY Zenon, <1>14, <2>1, <2>2 DEF EchoInv, StateInv
    <2>5. StateInv'
      BY Zenon, <1>9, <1>14, <2>1, <2>3, <2>4, <2>9 DEF EchoInv, StateInv, FD, sockfd, Pipes
    <2>6. MapInv'
      BY Zenon, <2>1 DEF EchoInv, MapInv, FD
    <2>7. ASSUME NEW d \in Client
          PROVE  BytesOf(d)'
      <3>1. BytesOf(d)
        BY Zenon DEF EchoInv, ByteInv
      <3>2. CASE d = c
        <4>1. pipe'[c] = pull(filled, len)
          BY Zenon, <2>1 DEF EchoInv, StateInv
        <4>2. QED
          BY Zenon, <1>9, <1>14, <2>3, <3>2, <4>1 DEF BytesOf, Fill, Follow
      <3>3. CASE d # c
        <4>1. pipe'[d] = pipe[d] /\ unread'[d] = unread[d] /\ conn'[d] = conn[d]
          BY Zenon, <2>1, <3>3 DEF EchoInv, StateInv
        <4>2. QED
          BY Zenon, <1>9, <1>14, <3>1, <3>3, <4>1 DEF BytesOf, Fill, Follow
      <3>4. QED
        BY Zenon, <3>2, <3>3
    <2>8. QED
      BY Zenon, <2>5, <2>6, <2>7 DEF EchoInv, ByteInv
  <1>17. QED
    BY Zenon, <1>15, <1>16

-----------------------------------------------------------------------------
(* The descriptors.                                                        *)

INSTANCE FiniteSetTheorems
INSTANCE WellFoundedInduction

\* The kernel gives out the lowest descriptor that is free.
LEMMA LowestIsMember ==
  ASSUME NEW S \in SUBSET Nat, S # {}
  PROVE  Lowest(S) \in S
  <1>1. PICK i \in S : \A j \in S : ~ (<<j, i>> \in OpToRel(<, Nat))
    BY Zenon, NatLessThanWellFounded, WFMin
  <1>2. ASSUME NEW j \in S
        PROVE  i <= j
    <2>1. i \in Nat /\ j \in Nat
      OBVIOUS
    <2>2. j < i => <<j, i>> \in OpToRel(<, Nat)
      BY <2>1, Zenon DEF OpToRel
    <2>3. ~ (j < i)
      BY <1>1, <2>2, Zenon
    <2>4. QED
      BY <2>1, <2>3
  <1>3. QED
    BY Zenon, <1>2 DEF Lowest

\* There are two descriptors for each client, and they are numbers from 1.
LEMMA Descriptors ==
  ASSUME Service
  PROVE  /\ Cardinality(Client) \in Nat /\ FD \subseteq Nat \ {0}
         /\ IsFiniteSet(FD) /\ Cardinality(FD) = 2 * Cardinality(Client)
  <1>1. Cardinality(Client) \in Nat
    BY FS_CardinalityType DEF Service
  <1>2. PICK n \in Nat : n = 2 * Cardinality(Client)
    BY <1>1
  <1>3. FD = 1 .. n
    BY Zenon, <1>2 DEF FD
  <1>4. IsFiniteSet(1 .. n) /\ Cardinality(1 .. n) = n
    BY FS_Interval
  <1>5. QED
    BY <1>1, <1>2, <1>3, <1>4

\* While a client waits for accept, there are descriptors for its socket and its timer.
LEMMA DescriptorsLeft ==
  ASSUME Service, StateInv, MapInv, NEW c \in Client, conn[c] = "queued",
         NEW free, free = {fd \in FD : FdFree(fd)},
         NEW realfd, realfd = Lowest(free), NEW timerfd, timerfd = Lowest(free \ {realfd})
  PROVE  realfd \in free /\ timerfd \in free \ {realfd}
  <1> DEFINE Sockets == {fd \in FD : fdbuffermap[fd] # Nobody}
             Timers == {t \in FD : timermap[t] # 0}
             N == Cardinality(Client)
  <1>1. /\ N \in Nat /\ FD \subseteq Nat \ {0} /\ IsFiniteSet(FD) /\ Cardinality(FD) = 2 * N
    BY Zenon, Descriptors
  <1>2. IsFiniteSet(Client \ {c}) /\ Cardinality(Client \ {c}) = N - 1
    BY Zenon, FS_RemoveElement DEF Service
  <1>3. IsFiniteSet(Sockets) /\ Cardinality(Sockets) <= N - 1
    <2>1. [fd \in Sockets |-> fdbuffermap[fd]] \in Injection(Sockets, Client \ {c})
      BY SMTT(30) DEF Injection, IsInjective, StateInv, MapInv
    <2>2. QED
      BY SMTT(30), <1>2, <2>1, FS_Injection
  <1>4. IsFiniteSet(Timers) /\ Cardinality(Timers) <= Cardinality(Sockets)
    <2>1. [t \in Timers |-> timermap[t]] \in Injection(Timers, Sockets)
      BY Zenon DEF Injection, IsInjective, StateInv, MapInv
    <2>2. QED
      BY Zenon, <1>3, <2>1, FS_Injection
  <1> DEFINE Used == Sockets \cup Timers
  <1>5. IsFiniteSet(Used) /\ Cardinality(Used) <= 2 * N - 2
    <2> HIDE DEF Sockets, Timers, N
    <2>1. /\ IsFiniteSet(Used)
          /\ Cardinality(Used) =
               Cardinality(Sockets) + Cardinality(Timers) - Cardinality(Sockets \cap Timers)
      BY SMTT(30), <1>3, <1>4, FS_Union
    <2>2. IsFiniteSet(Sockets \cap Timers)
      BY Zenon, <1>3, FS_Intersection
    <2>3. /\ Cardinality(Sockets) \in Nat /\ Cardinality(Timers) \in Nat
          /\ Cardinality(Sockets \cap Timers) \in Nat
      BY <1>3, <1>4, <2>2, FS_CardinalityType
    <2>4. QED
      BY SMTT(30), <1>1, <1>3, <1>4, <2>1, <2>3
  <1>6. free = FD \ Used /\ FD \cap Used = Used
    BY Zenon DEF FdFree
  <1> HIDE DEF Used, N
  <1>7. IsFiniteSet(free) /\ Cardinality(free) >= 2
    <2>1. IsFiniteSet(FD \ Used)
          /\ Cardinality(FD \ Used) = Cardinality(FD) - Cardinality(FD \cap Used)
      BY Zenon, <1>1, FS_Difference
    <2>2. Cardinality(Used) \in Nat
      BY <1>5, FS_CardinalityType
    <2>3. Cardinality(free) = 2 * N - Cardinality(Used)
      BY Zenon, <1>1, <1>6, <2>1
    <2>4. Cardinality(free) >= 2
      BY <1>1, <1>5, <2>2, <2>3
    <2>5. QED
      BY Zenon, <1>6, <2>1, <2>4
  <1>8. realfd \in free
    <2>1. free # {}
      BY SMTT(30), <1>7, FS_EmptySet
    <2>2. QED
      BY <1>1, <2>1, LowestIsMember
  <1>9. timerfd \in free \ {realfd}
    <2>1. Cardinality(free \ {realfd}) = Cardinality(free) - 1
      BY SMTT(30), <1>7, <1>8, FS_RemoveElement
    <2>2. free \ {realfd} # {}
      <3>1. Cardinality(free) \in Nat /\ Cardinality({}) = 0
        BY SMTT(30), <1>7, FS_EmptySet, FS_CardinalityType
      <3>2. Cardinality(free \ {realfd}) # 0
        BY SMTT(30), <1>7, <2>1, <3>1
      <3>3. QED
        BY Zenon, <3>1, <3>2
    <2>3. QED
      BY SMTT(30), <1>1, <2>2, LowestIsMember
  <1>10. QED
    BY <1>8, <1>9

\* accept gives the new connection a descriptor that was free.
LEMMA AcceptEcho ==
  ASSUME Service, EchoInv, NEW e \in batch, Accept(e)
  PROVE  EchoInv'
  <1>1. PICK c \in Client :
          /\ conn[c] = "queued"
          /\ conn' = [conn EXCEPT ![c] = "open"]
          /\ interest' = [interest EXCEPT ![c] = register_fd(pipe[c])]
          /\ LET free    == {fd \in FD : FdFree(fd)}
                 realfd  == Lowest(free)
                 timerfd == Lowest(free \ {realfd})
             IN /\ fdbuffermap' = [fdbuffermap EXCEPT ![realfd] = c]
                /\ timermap' = IF solution = "full" THEN [timermap EXCEPT ![timerfd] = realfd]
                               ELSE timermap
    BY Zenon DEF Accept
  <1>2. PICK free : free = {fd \in FD : FdFree(fd)}
    BY Zenon
  <1>3. PICK realfd : realfd = Lowest(free)
    BY Zenon
  <1>4. PICK timerfd : timerfd = Lowest(free \ {realfd})
    BY Zenon
  <1>5. realfd \in free /\ timerfd \in free \ {realfd}
    BY Zenon, <1>1, <1>2, <1>3, <1>4, DescriptorsLeft DEF EchoInv
  <1>6. /\ fdbuffermap' = [fdbuffermap EXCEPT ![realfd] = c]
        /\ timermap' \in {timermap, [timermap EXCEPT ![timerfd] = realfd]}
        /\ batch' = batch \ {e} /\ UNCHANGED <<typed, unread, pipe, echoed, wire>>
    BY Zenon, <1>1, <1>2, <1>3, <1>4 DEF Accept
  <1>7. /\ realfd \in FD /\ fdbuffermap[realfd] = Nobody /\ timermap[realfd] = 0
        /\ timerfd \in FD /\ fdbuffermap[timerfd] = Nobody /\ timermap[timerfd] = 0
        /\ timerfd # realfd
    BY SMTT(30), <1>2, <1>5 DEF FdFree
  <1>8. StateInv'
    <2>1. interest' \in [Client -> SUBSET {"in", "out"}]
      BY Zenon, <1>1 DEF EchoInv, StateInv, register_fd
    <2>2. /\ fdbuffermap' \in [FD -> Client \cup {Nobody}]
          /\ timermap' \in [FD -> FD \cup {0}]
      BY Zenon, <1>6, <1>7 DEF EchoInv, StateInv
    <2>3. QED
      BY SMTT(30), <1>1, <1>6, <2>1, <2>2 DEF EchoInv, StateInv, FD, sockfd, Pipes
  <1>9. MapInv'
    <2>1. /\ \A fd \in FD : fdbuffermap'[fd] = IF fd = realfd THEN c ELSE fdbuffermap[fd]
          /\ c # Nobody
      BY SMTT(30), <1>6 DEF EchoInv, StateInv, Service
    <2>2. 0 \notin FD
      BY Descriptors
    <2>3. /\ \A t \in FD : timermap'[t] = timermap[t] \/ (t = timerfd /\ timermap'[t] = realfd)
      BY SMTT(30), <1>6 DEF EchoInv, StateInv
    <2>4. \A d \in Client : conn'[d] = IF d = c THEN "open" ELSE conn[d]
      BY SMTT(30), <1>1 DEF EchoInv, StateInv
    <2>5. \A fd \in FD : fdbuffermap[fd] # c
      BY SMTT(30), <1>1, <2>1 DEF EchoInv, MapInv
    <2>6. \A fd \in FD : fdbuffermap'[fd] # Nobody => conn'[fdbuffermap'[fd]] = "open"
      <3>1. ASSUME NEW fd \in FD, fd # realfd, fdbuffermap[fd] # Nobody
            PROVE  conn'[fdbuffermap[fd]] = "open"
        BY SMTT(30), <2>4, <3>1 DEF EchoInv, StateInv, MapInv
      <3>2. QED
        BY SMTT(30), <2>1, <2>4, <3>1
    <2>7. \A f, g \in FD : fdbuffermap'[f] = fdbuffermap'[g]
                             => f = g \/ fdbuffermap'[f] = Nobody
      BY Zenon, <2>1, <2>5 DEF EchoInv, MapInv
    <2>8. ASSUME NEW t \in FD, timermap'[t] # 0
          PROVE  fdbuffermap'[t] = Nobody /\ fdbuffermap'[timermap'[t]] # Nobody
      <3>1. CASE timermap'[t] = timermap[t]
        <4>1. fdbuffermap[t] = Nobody /\ fdbuffermap[timermap[t]] # Nobody
              /\ timermap[t] \in FD
          BY SMTT(30), <2>8, <3>1 DEF EchoInv, StateInv, MapInv
        <4>2. QED
          BY SMTT(30), <1>7, <2>1, <2>8, <3>1, <4>1
      <3>2. CASE t = timerfd /\ timermap'[t] = realfd
        BY SMTT(30), <1>7, <2>1, <3>2
      <3>3. QED
        BY Zenon, <2>3, <3>1, <3>2
    <2>9. \A s, t \in FD : timermap'[s] = timermap'[t] => s = t \/ timermap'[s] = 0
      <3>1. \A t \in FD : timermap[t] # realfd
        BY SMTT(30), <1>7, <2>2 DEF EchoInv, MapInv
      <3>2. \A s, t \in FD : timermap[s] = timermap[t] => s = t \/ timermap[s] = 0
        BY Zenon DEF EchoInv, MapInv
      <3>3. QED
        BY SMTT(30), <1>7, <2>3, <3>1, <3>2
    <2>10. QED
      BY Zenon, <2>6, <2>7, <2>8, <2>9 DEF MapInv, FD
  <1>10. ByteInv'
    BY Zenon, <1>1, <1>6 DEF EchoInv, StateInv, ByteInv, BytesOf, Follow, Fill
  <1>11. QED
    BY <1>8, <1>9, <1>10 DEF EchoInv

\* The server starts in the invariant.
LEMMA InitEcho ==
  ASSUME Service, EchoInit
  PROVE  EchoInv
  <1>1. CircularPipe \in Pipes
    BY SMTT(30) DEF CircularPipe, Pipes, Service
  <1>2. StateInv
    <2>1. 0 \in 0 .. SockSize
      BY DEF Service
    <2>2. QED
      BY SMTT(30), <1>1, <2>1 DEF EchoInit, StateInv
  <1>3. MapInv
    BY Zenon DEF EchoInit, MapInv
  <1>4. Fill(CircularPipe) = 0 /\ Follow(CircularPipe, 0)
    BY SMTT(30) DEF CircularPipe, Fill, data, Follow, Inside, Service
  <1>5. ByteInv
    BY SMTT(30), <1>4 DEF EchoInit, ByteInv, BytesOf
  <1>6. QED
    BY <1>2, <1>3, <1>5 DEF EchoInv

\* Every step keeps the invariant.
LEMMA NextEcho ==
  ASSUME Service, EchoInv, [EchoNext]_echovars
  PROVE  EchoInv'
  <1>1. CASE UNCHANGED echovars
    <2>1. UNCHANGED <<conn, typed, unread, pipe, interest, echoed, wire, fdbuffermap,
                      timermap, batch>>
      BY Zenon, <1>1 DEF echovars
    <2>2. StateInv'
      BY Zenon, <2>1 DEF EchoInv, StateInv, FD, sockfd, Pipes
    <2>3. MapInv'
      BY Zenon, <2>1 DEF EchoInv, MapInv, FD
    <2>4. ByteInv'
      BY Zenon, <2>1 DEF EchoInv, ByteInv, BytesOf, Follow, Fill
    <2>5. QED
      BY <2>2, <2>3, <2>4 DEF EchoInv
  <1>2. CASE EchoNext
    BY Zenon, <1>2, ClientEcho, IdleEcho, AcceptEcho, ServeEcho, TimeoutEcho
       DEF EchoNext, Serving
  <1>3. QED
    BY <1>1, <1>2

\* Each client gets back its own bytes in the order in which it sent them, and every byte of an
\* open connection that has not come back is in the pipe or in the socket.
THEOREM EchoOrder ==
  ASSUME Service
  PROVE  EchoInit /\ [][EchoNext]_echovars => []EchoedInOrder
  <1>1. EchoInit /\ [][EchoNext]_echovars => []EchoInv
    BY InitEcho, NextEcho, PTL
  <1>2. EchoInv => EchoedInOrder
    <2> SUFFICES ASSUME EchoInv, NEW c \in Client
                 PROVE  /\ echoed[c] = [i \in 1 .. Len(echoed[c]) |-> i]
                        /\ conn[c] # "closed" => typed[c] =
                             Len(echoed[c]) + data(BufSize, pipe[c].read, pipe[c].write)
                               + unread[c]
      BY Zenon DEF EchoedInOrder
    <2>1. BytesOf(c) /\ echoed[c] \in Seq(Nat)
      BY Zenon DEF EchoInv, StateInv, ByteInv
    <2>2. echoed[c] = [i \in 1 .. Len(echoed[c]) |-> i]
      BY SMTT(30), <2>1 DEF BytesOf
    <2>3. QED
      BY SMTT(30), <2>1, <2>2 DEF BytesOf, Fill
  <1>3. QED
    BY <1>1, <1>2, PTL

-----------------------------------------------------------------------------
(* What epoll is asked for.                                                *)

\* An open connection has a socket, which is registered for what its pipe has room or data
\* for.
WorkOf(c) == conn[c] = "open" =>
  interest[c] = register_fd(pipe[c]) /\ \E fd \in FD : fdbuffermap[fd] = c
WorkInv == \A c \in Client : WorkOf(c)

\* A connection that a step does not touch stays as it is.
LEMMA WorkKept ==
  ASSUME WorkInv, NEW c \in Client, conn'[c] = "open" => conn[c] = "open",
         interest'[c] = interest[c], pipe'[c] = pipe[c],
         \A fd \in FD : fdbuffermap[fd] = c => fdbuffermap'[fd] = c
  PROVE  WorkOf(c)'
  <1>1. FD' = FD /\ register_fd(pipe[c])' = register_fd(pipe'[c])
    BY Zenon DEF FD, register_fd
  <1>2. QED
    BY Zenon, <1>1 DEF WorkInv, WorkOf

\* Closing a connection leaves the others as they are.
LEMMA ClosesWork ==
  ASSUME Service, StateInv, WorkInv, NEW fd \in FD, NEW c \in Client, fdbuffermap[fd] = c,
         Disconnect(fd, c)
  PROVE  WorkInv'
  <1>1. /\ conn' = [conn EXCEPT ![c] = "closed"]
        /\ fdbuffermap' = [fdbuffermap EXCEPT ![fd] = Nobody]
        /\ pipe' = [pipe EXCEPT ![c] = CircularPipe]
        /\ interest' = [interest EXCEPT ![c] = {}]
    BY Zenon DEF Disconnect
  <1>2. ASSUME NEW d \in Client
        PROVE  WorkOf(d)'
    <2>1. CASE d = c
      <3>1. conn'[d] = "closed"
        BY Zenon, <1>1, <2>1 DEF StateInv
      <3>2. QED
        BY <3>1 DEF WorkOf
    <2>2. CASE d # c
      <3>1. conn'[d] = conn[d] /\ interest'[d] = interest[d] /\ pipe'[d] = pipe[d]
        BY Zenon, <1>1, <2>2 DEF StateInv
      <3>2. \A f \in FD : fdbuffermap[f] = d => fdbuffermap'[f] = d
        BY Zenon, <1>1, <2>2 DEF StateInv
      <3>3. QED
        BY Zenon, <3>1, <3>2, WorkKept
    <2>3. QED
      BY Zenon, <2>1, <2>2
  <1>3. QED
    BY Zenon, <1>2 DEF WorkInv

\* A step of a client or of its timer, epoll_wait and an event of a free descriptor.
LEMMA IdleWork ==
  ASSUME WorkInv, EchoInv,
         \/ \E c \in Client : Visiting(c)
         \/ epoll_wait \/ \E e \in batch : Ignore(e) \/ CallFails(e)
  PROVE  WorkInv'
  <1>1. UNCHANGED <<pipe, interest, fdbuffermap>>
    BY Zenon DEF Visiting, Connect, Send, Receive, HangUp, Reset, Expire, server, epoll_wait,
       Ignore, CallFails
  <1>2. \A d \in Client : conn'[d] = "open" => conn[d] = "open"
    <2>1. CASE UNCHANGED conn
      BY Zenon, <2>1
    <2>2. CASE \E c \in Client : Connect(c)
      BY <2>2 DEF Connect, EchoInv, StateInv
    <2>3. QED
      BY Zenon, <2>1, <2>2 DEF Visiting, Send, Receive, HangUp, Reset, Expire, epoll_wait,
         Ignore, CallFails
  <1>3. QED
    BY Zenon, <1>1, <1>2, WorkKept DEF WorkInv

\* An event of a timer.
LEMMA TimeoutWork ==
  ASSUME Service, EchoInv, WorkInv, NEW e \in batch, Timeout(e)
  PROVE  WorkInv'
  <1>1. /\ e.fd # sockfd /\ fdbuffermap[e.fd] = Nobody /\ timermap[e.fd] # 0
        /\ Disconnect(timermap[e.fd], fdbuffermap[timermap[e.fd]])
    BY Zenon DEF Timeout
  <1>2. e.fd \in FD
    BY Zenon, <1>1 DEF EchoInv, StateInv
  <1>3. timermap[e.fd] \in FD /\ fdbuffermap[timermap[e.fd]] # Nobody
    BY Zenon, <1>1, <1>2 DEF EchoInv, StateInv, MapInv
  <1>4. fdbuffermap[timermap[e.fd]] \in Client
    BY Zenon, <1>3 DEF EchoInv, StateInv
  <1>5. QED
    BY Zenon, <1>1, <1>3, <1>4, ClosesWork DEF EchoInv

\* accept gives the new connection a descriptor, and registers it.
LEMMA AcceptWork ==
  ASSUME Service, EchoInv, WorkInv, NEW e \in batch, Accept(e)
  PROVE  WorkInv'
  <1>1. PICK c \in Client :
          /\ conn[c] = "queued"
          /\ conn' = [conn EXCEPT ![c] = "open"]
          /\ interest' = [interest EXCEPT ![c] = register_fd(pipe[c])]
          /\ fdbuffermap' = [fdbuffermap EXCEPT ![Lowest({fd \in FD : FdFree(fd)})] = c]
    BY Zenon DEF Accept
  <1>2. PICK free : free = {fd \in FD : FdFree(fd)}
    BY Zenon
  <1>3. PICK realfd : realfd = Lowest(free)
    BY Zenon
  <1>4. realfd \in free
    BY Zenon, <1>1, <1>2, <1>3, DescriptorsLeft DEF EchoInv
  <1>5. realfd \in FD /\ fdbuffermap[realfd] = Nobody
    BY Zenon, <1>2, <1>4 DEF FdFree
  <1>6. pipe' = pipe /\ fdbuffermap' = [fdbuffermap EXCEPT ![realfd] = c]
    BY Zenon, <1>1, <1>2, <1>3 DEF Accept
  <1>7. ASSUME NEW d \in Client
        PROVE  WorkOf(d)'
    <2>1. CASE d = c
      <3>1. interest'[d] = register_fd(pipe[d]) /\ fdbuffermap'[realfd] = d
        BY Zenon, <1>1, <1>5, <1>6, <2>1 DEF EchoInv, StateInv
      <3>2. FD' = FD /\ register_fd(pipe[d])' = register_fd(pipe[d])
        BY Zenon, <1>6 DEF FD, register_fd
      <3>3. QED
        BY Zenon, <1>5, <3>1, <3>2 DEF WorkOf
    <2>2. CASE d # c
      <3>1. conn'[d] = conn[d] /\ interest'[d] = interest[d] /\ pipe'[d] = pipe[d]
        BY Zenon, <1>1, <1>6, <2>2 DEF EchoInv, StateInv
      <3>2. \A f \in FD : fdbuffermap[f] = d => f # realfd
        BY Zenon, <1>5 DEF Service
      <3>3. \A f \in FD : fdbuffermap[f] = d => fdbuffermap'[f] = d
        BY Zenon, <1>6, <3>2 DEF EchoInv, StateInv
      <3>4. QED
        BY Zenon, <3>1, <3>3, WorkKept
    <2>3. QED
      BY Zenon, <2>1, <2>2
  <1>8. QED
    BY Zenon, <1>7 DEF WorkInv

\* A position that does not move.
LEMMA NoMove ==
  ASSUME NEW size \in Nat \ {0}, NEW x \in 0 .. size - 1
  PROVE  (x + 0) % size = x
  OBVIOUS

\* An empty ring has room, if it has more than one place.
LEMMA EmptyHasRoom ==
  ASSUME NEW size \in Nat \ {0}, NEW r \in 0 .. size - 1, NEW w \in 0 .. size - 1,
         size > 1, data(size, r, w) = 0
  PROVE  room(size, r, w) > 0
  BY DEF data, room

\* Nothing read and nothing written leaves the positions of a pipe.
LEMMA NothingMoves ==
  ASSUME BufSize \in Nat \ {0}, NEW p \in Pipes, NEW first
  PROVE  register_fd(pull(push(p, 0, first), 0)) = register_fd(p)
  <1>1. /\ pull(push(p, 0, first), 0).read = ((p.read + 0) % BufSize)
        /\ pull(push(p, 0, first), 0).write = ((p.write + 0) % BufSize)
    BY Zenon DEF pull, push, Pipes
  <1>2. ((p.read + 0) % BufSize) = p.read /\ ((p.write + 0) % BufSize) = p.write
    BY Zenon, NoMove DEF Pipes
  <1>3. QED
    BY Zenon, <1>1, <1>2 DEF register_fd

\* An event of a socket: the socket is registered again when a position may have moved.
LEMMA ServeWork ==
  ASSUME Service, EchoInv, WorkInv, NEW e \in batch, Serve(e)
  PROVE  WorkInv'
  <1>1. e.fd \in FD
    BY Zenon DEF Serve, EchoInv, StateInv
  <1>2. fdbuffermap[e.fd] # Nobody
    BY Zenon DEF Serve
  <1>3. PICK c \in Client : c = fdbuffermap[e.fd]
    BY Zenon, <1>1, <1>2 DEF EchoInv, StateInv
  <1> DEFINE reads == "in" \in e.events
             writes == "out" \in e.events
  <1>4. PICK n : n = IF reads THEN Least(pushCount(BufSize, pipe[c].read, pipe[c].write),
                                         unread[c]) ELSE 0
    BY Zenon
  <1>5. PICK filled : filled = push(pipe[c], n, typed[c] - unread[c])
    BY Zenon
  <1>6. PICK most : most = IF writes THEN pullCount(BufSize, filled.read, filled.write) ELSE 0
    BY Zenon
  <1>7. PICK len \in Written(c, most) :
          IF "rdhup" \in e.events THEN Disconnect(e.fd, c)
          ELSE ReadWrite(c, reads, writes, n, filled, len)
    BY Zenon, <1>3, <1>4, <1>5, <1>6 DEF Serve
  <1>8. CASE "rdhup" \in e.events
    BY Zenon, <1>1, <1>3, <1>7, <1>8, ClosesWork DEF EchoInv
  <1>9. CASE "rdhup" \notin e.events
    <2>1. /\ pipe' = [pipe EXCEPT ![c] = pull(filled, len)]
          /\ interest' = IF reads \/ writes
                         THEN [interest EXCEPT ![c] = register_fd(pull(filled, len))]
                         ELSE interest
          /\ UNCHANGED <<conn, fdbuffermap>>
      BY Zenon, <1>7, <1>9 DEF ReadWrite
    <2>2. /\ conn[c] = "open" /\ pipe[c] \in Pipes /\ BufSize \in Nat \ {0}
          /\ interest[c] = register_fd(pipe[c])
      BY SMTT(30), <1>1, <1>2, <1>3 DEF EchoInv, StateInv, MapInv, Service, WorkInv, WorkOf
    <2>3. pipe'[c] = pull(filled, len)
      BY Zenon, <2>1 DEF EchoInv, StateInv
    <2>4. interest'[c] = register_fd(pull(filled, len))
      <3>1. CASE reads \/ writes
        BY Zenon, <2>1, <3>1 DEF EchoInv, StateInv
      <3>2. CASE ~ (reads \/ writes)
        <4>1. n = 0 /\ most = 0
          BY Zenon, <1>4, <1>6, <3>2
        <4>2. len = 0
          <5>1. len \in 0 .. most
            BY Zenon, <1>7 DEF Written
          <5>2. QED
            BY <4>1, <5>1
        <4>3. interest' = interest
          BY Zenon, <2>1, <3>2
        <4>4. QED
          BY Zenon, <1>5, <2>2, <4>1, <4>2, <4>3, NothingMoves
      <3>3. QED
        BY Zenon, <3>1, <3>2
    <2>5. ASSUME NEW d \in Client
          PROVE  WorkOf(d)'
      <3>1. CASE d = c
        <4>1. FD' = FD /\ register_fd(pipe[c])' = register_fd(pipe'[c])
          BY Zenon DEF FD, register_fd
        <4>2. QED
          BY Zenon, <1>1, <1>3, <2>1, <2>3, <2>4, <3>1, <4>1 DEF WorkOf
      <3>2. CASE d # c
        <4>1. pipe'[d] = pipe[d] /\ interest'[d] = interest[d]
          BY Zenon, <2>1, <3>2 DEF EchoInv, StateInv
        <4>2. QED
          BY Zenon, <2>1, <4>1, WorkKept
      <3>3. QED
        BY Zenon, <3>1, <3>2
    <2>6. QED
      BY Zenon, <2>5 DEF WorkInv
  <1>10. QED
    BY Zenon, <1>8, <1>9

\* In the invariant, whatever has not come back is reported.
LEMMA WorkIsReported == Service /\ EchoInv /\ WorkInv => WorkReported
  <1> SUFFICES ASSUME Service, EchoInv, WorkInv, BufSize > 1, NEW c \in Client,
                      conn[c] = "open", Len(echoed[c]) < typed[c]
               PROVE  \/ \E fd \in FD : fdbuffermap[fd] = c /\ Events(fd) \cap {"in", "out"} # {}
                      \/ wire[c] = SockSize /\ data(BufSize, pipe[c].read, pipe[c].write) > 0
    BY Zenon DEF WorkReported
  <1>1. PICK fd \in FD : fdbuffermap[fd] = c
    BY Zenon DEF WorkInv, WorkOf
  <1>2. fd # sockfd /\ c # Nobody /\ timermap[fd] = 0
    BY Zenon, <1>1, Descriptors DEF sockfd, Service, EchoInv, MapInv
  <1>3. Events(fd) = (interest[c] \cap ((IF Writable(c) THEN {"out"} ELSE {})
                                         \cup IF unread[c] > 0 \/ hung[c] THEN {"in"} ELSE {}))
                     \cup IF hung[c] THEN {"rdhup"} ELSE {}
    BY Zenon, <1>1, <1>2 DEF Events
  <1>4. /\ pipe[c] \in Pipes /\ BufSize \in Nat \ {0} /\ Len(echoed[c]) \in Nat
        /\ unread[c] \in Nat /\ interest[c] = register_fd(pipe[c])
        /\ typed[c] = Len(echoed[c]) + Fill(pipe[c]) + unread[c]
    <2>1. echoed[c] \in Seq(Nat)
      BY Zenon DEF EchoInv, StateInv
    <2>2. Len(echoed[c]) \in Nat
      BY <2>1
    <2>3. QED
      BY SMTT(30), <2>2 DEF EchoInv, StateInv, ByteInv, BytesOf, WorkInv, WorkOf, Service
  <1>5. CASE Fill(pipe[c]) > 0
    <2>1. "out" \in interest[c]
      BY Zenon, <1>4, <1>5 DEF register_fd, Fill
    <2>2. CASE Writable(c)
      BY Zenon, <1>1, <1>3, <2>1, <2>2
    <2>3. CASE ~ Writable(c)
      <3>1. wire[c] \in 0 .. SockSize /\ ~ (wire[c] < SockSize) /\ SockSize \in Nat
        BY Zenon, <2>3 DEF Writable, EchoInv, StateInv, Service
      <3>2. wire[c] = SockSize
        BY <3>1
      <3>3. QED
        BY Zenon, <1>5, <3>2 DEF Fill
    <2>4. QED
      BY Zenon, <2>2, <2>3
  <1>6. CASE ~ (Fill(pipe[c]) > 0)
    <2>1. Fill(pipe[c]) = 0
      BY <1>4, <1>6, FillNat
    <2>2. unread[c] > 0
      BY <1>4, <2>1
    <2>3. room(BufSize, pipe[c].read, pipe[c].write) > 0
      <3>1. pipe[c].read \in 0 .. BufSize - 1 /\ pipe[c].write \in 0 .. BufSize - 1
        BY Zenon, <1>4 DEF Pipes
      <3>2. QED
        BY Zenon, <1>4, <2>1, <3>1, EmptyHasRoom DEF Fill
    <2>4. "in" \in interest[c]
      BY Zenon, <1>4, <2>3 DEF register_fd
    <2>5. QED
      BY Zenon, <1>1, <1>3, <2>2, <2>4
  <1>7. QED
    BY Zenon, <1>5, <1>6

\* The server never waits in epoll_wait for an open connection whose bytes have not all come
\* back, unless the client does not read them, whatever the sizes of the pipes and of the
\* sockets, the connections that are reset and the descriptors that are reused.
THEOREM EchoReported ==
  ASSUME Service
  PROVE  EchoInit /\ [][EchoNext]_echovars => []WorkReported
  <1>1. EchoInit => WorkInv
    BY DEF EchoInit, WorkInv, WorkOf
  <1>2. EchoInv /\ WorkInv /\ [EchoNext]_echovars => WorkInv'
    <2> SUFFICES ASSUME EchoInv, WorkInv, [EchoNext]_echovars
                 PROVE  WorkInv'
      BY Zenon
    <2>1. CASE UNCHANGED echovars
      <3>1. UNCHANGED <<conn, pipe, interest, fdbuffermap>>
        BY Zenon, <2>1 DEF echovars
      <3>2. QED
        BY Zenon, <3>1, WorkKept DEF WorkInv
    <2>2. CASE EchoNext
      BY Zenon, <2>2, IdleWork, AcceptWork, ServeWork, TimeoutWork DEF EchoNext, Serving
    <2>3. QED
      BY Zenon, <2>1, <2>2
  <1>3. QED
    BY <1>1, <1>2, InitEcho, NextEcho, WorkIsReported, PTL

\* The server keeps the type of its state: the positions of the pipes stay inside them.
THEOREM EchoTyped ==
  ASSUME Service
  PROVE  EchoInit /\ [][EchoNext]_echovars => []EchoType
  <1>1. EchoInv => EchoType
    <2> SUFFICES ASSUME EchoInv
                 PROVE  EchoType
      BY Zenon
    <2>1. ASSUME NEW c \in Client
          PROVE  pipe[c].read < BufSize /\ pipe[c].write < BufSize
      <3>1. pipe[c] \in Pipes
        BY Zenon DEF EchoInv, StateInv
      <3>2. pipe[c].read \in 0 .. BufSize - 1 /\ pipe[c].write \in 0 .. BufSize - 1
        BY Zenon, <3>1 DEF Pipes
      <3>3. QED
        BY <3>2 DEF Service
    <2>2. QED
      BY Zenon, <2>1 DEF EchoInv, StateInv, EchoType
  <1>2. QED
    BY <1>1, InitEcho, NextEcho, PTL

-----------------------------------------------------------------------------
(* Disconnections of the write server.                                     *)

\* The write server has no timers.  A batch has one event of a descriptor, and the one that
\* reports that a client has hung up is still about that client.
BatchInv ==
  /\ solution = "write" /\ \A t \in FD : timermap[t] = 0
  /\ \A e, f \in batch : e.fd = f.fd => e = f
  /\ \A e \in batch : "rdhup" \in e.events =>
       e.fd \in FD /\ fdbuffermap[e.fd] # Nobody /\ hung[fdbuffermap[e.fd]]

\* What epoll reports of a client that has hung up is about that client.
LEMMA HangUpReported ==
  ASSUME Service, BatchInv, NEW fd \in FD \cup {sockfd}, "rdhup" \in Events(fd)
  PROVE  fd \in FD /\ fdbuffermap[fd] # Nobody /\ hung[fdbuffermap[fd]]
  <1>1. CASE fd = sockfd
    <2>1. sockfd \notin FD
      BY Zenon, Descriptors DEF sockfd
    <2>2. Events(fd) = {"in" : c \in {c \in Client : conn[c] = "queued"}}
      BY Zenon, <1>1 DEF Events
    <2>3. QED
      BY <2>2
  <1>2. CASE fd # sockfd /\ fdbuffermap[fd] # Nobody
    <2>1. fd \in FD /\ timermap[fd] = 0
      BY Zenon, <1>2 DEF BatchInv
    <2> DEFINE c == fdbuffermap[fd]
    <2>2. Events(fd) = (interest[c] \cap ((IF Writable(c) THEN {"out"} ELSE {})
                                           \cup IF unread[c] > 0 \/ hung[c] THEN {"in"} ELSE {}))
                       \cup IF hung[c] THEN {"rdhup"} ELSE {}
      BY Zenon, <1>2, <2>1 DEF Events
    <2> HIDE DEF c
    <2>3. hung[c]
      <3>1. CASE ~ hung[c]
        <4>1. "rdhup" \in (IF Writable(c) THEN {"out"} ELSE {})
                           \cup IF unread[c] > 0 \/ hung[c] THEN {"in"} ELSE {}
          BY Zenon, <2>2, <3>1
        <4>2. QED
          BY <4>1
      <3>2. QED
        BY Zenon, <3>1
    <2>4. QED
      BY Zenon, <1>2, <2>1, <2>3 DEF c
  <1>3. CASE fd # sockfd /\ fdbuffermap[fd] = Nobody
    <2>1. timermap[fd] = 0
      BY Zenon, <1>3 DEF BatchInv
    <2>2. Events(fd) = {}
      BY Zenon, <1>3, <2>1 DEF Events
    <2>3. QED
      BY Zenon, <2>2
  <1>4. QED
    BY Zenon, <1>1, <1>2, <1>3

\* Handling one event leaves the others as they are, if their descriptors stay.
LEMMA BatchKept ==
  ASSUME BatchInv, UNCHANGED solution, \A t \in FD : timermap'[t] = 0, batch' \subseteq batch,
         \A c : hung[c] => hung'[c],
         \A e \in batch' : "rdhup" \in e.events => fdbuffermap'[e.fd] = fdbuffermap[e.fd]
  PROVE  BatchInv'
  <1>1. FD' = FD
    BY Zenon DEF FD
  <1>2. QED
    BY Zenon, <1>1 DEF BatchInv

\* A disconnection leaves the other descriptors as they are.
LEMMA DisconnectKeeps ==
  ASSUME Service, EchoInv, BatchInv, NEW fd \in FD, NEW c, Disconnect(fd, c)
  PROVE  /\ \A t \in FD : timermap'[t] = 0
         /\ \A f \in FD : f # fd => fdbuffermap'[f] = fdbuffermap[f]
  <1>1. /\ fdbuffermap' = [fdbuffermap EXCEPT ![fd] = Nobody]
        /\ timermap' = [t \in FD |-> IF timermap[t] = fd THEN 0 ELSE timermap[t]]
    BY Zenon DEF Disconnect
  <1>2. \A t \in FD : timermap'[t] = 0
    BY Zenon, <1>1 DEF BatchInv
  <1>3. \A f \in FD : f # fd => fdbuffermap'[f] = fdbuffermap[f]
    BY Zenon, <1>1 DEF EchoInv, StateInv
  <1>4. QED
    BY Zenon, <1>2, <1>3

\* A step of the clients, an event of a free descriptor and a failed call.
LEMMA ClientBatch ==
  ASSUME EchoInv, BatchInv,
         \/ \E c \in Client : Visiting(c)
         \/ \E e \in batch : Ignore(e) \/ CallFails(e)
  PROVE  BatchInv' /\ \A c \in Client : conn[c] = "open" => conn'[c] # "closed"
  <1>1. UNCHANGED <<solution, fdbuffermap, timermap>> /\ batch' \subseteq batch
    BY Zenon DEF Visiting, Connect, Send, Receive, HangUp, Reset, Expire, server, Ignore,
       CallFails
  <1>2. \A c : hung[c] => hung'[c]
    <2>1. CASE UNCHANGED hung
      BY Zenon, <2>1
    <2>2. ASSUME NEW c \in Client, HangUp(c) \/ Reset(c), NEW d, hung[d]
          PROVE  hung'[d]
      <3>1. hung' = [hung EXCEPT ![c] = TRUE]
        BY Zenon, <2>2 DEF HangUp, Reset
      <3>2. d \in DOMAIN hung => hung'[d]
        BY <2>2, <3>1
      <3>3. QED
        BY <2>2, <3>1
    <2>3. QED
      BY Zenon, <2>1, <2>2 DEF Visiting, Connect, Send, Receive, Expire, Ignore, CallFails
  <1>3. \A t \in FD : timermap'[t] = 0
    BY Zenon, <1>1 DEF BatchInv
  <1>4. BatchInv'
    BY Zenon, <1>1, <1>2, <1>3, BatchKept
  <1>5. \A c \in Client : conn[c] = "open" => conn'[c] # "closed"
    <2>1. CASE UNCHANGED conn
      BY <2>1
    <2>2. CASE \E c \in Client : Connect(c)
      BY <2>2 DEF Connect, EchoInv, StateInv
    <2>3. QED
      BY Zenon, <2>1, <2>2 DEF Visiting, Send, Receive, HangUp, Reset, Expire, Ignore, CallFails
  <1>6. QED
    BY Zenon, <1>4, <1>5

\* A new batch.
LEMMA WaitBatch ==
  ASSUME Service, BatchInv, epoll_wait
  PROVE  BatchInv'
  <1>1. /\ batch' = {[fd |-> fd, events |-> Events(fd)] :
                       fd \in {fd \in FD \cup {sockfd} : Events(fd) # {}}}
        /\ UNCHANGED <<solution, hung, fdbuffermap, timermap>>
    BY Zenon DEF epoll_wait
  <1>2. ASSUME NEW e \in batch'
        PROVE  /\ e.fd \in FD \cup {sockfd} /\ e.events = Events(e.fd)
               /\ e = [fd |-> e.fd, events |-> Events(e.fd)]
    <2>1. PICK fd \in FD \cup {sockfd} : e = [fd |-> fd, events |-> Events(fd)]
      BY Zenon, <1>1
    <2>2. e.fd = fd /\ e.events = Events(fd)
      BY <2>1
    <2>3. QED
      BY Zenon, <2>1, <2>2
  <1>3. ASSUME NEW e \in batch', NEW f \in batch', e.fd = f.fd
        PROVE  e = f
    <2>1. /\ e = [fd |-> e.fd, events |-> Events(e.fd)]
          /\ f = [fd |-> f.fd, events |-> Events(f.fd)]
      BY Zenon, <1>2
    <2>2. QED
      BY Zenon, <1>3, <2>1
  <1>4. ASSUME NEW e \in batch', "rdhup" \in e.events
        PROVE  e.fd \in FD /\ fdbuffermap[e.fd] # Nobody /\ hung[fdbuffermap[e.fd]]
    BY Zenon, <1>2, <1>4, HangUpReported
  <1>5. FD' = FD
    BY Zenon DEF FD
  <1>6. QED
    BY Zenon, <1>1, <1>3, <1>4, <1>5 DEF BatchInv

\* accept takes a descriptor that no event of the batch with a hang-up is about.
LEMMA AcceptBatch ==
  ASSUME Service, EchoInv, BatchInv, NEW e \in batch, Accept(e)
  PROVE  BatchInv' /\ \A c \in Client : conn[c] = "open" => conn'[c] # "closed"
  <1>1. PICK c \in Client :
          /\ conn[c] = "queued"
          /\ conn' = [conn EXCEPT ![c] = "open"]
          /\ fdbuffermap' = [fdbuffermap EXCEPT ![Lowest({fd \in FD : FdFree(fd)})] = c]
    BY Zenon DEF Accept
  <1>2. PICK free : free = {fd \in FD : FdFree(fd)}
    BY Zenon
  <1>3. PICK realfd : realfd = Lowest(free)
    BY Zenon
  <1>4. realfd \in free
    BY Zenon, <1>1, <1>2, <1>3, DescriptorsLeft DEF EchoInv
  <1>5. fdbuffermap[realfd] = Nobody /\ fdbuffermap' = [fdbuffermap EXCEPT ![realfd] = c]
    BY Zenon, <1>1, <1>2, <1>3, <1>4 DEF FdFree
  <1>6. timermap' = timermap /\ UNCHANGED <<solution, hung>> /\ batch' \subseteq batch
    <2>1. solution # "full"
      BY DEF BatchInv
    <2>2. QED
      BY Zenon, <2>1 DEF Accept
  <1>7. \A f \in batch' : "rdhup" \in f.events => fdbuffermap'[f.fd] = fdbuffermap[f.fd]
    <2>1. ASSUME NEW f \in batch', "rdhup" \in f.events
          PROVE  f.fd \in FD /\ f.fd # realfd
      BY Zenon, <1>5, <1>6, <2>1 DEF BatchInv
    <2>2. QED
      BY Zenon, <1>5, <2>1 DEF EchoInv, StateInv
  <1>8. BatchInv'
    <2>1. \A t \in FD : timermap'[t] = 0
      BY Zenon, <1>6 DEF BatchInv
    <2>2. QED
      BY Zenon, <1>6, <1>7, <2>1, BatchKept
  <1>9. \A d \in Client : conn[d] = "open" => conn'[d] # "closed"
    BY <1>1 DEF EchoInv, StateInv
  <1>10. QED
    BY Zenon, <1>8, <1>9

\* An event of a socket closes the connection of the client that the event is about.
LEMMA ServeBatch ==
  ASSUME Service, EchoInv, BatchInv, NEW e \in batch, Serve(e)
  PROVE  BatchInv' /\ \A d \in Client : conn[d] = "open" /\ conn'[d] = "closed" => hung[d]
  <1>1. /\ e.fd \in FD /\ batch' = batch \ {e} /\ UNCHANGED <<solution, hung>>
    BY Zenon DEF Serve, EchoInv, StateInv
  <1>2. CASE "rdhup" \in e.events
    <2>1. Disconnect(e.fd, fdbuffermap[e.fd])
      BY Zenon, <1>2 DEF Serve
    <2>2. \A f \in batch' : "rdhup" \in f.events => f.fd \in FD /\ f.fd # e.fd
      BY Zenon, <1>1 DEF BatchInv
    <2>3. /\ \A t \in FD : timermap'[t] = 0
          /\ \A f \in FD : f # e.fd => fdbuffermap'[f] = fdbuffermap[f]
      BY Zenon, <1>1, <2>1, DisconnectKeeps
    <2>4. BatchInv'
      BY Zenon, <1>1, <2>2, <2>3, BatchKept
    <2>5. conn' = [conn EXCEPT ![fdbuffermap[e.fd]] = "closed"]
      BY Zenon, <2>1 DEF Disconnect
    <2>6. \A d \in Client : conn'[d] = conn[d] \/ d = fdbuffermap[e.fd]
      BY Zenon, <2>5 DEF EchoInv, StateInv
    <2>7. hung[fdbuffermap[e.fd]]
      BY Zenon, <1>2 DEF BatchInv
    <2>8. \A d \in Client : conn[d] = "open" /\ conn'[d] = "closed" => hung[d]
      <3>1. "open" # "closed"
        OBVIOUS
      <3>2. QED
        BY Zenon, <2>6, <2>7, <3>1
    <2>9. QED
      BY Zenon, <2>4, <2>8
  <1>3. CASE "rdhup" \notin e.events
    <2>1. UNCHANGED <<conn, fdbuffermap, timermap>>
      BY Zenon, <1>3 DEF Serve, ReadWrite
    <2>2. \A t \in FD : timermap'[t] = 0
      BY Zenon, <2>1 DEF BatchInv
    <2>3. BatchInv'
      BY Zenon, <1>1, <2>1, <2>2, BatchKept
    <2>4. QED
      BY <2>1, <2>3
  <1>4. QED
    BY Zenon, <1>2, <1>3

\* Every step of the write server keeps the batch, and closes for cause only.
LEMMA NextBatch ==
  ASSUME Service, EchoInv, BatchInv, [EchoNext]_echovars
  PROVE  /\ BatchInv'
         /\ \A c \in Client : conn[c] = "open" /\ conn'[c] = "closed" => hung[c]
  <1>1. CASE UNCHANGED echovars
    <2>1. UNCHANGED <<solution, conn, hung, fdbuffermap, timermap, batch>>
      BY Zenon, <1>1 DEF echovars
    <2>2. BatchInv'
      BY Zenon, <2>1 DEF BatchInv, FD
    <2>3. QED
      BY <2>1, <2>2
  <1>2. CASE epoll_wait
    <2>1. conn' = conn
      BY Zenon, <1>2 DEF epoll_wait
    <2>2. QED
      BY <1>2, <2>1, WaitBatch
  <1>3. ASSUME NEW e \in batch, Timeout(e)
        PROVE  FALSE
    BY Zenon, <1>3 DEF Timeout, EchoInv, StateInv, BatchInv
  <1>4. QED
    BY Zenon, <1>1, <1>2, <1>3, ClientBatch, AcceptBatch, ServeBatch DEF EchoNext, Serving

\* The write server, which has no timers, disconnects only clients that have hung up: that a
\* descriptor is closed and used again within a batch never makes an event reach another
\* client, as it can in the full server.
THEOREM WriteClosesOnHangUp ==
  ASSUME Service, Solutions = {"write"}
  PROVE  EchoInit /\ [][EchoNext]_echovars => ClosedOnHangUp
  <1>1. EchoInit => BatchInv
    BY Zenon DEF EchoInit, BatchInv
  <1>2. EchoInv /\ BatchInv /\ [EchoNext]_echovars => BatchInv'
    BY Zenon, NextBatch
  <1>3. EchoInv /\ BatchInv /\ [EchoNext]_echovars =>
          [\A c \in Client : conn[c] = "open" /\ conn'[c] = "closed" => hung[c]]_echovars
    BY Zenon, NextBatch
  <1>4. QED
    BY <1>1, <1>2, <1>3, InitEcho, NextEcho, PTL DEF ClosedOnHangUp

=============================================================================
