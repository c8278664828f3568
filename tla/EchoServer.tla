----------------------------- MODULE EchoServer -----------------------------
(***************************************************************************)
(* The single-threaded echo servers that handle asynchronous writes:       *)
(* src/exercises/server_design/epoll_echo_server, solution_write.cc, and   *)
(* solution_full.cc, which also disconnects a silent client after ten      *)
(* seconds.  Each connection has a CircularPipe between what is read from  *)
(* it and what is written back to it.                                      *)
(*                                                                         *)
(* epoll_wait reports a batch of events, and the for loop of main handles  *)
(* them one by one, in any order, while the clients and the timers go on.  *)
(* Descriptors are numbers that the kernel gives out again, lowest first.  *)
(*                                                                         *)
(* The bytes that a client sends are numbered.  A client reads what comes  *)
(* back when it likes, or never; it may end its side, or reset the         *)
(* connection.  The number of events never exceeds maxevents.              *)
(***************************************************************************)
EXTENDS Naturals, Sequences, FiniteSets, Ring

CONSTANTS
  Client,      \* the clients; each connects at most once
  Solutions,   \* the servers: a subset of {"write", "full"}
  BufSize,     \* bufsize: the size of a CircularPipe
  SockSize,    \* how many bytes the socket takes that its client has not read; it is at
               \* least what a CircularPipe holds
  MaxBytes,    \* bound: how many bytes the clients send, all together
  Nobody       \* no client

VARIABLES
  solution,     \* the server that runs: solution_write.cc or solution_full.cc
  conn,         \* what a client's connection is: "new", "queued", "open" or "closed"
  typed,        \* the number of bytes the client has sent
  unread,       \* how many of them are still in the socket
  hung,         \* has the client closed its side ?
  reset,        \* has the client reset the connection ?
  expired,      \* has the timer of the connection expired ?
  pipe,         \* the CircularPipe of the connection
  interest,     \* the events the socket is registered for
  echoed,       \* the bytes written back
  wire,         \* how many of them the client has not read yet
  fdbuffermap,  \* for a descriptor, the connection whose socket it is
  timermap,     \* for a descriptor, the socket descriptor whose timer it is, or 0
  batch,        \* the events of the last epoll_wait that are still to be handled
  ended         \* has a failed call ended the server ?

echovars == <<solution, conn, typed, unread, hung, reset, expired, pipe, interest, echoed,
              wire, fdbuffermap, timermap, batch, ended>>

FD == 1 .. 2 * Cardinality(Client)
sockfd == 0   \* the listening socket

\* A new CircularPipe.
CircularPipe == [read |-> 0, write |-> 0, mem |-> [i \in 0 .. BufSize - 1 |-> 0]]

EchoInit ==
  /\ solution \in Solutions
  /\ conn = [c \in Client |-> "new"]
  /\ typed = [c \in Client |-> 0] /\ unread = [c \in Client |-> 0]
  /\ hung = [c \in Client |-> FALSE] /\ reset = [c \in Client |-> FALSE]
  /\ expired = [c \in Client |-> FALSE] /\ wire = [c \in Client |-> 0]
  /\ pipe = [c \in Client |-> CircularPipe]
  /\ interest = [c \in Client |-> {}]
  /\ echoed = [c \in Client |-> <<>>]
  /\ fdbuffermap = [fd \in FD |-> Nobody] /\ timermap = [fd \in FD |-> 0]
  /\ batch = {} /\ ended = FALSE

server == <<solution, pipe, interest, echoed, fdbuffermap, timermap, batch, ended>>

(***************************************************************************)
(* The clients, and time.                                                  *)
(***************************************************************************)

Connect(c) ==
  /\ conn[c] = "new"
  /\ conn' = [conn EXCEPT ![c] = "queued"]
  /\ UNCHANGED <<typed, unread, hung, reset, expired, wire>> /\ UNCHANGED server

Connected(c) == conn[c] \in {"queued", "open"} /\ ~hung[c]

Send(c) ==
  /\ Connected(c)
  /\ Cardinality({byte \in Client \X (1 .. MaxBytes) : byte[2] <= typed[byte[1]]}) < MaxBytes
  /\ typed' = [typed EXCEPT ![c] = @ + 1]
  /\ unread' = [unread EXCEPT ![c] = @ + 1]
  /\ UNCHANGED <<conn, hung, reset, expired, wire>> /\ UNCHANGED server

Receive(c) ==
  /\ Connected(c) /\ wire[c] > 0
  /\ wire' = [wire EXCEPT ![c] = @ - 1]
  /\ UNCHANGED <<conn, typed, unread, hung, reset, expired>> /\ UNCHANGED server

HangUp(c) ==
  /\ Connected(c)
  /\ hung' = [hung EXCEPT ![c] = TRUE]
  /\ UNCHANGED <<conn, typed, unread, reset, expired, wire>> /\ UNCHANGED server

\* The other side learns of a reset by EPOLLRDHUP, too.  A client that has hung up still
\* resets the connection, when it gets bytes it does not want.
Reset(c) ==
  /\ conn[c] \in {"queued", "open"} /\ ~reset[c]
  /\ hung' = [hung EXCEPT ![c] = TRUE]
  /\ reset' = [reset EXCEPT ![c] = TRUE]
  /\ UNCHANGED <<conn, typed, unread, expired, wire>> /\ UNCHANGED server

Expire(c) ==
  /\ solution = "full" /\ conn[c] = "open" /\ ~expired[c]
  /\ expired' = [expired EXCEPT ![c] = TRUE]
  /\ UNCHANGED <<conn, typed, unread, hung, reset, wire>> /\ UNCHANGED server

(***************************************************************************)
(* The server.                                                             *)
(***************************************************************************)

FdFree(fd) == fdbuffermap[fd] = Nobody /\ timermap[fd] = 0
Lowest(set) == CHOOSE fd \in set : \A other \in set : fd <= other

\* Does epoll call the socket writable ?  A write to a reset connection does not wait.
Writable(c) == wire[c] < SockSize \/ reset[c]

\* What epoll reports of a descriptor.
Events(fd) ==
  CASE fd = sockfd -> {"in" : c \in {c \in Client : conn[c] = "queued"}}
    [] fd # sockfd /\ fdbuffermap[fd] # Nobody ->
         LET c == fdbuffermap[fd]
         IN (interest[c] \cap ((IF Writable(c) THEN {"out"} ELSE {})
                                \cup IF unread[c] > 0 \/ hung[c] THEN {"in"} ELSE {}))
            \cup IF hung[c] THEN {"rdhup"} ELSE {}
    [] fd # sockfd /\ timermap[fd] # 0 ->
         IF expired[fdbuffermap[timermap[fd]]] THEN {"in"} ELSE {}
    [] OTHER -> {}

\* epoll_wait returns what is ready.
epoll_wait ==
  /\ batch = {}
  /\ batch' = {[fd |-> fd, events |-> Events(fd)] : fd \in {fd \in FD \cup {sockfd} : Events(fd) # {}}}
  /\ batch' # {}
  /\ UNCHANGED <<solution, conn, typed, unread, hung, reset, expired, pipe, interest, echoed, wire,
                 fdbuffermap, timermap, ended>>

\* Mutant of register_fd: writing is not waited for.
OnlyIn(p) == IF room(BufSize, p.read, p.write) > 0 THEN {"in"} ELSE {}

\* The events that register_fd asks for, next to EPOLLRDHUP.
register_fd(p) ==
  (IF data(BufSize, p.read, p.write) > 0 THEN {"out"} ELSE {})
  \cup IF room(BufSize, p.read, p.write) > 0 THEN {"in"} ELSE {}

\* A connection: a CircularPipe, and in solution_full.cc a timer.
Accept(e) ==
  /\ e.fd = sockfd
  /\ \E c \in Client :
       /\ conn[c] = "queued"
       /\ conn' = [conn EXCEPT ![c] = "open"]
       /\ interest' = [interest EXCEPT ![c] = register_fd(pipe[c])]
       /\ LET free    == {fd \in FD : FdFree(fd)}
              realfd  == Lowest(free)
              timerfd == Lowest(free \ {realfd})
          IN /\ fdbuffermap' = [fdbuffermap EXCEPT ![realfd] = c]
             /\ timermap' = IF solution = "full" THEN [timermap EXCEPT ![timerfd] = realfd] ELSE timermap
  /\ batch' = batch \ {e}
  /\ UNCHANGED <<solution, typed, unread, hung, reset, expired, pipe, echoed, wire, ended>>

\* CircularPipe::push, of n bytes that follow the first ones.
push(p, n, first) ==
  [p EXCEPT !.write = (@ + n) % BufSize,
            !.mem = [i \in DOMAIN @ |-> IF i \in p.write .. p.write + n - 1
                                        THEN first + (i - p.write) + 1 ELSE @[i]]]

\* CircularPipe::pull, of n bytes.
pull(p, n) == [p EXCEPT !.read = (@ + n) % BufSize]
Pulled(p, n) == [i \in 1 .. n |-> p.mem[p.read + i - 1]]

\* Both descriptors of a connection are closed and forgotten, and its pipe deleted.  What
\* is on its way to the client does not concern the server any more.
Disconnect(fd, c) ==
  /\ conn' = [conn EXCEPT ![c] = "closed"]
  /\ fdbuffermap' = [fdbuffermap EXCEPT ![fd] = Nobody]
  /\ timermap' = [t \in FD |-> IF timermap[t] = fd THEN 0 ELSE timermap[t]]
  /\ pipe' = [pipe EXCEPT ![c] = CircularPipe]
  /\ interest' = [interest EXCEPT ![c] = {}]
  /\ unread' = [unread EXCEPT ![c] = 0]
  /\ wire' = [wire EXCEPT ![c] = 0]
  /\ expired' = [expired EXCEPT ![c] = FALSE]

\* A read and a write: n bytes from the socket, len bytes back to it.  The timer is
\* set again after a read, and the socket is registered again after either.
ReadWrite(c, reads, writes, n, filled, len) ==
  /\ pipe' = [pipe EXCEPT ![c] = pull(filled, len)]
  /\ interest' = IF reads \/ writes
                 THEN [interest EXCEPT ![c] = register_fd(pull(filled, len))]
                 ELSE interest
  /\ unread' = [unread EXCEPT ![c] = @ - n]
  /\ wire' = [wire EXCEPT ![c] = @ + len]
  /\ expired' = IF reads THEN [expired EXCEPT ![c] = FALSE] ELSE expired
  /\ UNCHANGED <<conn, fdbuffermap, timermap>>

\* read(2) and write(2) fail on a connection that was reset, a read only when everything
\* that came before has been read; the sockets of solution_write.cc do not block, and
\* fail instead of waiting.
ReadFails(c) == unread[c] = 0 /\ (reset[c] \/ (solution = "write" /\ ~hung[c]))
WriteFails(c) == reset[c] \/ (solution = "write" /\ wire[c] = SockSize)

\* CHECK_NOT_M1 ends the server when a read or a write fails.
CallFails(e) ==
  /\ e.fd # sockfd /\ fdbuffermap[e.fd] # Nobody
  /\ \/ "in" \in e.events /\ ReadFails(fdbuffermap[e.fd])
     \/ "out" \in e.events /\ WriteFails(fdbuffermap[e.fd])
  /\ ended' = TRUE
  /\ UNCHANGED <<solution, conn, typed, unread, hung, reset, expired, pipe, interest, echoed, wire,
                 fdbuffermap, timermap, batch>>

\* How many of at most most bytes a write takes: what fits, or all of them when it blocks.
\* A write that blocks puts its bytes in the socket when it can put the last one there.
Written(c, most) ==
  {len \in 0 .. most : /\ most > 0 => len > 0
                       /\ wire[c] + len <= SockSize
                       /\ solution = "full" => len = most}

\* An event of a socket: read, write and disconnect, each if it was reported.  The
\* sockets of solution_full.cc block: a read waits for a byte or for the end.
Serve(e) ==
  /\ e.fd # sockfd
  /\ LET c == fdbuffermap[e.fd]
         reads == "in" \in e.events
         writes == "out" \in e.events
         n == IF reads THEN Least(pushCount(BufSize, pipe[c].read, pipe[c].write), unread[c]) ELSE 0
         filled == push(pipe[c], n, typed[c] - unread[c])
         most == IF writes THEN pullCount(BufSize, filled.read, filled.write) ELSE 0
     IN /\ c # Nobody
        /\ reads => ~ReadFails(c) /\ (unread[c] > 0 \/ hung[c])
        /\ writes => ~WriteFails(c)
        /\ \E len \in Written(c, most) :
             /\ echoed' = [echoed EXCEPT ![c] = @ \o Pulled(filled, len)]
             /\ IF "rdhup" \in e.events THEN Disconnect(e.fd, c)
                ELSE ReadWrite(c, reads, writes, n, filled, len)
  /\ batch' = batch \ {e}
  /\ UNCHANGED <<solution, typed, hung, reset, ended>>

\* An event of a timer: disconnect.
Timeout(e) ==
  /\ e.fd # sockfd /\ fdbuffermap[e.fd] = Nobody /\ timermap[e.fd] # 0
  /\ Disconnect(timermap[e.fd], fdbuffermap[timermap[e.fd]])
  /\ batch' = batch \ {e}
  /\ UNCHANGED <<solution, typed, hung, reset, echoed, ended>>

\* An event of a descriptor that is in neither map any more.
Ignore(e) ==
  /\ e.fd # sockfd /\ FdFree(e.fd)
  /\ batch' = batch \ {e}
  /\ UNCHANGED <<solution, conn, typed, unread, hung, reset, expired, pipe, interest, echoed,
                 wire, fdbuffermap, timermap, ended>>

Serving ==
  /\ ~ended
  /\ \/ epoll_wait
     \/ \E e \in batch : Accept(e) \/ Serve(e) \/ CallFails(e) \/ Timeout(e) \/ Ignore(e)

\* What the clients do once the server is gone is of no interest.
Visiting(c) ==
  /\ ~ended
  /\ Connect(c) \/ Send(c) \/ Receive(c) \/ HangUp(c) \/ Reset(c) \/ Expire(c)

EchoNext == Serving \/ \E c \in Client : Visiting(c)

EchoSpec == EchoInit /\ [][EchoNext]_echovars /\ WF_echovars(Serving)

(***************************************************************************)
(* Properties.                                                             *)
(***************************************************************************)

\* The type of the state.
EchoType ==
  /\ conn \in [Client -> {"new", "queued", "open", "closed"}]
  /\ interest \in [Client -> SUBSET {"in", "out"}]
  /\ fdbuffermap \in [FD -> Client \cup {Nobody}]
  /\ timermap \in [FD -> FD \cup {0}]
  /\ wire \in [Client -> 0 .. SockSize]
  /\ \A c \in Client : pipe[c].read < BufSize /\ pipe[c].write < BufSize

\* Each client gets back its own bytes in the order in which it sent them, whatever
\* the sizes of the reads and writes, the wrapping of the pipe, and the descriptors
\* that are reused; and while the connection is open every byte that has not come
\* back is in the pipe or in the socket.
EchoedInOrder == \A c \in Client :
  /\ echoed[c] = [i \in 1 .. Len(echoed[c]) |-> i]
  /\ conn[c] # "closed" =>
       typed[c] = Len(echoed[c]) + data(BufSize, pipe[c].read, pipe[c].write) + unread[c]

\* The server does not wait while there is work: when a byte of an open connection has not
\* come back, epoll reports the socket, to read from or to write to, unless the next byte
\* is in the pipe and the socket is full of bytes that the client has not read.  A
\* CircularPipe of one place holds nothing.
WorkReported == BufSize > 1 => \A c \in Client :
  conn[c] = "open" /\ Len(echoed[c]) < typed[c] =>
    \/ \E fd \in FD : fdbuffermap[fd] = c /\ Events(fd) \cap {"in", "out"} # {}
    \/ wire[c] = SockSize /\ data(BufSize, pipe[c].read, pipe[c].write) > 0

\* "do not assume that you can echo back whatever the user send you without blocking"
\* (exercise.md): the write server never gets stuck on a full pipe, on a full socket or
\* on a client that does not read, and never ends because a call would have had to wait.
\* It echoes everything to a client that stays and goes on reading, until some client
\* resets its connection.
EchoedAll == \A c \in Client :
  []<>(wire[c] < SockSize) =>
    (solution = "write" /\ Len(echoed[c]) < typed[c]
       ~> Len(echoed[c]) = typed[c] \/ hung[c] \/ \E d \in Client : reset[d])

\* The full server disconnects a client only if the client hung up or, at that very
\* moment, its timer has expired: what the exercise asks for is to disconnect one that
\* has not sent anything for N seconds.
ClosedForCause ==
  [][\A c \in Client : conn[c] = "open" /\ conn'[c] = "closed" => hung[c] \/ expired[c]]_echovars

\* A server without timers disconnects only clients that have hung up, although a descriptor
\* may be closed and given to another client while events of the batch are still to come.
ClosedOnHangUp ==
  [][\A c \in Client : conn[c] = "open" /\ conn'[c] = "closed" => hung[c]]_echovars

=============================================================================
