----------------------------- MODULE SimplePipe -----------------------------
(***************************************************************************)
(* The ring buffer driver src/kernel_standalone/simple_pipe: a device that *)
(* is read and written without ever sleeping, and without a lock.  Calls   *)
(* of several users may therefore overlap, and a call is modelled in the   *)
(* steps between which another call can see or change the positions.       *)
(*                                                                         *)
(* A call copies one or two pieces.  Copying from or to user space may     *)
(* fail at either piece, and then the call returns at once: the pieces     *)
(* already copied stay copied.                                             *)
(*                                                                         *)
(* The items written are numbered in the order in which the position moves *)
(* over them.  Loading the two positions and adding to one of them are     *)
(* single steps: to split them further would add behaviours only where     *)
(* calls overlap.                                                          *)
(***************************************************************************)
EXTENDS Integers, Sequences, Ring

CONSTANTS
  Reader, Writer,   \* the users that read and write, in any calls they like
  Size,             \* pipe_size
  MaxItems          \* bound: a write begins only if it stays below this

ASSUME SizeAssumption == Size \in Nat \ {0} /\ MaxItems \in Nat

VARIABLES
  ring,       \* data of the pipe, by position
  read_pos,   \* position of the next item to read
  write_pos,  \* position of the next item to write
  accepted,   \* the number of items written so far
  delivered,  \* the items read so far
  call,       \* the call of each user: "none", "read" or "write"
  step,       \* what it does next: "split", "copy", "move" or "wrap"
  work,       \* what is left of its work_size
  piece,      \* the chunk at hand
  buf         \* the items that a read has copied and not counted yet

callvars == <<call, step, work, piece, buf>>
vars == <<ring, read_pos, write_pos, accepted, delivered, callvars>>

User == Reader \cup Writer
Place == 0 .. Size - 1

\* pipe_ctor.  The memory is not cleared: item 0 stands for whatever it holds.
Init ==
  /\ ring = [i \in Place |-> 0]
  /\ read_pos = 0 /\ write_pos = 0
  /\ accepted = 0 /\ delivered = <<>>
  /\ call = [u \in User |-> "none"] /\ step = [u \in User |-> "split"]
  /\ work = [u \in User |-> 0] /\ piece = [u \in User |-> 0]
  /\ buf = [u \in User |-> <<>>]

\* min of two values of type size_t, in which a negative difference is huge.
min(difference, count) == IF difference < 0 THEN count ELSE Least(difference, count)

\* A call that has something to do.
Begin(u, name, amount, count) ==
  /\ call[u] = "none"
  /\ amount # 0
  /\ call' = [call EXCEPT ![u] = name]
  /\ work' = [work EXCEPT ![u] = min(amount, count)]
  /\ UNCHANGED <<ring, read_pos, write_pos, accepted, delivered, step, piece, buf>>

\* pipe_write up to its work_size.  It returns 0 at once when there is no room.
pipe_write(u, count) ==
  accepted + count <= MaxItems /\ Begin(u, "write", room(Size, read_pos, write_pos), count)

\* pipe_read up to its work_size.  It returns 0 at once when there is nothing.
pipe_read(u, count) == Begin(u, "read", data(Size, read_pos, write_pos), count)

\* The position that the call of u moves.
Pos(u) == IF call[u] = "write" THEN write_pos ELSE read_pos

\* The test of the positions, which decides whether there are one or two pieces.
Split(u) ==
  /\ call[u] # "none" /\ step[u] = "split"
  /\ piece' = [piece EXCEPT ![u] =
       IF (call[u] = "write") = (read_pos <= write_pos)
       THEN min(Size - Pos(u), work[u]) ELSE work[u]]
  /\ step' = [step EXCEPT ![u] = "copy"]
  /\ UNCHANGED <<ring, read_pos, write_pos, accepted, delivered, call, work, buf>>

\* The places of a piece of n items.
Span(u, n) == Pos(u) .. Pos(u) + n - 1

\* The memory after n items from user space.
Filled(u, n) ==
  [i \in Place |-> IF i \in Span(u, n) THEN accepted + (i - write_pos) + 1 ELSE ring[i]]

\* copy_from_user or copy_to_user of one piece.
Copy(u) ==
  /\ call[u] # "none" /\ step[u] = "copy"
  /\ IF call[u] = "write"
     THEN ring' = Filled(u, piece[u]) /\ UNCHANGED buf
     ELSE /\ buf' = [buf EXCEPT ![u] =
               [i \in 1 .. piece[u] |->
                  IF read_pos + i - 1 \in Place THEN ring[read_pos + i - 1] ELSE 0]]
          /\ UNCHANGED ring
  /\ step' = [step EXCEPT ![u] = "move"]
  /\ UNCHANGED <<read_pos, write_pos, accepted, delivered, call, work, piece>>

\* The call returns.
Return(u) ==
  /\ call' = [call EXCEPT ![u] = "none"]
  /\ step' = [step EXCEPT ![u] = "split"]
  /\ work' = [work EXCEPT ![u] = 0]
  /\ piece' = [piece EXCEPT ![u] = 0]

\* The piece cannot be copied.  The places of the items that did not come are cleared.
Fault(u) ==
  /\ call[u] # "none" /\ step[u] = "copy"
  /\ IF call[u] = "write"
     THEN \E n \in 0 .. piece[u] - 1 :
            ring' = [i \in Place |-> IF i \in Span(u, piece[u]) \ Span(u, n)
                                     THEN 0 ELSE Filled(u, n)[i]]
     ELSE UNCHANGED ring
  /\ Return(u)
  /\ UNCHANGED <<read_pos, write_pos, accepted, delivered, buf>>

\* The position moves over the piece.
Move(u) ==
  /\ call[u] # "none" /\ step[u] = "move"
  /\ IF call[u] = "write"
     THEN /\ write_pos' = write_pos + piece[u] /\ accepted' = accepted + piece[u]
          /\ UNCHANGED <<read_pos, delivered, buf>>
     ELSE /\ read_pos' = read_pos + piece[u] /\ delivered' = delivered \o buf[u]
          /\ buf' = [buf EXCEPT ![u] = <<>>]
          /\ UNCHANGED <<write_pos, accepted>>
  /\ step' = [step EXCEPT ![u] = "wrap"]
  /\ UNCHANGED <<ring, call, work, piece>>

\* A position at the end of the memory goes back to the start.
AtStart(pos) == IF pos = Size THEN 0 ELSE pos

\* The call goes on to its second piece, or returns.
Continue(u) ==
  IF piece[u] < work[u]
  THEN /\ work' = [work EXCEPT ![u] = @ - piece[u]]
       /\ piece' = [piece EXCEPT ![u] = work[u] - @]
       /\ step' = [step EXCEPT ![u] = "copy"]
       /\ UNCHANGED call
  ELSE Return(u)

\* Mutant of Wrap: the position of the writer does not go back to the start.
WrapReadOnly(u) ==
  /\ call[u] # "none" /\ step[u] = "wrap"
  /\ IF call[u] = "write"
     THEN UNCHANGED <<read_pos, write_pos>>
     ELSE read_pos' = AtStart(read_pos) /\ UNCHANGED write_pos
  /\ Continue(u)
  /\ UNCHANGED <<ring, accepted, delivered, buf>>

\* The end of pipe_copy_from_user and pipe_copy_to_user.
Wrap(u) ==
  /\ call[u] # "none" /\ step[u] = "wrap"
  /\ IF call[u] = "write"
     THEN write_pos' = AtStart(write_pos) /\ UNCHANGED read_pos
     ELSE read_pos' = AtStart(read_pos) /\ UNCHANGED write_pos
  /\ Continue(u)
  /\ UNCHANGED <<ring, accepted, delivered, buf>>

Next ==
  \/ \E u \in Writer, count \in 1 .. Size : pipe_write(u, count)
  \/ \E u \in Reader, count \in 1 .. Size : pipe_read(u, count)
  \/ \E u \in User : Split(u) \/ Copy(u) \/ Fault(u) \/ Move(u) \/ Wrap(u)

Spec == Init /\ [][Next]_vars

\* The users see to it that their calls do not overlap, which the driver does not.
Alone == \A u, v \in User : call[u] # "none" /\ call[v] # "none" => u = v

(***************************************************************************)
(* Properties.                                                             *)
(***************************************************************************)

\* The type of the state, as long as calls do not overlap.
Type ==
  /\ ring \in [Place -> Nat]
  /\ read_pos \in 0 .. Size /\ write_pos \in 0 .. Size
  /\ accepted \in Nat
  /\ delivered \in Seq(Nat)
  /\ call \in [User -> {"none", "read", "write"}]
  /\ step \in [User -> {"split", "copy", "move", "wrap"}]
  /\ work \in [User -> Nat] /\ piece \in [User -> Nat]
  /\ buf \in [User -> Seq(Nat)]

\* The items in the ring, oldest first.
Content == [i \in 1 .. data(Size, read_pos, write_pos) |-> ring[(read_pos + i - 1) % Size]]

Channel == INSTANCE BoundedChannel
  WITH Capacity <- Size - 1, chan <- Content, sent <- accepted, out <- delivered

\* When calls do not overlap the driver is a first-in first-out channel of
\* pipe_size - 1 items, through the wrapping of both positions, through calls of two
\* pieces, and through calls that fail between their pieces: the comment on pipe_room
\* says why one place stays free.
RingIsChannel == Channel!Spec

\* "we protect the pipe here using a spinlock" (simple_pipe/main.c): whichever calls
\* overlap, what is read is what was written, in order and once.
ReadAsWritten == \A i \in DOMAIN delivered : delivered[i] = i

=============================================================================
