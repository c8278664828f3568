-------------------------------- MODULE Ring --------------------------------
(***************************************************************************)
(* The arithmetic of the ring buffers: the class CircularPipe of           *)
(* src/include, and the pipe of src/kernel_standalone/simple_pipe, which   *)
(* compute the same amounts from the position of the next item to read and *)
(* the position of the next item to write, both below the size.  A full    *)
(* ring keeps one place free.                                              *)
(***************************************************************************)
EXTENDS Integers

\* The number of items in the ring.
data(size, read, write) ==
  IF read <= write THEN write - read ELSE size - read + write

\* Mutant of room: all places used, so that a full ring looks empty.
FullRoom(size, read, write) ==
  IF read <= write THEN size - write + read ELSE read - write - 1

\* The number of items that still fit.
room(size, read, write) ==
  IF read <= write THEN size - write + read - 1 ELSE read - write - 1

\* Mutant of pushCount: fills the last place when the reading position is at the start.
PushCountFull(size, read, write) ==
  IF read <= write THEN size - write ELSE read - write - 1

\* The number of items in one piece that push asks read(2) for.
pushCount(size, read, write) ==
  IF read <= write THEN IF read = 0 THEN size - write - 1 ELSE size - write
  ELSE read - write - 1

\* The number of items in one piece that pull offers write(2).
pullCount(size, read, write) ==
  IF read <= write THEN write - read ELSE size - read

\* The smaller of two amounts.
Least(a, b) == IF a <= b THEN a ELSE b

=============================================================================
