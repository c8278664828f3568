--------------------------- MODULE BoundedChannel ---------------------------
(***************************************************************************)
(* What a pipe or a queue promises, whatever it is made of: a first-in     *)
(* first-out channel that never holds more than Capacity items.  Items are *)
(* numbered in the order in which they are accepted.                       *)
(***************************************************************************)
EXTENDS Integers, Sequences

CONSTANT Capacity   \* the number of items the channel can hold

VARIABLES
  chan,   \* the items in the channel, oldest first
  sent,   \* the number of items accepted so far
  out     \* the items delivered so far

vars == <<chan, sent, out>>

Init == chan = <<>> /\ sent = 0 /\ out = <<>>

\* A producer puts k items in, if they fit.
Accept(k) ==
  /\ Len(chan) + k <= Capacity
  /\ chan' = chan \o [i \in 1 .. k |-> sent + i]
  /\ sent' = sent + k
  /\ UNCHANGED out

\* A consumer takes the k oldest items out.
Deliver(k) ==
  /\ k <= Len(chan)
  /\ out' = out \o SubSeq(chan, 1, k)
  /\ chan' = SubSeq(chan, k + 1, Len(chan))
  /\ UNCHANGED sent

Next == \E k \in 1 .. Capacity : Accept(k) \/ Deliver(k)

Spec == Init /\ [][Next]_vars

=============================================================================
