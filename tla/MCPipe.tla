------------------------------- MODULE MCPipe -------------------------------
(* Constants for the runs of Pipe.                                         *)
EXTENDS Pipe, TLC

CONSTANTS p1, p2, p3

\* p1 opens the device for both; p2 and p3 only read or only write.
MixedModes ==
  [p \in Proc |-> IF p = p1 THEN {{"R", "W"}} ELSE {{"R"}, {"W"}}]

\* p1 reads and p2 writes.
OneReaderOneWriter == [p \in Proc |-> IF p = p1 THEN {{"R"}} ELSE {{"W"}}]

\* p1 and p2 read and p3 writes.
TwoReadersOneWriter == [p \in Proc |-> IF p = p3 THEN {{"W"}} ELSE {{"R"}}]

\* p2 and p3 are alike.
OthersSymmetry == Permutations(Proc \ {p1})

=============================================================================
