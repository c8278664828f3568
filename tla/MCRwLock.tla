------------------------------ MODULE MCRwLock ------------------------------
(* Constants for the run of RwLock.                                        *)
EXTENDS RwLock

CONSTANTS r1, r2, w1, w2

AllVariants == {"solution", "solution2", "solution3"}

=============================================================================
