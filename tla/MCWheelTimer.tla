---------------------------- MODULE MCWheelTimer ----------------------------
(* Instances of WheelTimer for TLC. *)
EXTENDS WheelTimer, TLC

Symmetry == Permutations(Elems)

\* The clock runs for one cycle more when it does not overlap with calls.
CycleBound == [o \in BOOLEAN |-> IF o THEN 1 ELSE 2]
AssertBound == [o \in {TRUE} |-> 1]
=============================================================================
