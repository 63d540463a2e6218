------------------------- MODULE MCEventDispatcher -------------------------
(* Instances of EventDispatcher for TLC. *)
EXTENDS EventDispatcher, TLC

\* Job objects are interchangeable, and so are CLI threads and timer threads.
Symmetry == Permutations(Jobs) \cup Permutations(Clis) \cup Permutations(Timers)
============================================================================
