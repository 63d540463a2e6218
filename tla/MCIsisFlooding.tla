--------------------------- MODULE MCIsisFlooding ---------------------------
(* Topologies for the model checking of IsisFlooding. *)
EXTENDS IsisFlooding, TLC

CONSTANTS r1, r2, r3

Both(S) == S \cup {<<i[2], i[1]>> : i \in S}
PairIntfs == Both({<<r1, r2>>})
LineIntfs == Both({<<r1, r2>>, <<r2, r3>>})

PairSymmetry == Permutations({r1, r2})
=============================================================================
