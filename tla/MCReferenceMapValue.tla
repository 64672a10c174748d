------------------------ MODULE MCReferenceMapValue ------------------------
(* ReferenceMapValue on small instances. *)
EXTENDS ReferenceMapValue, TLC

CONSTANTS w1, w2, v1, v2

OneWorker  == {w1}
TwoWorkers == {w1, w2}
OneValue   == {v1}
TwoValues  == {v1, v2}

Symmetry == Permutations(Values)
=============================================================================
