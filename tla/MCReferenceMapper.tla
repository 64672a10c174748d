------------------------- MODULE MCReferenceMapper -------------------------
(* ReferenceMapper on small instances. *)
EXTENDS ReferenceMapper, TLC

CONSTANTS t1, t2, n1, n2, v1, v2, v3, a, b

OneThread  == {t1}
TwoThreads == {t1, t2}
OneNative  == {n1}
TwoNatives == {n1, n2}
OneName    == {a}
TwoNames   == {a, b}
TwoValues   == {v1, v2}
ThreeValues == {v1, v2, v3}

NoHazard   == {}
ShareOnly  == {"share"}
ReapOnly   == {"reap"}
AllHazards == {"share", "stale", "reap"}

Symmetry == Permutations(Threads) \cup Permutations(Natives) \cup Permutations(Names)
              \cup Permutations(Values)
=============================================================================
