--------------------------- MODULE MCRMVByMapped ---------------------------
(* Small instances of RMVByMapped for TLC. *)
EXTENDS RMVByMappedRefinement, TLC

CONSTANTS w1, w2, v1, v2, v3, n1, n2

OneWorker   == {w1}
OneNative   == {n1}
TwoWorkers  == {w1, w2}
TwoValues   == {v1, v2}
ThreeValues == {v1, v2, v3}
TwoNatives  == {n1, n2}

NoHazard     == {}
OverlapOnly  == {"overlap"}
ReuseOnly    == {"reuse"}
SpuriousOnly == {"spurious"}
OverlapReuse == {"overlap", "reuse"}

\* Threads, addresses and native objects are interchangeable; used in runs
\* without liveness properties only.
Symmetry == Permutations(Workers) \cup Permutations(Values) \cup Permutations(Natives)
=============================================================================
