-------------------------- MODULE MCServiceLoader --------------------------
(* ServiceLoader on small instances. *)
EXTENDS ServiceLoader

CONSTANTS p1, p2, i1, i2, i3

TwoProcs    == {p1, p2}
ThreeInodes == {i1, i2, i3}

FailsOnly   == {"fail"}
OverlapOnly == {"overlap"}
AllHazards  == {"overlap", "crash", "fail"}
=============================================================================
