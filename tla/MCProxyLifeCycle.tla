-------------------------- MODULE MCProxyLifeCycle --------------------------
(* ProxyLifeCycle on a small instance. *)
EXTENDS ProxyLifeCycle, TLC

CONSTANTS t1, t2, s1, s2

TwoThreads == {t1, t2}
TwoStops   == {s1, s2}
AllModes   == {"unix", "service", "standalone"}
=============================================================================
