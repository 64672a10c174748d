------------------------- MODULE MCProxyInvocation -------------------------
(* ProxyInvocation on a small repository: an interface D with two bases, one *)
(* derived from D, F, and one, E, that happens to have an operation of the   *)
(* same name as A.                                                           *)
EXTENDS ProxyInvocation

CONSTANTS t1, t2

ASSUME Repository == ImplicitReserved /\ Unambiguous

OneThread  == {t1}
TwoThreads == {t1, t2}

SomeInterfaces == {"A", "B", "D", "E", "F"}
SomeOwn ==
    [i \in SomeInterfaces |-> CASE i \in {"A", "E"} -> <<"f">> [] i = "B" -> <<"g">> [] OTHER -> <<>>]
SomeBases ==
    [i \in SomeInterfaces |-> CASE i = "D" -> <<"A", "B">> [] i = "F" -> <<"D">> [] OTHER -> <<>>]

\* "_is_a" < "_non_existent" < "f" < "g"
Sorted      == <<"_is_a", "_non_existent", "f", "g">>
SomeGreater == {<<Sorted[p[1]], Sorted[p[2]]>> : p \in {q \in (1 .. 4) \X (1 .. 4) : q[1] > q[2]}}

\* A library that returns the difference of the characters, which is 1 for f and g only.
SomeOnes == {{<<"g", "f">>}}

\* E's f is oneway, and a client may wait for it.
SomeOneways == {<<"E", "f">>}

Request(op, type, poa, mode) == [op |-> op, type |-> type, poa |-> poa, mode |-> mode]

\* F inherits g over two levels.
Several == <<Request("g", "D", "in", "twoway"), Request("f", "E", "out", "twoway"),
             Request("g", "F", "out", "sync"), Request("_get_interface", "D", "out", "oneway")>>
Two     == <<Request("f", "A", "in", "twoway"), Request("g", "B", "in", "twoway")>>
=============================================================================
