---------------------------- MODULE MappingTable ----------------------------
(***************************************************************************)
(* What the rest of Lorica relies on RMVByMapped for, with every operation *)
(* atomic: an index is reserved for one mapping at a time, a native        *)
(* reference is entered under it, and it can be reserved again only after  *)
(* the mapping has been dropped.                                           *)
(***************************************************************************)
CONSTANTS Index, Natives, NoNative

VARIABLES
    used,   \* the indices that are reserved
    map     \* the native reference entered under each index

Init ==
    /\ used = {}
    /\ map = [i \in Index |-> NoNative]

\* next_index
Reserve(i) ==
    /\ i \notin used
    /\ used' = used \cup {i}
    /\ UNCHANGED map

\* bind
Enter(i, n) ==
    /\ i \in used
    /\ map[i] = NoNative
    /\ map' = [map EXCEPT ![i] = n]
    /\ UNCHANGED used

\* unbind, or a reaping by the garbage collector: the entry goes ...
Drop(i) ==
    /\ map[i] # NoNative
    /\ map' = [map EXCEPT ![i] = NoNative]
    /\ UNCHANGED used

\* ... and then the index is on the free stack.
Return(i) ==
    /\ i \in used
    /\ map[i] = NoNative
    /\ used' = used \ {i}
    /\ UNCHANGED map

\* ~RMVByMapped
Close ==
    /\ used' = {}
    /\ map' = [i \in Index |-> NoNative]

Next ==
    \/ \E i \in Index : Reserve(i) \/ Drop(i) \/ Return(i)
    \/ \E i \in Index, n \in Natives : Enter(i, n)
    \/ Close

Spec == Init /\ [][Next]_<<used, map>>
=============================================================================
