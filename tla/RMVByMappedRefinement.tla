----------------------- MODULE RMVByMappedRefinement -----------------------
(* RMVByMapped implements MappingTable.                                    *)
EXTENDS RMVByMapped

\* An index is reserved from the moment next_index has returned it until it is
\* on the free stack.
Reserved == IF dtor = "done" THEN {} ELSE (0 .. (high - 1)) \ OnStack

Entered == [i \in Index |-> IF slot[i] = Null THEN Null ELSE orig[slot[i]]]

Table == INSTANCE MappingTable WITH used <- Reserved, map <- Entered, NoNative <- Null

\* Every step of the ORB threads, of the GC and of the destructor is a step of
\* the atomic table or leaves it alone: next_index hands out unreserved indices
\* only, bind enters under a reserved index, and an index returns to the free
\* stack only after its entry is gone.
ImplementsTable == Table!Spec
=============================================================================
