---------------------- MODULE ReferenceMapValue_proofs ----------------------
(***************************************************************************)
(* With one ORB thread (Proxy_Threads 1, the default) next to the          *)
(* collector, the unsynchronised count never deletes a value in use: the   *)
(* only two updates that can overlap are decrements, and losing one of     *)
(* those leaves the count too high.                                        *)
(***************************************************************************)
EXTENDS ReferenceMapValue, TLAPS

One(b) == IF b THEN 1 ELSE 0

Shape ==
    /\ count \in [Values -> Int]
    /\ life \in [Values -> {"unborn", "live", "deleted"}]
    /\ bound \in [Values -> BOOLEAN]
    /\ lock \in Threads \cup {Null}
    /\ pc \in [Threads -> {"out", "new", "bind", "find", "held", "drop"}]
    /\ cur \in [Threads -> Values \cup {Null}]
    /\ reg \in [Threads -> Int]

\* Who has the lock is in the middle of an update made under it.
Locking(w) ==
    /\ lock = w <=> pc[w] \in {"bind", "find"}
    /\ lock = GC <=> pc[GC] = "drop"
    /\ pc[GC] \in {"out", "drop"}

\* A thread has a value unless it is out; a new value is nobody else's.
Having(w) ==
    /\ \A t \in {w, GC} : cur[t] = Null <=> pc[t] = "out"
    /\ pc[w] \in {"new", "bind"} => ~bound[cur[w]] /\ cur[GC] # cur[w]
    /\ pc[w] = "find" => bound[cur[w]]
    /\ \A v \in Values : life[v] = "unborn" => ~bound[v] /\ cur[w] # v /\ cur[GC] # v

\* What has been loaded is what is stored, or one more when the other thread's
\* decrement came in between; then the value has left the table.
Loaded(w) ==
    /\ pc[w] \in {"bind", "find"} => reg[w] = count[cur[w]]
    /\ pc[w] = "drop" => reg[w] >= count[cur[w]]
    /\ pc[w] = "drop" /\ reg[w] # count[cur[w]] => ~bound[cur[w]]
    /\ pc[GC] = "drop" => reg[GC] >= count[cur[GC]] /\ ~bound[cur[GC]]
    /\ pc[GC] = "drop" /\ cur[w] = cur[GC] =>
         reg[GC] = count[cur[w]] /\ (pc[w] = "drop" => reg[w] = count[cur[w]])

\* The count never falls below the number of those who have the value; a find
\* has it once the count is stored.
Covered(w) ==
    \A v \in Values : count[v] >= One(bound[v]) + One(cur[w] = v /\ pc[w] # "find")
                                   + One(cur[GC] = v)

NoneLeft(w) ==
    \A v \in Values : life[v] = "deleted" => ~bound[v] /\ cur[w] # v /\ cur[GC] # v

Safe(w) == Shape /\ Locking(w) /\ Having(w) /\ Loaded(w) /\ Covered(w) /\ NoneLeft(w)

LEMMA SafeInit == ASSUME NEW w, Workers = {w} PROVE Init => Safe(w)
BY CountAssumption
DEF Init, Safe, Shape, Locking, Having, Loaded, Covered, NoneLeft, One, Threads

LEMMA SafeStep == ASSUME NEW w, Workers = {w} PROVE Safe(w) /\ [Next]_vars => Safe(w)'
<1> SUFFICES ASSUME Safe(w), [Next]_vars PROVE Safe(w)'
  OBVIOUS
<1> USE CountAssumption DEF Safe, Threads
<1>1. ASSUME NEW v \in Values, New(w, v) PROVE Safe(w)'
  BY <1>1 DEF New, Shape, Locking, Having, Loaded, Covered, NoneLeft, One
<1>2. ASSUME BindLoad(w) PROVE Safe(w)'
  BY <1>2 DEF BindLoad, Load, Shape, Locking, Having, Loaded, Covered, NoneLeft, One
<1>3. ASSUME BindStore(w) PROVE Safe(w)'
  BY <1>3 DEF BindStore, StoreMore, Incremented, Shape, Locking, Having, Loaded, Covered, NoneLeft, One
<1>4. ASSUME NEW v \in Values, FindLoad(w, v) PROVE Safe(w)'
  <2>1. Shape' /\ Locking(w)'
    BY <1>4 DEF FindLoad, Load, Shape, Locking, Having
  <2>2. Having(w)' /\ Loaded(w)'
    BY <1>4 DEF FindLoad, Load, Shape, Locking, Having, Loaded, NoneLeft
  <2>3. Covered(w)'
    <3>1. pc[GC] = "out" /\ cur[GC] = Null /\ cur[w] = Null
      BY <1>4 DEF FindLoad, Shape, Locking, Having
    <3> QED BY <1>4, <3>1 DEF FindLoad, Load, Shape, Covered, One
  <2>4. NoneLeft(w)'
    BY <1>4 DEF FindLoad, Load, Shape, NoneLeft
  <2> QED BY <2>1, <2>2, <2>3, <2>4
<1>5. ASSUME FindStore(w) PROVE Safe(w)'
  BY <1>5 DEF FindStore, StoreMore, Incremented, Shape, Locking, Having, Loaded, Covered, NoneLeft, One
<1>6. ASSUME NEW v \in Values, Unbind(w, v) PROVE Safe(w)'
  BY <1>6 DEF Unbind, Cleared, Shape, Locking, Having, Loaded, Covered, NoneLeft, One
<1>7. ASSUME DropLoad(w) PROVE Safe(w)'
  BY <1>7 DEF DropLoad, Load, Shape, Locking, Having, Loaded, Covered, NoneLeft, One
<1>8. ASSUME DropStore(w) PROVE Safe(w)'
  BY <1>8 DEF DropStore, StoreLess, Shape, Locking, Having, Loaded, Covered, NoneLeft, One
<1>9. ASSUME NEW v \in Values, ReapLoad(v) PROVE Safe(w)'
  BY <1>9 DEF ReapLoad, Load, Cleared, Shape, Locking, Having, Loaded, Covered, NoneLeft, One
<1>10. ASSUME ReapStore PROVE Safe(w)'
  BY <1>10 DEF ReapStore, StoreLess, Shape, Locking, Having, Loaded, Covered, NoneLeft, One
<1>11. ASSUME UNCHANGED vars PROVE Safe(w)'
  BY <1>11 DEF vars, Shape, Locking, Having, Loaded, Covered, NoneLeft, One
<1> QED
  BY <1>1, <1>2, <1>3, <1>4, <1>5, <1>6, <1>7, <1>8, <1>9, <1>10, <1>11
  DEF Next, Worker, Idle

\* With a single ORB thread no value deletes itself while it is in the table or
\* in use, in every interleaving of the loads and stores of its plain counter.
THEOREM SingleThreadSafe == ASSUME NEW w, Workers = {w} PROVE Spec => []NotDeletedInUse
<1>1. Init => Safe(w)
  BY SafeInit
<1>2. Safe(w) /\ [Next]_vars => Safe(w)'
  BY SafeStep
<1>3. Safe(w) => NotDeletedInUse
  BY DEF Safe, NoneLeft, NotDeletedInUse, Threads
<1> QED BY <1>1, <1>2, <1>3, PTL DEF Spec
=============================================================================
