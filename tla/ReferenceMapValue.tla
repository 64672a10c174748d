------------------------- MODULE ReferenceMapValue -------------------------
(***************************************************************************)
(* The reference count of ReferenceMapValue                                *)
(* (src/src/lorica/ReferenceMapValue.cpp) as the code has it: a plain long *)
(* that ++ and -- load and store.  The table changes counts under          *)
(* gc_control_lock_; a ReferenceMapValue_var that goes out of scope does   *)
(* so under no lock.  RMVByMapped says when who does which; here its slots *)
(* are only full or empty.                                                 *)
(***************************************************************************)
EXTENDS Integers, FiniteSets

CONSTANTS
    Workers,   \* the ORB threads
    GC,        \* the garbage collection thread
    Values,    \* the values there will be
    Null,      \* no value, no thread
    MaxCount   \* bound: no find when a count has got this far

ASSUME CountAssumption ==
    /\ GC \notin Workers /\ Null \notin Workers /\ Null # GC
    /\ Null \notin Values
    /\ MaxCount \in Nat \ {0}

Threads == Workers \cup {GC}

VARIABLES
    count,  \* ref_count_ of each value
    life,   \* whether it is yet to be created, lives, or has deleted itself
    bound,  \* whether a slot of the table points to it
    lock,   \* the owner of gc_control_lock_
    pc,     \* what each thread is doing
    cur,    \* the value a thread has
    reg     \* the count a thread has loaded

vars == <<count, life, bound, lock, pc, cur, reg>>

TypeOK ==
    /\ count \in [Values -> Nat]
    /\ life \in [Values -> {"unborn", "live", "deleted"}]
    /\ bound \in [Values -> BOOLEAN]
    /\ lock \in Threads \cup {Null}
    /\ pc \in [Threads -> {"out", "new", "bind", "find", "held", "drop"}]
    /\ cur \in [Threads -> Values \cup {Null}]
    /\ reg \in [Threads -> Nat]

Init ==
    /\ count = [v \in Values |-> 0]
    /\ life = [v \in Values |-> "unborn"]
    /\ bound = [v \in Values |-> FALSE]
    /\ lock = Null
    /\ pc = [t \in Threads |-> "out"]
    /\ cur = [t \in Threads |-> Null]
    /\ reg = [t \in Threads |-> 0]

-----------------------------------------------------------------------------
(***************************************************************************)
(* The two halves of ++ and --.  IncrementedNot is a faulty variant that   *)
(* no action uses.                                                         *)
(***************************************************************************)
Load(t, v, next) ==
    /\ reg' = [reg EXCEPT ![t] = count[v]]
    /\ cur' = [cur EXCEPT ![t] = v]
    /\ pc' = [pc EXCEPT ![t] = next]

IncrementedNot(x) == x
Incremented(x)    == x + 1

\* The store of ++, and the value is the thread's.
StoreMore(t) ==
    /\ count' = [count EXCEPT ![cur[t]] = Incremented(reg[t])]
    /\ reg' = [reg EXCEPT ![t] = 0]
    /\ pc' = [pc EXCEPT ![t] = "held"]
    /\ UNCHANGED <<life, cur>>

\* The store of --, and delete this when that leaves nothing.
StoreLess(t) ==
    /\ count' = [count EXCEPT ![cur[t]] = reg[t] - 1]
    /\ life' = IF reg[t] - 1 > 0 THEN life ELSE [life EXCEPT ![cur[t]] = "deleted"]
    /\ reg' = [reg EXCEPT ![t] = 0]
    /\ cur' = [cur EXCEPT ![t] = Null]
    /\ pc' = [pc EXCEPT ![t] = "out"]

\* What unbind and the GC leave of a slot that pointed to v.
Cleared(v) == [bound EXCEPT ![v] = FALSE]

-----------------------------------------------------------------------------
\* The constructor, in add_native_unchecked.
New(w, v) ==
    /\ pc[w] = "out"
    /\ life[v] = "unborn"
    /\ life' = [life EXCEPT ![v] = "live"]
    /\ count' = [count EXCEPT ![v] = 1]
    /\ cur' = [cur EXCEPT ![w] = v]
    /\ pc' = [pc EXCEPT ![w] = "new"]
    /\ UNCHANGED <<bound, lock, reg>>

\* RMVByMapped::bind
BindLoad(w) ==
    /\ pc[w] = "new"
    /\ lock = Null
    /\ lock' = w
    /\ Load(w, cur[w], "bind")
    /\ UNCHANGED <<count, life, bound>>

BindStore(w) ==
    /\ pc[w] = "bind"
    /\ StoreMore(w)
    /\ bound' = [bound EXCEPT ![cur[w]] = TRUE]
    /\ lock' = Null

\* RMVByMapped::find
FindLoad(w, v) ==
    /\ pc[w] = "out"
    /\ lock = Null
    /\ bound[v]
    /\ count[v] < MaxCount
    /\ lock' = w
    /\ Load(w, v, "find")
    /\ UNCHANGED <<count, life, bound>>

FindStore(w) ==
    /\ pc[w] = "find"
    /\ StoreMore(w)
    /\ lock' = Null
    /\ UNCHANGED bound

\* RMVByMapped::unbind: the slot's reference becomes the thread's.
Unbind(w, v) ==
    /\ pc[w] = "out"
    /\ lock = Null
    /\ bound[v]
    /\ bound' = Cleared(v)
    /\ cur' = [cur EXCEPT ![w] = v]
    /\ pc' = [pc EXCEPT ![w] = "held"]
    /\ UNCHANGED <<count, life, lock, reg>>

\* ~ReferenceMapValue_var
DropLoad(w) ==
    /\ pc[w] = "held"
    /\ Load(w, cur[w], "drop")
    /\ UNCHANGED <<count, life, bound, lock>>

DropStore(w) ==
    /\ pc[w] = "drop"
    /\ StoreLess(w)
    /\ UNCHANGED <<bound, lock>>

\* RMVByMapped::svc takes a mapping away.
ReapLoad(v) ==
    /\ pc[GC] = "out"
    /\ lock = Null
    /\ bound[v]
    /\ bound' = Cleared(v)
    /\ lock' = GC
    /\ Load(GC, v, "drop")
    /\ UNCHANGED <<count, life>>

ReapStore ==
    /\ pc[GC] = "drop"
    /\ StoreLess(GC)
    /\ lock' = Null
    /\ UNCHANGED bound

Idle == (\A v \in Values : life[v] # "unborn" /\ ~bound[v]) /\ UNCHANGED vars

Worker(w) ==
    \/ \E v \in Values : New(w, v) \/ FindLoad(w, v) \/ Unbind(w, v)
    \/ BindLoad(w) \/ BindStore(w) \/ FindStore(w) \/ DropLoad(w) \/ DropStore(w)

Next ==
    \/ \E w \in Workers : Worker(w)
    \/ (\E v \in Values : ReapLoad(v)) \/ ReapStore
    \/ Idle

Spec == Init /\ [][Next]_vars

-----------------------------------------------------------------------------
\* A value is never deleted while a slot points to it or a thread has it.
NotDeletedInUse ==
    \A v \in Values : life[v] = "deleted" =>
        ~bound[v] /\ \A t \in Threads : cur[t] # v

\* ReferenceMapper_i.cpp in remove_server: "rmv releases reference to value which
\* cleans itself up."  A living value is in the table or in somebody's hands.
CleansUp ==
    \A v \in Values : life[v] = "live" => bound[v] \/ \E t \in Threads : cur[t] = v
=============================================================================
