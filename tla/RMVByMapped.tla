---------------------------- MODULE RMVByMapped ----------------------------
(***************************************************************************)
(* The table of mapped references of one ProxyMapper                       *)
(* (src/src/lorica/RMVByMapped.{h,cpp}) with its garbage collection        *)
(* thread, and the ORB threads that use it the way ProxyMapper does.       *)
(*                                                                         *)
(* A ReferenceMapValue is an address of Values; rc[v] = 0 means that no    *)
(* object lives there.  A critical section is one step, except where it    *)
(* touches data that the other lock's critical sections also touch: the    *)
(* free stack is popped under high_index_lock_ and pushed under            *)
(* gc_control_lock_, so a pop and a push are a load step and a store step. *)
(* Reference counts are atomic here; module ReferenceMapValue is about the *)
(* plain ++ and -- of the code.                                            *)
(***************************************************************************)
EXTENDS Integers, Sequences, FiniteSets

CONSTANTS
    Workers,    \* the ORB threads (Proxy_Threads)
    GC,         \* the garbage collection thread
    Values,     \* the addresses a ReferenceMapValue may have
    Natives,    \* the native references that are mapped
    Null,       \* the null pointer, and "no thread" as the owner of a lock
    PageSize,   \* page_size_
    MaxIndex,   \* bound on high_index_: see WithinBound
    Hazards     \* what may happen: see Overlap, Reuse and Spurious

ASSUME TableAssumption ==
    /\ IsFiniteSet(Workers)
    /\ GC \notin Workers /\ Null \notin Workers /\ Null # GC
    /\ Null \notin Values \cup Natives
    /\ PageSize \in Nat \ {0}
    /\ MaxIndex \in Nat \ {0}

(***************************************************************************)
(* The three hazards.  All three are possible in the program; a run or a   *)
(* theorem that leaves one out says what holds when it does not strike.    *)
(***************************************************************************)
Overlap  == "overlap"  \in Hazards  \* a pop and a push of free_stack_ overlap
Reuse    == "reuse"    \in Hazards  \* new returns an address the GC still compares with
Spurious == "spurious" \in Hazards  \* the condition wait returns without a broadcast

Threads == Workers \cup {GC}
Index   == 0 .. (MaxIndex + PageSize - 1)

VARIABLES
    slot,       \* pages_: the value bound at each index
    limit,      \* num_pages_ * page_size_
    high,       \* high_index_
    free,       \* free_stack_, top first
    rc,         \* ref_count_ of the object at each address
    orig,       \* orig_ref_ of the object at each address
    gcLock,     \* owner of gc_control_lock_, across steps
    hiLock,     \* owner of high_index_lock_, across steps
    pc,         \* what each worker is doing
    val,        \* the worker's ReferenceMapValue_var
    idx,        \* the worker's index
    top,        \* the free_stack_ a thread has loaded and not yet stored over
    gc,         \* the GC thread: pc and the locals of svc
    terminated, \* gc_terminated_
    dtor,       \* progress of ~RMVByMapped
    alive       \* the native objects that still exist

tableVars  == <<slot, limit, high, free>>
valueVars  == <<rc, orig>>
workerVars == <<pc, val, idx>>
dtorVars   == <<terminated, dtor>>
vars == <<tableVars, valueVars, gcLock, hiLock, workerVars, top, gc, dtorVars, alive>>

WorkerPC == {"idle", "pop", "bind", "push", "held"}
GcPC     == {"loop", "enter", "waiting", "woken", "scan", "ping", "recheck", "push", "exit"}

TypeOK ==
    /\ slot \in [Index -> Values \cup {Null}]
    /\ limit \in 0 .. (MaxIndex + PageSize)
    /\ high \in 0 .. MaxIndex
    /\ free \in Seq(Index)
    /\ rc \in [Values -> Nat]
    /\ orig \in [Values -> Natives \cup {Null}]
    /\ gcLock \in Threads \cup {Null}
    /\ hiLock \in Workers \cup {Null}
    /\ pc \in [Workers -> WorkerPC]
    /\ val \in [Workers -> Values \cup {Null}]
    /\ idx \in [Workers -> Index]
    /\ top \in [Threads -> Seq(Index)]
    /\ gc \in [pc: GcPC, at: Nat, value: Values \cup {Null}, obj: Natives \cup {Null}, expired: BOOLEAN]
    /\ gc.at <= limit
    /\ terminated \in BOOLEAN
    /\ dtor \in {"no", "set", "join", "done"}
    /\ alive \in [Natives -> BOOLEAN]

\* The GC thread in its loop over the slots, at index i and with fresh locals.
Scanning(i) == [pc |-> "scan", at |-> i, value |-> Null, obj |-> Null, expired |-> FALSE]

Init ==
    /\ slot = [i \in Index |-> Null]
    /\ limit = PageSize
    /\ high = 0
    /\ free = <<>>
    /\ rc = [v \in Values |-> 0]
    /\ orig = [v \in Values |-> Null]
    /\ gcLock = Null
    /\ hiLock = Null
    /\ pc = [w \in Workers |-> "idle"]
    /\ val = [w \in Workers |-> Null]
    /\ idx = [w \in Workers |-> 0]
    /\ top = [t \in Threads |-> <<>>]
    /\ gc = [Scanning(0) EXCEPT !.pc = "loop"]
    /\ terminated = FALSE
    /\ dtor = "no"
    /\ alive = [n \in Natives |-> TRUE]

-----------------------------------------------------------------------------
(***************************************************************************)
(* ReferenceMapValue's counter, and the free stack.                        *)
(*                                                                         *)
(* Here and below a definition that stands before the one it resembles     *)
(* (PushForgotten before Push, say) is a faulty variant that no action     *)
(* uses: it shows which fault a property of the runs would notice.         *)
(***************************************************************************)
incr_forgotten(v) == UNCHANGED rc
incr_refcount(v) == rc' = [rc EXCEPT ![v] = @ + 1]
decr_refcount(v) == rc' = [rc EXCEPT ![v] = @ - 1]  \* at 0 the object deletes itself

\* Without the overlap hazard nobody loads free_stack_ between another
\* thread's load and store.
Pushing    == gc.pc = "push" \/ \E w \in Workers : pc[w] = "push"
MayLoadTop == Overlap \/ (hiLock = Null /\ ~Pushing)

Load(t)    == /\ MayLoadTop
              /\ top' = [top EXCEPT ![t] = free]

PushForgotten(t, i) == free' = top[t] /\ top' = [top EXCEPT ![t] = <<>>]
Push(t, i) == /\ free' = <<i>> \o top[t]
              /\ top' = [top EXCEPT ![t] = <<>>]

\* A request is being served: the ORB runs until the destructor starts.
Serving(w) == pc[w] = "idle" /\ dtor = "no"

\* Where a new ReferenceMapValue may be allocated.
Fresh == {v \in Values : rc[v] = 0 /\ (Reuse \/ v # gc.value)}

\* The bound on the run: at most MaxIndex fresh indices, and no new mapping while
\* overlapping accesses have made the free stack longer than that.
WithinBound == Len(free) <= MaxIndex /\ (free = <<>> => high < MaxIndex)

-----------------------------------------------------------------------------
(***************************************************************************)
(* The ORB threads.  Map (add_native_unchecked) is NextIndex, NextIndexEnd *)
(* and Bind; a lookup is Find; a removal is Unbind and UnbindEnd.  Each    *)
(* leaves the thread with a counted value that Release gives back.         *)
(***************************************************************************)

\* add_native_unchecked creates the value for native n; next_index takes its
\* lock and looks at the free stack.
NextIndex(w, n) ==
    /\ Serving(w)
    /\ hiLock = Null
    /\ WithinBound
    /\ Load(w)
    /\ \E v \in Fresh :
         /\ rc' = [rc EXCEPT ![v] = 1]
         /\ orig' = [orig EXCEPT ![v] = n]
         /\ val' = [val EXCEPT ![w] = v]
    /\ hiLock' = w
    /\ pc' = [pc EXCEPT ![w] = "pop"]
    /\ UNCHANGED <<tableVars, gcLock, idx, gc, dtorVars, alive>>

\* num_pages_ * page_size_ after next_index has made room for index i.
GrownLate(i) == IF i > limit THEN limit + PageSize ELSE limit
Grown(i)     == IF i >= limit THEN limit + PageSize ELSE limit

\* next_index ends: the popped index or a fresh one, and a page for it.
NextIndexEnd(w) ==
    LET rtn == IF top[w] # <<>> THEN Head(top[w]) ELSE high IN
    /\ pc[w] = "pop"
    /\ IF top[w] # <<>>
       THEN free' = Tail(top[w]) /\ UNCHANGED high
       ELSE high' = high + 1 /\ UNCHANGED free
    /\ limit' = Grown(rtn)
    /\ idx' = [idx EXCEPT ![w] = rtn]
    /\ top' = [top EXCEPT ![w] = <<>>]
    /\ hiLock' = Null
    /\ pc' = [pc EXCEPT ![w] = "bind"]
    /\ UNCHANGED <<slot, valueVars, gcLock, val, gc, dtorVars, alive>>

CanBind(i) == i < limit /\ slot[i] = Null

\* bind: a slot that is out of range or taken makes it return false, which
\* add_native_unchecked ignores.
Bind(w) ==
    /\ pc[w] = "bind"
    /\ gcLock = Null
    /\ IF CanBind(idx[w])
       THEN /\ incr_refcount(val[w])
            /\ slot' = [slot EXCEPT ![idx[w]] = val[w]]
       ELSE UNCHANGED <<rc, slot>>
    /\ idx' = [idx EXCEPT ![w] = 0]
    /\ pc' = [pc EXCEPT ![w] = "held"]
    /\ UNCHANGED <<limit, high, free, orig, gcLock, hiLock, val, top, gc, dtorVars, alive>>

\* find, when it finds: native_for_mapped_i and the ALREADY_ and
\* REVERSE_MAPPED branches of add_native.
Find(w, i) ==
    /\ Serving(w)
    /\ gcLock = Null
    /\ i < limit /\ slot[i] # Null
    /\ incr_refcount(slot[i])
    /\ val' = [val EXCEPT ![w] = slot[i]]
    /\ pc' = [pc EXCEPT ![w] = "held"]
    /\ UNCHANGED <<tableVars, orig, gcLock, hiLock, idx, top, gc, dtorVars, alive>>

\* What unbind, and the GC's reaping, make of the slots.
ClearedNot(i) == slot
Cleared(i)    == [slot EXCEPT ![i] = Null]

\* unbind, when it finds: the slot's reference moves to the caller.
Unbind(w, i) ==
    /\ Serving(w)
    /\ gcLock = Null
    /\ i < limit /\ slot[i] # Null
    /\ val' = [val EXCEPT ![w] = slot[i]]
    /\ slot' = Cleared(i)
    /\ Load(w)
    /\ idx' = [idx EXCEPT ![w] = i]
    /\ gcLock' = w
    /\ pc' = [pc EXCEPT ![w] = "push"]
    /\ UNCHANGED <<limit, high, free, valueVars, hiLock, gc, dtorVars, alive>>

\* unbind ends: the index is pushed on the free stack it loaded.
UnbindEnd(w) ==
    /\ pc[w] = "push"
    /\ Push(w, idx[w])
    /\ gcLock' = Null
    /\ idx' = [idx EXCEPT ![w] = 0]
    /\ pc' = [pc EXCEPT ![w] = "held"]
    /\ UNCHANGED <<slot, limit, high, valueVars, hiLock, val, gc, dtorVars, alive>>

\* The thread's ReferenceMapValue_var goes out of scope.
Release(w) ==
    /\ pc[w] = "held"
    /\ decr_refcount(val[w])
    /\ val' = [val EXCEPT ![w] = Null]
    /\ pc' = [pc EXCEPT ![w] = "idle"]
    /\ UNCHANGED <<tableVars, orig, gcLock, hiLock, idx, top, gc, dtorVars, alive>>

-----------------------------------------------------------------------------
(***************************************************************************)
(* The garbage collection thread, svc().                                   *)
(***************************************************************************)
tableRest == <<limit, high, orig, hiLock, workerVars, dtorVars, alive>>

\* while (!gc_terminated_)
LoopForever == "enter"
LoopTest    == IF terminated THEN "exit" ELSE "enter"

GcLoop ==
    /\ gc.pc = "loop"
    /\ gc' = [gc EXCEPT !.pc = LoopTest]
    /\ UNCHANGED <<slot, free, rc, gcLock, top, tableRest>>

\* Takes gc_control_lock_ and gives it up again in the condition wait.
GcWait ==
    /\ gc.pc = "enter"
    /\ gcLock = Null
    /\ gc' = [gc EXCEPT !.pc = "waiting"]
    /\ UNCHANGED <<slot, free, rc, gcLock, top, tableRest>>

\* The wait returns without a broadcast: POSIX allows it.
GcSpurious ==
    /\ Spurious
    /\ gc.pc = "waiting"
    /\ gc' = [gc EXCEPT !.pc = "woken"]
    /\ UNCHANGED <<slot, free, rc, gcLock, top, tableRest>>

\* The wait returns 0: svc leaves its loop.
GcBreak ==
    /\ gc.pc = "woken"
    /\ gcLock = Null
    /\ gc' = [gc EXCEPT !.pc = "exit"]
    /\ UNCHANGED <<slot, free, rc, gcLock, top, tableRest>>

\* The period is over (ETIME): a sweep starts, with the lock.
GcTimeout ==
    /\ gc.pc = "waiting"
    /\ gcLock = Null
    /\ gcLock' = GC
    /\ gc' = Scanning(0)
    /\ UNCHANGED <<slot, free, rc, top, tableRest>>

SweepOverLate == terminated \/ gc.at > limit
SweepOver     == terminated \/ gc.at >= limit

\* The sweep is over, or cut short: the guard's destructor unlocks.
GcSweepEnd ==
    /\ gc.pc = "scan"
    /\ SweepOver
    /\ gcLock' = Null
    /\ gc' = [gc EXCEPT !.pc = "loop", !.at = 0]
    /\ UNCHANGED <<slot, free, rc, top, tableRest>>

\* An empty slot is skipped.
GcSkip ==
    /\ gc.pc = "scan"
    /\ ~SweepOver
    /\ slot[gc.at] = Null
    /\ gc' = Scanning(gc.at + 1)
    /\ UNCHANGED <<slot, free, rc, gcLock, top, tableRest>>

\* A value is found: svc copies its native reference and drops the lock.
GcLook ==
    /\ gc.pc = "scan"
    /\ ~SweepOver
    /\ slot[gc.at] # Null
    /\ gc' = [gc EXCEPT !.pc = "ping", !.value = slot[gc.at], !.obj = orig[slot[gc.at]]]
    /\ gcLock' = Null
    /\ UNCHANGED <<slot, free, rc, top, tableRest>>

\* What _non_existent may tell: a dead object is reported as such, a living
\* one may be out of reach (an exception counts as expired).
AnswersLost(n) == BOOLEAN
Answers(n)     == IF alive[n] THEN BOOLEAN ELSE {TRUE}

GcPing ==
    /\ gc.pc = "ping"
    /\ \E expired \in Answers(gc.obj) :
         gc' = [gc EXCEPT !.pc = "recheck", !.expired = expired]
    /\ UNCHANGED <<slot, free, rc, gcLock, top, tableRest>>

\* The recheck under the lock, by address.
StillTaken == gc.expired /\ slot[gc.at] # Null
StillThere == gc.expired /\ slot[gc.at] = gc.value

GcKeep ==
    /\ gc.pc = "recheck"
    /\ gcLock = Null
    /\ ~StillThere
    /\ gcLock' = GC
    /\ gc' = Scanning(gc.at + 1)
    /\ UNCHANGED <<slot, free, rc, top, tableRest>>

GcReap ==
    /\ gc.pc = "recheck"
    /\ gcLock = Null
    /\ StillThere
    /\ decr_refcount(slot[gc.at])
    /\ slot' = Cleared(gc.at)
    /\ Load(GC)
    /\ gcLock' = GC
    /\ gc' = [gc EXCEPT !.pc = "push"]
    /\ UNCHANGED <<free, tableRest>>

GcReapEnd ==
    /\ gc.pc = "push"
    /\ Push(GC, gc.at)
    /\ gc' = Scanning(gc.at + 1)
    /\ UNCHANGED <<slot, rc, gcLock, tableRest>>

-----------------------------------------------------------------------------
(***************************************************************************)
(* ~RMVByMapped, run once the ORB threads have come back from orb->run().  *)
(***************************************************************************)
DtorBegin ==
    /\ dtor = "no"
    /\ \A w \in Workers : pc[w] = "idle"
    /\ terminated' = TRUE
    /\ dtor' = "set"
    /\ UNCHANGED <<tableVars, valueVars, gcLock, hiLock, workerVars, top, gc, alive>>

\* broadcast without the lock: it reaches the GC only if it waits by now.
DtorBroadcast ==
    /\ dtor = "set"
    /\ dtor' = "join"
    /\ gc' = IF gc.pc = "waiting" THEN [gc EXCEPT !.pc = "woken"] ELSE gc
    /\ UNCHANGED <<tableVars, valueVars, gcLock, hiLock, workerVars, top, terminated, alive>>

\* wait() returns when svc has; the pages and the free stack are deleted.
DtorJoin ==
    /\ dtor = "join"
    /\ gc.pc = "exit"
    /\ dtor' = "done"
    /\ slot' = [i \in Index |-> Null]
    /\ free' = <<>>
    /\ UNCHANGED <<limit, high, valueVars, gcLock, hiLock, workerVars, top, gc, terminated, alive>>

\* A native object ceases to exist.
Die(n) ==
    /\ alive[n]
    /\ alive' = [alive EXCEPT ![n] = FALSE]
    /\ UNCHANGED <<tableVars, valueVars, gcLock, hiLock, workerVars, top, gc, dtorVars>>

\* The table is gone and nothing more happens.
Finished == dtor = "done" /\ UNCHANGED vars

Worker(w) ==
    \/ \E n \in Natives : NextIndex(w, n)
    \/ NextIndexEnd(w)
    \/ Bind(w)
    \/ \E i \in Index : Find(w, i)
    \/ \E i \in Index : Unbind(w, i)
    \/ UnbindEnd(w)
    \/ Release(w)

Collector ==
    \/ GcLoop \/ GcWait \/ GcSpurious \/ GcBreak \/ GcTimeout
    \/ GcSweepEnd \/ GcSkip \/ GcLook \/ GcPing \/ GcKeep \/ GcReap \/ GcReapEnd

Destructor == DtorBegin \/ DtorBroadcast \/ DtorJoin

Next ==
    \/ \E w \in Workers : Worker(w)
    \/ Collector
    \/ Destructor
    \/ \E n \in Natives : Die(n)
    \/ Finished

Spec == Init /\ [][Next]_vars

(***************************************************************************)
(* Fairness.  A running thread takes its next step; a mutex that is free   *)
(* again and again is eventually granted; a timed wait ends by its         *)
(* deadline; a ping returns.  Requests, deaths and the shutdown are the    *)
(* environment's business and get no fairness.                             *)
(***************************************************************************)
Fairness ==
    /\ \A w \in Workers : /\ WF_vars(NextIndexEnd(w)) /\ WF_vars(UnbindEnd(w))
                          /\ SF_vars(Bind(w)) /\ WF_vars(Release(w))
    /\ WF_vars(GcLoop) /\ SF_vars(GcWait) /\ SF_vars(GcBreak) /\ SF_vars(GcTimeout)
    /\ WF_vars(GcSweepEnd) /\ WF_vars(GcSkip) /\ WF_vars(GcLook) /\ WF_vars(GcPing)
    /\ SF_vars(GcKeep) /\ SF_vars(GcReap) /\ WF_vars(GcReapEnd)
    /\ WF_vars(DtorBroadcast) /\ WF_vars(DtorJoin)

FairSpec == Spec /\ Fairness

-----------------------------------------------------------------------------
(***************************************************************************)
(* Properties.                                                             *)
(***************************************************************************)

\* The places that hold a counted pointer to v.
Slots(v)   == {i \in Index : slot[i] = v}
Holders(v) == {w \in Workers : val[w] = v}

\* Until the destructor deletes the pages, the reference count of every value
\* is the number of slots and of threads that hold it, in every interleaving
\* of bind, find, unbind, the var's destructor and the GC's reaping: no value
\* is deleted while somebody still has it, and none outlives its last holder.
CountsExact ==
    dtor # "done" =>
        \A v \in Values : rc[v] = Cardinality(Slots(v)) + Cardinality(Holders(v))

\* The indices a thread has taken off the books and not yet put back: next_index
\* returned it and bind has not run, or a slot was cleared and the push has not run.
InTransit ==
    {idx[w] : w \in {u \in Workers : pc[u] \in {"bind", "push"}}}
      \cup (IF gc.pc = "push" THEN {gc.at} ELSE {})
Bound   == {i \in Index : slot[i] # Null}
OnStack == {free[k] : k \in 1 .. Len(free)}

\* Every index below high_index_ is accounted for exactly once: bound, on the
\* free stack (once), or in the hands of one thread.  So next_index never hands
\* out an index that is in use, and no unbind or reap loses one.
IndexPartition ==
    dtor # "done" =>
        /\ Bound \cup OnStack \cup InTransit = 0 .. (high - 1)
        /\ Bound \cap OnStack = {} /\ Bound \cap InTransit = {} /\ OnStack \cap InTransit = {}
        /\ \A j, k \in 1 .. Len(free) : free[j] = free[k] => j = k
        /\ \A w \in Workers : pc[w] \in {"bind", "push"} =>
             /\ gc.pc = "push" => idx[w] # gc.at
             /\ \A u \in Workers \ {w} : pc[u] \in {"bind", "push"} => idx[u] # idx[w]

\* A bind never fails: next_index has made room for the index it returned, and
\* nobody has taken the slot since.  (add_native_unchecked does not look at the
\* result: after a failed bind the new mapped reference denotes another object.)
BindSucceeds == \A w \in Workers : pc[w] = "bind" => CanBind(idx[w])

\* The GC reaps a mapping only on the word of that mapping's own native
\* object, although it pings without the lock.
ReapsPinged == [][GcReap => orig[slot[gc.at]] = gc.obj]_vars

\* Once started the destructor ends, even when the broadcast is lost because
\* the GC thread is not waiting yet, or is in the middle of a ping.
DtorCompletes == dtor = "set" ~> dtor = "done"

DeadMapping(i) == slot[i] # Null /\ ~alive[orig[slot[i]]]

\* The mapping of an object that has ceased to exist goes away, removed by an
\* ORB thread or reaped, unless the table is being destroyed.
DeadReaped ==
    \A i \in Index :
        DeadMapping(i) ~> (~DeadMapping(i) \/ terminated)

\* What the comment in ~ProxyMapper asks of the destruction: every entry is
\* removed and its count decremented, so that no value is left behind.
NothingLeftBehind == dtor = "done" => \A v \in Values : rc[v] = 0
=============================================================================
