------------------------- MODULE RMVByMapped_proofs -------------------------
(***************************************************************************)
(* Proofs about RMVByMapped, for any number of threads, values, natives    *)
(* and indices.                                                            *)
(***************************************************************************)
EXTENDS RMVByMappedRefinement, FiniteSetTheorems, SequenceTheorems, TLAPS

(***************************************************************************)
(* The inductive invariant, in named parts.                                *)
(***************************************************************************)
Shape ==
    /\ slot \in [Index -> Values \cup {Null}]
    /\ limit \in 0 .. (MaxIndex + PageSize)
    /\ high \in 0 .. MaxIndex
    /\ rc \in [Values -> Int]
    /\ orig \in [Values -> Natives \cup {Null}]
    /\ gcLock \in Threads \cup {Null}
    /\ hiLock \in Workers \cup {Null}
    /\ pc \in [Workers -> WorkerPC]
    /\ val \in [Workers -> Values \cup {Null}]
    /\ idx \in [Workers -> Index]
    /\ gc \in [pc: GcPC, at: Nat, value: Values \cup {Null}, obj: Natives \cup {Null},
               expired: BOOLEAN]
    /\ terminated \in BOOLEAN
    /\ dtor \in {"no", "set", "join", "done"}
    /\ alive \in [Natives -> BOOLEAN]

\* A thread that is between two steps of a critical section has its lock.
Locks ==
    /\ \A w \in Workers : pc[w] = "pop" <=> hiLock = w
    /\ \A w \in Workers : pc[w] = "push" <=> gcLock = w
    /\ gcLock = GC <=> gc.pc \in {"scan", "push"}

\* Whatever is, or may come to be, on the free stack is the index of a slot.
Stacks ==
    /\ free \in Seq(Index)
    /\ top \in [Threads -> Seq(Index)]
    /\ \A k \in 1 .. Len(free) : free[k] < limit
    /\ \A t \in Threads : \A k \in 1 .. Len(top[t]) : top[t][k] < limit

Ranges ==
    /\ \A w \in Workers : pc[w] = "push" => idx[w] < limit
    /\ \A w \in Workers : pc[w] = "pop" /\ top[w] = <<>> => high < MaxIndex
    /\ gc.at <= limit
    /\ gc.pc \in {"ping", "recheck", "push"} => gc.at < limit

\* A thread has a value exactly while it works on one, and no thread does
\* once the destructor runs.
Owners ==
    /\ \A w \in Workers : pc[w] = "idle" <=> val[w] = Null
    /\ dtor # "no" => \A w \in Workers : pc[w] = "idle"
    /\ dtor = "done" => gc.pc = "exit"

Structure == Shape /\ Locks /\ Stacks /\ Ranges /\ Owners

(***************************************************************************)
(* What popping and pushing do to the elements of a stack.                 *)
(***************************************************************************)

\* The stack next_index leaves behind after it took the top of a non-empty one.
LEMMA PopElements ==
    ASSUME NEW S, NEW s \in Seq(S), s # <<>>
    PROVE  /\ Len(s) \in Nat \ {0} /\ Head(s) = s[1] /\ Head(s) \in S
           /\ Tail(s) \in Seq(S) /\ Len(Tail(s)) = Len(s) - 1
           /\ \A k \in 1 .. Len(Tail(s)) : Tail(s)[k] = s[k + 1]
<1>1. Len(s) \in Nat \ {0}
  BY LenProperties, EmptySeq
<1> QED BY <1>1, HeadTailProperties

\* The stack that unbind and the GC build with a new node on top.
LEMMA PushElements ==
    ASSUME NEW S, NEW s \in Seq(S), NEW x \in S
    PROVE  /\ <<x>> \o s \in Seq(S) /\ Len(<<x>> \o s) = Len(s) + 1 /\ Len(s) \in Nat
           /\ (<<x>> \o s)[1] = x
           /\ \A k \in 1 .. Len(s) : (<<x>> \o s)[k + 1] = s[k]
<1>1. <<x>> \in Seq(S) /\ Len(<<x>>) = 1 /\ Len(s) \in Nat
  BY LenProperties
<1> QED BY <1>1, ConcatProperties

\* Index, as the proofs need it.
LEMMA IndexFacts ==
    /\ Index \subseteq Nat /\ 0 \in Index
    /\ \A i \in Nat : i \in Index <=> i < MaxIndex + PageSize
BY TableAssumption DEF Index

LEMMA StructureStep == Structure /\ [Next]_vars => Structure'
<1> SUFFICES ASSUME Structure, [Next]_vars PROVE Structure'
  OBVIOUS
<1> USE TableAssumption DEF Structure, tableVars, valueVars, workerVars, dtorVars, Threads
<1> USE IndexFacts
<1>1. ASSUME NEW w \in Workers, NEW n \in Natives, NextIndex(w, n) PROVE Structure'
  <2>1. Shape'
    BY <1>1 DEF Shape, Locks, Stacks, Ranges, Owners, NextIndex, Serving, Load, Fresh, WithinBound, WorkerPC, GcPC
  <2>2. Locks'
    BY <1>1 DEF Shape, Locks, Stacks, Ranges, Owners, NextIndex, Serving, Load, Fresh, WithinBound, WorkerPC, GcPC
  <2>3. Stacks'
    BY <1>1 DEF Shape, Locks, Stacks, Ranges, Owners, NextIndex, Serving, Load, Fresh, WithinBound, WorkerPC, GcPC
  <2>4. Ranges'
    BY <1>1 DEF Shape, Locks, Stacks, Ranges, Owners, NextIndex, Serving, Load, Fresh, WithinBound, WorkerPC, GcPC
  <2>5. Owners'
    BY <1>1 DEF Shape, Locks, Stacks, Ranges, Owners, NextIndex, Serving, Load, Fresh, WithinBound, WorkerPC, GcPC
  <2> QED BY <2>1, <2>2, <2>3, <2>4, <2>5
<1>2. ASSUME NEW w \in Workers, NextIndexEnd(w) PROVE Structure'
  <2>1. Shape'
    <3> DEFINE rtn == IF top[w] # <<>> THEN Head(top[w]) ELSE high
    <3>1. rtn \in Index /\ (rtn >= limit => limit < MaxIndex) /\ (top[w] = <<>> => high < MaxIndex)
      <4>1. CASE top[w] = <<>>
        BY <1>2, <4>1 DEF Shape, Ranges, NextIndexEnd
      <4>2. CASE top[w] # <<>>
        <5>1. top[w] \in Seq(Index) /\ limit \in Nat
          BY DEF Stacks, Shape
        <5>2. Head(top[w]) \in Index /\ Head(top[w]) = top[w][1] /\ Len(top[w]) \in Nat \ {0}
          BY <4>2, <5>1, PopElements
        <5>3. top[w][1] < limit
          BY <5>2 DEF Stacks
        <5>4. rtn = Head(top[w]) /\ rtn \in Nat /\ rtn < limit
          BY <4>2, <5>2, <5>3
        <5> QED BY <4>2, <5>1, <5>2, <5>4
      <4> QED BY <4>1, <4>2
    <3>2. limit' \in 0 .. (MaxIndex + PageSize) /\ high' \in 0 .. MaxIndex
      BY <1>2, <3>1 DEF NextIndexEnd, Grown, Shape
    <3> QED BY <1>2, <3>1, <3>2 DEF Shape, NextIndexEnd, WorkerPC
  <2>2. Locks'
    BY <1>2 DEF Shape, Locks, Stacks, Ranges, Owners, NextIndexEnd, Grown, WorkerPC, GcPC
  <2>3. Stacks'
    <3>1. free' \in Seq(Index) /\ \A k \in 1 .. Len(free') : free'[k] < limit
      <4>1. CASE top[w] = <<>>
        BY <1>2, <4>1 DEF Stacks, NextIndexEnd
      <4>2. CASE top[w] # <<>>
        <5>1. top[w] \in Seq(Index) /\ free' = Tail(top[w])
          BY <1>2, <4>2 DEF Stacks, NextIndexEnd
        <5> QED BY <5>1, <4>2, PopElements DEF Stacks
      <4> QED BY <4>1, <4>2
    <3>2. limit' >= limit
      BY <1>2 DEF NextIndexEnd, Grown, Shape
    <3>3. top' = [top EXCEPT ![w] = <<>>]
      BY <1>2 DEF NextIndexEnd
    <3>4. <<>> \in Seq(Index) /\ Len(<<>>) = 0
      BY EmptySeq
    <3>5. top' \in [Threads -> Seq(Index)]
      BY <3>3, <3>4 DEF Stacks
    <3>6. \A t \in Threads : \A k \in 1 .. Len(top'[t]) : top'[t][k] < limit
      BY <3>3, <3>4 DEF Stacks
    <3>7. limit \in Nat /\ limit' \in Nat /\ free' \in Seq(Index)
      BY <2>1, <3>1 DEF Shape
    <3>8. \A q \in Seq(Index) : (\A k \in 1 .. Len(q) : q[k] < limit) => \A k \in 1 .. Len(q) : q[k] < limit'
      <4> SUFFICES ASSUME NEW q \in Seq(Index), NEW k \in 1 .. Len(q), q[k] < limit PROVE q[k] < limit'
        OBVIOUS
      <4>1. q[k] \in Nat
        BY ElementOfSeq, LenProperties
      <4> QED BY <4>1, <3>2, <3>7
    <3> QED BY <3>1, <3>5, <3>6, <3>8 DEF Stacks
  <2>4. Ranges'
    <3>1. limit' >= limit /\ limit \in Nat /\ limit' \in Nat
      BY <1>2 DEF NextIndexEnd, Grown, Shape
    <3>2. \A u \in Workers : pc'[u] = "push" => idx'[u] < limit'
      <4> SUFFICES ASSUME NEW u \in Workers, pc'[u] = "push" PROVE idx'[u] < limit'
        OBVIOUS
      <4>1. u # w /\ pc[u] = "push" /\ idx'[u] = idx[u]
        BY <1>2 DEF NextIndexEnd, Shape
      <4>2. idx[u] \in Nat /\ idx[u] < limit
        BY <4>1 DEF Shape, Ranges
      <4> QED BY <4>1, <4>2, <3>1
    <3>3. \A u \in Workers : pc'[u] # "pop"
      BY <1>2 DEF NextIndexEnd, Shape, Locks
    <3> QED BY <1>2, <3>1, <3>2, <3>3 DEF NextIndexEnd, Shape, Ranges
  <2>5. Owners'
    BY <1>2 DEF Shape, Locks, Stacks, Ranges, Owners, NextIndexEnd, Grown, WorkerPC, GcPC
  <2> QED BY <2>1, <2>2, <2>3, <2>4, <2>5
<1>3. ASSUME NEW w \in Workers, Bind(w) PROVE Structure'
  <2>1. Shape'
    <3>1. idx[w] \in Index /\ val[w] \in Values
      BY <1>3 DEF Bind, Shape, Owners
    <3>2. CASE CanBind(idx[w])
      <4>1. slot' \in [Index -> Values \cup {Null}]
        BY <1>3, <3>1, <3>2 DEF Bind, Shape
      <4>2. rc' \in [Values -> Int]
        BY <1>3, <3>1, <3>2 DEF Bind, incr_refcount, Shape
      <4> QED BY <1>3, <4>1, <4>2 DEF Bind, Shape, WorkerPC
    <3>3. CASE ~CanBind(idx[w])
      BY <1>3, <3>3 DEF Bind, Shape, WorkerPC
    <3> QED BY <3>2, <3>3
  <2>2. Locks'
    BY <1>3 DEF Shape, Locks, Stacks, Ranges, Owners, Bind, CanBind, incr_refcount, WorkerPC, GcPC
  <2>3. Stacks'
    BY <1>3 DEF Shape, Locks, Stacks, Ranges, Owners, Bind, CanBind, incr_refcount, WorkerPC, GcPC
  <2>4. Ranges'
    BY <1>3 DEF Shape, Locks, Stacks, Ranges, Owners, Bind, CanBind, incr_refcount, WorkerPC, GcPC
  <2>5. Owners'
    BY <1>3 DEF Shape, Locks, Stacks, Ranges, Owners, Bind, CanBind, incr_refcount, WorkerPC, GcPC
  <2> QED BY <2>1, <2>2, <2>3, <2>4, <2>5
<1>4. ASSUME NEW w \in Workers, NEW i \in Index, Find(w, i) PROVE Structure'
  <2>1. Shape'
    BY <1>4 DEF Shape, Locks, Stacks, Ranges, Owners, Find, Serving, incr_refcount, WorkerPC, GcPC
  <2>2. Locks'
    BY <1>4 DEF Shape, Locks, Stacks, Ranges, Owners, Find, Serving, incr_refcount, WorkerPC, GcPC
  <2>3. Stacks'
    BY <1>4 DEF Shape, Locks, Stacks, Ranges, Owners, Find, Serving, incr_refcount, WorkerPC, GcPC
  <2>4. Ranges'
    BY <1>4 DEF Shape, Locks, Stacks, Ranges, Owners, Find, Serving, incr_refcount, WorkerPC, GcPC
  <2>5. Owners'
    BY <1>4 DEF Shape, Locks, Stacks, Ranges, Owners, Find, Serving, incr_refcount, WorkerPC, GcPC
  <2> QED BY <2>1, <2>2, <2>3, <2>4, <2>5
<1>5. ASSUME NEW w \in Workers, NEW i \in Index, Unbind(w, i) PROVE Structure'
  <2>1. Shape'
    BY <1>5 DEF Shape, Locks, Stacks, Ranges, Owners, Unbind, Serving, Load, Cleared, WorkerPC, GcPC
  <2>2. Locks'
    BY <1>5 DEF Shape, Locks, Stacks, Ranges, Owners, Unbind, Serving, Load, Cleared, WorkerPC, GcPC
  <2>3. Stacks'
    BY <1>5 DEF Shape, Locks, Stacks, Ranges, Owners, Unbind, Serving, Load, Cleared, WorkerPC, GcPC
  <2>4. Ranges'
    BY <1>5 DEF Shape, Locks, Stacks, Ranges, Owners, Unbind, Serving, Load, Cleared, WorkerPC, GcPC
  <2>5. Owners'
    BY <1>5 DEF Shape, Locks, Stacks, Ranges, Owners, Unbind, Serving, Load, Cleared, WorkerPC, GcPC
  <2> QED BY <2>1, <2>2, <2>3, <2>4, <2>5
<1>6. ASSUME NEW w \in Workers, UnbindEnd(w) PROVE Structure'
  <2>1. Shape'
    BY <1>6 DEF Shape, Locks, Stacks, Ranges, Owners, UnbindEnd, Push, WorkerPC, GcPC
  <2>2. Locks'
    BY <1>6 DEF Shape, Locks, Stacks, Ranges, Owners, UnbindEnd, Push, WorkerPC, GcPC
  <2>3. Stacks'
    BY <1>6 DEF Shape, Locks, Stacks, Ranges, Owners, UnbindEnd, Push, WorkerPC, GcPC
  <2>4. Ranges'
    BY <1>6 DEF Shape, Locks, Stacks, Ranges, Owners, UnbindEnd, Push, WorkerPC, GcPC
  <2>5. Owners'
    BY <1>6 DEF Shape, Locks, Stacks, Ranges, Owners, UnbindEnd, Push, WorkerPC, GcPC
  <2> QED BY <2>1, <2>2, <2>3, <2>4, <2>5
<1>7. ASSUME NEW w \in Workers, Release(w) PROVE Structure'
  <2>1. Shape'
    BY <1>7 DEF Shape, Locks, Stacks, Ranges, Owners, Release, decr_refcount, WorkerPC, GcPC
  <2>2. Locks'
    BY <1>7 DEF Shape, Locks, Stacks, Ranges, Owners, Release, decr_refcount, WorkerPC, GcPC
  <2>3. Stacks'
    BY <1>7 DEF Shape, Locks, Stacks, Ranges, Owners, Release, decr_refcount, WorkerPC, GcPC
  <2>4. Ranges'
    BY <1>7 DEF Shape, Locks, Stacks, Ranges, Owners, Release, decr_refcount, WorkerPC, GcPC
  <2>5. Owners'
    BY <1>7 DEF Shape, Locks, Stacks, Ranges, Owners, Release, decr_refcount, WorkerPC, GcPC
  <2> QED BY <2>1, <2>2, <2>3, <2>4, <2>5
<1>8. ASSUME GcLoop PROVE Structure'
  BY <1>8 DEF Shape, Locks, Stacks, Ranges, Owners, GcLoop, LoopTest, tableRest, WorkerPC, GcPC
<1>9. ASSUME GcWait PROVE Structure'
  BY <1>9 DEF Shape, Locks, Stacks, Ranges, Owners, GcWait, tableRest, WorkerPC, GcPC
<1>10. ASSUME GcSpurious PROVE Structure'
  BY <1>10 DEF Shape, Locks, Stacks, Ranges, Owners, GcSpurious, tableRest, WorkerPC, GcPC
<1>11. ASSUME GcBreak PROVE Structure'
  BY <1>11 DEF Shape, Locks, Stacks, Ranges, Owners, GcBreak, tableRest, WorkerPC, GcPC
<1>12. ASSUME GcTimeout PROVE Structure'
  <2>1. Shape'
    BY <1>12 DEF Shape, Locks, Stacks, Ranges, Owners, GcTimeout, Scanning, tableRest, WorkerPC, GcPC
  <2>2. Locks'
    BY <1>12 DEF Shape, Locks, Stacks, Ranges, Owners, GcTimeout, Scanning, tableRest, WorkerPC, GcPC
  <2>3. Stacks'
    BY <1>12 DEF Shape, Locks, Stacks, Ranges, Owners, GcTimeout, Scanning, tableRest, WorkerPC, GcPC
  <2>4. Ranges'
    BY <1>12 DEF Shape, Locks, Stacks, Ranges, Owners, GcTimeout, Scanning, tableRest, WorkerPC, GcPC
  <2>5. Owners'
    BY <1>12 DEF Shape, Locks, Stacks, Ranges, Owners, GcTimeout, Scanning, tableRest, WorkerPC, GcPC
  <2> QED BY <2>1, <2>2, <2>3, <2>4, <2>5
<1>13. ASSUME GcSweepEnd PROVE Structure'
  <2>1. Shape'
    BY <1>13 DEF Shape, Locks, Stacks, Ranges, Owners, GcSweepEnd, tableRest, WorkerPC, GcPC
  <2>2. Locks'
    BY <1>13 DEF Shape, Locks, Stacks, Ranges, Owners, GcSweepEnd, tableRest, WorkerPC, GcPC
  <2>3. Stacks'
    BY <1>13 DEF Shape, Locks, Stacks, Ranges, Owners, GcSweepEnd, tableRest, WorkerPC, GcPC
  <2>4. Ranges'
    BY <1>13 DEF Shape, Locks, Stacks, Ranges, Owners, GcSweepEnd, tableRest, WorkerPC, GcPC
  <2>5. Owners'
    BY <1>13 DEF Shape, Locks, Stacks, Ranges, Owners, GcSweepEnd, tableRest, WorkerPC, GcPC
  <2> QED BY <2>1, <2>2, <2>3, <2>4, <2>5
<1>14. ASSUME GcSkip PROVE Structure'
  BY <1>14 DEF Shape, Locks, Stacks, Ranges, Owners, GcSkip, SweepOver, Scanning, tableRest, WorkerPC, GcPC
<1>15. ASSUME GcLook PROVE Structure'
  <2>1. Shape'
    <3>1. gc.at \in Index /\ slot[gc.at] \in Values
      BY <1>15 DEF GcLook, SweepOver, Shape
    <3> QED BY <1>15, <3>1 DEF GcLook, tableRest, Shape, GcPC
  <2>2. Locks'
    BY <1>15 DEF Shape, Locks, Stacks, Ranges, Owners, GcLook, SweepOver, tableRest, WorkerPC, GcPC
  <2>3. Stacks'
    BY <1>15 DEF Shape, Locks, Stacks, Ranges, Owners, GcLook, SweepOver, tableRest, WorkerPC, GcPC
  <2>4. Ranges'
    BY <1>15 DEF Shape, Locks, Stacks, Ranges, Owners, GcLook, SweepOver, tableRest, WorkerPC, GcPC
  <2>5. Owners'
    BY <1>15 DEF Shape, Locks, Stacks, Ranges, Owners, GcLook, SweepOver, tableRest, WorkerPC, GcPC
  <2> QED BY <2>1, <2>2, <2>3, <2>4, <2>5
<1>16. ASSUME GcPing PROVE Structure'
  <2>1. Shape'
    <3>1. PICK expired \in BOOLEAN : gc' = [gc EXCEPT !.pc = "recheck", !.expired = expired]
      BY <1>16, Zenon DEF GcPing, Answers
    <3> QED BY <1>16, <3>1 DEF GcPing, tableRest, Shape, GcPC
  <2>2. Locks'
    BY <1>16 DEF Shape, Locks, Stacks, Ranges, Owners, GcPing, Answers, tableRest, WorkerPC, GcPC
  <2>3. Stacks'
    BY <1>16 DEF Shape, Locks, Stacks, Ranges, Owners, GcPing, Answers, tableRest, WorkerPC, GcPC
  <2>4. Ranges'
    BY <1>16 DEF Shape, Locks, Stacks, Ranges, Owners, GcPing, Answers, tableRest, WorkerPC, GcPC
  <2>5. Owners'
    BY <1>16 DEF Shape, Locks, Stacks, Ranges, Owners, GcPing, Answers, tableRest, WorkerPC, GcPC
  <2> QED BY <2>1, <2>2, <2>3, <2>4, <2>5
<1>17. ASSUME GcKeep PROVE Structure'
  BY <1>17 DEF Shape, Locks, Stacks, Ranges, Owners, GcKeep, Scanning, tableRest, WorkerPC, GcPC
<1>18. ASSUME GcReap PROVE Structure'
  <2>1. Shape'
    <3>1. gc.at \in Index /\ (slot[gc.at] \in Values \/ slot[gc.at] = Null)
      BY <1>18 DEF GcReap, Shape, Ranges
    <3>2. slot' \in [Index -> Values \cup {Null}]
      BY <1>18, <3>1 DEF GcReap, Cleared, Shape
    <3>3. rc' \in [Values -> Int]
      <4>1. \A v \in Values : rc[v] - 1 \in Int
        BY DEF Shape
      <4> QED BY <1>18, <4>1 DEF GcReap, decr_refcount, Shape
    <3> QED BY <1>18, <3>2, <3>3 DEF GcReap, tableRest, Shape, GcPC
  <2>2. Locks'
    BY <1>18 DEF Shape, Locks, Stacks, Ranges, Owners, GcReap, StillThere, Load, Cleared, decr_refcount, tableRest, WorkerPC, GcPC
  <2>3. Stacks'
    BY <1>18 DEF Shape, Locks, Stacks, Ranges, Owners, GcReap, StillThere, Load, Cleared, decr_refcount, tableRest, WorkerPC, GcPC
  <2>4. Ranges'
    BY <1>18 DEF Shape, Locks, Stacks, Ranges, Owners, GcReap, StillThere, Load, Cleared, decr_refcount, tableRest, WorkerPC, GcPC
  <2>5. Owners'
    BY <1>18 DEF Shape, Locks, Stacks, Ranges, Owners, GcReap, StillThere, Load, Cleared, decr_refcount, tableRest, WorkerPC, GcPC
  <2> QED BY <2>1, <2>2, <2>3, <2>4, <2>5
<1>19. ASSUME GcReapEnd PROVE Structure'
  <2>1. Shape'
    BY <1>19 DEF Shape, Locks, Stacks, Ranges, Owners, GcReapEnd, Push, Scanning, tableRest, WorkerPC, GcPC
  <2>2. Locks'
    BY <1>19 DEF Shape, Locks, Stacks, Ranges, Owners, GcReapEnd, Push, Scanning, tableRest, WorkerPC, GcPC
  <2>3. Stacks'
    BY <1>19 DEF Shape, Locks, Stacks, Ranges, Owners, GcReapEnd, Push, Scanning, tableRest, WorkerPC, GcPC
  <2>4. Ranges'
    BY <1>19 DEF Shape, Locks, Stacks, Ranges, Owners, GcReapEnd, Push, Scanning, tableRest, WorkerPC, GcPC
  <2>5. Owners'
    BY <1>19 DEF Shape, Locks, Stacks, Ranges, Owners, GcReapEnd, Push, Scanning, tableRest, WorkerPC, GcPC
  <2> QED BY <2>1, <2>2, <2>3, <2>4, <2>5
<1>20. ASSUME DtorBegin PROVE Structure'
  BY <1>20 DEF Shape, Locks, Stacks, Ranges, Owners, DtorBegin, WorkerPC, GcPC
<1>21. ASSUME DtorBroadcast PROVE Structure'
  BY <1>21 DEF Shape, Locks, Stacks, Ranges, Owners, DtorBroadcast, WorkerPC, GcPC
<1>22. ASSUME DtorJoin PROVE Structure'
  BY <1>22 DEF Shape, Locks, Stacks, Ranges, Owners, DtorJoin, WorkerPC, GcPC
<1>23. ASSUME NEW n \in Natives, Die(n) PROVE Structure'
  BY <1>23 DEF Shape, Locks, Stacks, Ranges, Owners, Die, WorkerPC, GcPC
<1>24. ASSUME UNCHANGED vars PROVE Structure'
  BY <1>24 DEF Shape, Locks, Stacks, Ranges, Owners, vars, WorkerPC, GcPC
<1> QED
  BY <1>1, <1>2, <1>3, <1>4, <1>5, <1>6, <1>7, <1>8, <1>9, <1>10, <1>11, <1>12, <1>13, <1>14, <1>15, <1>16, <1>17, <1>18, <1>19, <1>20, <1>21, <1>22, <1>23, <1>24 DEF Next, Worker, Collector, Destructor, Finished

LEMMA StructureInit == Init => Structure
<1> SUFFICES ASSUME Init PROVE Structure
  OBVIOUS
<1> USE TableAssumption, IndexFacts, EmptySeq DEF Init, Threads, Scanning
<1>1. Shape
  <2>1. limit \in 0 .. (MaxIndex + PageSize) /\ high \in 0 .. MaxIndex
    OBVIOUS
  <2>2. gc \in [pc: GcPC, at: Nat, value: Values \cup {Null}, obj: Natives \cup {Null},
               expired: BOOLEAN]
    BY DEF GcPC
  <2>3. slot \in [Index -> Values \cup {Null}] /\ rc \in [Values -> Int]
    OBVIOUS
  <2>4. idx \in [Workers -> Index] /\ pc \in [Workers -> WorkerPC]
    BY DEF WorkerPC
  <2> QED BY <2>1, <2>2, <2>3, <2>4 DEF Shape
<1>2. Locks
  BY DEF Locks
<1>3. Stacks
  BY DEF Stacks
<1>4. Ranges
  BY DEF Ranges
<1>5. Owners
  BY DEF Owners
<1> QED BY <1>1, <1>2, <1>3, <1>4, <1>5 DEF Structure

\* The locks are held by whom the code says, every index in circulation has a
\* slot, and a thread has a value exactly while it works on one: whatever
\* overlaps, whatever the allocator returns, however the wait ends.
THEOREM StructureInvariant == Spec => []Structure
<1>1. Init => Structure
  BY StructureInit
<1>2. Structure /\ [Next]_vars => Structure'
  BY StructureStep
<1> QED BY <1>1, <1>2, PTL DEF Spec

-----------------------------------------------------------------------------
(***************************************************************************)
(* Reference counts.                                                       *)
(***************************************************************************)
Counted == rc \in [Values -> Nat] /\ CountsExact

\* What takes part in a count is finite, in every state.
LEMMA FiniteHolders ==
    ASSUME NEW f, NEW v
    PROVE  /\ IsFiniteSet({i \in Index : f[i] = v}) /\ Cardinality({i \in Index : f[i] = v}) \in Nat
           /\ IsFiniteSet({w \in Workers : f[w] = v}) /\ Cardinality({w \in Workers : f[w] = v}) \in Nat
<1>1. IsFiniteSet(Index)
  BY FS_Interval, TableAssumption DEF Index
<1>2. {i \in Index : f[i] = v} \in SUBSET Index /\ {w \in Workers : f[w] = v} \in SUBSET Workers
  OBVIOUS
<1> QED BY <1>1, <1>2, FS_Subset, FS_CardinalityType, TableAssumption

One(P) == IF P THEN 1 ELSE 0

\* A place that held nothing comes to hold x: one holder more, for x only.
LEMMA Gain ==
    ASSUME NEW D, NEW f \in [D -> Values \cup {Null}], NEW d \in D, f[d] = Null,
           NEW x \in Values, NEW v \in Values, IsFiniteSet({e \in D : f[e] = v})
    PROVE  Cardinality({e \in D : [f EXCEPT ![d] = x][e] = v})
             = Cardinality({e \in D : f[e] = v}) + One(v = x)
<1>1. d \notin {e \in D : f[e] = v}
  BY TableAssumption
<1>2. CASE v = x
  <2>1. {e \in D : [f EXCEPT ![d] = x][e] = v} = {e \in D : f[e] = v} \cup {d}
    BY <1>2
  <2> QED BY <1>1, <1>2, <2>1, FS_AddElement DEF One
<1>3. CASE v # x
  <2>1. {e \in D : [f EXCEPT ![d] = x][e] = v} = {e \in D : f[e] = v}
    BY <1>1, <1>3
  <2>2. Cardinality({e \in D : f[e] = v}) \in Nat
    BY FS_CardinalityType
  <2> QED BY <1>3, <2>1, <2>2 DEF One
<1> QED BY <1>2, <1>3

\* A place that held x comes to hold nothing: one holder less, for x only.
LEMMA Loss ==
    ASSUME NEW D, NEW f \in [D -> Values \cup {Null}], NEW d \in D, f[d] \in Values,
           NEW v \in Values, IsFiniteSet({e \in D : f[e] = v})
    PROVE  /\ Cardinality({e \in D : [f EXCEPT ![d] = Null][e] = v})
                = Cardinality({e \in D : f[e] = v}) - One(v = f[d])
           /\ v = f[d] => Cardinality({e \in D : f[e] = v}) >= 1
<1>0. Cardinality({e \in D : f[e] = v}) \in Nat
  BY FS_CardinalityType
<1>2. CASE v = f[d]
  <2>1. {e \in D : [f EXCEPT ![d] = Null][e] = v} = {e \in D : f[e] = v} \ {d}
    BY <1>2, TableAssumption
  <2>2. d \in {e \in D : f[e] = v}
    BY <1>2
  <2>3. Cardinality({e \in D : f[e] = v}) # 0
    BY <2>2, FS_EmptySet
  <2>4. Cardinality({e \in D : f[e] = v} \ {d}) = Cardinality({e \in D : f[e] = v}) - 1
    BY <2>2, FS_RemoveElement
  <2>5. One(v = f[d]) = 1
    BY <1>2 DEF One
  <2> QED BY <1>0, <1>2, <2>1, <2>3, <2>4, <2>5
<1>3. CASE v # f[d]
  <2>1. {e \in D : [f EXCEPT ![d] = Null][e] = v} = {e \in D : f[e] = v}
    BY <1>3, TableAssumption
  <2> QED BY <1>0, <1>3, <2>1 DEF One
<1> QED BY <1>2, <1>3

\* The counts after a step, for the value v.
CountAfter(v) == /\ rc'[v] \in Nat
                 /\ dtor' # "done" =>
                      rc'[v] = Cardinality({i \in Index : slot'[i] = v})
                                 + Cardinality({w \in Workers : val'[w] = v})

LEMMA CountedStep == Structure /\ Structure' /\ Counted /\ [Next]_vars => Counted'
<1> SUFFICES ASSUME Structure, Structure', Counted, [Next]_vars PROVE Counted'
  OBVIOUS
<1> SUFFICES ASSUME NEW v \in Values PROVE CountAfter(v)
  <2>1. Counted' <=> rc' \in [Values -> Nat] /\ (dtor' # "done" =>
            \A u \in Values : rc'[u] = Cardinality({i \in Index : slot'[i] = u})
                                        + Cardinality({w \in Workers : val'[w] = u}))
    BY DEF Counted, CountsExact, Slots, Holders
  <2>2. rc' \in [Values -> Int]
    BY DEF Structure, Shape
  <2> QED BY <2>1, <2>2 DEF CountAfter
<1> DEFINE nSlots == Cardinality({i \in Index : slot[i] = v})
           nHolders == Cardinality({w \in Workers : val[w] = v})
<1>f. /\ IsFiniteSet({i \in Index : slot[i] = v}) /\ nSlots \in Nat
      /\ IsFiniteSet({w \in Workers : val[w] = v}) /\ nHolders \in Nat
  BY FiniteHolders
<1>c. rc[v] \in Nat /\ (dtor # "done" => rc[v] = nSlots + nHolders)
  BY DEF Counted, CountsExact, Slots, Holders
<1>t. /\ slot \in [Index -> Values \cup {Null}] /\ val \in [Workers -> Values \cup {Null}]
      /\ rc \in [Values -> Nat]
  BY DEF Structure, Shape, Counted
<1> HIDE DEF nSlots, nHolders
<1>same. ASSUME UNCHANGED <<slot, val, rc>>, dtor' = "done" \/ dtor # "done" \/ dtor' = dtor
         PROVE CountAfter(v)
  BY <1>same, <1>c DEF CountAfter, nSlots, nHolders
<1>1. ASSUME NEW w \in Workers, NEW n \in Natives, NextIndex(w, n) PROVE CountAfter(v)
  <2>1. PICK x \in Fresh : rc' = [rc EXCEPT ![x] = 1] /\ val' = [val EXCEPT ![w] = x]
    BY <1>1 DEF NextIndex
  <2>2. x \in Values /\ rc[x] = 0 /\ val[w] = Null /\ dtor # "done" /\ slot' = slot
    BY <1>1, <2>1 DEF NextIndex, Serving, Fresh, Structure, Owners, tableVars
  <2>3. Cardinality({u \in Workers : val'[u] = v}) = nHolders + One(v = x)
    BY <1>f, <1>t, <2>1, <2>2, Gain DEF nHolders
  <2>4. rc'[v] = rc[v] + One(v = x)
    BY <1>t, <2>1, <2>2 DEF One
  <2>5. One(v = x) \in Nat
    BY DEF One
  <2> QED BY <1>c, <1>f, <2>2, <2>3, <2>4, <2>5 DEF CountAfter, nSlots
<1>2. ASSUME NEW w \in Workers, Bind(w), CanBind(idx[w]) PROVE CountAfter(v)
  <2>1. /\ rc' = [rc EXCEPT ![val[w]] = @ + 1] /\ slot' = [slot EXCEPT ![idx[w]] = val[w]]
        /\ val' = val /\ dtor' = dtor
    BY <1>2 DEF Bind, incr_refcount, dtorVars
  <2>2. val[w] \in Values /\ idx[w] \in Index /\ slot[idx[w]] = Null /\ dtor # "done"
    BY <1>2 DEF Bind, CanBind, Structure, Shape, Owners
  <2>3. Cardinality({i \in Index : slot'[i] = v}) = nSlots + One(v = val[w])
    BY <1>f, <1>t, <2>1, <2>2, Gain DEF nSlots
  <2>4. rc'[v] = rc[v] + One(v = val[w])
    BY <1>t, <2>1, <2>2 DEF One
  <2>5. One(v = val[w]) \in Nat
    BY DEF One
  <2> QED BY <1>c, <1>f, <2>1, <2>2, <2>3, <2>4, <2>5 DEF CountAfter, nHolders
<1>3. ASSUME NEW w \in Workers, NEW i \in Index, Find(w, i) PROVE CountAfter(v)
  <2>1. /\ rc' = [rc EXCEPT ![slot[i]] = @ + 1] /\ val' = [val EXCEPT ![w] = slot[i]]
        /\ slot' = slot
    BY <1>3 DEF Find, incr_refcount, tableVars
  <2>2. slot[i] \in Values /\ val[w] = Null /\ dtor # "done"
    BY <1>3, <1>t DEF Find, Serving, Structure, Owners
  <2>3. Cardinality({u \in Workers : val'[u] = v}) = nHolders + One(v = slot[i])
    BY <1>f, <1>t, <2>1, <2>2, Gain DEF nHolders
  <2>4. rc'[v] = rc[v] + One(v = slot[i])
    BY <1>t, <2>1, <2>2 DEF One
  <2>5. One(v = slot[i]) \in Nat
    BY DEF One
  <2> QED BY <1>c, <1>f, <2>1, <2>2, <2>3, <2>4, <2>5 DEF CountAfter, nSlots
<1>4. ASSUME NEW w \in Workers, NEW i \in Index, Unbind(w, i) PROVE CountAfter(v)
  <2>1. slot' = [slot EXCEPT ![i] = Null] /\ val' = [val EXCEPT ![w] = slot[i]] /\ rc' = rc
    BY <1>4 DEF Unbind, Cleared, valueVars
  <2>2. slot[i] \in Values /\ val[w] = Null /\ dtor # "done"
    BY <1>4, <1>t DEF Unbind, Serving, Structure, Owners
  <2>3. Cardinality({u \in Workers : val'[u] = v}) = nHolders + One(v = slot[i])
    BY <1>f, <1>t, <2>1, <2>2, Gain DEF nHolders
  <2>4. Cardinality({j \in Index : slot'[j] = v}) = nSlots - One(v = slot[i])
    BY <1>f, <1>t, <2>1, <2>2, Loss DEF nSlots
  <2>5. One(v = slot[i]) \in Nat
    BY DEF One
  <2> QED BY <1>c, <1>f, <2>1, <2>2, <2>3, <2>4, <2>5 DEF CountAfter
<1>5. ASSUME NEW w \in Workers, Release(w) PROVE CountAfter(v)
  <2>1. rc' = [rc EXCEPT ![val[w]] = @ - 1] /\ val' = [val EXCEPT ![w] = Null] /\ slot' = slot
    BY <1>5 DEF Release, decr_refcount, tableVars
  <2>2. val[w] \in Values /\ dtor # "done"
    BY <1>5, <1>t DEF Release, Structure, Owners
  <2>3. /\ Cardinality({u \in Workers : val'[u] = v}) = nHolders - One(v = val[w])
        /\ v = val[w] => nHolders >= 1
    <3>1. /\ Cardinality({u \in Workers : [val EXCEPT ![w] = Null][u] = v})
               = Cardinality({u \in Workers : val[u] = v}) - One(v = val[w])
          /\ v = val[w] => Cardinality({u \in Workers : val[u] = v}) >= 1
      BY <1>f, <1>t, <2>2, Loss
    <3> QED BY <2>1, <3>1 DEF nHolders
  <2>4. rc'[v] = rc[v] - One(v = val[w])
    BY <1>t, <2>1, <2>2 DEF One
  <2>5. One(v = val[w]) \in Nat /\ One(v = val[w]) <= nHolders
    BY <1>f, <2>3 DEF One
  <2> QED BY <1>c, <1>f, <2>1, <2>2, <2>3, <2>4, <2>5 DEF CountAfter, nSlots
<1>6. ASSUME GcReap PROVE CountAfter(v)
  <2>0. gc.at \in Index
    BY <1>6, IndexFacts, TableAssumption DEF GcReap, Structure, Shape, Ranges
  <2>a. dtor # "done"
    BY <1>6 DEF GcReap, Structure, Owners
  <2>1. /\ rc' = [rc EXCEPT ![slot[gc.at]] = @ - 1] /\ slot' = [slot EXCEPT ![gc.at] = Null]
        /\ val' = val
    BY <1>6 DEF GcReap, Cleared, decr_refcount, tableRest, workerVars
  <2>2. CASE slot[gc.at] \in Values
    <3>1. /\ Cardinality({j \in Index : slot'[j] = v}) = nSlots - One(v = slot[gc.at])
          /\ v = slot[gc.at] => nSlots >= 1
      <4>1. /\ Cardinality({j \in Index : [slot EXCEPT ![gc.at] = Null][j] = v})
                 = Cardinality({j \in Index : slot[j] = v}) - One(v = slot[gc.at])
            /\ v = slot[gc.at] => Cardinality({j \in Index : slot[j] = v}) >= 1
        BY <1>f, <1>t, <2>0, <2>2, Loss
      <4> QED BY <2>1, <4>1 DEF nSlots
    <3>2. rc'[v] = rc[v] - One(v = slot[gc.at])
      BY <1>t, <2>1, <2>2 DEF One
    <3>3. One(v = slot[gc.at]) \in Nat /\ One(v = slot[gc.at]) <= nSlots
      BY <1>f, <3>1 DEF One
    <3> QED BY <1>c, <1>f, <2>a, <2>1, <3>1, <3>2, <3>3 DEF CountAfter, nHolders
  <2>3. CASE slot[gc.at] = Null
    <3>1. slot' = slot /\ rc' = rc
      BY <1>t, <2>0, <2>1, <2>3, TableAssumption
    <3> QED BY <3>1, <2>1, <2>a, <1>same
  <2> QED BY <1>t, <2>0, <2>2, <2>3
<1>7. ASSUME NEW w \in Workers, Bind(w), ~CanBind(idx[w]) PROVE CountAfter(v)
  BY <1>7, <1>same DEF Bind, dtorVars
<1>8. ASSUME NEW w \in Workers, NextIndexEnd(w) PROVE CountAfter(v)
  BY <1>8, <1>same DEF NextIndexEnd, valueVars, dtorVars
<1>9. ASSUME NEW w \in Workers, UnbindEnd(w) PROVE CountAfter(v)
  BY <1>9, <1>same DEF UnbindEnd, valueVars, dtorVars
<1>10. ASSUME GcLoop \/ GcWait \/ GcSpurious \/ GcBreak \/ GcTimeout PROVE CountAfter(v)
  BY <1>10, <1>same DEF GcLoop, GcWait, GcSpurious, GcBreak, GcTimeout, tableRest, workerVars, dtorVars
<1>11. ASSUME GcSweepEnd \/ GcSkip \/ GcLook \/ GcPing \/ GcKeep \/ GcReapEnd PROVE CountAfter(v)
  BY <1>11, <1>same DEF GcSweepEnd, GcSkip, GcLook, GcPing, GcKeep, GcReapEnd, tableRest, workerVars, dtorVars
<1>12. ASSUME Destructor PROVE CountAfter(v)
  <2>1. CASE DtorBegin \/ DtorBroadcast
    BY <2>1, <1>same DEF DtorBegin, DtorBroadcast, tableVars, valueVars, workerVars
  <2>2. CASE DtorJoin
    BY <2>2, <1>c DEF DtorJoin, valueVars, CountAfter
  <2> QED BY <1>12, <2>1, <2>2 DEF Destructor
<1>13. ASSUME UNCHANGED vars \/ \E n \in Natives : Die(n) PROVE CountAfter(v)
  BY <1>13, <1>same DEF vars, Die, tableVars, valueVars, workerVars, dtorVars
<1> QED
  BY <1>1, <1>2, <1>3, <1>4, <1>5, <1>6, <1>7, <1>8, <1>9, <1>10, <1>11, <1>12, <1>13
  DEF Next, Worker, Collector, Finished

LEMMA CountedInit == Init => Counted
<1> SUFFICES ASSUME Init PROVE Counted
  OBVIOUS
<1>1. rc = [v \in Values |-> 0]
  BY DEF Init
<1>2. ASSUME NEW v \in Values PROVE Slots(v) = {} /\ Holders(v) = {}
  <2>1. Null # v
    BY TableAssumption
  <2> QED BY <2>1 DEF Init, Slots, Holders
<1>3. Cardinality({}) = 0
  BY FS_EmptySet
<1>4. ASSUME NEW v \in Values
      PROVE rc[v] = Cardinality(Slots(v)) + Cardinality(Holders(v))
  BY <1>1, <1>2, <1>3
<1> QED BY <1>1, <1>4 DEF Counted, CountsExact

\* Every reference count equals the number of slots and threads that hold the
\* value, for any number of ORB threads next to the collector and in spite of
\* overlapping free stack accesses, reused addresses and spurious wakeups: a
\* value in the table or in use is never deleted.
THEOREM CountsCorrect == Spec => []CountsExact
<1>1. Init => Counted
  BY CountedInit
<1>2. Structure /\ Structure' /\ Counted /\ [Next]_vars => Counted'
  BY CountedStep
<1>3. Counted => CountsExact
  BY DEF Counted
<1> QED BY <1>1, <1>2, <1>3, StructureInvariant, PTL DEF Spec

\* Every variable keeps its type; that a count never becomes negative rests on
\* its being exact.
THEOREM TypeCorrect == Spec => []TypeOK
<1>1. Init => Counted
  BY CountedInit
<1>2. Structure /\ Structure' /\ Counted /\ [Next]_vars => Counted'
  BY CountedStep
<1>3. Structure /\ Counted => TypeOK
  BY DEF Structure, Shape, Stacks, Ranges, Counted, TypeOK
<1> QED BY <1>1, <1>2, <1>3, StructureInvariant, PTL DEF Spec

-----------------------------------------------------------------------------
(***************************************************************************)
(* Proofs about the indices of RMVByMapped, for any number of threads,     *)
(* values, natives and indices: who has an index, what a bind finds, on    *)
(* whose word a mapping is reaped, and that the whole is the atomic table  *)
(* of MappingTable.  Where the program needs luck to be right the theorem  *)
(* says so by excluding a hazard: the overlap of a pop with a push, or the *)
(* reuse of an address that the collector still compares with.             *)
(***************************************************************************)

(***************************************************************************)
(* Stacks of distinct indices.                                             *)
(***************************************************************************)
On(s, i)    == \E k \in 1 .. Len(s) : s[k] = i
Distinct(s) == \A j, k \in 1 .. Len(s) : s[j] = s[k] => j = k

\* What next_index leaves of the stack has lost its top and nothing else.
LEMMA PopDistinct ==
    ASSUME NEW S, NEW s \in Seq(S), s # <<>>, Distinct(s)
    PROVE  /\ Distinct(Tail(s)) /\ On(s, Head(s))
           /\ \A i : On(Tail(s), i) <=> On(s, i) /\ i # Head(s)
<1>1. /\ Len(s) \in Nat \ {0} /\ Head(s) = s[1] /\ Len(Tail(s)) = Len(s) - 1
      /\ \A k \in 1 .. Len(Tail(s)) : Tail(s)[k] = s[k + 1]
  BY PopElements
<1>2. Distinct(Tail(s))
  <2> SUFFICES ASSUME NEW j \in 1 .. Len(Tail(s)), NEW k \in 1 .. Len(Tail(s)), Tail(s)[j] = Tail(s)[k]
               PROVE  j = k
    BY DEF Distinct
  <2>1. j + 1 \in 1 .. Len(s) /\ k + 1 \in 1 .. Len(s) /\ s[j + 1] = s[k + 1]
    BY <1>1
  <2>2. j + 1 = k + 1
    BY <2>1 DEF Distinct
  <2> QED BY <2>2
<1>3. On(s, Head(s))
  BY <1>1 DEF On
<1>4. ASSUME NEW i, On(Tail(s), i) PROVE On(s, i) /\ i # Head(s)
  <2>1. PICK k \in 1 .. Len(Tail(s)) : Tail(s)[k] = i
    BY <1>4 DEF On
  <2>2. k + 1 \in 1 .. Len(s) /\ s[k + 1] = i /\ 1 \in 1 .. Len(s) /\ k + 1 # 1
    BY <1>1, <2>1
  <2> QED BY <1>1, <2>2 DEF On, Distinct
<1>5. ASSUME NEW i, On(s, i), i # Head(s) PROVE On(Tail(s), i)
  <2>1. PICK k \in 1 .. Len(s) : s[k] = i
    BY <1>5 DEF On
  <2>2. k - 1 \in 1 .. Len(Tail(s)) /\ (k - 1) + 1 = k
    BY <1>1, <1>5, <2>1
  <2>3. Tail(s)[k - 1] = i
    BY <1>1, <2>1, <2>2
  <2> QED BY <2>2, <2>3 DEF On
<1> QED BY <1>2, <1>3, <1>4, <1>5

\* The stack with a new node has one index more.
LEMMA PushDistinct ==
    ASSUME NEW S, NEW s \in Seq(S), NEW x \in S, Distinct(s), ~On(s, x)
    PROVE  /\ Distinct(<<x>> \o s)
           /\ \A i : On(<<x>> \o s, i) <=> i = x \/ On(s, i)
<1> DEFINE p == <<x>> \o s
<1>1. /\ Len(p) = Len(s) + 1 /\ Len(s) \in Nat /\ p[1] = x
      /\ \A k \in 1 .. Len(s) : p[k + 1] = s[k]
  BY PushElements
<1> HIDE DEF p
<1>2. \A k \in 1 .. Len(p) : k = 1 \/ (k - 1 \in 1 .. Len(s) /\ p[k] = s[k - 1])
  <2> SUFFICES ASSUME NEW k \in 1 .. Len(p), k # 1 PROVE k - 1 \in 1 .. Len(s) /\ p[k] = s[k - 1]
    OBVIOUS
  <2>1. k - 1 \in 1 .. Len(s) /\ (k - 1) + 1 = k
    BY <1>1
  <2> QED BY <1>1, <2>1
<1>3. Distinct(p)
  <2> SUFFICES ASSUME NEW j \in 1 .. Len(p), NEW k \in 1 .. Len(p), p[j] = p[k] PROVE j = k
    BY DEF Distinct
  <2>1. CASE j = 1 \/ k = 1
    BY <1>1, <1>2, <2>1 DEF On
  <2>2. CASE j # 1 /\ k # 1
    <3>1. j - 1 = k - 1
      BY <1>2, <2>2 DEF Distinct
    <3> QED BY <1>1, <3>1
  <2> QED BY <2>1, <2>2
<1>4. ASSUME NEW i, On(p, i) PROVE i = x \/ On(s, i)
  BY <1>1, <1>2, <1>4 DEF On
<1>5. ASSUME NEW i, i = x \/ On(s, i) PROVE On(p, i)
  <2>1. CASE i = x
    BY <1>1, <2>1 DEF On
  <2>2. CASE On(s, i)
    <3>1. PICK k \in 1 .. Len(s) : s[k] = i
      BY <2>2 DEF On
    <3>2. k + 1 \in 1 .. Len(p) /\ p[k + 1] = i
      BY <1>1, <3>1
    <3> QED BY <3>2 DEF On
  <2> QED BY <1>5, <2>1, <2>2
<1> QED BY <1>3, <1>4, <1>5 DEF p

-----------------------------------------------------------------------------
(***************************************************************************)
(* What the collector has noted down before it gave up the lock.           *)
(***************************************************************************)

\* It pings for a value that was in the table ...
Noted == gc.pc \in {"ping", "recheck"} => gc.value # Null

\* ... and, when no address is reused, for that value's own native object.
OwnObject == gc.value # Null => gc.value \in Values /\ orig[gc.value] = gc.obj

GcType == [pc: GcPC, at: Nat, value: Values \cup {Null}, obj: Natives \cup {Null},
           expired: BOOLEAN]

\* A step of anybody else leaves the collector's notes alone.
LEMMA NotesKept ==
    ASSUME Structure,
           \/ \E w \in Workers : Worker(w)
           \/ Destructor \/ (\E n \in Natives : Die(n)) \/ UNCHANGED vars
    PROVE  /\ gc'.value = gc.value /\ gc'.obj = gc.obj
           /\ gc'.pc \in {"ping", "recheck"} => gc.pc \in {"ping", "recheck"}
<1>g. gc \in GcType
  BY DEF Structure, Shape, GcType
<1>1. ASSUME NEW w \in Workers, Worker(w) PROVE gc' = gc
  BY <1>1 DEF Worker, NextIndex, NextIndexEnd, Bind, Find, Unbind, UnbindEnd, Release
<1>2. CASE DtorBroadcast
  BY <1>2, <1>g DEF DtorBroadcast, GcType
<1>3. CASE DtorBegin \/ DtorJoin
  BY <1>3 DEF DtorBegin, DtorJoin
<1>4. CASE (\E n \in Natives : Die(n)) \/ UNCHANGED vars
  BY <1>4 DEF Die, vars
<1> QED BY <1>1, <1>2, <1>3, <1>4 DEF Destructor

LEMMA NotedStep == Structure /\ Noted /\ [Next]_vars => Noted'
<1> SUFFICES ASSUME Structure, Noted, [Next]_vars PROVE Noted'
  OBVIOUS
<1>g. gc \in GcType
  BY DEF Structure, Shape, GcType
<1>1. CASE Collector
  <2>1. CASE GcLoop \/ GcWait \/ GcSpurious \/ GcBreak \/ GcSweepEnd
    BY <2>1, <1>g DEF GcLoop, GcWait, GcSpurious, GcBreak, GcSweepEnd, LoopTest, GcType, Noted
  <2>2. CASE GcTimeout \/ GcSkip \/ GcKeep \/ GcReapEnd
    BY <2>2 DEF GcTimeout, GcSkip, GcKeep, GcReapEnd, Scanning, Noted
  <2>3. CASE GcLook
    BY <2>3, <1>g DEF GcLook, GcType, Noted
  <2>4. CASE GcPing
    BY <2>4, <1>g DEF GcPing, GcType, Noted
  <2>5. CASE GcReap
    BY <2>5, <1>g DEF GcReap, GcType, Noted
  <2> QED BY <1>1, <2>1, <2>2, <2>3, <2>4, <2>5 DEF Collector
<1>2. CASE ~Collector
  BY <1>2, NotesKept DEF Next, Finished, Noted
<1> QED BY <1>1, <1>2

LEMMA OwnObjectStep ==
    ASSUME ~Reuse PROVE Structure /\ OwnObject /\ [Next]_vars => OwnObject'
<1> SUFFICES ASSUME Structure, OwnObject, [Next]_vars PROVE OwnObject'
  OBVIOUS
<1> USE TableAssumption
<1>g. gc \in GcType /\ orig \in [Values -> Natives \cup {Null}] /\ slot \in [Index -> Values \cup {Null}]
  BY DEF Structure, Shape, GcType
<1>1. CASE Collector
  <2>0. orig' = orig
    BY <1>1 DEF Collector, GcLoop, GcWait, GcSpurious, GcBreak, GcTimeout, GcSweepEnd, GcSkip, GcLook,
                GcPing, GcKeep, GcReap, GcReapEnd, tableRest
  <2>1. CASE GcLoop \/ GcWait \/ GcSpurious \/ GcBreak \/ GcSweepEnd
    BY <2>0, <2>1, <1>g DEF GcLoop, GcWait, GcSpurious, GcBreak, GcSweepEnd, GcType, OwnObject
  <2>2. CASE GcTimeout \/ GcSkip \/ GcKeep \/ GcReapEnd
    BY <2>2 DEF GcTimeout, GcSkip, GcKeep, GcReapEnd, Scanning, OwnObject
  <2>3. CASE GcLook
    <3>1. gc.at \in Index
      BY <2>3, IndexFacts DEF GcLook, SweepOver, Structure, Shape
    <3> QED BY <2>0, <2>3, <3>1, <1>g DEF GcLook, GcType, OwnObject
  <2>4. CASE GcPing
    BY <2>0, <2>4, <1>g DEF GcPing, GcType, OwnObject
  <2>5. CASE GcReap
    BY <2>0, <2>5, <1>g DEF GcReap, GcType, OwnObject
  <2> QED BY <1>1, <2>1, <2>2, <2>3, <2>4, <2>5 DEF Collector
<1>2. CASE \E w \in Workers, n \in Natives : NextIndex(w, n)
  <2>1. PICK n \in Natives, v \in Fresh : orig' = [orig EXCEPT ![v] = n] /\ gc' = gc
    BY <1>2 DEF NextIndex
  <2>2. v # gc.value
    BY DEF Fresh
  <2> QED BY <1>g, <2>1, <2>2 DEF OwnObject
<1>3. CASE ~Collector /\ ~\E w \in Workers, n \in Natives : NextIndex(w, n)
  <2>1. gc'.value = gc.value /\ gc'.obj = gc.obj
    BY <1>3, NotesKept DEF Next, Finished
  <2>2. orig' = orig
    BY <1>3 DEF Next, Worker, NextIndexEnd, Bind, Find, Unbind, UnbindEnd, Release, Destructor,
                DtorBegin, DtorBroadcast, DtorJoin, Die, Finished, vars, valueVars
  <2> QED BY <2>1, <2>2 DEF OwnObject
<1> QED BY <1>1, <1>2, <1>3

\* When no address is reused while the collector still compares with it, a
\* mapping is reaped only on the word of its own native object, although the
\* ping ran without the lock.
THEOREM ReapsItsOwn == ASSUME ~Reuse PROVE Spec => ReapsPinged
<1>1. Init => OwnObject /\ Noted
  BY DEF Init, OwnObject, Noted, Scanning
<1>2. Structure /\ OwnObject /\ Noted /\ [Next]_vars => (OwnObject /\ Noted)'
  BY NotedStep, OwnObjectStep
<1>3. OwnObject /\ Noted /\ [Next]_vars => [GcReap => orig[slot[gc.at]] = gc.obj]_vars
  BY DEF OwnObject, Noted, GcReap, StillThere
<1> QED BY <1>1, <1>2, <1>3, StructureInvariant, PTL DEF Spec, ReapsPinged

-----------------------------------------------------------------------------
(***************************************************************************)
(* Without the overlap, free_stack_ is accessed by one thread at a time.   *)
(***************************************************************************)

\* Nobody pushes while somebody pops, what a thread has loaded is still the
\* stack, and the pages reach as far as the indices handed out.
Serial ==
    /\ hiLock # Null => ~Pushing
    /\ \A w \in Workers : pc[w] \in {"pop", "push"} => top[w] = free
    /\ gc.pc = "push" => top[GC] = free
    /\ high <= limit

\* The steps of the collector that look and change nothing but its own state.
Looks == GcLoop \/ GcWait \/ GcSpurious \/ GcBreak \/ GcTimeout
           \/ GcSweepEnd \/ GcSkip \/ GcLook \/ GcPing \/ GcKeep

LEMMA LooksLeave ==
    ASSUME Structure, Looks
    PROVE  /\ gc.pc # "push" /\ gc'.pc # "push"
           /\ UNCHANGED <<slot, limit, high, free, rc, orig, hiLock, pc, val, idx, top, dtor>>
<1> USE DEF tableRest, workerVars, dtorVars
<1>g. gc \in [pc: GcPC, at: Nat, value: Values \cup {Null}, obj: Natives \cup {Null},
             expired: BOOLEAN]
  BY DEF Structure, Shape
<1>1. CASE GcLoop
  BY <1>1, <1>g DEF GcLoop, LoopTest
<1>2. CASE GcWait \/ GcSpurious \/ GcBreak
  BY <1>2, <1>g DEF GcWait, GcSpurious, GcBreak
<1>3. CASE GcTimeout \/ GcSkip \/ GcKeep
  BY <1>3, <1>g DEF GcTimeout, GcSkip, GcKeep, Scanning
<1>4. CASE GcSweepEnd
  BY <1>4, <1>g DEF GcSweepEnd
<1>5. CASE GcLook
  BY <1>5, <1>g DEF GcLook
<1>6. CASE GcPing
  BY <1>6, <1>g DEF GcPing
<1> QED BY <1>1, <1>2, <1>3, <1>4, <1>5, <1>6 DEF Looks

LEMMA SerialInit == Init => Serial
BY TableAssumption DEF Init, Serial, Pushing, Scanning

LEMMA SerialStep ==
    ASSUME ~Overlap PROVE Structure /\ Serial /\ [Next]_vars => Serial'
<1> SUFFICES ASSUME Structure, Serial, [Next]_vars PROVE Serial'
  OBVIOUS
<1> USE TableAssumption DEF tableVars, valueVars, workerVars, dtorVars, Threads
<1>s. /\ \A w \in Workers : pc[w] = "pop" <=> hiLock = w
      /\ \A w \in Workers : pc[w] = "push" <=> gcLock = w
      /\ gc.pc = "push" => gcLock = GC
      /\ high \in Nat /\ limit \in Nat
      /\ pc \in [Workers -> WorkerPC] /\ hiLock \in Workers \cup {Null}
      /\ gc \in [pc: GcPC, at: Nat, value: Values \cup {Null}, obj: Natives \cup {Null},
                 expired: BOOLEAN]
      /\ top \in [Threads -> Seq(Index)]
  BY DEF Structure, Shape, Locks, Stacks
<1>1. ASSUME NEW w \in Workers, NEW n \in Natives, NextIndex(w, n) PROVE Serial'
  BY <1>1, <1>s DEF NextIndex, Load, MayLoadTop, Serial, Pushing, Serving
<1>2. ASSUME NEW w \in Workers, NextIndexEnd(w) PROVE Serial'
  <2>1. hiLock = w /\ ~Pushing /\ hiLock' = Null
    BY <1>2, <1>s DEF NextIndexEnd, Serial
  <2>2. \A u \in Workers : pc'[u] \notin {"pop", "push"}
    BY <1>2, <1>s, <2>1 DEF NextIndexEnd, Pushing
  <2>3. gc'.pc # "push"
    BY <1>2, <2>1 DEF NextIndexEnd, Pushing
  <2>4. high' <= limit'
    <3>1. CASE top[w] = <<>>
      BY <1>2, <1>s, <3>1 DEF NextIndexEnd, Grown, Serial
    <3>2. CASE top[w] # <<>>
      BY <1>2, <1>s, <3>2 DEF NextIndexEnd, Grown, Serial
    <3> QED BY <3>1, <3>2
  <2> QED BY <2>1, <2>2, <2>3, <2>4 DEF Serial, Pushing
<1>3. ASSUME NEW w \in Workers, Bind(w) PROVE Serial'
  BY <1>3, <1>s DEF Bind, Serial, Pushing
<1>4. ASSUME NEW w \in Workers, NEW i \in Index, Find(w, i) PROVE Serial'
  BY <1>4, <1>s DEF Find, Serving, Serial, Pushing
<1>5. ASSUME NEW w \in Workers, NEW i \in Index, Unbind(w, i) PROVE Serial'
  BY <1>5, <1>s DEF Unbind, Serving, Load, MayLoadTop, Serial, Pushing
<1>6. ASSUME NEW w \in Workers, UnbindEnd(w) PROVE Serial'
  <2>1. Pushing /\ hiLock = Null /\ hiLock' = Null /\ gcLock = w
    BY <1>6, <1>s DEF UnbindEnd, Serial, Pushing
  <2>2. \A u \in Workers : pc'[u] \notin {"pop", "push"}
    BY <1>6, <1>s, <2>1 DEF UnbindEnd
  <2>3. gc'.pc # "push"
    BY <1>6, <1>s, <2>1 DEF UnbindEnd
  <2> QED BY <1>6, <2>1, <2>2, <2>3 DEF Serial, UnbindEnd
<1>7. ASSUME NEW w \in Workers, Release(w) PROVE Serial'
  BY <1>7, <1>s DEF Release, Serial, Pushing
<1>8. ASSUME Looks PROVE Serial'
  BY <1>8, LooksLeave DEF Serial, Pushing
<1>9. ASSUME GcReap PROVE Serial'
  <2>1. hiLock = Null /\ ~Pushing /\ hiLock' = hiLock /\ pc' = pc
    BY <1>9 DEF GcReap, Load, MayLoadTop, tableRest
  <2>2. \A u \in Workers : pc'[u] \notin {"pop", "push"}
    BY <1>s, <2>1 DEF Pushing
  <2>3. top'[GC] = free'
    BY <1>9, <1>s DEF GcReap, Load
  <2> QED BY <1>9, <2>1, <2>2, <2>3 DEF GcReap, tableRest, Serial
<1>10. ASSUME GcReapEnd PROVE Serial'
  <2>1. Pushing /\ hiLock = Null /\ hiLock' = hiLock /\ pc' = pc /\ gcLock = GC
    BY <1>10, <1>s DEF GcReapEnd, Pushing, Serial, tableRest
  <2>2. \A u \in Workers : pc'[u] \notin {"pop", "push"}
    BY <1>s, <2>1
  <2>3. gc'.pc # "push"
    BY <1>10, <1>s DEF GcReapEnd, Scanning
  <2> QED BY <1>10, <2>1, <2>2, <2>3 DEF GcReapEnd, tableRest, Serial
<1>11. ASSUME Destructor PROVE Serial'
  <2>1. CASE DtorBegin
    BY <2>1, <1>s DEF DtorBegin, Serial, Pushing
  <2>2. CASE DtorBroadcast
    BY <2>2, <1>s DEF DtorBroadcast, Serial, Pushing
  <2>3. CASE DtorJoin
    BY <2>3, <1>s DEF DtorJoin, Serial, Pushing, Structure, Owners
  <2> QED BY <1>11, <2>1, <2>2, <2>3 DEF Destructor
<1>12. ASSUME UNCHANGED vars \/ \E n \in Natives : Die(n) PROVE Serial'
  BY <1>12, <1>s DEF vars, Die, Serial, Pushing
<1> QED
  BY <1>1, <1>2, <1>3, <1>4, <1>5, <1>6, <1>7, <1>8, <1>9, <1>10, <1>11, <1>12
  DEF Next, Worker, Collector, Finished, Looks

-----------------------------------------------------------------------------
(***************************************************************************)
(* Who has an index: IndexPartition, index by index.                       *)
(***************************************************************************)
Carries(w) == pc[w] \in {"bind", "push"}
InHand(i)  == \E w \in Workers : Carries(w) /\ idx[w] = i
Reaping    == gc.pc = "push"

\* Exactly the indices below high_index_ are somewhere ...
Accounted ==
    \A i \in Index :
        i < high <=> \/ slot[i] # Null \/ On(free, i)
                     \/ InHand(i)
                     \/ Reaping /\ gc.at = i

\* ... and in one place only.
Apart ==
    /\ Distinct(free)
    /\ \A i \in Index : slot[i] # Null => ~On(free, i)
    /\ \A w \in Workers : Carries(w) => slot[idx[w]] = Null /\ ~On(free, idx[w])
    /\ Reaping => slot[gc.at] = Null /\ ~On(free, gc.at)
    /\ \A w, u \in Workers : Carries(w) /\ Carries(u) /\ idx[w] = idx[u] => w = u
    /\ \A w \in Workers : Carries(w) /\ Reaping => idx[w] # gc.at

Parted == dtor # "done" => Accounted /\ Apart

LEMMA PartedInit == Init => Parted
<1> SUFFICES ASSUME Init PROVE Accounted /\ Apart
  BY DEF Parted
<1> USE IndexFacts DEF Init, Carries, Reaping, Scanning, On, Distinct
<1>1. Len(free) = 0
  BY EmptySeq
<1>2. Accounted
  BY <1>1 DEF Accounted, InHand
<1>3. Apart
  BY <1>1 DEF Apart
<1> QED BY <1>2, <1>3

\* A step that moves no index.
LEMMA PartedFrame ==
    ASSUME Parted, UNCHANGED <<slot, high, free>>, dtor' # "done" => dtor # "done",
           \A w \in Workers : Carries(w)' <=> Carries(w),
           \A w \in Workers : Carries(w) => idx'[w] = idx[w],
           Reaping' <=> Reaping, Reaping => gc'.at = gc.at
    PROVE  Parted'
<1> SUFFICES ASSUME dtor' # "done", Accounted, Apart PROVE Accounted' /\ Apart'
  BY DEF Parted
<1>1. Accounted'
  <2>1. \A i \in Index : InHand(i)' <=> InHand(i)
    BY DEF InHand
  <2> QED BY <2>1 DEF Accounted, On
<1>2. Apart'
  BY DEF Apart, On, Distinct
<1> QED BY <1>1, <1>2

LEMMA PartedStep ==
    ASSUME ~Overlap PROVE Structure /\ Noted /\ Serial /\ Parted /\ [Next]_vars => Parted'
<1> SUFFICES ASSUME Structure, Noted, Serial, Parted, [Next]_vars PROVE Parted'
  OBVIOUS
<1> USE TableAssumption, IndexFacts DEF tableVars, valueVars, workerVars, dtorVars, Threads
<1>s. /\ \A w \in Workers : pc[w] = "pop" <=> hiLock = w
      /\ \A w \in Workers : pc[w] = "push" <=> gcLock = w
      /\ gc.pc = "push" => gcLock = GC
      /\ high \in Nat /\ limit \in Nat
      /\ slot \in [Index -> Values \cup {Null}]
      /\ pc \in [Workers -> WorkerPC] /\ hiLock \in Workers \cup {Null}
      /\ val \in [Workers -> Values \cup {Null}] /\ idx \in [Workers -> Index]
      /\ gc \in [pc: GcPC, at: Nat, value: Values \cup {Null}, obj: Natives \cup {Null},
                 expired: BOOLEAN]
      /\ free \in Seq(Index) /\ top \in [Threads -> Seq(Index)]
  BY DEF Structure, Shape, Locks, Stacks
<1>d. \A w \in Workers : pc[w] # "idle" => dtor # "done" /\ val[w] \in Values
  BY <1>s DEF Structure, Owners
<1>1. ASSUME NEW w \in Workers, NEW n \in Natives, NextIndex(w, n) PROVE Parted'
  BY <1>1, <1>s, PartedFrame DEF NextIndex, Serving, Carries, Reaping
<1>2. ASSUME NEW w \in Workers, NextIndexEnd(w) PROVE Parted'
  <2>1. /\ ~Reaping /\ ~Reaping' /\ UNCHANGED <<slot, dtor>> /\ Accounted /\ Apart /\ top[w] = free
        /\ pc' = [pc EXCEPT ![w] = "bind"] /\ ~Carries(w) /\ Carries(w)'
        /\ \A u \in Workers \ {w} : Carries(u)' <=> Carries(u)
    BY <1>2, <1>s, <1>d DEF NextIndexEnd, Serial, Pushing, Reaping, Parted, Carries
  <2>2. CASE top[w] = <<>>
    <3>1. high' = high + 1 /\ free' = free /\ idx' = [idx EXCEPT ![w] = high] /\ high \in Index
      BY <1>2, <1>s, <2>2 DEF NextIndexEnd, Structure, Ranges
    <3>2. slot[high] = Null /\ ~On(free, high) /\ \A u \in Workers : Carries(u) => idx[u] # high
      BY <3>1, <1>s, <2>1 DEF Accounted, InHand
    <3>3. Accounted'
      <4>1. \A i \in Index : InHand(i)' <=> InHand(i) \/ i = high
        BY <3>1, <2>1, <1>s DEF InHand
      <4> QED BY <4>1, <3>1, <3>2, <2>1, <1>s DEF Accounted, On
    <3>4. Apart'
      BY <3>1, <3>2, <2>1, <1>s DEF Apart, On, Distinct
    <3> QED BY <3>3, <3>4 DEF Parted
  <2>3. CASE top[w] # <<>>
    <3> DEFINE h == Head(free)
    <3>1. high' = high /\ free' = Tail(free) /\ idx' = [idx EXCEPT ![w] = h]
      BY <1>2, <2>1, <2>3 DEF NextIndexEnd
    <3>2. /\ Distinct(free') /\ On(free, h) /\ h \in Index
          /\ \A i : On(free', i) <=> On(free, i) /\ i # h
      BY <1>s, <2>1, <2>3, <3>1, PopDistinct, PopElements DEF Apart
    <3> HIDE DEF h
    <3>3. slot[h] = Null /\ h < high /\ \A u \in Workers : Carries(u) => idx[u] # h
      BY <2>1, <3>2 DEF Accounted, Apart
    <3>4. Accounted'
      <4>1. \A i \in Index : InHand(i)' <=> InHand(i) \/ i = h
        BY <3>1, <3>2, <2>1, <1>s DEF InHand
      <4> QED BY <4>1, <3>1, <3>2, <3>3, <2>1 DEF Accounted
    <3>5. Apart'
      BY <3>1, <3>2, <3>3, <2>1, <1>s DEF Apart
    <3> QED BY <3>4, <3>5 DEF Parted
  <2> QED BY <2>2, <2>3
<1>3. ASSUME NEW w \in Workers, Bind(w) PROVE Parted'
  <2>1. /\ Accounted /\ Apart /\ UNCHANGED <<free, high, gc, dtor>> /\ Carries(w) /\ ~Carries(w)'
        /\ idx[w] \in Index /\ val[w] \in Values /\ val[w] # Null
        /\ \A u \in Workers \ {w} : (Carries(u)' <=> Carries(u)) /\ idx'[u] = idx[u]
    BY <1>3, <1>s, <1>d DEF Bind, Parted, Carries
  <2>2. slot[idx[w]] = Null /\ idx[w] < high /\ idx[w] < limit
    <3>1. slot[idx[w]] = Null /\ idx[w] < high /\ idx[w] \in Nat
      BY <2>1 DEF Accounted, InHand, Apart
    <3> QED BY <1>s, <3>1 DEF Serial
  <2>3. slot' = [slot EXCEPT ![idx[w]] = val[w]]
    BY <1>3, <2>2 DEF Bind, CanBind
  <2>4. Accounted'
    <3>1. \A i \in Index : InHand(i) <=> InHand(i)' \/ i = idx[w]
      BY <2>1 DEF InHand
    <3> QED BY <1>s, <2>1, <2>2, <2>3, <3>1 DEF Accounted, On, Reaping
  <2>5. Apart'
    <3>1. \A u \in Workers : Carries(u)' => u # w /\ Carries(u) /\ idx'[u] = idx[u] /\ idx[u] \in Index /\ idx[u] # idx[w]
      BY <1>s, <2>1 DEF Apart
    <3> QED BY <1>s, <2>1, <2>2, <2>3, <3>1 DEF Apart, On, Distinct, Reaping
  <2> QED BY <2>4, <2>5 DEF Parted
<1>4. ASSUME NEW w \in Workers, NEW i \in Index, Find(w, i) PROVE Parted'
  BY <1>4, <1>s, PartedFrame DEF Find, Serving, Carries, Reaping
<1>5. ASSUME NEW w \in Workers, NEW i \in Index, Unbind(w, i) PROVE Parted'
  <2>1. /\ Accounted /\ Apart /\ UNCHANGED <<free, high, gc, dtor>> /\ ~Carries(w) /\ Carries(w)'
        /\ slot[i] # Null /\ slot' = [slot EXCEPT ![i] = Null] /\ idx' = [idx EXCEPT ![w] = i]
        /\ \A u \in Workers \ {w} : Carries(u)' <=> Carries(u)
    BY <1>5, <1>s DEF Unbind, Serving, Cleared, Parted, Carries
  <2>2. i < high /\ ~On(free, i) /\ \A u \in Workers : Carries(u) => idx[u] # i
    BY <2>1 DEF Accounted, Apart
  <2>3. Accounted'
    <3>1. \A j \in Index : InHand(j)' <=> InHand(j) \/ j = i
      BY <1>s, <2>1 DEF InHand
    <3> QED BY <1>s, <2>1, <2>2, <3>1 DEF Accounted, On, Reaping
  <2>4. Apart'
    BY <1>s, <2>1, <2>2 DEF Apart, On, Distinct, Reaping
  <2> QED BY <2>3, <2>4 DEF Parted
<1>6. ASSUME NEW w \in Workers, UnbindEnd(w) PROVE Parted'
  <2>1. /\ Accounted /\ Apart /\ UNCHANGED <<slot, high, gc, dtor>> /\ Carries(w) /\ ~Carries(w)'
        /\ idx[w] \in Index /\ free' = <<idx[w]>> \o free
        /\ \A u \in Workers \ {w} : (Carries(u)' <=> Carries(u)) /\ idx'[u] = idx[u]
    BY <1>6, <1>s, <1>d DEF UnbindEnd, Push, Parted, Carries, Serial
  <2>2. slot[idx[w]] = Null /\ ~On(free, idx[w]) /\ idx[w] < high
    BY <2>1 DEF Accounted, InHand, Apart
  <2>3. Distinct(free') /\ \A i : On(free', i) <=> i = idx[w] \/ On(free, i)
    BY <1>s, <2>1, <2>2, PushDistinct DEF Apart
  <2>4. Accounted'
    <3>1. \A i \in Index : InHand(i) <=> InHand(i)' \/ i = idx[w]
      BY <2>1 DEF InHand
    <3> QED BY <2>1, <2>2, <2>3, <3>1 DEF Accounted, Reaping
  <2>5. Apart'
    <3>1. \A u \in Workers : Carries(u)' => u # w /\ Carries(u) /\ idx'[u] = idx[u] /\ idx[u] \in Index /\ idx[u] # idx[w]
      BY <1>s, <2>1 DEF Apart
    <3>2. \A i \in Index : slot'[i] # Null => ~On(free', i)
      BY <2>1, <2>2, <2>3 DEF Apart
    <3>3. \A u \in Workers : Carries(u)' => slot'[idx'[u]] = Null /\ ~On(free', idx'[u])
      BY <2>1, <2>3, <3>1 DEF Apart
    <3>4. Reaping' => slot'[gc'.at] = Null /\ ~On(free', gc'.at)
      BY <2>1, <2>3 DEF Apart, Reaping
    <3>5. \A y, u \in Workers : Carries(y)' /\ Carries(u)' /\ idx'[y] = idx'[u] => y = u
      BY <2>1, <3>1 DEF Apart
    <3>6. \A u \in Workers : Carries(u)' /\ Reaping' => idx'[u] # gc'.at
      BY <2>1, <3>1 DEF Apart, Reaping
    <3> QED BY <2>3, <3>2, <3>3, <3>4, <3>5, <3>6 DEF Apart
  <2> QED BY <2>4, <2>5 DEF Parted
<1>7. ASSUME NEW w \in Workers, Release(w) PROVE Parted'
  BY <1>7, <1>s, PartedFrame DEF Release, Carries, Reaping
<1>8. ASSUME Looks PROVE Parted'
  BY <1>8, LooksLeave, PartedFrame DEF Carries, Reaping
<1>9. ASSUME GcReap PROVE Parted'
  <2>1. /\ ~Reaping /\ Reaping' /\ gc'.at = gc.at /\ slot' = [slot EXCEPT ![gc.at] = Null]
        /\ UNCHANGED <<free, high, pc, idx, dtor>> /\ gc.at \in Index /\ dtor # "done"
    BY <1>9, <1>s DEF GcReap, Cleared, Reaping, tableRest, Structure, Shape, Ranges, Owners
  <2>2. Accounted /\ Apart /\ slot[gc.at] # Null
    BY <1>9, <2>1 DEF Parted, Noted, GcReap, StillThere
  <2>3. gc.at < high /\ ~On(free, gc.at) /\ \A u \in Workers : Carries(u) => idx[u] # gc.at
    BY <2>1, <2>2 DEF Accounted, Apart
  <2>4. Accounted'
    <3>1. \A i \in Index : InHand(i)' <=> InHand(i)
      BY <2>1 DEF InHand, Carries
    <3> QED BY <1>s, <2>1, <2>2, <2>3, <3>1 DEF Accounted, On
  <2>5. Apart'
    BY <1>s, <2>1, <2>2, <2>3 DEF Apart, On, Distinct, Carries
  <2> QED BY <2>4, <2>5 DEF Parted
<1>10. ASSUME GcReapEnd PROVE Parted'
  <2>1. /\ Reaping /\ ~Reaping' /\ free' = <<gc.at>> \o free
        /\ UNCHANGED <<slot, high, pc, idx, dtor>> /\ gc.at \in Index /\ dtor # "done"
    BY <1>10, <1>s DEF GcReapEnd, Push, Scanning, Reaping, tableRest, Serial, Structure, Shape, Ranges, Owners
  <2>2. Accounted /\ Apart
    BY <2>1 DEF Parted
  <2>3. slot[gc.at] = Null /\ ~On(free, gc.at) /\ gc.at < high
    BY <2>1, <2>2 DEF Accounted, Apart
  <2>4. Distinct(free') /\ \A i : On(free', i) <=> i = gc.at \/ On(free, i)
    BY <1>s, <2>1, <2>2, <2>3, PushDistinct DEF Apart
  <2>5. Accounted'
    BY <1>s, <2>1, <2>2, <2>3, <2>4 DEF Accounted, InHand, Carries
  <2>6. Apart'
    BY <1>s, <2>1, <2>2, <2>3, <2>4 DEF Apart, Carries
  <2> QED BY <2>5, <2>6 DEF Parted
<1>11. ASSUME Destructor PROVE Parted'
  <2>1. CASE DtorBegin
    BY <2>1, PartedFrame DEF DtorBegin, Carries, Reaping
  <2>2. CASE DtorBroadcast
    BY <2>2, <1>s, PartedFrame DEF DtorBroadcast, Carries, Reaping
  <2>3. CASE DtorJoin
    BY <2>3 DEF DtorJoin, Parted
  <2> QED BY <1>11, <2>1, <2>2, <2>3 DEF Destructor
<1>12. ASSUME UNCHANGED vars \/ \E n \in Natives : Die(n) PROVE Parted'
  BY <1>12, PartedFrame DEF vars, Die, Carries, Reaping
<1> QED
  BY <1>1, <1>2, <1>3, <1>4, <1>5, <1>6, <1>7, <1>8, <1>9, <1>10, <1>11, <1>12
  DEF Next, Worker, Collector, Finished, Looks

\* The parts as sets, which is how IndexPartition has them.
LEMMA PartsAsSets ==
    ASSUME Structure, dtor # "done"
    PROVE  /\ \A i : i \in OnStack <=> On(free, i)
           /\ \A i : i \in InTransit <=> InHand(i) \/ (Reaping /\ gc.at = i)
           /\ OnStack \subseteq Index /\ InTransit \subseteq Index
<1>1. \A i : i \in OnStack <=> On(free, i)
  BY DEF OnStack, On
<1>2. \A i : i \in InTransit <=> InHand(i) \/ (Reaping /\ gc.at = i)
  BY DEF InTransit, InHand, Carries, Reaping
<1>3. free \in Seq(Index) /\ idx \in [Workers -> Index] /\ limit \in 0 .. (MaxIndex + PageSize) /\ gc.at \in Nat
  BY DEF Structure, Shape, Stacks
<1>4. OnStack \subseteq Index
  BY <1>3, LenProperties, ElementOfSeq DEF OnStack
<1>5. Reaping => gc.at \in Index
  BY <1>3, IndexFacts, TableAssumption DEF Reaping, Structure, Ranges
<1> QED BY <1>1, <1>2, <1>3, <1>4, <1>5 DEF InHand

LEMMA PartedIsPartition == Structure /\ Parted => IndexPartition
<1> SUFFICES ASSUME Structure, Parted, dtor # "done" PROVE IndexPartition
  BY DEF IndexPartition
<1>1. Accounted /\ Apart
  BY DEF Parted
<1>2. /\ high \in 0 .. MaxIndex /\ \A i \in 0 .. (high - 1) : i \in Index
      /\ \A i \in Index : i < high <=> i \in 0 .. (high - 1)
  BY IndexFacts, TableAssumption DEF Structure, Shape
<1>3. Bound \cup OnStack \cup InTransit = 0 .. (high - 1)
  <2>1. \A i \in Index : i \in Bound \cup OnStack \cup InTransit <=> i < high
    BY <1>1, PartsAsSets DEF Accounted, Bound
  <2>2. Bound \cup OnStack \cup InTransit \subseteq Index
    BY PartsAsSets DEF Bound
  <2> QED BY <1>2, <2>1, <2>2
<1>4. Bound \cap OnStack = {} /\ Bound \cap InTransit = {} /\ OnStack \cap InTransit = {}
  BY <1>1, PartsAsSets DEF Bound, Apart, InHand
<1>5. \A j, k \in 1 .. Len(free) : free[j] = free[k] => j = k
  BY <1>1 DEF Apart, Distinct
<1>6. \A w \in Workers : pc[w] \in {"bind", "push"} =>
             /\ gc.pc = "push" => idx[w] # gc.at
             /\ \A u \in Workers \ {w} : pc[u] \in {"bind", "push"} => idx[u] # idx[w]
  BY <1>1 DEF Apart, Carries, Reaping
<1> QED BY <1>3, <1>4, <1>5, <1>6 DEF IndexPartition

\* The inductive invariant of the table in the absence of overlaps.
Orderly == Noted /\ Serial /\ Parted

LEMMA OrderlyInvariant == ASSUME ~Overlap PROVE Spec => []Orderly
<1>1. Init => Orderly
  BY SerialInit, PartedInit DEF Orderly, Noted, Init, Scanning
<1>2. Structure /\ Orderly /\ [Next]_vars => Orderly'
  BY NotedStep, SerialStep, PartedStep DEF Orderly
<1> QED BY <1>1, <1>2, StructureInvariant, PTL DEF Spec

\* As long as no pop overlaps a push, every index below high_index_ is bound,
\* on the free stack, or in the hands of one thread, and only one of these:
\* next_index never hands out an index in use, and none is lost.
THEOREM IndicesParted == ASSUME ~Overlap PROVE Spec => []IndexPartition
<1>1. Structure /\ Orderly => IndexPartition
  BY PartedIsPartition DEF Orderly
<1> QED BY <1>1, StructureInvariant, OrderlyInvariant, PTL

\* As long as no pop overlaps a push, bind finds the slot of the index that
\* next_index returned there and empty: add_native_unchecked loses nothing by
\* not looking at its result.
THEOREM BindsSucceed == ASSUME ~Overlap PROVE Spec => []BindSucceeds
<1>1. Structure /\ Orderly => BindSucceeds
  <2> SUFFICES ASSUME Structure, Orderly, NEW w \in Workers, pc[w] = "bind" PROVE CanBind(idx[w])
    BY DEF BindSucceeds
  <2>1. Carries(w) /\ Accounted /\ Apart
    BY DEF Carries, Structure, Owners, Orderly, Parted
  <2>2. idx[w] \in Index /\ high \in Nat /\ limit \in Nat
    BY TableAssumption DEF Structure, Shape
  <2>3. slot[idx[w]] = Null /\ idx[w] < high
    BY <2>1, <2>2 DEF Accounted, InHand, Apart
  <2>4. high <= limit /\ idx[w] \in Nat
    BY <2>2, IndexFacts DEF Orderly, Serial
  <2> QED BY <2>2, <2>3, <2>4 DEF CanBind
<1> QED BY <1>1, StructureInvariant, OrderlyInvariant, PTL

-----------------------------------------------------------------------------
(***************************************************************************)
(* The refinement of MappingTable.                                         *)
(***************************************************************************)

\* A value that a slot or a thread has stands for a native object.
Stands ==
    /\ \A i \in Index : slot[i] # Null => orig[slot[i]] \in Natives
    /\ \A w \in Workers : val[w] # Null => orig[val[w]] \in Natives

\* A fresh address is in no slot and in no thread's hands: this is where the
\* exactness of the counts is needed.
LEMMA FreshIsUnheld ==
    ASSUME Counted, dtor # "done", NEW v \in Fresh
    PROVE  /\ v \in Values
           /\ \A i \in Index : slot[i] # v
           /\ \A w \in Workers : val[w] # v
<1>1. v \in Values /\ rc[v] = 0
  BY DEF Fresh
<1>2. 0 = Cardinality(Slots(v)) + Cardinality(Holders(v))
  BY <1>1 DEF Counted, CountsExact
<1>3. /\ IsFiniteSet(Slots(v)) /\ Cardinality(Slots(v)) \in Nat
      /\ IsFiniteSet(Holders(v)) /\ Cardinality(Holders(v)) \in Nat
  BY FiniteHolders DEF Slots, Holders
<1>4. Cardinality(Slots(v)) = 0 /\ Cardinality(Holders(v)) = 0
  BY <1>2, <1>3
<1>5. Slots(v) = {} /\ Holders(v) = {}
  BY <1>3, <1>4, FS_EmptySet
<1> QED BY <1>1, <1>5 DEF Slots, Holders

LEMMA StandsStep == Structure /\ Counted /\ Stands /\ [Next]_vars => Stands'
<1> SUFFICES ASSUME Structure, Counted, Stands, [Next]_vars PROVE Stands'
  OBVIOUS
<1> USE TableAssumption DEF tableVars, valueVars, workerVars, dtorVars, tableRest
<1>t. /\ slot \in [Index -> Values \cup {Null}] /\ val \in [Workers -> Values \cup {Null}]
      /\ orig \in [Values -> Natives \cup {Null}] /\ idx \in [Workers -> Index]
  BY DEF Structure, Shape
<1>1. ASSUME NEW w \in Workers, NEW n \in Natives, NextIndex(w, n) PROVE Stands'
  <2>1. PICK v \in Fresh : orig' = [orig EXCEPT ![v] = n] /\ val' = [val EXCEPT ![w] = v]
    BY <1>1 DEF NextIndex
  <2>2. slot' = slot /\ dtor # "done"
    BY <1>1 DEF NextIndex, Serving
  <2> QED BY <1>t, <2>1, <2>2, FreshIsUnheld DEF Stands
<1>2. ASSUME NEW w \in Workers, Bind(w) PROVE Stands'
  BY <1>2, <1>t DEF Bind, Stands
<1>3. ASSUME NEW w \in Workers, NEW i \in Index, Find(w, i) \/ Unbind(w, i) PROVE Stands'
  BY <1>3, <1>t DEF Find, Unbind, Cleared, Stands
<1>4. ASSUME NEW w \in Workers, Release(w) \/ NextIndexEnd(w) \/ UnbindEnd(w) PROVE Stands'
  BY <1>4, <1>t DEF Release, NextIndexEnd, UnbindEnd, Stands
<1>5. ASSUME GcReap PROVE Stands'
  BY <1>5, <1>t DEF GcReap, Cleared, Stands
<1>6. ASSUME Looks \/ GcReapEnd PROVE Stands'
  BY <1>6, LooksLeave DEF GcReapEnd, Stands
<1>7. ASSUME Destructor \/ UNCHANGED vars \/ \E n \in Natives : Die(n) PROVE Stands'
  BY <1>7, <1>t DEF Destructor, DtorBegin, DtorBroadcast, DtorJoin, vars, Die, Stands
<1> QED
  BY <1>1, <1>2, <1>3, <1>4, <1>5, <1>6, <1>7 DEF Next, Worker, Collector, Finished, Looks

\* The table as MappingTable sees it, before and after a step.
LEMMA Seen ==
    ASSUME Structure, Structure', dtor # "done", dtor' # "done"
    PROVE  /\ \A i \in Index : i \in Reserved <=> i < high /\ ~On(free, i)
           /\ \A i \in Index : i \in Reserved' <=> i < high' /\ ~On(free', i)
           /\ Reserved \subseteq Index /\ Reserved' \subseteq Index
<1>1. high \in 0 .. MaxIndex /\ high' \in 0 .. MaxIndex
  BY DEF Structure, Shape
<1>2. /\ \A i \in Index : i < high <=> i \in 0 .. (high - 1)
      /\ \A i \in Index : i < high' <=> i \in 0 .. (high' - 1)
      /\ 0 .. (high - 1) \subseteq Index /\ 0 .. (high' - 1) \subseteq Index
  <2>1. \A h \in 0 .. MaxIndex :
          /\ \A i \in Index : i < h <=> i \in 0 .. (h - 1)
          /\ 0 .. (h - 1) \subseteq Index
    BY TableAssumption DEF Index
  <2> QED BY <1>1, <2>1
<1>3. Reserved = (0 .. (high - 1)) \ OnStack /\ Reserved' = (0 .. (high' - 1)) \ OnStack'
  BY DEF Reserved
<1>4. (\A i : i \in OnStack <=> On(free, i)) /\ (\A i : i \in OnStack' <=> On(free', i))
  BY DEF OnStack, On
<1> QED BY <1>2, <1>3, <1>4

\* A step that moves no index and changes no native reference under an index.
LEMMA SeenFrame ==
    ASSUME UNCHANGED <<slot, high, free>>, dtor' = "done" <=> dtor = "done",
           \A i \in Index : slot[i] # Null => orig'[slot[i]] = orig[slot[i]]
    PROVE  UNCHANGED <<Reserved, Entered>>
<1>1. Reserved' = Reserved
  BY DEF Reserved, OnStack
<1>2. Entered' = Entered
  BY DEF Entered
<1> QED BY <1>1, <1>2

\* A step that clears a slot, and a step that puts an index on the free stack.
LEMMA SeenDrop ==
    ASSUME Structure, Stands, NEW i \in Index, slot[i] # Null, slot' = Cleared(i),
           UNCHANGED <<high, free, orig, dtor>>
    PROVE  Table!Drop(i)
<1> USE TableAssumption
<1>1. slot \in [Index -> Values \cup {Null}]
  BY DEF Structure, Shape
<1>2. Entered[i] # Null
  BY <1>1 DEF Entered, Stands
<1>3. Entered' = [Entered EXCEPT ![i] = Null]
  BY <1>1 DEF Entered, Cleared
<1>4. Reserved' = Reserved
  BY DEF Reserved, OnStack
<1> QED BY <1>2, <1>3, <1>4 DEF Table!Drop

LEMMA SeenReturn ==
    ASSUME Structure, Structure', dtor # "done", dtor' # "done", Distinct(free), NEW i \in Index,
           slot[i] = Null, ~On(free, i), i < high, free' = <<i>> \o free, UNCHANGED <<slot, high, orig>>
    PROVE  Table!Return(i)
<1>1. \A j : On(free', j) <=> j = i \/ On(free, j)
  BY PushDistinct DEF Structure, Stacks
<1>2. i \in Reserved /\ Reserved' = Reserved \ {i}
  <2>1. i \in Reserved
    BY Seen
  <2>2. \A j \in Index : j \in Reserved' <=> j \in Reserved /\ j # i
    BY <1>1, Seen
  <2> QED BY <2>1, <2>2, Seen
<1>3. Entered[i] = Null /\ Entered' = Entered
  BY DEF Entered
<1> QED BY <1>2, <1>3 DEF Table!Return

LEMMA Simulates ==
    ASSUME ~Overlap
    PROVE  Structure /\ Structure' /\ Counted /\ Orderly /\ Stands /\ [Next]_vars
             => [Table!Next]_<<Reserved, Entered>>
<1> SUFFICES ASSUME Structure, Structure', Counted, Orderly, Stands, [Next]_vars
             PROVE  Table!Next \/ UNCHANGED <<Reserved, Entered>>
  OBVIOUS
<1>s. /\ slot \in [Index -> Values \cup {Null}] /\ orig \in [Values -> Natives \cup {Null}]
      /\ pc \in [Workers -> WorkerPC] /\ val \in [Workers -> Values \cup {Null}]
      /\ idx \in [Workers -> Index] /\ high \in Nat /\ free \in Seq(Index)
  <2>1. Shape /\ Stacks
    BY DEF Structure
  <2>2. high \in 0 .. MaxIndex
    BY <2>1 DEF Shape
  <2>3. high \in Nat
    BY <2>2, TableAssumption
  <2> QED BY <2>1, <2>3, Zenon DEF Shape, Stacks
<1> USE TableAssumption DEF tableVars, valueVars, workerVars, dtorVars, tableRest
<1>d. \A w \in Workers : pc[w] # "idle" => dtor # "done" /\ val[w] \in Values
  BY <1>s DEF Structure, Owners
<1>1. ASSUME NEW w \in Workers, NEW n \in Natives, NextIndex(w, n) PROVE UNCHANGED <<Reserved, Entered>>
  <2>1. PICK v \in Fresh : orig' = [orig EXCEPT ![v] = n]
    BY <1>1 DEF NextIndex
  <2>2. UNCHANGED <<slot, high, free, dtor>> /\ dtor # "done"
    BY <1>1 DEF NextIndex, Serving
  <2>3. \A i \in Index : slot[i] # Null => orig'[slot[i]] = orig[slot[i]]
    BY <1>s, <2>1, <2>2, FreshIsUnheld
  <2> QED BY <2>2, <2>3, SeenFrame
<1>2. ASSUME NEW w \in Workers, NextIndexEnd(w) PROVE Table!Next
  <2>1. /\ dtor # "done" /\ UNCHANGED <<slot, orig, dtor>> /\ Accounted /\ Apart
        /\ top[w] = free
    BY <1>2, <1>d DEF NextIndexEnd, Orderly, Parted, Serial
  <2>2. Entered' = Entered
    BY <2>1 DEF Entered
  <2>3. PICK i \in Index : i \notin Reserved /\ Reserved' = Reserved \cup {i}
    <3>1. CASE top[w] = <<>>
      <4>1. high' = high + 1 /\ free' = free /\ high \in Index
        BY <1>2, <1>s, <3>1, IndexFacts DEF NextIndexEnd, Structure, Ranges
      <4>2. ~On(free, high)
        BY <1>s, <2>1, <4>1 DEF Accounted
      <4>3. \A j \in Index : j < high' <=> j < high \/ j = high
        BY <1>s, <4>1, IndexFacts
      <4>4. high \notin Reserved /\ \A j \in Index : j \in Reserved' <=> j \in Reserved \/ j = high
        BY <1>s, <2>1, <4>1, <4>2, <4>3, Seen
      <4> QED BY <2>1, <4>1, <4>4, Seen
    <3>2. CASE top[w] # <<>>
      <4>1. high' = high /\ free' = Tail(free)
        BY <1>2, <2>1, <3>2 DEF NextIndexEnd
      <4>2. /\ On(free, Head(free)) /\ Head(free) \in Index
            /\ \A i : On(free', i) <=> On(free, i) /\ i # Head(free)
        BY <1>s, <2>1, <3>2, <4>1, PopDistinct, PopElements DEF Apart
      <4>3. Head(free) < high
        BY <2>1, <4>2 DEF Accounted
      <4>4. /\ Head(free) \notin Reserved
            /\ \A j \in Index : j \in Reserved' <=> j \in Reserved \/ j = Head(free)
        BY <2>1, <4>1, <4>2, <4>3, Seen
      <4> QED BY <2>1, <4>2, <4>4, Seen
    <3> QED BY <3>1, <3>2
  <2>4. Table!Reserve(i)
    BY <2>2, <2>3 DEF Table!Reserve
  <2> QED BY <2>4 DEF Table!Next
<1>3. ASSUME NEW w \in Workers, Bind(w) PROVE Table!Next
  <2>1. /\ dtor # "done" /\ UNCHANGED <<high, free, orig, dtor>> /\ Accounted /\ Apart /\ Carries(w)
        /\ idx[w] \in Index /\ val[w] \in Values
    BY <1>3, <1>s, <1>d DEF Bind, Orderly, Parted, Carries
  <2>2. slot[idx[w]] = Null /\ idx[w] < high /\ ~On(free, idx[w]) /\ idx[w] \in Nat
    BY <2>1, IndexFacts DEF Accounted, InHand, Apart
  <2>3. CanBind(idx[w])
    BY <1>s, <2>2 DEF CanBind, Orderly, Serial, Structure, Shape
  <2>4. slot' = [slot EXCEPT ![idx[w]] = val[w]]
    BY <1>3, <2>3 DEF Bind
  <2>5. orig[val[w]] \in Natives
    BY <2>1 DEF Stands
  <2>6. Entered[idx[w]] = Null /\ Entered' = [Entered EXCEPT ![idx[w]] = orig[val[w]]]
    BY <1>s, <2>1, <2>2, <2>4 DEF Entered
  <2>7. idx[w] \in Reserved /\ Reserved' = Reserved
    <3>1. idx[w] \in Reserved
      BY <2>1, <2>2, Seen
    <3> QED BY <2>1, <3>1 DEF Reserved, OnStack
  <2>8. Table!Enter(idx[w], orig[val[w]])
    BY <2>6, <2>7 DEF Table!Enter
  <2> QED BY <2>1, <2>5, <2>8 DEF Table!Next
<1>4. ASSUME NEW w \in Workers, NEW i \in Index, Unbind(w, i) PROVE Table!Next
  <2>1. Table!Drop(i)
    BY <1>4, SeenDrop DEF Unbind
  <2> QED BY <2>1 DEF Table!Next
<1>5. ASSUME NEW w \in Workers, UnbindEnd(w) PROVE Table!Next
  <2>1. /\ dtor # "done" /\ UNCHANGED <<slot, high, orig, dtor>> /\ Accounted /\ Apart /\ Carries(w)
        /\ idx[w] \in Index /\ free' = <<idx[w]>> \o free
    BY <1>5, <1>s, <1>d DEF UnbindEnd, Push, Orderly, Parted, Serial, Carries
  <2>2. slot[idx[w]] = Null /\ idx[w] < high /\ ~On(free, idx[w]) /\ Distinct(free)
    BY <2>1 DEF Accounted, InHand, Apart
  <2>3. Table!Return(idx[w])
    BY <2>1, <2>2, SeenReturn
  <2> QED BY <2>1, <2>3 DEF Table!Next
<1>6. ASSUME GcReap PROVE Table!Next
  <2>1. gc.at \in Index
    BY <1>6, IndexFacts DEF GcReap, Structure, Shape, Ranges
  <2>2. Table!Drop(gc.at)
    BY <1>6, <2>1, SeenDrop DEF GcReap, StillThere, Orderly, Noted
  <2> QED BY <2>1, <2>2 DEF Table!Next
<1>7. ASSUME GcReapEnd PROVE Table!Next
  <2>1. gc.at \in Index /\ dtor # "done" /\ Reaping
    BY <1>7, IndexFacts DEF GcReapEnd, Reaping, Structure, Shape, Ranges, Owners
  <2>2. UNCHANGED <<slot, high, orig, dtor>> /\ free' = <<gc.at>> \o free /\ Accounted /\ Apart
    BY <1>7, <2>1 DEF GcReapEnd, Push, Orderly, Parted, Serial
  <2>3. slot[gc.at] = Null /\ gc.at < high /\ ~On(free, gc.at) /\ Distinct(free)
    BY <2>1, <2>2 DEF Accounted, Apart
  <2>4. Table!Return(gc.at)
    BY <2>1, <2>2, <2>3, SeenReturn
  <2> QED BY <2>1, <2>4 DEF Table!Next
<1>8. ASSUME DtorJoin PROVE Table!Next
  <2>1. Reserved' = {} /\ Entered' = [i \in Index |-> Null]
    BY <1>8 DEF DtorJoin, Reserved, Entered
  <2> QED BY <2>1 DEF Table!Next, Table!Close
<1>9. ASSUME Looks PROVE UNCHANGED <<Reserved, Entered>>
  BY <1>9, LooksLeave, SeenFrame
<1>10. ASSUME NEW w \in Workers, NEW i \in Index, Find(w, i) \/ Release(w) PROVE UNCHANGED <<Reserved, Entered>>
  BY <1>10, SeenFrame DEF Find, Release
<1>11. ASSUME DtorBegin \/ DtorBroadcast PROVE UNCHANGED <<Reserved, Entered>>
  BY <1>11, SeenFrame DEF DtorBegin, DtorBroadcast
<1>12. ASSUME UNCHANGED vars \/ \E n \in Natives : Die(n) PROVE UNCHANGED <<Reserved, Entered>>
  BY <1>12, SeenFrame DEF vars, Die
<1>13. 0 \in Index
  BY IndexFacts
<1> QED
  BY <1>1, <1>2, <1>3, <1>4, <1>5, <1>6, <1>7, <1>8, <1>9, <1>10, <1>11, <1>12, <1>13
  DEF Next, Worker, Collector, Destructor, Finished, Looks

\* As long as no pop overlaps a push, the table with its ORB threads, its
\* collector and its destructor is the atomic table of MappingTable, even if
\* addresses are reused and the collector wakes up spuriously.
THEOREM TableImplemented == ASSUME ~Overlap PROVE Spec => ImplementsTable
<1>1. Init => Table!Init
  <2> SUFFICES ASSUME Init PROVE Reserved = {} /\ Entered = [i \in Index |-> Null]
    BY DEF Table!Init
  <2>1. 0 .. (high - 1) = {}
    BY DEF Init
  <2> QED BY <2>1 DEF Init, Reserved, Entered
<1>2. Init => Counted /\ Stands
  BY CountedInit, TableAssumption DEF Init, Stands
<1>3. Structure /\ Structure' /\ Counted /\ Stands /\ [Next]_vars => (Counted /\ Stands)'
  BY CountedStep, StandsStep
<1>4. Structure /\ Structure' /\ Counted /\ Orderly /\ Stands /\ [Next]_vars
        => [Table!Next]_<<Reserved, Entered>>
  BY Simulates
<1> QED
  BY <1>1, <1>2, <1>3, <1>4, StructureInvariant, OrderlyInvariant, PTL
  DEF Spec, ImplementsTable, Table!Spec
=============================================================================
