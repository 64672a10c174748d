----------------------- MODULE ReferenceMapper_proofs -----------------------
(***************************************************************************)
(* Proofs about ReferenceMapper, for any number of threads, natives, names *)
(* and indices: about names and types whatever the callers and the         *)
(* collector do, about what references denote while they keep to the rules *)
(* that the three hazards break.                                           *)
(***************************************************************************)
EXTENDS ReferenceMapper, SequenceTheorems, TLAPS

(***************************************************************************)
(* The inductive invariant, in named parts.                                *)
(***************************************************************************)

\* The value at an index has a mapped reference with that index.
Slots ==
    \A i \in Index : slot[i] # Null =>
        /\ obj[slot[i]].mapped \in Mapped /\ obj[slot[i]].mapped.index = i
        /\ obj[slot[i]].orig \in Refs

\* A busy thread has a value that it can answer with.
Hands ==
    \A t \in Threads : th[t].pc # "idle" =>
        th[t].v \in Values /\ obj[th[t].v].mapped \in Refs

\* A value that is being removed is out of the table, and one thread's business.
Removers ==
    \A t \in Threads : th[t].pc = "removed" =>
        /\ \A i \in Index : slot[i] # th[t].v
        /\ \A u \in Threads : th[u].pc = "removed" /\ th[u].v = th[t].v => u = t

\* No two registered values have the same name.
Unique ==
    \A v, x \in Values : Registered(v) /\ Registered(x) /\ obj[v].name # Null
                           /\ obj[v].name = obj[x].name => v = x

\* A name that is bound and yet to be stored in its value is nobody else's.
Pending ==
    \A t \in Threads : th[t].pc = "bound" /\ th[t].name # Null =>
        /\ ior[th[t].name] = obj[th[t].v].mapped
        /\ \A v \in Values : Registered(v) => obj[v].name # th[t].name
        /\ \A u \in Threads : th[u].pc = "bound" /\ th[u].name = th[t].name => u = t

Naming == TypeOK /\ Slots /\ Hands /\ Removers /\ NameIsOwn /\ Unique /\ Pending

\* The types that the arguments about names need.
Fields ==
    /\ slot \in [Index -> Values \cup {Null}]
    /\ obj \in [Values -> [orig: Refs \cup {Null}, mapped: Refs \cup {Null},
                           name: Names \cup {Null}]]
    /\ ior \in [Names -> Refs \cup {Null}]
    /\ th \in [Threads -> [pc: {"idle", "mapped", "bound", "removed"},
                           v: Values \cup {Null}, name: Names \cup {Null},
                           want: Natives \cup {Null}, dir: Dirs]]

LEMMA TypeFields == TypeOK => Fields
BY DEF TypeOK, Fields

LEMMA NullFacts ==
    Null \notin Values /\ Null \notin Names /\ Null \notin Natives /\ Null \notin Refs
BY MapperAssumption, MappedAssumption DEF Refs

\* The index that next_index gives.
LEMMA NextIndexFacts ==
    ASSUME TypeOK, free = <<>> => high < MaxIndex
    PROVE  NextIndex \in Index /\ Popped \in Seq(Index) /\ Raised \in 0 .. MaxIndex
<1>1. CASE free = <<>>
  BY <1>1, MapperAssumption DEF TypeOK, NextIndex, Popped, Raised, Index
<1>2. CASE free # <<>>
  <2>1. free \in Seq(Index)
    BY DEF TypeOK
  <2>2. Len(free) \in Nat \ {0}
    BY <1>2, <2>1, LenProperties, EmptySeq
  <2>3. Head(free) \in Index /\ Tail(free) \in Seq(Index)
    BY <1>2, <2>1, <2>2, HeadTailProperties
  <2> QED BY <1>2, <2>3 DEF TypeOK, NextIndex, Popped, Raised
<1> QED BY <1>1, <1>2

LEMMA PushIndex == ASSUME NEW s \in Seq(Index), NEW i \in Index PROVE <<i>> \o s \in Seq(Index)
<1>1. <<i>> \in Seq(Index)
  OBVIOUS
<1> QED BY <1>1, ConcatProperties

LEMMA KeptType ==
    ASSUME NEW o \in [Values -> [orig: Refs \cup {Null}, mapped: Refs \cup {Null},
                                 name: Names \cup {Null}]], NEW s, NEW h
    PROVE  Kept(o, s, h) \in [Values -> [orig: Refs \cup {Null}, mapped: Refs \cup {Null},
                                         name: Names \cup {Null}]]
BY DEF Kept, Blank

LEMMA TypeStep == Naming /\ [Next]_vars => TypeOK'
<1> SUFFICES ASSUME Naming, [Next]_vars PROVE TypeOK'
  OBVIOUS
<1> USE MapperAssumption, MappedAssumption DEF Naming
<1>r. /\ \A r \in Mapped : r.index \in Index /\ r.dir \in Dirs
      /\ Natives \subseteq Refs /\ Mapped \subseteq Refs
  BY DEF Mapped, Refs
<1>1. ASSUME NEW t \in Threads, NEW r \in Refs, NEW dir \in Dirs, NEW nm \in Names \cup {Null},
             MapNew(t, r, dir, nm)
      PROVE  TypeOK'
  <2>1. NextIndex \in Index /\ Popped \in Seq(Index) /\ Raised \in 0 .. MaxIndex
    BY <1>1, NextIndexFacts DEF MapNew
  <2>2. [dir |-> dir, index |-> NextIndex] \in Refs
    BY <2>1 DEF Mapped, Refs
  <2>3. r \in Natives
    BY <1>1 DEF MapNew, Status
  <2> QED BY <1>1, <2>1, <2>2, <2>3 DEF TypeOK, MapNew, Enter, Denoted, Fresh
<1>2. ASSUME NEW t \in Threads, NEW r \in Refs, NEW dir \in Dirs, NEW nm \in Names \cup {Null},
             MapAgain(t, r, dir, nm)
      PROVE  TypeOK'
  <2>1. r \in Mapped
    BY <1>2 DEF MapAgain, Status, Refs
  <2> QED BY <1>2, <1>r, <2>1 DEF TypeOK, MapAgain, Enter, Denoted
<1>3. ASSUME NEW t \in Threads, NEW r \in Refs, NEW dir \in Dirs, NEW nm \in Names \cup {Null},
             MapReverse(t, r, dir, nm)
      PROVE  TypeOK'
  <2>1. r \in Mapped
    BY <1>3 DEF MapReverse, Status, Refs
  <2> QED BY <1>3, <1>r, <2>1 DEF TypeOK, MapReverse, Enter, Denoted, Fresh, Reversed
<1>4. ASSUME NEW t \in Threads, BindName(t) PROVE TypeOK'
  <2>1. /\ th[t].v \in Values /\ obj[th[t].v].mapped \in Refs
        /\ th[t].name \in Names \cup {Null} /\ th[t].want \in Natives \cup {Null} /\ th[t].dir \in Dirs
    BY <1>4 DEF TypeOK, BindName, Hands
  <2>2. \A n \in Names \cup {Null} :
          Past(th[t], n) \in [pc: {"idle", "mapped", "bound", "removed"},
                             v: Values \cup {Null}, name: Names \cup {Null},
                             want: Natives \cup {Null}, dir: Dirs]
    BY <2>1 DEF Past
  <2>3. CASE AlreadyBound(th[t].name)
    <3>1. /\ th' = [th EXCEPT ![t] = Past(th[t], Null)]
          /\ UNCHANGED <<slot, high, free, obj, ior, crashed, owner, grants>>
      BY <1>4, <2>3 DEF BindName
    <3> QED BY <2>2, <3>1 DEF TypeOK
  <2>4. CASE ~AlreadyBound(th[t].name)
    <3>1. /\ th' = [th EXCEPT ![t] = Past(th[t], th[t].name)]
          /\ ior' = [ior EXCEPT ![th[t].name] = obj[th[t].v].mapped]
          /\ UNCHANGED <<slot, high, free, obj, crashed, owner, grants>>
      BY <1>4, <2>4 DEF BindName
    <3>2. ior' \in [Names -> Refs \cup {Null}]
      BY <2>1, <3>1 DEF TypeOK
    <3> QED BY <2>1, <2>2, <3>1, <3>2 DEF TypeOK
  <2> QED BY <2>3, <2>4
<1>5. ASSUME NEW t \in Threads, Return(t) PROVE TypeOK'
  <2>1. Renamed(t) \in [Values -> [orig: Refs \cup {Null}, mapped: Refs \cup {Null},
                                   name: Names \cup {Null}]]
    BY <1>5 DEF TypeOK, Renamed
  <2>2. obj' \in [Values -> [orig: Refs \cup {Null}, mapped: Refs \cup {Null},
                                   name: Names \cup {Null}]]
    BY <1>5, <2>1, KeptType DEF Return
  <2>3. grants' \in [Mapped -> 0 .. MaxGrants]
    BY <1>5 DEF TypeOK, Return
  <2>4. owner' \in [Mapped -> Natives \cup {Null}]
    BY <1>5 DEF TypeOK, Return
  <2>5. Idle \in [pc: {"idle", "mapped", "bound", "removed"},
                 v: Values \cup {Null}, name: Names \cup {Null},
                 want: Natives \cup {Null}, dir: Dirs]
    BY DEF Idle, Dirs
  <2> QED BY <1>5, <2>2, <2>3, <2>4, <2>5 DEF TypeOK, Return
<1>6. ASSUME NEW t \in Threads, NEW r \in Mapped, Remove(t, r) PROVE TypeOK'
  <2>1. obj' \in [Values -> [orig: Refs \cup {Null}, mapped: Refs \cup {Null},
                                   name: Names \cup {Null}]]
    BY <1>6, KeptType DEF Remove, TypeOK
  <2>2. free' \in Seq(Index)
    BY <1>6, <1>r, PushIndex DEF Remove, TypeOK
  <2>3. grants' \in [Mapped -> 0 .. MaxGrants]
    BY <1>6 DEF TypeOK, Remove, Retired
  <2>4. slot[r.index] \in Values
    BY <1>6, <1>r DEF TypeOK, Remove
  <2>5. Removing(slot[r.index]) \in [pc: {"idle", "mapped", "bound", "removed"},
                                    v: Values \cup {Null}, name: Names \cup {Null},
                                    want: Natives \cup {Null}, dir: Dirs]
    BY <2>4 DEF Removing, Dirs
  <2>6. th' \in [Threads -> [pc: {"idle", "mapped", "bound", "removed"},
                            v: Values \cup {Null}, name: Names \cup {Null},
                            want: Natives \cup {Null}, dir: Dirs]]
    BY <1>6, <2>5 DEF TypeOK, Remove
  <2> QED BY <1>6, <1>r, <2>1, <2>2, <2>3, <2>6 DEF TypeOK, Remove
<1>7. ASSUME NEW t \in Threads, RemoveEnd(t) PROVE TypeOK'
  <2>1. obj' \in [Values -> [orig: Refs \cup {Null}, mapped: Refs \cup {Null},
                                   name: Names \cup {Null}]]
    BY <1>7, KeptType DEF RemoveEnd, TypeOK
  <2> QED BY <1>7, <2>1 DEF TypeOK, RemoveEnd, Unnamed, Idle, Dirs
<1>8. ASSUME NEW i \in Index, Reap(i) PROVE TypeOK'
  <2>1. obj' \in [Values -> [orig: Refs \cup {Null}, mapped: Refs \cup {Null},
                                   name: Names \cup {Null}]]
    BY <1>8, KeptType DEF Reap, TypeOK
  <2>2. free' \in Seq(Index)
    BY <1>8, PushIndex DEF Reap, TypeOK
  <2> QED BY <1>8, <2>1, <2>2 DEF TypeOK, Reap
<1>9. ASSUME NEW t \in Threads, NEW r \in Mapped, NEW dir \in Dirs, MapReverseMiss(t, r, dir)
      PROVE  TypeOK'
  BY <1>9 DEF TypeOK, MapReverseMiss
<1>10. ASSUME UNCHANGED vars PROVE TypeOK'
  BY <1>10 DEF TypeOK, vars
<1> QED
  BY <1>1, <1>2, <1>3, <1>4, <1>5, <1>6, <1>7, <1>8, <1>9, <1>10 DEF Next, Running

LEMMA NamingStep == Naming /\ [Next]_vars => Naming'
<1> SUFFICES ASSUME Naming, [Next]_vars PROVE Naming'
  OBVIOUS
<1> DEFINE Goal == (Slots /\ Hands /\ Removers /\ NameIsOwn /\ Unique /\ Pending)'
<1>t. TypeOK' /\ Fields
  BY TypeStep, TypeFields DEF Naming
<1>r. /\ \A r \in Mapped : r.index \in Index /\ r.dir \in Dirs
      /\ Natives \subseteq Refs /\ Mapped \subseteq Refs
  BY DEF Mapped, Refs
<1> USE NullFacts DEF Naming
<1>1. ASSUME NEW t \in Threads, NEW r \in Refs, NEW dir \in Dirs, NEW nm \in Names \cup {Null},
             MapNew(t, r, dir, nm)
      PROVE  Goal
  <2> DEFINE m == [dir |-> dir, index |-> NextIndex]
  <2>0. NextIndex \in Index
    BY <1>1, NextIndexFacts DEF MapNew
  <2>1. m \in Mapped /\ m.index \in Index /\ m.index = NextIndex
    BY <2>0 DEF Mapped
  <2>2. PICK x \in Fresh : /\ obj' = [obj EXCEPT ![x] = [orig |-> r, mapped |-> m, name |-> Null]]
                           /\ slot' = [slot EXCEPT ![NextIndex] = x]
                           /\ Enter(t, x, r, dir, nm)
    BY <1>1, <2>1 DEF MapNew
  <2>3. /\ x \in Values /\ ~Registered(x) /\ th[t].pc = "idle" /\ ior' = ior
        /\ \A u \in Threads : th[u].v # x
    BY <1>1, <2>2 DEF Fresh, Registered, MapNew, MayMap
  <2>4. /\ obj'[x].mapped = m /\ obj'[x].orig = r /\ obj'[x].name = Null
        /\ \A v \in Values : v # x => obj'[v] = obj[v]
        /\ slot'[NextIndex] = x /\ \A i \in Index : i # NextIndex => slot'[i] = slot[i]
        /\ th'[t].pc = "mapped" /\ th'[t].v = x /\ \A u \in Threads : u # t => th'[u] = th[u]
    BY <1>t, <2>0, <2>2, <2>3 DEF Fields, Enter
  <2>5. \A v \in Values : Registered(v)' => Registered(v) \/ v = x
    BY <2>3, <2>4 DEF Registered
  <2> HIDE DEF m
  <2>6. Slots'
    BY <1>t, <1>r, <2>1, <2>3, <2>4 DEF Slots, Fields, Fresh
  <2>7. Hands' /\ Removers'
    <3>1. Hands'
      BY <1>r, <2>1, <2>3, <2>4 DEF Hands
    <3>2. Removers'
      BY <2>3, <2>4 DEF Removers
    <3> QED BY <3>1, <3>2
  <2>8. NameIsOwn' /\ Unique'
    BY <2>3, <2>4, <2>5 DEF NameIsOwn, Unique
  <2>9. Pending'
    <3>1. \A u \in Threads : th'[u].pc = "bound" => u # t /\ th'[u] = th[u] /\ obj'[th[u].v] = obj[th[u].v]
      BY <2>3, <2>4 DEF Hands
    <3>2. \A v \in Values : Registered(v)' => obj'[v].name = Null \/ (Registered(v) /\ obj'[v].name = obj[v].name)
      BY <2>4, <2>5
    <3> QED BY <2>3, <3>1, <3>2 DEF Pending
  <2> QED BY <2>6, <2>7, <2>8, <2>9
<1>2. ASSUME NEW t \in Threads, NEW r \in Refs, NEW dir \in Dirs, NEW nm \in Names \cup {Null},
             MapAgain(t, r, dir, nm)
      PROVE  Goal
  <2>1. r \in Mapped /\ r.index \in Index
    BY <1>2, <1>r DEF MapAgain, Status, Refs
  <2>2. /\ th[t].pc = "idle" /\ slot[r.index] \in Values /\ UNCHANGED <<slot, obj, ior>>
        /\ th'[t].pc = "mapped" /\ th'[t].v = slot[r.index]
        /\ \A u \in Threads : u # t => th'[u] = th[u]
    BY <1>2, <1>t, <2>1 DEF MapAgain, MayMap, Enter, Fields
  <2>3. \A v \in Values : Registered(v)' => Registered(v)
    BY <2>2 DEF Registered
  <2>4. Slots' /\ Hands' /\ Removers'
    BY <1>r, <2>1, <2>2 DEF Slots, Hands, Removers
  <2>5. NameIsOwn' /\ Unique' /\ Pending'
    BY <2>2, <2>3 DEF NameIsOwn, Unique, Pending
  <2> QED BY <2>4, <2>5
<1>3. ASSUME NEW t \in Threads, NEW r \in Refs, NEW dir \in Dirs, NEW nm \in Names \cup {Null},
             MapReverse(t, r, dir, nm)
      PROVE  Goal
  <2>1. r \in Mapped /\ r.index \in Index
    BY <1>3, <1>r DEF MapReverse, Status, Refs
  <2>2. PICK x \in Fresh : /\ obj' = [obj EXCEPT ![x] = Reversed(obj[slot[r.index]])]
                           /\ Enter(t, x, r, dir, nm)
    BY <1>3 DEF MapReverse
  <2>3. /\ x \in Values /\ ~Registered(x) /\ th[t].pc = "idle" /\ UNCHANGED <<slot, ior>>
        /\ \A u \in Threads : th[u].v # x
        /\ \A i \in Index : slot[i] # x
        /\ slot[r.index] # Null
    BY <1>3, <2>2 DEF Fresh, Registered, MapReverse, MayMap
  <2>4. /\ obj'[x].mapped \in Refs
        /\ \A v \in Values : v # x => obj'[v] = obj[v]
        /\ th'[t].pc = "mapped" /\ th'[t].v = x /\ \A u \in Threads : u # t => th'[u] = th[u]
    BY <1>t, <2>1, <2>2, <2>3 DEF Fields, Enter, Reversed, Slots
  <2>5. \A v \in Values : Registered(v)' => Registered(v) /\ v # x
    BY <2>3, <2>4 DEF Registered
  <2>6. Slots' /\ Hands' /\ Removers'
    BY <1>t, <2>3, <2>4 DEF Slots, Hands, Removers, Fields
  <2>7. NameIsOwn' /\ Unique' /\ Pending'
    BY <2>3, <2>4, <2>5, <1>t DEF NameIsOwn, Unique, Pending, Fields, Hands
  <2> QED BY <2>6, <2>7
<1>4. ASSUME NEW t \in Threads, BindName(t) PROVE Goal
  <2>1. /\ th[t].pc = "mapped" /\ th[t].name \in Names /\ UNCHANGED <<slot, obj>>
        /\ th'[t].pc = "bound" /\ th'[t].v = th[t].v
        /\ \A u \in Threads : u # t => th'[u] = th[u]
    BY <1>4, <1>t DEF BindName, Past, Fields
  <2>2. \A v \in Values : Registered(v)' => Registered(v)
    BY <2>1 DEF Registered
  <2>3. Slots' /\ Hands' /\ Removers'
    BY <2>1 DEF Slots, Hands, Removers
  <2>4. CASE AlreadyBound(th[t].name)
    <3>1. th'[t].name = Null /\ ior' = ior
      BY <1>4, <1>t, <2>4 DEF BindName, Past, Fields
    <3> QED BY <2>1, <2>2, <2>3, <3>1 DEF NameIsOwn, Unique, Pending
  <2>5. CASE ~AlreadyBound(th[t].name)
    <3>1. /\ th'[t].name = th[t].name /\ ior[th[t].name] = Null
          /\ ior' = [ior EXCEPT ![th[t].name] = obj[th[t].v].mapped]
      BY <1>4, <1>t, <2>5 DEF BindName, Past, Fields, AlreadyBound
    <3>2. ASSUME NEW v \in Values, Registered(v) PROVE obj[v].name # th[t].name
      <4>1. obj[v].mapped # Null
        BY <3>2, <1>r, <1>t DEF Registered, Slots, Hands, Fields
      <4> QED BY <2>1, <3>1, <3>2, <4>1 DEF NameIsOwn
    <3>3. ASSUME NEW u \in Threads, th[u].pc = "bound", th[u].name # Null
          PROVE  th[u].name # th[t].name
      BY <2>1, <3>1, <3>3 DEF Pending, Hands
    <3>4. NameIsOwn' /\ Unique'
      BY <1>t, <2>1, <2>2, <3>1, <3>2 DEF NameIsOwn, Unique, Fields
    <3>5. Pending'
      BY <1>t, <2>1, <2>2, <3>1, <3>2, <3>3 DEF Pending, Fields
    <3> QED BY <2>3, <3>4, <3>5
  <2> QED BY <2>4, <2>5
<1>5. ASSUME NEW t \in Threads, Return(t) PROVE Goal
  <2>1. /\ th[t].pc \in {"mapped", "bound"} /\ (th[t].name # Null => th[t].pc = "bound")
        /\ UNCHANGED <<slot, ior>>
    BY <1>5 DEF Return
  <2>2. /\ th'[t].pc = "idle" /\ th'[t].v = Null
        /\ \A u \in Threads : u # t => th'[u] = th[u]
    BY <1>5, <1>t DEF Return, Fields, Idle
  <2>3. ASSUME NEW v \in Values
        PROVE  /\ Renamed(t)[v].mapped = obj[v].mapped /\ Renamed(t)[v].orig = obj[v].orig
               /\ Renamed(t)[v].name = IF v = th[t].v /\ th[t].name # Null
                                       THEN th[t].name ELSE obj[v].name
    BY <1>t, <2>1 DEF Renamed, Fields, Hands
  <2>4. /\ \A i \in Index : slot'[i] \in Values => obj'[slot'[i]] = Renamed(t)[slot'[i]]
        /\ \A u \in Threads : th'[u].v \in Values => obj'[th'[u].v] = Renamed(t)[th'[u].v]
    <3>1. obj' = Kept(Renamed(t), slot', th')
      BY <1>5 DEF Return
    <3> QED BY <3>1 DEF Kept
  <2>5. \A v \in Values : Registered(v)' => Registered(v) /\ obj'[v] = Renamed(t)[v]
    BY <2>1, <2>2, <2>4 DEF Registered
  <2>6. Slots'
    BY <1>t, <2>1, <2>3, <2>4 DEF Slots, Fields
  <2>7. Hands' /\ Removers'
    BY <1>t, <2>1, <2>2, <2>3, <2>4 DEF Hands, Removers, Fields
  <2>8. NameIsOwn' /\ Unique'
    BY <2>1, <2>3, <2>5 DEF NameIsOwn, Unique, Pending
  <2>9. Pending'
    BY <2>1, <2>2, <2>3, <2>4, <2>5 DEF Pending, Hands
  <2> QED BY <2>6, <2>7, <2>8, <2>9
<1>6. ASSUME NEW t \in Threads, NEW r \in Mapped, Remove(t, r) PROVE Goal
  <2> DEFINE x == slot[r.index]
  <2>0. r.index \in Index
    BY <1>r
  <2>1. /\ th[t].pc = "idle" /\ x \in Values /\ ior' = ior
    BY <1>6, <1>t, <2>0 DEF Remove, Fields
  <2>2. /\ th'[t].pc \in {"idle", "removed"} /\ (th'[t].pc = "removed" => th'[t].v = x)
        /\ \A u \in Threads : u # t => th'[u] = th[u]
    BY <1>6, <1>t, <2>1 DEF Remove, Fields, Removing
  <2>3. /\ \A i \in Index : slot'[i] # Null => slot'[i] = slot[i]
        /\ \A i \in Index : slot'[i] # x
    BY <1>6, <1>t, <2>0, <2>1 DEF Remove, Fields, Slots
  <2>4. /\ \A i \in Index : slot'[i] \in Values => obj'[slot'[i]] = obj[slot'[i]]
        /\ \A u \in Threads : th'[u].v \in Values => obj'[th'[u].v] = obj[th'[u].v]
    <3>1. obj' = Kept(obj, slot', th')
      BY <1>6 DEF Remove
    <3> QED BY <3>1 DEF Kept
  <2>5. \A v \in Values : Registered(v)' => Registered(v) /\ obj'[v] = obj[v]
    BY <2>0, <2>1, <2>2, <2>3, <2>4 DEF Registered
  <2> HIDE DEF x
  <2>6. Slots'
    BY <1>t, <2>3, <2>4 DEF Slots, TypeOK
  <2>7. Hands'
    <3>1. obj[x].mapped \in Refs
      BY <1>r, <2>0, <2>1 DEF Slots, x
    <3> QED BY <2>1, <2>2, <2>4, <3>1 DEF Hands
  <2>8. Removers'
    BY <2>0, <2>1, <2>2, <2>3 DEF Removers, Hands, x
  <2>9. NameIsOwn' /\ Unique'
    BY <2>1, <2>5 DEF NameIsOwn, Unique
  <2>10. Pending'
    BY <2>1, <2>2, <2>4, <2>5 DEF Pending, Hands
  <2> QED BY <2>6, <2>7, <2>8, <2>9, <2>10
<1>7. ASSUME NEW t \in Threads, RemoveEnd(t) PROVE Goal
  <2>1. /\ th[t].pc = "removed" /\ th[t].v \in Values /\ slot' = slot
        /\ Registered(th[t].v)
    BY <1>7 DEF RemoveEnd, Hands, Registered
  <2>2. /\ th'[t].pc = "idle" /\ th'[t].v = Null /\ \A u \in Threads : u # t => th'[u] = th[u]
        /\ \A n \in Names : n # obj[th[t].v].name => ior'[n] = ior[n]
    BY <1>7, <1>t, <2>1 DEF RemoveEnd, Unnamed, Fields, Idle
  <2>3. /\ \A i \in Index : slot'[i] \in Values => obj'[slot'[i]] = obj[slot'[i]]
        /\ \A u \in Threads : th'[u].v \in Values => obj'[th'[u].v] = obj[th'[u].v]
    <3>1. obj' = Kept(obj, slot', th')
      BY <1>7 DEF RemoveEnd
    <3> QED BY <3>1 DEF Kept
  <2>4. \A v \in Values : Registered(v)' =>
          Registered(v) /\ v # th[t].v /\ obj'[v] = obj[v] /\ obj[v].name \in Names \cup {Null}
    BY <1>t, <2>1, <2>2, <2>3 DEF Registered, Removers, Fields
  <2>5. Slots' /\ Hands' /\ Removers'
    <3>1. Slots'
      BY <1>t, <2>1, <2>3 DEF Slots, Fields
    <3>2. Hands'
      BY <2>2, <2>3 DEF Hands
    <3>3. Removers'
      BY <2>1, <2>2 DEF Removers
    <3> QED BY <3>1, <3>2, <3>3
  <2>6. NameIsOwn' /\ Unique'
    BY <2>1, <2>2, <2>4 DEF NameIsOwn, Unique
  <2>7. Pending'
    <3> SUFFICES ASSUME NEW u \in Threads, th'[u].pc = "bound", th'[u].name # Null
                 PROVE  /\ ior'[th'[u].name] = obj'[th'[u].v].mapped
                        /\ \A v \in Values : Registered(v)' => obj'[v].name # th'[u].name
                        /\ \A y \in Threads : th'[y].pc = "bound" /\ th'[y].name = th'[u].name => y = u
      BY DEF Pending
    <3>1. u # t /\ th'[u] = th[u] /\ th[u].name \in Names /\ obj'[th[u].v] = obj[th[u].v]
      BY <1>t, <2>2, <2>3 DEF Fields, Hands
    <3>2. obj[th[t].v].name # th[u].name
      BY <2>1, <3>1 DEF Pending
    <3> QED BY <2>2, <2>4, <3>1, <3>2 DEF Pending
  <2> QED BY <2>5, <2>6, <2>7
<1>8. ASSUME NEW i \in Index, Reap(i) PROVE Goal
  <2>1. /\ UNCHANGED <<th, ior>> /\ slot' = [slot EXCEPT ![i] = Null]
    BY <1>8 DEF Reap
  <2>2. \A j \in Index : slot'[j] # Null => slot'[j] = slot[j]
    BY <1>t, <2>1 DEF Fields
  <2>3. /\ \A j \in Index : slot'[j] \in Values => obj'[slot'[j]] = obj[slot'[j]]
        /\ \A u \in Threads : th'[u].v \in Values => obj'[th'[u].v] = obj[th'[u].v]
    <3>1. obj' = Kept(obj, slot', th')
      BY <1>8 DEF Reap
    <3> QED BY <3>1 DEF Kept
  <2>4. \A v \in Values : Registered(v)' => Registered(v) /\ obj'[v] = obj[v]
    BY <2>1, <2>2, <2>3 DEF Registered
  <2>5. Slots'
    BY <1>t, <2>2, <2>3 DEF Slots, TypeOK
  <2>6. Hands' /\ Removers'
    BY <1>t, <2>1, <2>2, <2>3 DEF Hands, Removers, TypeOK
  <2>7. NameIsOwn' /\ Unique' /\ Pending'
    BY <2>1, <2>3, <2>4 DEF NameIsOwn, Unique, Pending, Hands
  <2> QED BY <2>5, <2>6, <2>7
<1>9. ASSUME UNCHANGED <<slot, obj, ior, th>> PROVE Goal
  BY <1>9 DEF Slots, Hands, Removers, NameIsOwn, Unique, Pending, Registered
<1>10. Goal
  BY <1>1, <1>2, <1>3, <1>4, <1>5, <1>6, <1>7, <1>8, <1>9
  DEF Next, Running, MapReverseMiss, vars
<1> QED BY <1>t, <1>10

LEMMA NamingInit == Init => Naming
<1> SUFFICES ASSUME Init PROVE Naming
  OBVIOUS
<1>1. TypeOK
  <2>1. free \in Seq(Index) /\ high \in 0 .. MaxIndex /\ grants \in [Mapped -> 0 .. MaxGrants]
    BY MapperAssumption DEF Init
  <2> QED BY <2>1 DEF Init, TypeOK, Blank, Idle, Dirs
<1>2. Slots /\ Hands /\ Removers
  BY DEF Init, Slots, Hands, Removers, Idle
<1>3. NameIsOwn /\ Unique /\ Pending
  BY NullFacts DEF Init, NameIsOwn, Unique, Pending, Registered, Idle, Blank
<1> QED BY <1>1, <1>2, <1>3 DEF Naming

\* The name a registered value carries is bound to its own mapped reference, so
\* that remove_server never misses it and never takes the name of another server,
\* for every number of ORB threads and whatever is shared, stale or reaped.
THEOREM NamesOwned == Spec => []NameIsOwn
<1>1. Naming => NameIsOwn
  BY DEF Naming
<1> QED BY <1>1, NamingInit, NamingStep, PTL DEF Spec

\* Every variable keeps its type, whatever is shared, stale or reaped; that a
\* bound name is a reference rests on the parts about values and threads.
THEOREM TypeCorrect == Spec => []TypeOK
<1>1. Naming => TypeOK
  BY DEF Naming
<1> QED BY <1>1, NamingInit, NamingStep, PTL DEF Spec

-----------------------------------------------------------------------------
(***************************************************************************)
(* Callers that use each reference they were given until they remove it,   *)
(* and no longer, while nothing is reaped: the invariant.                  *)
(***************************************************************************)
\* What the free stack offers, and what lies beyond high_index_, is not in use.
Vacant ==
    /\ \A k \in 1 .. Len(free) : slot[free[k]] = Null /\ free[k] < high
    /\ \A j, k \in 1 .. Len(free) : free[j] = free[k] => j = k
    /\ \A i \in Index : i >= high => slot[i] = Null

\* The table holds natives, names face outwards, and a reference is given out
\* once at a time.
Plain ==
    /\ \A i \in Index : slot[i] # Null =>
         /\ obj[slot[i]].orig \in Natives
         /\ obj[slot[i]].name # Null => obj[slot[i]].mapped.dir = "O"
    /\ \A t \in Threads : th[t].name # Null => th[t].dir = "O"
    /\ \A m \in Mapped : grants[m] \in {0, 1}

\* No two threads have the same value.
Private ==
    /\ \A t \in Threads : th[t].pc = "idle" => th[t].v = Null
    /\ \A t, u \in Threads : th[t].v = th[u].v /\ th[t].v # Null => t = u

\* A thread that is mapping has a new mapping that nobody else knows of, or a
\* reversed copy of one.
NewOne(t) ==
    LET o == obj[th[t].v] IN
    /\ o.mapped \in Mapped /\ o.mapped.dir = th[t].dir /\ o.orig = th[t].want
    /\ slot[o.mapped.index] = th[t].v /\ grants[o.mapped] = 0
Copy(t) ==
    LET o == obj[th[t].v] IN
    /\ o.mapped \in Natives /\ o.mapped = th[t].want
    /\ o.orig \in Mapped /\ o.orig.dir # th[t].dir
Answers ==
    \A t \in Threads : th[t].pc \in {"mapped", "bound"} =>
        obj[th[t].v].name = Null /\ (NewOne(t) \/ Copy(t))

\* NamesDenote, with the name that a thread has bound and not stored yet.
Denotes(n, v) ==
    /\ Registered(v) /\ obj[v].mapped = ior[n]
    /\ \/ obj[v].name = n
       \/ \E t \in Threads : th[t].pc = "bound" /\ th[t].v = v /\ th[t].name = n
Denoting == \A n \in Names : ior[n] \in Mapped => \E v \in Values : Denotes(n, v)

Disciplined == Vacant /\ Plain /\ Private /\ GrantHonoured /\ Answers /\ Denoting

LEMMA DisciplinedInit == Init => Disciplined
<1> SUFFICES ASSUME Init PROVE Disciplined
  OBVIOUS
<1> USE NullFacts, MappedAssumption
<1>1. Len(free) = 0
  BY EmptySeq DEF Init
<1>2. Vacant
  BY <1>1 DEF Init, Vacant
<1>3. Plain /\ Private /\ Answers
  BY DEF Init, Plain, Private, Answers, Idle
<1>4. GrantHonoured /\ Denoting
  BY DEF Init, GrantHonoured, Denoting
<1> QED BY <1>2, <1>3, <1>4 DEF Disciplined

\* The index that next_index gives is vacant, and what it leaves is too.
LEMMA NextIndexVacant ==
    ASSUME TypeOK, Vacant, free = <<>> => high < MaxIndex
    PROVE  /\ NextIndex \in Index /\ slot[NextIndex] = Null /\ NextIndex < Raised /\ high <= Raised
           /\ \A k \in 1 .. Len(Popped) : /\ slot[Popped[k]] = Null /\ Popped[k] # NextIndex
                                          /\ Popped[k] < high
           /\ \A j, k \in 1 .. Len(Popped) : Popped[j] = Popped[k] => j = k
<1>0. NextIndex \in Index /\ high \in Nat /\ free \in Seq(Index) /\ Index \subseteq Nat
  BY NextIndexFacts, MapperAssumption DEF TypeOK, Index
<1>1. CASE free = <<>>
  <2>1. Popped = free /\ Len(free) = 0 /\ NextIndex = high /\ Raised = high + 1
    BY <1>1, EmptySeq DEF Popped, NextIndex, Raised
  <2> QED BY <1>0, <2>1 DEF Vacant
<1>2. CASE free # <<>>
  <2>1. Popped = Tail(free) /\ NextIndex = Head(free) /\ Raised = high
    BY <1>2 DEF Popped, NextIndex, Raised
  <2>2. Len(free) \in Nat \ {0}
    BY <1>0, <1>2, LenProperties, EmptySeq
  <2>3. /\ Head(free) = free[1] /\ Len(Tail(free)) = Len(free) - 1
        /\ \A k \in 1 .. Len(Tail(free)) : Tail(free)[k] = free[k + 1]
    BY <1>0, <1>2, <2>2, HeadTailProperties
  <2>4. \A k \in 1 .. Len(Popped) : k + 1 \in 1 .. Len(free) /\ Popped[k] = free[k + 1] /\ k + 1 # 1
    BY <2>1, <2>2, <2>3
  <2>5. 1 \in 1 .. Len(free) /\ NextIndex = free[1]
    BY <2>1, <2>2, <2>3
  <2>6. \A k \in 1 .. Len(Popped) : /\ slot[Popped[k]] = Null /\ Popped[k] # NextIndex
                                    /\ Popped[k] < high
    BY <2>4, <2>5 DEF Vacant
  <2>7. \A j, k \in 1 .. Len(Popped) : Popped[j] = Popped[k] => j = k
    <3> SUFFICES ASSUME NEW j \in 1 .. Len(Popped), NEW k \in 1 .. Len(Popped), Popped[j] = Popped[k]
                 PROVE  j = k
      OBVIOUS
    <3>1. j + 1 = k + 1
      BY <2>4 DEF Vacant
    <3> QED BY <3>1
  <2> QED BY <1>0, <2>1, <2>5, <2>6, <2>7 DEF Vacant
<1> QED BY <1>1, <1>2

\* The index of a cleared slot is vacant.
LEMMA PushVacant ==
    ASSUME TypeOK, Vacant, NEW i \in Index, slot[i] # Null,
           slot' = [slot EXCEPT ![i] = Null], free' = <<i>> \o free, high' = high
    PROVE  Vacant'
<1>0. high \in Nat /\ free \in Seq(Index) /\ Index \subseteq Nat /\ slot \in [Index -> Values \cup {Null}]
  BY MapperAssumption DEF TypeOK, Index
<1>1. /\ Len(free') = Len(free) + 1 /\ Len(free) \in Nat /\ free'[1] = i
      /\ \A k \in 1 .. Len(free) : free'[k + 1] = free[k]
  <2>1. <<i>> \in Seq(Index) /\ Len(<<i>>) = 1 /\ Len(free) \in Nat
    BY <1>0, LenProperties
  <2> QED BY <1>0, <2>1, ConcatProperties
<1>2. \A k \in 1 .. Len(free') : k = 1 \/ (k - 1 \in 1 .. Len(free) /\ free'[k] = free[k - 1])
  <2> SUFFICES ASSUME NEW k \in 1 .. Len(free'), k # 1
               PROVE  k - 1 \in 1 .. Len(free) /\ free'[k] = free[k - 1]
    OBVIOUS
  <2>1. k - 1 \in 1 .. Len(free) /\ (k - 1) + 1 = k
    BY <1>1
  <2> QED BY <1>1, <2>1
<1>3. i < high /\ \A k \in 1 .. Len(free) : free[k] \in Index /\ free[k] # i
  BY <1>0, <1>1, ElementOfSeq DEF Vacant
<1>4. \A k \in 1 .. Len(free') : slot'[free'[k]] = Null /\ free'[k] < high'
  BY <1>0, <1>1, <1>2, <1>3 DEF Vacant
<1>5. \A j, k \in 1 .. Len(free') : free'[j] = free'[k] => j = k
  <2> SUFFICES ASSUME NEW j \in 1 .. Len(free'), NEW k \in 1 .. Len(free'), free'[j] = free'[k]
               PROVE  j = k
    OBVIOUS
  <2>1. CASE j = 1 \/ k = 1
    BY <1>1, <1>2, <1>3, <2>1
  <2>2. CASE j # 1 /\ k # 1
    <3>1. j - 1 = k - 1
      BY <1>2, <2>2 DEF Vacant
    <3> QED BY <1>1, <3>1
  <2> QED BY <2>1, <2>2
<1>6. \A j \in Index : j >= high' => slot'[j] = Null
  BY <1>0 DEF Vacant
<1> QED BY <1>4, <1>5, <1>6 DEF Vacant

LEMMA DisciplinedStep ==
    ASSUME ~Share, ~Stale, ~Reaps
    PROVE  Naming /\ Naming' /\ Disciplined /\ [Next]_vars => Disciplined' /\ crashed' = crashed
<1> SUFFICES ASSUME Naming, Naming', Disciplined, [Next]_vars PROVE Disciplined' /\ crashed' = crashed
  OBVIOUS
<1> USE NullFacts, MappedAssumption DEF Naming, Disciplined
<1>t. /\ Fields /\ TypeOK /\ owner \in [Mapped -> Natives \cup {Null}] /\ grants \in [Mapped -> 0 .. MaxGrants]
      /\ high \in Nat /\ Index \subseteq Nat
  BY TypeFields, MapperAssumption DEF TypeOK, Index
<1>r. /\ \A r \in Mapped : r.index \in Index /\ r.dir \in Dirs
      /\ Natives \subseteq Refs /\ Mapped \subseteq Refs
  BY DEF Mapped, Refs
<1>u. \A r \in Mapped : Usable(r) => grants[r] > 0 /\ grants[r] = 1
  BY DEF Usable, Plain
<1>1. ASSUME NEW t \in Threads, NEW r \in Refs, NEW dir \in Dirs, NEW nm \in Names \cup {Null},
             MapNew(t, r, dir, nm)
      PROVE  Disciplined' /\ crashed' = crashed
  <2> DEFINE i == NextIndex
             m == [dir |-> dir, index |-> i]
  <2>0. /\ i \in Index /\ slot[i] = Null /\ i < high' /\ high <= high' /\ high' \in Nat
        /\ \A k \in 1 .. Len(free') : slot[free'[k]] = Null /\ free'[k] # i /\ free'[k] < high
        /\ \A j, k \in 1 .. Len(free') : free'[j] = free'[k] => j = k
    BY <1>1, <1>t, NextIndexVacant, NextIndexFacts DEF MapNew
  <2>1. m \in Mapped /\ m.index = i /\ m.dir = dir /\ r \in Natives /\ (nm # Null => dir = "O")
    BY <1>1, <2>0 DEF Mapped, MapNew, MayMap, Status
  <2>2. PICK x \in Fresh : /\ obj' = [obj EXCEPT ![x] = [orig |-> r, mapped |-> m, name |-> Null]]
                           /\ slot' = [slot EXCEPT ![i] = x]
                           /\ Enter(t, x, r, dir, nm)
    BY <1>1, <2>1 DEF MapNew
  <2>3. /\ x \in Values /\ UNCHANGED <<ior, owner, grants, crashed>>
        /\ \A u \in Threads : th[u].v # x
        /\ \A j \in Index : slot[j] # x
        /\ th[t].v = Null
    BY <1>1, <2>2 DEF Fresh, MapNew, MayMap, Private
  <2>4. /\ obj'[x].mapped = m /\ obj'[x].orig = r /\ obj'[x].name = Null
        /\ \A v \in Values : v # x => obj'[v] = obj[v]
        /\ slot'[i] = x /\ \A j \in Index : j # i => slot'[j] = slot[j]
        /\ th'[t].pc = "mapped" /\ th'[t].v = x /\ th'[t].name = nm /\ th'[t].want = r /\ th'[t].dir = dir
        /\ \A u \in Threads : u # t => th'[u] = th[u]
    BY <1>t, <2>0, <2>1, <2>2, <2>3 DEF Fields, Enter, Denoted
  <2> HIDE DEF i, m
  <2>5. Vacant'
    <3>1. \A k \in 1 .. Len(free') : free'[k] \in Index
      <4>1. free' \in Seq(Index)
        BY DEF TypeOK
      <4> QED BY <4>1, LenProperties, ElementOfSeq
    <3>2. \A k \in 1 .. Len(free') : slot'[free'[k]] = Null /\ free'[k] < high'
      <4> SUFFICES ASSUME NEW k \in 1 .. Len(free') PROVE slot'[free'[k]] = Null /\ free'[k] < high'
        OBVIOUS
      <4>1. free'[k] \in Nat /\ free'[k] < high /\ free'[k] # i /\ slot[free'[k]] = Null
        BY <1>t, <2>0, <3>1
      <4>2. slot'[free'[k]] = Null
        BY <2>4, <3>1, <4>1
      <4> QED BY <1>t, <2>0, <4>1, <4>2
    <3>3. \A j \in Index : j >= high' => slot'[j] = Null
      BY <1>t, <2>0, <2>4 DEF Vacant
    <3> QED BY <2>0, <3>2, <3>3 DEF Vacant
  <2>6. Plain'
    <3>1. ASSUME NEW j \in Index, slot'[j] # Null
          PROVE  /\ obj'[slot'[j]].orig \in Natives
                 /\ obj'[slot'[j]].name # Null => obj'[slot'[j]].mapped.dir = "O"
      <4>1. CASE j = i
        BY <2>1, <2>4, <4>1
      <4>2. CASE j # i
        <5>1. slot'[j] = slot[j] /\ slot[j] # x /\ slot[j] \in Values
          BY <1>t, <2>3, <2>4, <3>1, <4>2 DEF Fields
        <5> QED BY <2>4, <3>1, <5>1 DEF Plain
      <4> QED BY <4>1, <4>2
    <3>2. \A u \in Threads : th'[u].name # Null => th'[u].dir = "O"
      BY <2>1, <2>4 DEF Plain
    <3> QED BY <2>3, <3>1, <3>2 DEF Plain
  <2>7. Private'
    BY <2>3, <2>4 DEF Private
  <2>8. GrantHonoured'
    <3> SUFFICES ASSUME NEW y \in Mapped, grants[y] > 0
                 PROVE  /\ slot'[y.index] # Null /\ obj'[slot'[y.index]].mapped = y
                        /\ obj'[slot'[y.index]].orig = owner[y]
      BY <2>3 DEF GrantHonoured
    <3>1. slot[y.index] # Null /\ obj[slot[y.index]].mapped = y /\ obj[slot[y.index]].orig = owner[y]
      BY DEF GrantHonoured
    <3>2. y.index \in Index /\ slot[y.index] \in Values /\ slot[y.index] # x
      BY <1>t, <1>r, <2>3, <3>1 DEF Fields
    <3> QED BY <2>0, <2>4, <3>1, <3>2
  <2>9. Answers'
    <3>1. grants[m] = 0
      BY <2>0, <2>1, <1>t DEF GrantHonoured, Plain
    <3>2. obj'[th'[t].v].name = Null /\ NewOne(t)'
      BY <2>1, <2>3, <2>4, <3>1 DEF NewOne
    <3>3. ASSUME NEW u \in Threads, u # t, th'[u].pc \in {"mapped", "bound"}
          PROVE  obj'[th'[u].v].name = Null /\ (NewOne(u)' \/ Copy(u)')
      <4>1. th'[u] = th[u] /\ th[u].v \in Values /\ th[u].v # x /\ obj'[th[u].v] = obj[th[u].v]
        BY <2>3, <2>4, <3>3 DEF Hands
      <4>2. obj[th[u].v].name = Null /\ (NewOne(u) \/ Copy(u))
        BY <3>3, <4>1 DEF Answers
      <4>3. CASE NewOne(u)
        BY <1>r, <2>0, <2>3, <2>4, <4>1, <4>2, <4>3 DEF NewOne
      <4>4. CASE Copy(u)
        BY <4>1, <4>2, <4>4 DEF Copy
      <4> QED BY <4>2, <4>3, <4>4
    <3> QED BY <3>2, <3>3 DEF Answers
  <2>10. Denoting'
    <3> SUFFICES ASSUME NEW n \in Names, ior'[n] \in Mapped PROVE \E v \in Values : Denotes(n, v)'
      BY DEF Denoting
    <3>1. PICK v \in Values : Denotes(n, v)
      BY <2>3 DEF Denoting
    <3>2. v # x /\ Registered(v)'
      BY <2>0, <2>3, <2>4, <3>1 DEF Denotes, Registered, Private
    <3>3. Denotes(n, v)'
      BY <2>3, <2>4, <3>1, <3>2 DEF Denotes, Private
    <3> QED BY <3>3
  <2> QED BY <2>3, <2>5, <2>6, <2>7, <2>8, <2>9, <2>10
<1>2. ASSUME NEW t \in Threads, NEW r \in Refs, NEW dir \in Dirs, NEW nm \in Names \cup {Null},
             MapReverse(t, r, dir, nm)
      PROVE  Disciplined' /\ crashed' = crashed
  <2>1. r \in Mapped /\ r.index \in Index /\ r.dir # dir /\ Usable(r)
    BY <1>2, <1>r DEF MapReverse, MayMap, Status, Refs
  <2>2. PICK x \in Fresh : /\ obj' = [obj EXCEPT ![x] = Reversed(obj[slot[r.index]])]
                           /\ Enter(t, x, r, dir, nm)
    BY <1>2 DEF MapReverse
  <2>3. /\ x \in Values /\ UNCHANGED <<slot, high, free, ior, owner, grants, crashed>>
        /\ \A u \in Threads : th[u].v # x
        /\ \A j \in Index : slot[j] # x
        /\ th[t].v = Null /\ slot[r.index] # Null /\ (nm # Null => dir = "O")
    BY <1>2, <2>2 DEF Fresh, MapReverse, MayMap, Private
  <2>4. /\ obj[slot[r.index]].mapped = r /\ obj[slot[r.index]].orig = owner[r]
        /\ obj[slot[r.index]].orig \in Natives
    BY <1>u, <2>1, <2>3 DEF GrantHonoured, Plain
  <2>5. /\ obj'[x].mapped = owner[r] /\ obj'[x].orig = r /\ obj'[x].name = Null
        /\ \A v \in Values : v # x => obj'[v] = obj[v]
        /\ th'[t].pc = "mapped" /\ th'[t].v = x /\ th'[t].name = nm /\ th'[t].dir = dir
        /\ th'[t].want = owner[r]
        /\ \A u \in Threads : u # t => th'[u] = th[u]
    BY <1>t, <2>1, <2>2, <2>3, <2>4 DEF Fields, Enter, Reversed, Denoted
  <2>6. Vacant'
    BY <2>3 DEF Vacant
  <2>7. Plain' /\ Private'
    <3>1. \A j \in Index : slot[j] # Null => slot[j] \in Values /\ obj'[slot[j]] = obj[slot[j]]
      <4>1. \A j \in Index : slot[j] # Null => slot[j] \in Values
        BY <1>t DEF Fields
      <4>2. \A v \in Values : v # x => obj'[v] = obj[v]
        BY <2>5
      <4>3. \A j \in Index : slot[j] # x
        BY <2>3
      <4> QED BY <4>1, <4>2, <4>3, Zenon
    <3>2. \A u \in Threads : th'[u].name # Null => th'[u].dir = "O"
      BY <2>3, <2>5 DEF Plain
    <3>3. Plain'
      BY <2>3, <3>1, <3>2 DEF Plain
    <3>4. Private'
      BY <2>3, <2>5 DEF Private
    <3> QED BY <3>3, <3>4
  <2>8. GrantHonoured'
    <3> SUFFICES ASSUME NEW y \in Mapped, grants[y] > 0
                 PROVE  /\ slot'[y.index] # Null /\ obj'[slot'[y.index]].mapped = y
                        /\ obj'[slot'[y.index]].orig = owner[y]
      BY <2>3 DEF GrantHonoured
    <3>1. slot[y.index] # Null /\ obj[slot[y.index]].mapped = y /\ obj[slot[y.index]].orig = owner[y]
      BY DEF GrantHonoured
    <3>2. y.index \in Index /\ slot[y.index] \in Values /\ slot[y.index] # x
      BY <1>t, <1>r, <2>3, <3>1 DEF Fields
    <3> QED BY <2>3, <2>5, <3>1, <3>2
  <2>9. Answers'
    <3>1. obj'[th'[t].v].name = Null /\ Copy(t)'
      BY <2>1, <2>4, <2>5 DEF Copy
    <3>2. ASSUME NEW u \in Threads, u # t, th'[u].pc \in {"mapped", "bound"}
          PROVE  obj'[th'[u].v].name = Null /\ (NewOne(u)' \/ Copy(u)')
      <4>1. th'[u] = th[u] /\ obj'[th[u].v] = obj[th[u].v]
        BY <2>3, <2>5, <3>2 DEF Hands
      <4> QED BY <2>3, <3>2, <4>1 DEF Answers, NewOne, Copy
    <3> QED BY <3>1, <3>2 DEF Answers
  <2>10. Denoting'
    <3> SUFFICES ASSUME NEW n \in Names, ior'[n] \in Mapped PROVE \E v \in Values : Denotes(n, v)'
      BY DEF Denoting
    <3>1. PICK v \in Values : Denotes(n, v)
      BY <2>3 DEF Denoting
    <3>2. v # x /\ Registered(v)'
      BY <2>3, <2>5, <3>1 DEF Denotes, Registered, Private
    <3>3. Denotes(n, v)'
      BY <2>3, <2>5, <3>1, <3>2 DEF Denotes, Private
    <3> QED BY <3>3
  <2> QED BY <2>3, <2>6, <2>7, <2>8, <2>9, <2>10
<1>3. ASSUME NEW t \in Threads, BindName(t) PROVE Disciplined' /\ crashed' = crashed
  <2>1. /\ th[t].pc = "mapped" /\ th[t].name \in Names /\ th[t].v \in Values
        /\ UNCHANGED <<slot, high, free, obj, owner, grants, crashed>>
        /\ th'[t].pc = "bound" /\ th'[t].v = th[t].v /\ th'[t].want = th[t].want /\ th'[t].dir = th[t].dir
        /\ th'[t].name \in {th[t].name, Null}
        /\ \A u \in Threads : u # t => th'[u] = th[u]
    BY <1>3, <1>t DEF BindName, Past, Fields, Hands
  <2>2. Vacant' /\ Plain' /\ Private' /\ GrantHonoured'
    BY <2>1 DEF Vacant, Plain, Private, GrantHonoured
  <2>3. Answers'
    <3>1. ASSUME NEW u \in Threads, th'[u].pc \in {"mapped", "bound"}
          PROVE  obj'[th'[u].v].name = Null /\ (NewOne(u)' \/ Copy(u)')
      <4>1. /\ th'[u].v = th[u].v /\ th'[u].want = th[u].want /\ th'[u].dir = th[u].dir
            /\ th[u].pc \in {"mapped", "bound"}
        BY <2>1, <3>1
      <4> QED BY <2>1, <4>1 DEF Answers, NewOne, Copy
    <3> QED BY <3>1 DEF Answers
  <2>4. \A v \in Values : Registered(v) => Registered(v)'
    BY <2>1 DEF Registered
  <2>5. Denoting'
    <3> SUFFICES ASSUME NEW n \in Names, ior'[n] \in Mapped PROVE \E v \in Values : Denotes(n, v)'
      BY DEF Denoting
    <3>1. CASE ior'[n] = ior[n]
      <4>1. PICK v \in Values : Denotes(n, v)
        BY <3>1 DEF Denoting
      <4>2. Denotes(n, v)'
        BY <2>1, <2>4, <3>1, <4>1 DEF Denotes
      <4> QED BY <4>2
    <3>2. CASE ior'[n] # ior[n]
      <4>1. n = th[t].name /\ ior'[n] = obj[th[t].v].mapped /\ th'[t].name = n
        BY <1>3, <1>t, <2>1, <3>2 DEF BindName, Past, Fields
      <4>2. slot[obj[th[t].v].mapped.index] = th[t].v
        BY <2>1, <4>1 DEF Answers, NewOne, Copy
      <4>3. Registered(th[t].v)
        BY <1>r, <4>1, <4>2 DEF Registered
      <4>4. Denotes(n, th[t].v)'
        BY <2>1, <2>4, <4>1, <4>3 DEF Denotes
      <4> QED BY <2>1, <4>4
    <3> QED BY <3>1, <3>2
  <2> QED BY <2>1, <2>2, <2>3, <2>5
<1>4. ASSUME NEW t \in Threads, Return(t) PROVE Disciplined' /\ crashed' = crashed
  <2> DEFINE x == th[t].v
             m == obj[x].mapped
  <2>1. /\ th[t].pc \in {"mapped", "bound"} /\ (th[t].name # Null => th[t].pc = "bound")
        /\ UNCHANGED <<slot, high, free, ior, crashed>> /\ x \in Values
        /\ \A y \in Mapped : y # m => owner'[y] = owner[y] /\ grants'[y] = grants[y]
    BY <1>4, <1>t DEF Return, Hands
  <2>2. /\ th'[t].pc = "idle" /\ th'[t].v = Null /\ th'[t].name = Null
        /\ \A u \in Threads : u # t => th'[u] = th[u] /\ th[u].v # x
    BY <1>4, <1>t, <2>1 DEF Return, Fields, Idle, Private
  <2>3. ASSUME NEW v \in Values
        PROVE  /\ Renamed(t)[v].mapped = obj[v].mapped /\ Renamed(t)[v].orig = obj[v].orig
               /\ Renamed(t)[v].name = IF v = x /\ th[t].name # Null THEN th[t].name ELSE obj[v].name
    BY <1>t, <2>1 DEF Renamed, Fields
  <2>4. /\ \A i \in Index : slot[i] # Null => obj'[slot[i]] = Renamed(t)[slot[i]] /\ slot[i] \in Values
        /\ \A u \in Threads : u # t /\ th[u].v \in Values => obj'[th[u].v] = obj[th[u].v]
    <3>1. obj' = Kept(Renamed(t), slot, th')
      BY <1>4 DEF Return
    <3>2. \A u \in Threads : u # t /\ th[u].v \in Values => Renamed(t)[th[u].v] = obj[th[u].v]
      BY <2>2 DEF Renamed
    <3> QED BY <1>t, <2>2, <3>1, <3>2 DEF Kept, Fields
  <2>5. \/ m \in Mapped /\ slot[m.index] = x /\ grants[m] = 0 /\ obj[x].orig = th[t].want /\ m.dir = th[t].dir
        \/ m \in Natives
    BY <2>1 DEF Answers, NewOne, Copy
  <2>6. m \in Mapped => owner'[m] = th[t].want /\ grants'[m] \in {0, 1}
    <3>1. m \in Mapped => owner'[m] = th[t].want
      BY <1>4 DEF Return
    <3>2. m \in Mapped => grants'[m] = IF grants[m] < MaxGrants THEN grants[m] + 1 ELSE grants[m]
      BY <1>4 DEF Return
    <3>3. m \in Mapped => m \notin Natives
      BY MappedAssumption
    <3> QED BY <2>5, <3>1, <3>2, <3>3, MapperAssumption
  <2> HIDE DEF x, m
  <2>7. Vacant'
    BY <2>1 DEF Vacant
  <2>8. Plain'
    <3>1. \A i \in Index : slot'[i] # Null =>
            /\ obj'[slot'[i]].orig \in Natives
            /\ obj'[slot'[i]].name # Null => obj'[slot'[i]].mapped.dir = "O"
      <4> SUFFICES ASSUME NEW i \in Index, slot[i] # Null
                   PROVE  /\ obj'[slot[i]].orig \in Natives
                          /\ obj'[slot[i]].name # Null => obj'[slot[i]].mapped.dir = "O"
        BY <2>1
      <4>1. slot[i] = x => m = obj[slot[i]].mapped /\ m \in Mapped
        BY DEF x, m, Slots
      <4> QED BY <2>3, <2>4, <2>5, <4>1 DEF Plain
    <3>2. \A y \in Mapped : grants'[y] \in {0, 1}
      BY <2>1, <2>6 DEF Plain
    <3> QED BY <2>2, <3>1, <3>2 DEF Plain
  <2>9. Private'
    BY <2>2 DEF Private
  <2>10. GrantHonoured'
    <3> SUFFICES ASSUME NEW y \in Mapped, grants'[y] > 0
                 PROVE  slot[y.index] # Null /\ obj'[slot[y.index]].mapped = y /\ obj'[slot[y.index]].orig = owner'[y]
      BY <2>1 DEF GrantHonoured
    <3>1. CASE y = m
      BY <1>r, <2>1, <2>3, <2>4, <2>5, <2>6, <3>1 DEF m
    <3>2. CASE y # m
      <4>1. slot[y.index] # Null /\ obj[slot[y.index]].mapped = y /\ obj[slot[y.index]].orig = owner'[y]
        BY <2>1, <3>2 DEF GrantHonoured
      <4> QED BY <1>r, <2>3, <2>4, <4>1
    <3> QED BY <3>1, <3>2
  <2>11. Answers'
    <3>1. ASSUME NEW u \in Threads, th'[u].pc \in {"mapped", "bound"}
          PROVE  obj'[th'[u].v].name = Null /\ (NewOne(u)' \/ Copy(u)')
      <4>1. u # t /\ th'[u] = th[u] /\ th[u].v # x /\ th[u].v \in Values /\ obj'[th[u].v] = obj[th[u].v]
        BY <2>2, <2>4, <3>1 DEF Hands
      <4>2. obj[th[u].v].name = Null /\ (NewOne(u) \/ Copy(u))
        BY <3>1, <4>1 DEF Answers
      <4>3. CASE NewOne(u)
        <5>1. obj[th[u].v].mapped # m
          BY <2>5, <4>1, <4>3 DEF NewOne
        <5> QED BY <2>1, <4>1, <4>2, <4>3, <5>1 DEF NewOne
      <4>4. CASE Copy(u)
        BY <4>1, <4>2, <4>4 DEF Copy
      <4> QED BY <4>2, <4>3, <4>4
    <3> QED BY <3>1 DEF Answers
  <2>12. Denoting'
    <3> SUFFICES ASSUME NEW n \in Names, ior'[n] \in Mapped PROVE \E v \in Values : Denotes(n, v)'
      BY DEF Denoting
    <3>1. PICK v \in Values : Denotes(n, v)
      BY <2>1 DEF Denoting
    <3>2. Registered(v)' /\ obj'[v] = Renamed(t)[v]
      <4>1. CASE \E i \in Index : slot[i] = v
        BY <2>1, <2>4, <4>1 DEF Registered
      <4>2. CASE \E u \in Threads : th[u].pc = "removed" /\ th[u].v = v
        <5>1. PICK u \in Threads : th[u].pc = "removed" /\ th[u].v = v
          BY <4>2
        <5>2. u # t /\ v # x
          BY <2>1, <2>2, <5>1
        <5> QED BY <2>2, <2>4, <5>1, <5>2 DEF Registered, Renamed, x
      <4> QED BY <3>1, <4>1, <4>2 DEF Denotes, Registered
    <3>3. CASE \E u \in Threads : u # t /\ th[u].pc = "bound" /\ th[u].v = v /\ th[u].name = n
      BY <2>1, <2>2, <2>3, <3>1, <3>2, <3>3 DEF Denotes
    <3>4. CASE th[t].pc = "bound" /\ th[t].v = v /\ th[t].name = n
      BY <2>1, <2>3, <3>1, <3>2, <3>4 DEF Denotes, x
    <3>5. CASE obj[v].name = n
      <4>1. v # x
        BY <2>1, <3>5 DEF Answers, x
      <4> QED BY <2>1, <2>3, <3>1, <3>2, <3>5, <4>1 DEF Denotes
    <3> QED BY <3>1, <3>3, <3>4, <3>5 DEF Denotes
  <2> QED BY <2>1, <2>7, <2>8, <2>9, <2>10, <2>11, <2>12
<1>5. ASSUME NEW t \in Threads, NEW r \in Mapped, Remove(t, r) PROVE Disciplined' /\ crashed' = crashed
  <2> DEFINE x == slot[r.index]
  <2>0. r.index \in Index
    BY <1>r
  <2>1. /\ th[t].pc = "idle" /\ th[t].v = Null /\ x \in Values /\ UNCHANGED <<ior, high, owner, crashed>>
        /\ slot' = [slot EXCEPT ![r.index] = Null] /\ free' = <<r.index>> \o free
        /\ Usable(r) /\ grants[r] = 1
    BY <1>5, <1>t, <1>u, <2>0 DEF Remove, Fields, Private
  <2>2. /\ r.dir = "O" => th'[t].pc = "removed" /\ th'[t].v = x /\ th'[t].name = Null
        /\ r.dir # "O" => th' = th
        /\ \A u \in Threads : u # t => th'[u] = th[u]
    BY <1>5, <1>t DEF Remove, Fields, Removing
  <2>3. grants'[r] = 0 /\ \A y \in Mapped : y # r => grants'[y] = grants[y]
    BY <1>5, <1>t, <2>1 DEF Remove, Retired
  <2>4. obj[x].mapped = r /\ obj[x].orig = owner[r]
    BY <2>1 DEF GrantHonoured
  <2>5. /\ \A i \in Index : slot'[i] # Null => i # r.index /\ slot'[i] = slot[i]
        /\ \A i \in Index : i # r.index => slot'[i] = slot[i] /\ slot[i] # x
    <3>1. \A i \in Index : i # r.index => slot'[i] = slot[i]
      BY <1>t, <2>0, <2>1 DEF Fields
    <3>2. \A i \in Index : slot[i] = x => i = r.index
      BY <2>0, <2>1 DEF Slots
    <3>3. slot'[r.index] = Null
      BY <1>t, <2>0, <2>1 DEF Fields
    <3> QED BY <3>1, <3>2, <3>3
  <2>6. /\ \A i \in Index : slot'[i] \in Values => obj'[slot'[i]] = obj[slot'[i]]
        /\ \A u \in Threads : th'[u].v \in Values => obj'[th'[u].v] = obj[th'[u].v]
    <3>1. obj' = Kept(obj, slot', th')
      BY <1>5 DEF Remove
    <3> QED BY <3>1 DEF Kept
  <2>7. \A u \in Threads : th[u].v # x
    <3> SUFFICES ASSUME NEW u \in Threads, th[u].v = x PROVE FALSE
      OBVIOUS
    <3>1. th[u].pc \in {"mapped", "bound"}
      <4>1. th[u].pc \in {"idle", "mapped", "bound", "removed"}
        BY <1>t DEF Fields
      <4>2. th[u].pc # "idle"
        BY <2>1 DEF Private
      <4>3. th[u].pc # "removed"
        BY <2>0 DEF Removers
      <4> QED BY <4>1, <4>2, <4>3
    <3> QED BY <2>1, <2>4, <3>1 DEF Answers, NewOne, Copy
  <2> HIDE DEF x
  <2>8. Vacant'
    BY <1>t, <2>0, <2>1, PushVacant DEF x
  <2>9. Plain'
    <3>1. \A i \in Index : slot'[i] # Null =>
            /\ obj'[slot'[i]].orig \in Natives
            /\ obj'[slot'[i]].name # Null => obj'[slot'[i]].mapped.dir = "O"
      BY <1>t, <2>5, <2>6 DEF Plain, Fields
    <3>2. \A u \in Threads : th'[u].name # Null => th'[u].dir = "O"
      BY <2>2 DEF Plain
    <3>3. \A y \in Mapped : grants'[y] \in {0, 1}
      BY <2>3 DEF Plain
    <3> QED BY <3>1, <3>2, <3>3 DEF Plain
  <2>10. Private'
    BY <2>1, <2>2, <2>7 DEF Private
  <2>11. GrantHonoured'
    <3> SUFFICES ASSUME NEW y \in Mapped, grants'[y] > 0
                 PROVE  slot'[y.index] # Null /\ obj'[slot'[y.index]].mapped = y /\ obj'[slot'[y.index]].orig = owner[y]
      BY <2>1 DEF GrantHonoured
    <3>1. y # r /\ slot[y.index] # Null /\ obj[slot[y.index]].mapped = y /\ obj[slot[y.index]].orig = owner[y]
      BY <2>3 DEF GrantHonoured
    <3>2. y.index \in Index /\ y.index # r.index
      BY <1>r, <2>4, <3>1 DEF x
    <3>3. slot'[y.index] = slot[y.index] /\ slot[y.index] \in Values
      BY <1>t, <2>5, <3>1, <3>2 DEF Fields
    <3> QED BY <2>6, <3>1, <3>2, <3>3
  <2>12. Answers'
    <3>1. ASSUME NEW u \in Threads, th'[u].pc \in {"mapped", "bound"}
          PROVE  obj'[th'[u].v].name = Null /\ (NewOne(u)' \/ Copy(u)')
      <4>1. th'[u] = th[u] /\ th[u].v # x /\ th[u].v \in Values /\ obj'[th[u].v] = obj[th[u].v]
        BY <2>1, <2>2, <2>6, <2>7, <3>1 DEF Hands
      <4>2. obj[th[u].v].name = Null /\ (NewOne(u) \/ Copy(u))
        BY <3>1, <4>1 DEF Answers
      <4>3. CASE NewOne(u)
        <5>1. /\ obj[th[u].v].mapped # r /\ obj[th[u].v].mapped.index # r.index
              /\ obj[th[u].v].mapped.index \in Index
          BY <1>r, <4>1, <4>3, <2>1 DEF NewOne, x
        <5> QED BY <2>3, <2>5, <4>1, <4>2, <4>3, <5>1 DEF NewOne
      <4>4. CASE Copy(u)
        BY <4>1, <4>2, <4>4 DEF Copy
      <4> QED BY <4>2, <4>3, <4>4
    <3> QED BY <3>1 DEF Answers
  <2>13. Denoting'
    <3> SUFFICES ASSUME NEW n \in Names, ior'[n] \in Mapped PROVE \E v \in Values : Denotes(n, v)'
      BY DEF Denoting
    <3>1. PICK v \in Values : Denotes(n, v)
      BY <2>1 DEF Denoting
    <3>2. v = x => obj[v].name = n
      BY <2>7, <3>1 DEF Denotes
    <3>3. v = x => r.dir = "O"
      BY <2>0, <2>1, <2>4, <3>2 DEF Plain, x
    <3>4. Registered(v)' /\ obj'[v] = obj[v]
      <4>1. CASE v = x
        BY <2>1, <2>2, <2>6, <3>3, <4>1 DEF Registered
      <4>2. CASE v # x /\ \E i \in Index : slot[i] = v
        <5>1. PICK i \in Index : slot[i] = v
          BY <4>2
        <5>2. slot'[i] = v
          BY <2>5, <4>2, <5>1 DEF x
        <5> QED BY <2>6, <5>2 DEF Registered
      <4>3. CASE v # x /\ \E u \in Threads : th[u].pc = "removed" /\ th[u].v = v
        BY <2>1, <2>2, <2>6, <4>3 DEF Registered
      <4> QED BY <3>1, <4>1, <4>2, <4>3 DEF Denotes, Registered
    <3>5. Denotes(n, v)'
      BY <2>1, <2>2, <3>1, <3>4 DEF Denotes
    <3> QED BY <3>5
  <2> QED BY <2>1, <2>8, <2>9, <2>10, <2>11, <2>12, <2>13
<1>6. ASSUME NEW t \in Threads, RemoveEnd(t) PROVE Disciplined' /\ crashed' = crashed
  <2>1. /\ th[t].pc = "removed" /\ th[t].v \in Values
        /\ UNCHANGED <<slot, high, free, owner, grants, crashed>>
        /\ \A i \in Index : slot[i] # th[t].v
    BY <1>6 DEF RemoveEnd, Hands, Removers
  <2>2. /\ th'[t].pc = "idle" /\ th'[t].v = Null /\ th'[t].name = Null
        /\ \A u \in Threads : u # t => th'[u] = th[u] /\ th[u].v # th[t].v
        /\ \A n \in Names : ior'[n] = IF n = obj[th[t].v].name THEN Null ELSE ior[n]
    BY <1>6, <1>t, <2>1 DEF RemoveEnd, Unnamed, Fields, Idle, Private
  <2>3. /\ \A i \in Index : slot[i] # Null => slot[i] \in Values /\ obj'[slot[i]] = obj[slot[i]]
        /\ \A u \in Threads : u # t /\ th[u].v \in Values => obj'[th[u].v] = obj[th[u].v]
    <3>1. obj' = Kept(obj, slot, th')
      BY <1>6 DEF RemoveEnd
    <3> QED BY <1>t, <2>2, <3>1 DEF Kept, Fields
  <2>4. Vacant' /\ Plain' /\ Private'
    <3>1. Vacant'
      BY <2>1 DEF Vacant
    <3>2. Plain'
      BY <2>1, <2>2, <2>3 DEF Plain
    <3>3. Private'
      BY <2>2 DEF Private
    <3> QED BY <3>1, <3>2, <3>3
  <2>5. GrantHonoured'
    BY <1>r, <2>1, <2>3 DEF GrantHonoured
  <2>6. Answers'
    <3>1. ASSUME NEW u \in Threads, th'[u].pc \in {"mapped", "bound"}
          PROVE  obj'[th'[u].v].name = Null /\ (NewOne(u)' \/ Copy(u)')
      <4>1. u # t /\ th'[u] = th[u] /\ obj'[th[u].v] = obj[th[u].v]
        BY <2>2, <2>3, <3>1 DEF Hands
      <4> QED BY <2>1, <3>1, <4>1 DEF Answers, NewOne, Copy
    <3> QED BY <3>1 DEF Answers
  <2>7. Denoting'
    <3> SUFFICES ASSUME NEW n \in Names, ior'[n] \in Mapped PROVE \E v \in Values : Denotes(n, v)'
      BY DEF Denoting
    <3>1. n # obj[th[t].v].name /\ ior'[n] = ior[n]
      BY <1>r, <2>2
    <3>2. PICK v \in Values : Denotes(n, v)
      BY <3>1 DEF Denoting
    <3>3. v # th[t].v
      BY <2>1, <2>2, <3>1, <3>2 DEF Denotes
    <3>4. Registered(v)' /\ obj'[v] = obj[v]
      BY <2>1, <2>2, <2>3, <3>2, <3>3 DEF Denotes, Registered
    <3>5. Denotes(n, v)'
      BY <2>1, <2>2, <3>1, <3>2, <3>4 DEF Denotes
    <3> QED BY <3>5
  <2> QED BY <2>1, <2>4, <2>5, <2>6, <2>7
<1>7. ASSUME NEW t \in Threads, NEW r \in Mapped, NEW dir \in Dirs, MapReverseMiss(t, r, dir) PROVE FALSE
  BY <1>7, <1>u DEF MapReverseMiss, MayMap, GrantHonoured
<1>8. ASSUME UNCHANGED vars PROVE Disciplined' /\ crashed' = crashed
  <2> USE <1>8 DEF vars
  <2>1. Vacant' /\ Plain' /\ Private' /\ GrantHonoured'
    BY DEF Vacant, Plain, Private, GrantHonoured
  <2>2. Answers'
    BY DEF Answers, NewOne, Copy
  <2>3. Denoting'
    BY DEF Denoting, Denotes, Registered
  <2> QED BY <2>1, <2>2, <2>3
<1> QED
  BY <1>1, <1>2, <1>3, <1>4, <1>5, <1>6, <1>7, <1>8 DEF Next, Running, MapAgain, Reap

LEMMA DisciplinedInvariant ==
    ASSUME ~Share, ~Stale, ~Reaps PROVE Spec => [](Naming /\ Disciplined /\ NoCrash)
<1>1. Init => Naming /\ Disciplined /\ NoCrash
  BY NamingInit, DisciplinedInit DEF Init, NoCrash
<1>2. Naming /\ Disciplined /\ NoCrash /\ [Next]_vars => (Naming /\ Disciplined /\ NoCrash)'
  BY NamingStep, DisciplinedStep DEF NoCrash
<1> QED BY <1>1, <1>2, PTL DEF Spec

\* While each reference is used by those it was given to until they remove it, and
\* nothing is reaped, a reference that was given out denotes the object it was
\* given out for: no mapping, removal or reuse of an index comes in between.
THEOREM GrantsHonoured == ASSUME ~Share, ~Stale, ~Reaps PROVE Spec => []GrantHonoured
<1>1. Naming /\ Disciplined /\ NoCrash => GrantHonoured
  BY DEF Disciplined
<1> QED BY <1>1, DisciplinedInvariant, PTL

\* Under the same discipline every mapping operation answers what it was asked:
\* the object's mapped reference, facing the right way, or its native reference
\* when it was asked about a mapped reference that faces the other way.
THEOREM QuestionsAnswered == ASSUME ~Share, ~Stale, ~Reaps PROVE Spec => []AnswersTheQuestion
<1>1. Naming /\ Disciplined /\ NoCrash => AnswersTheQuestion
  BY DEF Disciplined, Answers, NewOne, Copy, AnswersTheQuestion
<1> QED BY <1>1, DisciplinedInvariant, PTL

\* Under the same discipline no name in the IOR table is bound to a mapped
\* reference that is gone, or that no remove_server will unbind.
THEOREM NamesKnown == ASSUME ~Share, ~Stale, ~Reaps PROVE Spec => []NamesDenote
<1>1. Naming /\ Disciplined /\ NoCrash => NamesDenote
  BY DEF Disciplined, Denoting, Denotes, NamesDenote
<1> QED BY <1>1, DisciplinedInvariant, PTL

\* Under the same discipline add_native always finds the value of a reference
\* that it maps back, and never calls reverse() on a null pointer.
THEOREM NeverCrashes == ASSUME ~Share, ~Stale, ~Reaps PROVE Spec => []NoCrash
<1>1. Naming /\ Disciplined /\ NoCrash => NoCrash
  OBVIOUS
<1> QED BY <1>1, DisciplinedInvariant, PTL
=============================================================================
