-------------------------- MODULE ReferenceMapper --------------------------
(***************************************************************************)
(* The ReferenceMapper service (src/src/proxy/ReferenceMapper_i.cpp) over  *)
(* the mappings of a caching ProxyMapper (src/src/lorica/ProxyMapper.cpp)  *)
(* and the proxy's IOR table, called by several ORB threads at once.       *)
(*                                                                         *)
(* A mapped reference is what its object key says: a direction and an      *)
(* index.  Indices are reused, so equal keys need not mean the same        *)
(* object.  The table of mappings works in single steps here and a value   *)
(* exists as long as somebody has it: both are shown of RMVByMapped.  A    *)
(* value's agent and security flag, and the access list they feed, are     *)
(* left out: no operation here reads them.                                 *)
(***************************************************************************)
EXTENDS Integers, Sequences, FiniteSets

CONSTANTS
    Threads,    \* the ORB threads
    Natives,    \* references made by servers and clients, not by this proxy
    Names,      \* corbaloc names
    Values,     \* addresses of ReferenceMapValues
    Null,       \* no value, no name, no reference
    MaxIndex,   \* bound on high_index_
    MaxGrants,  \* how far grants counts
    Hazards     \* what callers and the collector may do: see Share, Stale, Reaps

ASSUME MapperAssumption ==
    /\ Null \notin Values \cup Names \cup Natives
    /\ MaxIndex \in Nat \ {0}
    /\ MaxGrants \in Nat \ {0}

Share == "share" \in Hazards  \* a mapped reference is mapped once more the same way
Stale == "stale" \in Hazards  \* a mapped reference is used after its removal
Reaps == "reap"  \in Hazards  \* the collector takes a mapping away

Index  == 0 .. (MaxIndex - 1)
Dirs   == {"O", "I"}                        \* out-facing and in-facing
Mapped == [dir: Dirs, index: Index]
ASSUME MappedAssumption == Natives \cap Mapped = {} /\ Null \notin Mapped
Refs   == Natives \cup Mapped

VARIABLES
    slot,     \* the value at each index of the table, or Null
    high,     \* high_index_
    free,     \* free_stack_, top first
    obj,      \* the fields of the value at each address
    ior,      \* the IOR table: the reference bound to each name, or Null
    th,       \* what each thread is doing
    crashed,  \* a null pointer has been dereferenced
    owner,    \* history: the native a mapped reference was last given out for
    grants    \* history: how often it was given out and not yet removed

vars == <<slot, high, free, obj, ior, th, crashed, owner, grants>>

Blank == [orig |-> Null, mapped |-> Null, name |-> Null]
Removing(v) == [pc |-> "removed", v |-> v, name |-> Null, want |-> Null, dir |-> "O"]
Idle  == [pc |-> "idle", v |-> Null, name |-> Null, want |-> Null, dir |-> "O"]

TypeOK ==
    /\ slot \in [Index -> Values \cup {Null}]
    /\ high \in 0 .. MaxIndex
    /\ free \in Seq(Index)
    /\ obj \in [Values -> [orig: Refs \cup {Null}, mapped: Refs \cup {Null},
                           name: Names \cup {Null}]]
    /\ ior \in [Names -> Refs \cup {Null}]
    /\ th \in [Threads -> [pc: {"idle", "mapped", "bound", "removed"},
                           v: Values \cup {Null}, name: Names \cup {Null},
                           want: Natives \cup {Null}, dir: Dirs]]
    /\ crashed \in BOOLEAN
    /\ owner \in [Mapped -> Natives \cup {Null}]
    /\ grants \in [Mapped -> 0 .. MaxGrants]

Init ==
    /\ slot = [i \in Index |-> Null]
    /\ high = 0
    /\ free = <<>>
    /\ obj = [v \in Values |-> Blank]
    /\ ior = [n \in Names |-> Null]
    /\ th = [t \in Threads |-> Idle]
    /\ crashed = FALSE
    /\ owner = [m \in Mapped |-> Null]
    /\ grants = [m \in Mapped |-> 0]

-----------------------------------------------------------------------------
(***************************************************************************)
(* Values and references.                                                  *)
(*                                                                         *)
(* A definition that stands before the one it resembles is a faulty        *)
(* variant that no action uses: it shows which fault a property notices.   *)
(***************************************************************************)
Fresh == {v \in Values : (\A i \in Index : slot[i] # v) /\ \A t \in Threads : th[t].v # v}

\* What is left of the values o when only s and h still have some: the last
\* one to release a value deletes it.
Kept(o, s, h) ==
    [v \in Values |-> IF (\E i \in Index : s[i] = v) \/ (\E t \in Threads : h[t].v = v)
                      THEN o[v] ELSE Blank]

\* What already_mapped makes of a reference's object key.
Status(r, dir) ==
    IF r \in Natives THEN "NOT_MAPPED"
    ELSE IF r.dir = dir THEN "ALREADY_MAPPED" ELSE "REVERSE_MAPPED"

\* The object that the owner of r means by it.
Denoted(r) == IF r \in Natives THEN r ELSE owner[r]

\* Callers use the references they were given until they have removed them.
Usable(r) == r \in Mapped => (grants[r] > 0 \/ Stale)

\* The fields of reverse()'s value.
ReversedNot(o) == [orig |-> o.orig, mapped |-> o.mapped, name |-> Null]
Reversed(o) == [orig |-> o.mapped, mapped |-> o.orig, name |-> Null]

-----------------------------------------------------------------------------
(***************************************************************************)
(* Mapping.  as_server, as_secure_server, as_client,                       *)
(* as_client_with_corbaloc and mapped_for_native all call map_reference    *)
(* and end by giving out mapped_ref_; the server variants bind a name in   *)
(* between.  Thread t maps r with the name nm, or Null for "".  A miss on  *)
(* an ALREADY_MAPPED reference makes all of them give nil and changes      *)
(* nothing, so it is no step.                                              *)
(***************************************************************************)
MayMap(t, r, dir, nm) ==
    /\ th[t].pc = "idle"
    /\ Usable(r)
    /\ nm # Null => dir = "O"

Enter(t, v, r, dir, nm) ==
    th' = [th EXCEPT ![t] = [pc |-> "mapped", v |-> v, name |-> nm,
                             want |-> Denoted(r), dir |-> dir]]

\* next_index: the index it gives, and what it makes of free_stack_ and high_index_.
NextIndex  == IF free # <<>> THEN Head(free) ELSE high
PoppedNot  == free
Popped     == IF free # <<>> THEN Tail(free) ELSE free
RaisedEver == high + 1
Raised     == IF free # <<>> THEN high ELSE high + 1

\* add_native_unchecked: a new value at a free or fresh index.
MapNew(t, r, dir, nm) ==
    LET m == [dir |-> dir, index |-> NextIndex] IN
    /\ MayMap(t, r, dir, nm)
    /\ Status(r, dir) = "NOT_MAPPED"
    /\ free = <<>> => high < MaxIndex
    /\ free' = Popped
    /\ high' = Raised
    /\ \E v \in Fresh :
         /\ obj' = [obj EXCEPT ![v] = [orig |-> r, mapped |-> m, name |-> Null]]
         /\ slot' = [slot EXCEPT ![m.index] = v]
         /\ Enter(t, v, r, dir, nm)
    /\ UNCHANGED <<ior, crashed, owner, grants>>

\* ALREADY_MAPPED: the value the table has.
MapAgain(t, r, dir, nm) ==
    /\ MayMap(t, r, dir, nm)
    /\ Share
    /\ Status(r, dir) = "ALREADY_MAPPED"
    /\ slot[r.index] # Null
    /\ Enter(t, slot[r.index], r, dir, nm)
    /\ UNCHANGED <<slot, high, free, obj, ior, crashed, owner, grants>>

\* REVERSE_MAPPED: a temporary value with the two references exchanged.
MapReverse(t, r, dir, nm) ==
    /\ MayMap(t, r, dir, nm)
    /\ Status(r, dir) = "REVERSE_MAPPED"
    /\ slot[r.index] # Null
    /\ \E v \in Fresh :
         /\ obj' = [obj EXCEPT ![v] = Reversed(obj[slot[r.index]])]
         /\ Enter(t, v, r, dir, nm)
    /\ UNCHANGED <<slot, high, free, ior, crashed, owner, grants>>

\* REVERSE_MAPPED and not found: the error is logged and reverse() called
\* on the null pointer.
MapReverseMiss(t, r, dir) ==
    /\ MayMap(t, r, dir, Null)
    /\ Status(r, dir) = "REVERSE_MAPPED"
    /\ slot[r.index] = Null
    /\ crashed' = TRUE
    /\ UNCHANGED <<slot, high, free, obj, ior, th, owner, grants>>

\* as_server_i binds the name in the IOR table, or gives it up (AlreadyBound).
AlreadyBoundIgnored(n) == FALSE
AlreadyBound(n) == ior[n] # Null

\* The thread is past the binding, and keeps the name n to store.
Past(h, n) == [pc |-> "bound", v |-> h.v, name |-> n, want |-> h.want, dir |-> h.dir]

BindName(t) ==
    LET n == th[t].name IN
    /\ th[t].pc = "mapped"
    /\ n # Null
    /\ IF AlreadyBound(n)
       THEN /\ th' = [th EXCEPT ![t] = Past(@, Null)]
            /\ UNCHANGED ior
       ELSE /\ th' = [th EXCEPT ![t] = Past(@, n)]
            /\ ior' = [ior EXCEPT ![n] = obj[th[t].v].mapped]
    /\ UNCHANGED <<slot, high, free, obj, crashed, owner, grants>>

\* What is in ior_table_name_ when as_server_i returns.
Renamed(t) ==
    IF th[t].name # Null
    THEN [obj EXCEPT ![th[t].v] = [orig |-> @.orig, mapped |-> @.mapped, name |-> th[t].name]]
    ELSE obj

\* The caller gets mapped_ref_, and the value is released.
Return(t) ==
    LET m == obj[th[t].v].mapped
        h == [th EXCEPT ![t] = Idle] IN
    /\ th[t].pc \in {"mapped", "bound"}
    /\ th[t].pc = "mapped" => th[t].name = Null
    /\ th' = h
    /\ obj' = Kept(Renamed(t), slot, h)
    /\ owner' = [x \in Mapped |-> IF x = m THEN th[t].want ELSE owner[x]]
    /\ grants' = [x \in Mapped |-> IF x = m /\ grants[x] < MaxGrants THEN grants[x] + 1
                                  ELSE grants[x]]
    /\ UNCHANGED <<slot, high, free, ior, crashed>>

-----------------------------------------------------------------------------
(***************************************************************************)
(* Removal.  A reference of the other direction's POA, or of no POA of     *)
(* ours, makes reference_to_id raise WrongAdapter: no step.  Nor is a miss *)
(* in the table.                                                           *)
(***************************************************************************)

\* One of those who were given r has removed it.
Retired(r) == grants' = [grants EXCEPT ![r] = IF @ > 0 THEN @ - 1 ELSE 0]

\* remove_reference: remove_mapped unbinds the index in the key of r.
Remove(t, r) ==
    LET v == slot[r.index]
        s == [slot EXCEPT ![r.index] = Null] IN
    /\ th[t].pc = "idle"
    /\ Usable(r)
    /\ v # Null
    /\ slot' = s
    /\ free' = <<r.index>> \o free
    /\ th' = IF r.dir = "O" THEN [th EXCEPT ![t] = Removing(v)] ELSE th
    /\ obj' = Kept(obj, s, th')
    /\ Retired(r)
    /\ UNCHANGED <<high, ior, crashed, owner>>

\* What remove_server makes of the IOR table: the name the value has by now
\* is unbound.
UnnamedNot(t) == ior
Unnamed(t) ==
    [n \in Names |-> IF n = obj[th[t].v].name THEN Null ELSE ior[n]]

RemoveEnd(t) ==
    LET h == [th EXCEPT ![t] = Idle] IN
    /\ th[t].pc = "removed"
    /\ ior' = Unnamed(t)
    /\ th' = h
    /\ obj' = Kept(obj, slot, h)
    /\ UNCHANGED <<slot, high, free, crashed, owner, grants>>

\* The collector finds that the native object is gone, or out of reach.
Reap(i) ==
    LET s == [slot EXCEPT ![i] = Null] IN
    /\ Reaps
    /\ slot[i] # Null
    /\ slot' = s
    /\ free' = <<i>> \o free
    /\ obj' = Kept(obj, s, th)
    /\ UNCHANGED <<high, ior, th, crashed, owner, grants>>

Running(t) ==
    \/ \E r \in Refs, dir \in Dirs, nm \in Names \cup {Null} :
         \/ MapNew(t, r, dir, nm)
         \/ MapAgain(t, r, dir, nm)
         \/ MapReverse(t, r, dir, nm)
    \/ \E r \in Mapped, dir \in Dirs : MapReverseMiss(t, r, dir)
    \/ BindName(t)
    \/ Return(t)
    \/ \E r \in Mapped : Remove(t, r)
    \/ RemoveEnd(t)

Next ==
    \/ ~crashed /\ \E t \in Threads : Running(t)
    \/ ~crashed /\ \E i \in Index : Reap(i)
    \/ crashed /\ UNCHANGED vars

Spec == Init /\ [][Next]_vars

-----------------------------------------------------------------------------
(***************************************************************************)
(* Properties.                                                             *)
(***************************************************************************)

\* The value is in the table, or a remove_server has just taken it out.
Registered(v) == \/ \E i \in Index : slot[i] = v
                 \/ \E t \in Threads : th[t].pc = "removed" /\ th[t].v = v

\* A value that carries a corbaloc name has that name bound, to its own mapped
\* reference: remove_server's unbind never finds the name missing (NotFound),
\* and never takes the name of another server, whatever as_server calls, removals
\* and reapings run in between bind and the store of ior_table_name_.
NameIsOwn ==
    \A v \in Values : Registered(v) /\ obj[v].name # Null => ior[obj[v].name] = obj[v].mapped

\* A reference that was given out and not removed denotes the object it was
\* given out for: a request reaches it, and mapping it back gives the native.
GrantHonoured ==
    \A m \in Mapped : grants[m] > 0 =>
        /\ slot[m.index] # Null
        /\ obj[slot[m.index]].mapped = m
        /\ obj[slot[m.index]].orig = owner[m]

\* A thread that is about to give out a reference gives a mapped reference of the
\* object asked for, facing the way asked for, or the object's native reference
\* when the question was about a mapped reference that faces the other way.
AnswersTheQuestion ==
    \A t \in Threads : th[t].pc \in {"mapped", "bound"} =>
        LET o == obj[th[t].v] IN
        \/ o.mapped \in Mapped /\ o.mapped.dir = th[t].dir /\ o.orig = th[t].want
        \/ o.mapped = th[t].want /\ o.orig \in Mapped /\ o.orig.dir # th[t].dir

\* ReferenceMapper.idl on remove_server: "This will unbind the reference from the
\* IOR table, if previously bound."  No name is bound to a mapped reference that
\* is gone, or that a remove_server will not come to.
NamesDenote ==
    \A n \in Names : ior[n] \in Mapped =>
        \E v \in Values : /\ Registered(v) /\ obj[v].mapped = ior[n]
                          /\ \/ obj[v].name = n
                             \/ \E t \in Threads : th[t].pc = "bound" /\ th[t].v = v

\* ReferenceMapper.idl on remove_client: "Client references are counted, as many
\* clients may wish to communicate with the same server."
ClientsCounted ==
    \A m \in Mapped : m.dir = "I" /\ grants[m] > 0 => slot[m.index] # Null

\* MapperRegistry.h on map_reference: "If the supplied ref is known, the
\* previously created reference map value is returned."
KnownOnce ==
    \A i, j \in Index : slot[i] # Null /\ slot[j] # Null /\ i # j =>
        \/ obj[slot[i]].orig # obj[slot[j]].orig
        \/ obj[slot[i]].mapped.dir # obj[slot[j]].mapped.dir

\* ProxyMapper.h on current_native: "returns the native reference corresponding to
\* the mapped object".  A reference that was given out for one object never comes
\* to stand for another.
GivenOutOnce == [][\A m \in Mapped : owner[m] # Null => owner'[m] = owner[m]]_vars

\* The message "error, an already mapped value could not be found" of add_native:
\* not finding the value is an error that is reported, not the end of the proxy.
NoCrash == ~crashed
=============================================================================
