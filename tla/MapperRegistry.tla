--------------------------- MODULE MapperRegistry ---------------------------
(***************************************************************************)
(* The registry of proxy mappers (src/src/lorica/MapperRegistry.cpp) and   *)
(* the chain they form (take_mapper, destroy_chain and the reference count *)
(* in src/src/lorica/ProxyMapper.cpp): filled at start-up by the proxy and *)
(* by loaded evaluator services, consulted for every reference, destroyed  *)
(* at shutdown.  All of it runs on one thread; the ORB's threads only read *)
(* the chain.  The chain is the sequence of mappers reached from mappers_  *)
(* over next_.  remove_proxy_mapper, which nothing calls, is left out.     *)
(***************************************************************************)
EXTENDS Integers, Sequences, SequencesExt

CONSTANTS
    Others,    \* the mappers that loaders and the proxy create
    Nulls,     \* the null mappers the registry creates
    Types,     \* type ids
    Supports,  \* the type ids for which each of Others has an evaluator
    None       \* the null pointer

ASSUME RegistryAssumption ==
    /\ Others \cap Nulls = {} /\ None \notin Others \cup Nulls
    /\ Supports \in [Others -> SUBSET Types]

Mappers == Others \cup Nulls

VARIABLES
    mappers,  \* the chain
    generic,  \* generic_mapper_
    null,     \* null_mapper_
    ready,    \* mappers_ready_
    typeIds,  \* typeIdList of each null mapper
    rc,       \* ref_count_
    life,     \* whether a mapper is yet to be created, lives, or is deleted
    pending   \* the decr_refcount calls a running operation has yet to make

registryVars == <<mappers, generic, null, ready, typeIds, rc, life, pending>>

RegistryTypeOK ==
    /\ mappers \in Seq(Mappers)
    /\ generic \in Others \cup {None}
    /\ null \in Nulls \cup {None}
    /\ ready \in BOOLEAN
    /\ typeIds \in [Nulls -> SUBSET Types]
    /\ rc \in [Mappers -> Int]
    /\ life \in [Mappers -> {"unborn", "live", "deleted"}]
    /\ pending \in Seq(Mappers)

RegistryInit ==
    /\ mappers = <<>>
    /\ generic = None
    /\ null = None
    /\ ready = FALSE
    /\ typeIds = [n \in Nulls |-> {}]
    /\ rc = [m \in Mappers |-> 0]
    /\ life = [m \in Mappers |-> "unborn"]
    /\ pending = <<>>

-----------------------------------------------------------------------------
\* <<m>>, or nothing for the null pointer.
Opt(m) == IF m = None THEN <<>> ELSE <<m>>

(***************************************************************************)
(* A definition that stands before the one it resembles (WithoutType,      *)
(* NullFirst, Kept) is a faulty variant that no action uses.               *)
(***************************************************************************)

\* new, with the count of one that the constructor sets.
New(m) ==
    /\ life[m] = "unborn"
    /\ life' = [life EXCEPT ![m] = "live"]
    /\ rc' = [rc EXCEPT ![m] = 1]

\* add_proxy_mapper's early return, which set_generic_mapper shares.
Refused == ready

\* GenericLoader::init: the new mapper replaces the generic mapper there was.
SetGeneric(m) ==
    /\ pending = <<>>
    /\ New(m)
    /\ IF Refused THEN UNCHANGED <<generic, pending>>
                  ELSE generic' = m /\ pending' = Opt(generic)
    /\ UNCHANGED <<mappers, null, ready, typeIds>>

\* Proxy::configure, or an evaluator service, adds a mapper of its own.
AddProxyMapper(m) ==
    /\ pending = <<>>
    /\ New(m)
    /\ mappers' = IF Refused THEN mappers ELSE Append(mappers, m)
    /\ UNCHANGED <<generic, null, ready, typeIds, pending>>

\* add_type_id
WithoutType(n, type) == typeIds
WithType(n, type)    == [typeIds EXCEPT ![n] = @ \cup {type}]

\* add_null_mapper_type: no look at mappers_ready_.
AddNullType(n, type) ==
    /\ pending = <<>>
    /\ IF null = None THEN New(n) ELSE n = null /\ UNCHANGED <<life, rc>>
    /\ null' = n
    /\ typeIds' = WithType(n, type)
    /\ UNCHANGED <<mappers, generic, ready, pending>>

CreateDefaultNull(n) ==
    /\ pending = <<>>
    /\ ~ready
    /\ null = None
    /\ New(n)
    /\ null' = n
    /\ UNCHANGED <<mappers, generic, ready, typeIds, pending>>

\* The chain init_mappers makes.
NullFirst    == mappers \o Opt(null) \o Opt(generic)
Consolidated == mappers \o Opt(generic) \o Opt(null)

\* generic_mapper_ once the chain has it.
Kept         == generic
HandedOver   == None

InitMappers ==
    /\ pending = <<>>
    /\ ~ready
    /\ mappers' = Consolidated
    /\ generic' = HandedOver
    /\ null' = None
    /\ ready' = TRUE
    /\ UNCHANGED <<typeIds, rc, life, pending>>

\* The initialisation of a mapper throws: the chain is made, but not ready.
InitMappersThrows ==
    /\ pending = <<>>
    /\ ~ready
    /\ mappers' = Consolidated
    /\ generic' = HandedOver
    /\ null' = None
    /\ UNCHANGED <<ready, typeIds, rc, life, pending>>

\* destroy_chain, from the last mapper to the first: each is decremented by its
\* own destroy_chain and, but for the first, once more by its predecessor's.
Unwound(s) == [j \in 1 .. (IF s = <<>> THEN 0 ELSE 2 * Len(s) - 1) |-> s[Len(s) - (j - 1) \div 2]]

Destroy ==
    /\ pending = <<>>
    /\ pending' = Opt(null) \o Opt(generic) \o Unwound(mappers)
    /\ null' = None
    /\ generic' = None
    /\ mappers' = <<>>
    /\ UNCHANGED <<ready, typeIds, rc, life>>

\* decr_refcount, with delete this.
Decr ==
    LET m == Head(pending) IN
    /\ pending # <<>>
    /\ pending' = Tail(pending)
    /\ rc' = [rc EXCEPT ![m] = @ - 1]
    /\ life' = IF rc[m] - 1 > 0 THEN life ELSE [life EXCEPT ![m] = "deleted"]
    /\ UNCHANGED <<mappers, generic, null, ready, typeIds>>

-----------------------------------------------------------------------------
(***************************************************************************)
(* Looking up a mapper: add_native, remove_mapped and poa_and_object_id    *)
(* all go down the chain to the first mapper with an evaluator.            *)
(***************************************************************************)
EvaluatorFor(m, type) ==
    IF m \in Nulls THEN typeIds[m] = {} \/ type \in typeIds[m] ELSE type \in Supports[m]

MapperFor(type) ==
    LET i == SelectInSeq(mappers, LAMBDA m : EvaluatorFor(m, type)) IN
    IF i = 0 THEN None ELSE mappers[i]

\* A reference goes through the null mapper, which looks at nothing, only when no
\* other mapper that was registered has an evaluator for its type.
NullIsLastResort ==
    \A type \in Types : MapperFor(type) \in Nulls =>
        \A m \in Others : m \in ToSet(mappers) => ~EvaluatorFor(m, type)

\* What the registry refers to it refers to once, and is alive with a count of one.
OwnedOnce ==
    LET held == mappers \o Opt(generic) \o Opt(null) IN
    /\ IsInjective(held)
    /\ \A m \in ToSet(held) : life[m] = "live" /\ rc[m] = 1

\* ProxyMapper.h on take_mapper: "the instance supplied will have its count
\* decremented when the list is destroyed"; decr_refcount asserts that the count
\* ends at zero.  No mapper is decremented once it has deleted itself.
DecrementsTheLiving == pending # <<>> => life[Head(pending)] = "live"
=============================================================================
