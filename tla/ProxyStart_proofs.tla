-------------------------- MODULE ProxyStart_proofs --------------------------
(***************************************************************************)
(* Proofs about the start of the proxy, for any configuration file, any    *)
(* network interfaces and any number of evaluator services: the mappers    *)
(* that the registry refers to; and how what the file says becomes the     *)
(* endpoints, the arguments of ORB_init, the POA managers' endpoints and   *)
(* the null mapper.                                                        *)
(***************************************************************************)
EXTENDS ProxyStart, SequenceLemmas

(***************************************************************************)
(* Sequences of mappers.                                                   *)
(***************************************************************************)
Holds(s, m) == \E k \in 1 .. Len(s) : s[k] = m
Distinct(s) == \A j, k \in 1 .. Len(s) : s[j] = s[k] => j = k

\* Another mapper, or none, at the end of a chain.
LEMMA OptConcat ==
    ASSUME NEW s \in Seq(Mappers), NEW x \in Mappers \cup {None}
    PROVE  /\ s \o Opt(x) \in Seq(Mappers)
           /\ Len(s) \in Nat /\ Len(s \o Opt(x)) = IF x = None THEN Len(s) ELSE Len(s) + 1
           /\ \A k \in 1 .. Len(s) : (s \o Opt(x))[k] = s[k]
           /\ x # None => (s \o Opt(x))[Len(s) + 1] = x
           /\ \A m \in Mappers : Holds(s \o Opt(x), m) <=> Holds(s, m) \/ m = x
           /\ Distinct(s) /\ ~Holds(s, x) => Distinct(s \o Opt(x))
<1> USE RegistryAssumption DEF Mappers
<1>0. Len(s) \in Nat /\ None \notin Mappers
  BY LenProperties
<1>1. CASE x = None
  <2>1. s \o Opt(x) = s
    BY <1>1, ConcatEmptySeq DEF Opt
  <2> QED BY <1>0, <1>1, <2>1
<1>2. CASE x # None
  <2> DEFINE c == s \o <<x>>
  <2>0. s \o Opt(x) = c
    BY <1>2 DEF Opt
  <2>1. /\ c \in Seq(Mappers) /\ Len(c) = Len(s) + 1 /\ c[Len(s) + 1] = x
        /\ \A k \in 1 .. Len(s) : c[k] = s[k]
    <3>1. x \in Mappers /\ <<x>> \in Seq(Mappers) /\ Len(<<x>>) = 1 /\ <<x>>[1] = x
      BY <1>2
    <3> QED BY <1>0, <3>1, ConcatProperties
  <2> HIDE DEF c
  <2>2. \A k \in 1 .. Len(c) : k \in 1 .. Len(s) \/ k = Len(s) + 1
    BY <1>0, <2>1
  <2>3. \A m \in Mappers : Holds(c, m) <=> Holds(s, m) \/ m = x
    <3>1. ASSUME NEW m \in Mappers, Holds(c, m) PROVE Holds(s, m) \/ m = x
      BY <2>1, <2>2, <3>1 DEF Holds
    <3>2. ASSUME NEW m \in Mappers, Holds(s, m) PROVE Holds(c, m)
      <4>1. PICK k \in 1 .. Len(s) : s[k] = m
        BY <3>2 DEF Holds
      <4>2. k \in 1 .. Len(c) /\ c[k] = m
        BY <1>0, <2>1, <4>1
      <4> QED BY <4>2 DEF Holds
    <3>3. Holds(c, x)
      <4>1. Len(s) + 1 \in 1 .. Len(c)
        BY <1>0, <2>1
      <4> QED BY <2>1, <4>1 DEF Holds
    <3> QED BY <3>1, <3>2, <3>3
  <2>4. ASSUME Distinct(s), ~Holds(s, x) PROVE Distinct(c)
    <3> SUFFICES ASSUME NEW j \in 1 .. Len(c), NEW k \in 1 .. Len(c), c[j] = c[k] PROVE j = k
      BY DEF Distinct
    <3>1. CASE j \in 1 .. Len(s) /\ k \in 1 .. Len(s)
      BY <2>1, <2>4, <3>1 DEF Distinct
    <3>2. CASE j = Len(s) + 1 \/ k = Len(s) + 1
      BY <2>1, <2>2, <2>4, <3>2 DEF Holds
    <3> QED BY <2>2, <3>1, <3>2
  <2> QED BY <1>0, <1>2, <2>0, <2>1, <2>3, <2>4
<1> QED BY <1>1, <1>2

(***************************************************************************)
(* The inductive invariant, in named parts.                                *)
(***************************************************************************)
Shape ==
    /\ mappers \in Seq(Mappers)
    /\ generic \in Others \cup {None}
    /\ null \in Nulls \cup {None}
    /\ rc \in [Mappers -> Int]
    /\ life \in [Mappers -> {"unborn", "live", "deleted"}]
    /\ pending \in Seq(Mappers)

Refers(m) == Holds(mappers, m) \/ generic = m \/ null = m

\* The registry refers to a mapper in one place ...
Once == Distinct(mappers) /\ ~Holds(mappers, generic) /\ ~Holds(mappers, null)

\* ... to living ones that nobody else counts on ...
Alive == \A m \in Mappers : Refers(m) => life[m] = "live" /\ rc[m] = 1

\* ... and not to those that it has yet to decrement.
LetGo == \A k \in 1 .. Len(pending) : ~Refers(pending[k])

Owned == Shape /\ Once /\ Alive /\ LetGo

LEMMA OwnedInit == Init => Owned
<1> SUFFICES ASSUME Init PROVE Owned
  OBVIOUS
<1> USE RegistryAssumption DEF Init, RegistryInit, Mappers
<1>1. mappers = <<>> /\ pending = <<>> /\ Len(mappers) = 0 /\ Len(pending) = 0
  BY EmptySeq
<1>2. Shape
  BY <1>1 DEF Shape
<1>3. Once
  BY <1>1 DEF Once, Distinct, Holds
<1>4. Alive
  BY <1>1 DEF Alive, Refers, Holds
<1>5. LetGo
  BY <1>1 DEF LetGo
<1> QED BY <1>2, <1>3, <1>4, <1>5 DEF Owned

\* What the registry keeps when a new mapper m is created and put where only it is.
LEMMA NewOwned ==
    ASSUME Owned, NEW m \in Mappers, New(m)
    PROVE  /\ life' \in [Mappers -> {"unborn", "live", "deleted"}] /\ rc' \in [Mappers -> Int]
           /\ ~Refers(m) /\ m # None
           /\ \A x \in Mappers : Refers(x) \/ x = m => life'[x] = "live" /\ rc'[x] = 1
<1>1. ~Refers(m) /\ m # None
  BY RegistryAssumption DEF New, Owned, Alive, Mappers
<1>2. \A x \in Mappers : Refers(x) => life[x] = "live" /\ rc[x] = 1
  BY DEF Owned, Alive
<1> QED BY <1>1, <1>2 DEF New, Owned, Shape

\* One step of the registry.
Registers ==
    \/ \E m \in Others : SetGeneric(m) \/ AddProxyMapper(m)
    \/ \E n \in Nulls : CreateDefaultNull(n) \/ \E type : AddNullType(n, type)
    \/ InitMappers \/ InitMappersThrows \/ Destroy \/ Decr

LEMMA OwnedStep == Owned /\ (Registers \/ UNCHANGED registryVars) => Owned'
<1> SUFFICES ASSUME Owned, Registers \/ UNCHANGED registryVars PROVE Owned'
  OBVIOUS
<1> USE RegistryAssumption
<1>m. Others \subseteq Mappers /\ Nulls \subseteq Mappers /\ None \notin Mappers /\ Others \cap Nulls = {}
  BY DEF Mappers
<1>s. /\ mappers \in Seq(Mappers) /\ generic \in Others \cup {None} /\ null \in Nulls \cup {None}
      /\ pending \in Seq(Mappers) /\ Len(pending) \in Nat
  BY LenProperties DEF Owned, Shape
<1>e. Len(<<>>) = 0
  BY EmptySeq
<1>1. ASSUME NEW m \in Others, SetGeneric(m) PROVE Owned'
  <2>1. /\ New(m) /\ m \in Mappers /\ pending = <<>> /\ UNCHANGED <<mappers, null>>
    BY <1>1, <1>m DEF SetGeneric
  <2>2. CASE ready
    <3>1. UNCHANGED <<generic, pending>>
      BY <1>1, <2>2 DEF SetGeneric, Refused
    <3>2. Shape'
      BY <2>1, <3>1, NewOwned DEF Owned, Shape
    <3>3. Once' /\ LetGo'
      BY <2>1, <3>1 DEF Owned, Once, LetGo, Refers
    <3>4. Alive'
      BY <2>1, <3>1, NewOwned DEF Alive, Refers
    <3> QED BY <3>2, <3>3, <3>4 DEF Owned
  <2>3. CASE ~ready
    <3>1. generic' = m /\ pending' = Opt(generic)
      BY <1>1, <2>3 DEF SetGeneric, Refused
    <3>2. Shape'
      <4>1. pending' \in Seq(Mappers)
        BY <1>m, <1>s, <3>1 DEF Opt
      <4> QED BY <2>1, <3>1, <4>1, NewOwned DEF Owned, Shape
    <3>3. Once'
      BY <2>1, <3>1, NewOwned DEF Owned, Once, Refers
    <3>4. Alive'
      BY <2>1, <3>1, NewOwned DEF Alive, Refers
    <3>5. LetGo'
      <4>1. CASE generic = None
        BY <1>e, <3>1, <4>1 DEF Opt, LetGo
      <4>2. CASE generic # None
        <5>1. Len(pending') = 1 /\ pending'[1] = generic
          BY <3>1, <4>2 DEF Opt
        <5>2. ~Holds(mappers, generic) /\ generic # m /\ null # generic
          BY <1>s, <2>1, <4>2, NewOwned, <1>m DEF Owned, Once, Refers
        <5> QED BY <2>1, <3>1, <5>1, <5>2 DEF LetGo, Refers
      <4> QED BY <4>1, <4>2
    <3> QED BY <3>2, <3>3, <3>4, <3>5 DEF Owned
  <2> QED BY <2>2, <2>3
<1>2. ASSUME NEW m \in Others, AddProxyMapper(m) PROVE Owned'
  <2>1. /\ New(m) /\ m \in Mappers /\ pending = <<>> /\ UNCHANGED <<generic, null, pending>>
    BY <1>2, <1>m DEF AddProxyMapper
  <2>2. LetGo'
    BY <1>e, <2>1 DEF LetGo
  <2>3. CASE mappers' = mappers
    <3>1. Shape' /\ Once'
      BY <2>1, <2>3, NewOwned DEF Owned, Shape, Once
    <3>2. Alive'
      BY <2>1, <2>3, NewOwned DEF Alive, Refers
    <3> QED BY <2>2, <3>1, <3>2 DEF Owned
  <2>4. CASE mappers' = Append(mappers, m)
    <3>1. mappers' = mappers \o Opt(m) /\ m \in Mappers \cup {None}
      BY <1>s, <2>1, <2>4, NewOwned, AppendIsConcat DEF Opt
    <3>2. ~Holds(mappers, m) /\ m # generic /\ m # null
      BY <2>1, NewOwned DEF Refers
    <3>3. /\ mappers' \in Seq(Mappers) /\ Distinct(mappers')
          /\ \A x \in Mappers : Holds(mappers', x) <=> Holds(mappers, x) \/ x = m
      BY <1>s, <3>1, <3>2, OptConcat DEF Owned, Once
    <3>n. ~Holds(mappers', None)
      BY <1>m, <3>3, ElementOfSeq, LenProperties DEF Holds
    <3>4. Shape' /\ Once'
      BY <1>m, <1>s, <2>1, <3>2, <3>3, <3>n, NewOwned DEF Owned, Shape, Once
    <3>5. Alive'
      BY <2>1, <3>3, NewOwned DEF Alive, Refers
    <3> QED BY <2>2, <3>4, <3>5 DEF Owned
  <2> QED BY <1>2, <2>3, <2>4 DEF AddProxyMapper
<1>3. ASSUME NEW n \in Nulls, null = None, New(n), null' = n, UNCHANGED <<mappers, generic, pending>>,
             pending = <<>>
      PROVE  Owned'
  <2>1. n \in Mappers
    BY <1>m
  <2>2. Shape' /\ Once'
    BY <1>3, <2>1, NewOwned DEF Owned, Shape, Once, Refers
  <2>3. Alive'
    BY <1>3, <2>1, NewOwned DEF Alive, Refers
  <2>4. LetGo'
    BY <1>3, <1>e DEF LetGo
  <2> QED BY <2>2, <2>3, <2>4 DEF Owned
<1>4. ASSUME NEW n \in Nulls, CreateDefaultNull(n) PROVE Owned'
  BY <1>3, <1>4 DEF CreateDefaultNull
<1>5. ASSUME UNCHANGED <<mappers, generic, null, rc, life, pending>> PROVE Owned'
  BY <1>5 DEF Owned, Shape, Once, Alive, LetGo, Refers
<1>6. ASSUME NEW n \in Nulls, NEW type, AddNullType(n, type) PROVE Owned'
  <2>1. CASE null = None
    BY <1>3, <1>6, <2>1 DEF AddNullType
  <2>2. CASE null # None
    BY <1>5, <1>6, <2>2 DEF AddNullType
  <2> QED BY <2>1, <2>2
<1>7. ASSUME InitMappers \/ InitMappersThrows PROVE Owned'
  <2>1. /\ mappers' = mappers \o Opt(generic) \o Opt(null) /\ generic' = None /\ null' = None
        /\ UNCHANGED <<rc, life, pending>> /\ pending = <<>>
    BY <1>7 DEF InitMappers, InitMappersThrows, Consolidated, HandedOver
  <2> DEFINE c == mappers \o Opt(generic)
  <2>2. generic \in Mappers \cup {None} /\ null \in Mappers \cup {None}
    BY <1>m, <1>s
  <2>3. /\ c \in Seq(Mappers) /\ Distinct(c)
        /\ \A x \in Mappers : Holds(c, x) <=> Holds(mappers, x) \/ x = generic
    BY <1>s, <2>2, OptConcat DEF Owned, Once
  <2>n. \A s \in Seq(Mappers) : ~Holds(s, None)
    BY <1>m, ElementOfSeq, LenProperties DEF Holds
  <2>4. ~Holds(c, null)
    BY <1>m, <1>s, <2>2, <2>3, <2>n DEF Owned, Once
  <2> HIDE DEF c
  <2>5. /\ mappers' \in Seq(Mappers) /\ Distinct(mappers')
        /\ \A x \in Mappers : Holds(mappers', x) <=> Holds(c, x) \/ x = null
    <3>1. mappers' = c \o Opt(null)
      BY <2>1 DEF c
    <3> QED BY <2>2, <2>3, <2>4, <3>1, OptConcat
  <2>6. Shape' /\ Once'
    BY <2>1, <2>5, <2>n DEF Owned, Shape, Once
  <2>7. Alive'
    BY <1>m, <2>1, <2>3, <2>5 DEF Owned, Alive, Refers
  <2>8. LetGo'
    BY <1>e, <2>1 DEF LetGo
  <2> QED BY <2>6, <2>7, <2>8 DEF Owned
<1>8. ASSUME Destroy PROVE Owned'
  <2>1. /\ pending' = Opt(null) \o Opt(generic) \o Unwound(mappers)
        /\ null' = None /\ generic' = None /\ mappers' = <<>> /\ UNCHANGED <<rc, life>>
    BY <1>8 DEF Destroy
  <2>2. Unwound(mappers) \in Seq(Mappers)
    <3> DEFINE n == IF mappers = <<>> THEN 0 ELSE 2 * Len(mappers) - 1
    <3>1. Len(mappers) \in Nat /\ (mappers # <<>> => Len(mappers) # 0)
      BY <1>s, LenProperties, EmptySeq
    <3>2. n \in Nat
      BY <3>1
    <3>3. \A j \in 1 .. n : Len(mappers) - (j - 1) \div 2 \in 1 .. Len(mappers)
      BY <3>1
    <3>4. \A j \in 1 .. n : mappers[Len(mappers) - (j - 1) \div 2] \in Mappers
      BY <1>s, <3>3, ElementOfSeq
    <3>5. Unwound(mappers) = [j \in 1 .. n |-> mappers[Len(mappers) - (j - 1) \div 2]]
      BY DEF Unwound
    <3> QED BY <3>2, <3>4, <3>5, IsASeq
  <2>3. pending' \in Seq(Mappers)
    <3>1. Opt(null) \in Seq(Mappers) /\ Opt(generic) \in Seq(Mappers)
      BY <1>m, <1>s DEF Opt
    <3> QED BY <2>1, <2>2, <3>1, ConcatProperties
  <2>4. Shape'
    BY <2>1, <2>3 DEF Owned, Shape
  <2>5. \A x : ~Holds(mappers', x)
    BY <1>e, <2>1 DEF Holds
  <2>6. Once'
    BY <1>e, <2>1, <2>5 DEF Once, Distinct
  <2>7. Alive'
    BY <1>m, <2>1, <2>5 DEF Alive, Refers
  <2>8. LetGo'
    <3>1. \A k \in 1 .. Len(pending') : pending'[k] \in Mappers
      BY <2>3, ElementOfSeq, LenProperties
    <3> QED BY <1>m, <2>1, <2>5, <3>1 DEF LetGo, Refers
  <2> QED BY <2>4, <2>6, <2>7, <2>8 DEF Owned
<1>9. ASSUME Decr PROVE Owned'
  <2> DEFINE m == Head(pending)
  <2>1. /\ pending # <<>> /\ pending' = Tail(pending) /\ rc' = [rc EXCEPT ![m] = @ - 1]
        /\ life' \in {life, [life EXCEPT ![m] = "deleted"]} /\ UNCHANGED <<mappers, generic, null>>
    BY <1>9 DEF Decr
  <2>0. Len(pending) # 0
    BY <1>s, <2>1, EmptySeq
  <2>2. /\ m = pending[1] /\ m \in Mappers /\ 1 \in 1 .. Len(pending)
        /\ Tail(pending) \in Seq(Mappers) /\ Len(Tail(pending)) = Len(pending) - 1
        /\ \A k \in 1 .. Len(Tail(pending)) : Tail(pending)[k] = pending[k + 1]
    BY <1>s, <2>0, <2>1, HeadTailProperties
  <2> HIDE DEF m
  <2>3. ~Refers(m)
    BY <2>2 DEF Owned, LetGo
  <2>4. Shape'
    <3>1. rc' \in [Mappers -> Int]
      BY <2>1, <2>2 DEF Owned, Shape
    <3>2. life' \in [Mappers -> {"unborn", "live", "deleted"}]
      <4>1. CASE life' = life
        BY <4>1 DEF Owned, Shape
      <4>2. CASE life' = [life EXCEPT ![m] = "deleted"]
        BY <2>2, <4>2 DEF Owned, Shape
      <4> QED BY <2>1, <4>1, <4>2
    <3>3. pending' \in Seq(Mappers)
      BY <2>1, <2>2
    <3> QED BY <1>s, <2>1, <3>1, <3>2, <3>3 DEF Shape
  <2>5. Once'
    BY <2>1 DEF Owned, Once
  <2>6. Alive'
    <3> SUFFICES ASSUME NEW x \in Mappers, Refers(x)' PROVE life'[x] = "live" /\ rc'[x] = 1
      BY DEF Alive
    <3>1. Refers(x) /\ x # m
      BY <2>1, <2>3 DEF Refers
    <3> QED BY <2>1, <2>2, <3>1 DEF Owned, Alive, Shape
  <2>7. LetGo'
    <3> SUFFICES ASSUME NEW k \in 1 .. Len(pending')
                 PROVE  ~(Holds(mappers, pending'[k]) \/ generic = pending'[k] \/ null = pending'[k])
      BY <2>1 DEF LetGo, Refers
    <3>1. k + 1 \in 1 .. Len(pending) /\ pending'[k] = pending[k + 1]
      BY <1>s, <2>1, <2>2
    <3> QED BY <3>1 DEF Owned, LetGo, Refers
  <2> QED BY <2>4, <2>5, <2>6, <2>7 DEF Owned
<1>10. ASSUME UNCHANGED registryVars PROVE Owned'
  BY <1>5, <1>10 DEF registryVars
<1> QED BY <1>1, <1>2, <1>4, <1>6, <1>7, <1>8, <1>9, <1>10 DEF Registers

LEMMA NextRegisters == [Next]_vars => Registers \/ UNCHANGED registryVars
<1> SUFFICES ASSUME [Next]_vars PROVE Registers \/ UNCHANGED registryVars
  OBVIOUS
<1>1. ASSUME NEW n \in Nulls, NullType(n) PROVE Registers
  BY <1>1 DEF NullType, Registers
<1>2. CASE NullTypesDone
  BY <1>2 DEF NullTypesDone, Registers
<1>3. CASE GenericEvaluator
  BY <1>3, StartAssumption DEF GenericEvaluator, Registers
<1>4. CASE StartMappers \/ StartMappersThrows
  BY <1>4 DEF StartMappers, StartMappersThrows, Registers
<1>5. CASE DestroyProxy
  BY <1>5 DEF DestroyProxy, Registers
<1>6. CASE Release
  BY <1>6 DEF Release, Registers
<1>7. ASSUME NEW m \in Others \ {Generic}, LoadEvaluator(m) PROVE Registers
  BY <1>7 DEF LoadEvaluator, Registers
<1>8. CASE ReadFile \/ NoFile \/ Options \/ BadOptions
  BY <1>8 DEF ReadFile, NoFile, Options, BadOptions
<1>9. CASE OrbInit \/ NoOrb \/ Resolve \/ CreateManagers \/ Servant \/ Throw
  BY <1>9 DEF OrbInit, NoOrb, Resolve, CreateManagers, Servant, Throw
<1>10. CASE Environment
  BY <1>10 DEF Environment
<1>11. CASE UNCHANGED vars
  BY <1>11 DEF vars
<1> QED BY <1>1, <1>2, <1>3, <1>4, <1>5, <1>6, <1>7, <1>8, <1>9, <1>10, <1>11 DEF Next, Configure

LEMMA OwnedAlways == Spec => []Owned
<1>1. Owned /\ [Next]_vars => Owned'
  BY OwnedStep, NextRegisters
<1> QED BY OwnedInit, <1>1, PTL DEF Spec

\* In every state, from the start of the proxy to the end of destroy, the registry
\* refers to each mapper (in the chain, as generic_mapper_ or as null_mapper_) once,
\* and each that it refers to is alive with a reference count of one: set_generic_mapper
\* and init_mappers hand every reference over, although destroy_chain decrements twice.
THEOREM MappersOwnedOnce == Spec => []OwnedOnce
<1>1. Owned => OwnedOnce
  <2> SUFFICES ASSUME Owned PROVE OwnedOnce
    OBVIOUS
  <2> DEFINE c == mappers \o Opt(generic)
             held == c \o Opt(null)
  <2>m. Others \subseteq Mappers /\ Nulls \subseteq Mappers /\ None \notin Mappers /\ Others \cap Nulls = {}
    BY RegistryAssumption DEF Mappers
  <2>s. mappers \in Seq(Mappers) /\ generic \in Others \cup {None} /\ null \in Nulls \cup {None}
    BY DEF Owned, Shape
  <2>1. generic \in Mappers \cup {None} /\ null \in Mappers \cup {None}
    BY <2>m, <2>s
  <2>2. /\ c \in Seq(Mappers) /\ Distinct(c)
        /\ \A x \in Mappers : Holds(c, x) <=> Holds(mappers, x) \/ x = generic
    BY <2>s, <2>1, OptConcat DEF Owned, Once
  <2>n. ~Holds(c, None)
    BY <2>m, <2>2, ElementOfSeq, LenProperties DEF Holds
  <2>3. ~Holds(c, null)
    BY <2>m, <2>s, <2>1, <2>2, <2>n DEF Owned, Once
  <2> HIDE DEF c
  <2>4. /\ held \in Seq(Mappers) /\ Distinct(held)
        /\ \A x \in Mappers : Holds(held, x) <=> Holds(c, x) \/ x = null
    BY <2>1, <2>2, <2>3, OptConcat
  <2>5. DOMAIN held = 1 .. Len(held)
    BY <2>4, LenProperties
  <2>6. IsInjective(held)
    BY <2>4, <2>5 DEF Distinct, IsInjective
  <2>7. ASSUME NEW m \in ToSet(held) PROVE life[m] = "live" /\ rc[m] = 1
    <3>1. m \in Mappers /\ Holds(held, m)
      BY <2>4, <2>5, ElementOfSeq DEF ToSet, Holds
    <3>2. Refers(m)
      BY <2>2, <2>4, <3>1 DEF Refers
    <3> QED BY <3>1, <3>2 DEF Owned, Alive
  <2> QED BY <2>6, <2>7 DEF OwnedOnce, c
<1> QED BY OwnedAlways, <1>1, PTL

(***************************************************************************)
(* The order of the chain.                                                 *)
(***************************************************************************)

\* The stages in which mappers are still registered.
Early == {"file", "options", "parse", "orb_init", "resolve", "managers", "servant", "nulls",
          "generic", "mappers"}

\* A null mapper only stands at the end, and not before init_mappers has run;
\* from then on nothing is added, because the registry is ready.
Ordered ==
    /\ \A k \in 1 .. Len(mappers) : mappers[k] \in Nulls => k = Len(mappers)
    /\ stage \in Early => \A k \in 1 .. Len(mappers) : mappers[k] \in Others
    /\ stage = "active" => ready

LEMMA OrderedStep == Owned /\ Ordered /\ [Next]_vars => Ordered'
<1> SUFFICES ASSUME Owned, Ordered, [Next]_vars PROVE Ordered'
  OBVIOUS
<1>m. Others \subseteq Mappers /\ Nulls \subseteq Mappers /\ None \notin Mappers /\ Others \cap Nulls = {}
  BY RegistryAssumption DEF Mappers
<1>s. mappers \in Seq(Mappers) /\ generic \in Others \cup {None} /\ null \in Nulls \cup {None}
  BY DEF Owned, Shape
<1>k. ASSUME UNCHANGED <<mappers, ready>>, stage' \in Early => stage \in Early,
             stage' = "active" => stage = "active"
      PROVE  Ordered'
  BY <1>k DEF Ordered
<1>a. ASSUME NEW m \in Others, AddProxyMapper(m) \/ SetGeneric(m), stage \in Early \/ stage = "active",
             stage' \in Early => stage \in Early, stage' = "active" => stage = "active"
      PROVE  Ordered'
  <2>0. UNCHANGED ready
    BY <1>a DEF AddProxyMapper, SetGeneric
  <2>1. CASE mappers' = mappers
    BY <1>a, <1>k, <2>0, <2>1
  <2>2. CASE mappers' # mappers
    <3>1. ~ready /\ mappers' = Append(mappers, m)
      BY <1>a, <2>2 DEF AddProxyMapper, SetGeneric, Refused
    <3>2. stage \in Early /\ stage # "active"
      BY <1>a, <3>1 DEF Ordered
    <3>3. mappers' = mappers \o Opt(m) /\ m \in Mappers \cup {None} /\ m # None
      BY <1>m, <1>s, <3>1, AppendIsConcat DEF Opt
    <3>4. /\ Len(mappers) \in Nat /\ Len(mappers') = Len(mappers) + 1
          /\ mappers'[Len(mappers) + 1] = m /\ \A k \in 1 .. Len(mappers) : mappers'[k] = mappers[k]
      BY <1>s, <3>3, OptConcat
    <3>5. \A k \in 1 .. Len(mappers') : mappers'[k] \in Others
      <4> TAKE k \in 1 .. Len(mappers')
      <4>1. k \in 1 .. Len(mappers) \/ k = Len(mappers) + 1
        BY <3>4
      <4> QED BY <1>a, <3>2, <3>4, <4>1 DEF Ordered
    <3> QED BY <1>m, <1>a, <2>0, <3>2, <3>5 DEF Ordered
  <2> QED BY <2>1, <2>2
<1>1. ASSUME NEW n \in Nulls, NullType(n) PROVE Ordered'
  BY <1>1, <1>k DEF NullType, AddNullType, Go
<1>2. CASE NullTypesDone
  BY <1>2, <1>k DEF NullTypesDone, CreateDefaultNull, registryVars, Go, Early
<1>3. CASE GenericEvaluator
  <2>1. stage \in Early /\ stage' \in Early /\ stage' # "active"
    BY <1>3 DEF GenericEvaluator, Go, Early
  <2>2. CASE UNCHANGED registryVars
    BY <1>k, <2>1, <2>2 DEF registryVars
  <2> QED BY <1>3, <1>a, <2>1, <2>2, StartAssumption DEF GenericEvaluator
<1>4. CASE StartMappers \/ StartMappersThrows
  <2> DEFINE c == mappers \o Opt(generic)
  <2>1. /\ mappers' = c \o Opt(null) /\ stage \in Early /\ stage' \notin Early
        /\ stage' = "active" => ready'
    BY <1>4 DEF StartMappers, StartMappersThrows, InitMappers, InitMappersThrows, Consolidated, Go, Early
  <2>2. generic \in Mappers \cup {None} /\ null \in Mappers \cup {None}
    BY <1>m, <1>s
  <2>3. c \in Seq(Mappers) /\ \A k \in 1 .. Len(c) : c[k] \in Others
    <3>1. /\ c \in Seq(Mappers) /\ Len(mappers) \in Nat
          /\ Len(c) = IF generic = None THEN Len(mappers) ELSE Len(mappers) + 1
          /\ \A k \in 1 .. Len(mappers) : c[k] = mappers[k]
          /\ generic # None => c[Len(mappers) + 1] = generic
      BY <1>s, <2>2, OptConcat
    <3> HIDE DEF c
    <3>2. ASSUME NEW k \in 1 .. Len(c) PROVE c[k] \in Others
      <4>1. k \in 1 .. Len(mappers) \/ (generic # None /\ k = Len(mappers) + 1)
        BY <3>1
      <4> QED BY <1>s, <2>1, <3>1, <4>1 DEF Ordered
    <3> QED BY <3>1, <3>2
  <2> HIDE DEF c
  <2>4. /\ Len(c) \in Nat /\ Len(mappers') = IF null = None THEN Len(c) ELSE Len(c) + 1
        /\ \A k \in 1 .. Len(c) : mappers'[k] = c[k]
    BY <2>1, <2>2, <2>3, OptConcat
  <2>5. ASSUME NEW k \in 1 .. Len(mappers'), mappers'[k] \in Nulls PROVE k = Len(mappers')
    <3>1. k \notin 1 .. Len(c)
      BY <1>m, <2>3, <2>4, <2>5
    <3> QED BY <2>4, <3>1
  <2> QED BY <2>1, <2>5 DEF Ordered
<1>5. CASE DestroyProxy
  <2>1. mappers' = <<>> /\ stage' = "destroyed"
    BY <1>5 DEF DestroyProxy, Destroy, Go
  <2>2. Len(mappers') = 0
    BY <2>1, EmptySeq
  <2> QED BY <2>1, <2>2 DEF Ordered, Early
<1>6. CASE Release
  BY <1>6, <1>k DEF Release, Decr, startVars
<1>7. ASSUME NEW m \in Others \ {Generic}, LoadEvaluator(m) PROVE Ordered'
  <2>1. /\ AddProxyMapper(m) \/ SetGeneric(m)
        /\ stage \in Early \/ stage = "active"
        /\ stage' = stage
    BY <1>7 DEF LoadEvaluator, startVars, Early
  <2> QED BY <1>a, <2>1
<1>8. CASE ReadFile \/ NoFile \/ Options \/ BadOptions
  BY <1>8, <1>k DEF ReadFile, NoFile, Options, BadOptions, registryVars, Go, Early
<1>9. CASE OrbInit \/ NoOrb \/ Resolve \/ CreateManagers \/ Servant \/ Throw
  BY <1>9, <1>k DEF OrbInit, NoOrb, Resolve, CreateManagers, Servant, Throw, registryVars, Go, Early
<1>10. CASE Environment
  BY <1>10, <1>k DEF Environment, registryVars, startVars
<1>11. CASE UNCHANGED vars
  BY <1>11, <1>k DEF vars, registryVars, startVars
<1> QED BY <1>1, <1>2, <1>3, <1>4, <1>5, <1>6, <1>7, <1>8, <1>9, <1>10, <1>11 DEF Next, Configure

\* MapperFor is the first mapper of the chain with an evaluator for the type.
LEMMA FirstMapper ==
    ASSUME Owned, NEW type, NEW n \in Mappers, MapperFor(type) = n
    PROVE  \E i \in 1 .. Len(mappers) :
             /\ mappers[i] = n /\ EvaluatorFor(n, type)
             /\ \A j \in 1 .. Len(mappers) : EvaluatorFor(mappers[j], type) => i <= j
<1> DEFINE I == {i \in 1 .. Len(mappers) : EvaluatorFor(mappers[i], type)}
<1>1. mappers \in Seq(Mappers) /\ Len(mappers) \in Nat /\ None \notin Mappers
  BY RegistryAssumption, LenProperties DEF Owned, Shape, Mappers
<1>2. DOMAIN mappers = 1 .. Len(mappers)
  BY <1>1, LenProperties
<1>3. MapperFor(type) = LET i == IF I = {} THEN 0 ELSE Min(I) IN IF i = 0 THEN None ELSE mappers[i]
  BY <1>2 DEF MapperFor, SelectInSeq
<1> HIDE DEF I
<1>4. I # {} /\ n = mappers[Min(I)]
  BY <1>1, <1>3
<1>5. I \subseteq Nat /\ I \subseteq 1 .. Len(mappers)
  BY <1>1 DEF I
<1>6. Min(I) \in I /\ \A y \in I : Min(I) <= y
  BY <1>4, <1>5, LeastPlace
<1> QED BY <1>4, <1>5, <1>6 DEF I

\* A reference goes through the null mapper, which looks at nothing, only when no
\* other mapper in the chain has an evaluator for its type, whatever services are
\* loaded, before init_mappers or after it: init_mappers puts the null mapper last,
\* and add_proxy_mapper adds nothing behind it.
THEOREM NullMapperLast == Spec => []NullIsLastResort
<1>1. Init => Ordered
  <2> SUFFICES ASSUME Init PROVE Ordered
    OBVIOUS
  <2>1. mappers = <<>> /\ Len(mappers) = 0 /\ stage = "file"
    BY EmptySeq DEF Init, RegistryInit
  <2> QED BY <2>1 DEF Ordered
<1>2. Owned /\ Ordered => NullIsLastResort
  <2> SUFFICES ASSUME Owned, Ordered, NEW type \in Types, MapperFor(type) \in Nulls,
                      NEW m \in Others, m \in ToSet(mappers), EvaluatorFor(m, type)
               PROVE  FALSE
    BY DEF NullIsLastResort
  <2>1. MapperFor(type) \in Mappers /\ m \notin Nulls
    BY RegistryAssumption DEF Mappers
  <2>2. PICK i \in 1 .. Len(mappers) :
          /\ mappers[i] = MapperFor(type)
          /\ \A j \in 1 .. Len(mappers) : EvaluatorFor(mappers[j], type) => i <= j
    BY <2>1, FirstMapper
  <2>3. mappers \in Seq(Mappers) /\ Len(mappers) \in Nat /\ DOMAIN mappers = 1 .. Len(mappers)
    BY LenProperties DEF Owned, Shape
  <2>4. PICK j \in 1 .. Len(mappers) : mappers[j] = m
    BY <2>3 DEF ToSet
  <2>5. i = Len(mappers) /\ i # j
    BY <2>1, <2>2, <2>4 DEF Ordered
  <2>6. i <= j
    BY <2>2, <2>4
  <2>7. \A l \in Nat : \A a, b \in 1 .. l : a = l /\ a <= b => a = b
    OBVIOUS
  <2>8. Len(mappers) \in Nat
    BY <2>3
  <2> QED BY <2>5, <2>6, <2>7, <2>8
<1> QED BY OwnedAlways, OrderedStep, <1>1, <1>2, PTL DEF Spec

(***************************************************************************)
(* The configuration file.                                                 *)
(***************************************************************************)
Values  == Seq(Words)
Configs == [{hash_pjw[t] : t \in Tokens} -> Values]

\* The tokens of which the properties speak.
Named == Asked \ {""}

\* What a line gives to a token, and what a file gives it line by line.
Heard(line, token) ==
    LET l == Trimmed(line) IN IF l # <<>> /\ Head(l) = Text(token) THEN Tail(l) ELSE <<>>
Lines(f, token) == [k \in 1 .. Len(f) |-> Heard(f[k], token)]

LEMMA TrimmedIn == \A line \in Seq(Words) : Trimmed(line) \in Seq(Words)
<1> SUFFICES ASSUME NEW line \in Seq(Words) PROVE Trimmed(line) \in Seq(Words)
  OBVIOUS
<1> DEFINE I == {i \in 1 .. Len(line) : line[i] = Comment}
           at == IF I # {} THEN Min(I) ELSE 0
           text == IF at = 0 THEN line ELSE SubSeq(line, 1, at - 1)
           J == {i \in 1 .. Len(text) : IsWord(text[i])}
           last == IF J # {} THEN Max(J) ELSE 0
<1>1. Trimmed(line) = SubSeq(text, 1, last)
  BY DEF Trimmed, SelectInSeq, SelectLastInSeq
<1>2. Len(line) \in Nat /\ \A i \in 1 .. Len(line) : line[i] \in Words
  BY LenProperties, ElementOfSeq
<1>3. at \in 0 .. Len(line)
  <2>1. CASE I = {}
    BY <1>2, <2>1
  <2>2. CASE I # {}
    <3>1. I \subseteq Nat /\ I \subseteq 1 .. Len(line)
      BY <1>2
    <3> HIDE DEF I
    <3>2. Min(I) \in I
      BY <2>2, <3>1, LeastPlace
    <3>3. at = Min(I) /\ Min(I) \in 1 .. Len(line)
      BY <2>2, <3>1, <3>2
    <3> HIDE DEF at
    <3> QED BY <1>2, <3>3
  <2> QED BY <2>1, <2>2
<1> HIDE DEF at
<1>4. text \in Seq(Words)
  <2>1. CASE at = 0
    BY <2>1
  <2>2. CASE at # 0
    <3>1. \A i \in 1 .. (at - 1) : line[i] \in Words
      BY <1>2, <1>3
    <3>2. at - 1 \in Int
      BY <1>2, <1>3
    <3>3. SubSeq(line, 1, at - 1) \in Seq(Words)
      BY <3>1, <3>2, SubSeqProperties
    <3> QED BY <2>2, <3>3
  <2> QED BY <2>1, <2>2
<1> HIDE DEF text
<1>5. Len(text) \in Nat /\ \A i \in 1 .. Len(text) : text[i] \in Words
  BY <1>4, LenProperties, ElementOfSeq
<1>6. last \in 0 .. Len(text)
  <2>1. CASE J = {}
    BY <1>5, <2>1
  <2>2. CASE J # {}
    <3>1. J \subseteq 1 .. Len(text)
      OBVIOUS
    <3> HIDE DEF J
    <3>2. Max(J) \in J
      BY <1>5, <2>2, <3>1, GreatestPlace
    <3>3. last = Max(J) /\ Max(J) \in 1 .. Len(text)
      BY <2>2, <3>1, <3>2
    <3> HIDE DEF last
    <3> QED BY <1>5, <3>3
  <2> QED BY <2>1, <2>2
<1> HIDE DEF last
<1>7. last \in Int /\ \A i \in 1 .. last : text[i] \in Words
  BY <1>5, <1>6
<1>8. SubSeq(text, 1, last) \in Seq(Words)
  BY <1>7, SubSeqProperties
<1> QED BY <1>1, <1>8

\* One line: its words go to its token, behind those that the token has, and to no
\* other, no two tokens having the same hash.
LEMMA ReadLine ==
    ASSUME NEW f \in Files, NEW k \in 1 .. Len(f), NEW c \in Configs
    PROVE  /\ Read(c, f[k]) \in Configs
           /\ \A token \in Named :
                /\ Heard(f[k], token) \in Seq(Arguments(token))
                /\ extract(Read(c, f[k]), token) = extract(c, token) \o Heard(f[k], token)
<1> DEFINE l == Trimmed(f[k])
           tok == String(Head(l))
           v == extract(c, tok) \o Tail(l)
<1>0. f \in Seq(Seq(Words)) /\ DOMAIN f = 1 .. Len(f) /\ f[k] \in Seq(Words)
  BY FileAssumption, LenProperties, ElementOfSeq
<1>1. l \in Seq(Words) /\ Len(l) \in Nat /\ (l = <<>> <=> Len(l) = 0)
  <2>1. l \in Seq(Words)
    BY <1>0, TrimmedIn
  <2> HIDE DEF l
  <2> QED BY <2>1, LenProperties, EmptySeq
<1>2. Len(l) >= 2 => /\ Head(l) \in Texts \cup {Blank} /\ tok \in Tokens
                     /\ \A j \in 2 .. Len(l) : l[j] \in Arguments(tok)
  BY <1>0, FileAssumption
<1>3. Read(c, f[k]) = IF Len(l) < 2 THEN c ELSE [c EXCEPT ![hash_pjw[tok]] = v]
  <2>1. CASE Len(l) < 2
    <3>1. Read(c, f[k]) = c
      BY <2>1 DEF Read
    <3> QED BY <2>1, <3>1
  <2>2. CASE ~(Len(l) < 2)
    <3>1. l # <<>>
      <4> HIDE DEF l
      <4> QED BY <1>1, <2>2
    <3>2. Read(c, f[k]) = insert(c, tok, Accrued(extract(c, tok), Tail(l)))
      BY <2>2, <3>1 DEF Read
    <3> HIDE DEF l, tok
    <3> QED BY <2>2, <3>2 DEF insert, Accrued
  <2> QED BY <2>1, <2>2
<1>h. \A token : Heard(f[k], token) = IF l # <<>> /\ Head(l) = Text(token) THEN Tail(l) ELSE <<>>
  BY DEF Heard
<1> HIDE DEF l
<1>4. \A t \in Tokens : extract(c, t) \in Values
  BY DEF extract, Configs
<1>5. l # <<>> => /\ Tail(l) \in Seq(Words) /\ Len(Tail(l)) = Len(l) - 1
                  /\ \A j \in 1 .. Len(Tail(l)) : Tail(l)[j] = l[j + 1]
  BY <1>1, HeadTailProperties
<1>t. Named \subseteq Tokens /\ "" \notin Named
  BY FileAssumption DEF Named
<1>6. CASE Len(l) < 2
  <2>1. Read(c, f[k]) = c
    BY <1>3, <1>6
  <2>2. ASSUME NEW token PROVE Heard(f[k], token) = <<>>
    <3>1. CASE l = <<>>
      BY <1>h, <3>1
    <3>2. CASE l # <<>>
      <4>1. Len(Tail(l)) = 0 /\ Tail(l) \in Seq(Words)
        BY <1>1, <1>5, <1>6, <3>2
      <4>2. Tail(l) = <<>>
        BY <4>1, EmptySeq
      <4> QED BY <1>h, <4>2
    <3> QED BY <3>1, <3>2
  <2>3. ASSUME NEW token \in Named
        PROVE  /\ Heard(f[k], token) \in Seq(Arguments(token))
               /\ extract(c, token) \o Heard(f[k], token) = extract(c, token)
    <3>1. extract(c, token) \in Seq(Words)
      BY <1>4, <1>t DEF Values
    <3>2. <<>> \in Seq(Arguments(token))
      OBVIOUS
    <3> QED BY <2>2, <3>1, <3>2, ConcatEmptySeq
  <2> QED BY <2>1, <2>3
<1>7. CASE Len(l) >= 2
  <2>0. l # <<>> /\ tok \in Tokens
    BY <1>1, <1>2, <1>7
  <2>1. v \in Values
    BY <1>4, <1>5, <2>0, ConcatProperties DEF Values
  <2>2. Read(c, f[k]) = [c EXCEPT ![hash_pjw[tok]] = v]
    BY <1>1, <1>3, <1>7
  <2> DEFINE d == [c EXCEPT ![hash_pjw[tok]] = v]
  <2>v. v = extract(c, tok) \o Tail(l)
    OBVIOUS
  <2> HIDE DEF v
  <2>3. d \in Configs
    BY <2>1 DEF Configs
  <2>4. extract(d, tok) = v
    BY <2>0 DEF extract, Configs
  <2>5. \A t \in Tokens : t # tok => extract(d, t) = extract(c, t)
    <3> TAKE t \in Tokens
    <3> HAVE t # tok
    <3>1. hash_pjw[t] # hash_pjw[tok]
      BY <2>0, ConfigAssumption
    <3> QED BY <3>1 DEF extract, Configs
  <2>6. ASSUME NEW token \in Named
        PROVE  /\ Heard(f[k], token) \in Seq(Arguments(token))
               /\ extract(d, token) = extract(c, token) \o Heard(f[k], token)
    <3>1. Head(l) = Text(token) <=> tok = token
      <4>1. Head(l) \in Texts \cup {Blank} /\ token # ""
        BY <1>2, <1>7, <1>t
      <4>2. CASE Head(l) = Blank
        <5>1. tok = ""
          BY <4>2 DEF String
        <5>2. Blank # Text(token)
          BY DEF Blank, Text
        <5> QED BY <4>1, <4>2, <5>1, <5>2
      <4>3. CASE Head(l) \in Texts
        <5>1. PICK x \in STRING : Head(l) = [kind |-> "text", text |-> x]
          BY <4>3 DEF Texts
        <5>2. tok = x
          <6>1. Head(l) # Blank /\ Head(l).text = x
            BY <5>1 DEF Blank
          <6> QED BY <6>1 DEF String
        <5> HIDE DEF tok
        <5> QED BY <5>1, <5>2 DEF Text
      <4> QED BY <4>1, <4>2, <4>3
    <3> HIDE DEF tok, d
    <3>2. CASE tok = token
      <4>1. Heard(f[k], token) = Tail(l)
        BY <1>h, <2>0, <3>1, <3>2
      <4>2. \A j \in 1 .. Len(Tail(l)) : Tail(l)[j] \in Arguments(token)
        <5> TAKE j \in 1 .. Len(Tail(l))
        <5>1. j + 1 \in 2 .. Len(l)
          BY <1>1, <1>5, <2>0
        <5> QED BY <1>2, <1>5, <1>7, <2>0, <3>2, <5>1
      <4>3. Tail(l) \in Seq(Arguments(token))
        <5>1. Tail(l) \in Seq(Words)
          BY <1>5, <2>0
        <5> QED BY <4>2, <5>1, SeqIn
      <4> QED BY <2>4, <2>v, <3>2, <4>1, <4>3
    <3>3. CASE tok # token
      <4>1. Heard(f[k], token) = <<>> /\ token \in Tokens
        BY <1>h, <1>t, <3>1, <3>3
      <4>2. extract(d, token) = extract(c, token) /\ extract(c, token) \in Seq(Words)
        BY <1>4, <2>5, <3>3, <4>1 DEF Values
      <4> QED BY <4>1, <4>2, ConcatEmptySeq
    <3> QED BY <3>2, <3>3
  <2> QED BY <2>2, <2>3, <2>6
<1> QED BY <1>1, <1>6, <1>7

ReadsFile(c, f) == c = [k \in 0 .. Len(f) |-> IF k = 0 THEN unload ELSE Read(c[k - 1], f[k])]

\* The whole file: a token has what its lines give it, in their order.
LEMMA LoadFileSays ==
    ASSUME NEW f \in Files
    PROVE  /\ load(f) \in Configs
           /\ \A token \in Named : /\ extract(load(f), token) = FlattenSeq(Lines(f, token))
                                   /\ extract(load(f), token) \in Seq(Arguments(token))
<1> DEFINE n == Len(f)
           step == [k \in 1 .. n |-> [c \in Configs |-> Read(c, f[k])]]
           F == CHOOSE c : ReadsFile(c, f)
<1>0. f \in Seq(Seq(Words)) /\ n \in Nat
  BY FileAssumption, LenProperties
<1>1. unload \in Configs
  <2>1. <<>> \in Seq(Words)
    OBVIOUS
  <2> QED BY <2>1 DEF unload, Configs, Values
<1>2. step \in [1 .. n -> [Configs -> Configs]]
  BY ReadLine
<1>3. PICK g : Runs(g, Configs, unload, n, step)
  <2> HIDE DEF n, step
  <2> QED BY <1>0, <1>1, <1>2, Iterates
<1>4. /\ g \in [0 .. n -> Configs] /\ g[0] = unload
      /\ \A k \in 1 .. n : k - 1 \in 0 .. n /\ g[k - 1] \in Configs /\ g[k] = Read(g[k - 1], f[k])
  <2>1. g \in [0 .. n -> Configs] /\ g[0] = unload /\ \A k \in 1 .. n : g[k] = step[k][g[k - 1]]
    BY <1>3 DEF Runs
  <2>2. \A k \in 1 .. n : k - 1 \in 0 .. n
    BY <1>0
  <2>3. \A k \in 1 .. n : g[k - 1] \in Configs
    BY <2>1, <2>2
  <2>4. ASSUME NEW k \in 1 .. n PROVE g[k] = Read(g[k - 1], f[k])
    BY <2>1, <2>3
  <2> QED BY <2>1, <2>2, <2>3, <2>4
<1> HIDE DEF step
<1>5. ReadsFile(g, f)
  <2>1. \A k \in 0 .. n : k # 0 => k \in 1 .. n
    BY <1>0
  <2>2. g = [k \in 0 .. n |-> IF k = 0 THEN unload ELSE Read(g[k - 1], f[k])]
    BY <1>4, <2>1
  <2> QED BY <2>2 DEF ReadsFile
<1>6. ReadsFile(F, f)
  BY <1>5
<1>7. load(f) = F[n]
  BY DEF load, ReadsFile
<1> HIDE DEF F
<1>8. F[0] = unload /\ \A k \in 1 .. n : F[k] = Read(F[k - 1], f[k])
  <2>1. 0 \in 0 .. n /\ \A k \in 1 .. n : k \in 0 .. n /\ k # 0
    BY <1>0
  <2>2. \A k \in 0 .. n : F[k] = IF k = 0 THEN unload ELSE Read(F[k - 1], f[k])
    BY <1>6 DEF ReadsFile
  <2> QED BY <2>1, <2>2
<1>9. \A k \in 0 .. n : F[k] \in Configs
  <2> DEFINE A == {k \in Nat : k <= n => F[k] \in Configs}
  <2>1. 0 \in A
    BY <1>1, <1>8
  <2>2. ASSUME NEW k \in Nat, k \in A PROVE k + 1 \in A
    <3> SUFFICES ASSUME k + 1 <= n PROVE F[k + 1] \in Configs
      OBVIOUS
    <3>1. k + 1 \in 1 .. n /\ (k + 1) - 1 = k /\ F[k] \in Configs
      BY <1>0, <2>2
    <3>2. F[k + 1] = Read(F[k], f[k + 1])
      BY <1>8, <3>1
    <3> QED BY <3>1, <3>2, ReadLine
  <2> HIDE DEF A
  <2>3. Nat \subseteq A
    BY <2>1, <2>2, Reaches
  <2> QED BY <1>0, <2>3 DEF A
<1>10. load(f) \in Configs
  BY <1>0, <1>7, <1>9
<1>11. ASSUME NEW token \in Named
       PROVE  /\ extract(load(f), token) = FlattenSeq(Lines(f, token))
              /\ extract(load(f), token) \in Seq(Arguments(token))
  <2> DEFINE seqs == Lines(f, token)
             S == Arguments(token)
  <2>1. \A k \in 1 .. n : seqs[k] \in Seq(S) /\ seqs[k] = Heard(f[k], token)
    BY <1>1, ReadLine DEF Lines
  <2>2. seqs \in Seq(Seq(S)) /\ Len(seqs) = n
    <3>1. seqs = [k \in 1 .. n |-> seqs[k]]
      BY DEF Lines
    <3> HIDE DEF seqs, S, n
    <3>2. seqs \in [1 .. n -> Seq(S)]
      BY <2>1, <3>1
    <3> QED BY <1>0, <3>1, <3>2, SeqDef
  <2>3. PICK h \in [0 .. n -> Seq(S)] :
          /\ h[0] = <<>> /\ \A i \in 1 .. n : h[i] = h[i - 1] \o seqs[i]
          /\ FlattenSeq(seqs) = h[n]
    <3> HIDE DEF seqs, S
    <3>1. \E h \in [0 .. Len(seqs) -> Seq(S)] :
            /\ h[0] = <<>> /\ \A i \in 1 .. Len(seqs) : h[i] = h[i - 1] \o seqs[i]
            /\ FlattenSeq(seqs) = h[Len(seqs)]
      BY <2>2, FlattenSteps
    <3> HIDE DEF n
    <3> QED BY <2>2, <3>1, Zenon
  <2> HIDE DEF seqs, S
  <2> DEFINE A == {k \in Nat : k <= n => extract(F[k], token) = h[k]}
  <2>4. 0 \in A
    <3>1. token \in Tokens
      BY FileAssumption DEF Named
    <3>2. extract(unload, token) = <<>>
      BY <3>1 DEF extract, unload
    <3> QED BY <1>8, <2>3, <3>2
  <2>5. ASSUME NEW k \in Nat, k \in A PROVE k + 1 \in A
    <3> SUFFICES ASSUME k + 1 <= n PROVE extract(F[k + 1], token) = h[k + 1]
      OBVIOUS
    <3>1. k + 1 \in 1 .. n /\ (k + 1) - 1 = k /\ k \in 0 .. n /\ k <= n
      BY <1>0
    <3>2. F[k + 1] = Read(F[k], f[k + 1]) /\ F[k] \in Configs
      BY <1>8, <1>9, <3>1
    <3>3. extract(F[k + 1], token) = extract(F[k], token) \o Heard(f[k + 1], token)
      <4>1. extract(Read(F[k], f[k + 1]), token) = extract(F[k], token) \o Heard(f[k + 1], token)
        <5> HIDE DEF F
        <5> QED BY <3>1, <3>2, ReadLine
      <4> QED BY <3>2, <4>1
    <3>4. extract(F[k], token) = h[k]
      BY <2>5, <3>1
    <3>5. h[k + 1] = h[k] \o Heard(f[k + 1], token)
      BY <2>1, <2>3, <3>1
    <3> QED BY <3>3, <3>4, <3>5
  <2> HIDE DEF A
  <2>6. Nat \subseteq A
    BY <2>4, <2>5, Reaches
  <2>7. extract(F[n], token) = h[n] /\ h[n] \in Seq(S)
    BY <1>0, <2>3, <2>6 DEF A
  <2>8. extract(load(f), token) = FlattenSeq(seqs) /\ extract(load(f), token) \in Seq(S)
    BY <1>7, <2>3, <2>7
  <2> QED BY <2>8 DEF seqs, S
<1> QED BY <1>10, <1>11

(***************************************************************************)
(* From the file to the endpoints, the arguments of ORB_init and the POA   *)
(* managers.                                                               *)
(***************************************************************************)
IsSeq(s) == \E S : s \in Seq(S)

\* The side of an endpoint, and the words that init_endpoints takes for it.
Side(ext)  == IF ext THEN "External_Address" ELSE "Internal_Address"
Given(ext) == LET v == get_value(Side(ext)) IN IF v = <<>> THEN <<DefaultAddress(ext)>> ELSE UpToBlank(v)
Sides      == [external : BOOLEAN, word : Addresses]
All        == init_endpoints(TRUE) \o init_endpoints(FALSE)

\* get_value answers what the file says.
LEMMA ValueSaid ==
    ASSUME file \in Files, configs = load(file)
    PROVE  \A token \in Named : get_value(token) = Said(token) /\ Said(token) \in Seq(Arguments(token))
<1> SUFFICES ASSUME NEW token \in Named
             PROVE  get_value(token) = Said(token) /\ Said(token) \in Seq(Arguments(token))
  OBVIOUS
<1>1. Said(token) = FlattenSeq(Lines(file, token))
  BY DEF Said, Lines, Heard
<1> QED BY <1>1, LoadFileSays DEF get_value

\* The addresses of a side: what its lines say up to an empty word, or the default.
LEMMA GivenIn ==
    ASSUME file \in Files, configs = load(file), NEW ext \in BOOLEAN
    PROVE  /\ Given(ext) \in Seq(Addresses)
           /\ LET v == get_value(Side(ext)) IN v # <<>> /\ Blank \notin ToSet(v) => Given(ext) = v
<1> DEFINE v == get_value(Side(ext))
           I == {i \in 1 .. Len(v) : v[i] = Blank}
           at == IF I # {} THEN Min(I) ELSE 0
<1>1. v \in Seq({Blank} \cup Addresses)
  <2>1. Side(ext) \in Named /\ Side(ext) \in {"External_Address", "Internal_Address"}
    BY DEF Side, Named, Asked
  <2> QED BY <2>1, ValueSaid DEF Arguments
<1>2. UpToBlank(v) = IF at = 0 THEN v ELSE SubSeq(v, 1, at - 1)
  BY DEF UpToBlank, SelectInSeq, IsBlank
<1>g. Given(ext) = IF v = <<>> THEN <<DefaultAddress(ext)>> ELSE UpToBlank(v)
  BY DEF Given
<1> HIDE DEF v
<1>3. Len(v) \in Nat /\ DOMAIN v = 1 .. Len(v) /\ \A i \in 1 .. Len(v) : v[i] \in {Blank} \cup Addresses
  BY <1>1, LenProperties, ElementOfSeq
<1>4. DefaultAddress(ext) \in Addresses
  <2>1. Num(DefaultPort(ext)) \in Nums
    BY DEF Num, Nums, DefaultPort
  <2> DEFINE host == IF ext THEN "hostname" ELSE "localhost"
             port == Num(DefaultPort(ext))
  <2>2. host \in Names
    <3>1. "hostname" \in Names /\ "localhost" \in Names
      BY DEF Names
    <3> QED BY <3>1, Zenon
  <2>3. DefaultAddress(ext) = Address(FALSE, "", host, port, "", FALSE, Missing)
    BY DEF DefaultAddress
  <2> HIDE DEF host, port
  <2>4. Address(FALSE, "", host, port, "", FALSE, Missing) \in Addresses
    <3>1. "" \in Names
      BY DEF Names
    <3> QED BY <2>1, <2>2, <3>1 DEF Address, Addresses, port
  <2> QED BY <2>3, <2>4
<1>5. CASE I = {}
  <2>1. UpToBlank(v) = v
    BY <1>2, <1>5
  <2>2. \A i \in 1 .. Len(v) : v[i] \in Addresses
    BY <1>3, <1>5
  <2>3. v \in Seq(Addresses)
    BY <1>1, <2>2, SeqIn
  <2>4. Given(ext) \in Seq(Addresses)
    BY <1>4, <1>g, <2>1, <2>3
  <2> QED BY <1>g, <2>1, <2>4 DEF v
<1>6. CASE I # {}
  <2>1. I \subseteq Nat /\ I \subseteq 1 .. Len(v)
    BY <1>3
  <2>b. \A i \in 1 .. Len(v) : v[i] = Blank => i \in I
    OBVIOUS
  <2>c. \A i \in I : v[i] = Blank
    OBVIOUS
  <2>x. at = Min(I)
    BY <1>6
  <2> HIDE DEF I, at
  <2>2. Min(I) \in I /\ \A y \in I : Min(I) <= y
    BY <1>6, <2>1, LeastPlace
  <2>3. at \in 1 .. Len(v) /\ at \in Nat /\ at # 0
    <3>1. at \in 1 .. Len(v)
      BY <2>1, <2>2, <2>x
    <3> QED BY <1>3, <3>1
  <2>4. \A i \in 1 .. (at - 1) : i \in 1 .. Len(v) /\ i < at
    BY <1>3, <2>3
  <2>5. \A i \in 1 .. (at - 1) : v[i] \in Addresses
    <3> TAKE i \in 1 .. (at - 1)
    <3>1. i \in 1 .. Len(v) /\ ~(at <= i)
      BY <2>3, <2>4
    <3>2. i \notin I
      BY <2>2, <2>x, <3>1
    <3> QED BY <1>3, <2>b, <3>1, <3>2
  <2>6. SubSeq(v, 1, at - 1) \in Seq(Addresses)
    BY <2>3, <2>5, SubSeqProperties
  <2>7. Given(ext) \in Seq(Addresses)
    BY <1>2, <1>4, <1>g, <2>3, <2>6
  <2>8. Blank \in ToSet(v)
    BY <1>3, <2>c, <2>1, <2>2 DEF ToSet
  <2> QED BY <2>7, <2>8 DEF v
<1> QED BY <1>5, <1>6

LEMMA SidesIn ==
    ASSUME file \in Files, configs = load(file)
    PROVE  /\ \A ext \in BOOLEAN :
                /\ init_endpoints(ext) \in Seq(Sides) /\ Len(init_endpoints(ext)) = Len(Given(ext))
                /\ \A k \in 1 .. Len(Given(ext)) :
                     init_endpoints(ext)[k] = [external |-> ext, word |-> Given(ext)[k]]
           /\ All \in Seq(Sides)
<1>1. ASSUME NEW ext \in BOOLEAN
      PROVE  /\ init_endpoints(ext) \in Seq(Sides) /\ Len(init_endpoints(ext)) = Len(Given(ext))
             /\ \A k \in 1 .. Len(Given(ext)) :
                  init_endpoints(ext)[k] = [external |-> ext, word |-> Given(ext)[k]]
  <2> DEFINE w == Given(ext)
  <2>1. init_endpoints(ext) = [k \in 1 .. Len(w) |-> [external |-> ext, word |-> w[k]]]
    BY DEF init_endpoints, Given, Side
  <2>2. w \in Seq(Addresses)
    BY GivenIn
  <2> HIDE DEF w
  <2>3. Len(w) \in Nat /\ \A k \in 1 .. Len(w) : w[k] \in Addresses
    BY <2>2, LenProperties, ElementOfSeq
  <2>4. init_endpoints(ext) \in [1 .. Len(w) -> Sides]
    BY <2>1, <2>3 DEF Sides
  <2>5. init_endpoints(ext) \in Seq(Sides)
    BY <2>3, <2>4, SeqDef
  <2>6. Len(init_endpoints(ext)) = Len(w)
    BY <2>1, <2>3, <2>5, LenProperties
  <2> QED BY <2>1, <2>5, <2>6 DEF w
<1>2. All \in Seq(Sides)
  BY <1>1, ConcatProperties DEF All
<1> QED BY <1>1, <1>2

\* What get_orb_options puts before the endpoints, and the endpoints as it puts them.
Opts    == <<Text("lorica"), Text("-ORBUseSharedProfile"), Num(0)>>
           \o Selected(get_value("ORB_Option"), IsWord)
Listens == [k \in 1 .. Len(endpoints) |-> as_tao_endpoint(endpoints[k])]

OptWords == Texts \cup {Text("lorica"), Text("-ORBUseSharedProfile"), Num(0)}

LEMMA FlattenOf ==
    ASSUME NEW n \in Nat, NEW T, NEW seqs, seqs = [k \in 1 .. n |-> seqs[k]],
           \A k \in 1 .. n : seqs[k] \in Seq(T)
    PROVE  FlattenSeq(seqs) \in Seq(T)
<1>1. seqs \in [1 .. n -> Seq(T)]
  OBVIOUS
<1>2. seqs \in Seq(Seq(T))
  BY <1>1, SeqDef
<1> QED BY <1>2, FlattenIn

LEMMA OptsIn ==
    ASSUME file \in Files, configs = load(file)
    PROVE  Opts \in Seq(OptWords)
<1> DEFINE v == get_value("ORB_Option")
           seqs == [k \in 1 .. Len(v) |-> IF IsWord(v[k]) THEN <<v[k]>> ELSE <<>>]
           pre == <<Text("lorica"), Text("-ORBUseSharedProfile"), Num(0)>>
<1>1. v \in Seq({Blank} \cup Texts)
  <2>1. "ORB_Option" \in Named
    BY DEF Named, Asked
  <2>2. Arguments("ORB_Option") = {Blank} \cup Texts
    BY DEF Arguments
  <2> QED BY <2>1, <2>2, ValueSaid
<1>o. Opts = pre \o FlattenSeq(seqs)
  BY DEF Opts, Selected
<1> HIDE DEF v
<1>2. Len(v) \in Nat /\ \A k \in 1 .. Len(v) : v[k] \in {Blank} \cup Texts
  BY <1>1, LenProperties, ElementOfSeq
<1>3. \A k \in 1 .. Len(v) : seqs[k] \in Seq(OptWords)
  <2> TAKE k \in 1 .. Len(v)
  <2>1. CASE IsWord(v[k])
    <3>1. v[k] \in OptWords
      BY <1>2, <2>1 DEF IsWord, OptWords
    <3> QED BY <2>1, <3>1
  <2>2. CASE ~IsWord(v[k])
    BY <2>2
  <2> QED BY <2>1, <2>2
<1>4. seqs = [k \in 1 .. Len(v) |-> seqs[k]]
  OBVIOUS
<1> HIDE DEF seqs
<1>5. FlattenSeq(seqs) \in Seq(OptWords)
  BY <1>2, <1>3, <1>4, FlattenOf
<1>6. pre \in Seq(OptWords)
  <2> DEFINE a == Text("lorica")
             b == Text("-ORBUseSharedProfile")
             c == Num(0)
  <2>1. a \in OptWords /\ b \in OptWords /\ c \in OptWords
    BY DEF OptWords
  <2> HIDE DEF a, b, c
  <2>2. <<a, b, c>> \in Seq(OptWords)
    BY <2>1
  <2> QED BY <2>2 DEF a, b, c
<1> HIDE DEF pre
<1> QED BY <1>o, <1>5, <1>6, ConcatProperties

\* The interfaces have addresses of their own, or none.
Plugged ==
    /\ DOMAIN nics = DOMAIN Nics
    /\ \A k \in DOMAIN Nics : nics[k] \in Nics[k].addresses \cup {Down}

LEMMA PluggedAlways == Spec => []Plugged
<1>1. Init => Plugged
  BY DEF Init, ConfigInit, Plugged
<1>2. Plugged /\ [Next]_vars => Plugged'
  <2> SUFFICES ASSUME Plugged, [Next]_vars PROVE Plugged'
    OBVIOUS
  <2>1. CASE UNCHANGED nics
    BY <2>1 DEF Plugged
  <2>2. CASE Environment
    <3>1. PICK k \in DOMAIN Nics : \E a \in (Nics[k].addresses \cup {Down}) \ {nics[k]} :
            nics' = [nics EXCEPT ![k] = a]
      BY <2>2 DEF Environment, NicChanges
    <3> QED BY <3>1 DEF Plugged
  <2>3. CASE ReadFile \/ NoFile \/ Options \/ BadOptions
    BY <2>1, <2>3 DEF ReadFile, LoadFile, NoFile, Options, BeginOptions, Parse, ParseRetries, EndOptions,
                      BadOptions, ParseFails
  <2>4. CASE OrbInit \/ NoOrb \/ Resolve \/ CreateManagers \/ Servant \/ Throw \/ DestroyProxy \/ Release
    BY <2>1, <2>4 DEF OrbInit, NoOrb, Resolve, CreateManagers, Servant, Throw, DestroyProxy, Release
  <2>5. CASE NullTypesDone \/ GenericEvaluator \/ StartMappers \/ StartMappersThrows
    BY <2>1, <2>5 DEF NullTypesDone, GenericEvaluator, StartMappers, StartMappersThrows
  <2>6. CASE (\E n \in Nulls : NullType(n)) \/ \E m \in Others \ {Generic} : LoadEvaluator(m)
    BY <2>1, <2>6 DEF NullType, LoadEvaluator
  <2>7. CASE UNCHANGED vars
    BY <2>1, <2>7 DEF vars
  <2> QED BY <2>2, <2>3, <2>4, <2>5, <2>6, <2>7 DEF Next, Configure
<1> QED BY <1>1, <1>2, PTL DEF Spec

\* The interface that a lookup finds.
LEMMA FirstFound ==
    ASSUME Plugged, NEW ks, ks \subseteq DOMAIN Nics, FirstOf(ks) # Down
    PROVE  \E k \in ks : FirstOf(ks) = nics[k] /\ nics[k] \in Nics[k].addresses
<1>1. ks # {} /\ FirstOf(ks) = nics[Min(ks)]
  BY DEF FirstOf
<1>2. ks \subseteq Nat
  <2>1. DOMAIN Nics = 1 .. Len(Nics) /\ Len(Nics) \in Nat
    BY ConfigAssumption, Zenon
  <2>2. 1 .. Len(Nics) \subseteq Nat
    BY <2>1
  <2> QED BY <2>1, <2>2
<1>3. Min(ks) \in ks
  BY <1>1, <1>2, LeastPlace
<1>4. nics[Min(ks)] \in Nics[Min(ks)].addresses
  BY <1>1, <1>3 DEF Plugged
<1> QED BY <1>1, <1>3, <1>4

\* The host of an endpoint, where the file names no interface and where it does.
LooksUp(w, host) ==
    IF Looked(w) THEN \E any \in AskedForAny(w) : host = Detected(w, any) ELSE host = w.host

Hosted(w, host) ==
    IF w.mark = "" \/ w.host = "" THEN host = w.host
    ELSE /\ host # ""
         /\ \E k \in DOMAIN Nics :
              /\ Nics[k].family = IF w.mark = "%" THEN "AF_INET" ELSE "AF_INET6"
              /\ host \in Nics[k].addresses
              /\ \/ Nics[k].name = w.host
                 \/ (w.host = "?" \/ Overrun) /\ Nics[k].name # "lo0" /\ host \notin NotExternal

LEMMA HostFound ==
    ASSUME Plugged, NEW w, NEW host, LooksUp(w, host), host # Down
    PROVE  Hosted(w, host)
<1>1. CASE ~Looked(w)
  BY <1>1 DEF LooksUp, Looked, Hosted
<1>2. CASE Looked(w)
  <2>1. PICK any \in AskedForAny(w) : host = Detected(w, any)
    BY <1>2 DEF LooksUp
  <2> DEFINE F == IF w.mark = "%" THEN "AF_INET" ELSE "AF_INET6"
             named == {k \in Up(Family(w)) : Nics[k].name = w.host}
             outer == {k \in Up(Family(w)) : Nics[k].name # "lo0" /\ nics[k] \notin NotExternal}
  <2>2. /\ named \subseteq DOMAIN Nics /\ \A k \in named : Nics[k].family = F /\ Nics[k].name = w.host
        /\ outer \subseteq DOMAIN Nics
        /\ \A k \in outer : Nics[k].family = F /\ Nics[k].name # "lo0" /\ nics[k] \notin NotExternal
    BY DEF Up, Family
  <2>3. host = IF any THEN FirstOf(outer) ELSE FirstOf(named)
    BY <2>1 DEF Detected, get_first_external_ip, get_ip_from_ifname
  <2>4. any => w.host = "?" \/ Overrun
    BY <2>1 DEF AskedForAny
  <2> HIDE DEF named, outer, F
  <2>5. CASE any
    <3>1. PICK k \in outer : host = nics[k] /\ nics[k] \in Nics[k].addresses
      BY <2>2, <2>3, <2>5, FirstFound
    <3>2. host # ""
      BY <2>2, <3>1, ConfigAssumption
    <3>3. /\ k \in DOMAIN Nics /\ Nics[k].family = F /\ host \in Nics[k].addresses
          /\ (w.host = "?" \/ Overrun) /\ Nics[k].name # "lo0" /\ host \notin NotExternal
      BY <2>2, <2>4, <2>5, <3>1
    <3> QED BY <1>2, <3>2, <3>3 DEF Hosted, Looked, F
  <2>6. CASE ~any
    <3>1. PICK k \in named : host = nics[k] /\ nics[k] \in Nics[k].addresses
      BY <2>2, <2>3, <2>6, FirstFound
    <3>2. host # ""
      BY <2>2, <3>1, ConfigAssumption
    <3>3. k \in DOMAIN Nics /\ Nics[k].family = F /\ host \in Nics[k].addresses /\ Nics[k].name = w.host
      BY <2>2, <3>1
    <3> QED BY <1>2, <3>2, <3>3 DEF Hosted, Looked, F
  <2> QED BY <2>5, <2>6
<1> QED BY <1>1, <1>2

\* The numbers of an endpoint, and how it comes of an address.
WellMade(e) == e.external \in BOOLEAN /\ e.port \in Nat \ {0} /\ e.ssl_port \in Nat
Made(e, t)  == ListensFor(as_tao_endpoint(e), t)

\* What parse_string does not refuse.
Parsable(w) == ~Malformed(w) /\ ~(w.random /\ w.alias # "")

LEMMA EndpointMade ==
    ASSUME NEW t \in Sides, NEW host, NEW uuid, Parsable(t.word), Hosted(t.word, host)
    PROVE  WellMade(Endpoint(t, host, uuid)) /\ Made(Endpoint(t, host, uuid), t)
<1> DEFINE e == Endpoint(t, host, uuid)
           l == as_tao_endpoint(e)
           w == t.word
<1>1. w \in Addresses /\ t.external \in BOOLEAN
  BY DEF Sides
<1>2. w.port \in Nums /\ w.ssl \in Nums \cup {Missing} /\ w.port # Missing
  BY <1>1 DEF Addresses, Parsable, Malformed
<1>3. w.port.num \in Int /\ (w.ssl # Missing => w.ssl.num \in Int)
  BY <1>2 DEF Nums
<1>4. \A n \in Int : /\ Positive(n, DefaultPort(t.external)) \in Nat \ {0}
                     /\ Positive(n, DefaultSslPort(t.external)) \in Nat
  BY DEF Positive, DefaultPort, DefaultSslPort
<1>5. /\ e.external = t.external
      /\ e.hostname = IF host = "" THEN "hostname" ELSE host
      /\ e.port = Positive(w.port.num, DefaultPort(t.external))
      /\ e.is_ipv6 = (w.brackets \/ w.mark = "+")
      /\ e.alias = IF w.random THEN <<"uuid", uuid>> ELSE <<"alias", w.alias>>
      /\ e.ssl_port = IF w.ssl = Missing THEN 0 ELSE Positive(w.ssl.num, DefaultSslPort(t.external))
  BY DEF Endpoint
<1> HIDE DEF e
<1>l. /\ l.host = e.hostname /\ l.is_ipv6 = e.is_ipv6 /\ l.port = e.port /\ l.ssl_port = e.ssl_port
      /\ l.hostname_in_ior = IF e.alias = NoAlias THEN <<"host", e.hostname>> ELSE e.alias
  BY DEF as_tao_endpoint, InIor
<1> HIDE DEF l, w
<1>6. e.external \in BOOLEAN
  BY <1>1, <1>5, Zenon
<1>7. e.port \in Nat \ {0} /\ e.ssl_port \in Nat
  <2>1. e.port \in Nat \ {0}
    BY <1>3, <1>4, <1>5
  <2>2. CASE w.ssl = Missing
    <3>1. e.ssl_port = 0
      BY <1>5, <2>2
    <3> QED BY <2>1, <3>1
  <2>3. CASE w.ssl # Missing
    <3>1. e.ssl_port \in Nat
      BY <1>3, <1>4, <1>5, <2>3
    <3> QED BY <2>1, <3>1
  <2> QED BY <2>2, <2>3
<1>8. WellMade(e)
  BY <1>6, <1>7 DEF WellMade
<1>9. ListensFor(l, t)
  <2> DEFINE given(n, def) == IF n.num > 0 THEN n.num ELSE def
             hosts == IF w.mark = "" \/ w.host = ""
                      THEN l.host = IF w.host = "" THEN "hostname" ELSE w.host
                      ELSE \E k \in DOMAIN Nics :
                             /\ Nics[k].family = IF w.mark = "%" THEN "AF_INET" ELSE "AF_INET6"
                             /\ l.host \in Nics[k].addresses
                             /\ \/ Nics[k].name = w.host
                                \/ /\ w.host = "?" \/ Overrun
                                   /\ Nics[k].name # "lo0" /\ l.host \notin NotExternal
             named == IF w.random THEN l.hostname_in_ior[1] = "uuid"
                      ELSE l.hostname_in_ior = IF w.alias = "" THEN <<"host", l.host>> ELSE <<"alias", w.alias>>
  <2>1. w.port # Missing /\ (w.random => w.alias = "")
    BY <1>2, Zenon DEF w, Parsable
  <2>2. /\ l.port = given(w.port, DefaultPort(t.external))
        /\ l.ssl_port = IF w.ssl = Missing THEN 0 ELSE given(w.ssl, DefaultSslPort(t.external))
    BY <1>5, <1>l, Zenon DEF Positive
  <2>3. l.is_ipv6 = (w.brackets \/ w.mark = "+")
    BY <1>5, <1>l, Zenon
  <2>4. hosts
    <3>1. Hosted(w, host)
      BY DEF w
    <3>2. CASE w.mark = "" \/ w.host = ""
      <4>1. host = w.host
        BY <3>1, <3>2 DEF Hosted
      <4> QED BY <1>5, <1>l, <3>2, <4>1
    <3>3. CASE ~(w.mark = "" \/ w.host = "")
      <4>1. l.host = host
        BY <1>5, <1>l, <3>1, <3>3 DEF Hosted
      <4> QED BY <3>1, <3>3, <4>1 DEF Hosted
    <3> QED BY <3>2, <3>3
  <2>5. named
    <3>1. CASE w.random
      <4>1. e.alias = <<"uuid", uuid>>
        BY <1>5, <3>1
      <4>2. e.alias # NoAlias /\ e.alias[1] = "uuid"
        BY <4>1 DEF NoAlias
      <4> QED BY <1>l, <3>1, <4>2
    <3>2. CASE ~w.random
      <4>1. e.alias = <<"alias", w.alias>>
        BY <1>5, <3>2
      <4>2. e.alias = NoAlias <=> w.alias = ""
        BY <4>1 DEF NoAlias
      <4> QED BY <1>l, <3>2, <4>1, <4>2
    <3> QED BY <3>1, <3>2
  <2> HIDE DEF hosts, named
  <2>6. ListensFor(l, t) <=>
          /\ w.port # Missing /\ (w.random => w.alias = "")
          /\ l.port = given(w.port, DefaultPort(t.external))
          /\ l.ssl_port = IF w.ssl = Missing THEN 0 ELSE given(w.ssl, DefaultSslPort(t.external))
          /\ l.is_ipv6 = (w.brackets \/ w.mark = "+")
          /\ hosts /\ named
    BY DEF ListensFor, hosts, named, w
  <2> QED BY <2>1, <2>2, <2>3, <2>4, <2>5, <2>6, Zenon
<1> QED BY <1>8, <1>9 DEF e, l, Made

(***************************************************************************)
(* The inductive invariant, in named parts.                                *)
(***************************************************************************)
Loaded == file \in Files /\ (stage \notin {"file", "ended"} => configs = load(file))

\* The endpoints that there are come of the first addresses, the others are still
\* to be parsed: none, once get_orb_options has returned.
Parsed ==
    /\ IsSeq(endpoints)
    /\ \A k \in 1 .. Len(endpoints) : WellMade(endpoints[k])
    /\ stage \in {"file", "options", "crashed"} => endpoints = <<>>
    /\ stage # "parse" => todo = <<>>
    /\ stage \notin {"file", "options", "ended", "crashed"} =>
         /\ todo \in Seq(Sides)
         /\ Len(endpoints) + Len(todo) = Len(All)
         /\ \A k \in 1 .. Len(endpoints) : Made(endpoints[k], All[k])
         /\ \A k \in 1 .. Len(todo) : todo[k] = All[Len(endpoints) + k]

\* The arguments of ORB_init.
Argued ==
    /\ stage \in {"file", "options", "crashed"} => orbArgs = <<>>
    /\ stage = "parse" => orbArgs = Opts
    /\ stage \notin {"file", "options", "parse", "ended", "crashed"} => orbArgs = Opts \o Listens

\* The policies of the POA managers are about the endpoints that there are.
Managed ==
    /\ IsSeq(managers) /\ Len(managers) <= 2
    /\ stage \in {"file", "options", "parse", "orb_init", "resolve", "ended", "crashed"} => managers = <<>>
    /\ stage = "managers" => Len(managers) <= 1
    /\ \A m \in 1 .. Len(managers) : \A k \in DOMAIN managers[m] : \E j \in 1 .. Len(endpoints) :
         managers[m][k].host = InIor(endpoints[j]) /\ managers[m][k].port = endpoints[j].port

Started == Loaded /\ Parsed /\ Argued /\ Managed

LEMMA StartedInit == Init => Started
<1> SUFFICES ASSUME Init PROVE Started
  OBVIOUS
<1>1. /\ file \in Files /\ stage = "file" /\ endpoints = <<>> /\ orbArgs = <<>> /\ todo = <<>>
      /\ managers = <<>>
  BY DEF Init, ConfigInit
<1>2. Len(<<>>) = 0 /\ IsSeq(<<>>)
  BY EmptySeq DEF IsSeq
<1>3. Loaded
  BY <1>1 DEF Loaded
<1>4. Parsed
  BY <1>1, <1>2 DEF Parsed
<1>5. Argued
  BY <1>1 DEF Argued
<1>6. Managed
  BY <1>1, <1>2 DEF Managed
<1> QED BY <1>3, <1>4, <1>5, <1>6 DEF Started

\* An element more, at the end.
LEMMA AppendOne ==
    ASSUME NEW s, NEW e, IsSeq(s)
    PROVE  /\ IsSeq(Append(s, e)) /\ Len(s) \in Nat /\ Len(Append(s, e)) = Len(s) + 1
           /\ \A k \in 1 .. Len(s) : Append(s, e)[k] = s[k]
           /\ Append(s, e)[Len(s) + 1] = e
<1>1. PICK S : s \in Seq(S)
  BY DEF IsSeq
<1> DEFINE T == S \cup {e}
<1>2. s \in Seq(T) /\ e \in T
  BY <1>1, SeqMonotonic
<1> HIDE DEF T
<1>3. Append(s, e) \in Seq(T)
  BY <1>2, AppendProperties
<1> QED BY <1>2, <1>3, AppendProperties, LenProperties DEF IsSeq

LEMMA ConfigKept ==
    ASSUME UNCHANGED configs
    PROVE  All' = All /\ Opts' = Opts
BY DEF All, Opts, init_endpoints, get_value, extract, UpToBlank

\* get_endpoints chooses among the endpoints that there are.
LEMMA PolicyOfEndpoints ==
    ASSUME IsSeq(endpoints), NEW ext
    PROVE  \A k \in DOMAIN EndpointPolicy(ext) : \E j \in 1 .. Len(endpoints) :
             /\ EndpointPolicy(ext)[k].host = InIor(endpoints[j])
             /\ EndpointPolicy(ext)[k].port = endpoints[j].port
<1> DEFINE n == Len(endpoints)
           T == {endpoints[j] : j \in 1 .. n}
           seqs == [k \in 1 .. n |-> IF endpoints[k].external = ext THEN <<endpoints[k]>> ELSE <<>>]
           eps == get_endpoints(ext)
<1>1. n \in Nat
  BY LenProperties DEF IsSeq
<1>2. eps = FlattenSeq(seqs)
  BY DEF get_endpoints, Selected
<1>3. \A k \in 1 .. n : seqs[k] \in Seq(T)
  <2> TAKE k \in 1 .. n
  <2>1. endpoints[k] \in T
    OBVIOUS
  <2> HIDE DEF T
  <2>2. <<endpoints[k]>> \in Seq(T) /\ <<>> \in Seq(T)
    BY <2>1
  <2> QED BY <2>2
<1>4. seqs = [k \in 1 .. n |-> seqs[k]]
  OBVIOUS
<1> HIDE DEF seqs
<1>5. eps \in Seq(T)
  <2> HIDE DEF T, n, eps
  <2> QED BY <1>1, <1>2, <1>3, <1>4, FlattenOf
<1>6. EndpointPolicy(ext) = [k \in 1 .. Len(eps) |-> [host |-> InIor(eps[k]), port |-> eps[k].port]]
  BY DEF EndpointPolicy
<1> HIDE DEF eps
<1>7. \A k \in 1 .. Len(eps) : eps[k] \in T
  <2> HIDE DEF T
  <2> QED BY <1>5, ElementOfSeq
<1> SUFFICES ASSUME NEW k \in 1 .. Len(eps)
             PROVE  \E j \in 1 .. n : InIor(eps[k]) = InIor(endpoints[j]) /\ eps[k].port = endpoints[j].port
  BY <1>6
<1>8. PICK j \in 1 .. n : eps[k] = endpoints[j]
  BY <1>7
<1> QED BY <1>8

LEMMA StartedStep == Plugged /\ Started /\ [Next]_vars => Started'
<1> SUFFICES ASSUME Plugged, Started, [Next]_vars PROVE Started'
  OBVIOUS
<1>z. Len(<<>>) = 0 /\ IsSeq(<<>>)
  BY EmptySeq DEF IsSeq
<1>f. file \in Files /\ IsSeq(endpoints) /\ IsSeq(managers) /\ Len(endpoints) \in Nat /\ Len(managers) \in Nat
  BY LenProperties DEF Started, Loaded, Parsed, Managed, IsSeq
<1>k. ASSUME UNCHANGED <<file, configs, endpoints, orbArgs, todo, managers>>,
             \/ stage' = stage
             \/ stage = "orb_init" /\ stage' \in {"resolve", "ended"}
             \/ stage = "resolve" /\ stage' \in {"managers", "failed"}
             \/ /\ stage \in {"managers", "servant", "nulls", "generic", "mappers", "active", "failed"}
                /\ stage' \in {"nulls", "generic", "mappers", "active", "failed", "destroyed"}
      PROVE  Started'
  <2>1. All' = All /\ Opts' = Opts
    BY <1>k, ConfigKept
  <2>2. Loaded'
    BY <1>k DEF Started, Loaded
  <2>3. Parsed'
    BY <1>k, <2>1 DEF Started, Parsed
  <2>4. Argued'
    BY <1>k, <2>1 DEF Started, Argued, Listens
  <2>5. Managed'
    BY <1>k, <1>z DEF Started, Managed
  <2> QED BY <2>2, <2>3, <2>4, <2>5 DEF Started
<1>1. CASE ReadFile
  <2>1. /\ stage = "file" /\ stage' = "options" /\ configs' = load(file)
        /\ UNCHANGED <<file, endpoints, orbArgs, todo, managers>>
    BY <1>1 DEF ReadFile, LoadFile, Go
  <2>2. Loaded'
    BY <1>f, <2>1 DEF Loaded
  <2>3. Parsed'
    BY <2>1 DEF Started, Parsed
  <2>4. Argued' /\ Managed'
    BY <2>1 DEF Started, Argued, Managed
  <2> QED BY <2>2, <2>3, <2>4 DEF Started
<1>2. CASE NoFile
  <2>1. stage = "file" /\ stage' = "ended" /\ UNCHANGED <<file, configs, endpoints, orbArgs, todo, managers>>
    BY <1>2 DEF NoFile, Go, configVars
  <2>2. Loaded' /\ Parsed'
    BY <2>1 DEF Started, Loaded, Parsed
  <2>3. Argued' /\ Managed'
    BY <2>1 DEF Started, Argued, Managed
  <2> QED BY <2>2, <2>3 DEF Started
<1>3. CASE Go("options", "parse") /\ BeginOptions /\ UNCHANGED managers
  <2>1. /\ stage = "options" /\ stage' = "parse" /\ orbArgs' = Opts /\ todo' = All
        /\ UNCHANGED <<file, configs, endpoints, managers>>
    BY <1>3 DEF Go, BeginOptions, Opts, All
  <2>2. All' = All /\ Opts' = Opts
    BY <2>1, ConfigKept
  <2>3. Loaded' /\ configs = load(file)
    BY <2>1 DEF Started, Loaded
  <2>4. All \in Seq(Sides) /\ Len(All) \in Nat
    BY <1>f, <2>3, SidesIn, LenProperties
  <2>5. endpoints = <<>> /\ managers = <<>>
    BY <2>1 DEF Started, Parsed, Managed
  <2>6. Parsed'
    <3>1. Len(endpoints) = 0 /\ endpoints' = endpoints /\ stage' = "parse"
      BY <1>z, <2>1, <2>5
    <3>2. \A k \in 1 .. Len(All) : k = 0 + k
      BY <2>4
    <3>3. 0 + Len(All) = Len(All)
      BY <2>4
    <3>4. \A k \in 1 .. Len(All) : All[k] = All[0 + k]
      BY <3>2
    <3>5. 1 .. 0 = {}
      OBVIOUS
    <3>6. /\ todo' \in Seq(Sides) /\ Len(endpoints') + Len(todo') = Len(All')
          /\ \A k \in 1 .. Len(todo') : todo'[k] = All'[Len(endpoints') + k]
      BY <2>1, <2>2, <2>4, <3>1, <3>3, <3>4, Zenon
    <3> QED BY <1>f, <3>1, <3>5, <3>6 DEF Parsed
  <2>7. Argued'
    BY <2>1, <2>2 DEF Argued
  <2>8. Managed'
    BY <1>z, <2>1, <2>5 DEF Managed
  <2> QED BY <2>3, <2>6, <2>7, <2>8 DEF Started
<1>4. CASE Go("parse", "parse") /\ Parse /\ UNCHANGED managers
  <2>1. PICK host :
          /\ stage = "parse" /\ stage' = "parse" /\ todo # <<>> /\ Parsable(Head(todo).word)
          /\ LooksUp(Head(todo).word, host) /\ host # Down
          /\ endpoints' = Append(endpoints, Endpoint(Head(todo), host, uuids + 1))
          /\ todo' = Tail(todo)
          /\ UNCHANGED <<file, configs, orbArgs, managers>>
    BY <1>4 DEF Go, Parse, LooksUp, Parsable
  <2>2. All' = All /\ Opts' = Opts
    BY <2>1, ConfigKept
  <2>3. Loaded'
    BY <2>1 DEF Started, Loaded
  <2>4. /\ todo \in Seq(Sides) /\ Len(endpoints) + Len(todo) = Len(All)
        /\ \A k \in 1 .. Len(endpoints) : WellMade(endpoints[k]) /\ Made(endpoints[k], All[k])
        /\ \A k \in 1 .. Len(todo) : todo[k] = All[Len(endpoints) + k]
    BY <2>1 DEF Started, Parsed
  <2>5. /\ Head(todo) = todo[1] /\ todo[1] \in Sides /\ Len(todo) \in Nat /\ 1 \in 1 .. Len(todo)
        /\ Tail(todo) \in Seq(Sides) /\ Len(Tail(todo)) = Len(todo) - 1
        /\ \A k \in 1 .. Len(Tail(todo)) : Tail(todo)[k] = todo[k + 1]
    <3>1. Len(todo) \in Nat /\ Len(todo) # 0
      BY <2>1, <2>4, LenProperties, EmptySeq
    <3> QED BY <2>1, <2>4, <3>1, HeadTailProperties, ElementOfSeq
  <2> DEFINE e == Endpoint(Head(todo), host, uuids + 1)
  <2>6. WellMade(e) /\ Made(e, todo[1])
    BY <2>1, <2>5, HostFound, EndpointMade
  <2>e. endpoints' = Append(endpoints, e)
    BY <2>1
  <2> HIDE DEF e
  <2>7. /\ IsSeq(endpoints') /\ Len(endpoints') = Len(endpoints) + 1
        /\ \A k \in 1 .. Len(endpoints) : endpoints'[k] = endpoints[k]
        /\ endpoints'[Len(endpoints) + 1] = e
    BY <1>f, <2>e, AppendOne
  <2>8. todo[1] = All[Len(endpoints) + 1]
    BY <2>4, <2>5
  <2>9. \A k \in 1 .. Len(endpoints') : WellMade(endpoints'[k]) /\ Made(endpoints'[k], All[k])
    <3> TAKE k \in 1 .. Len(endpoints')
    <3>1. k \in 1 .. Len(endpoints) \/ k = Len(endpoints) + 1
      BY <1>f, <2>7
    <3> QED BY <2>4, <2>6, <2>7, <2>8, <3>1
  <2>10. \A k \in 1 .. Len(todo') : todo'[k] = All[Len(endpoints') + k]
    <3> TAKE k \in 1 .. Len(todo')
    <3>1. k + 1 \in 1 .. Len(todo) /\ todo'[k] = todo[k + 1]
      BY <2>1, <2>5
    <3>2. Len(endpoints) + (k + 1) = Len(endpoints') + k
      BY <1>f, <2>7
    <3>3. todo[k + 1] = All[Len(endpoints) + (k + 1)]
      BY <2>4, <3>1
    <3> QED BY <3>1, <3>2, <3>3
  <2>11. Len(endpoints') + Len(todo') = Len(All)
    BY <1>f, <2>1, <2>4, <2>5, <2>7
  <2>12. Parsed'
    BY <2>1, <2>2, <2>5, <2>7, <2>9, <2>10, <2>11 DEF Parsed
  <2>13. Argued'
    BY <2>1, <2>2 DEF Started, Argued
  <2>14. Managed'
    BY <1>z, <2>1 DEF Started, Managed
  <2> QED BY <2>3, <2>12, <2>13, <2>14 DEF Started
<1>5. CASE Go("parse", "parse") /\ ParseRetries /\ UNCHANGED managers
  BY <1>5, <1>k DEF Go, ParseRetries
<1>6. CASE Go("parse", "orb_init") /\ EndOptions /\ UNCHANGED managers
  <2>1. /\ stage = "parse" /\ stage' = "orb_init" /\ todo = <<>> /\ orbArgs' = orbArgs \o Listens
        /\ UNCHANGED <<file, configs, endpoints, todo, managers>>
    BY <1>6 DEF Go, EndOptions, Listens
  <2>2. All' = All /\ Opts' = Opts /\ Listens' = Listens
    BY <2>1, ConfigKept DEF Listens
  <2>3. Loaded'
    BY <2>1 DEF Started, Loaded
  <2>4. Parsed'
    BY <2>1, <2>2 DEF Started, Parsed
  <2>5. Argued'
    BY <2>1, <2>2 DEF Started, Argued
  <2>6. Managed'
    BY <2>1 DEF Started, Managed
  <2> QED BY <2>3, <2>4, <2>5, <2>6 DEF Started
<1>7. CASE BadOptions
  <2>1. /\ stage = "parse" /\ stage' = "crashed" /\ endpoints' = <<>> /\ orbArgs' = <<>> /\ todo' = <<>>
        /\ UNCHANGED <<file, configs, managers>>
    BY <1>7 DEF BadOptions, ParseFails, Go
  <2>2. Loaded'
    BY <2>1 DEF Started, Loaded
  <2>3. Parsed'
    BY <1>z, <2>1 DEF Parsed
  <2>4. Argued'
    BY <2>1 DEF Argued
  <2>5. Managed'
    BY <1>z, <2>1 DEF Started, Managed
  <2> QED BY <2>2, <2>3, <2>4, <2>5 DEF Started
<1>8. CASE CreateManagers
  <2> DEFINE p == EndpointPolicy(managers = <<>>)
  <2>1. /\ stage = "managers" /\ stage' \in {"managers", "servant"} /\ managers' = Append(managers, p)
        /\ stage' = "managers" => managers = <<>>
        /\ UNCHANGED <<file, configs, endpoints, orbArgs, todo>>
    BY <1>8 DEF CreateManagers, Go, configVars
  <2>2. \A k \in DOMAIN p : \E j \in 1 .. Len(endpoints) :
          p[k].host = InIor(endpoints[j]) /\ p[k].port = endpoints[j].port
    BY <1>f, PolicyOfEndpoints
  <2> HIDE DEF p
  <2>3. All' = All /\ Opts' = Opts
    BY <2>1, ConfigKept
  <2>4. Loaded'
    BY <2>1 DEF Started, Loaded
  <2>5. Parsed'
    BY <2>1, <2>3 DEF Started, Parsed
  <2>6. Argued'
    BY <2>1, <2>3 DEF Started, Argued, Listens
  <2>7. /\ IsSeq(managers') /\ Len(managers') = Len(managers) + 1
        /\ \A m \in 1 .. Len(managers) : managers'[m] = managers[m]
        /\ managers'[Len(managers) + 1] = p
    BY <1>f, <2>1, AppendOne
  <2>8. Len(managers) <= 1 /\ (stage' = "managers" => Len(managers) = 0)
    BY <1>z, <2>1 DEF Started, Managed
  <2>9. \A m \in 1 .. Len(managers') : \A k \in DOMAIN managers'[m] : \E j \in 1 .. Len(endpoints) :
          managers'[m][k].host = InIor(endpoints[j]) /\ managers'[m][k].port = endpoints[j].port
    <3> TAKE m \in 1 .. Len(managers')
    <3>1. CASE m \in 1 .. Len(managers)
      BY <2>7, <3>1 DEF Started, Managed
    <3>2. CASE m = Len(managers) + 1
      BY <2>2, <2>7, <3>2
    <3>3. m \in 1 .. Len(managers) \/ m = Len(managers) + 1
      BY <1>f, <2>7
    <3> QED BY <3>1, <3>2, <3>3
  <2>10. Len(managers') <= 2 /\ (stage' = "managers" => Len(managers') <= 1)
    BY <1>f, <2>7, <2>8
  <2>11. Managed'
    BY <2>1, <2>7, <2>9, <2>10 DEF Managed
  <2> QED BY <2>4, <2>5, <2>6, <2>11 DEF Started
<1>9. ASSUME NEW n \in Nulls, NullType(n) PROVE Started'
  BY <1>9, <1>k DEF NullType, Go, configVars
<1>10. CASE NullTypesDone \/ GenericEvaluator
  BY <1>10, <1>k DEF NullTypesDone, GenericEvaluator, Go, configVars
<1>11. CASE StartMappers \/ StartMappersThrows
  BY <1>11, <1>k DEF StartMappers, StartMappersThrows, Go, configVars
<1>12. CASE Throw \/ DestroyProxy
  BY <1>12, <1>k DEF Throw, DestroyProxy, Go, configVars
<1>13. CASE OrbInit \/ NoOrb \/ Resolve \/ Servant
  BY <1>13, <1>k DEF OrbInit, NoOrb, Resolve, Servant, Go, configVars
<1>14. CASE Release \/ Environment
  BY <1>14, <1>k DEF Release, Environment, NicChanges, configVars, startVars
<1>15. ASSUME NEW m \in Others \ {Generic}, LoadEvaluator(m) PROVE Started'
  BY <1>15, <1>k DEF LoadEvaluator, configVars, startVars
<1>16. CASE UNCHANGED vars
  BY <1>16, <1>k DEF vars, configVars, startVars
<1>17. CASE Options
  BY <1>3, <1>4, <1>5, <1>6, <1>17 DEF Options
<1> QED BY <1>1, <1>2, <1>7, <1>8, <1>9, <1>10, <1>11, <1>12, <1>13, <1>14, <1>15, <1>16, <1>17
        DEF Next, Configure

LEMMA StartedAlways == Spec => []Started
BY StartedInit, StartedStep, PluggedAlways, PTL DEF Spec

\* The stages from the end of get_orb_options on.
HasArguments == stage \notin {"file", "options", "parse", "ended", "crashed"}

\* The arguments of ORB_init are the options, none of which is an endpoint, and
\* behind them the endpoints.
LEMMA ArgumentsOf ==
    ASSUME Started, HasArguments
    PROVE  /\ IsSeq(orbArgs) /\ Len(Opts) \in Nat /\ Len(endpoints) \in Nat
           /\ Len(orbArgs) = Len(Opts) + Len(endpoints)
           /\ \A k \in 1 .. Len(Opts) : orbArgs[k] = Opts[k] /\ orbArgs[k].kind # "listen"
           /\ \A j \in 1 .. Len(endpoints) : /\ orbArgs[Len(Opts) + j] = as_tao_endpoint(endpoints[j])
                                             /\ orbArgs[Len(Opts) + j].kind = "listen"
           /\ SubSeq(orbArgs, 1, Len(Opts)) = Opts
           /\ SubSeq(orbArgs, Len(Opts) + 1, Len(orbArgs)) = Listens
<1> DEFINE n == Len(endpoints)
           L == {as_tao_endpoint(endpoints[k]) : k \in 1 .. n}
           S == OptWords \cup L
           o == Len(Opts)
<1>1. /\ file \in Files /\ configs = load(file) /\ IsSeq(endpoints) /\ n \in Nat
      /\ orbArgs = Opts \o Listens
  BY LenProperties DEF Started, Loaded, Parsed, Argued, HasArguments, IsSeq
<1>2. Opts \in Seq(OptWords) /\ o \in Nat
  BY <1>1, OptsIn, LenProperties
<1>3. Listens \in Seq(L) /\ Len(Listens) = n /\ \A k \in 1 .. n : Listens[k] = as_tao_endpoint(endpoints[k])
  <2>1. Listens = [k \in 1 .. n |-> as_tao_endpoint(endpoints[k])]
    BY DEF Listens
  <2>2. Listens \in [1 .. n -> L]
    BY <2>1
  <2> HIDE DEF L, n
  <2>3. Listens \in Seq(L)
    BY <1>1, <2>2, SeqDef
  <2> QED BY <1>1, <2>1, <2>3, LenProperties
<1>4. \A w \in OptWords : w.kind # "listen"
  BY DEF OptWords, Texts, Text, Num
<1>5. \A w \in L : w.kind = "listen"
  BY DEF as_tao_endpoint
<1> HIDE DEF L, n
<1>6. Opts \in Seq(S) /\ Listens \in Seq(S)
  <2>1. OptWords \subseteq S /\ L \subseteq S
    OBVIOUS
  <2> HIDE DEF S
  <2> QED BY <1>2, <1>3, <2>1, SeqMonotonic
<1> HIDE DEF S
<1>7. /\ orbArgs \in Seq(S) /\ Len(orbArgs) = o + n
      /\ \A i \in 1 .. (o + n) : orbArgs[i] = IF i <= o THEN Opts[i] ELSE Listens[i - o]
  BY <1>1, <1>3, <1>6, ConcatProperties
<1> HIDE DEF o
<1>8. \A k \in 1 .. o : orbArgs[k] = Opts[k] /\ Opts[k] \in OptWords
  <2> TAKE k \in 1 .. o
  <2>1. k \in 1 .. (o + n) /\ k <= o
    BY <1>1, <1>2
  <2> QED BY <1>2, <1>7, <2>1, ElementOfSeq DEF o
<1>9. \A j \in 1 .. n : orbArgs[o + j] = Listens[j] /\ Listens[j] \in L
  <2> TAKE j \in 1 .. n
  <2>1. o + j \in 1 .. (o + n) /\ ~(o + j <= o) /\ (o + j) - o = j
    BY <1>1, <1>2
  <2> QED BY <1>3, <1>7, <2>1, ElementOfSeq
<1>10. SubSeq(orbArgs, 1, o) = Opts
  <2> DEFINE q == SubSeq(orbArgs, 1, o)
  <2>1. \A i \in 1 .. o : orbArgs[i] \in OptWords
    BY <1>8
  <2>2. q \in Seq(OptWords) /\ Len(q) = o /\ \A i \in 1 .. o : q[i] = orbArgs[i]
    <3>1. o - 1 + 1 = o /\ (IF 1 <= o THEN o - 1 + 1 ELSE 0) = o /\ \A i \in 1 .. o : 1 + i - 1 = i
      BY <1>2
    <3>2. /\ q \in Seq(OptWords) /\ Len(q) = IF 1 <= o THEN o - 1 + 1 ELSE 0
          /\ \A i \in 1 .. o - 1 + 1 : q[i] = orbArgs[1 + i - 1]
      BY <1>2, <2>1, SubSeqProperties
    <3> HIDE DEF q
    <3> QED BY <3>1, <3>2
  <2> HIDE DEF q
  <2>3. q = Opts
    BY <1>2, <1>8, <2>2, SeqEqual DEF o
  <2> QED BY <2>3 DEF q
<1>11. SubSeq(orbArgs, o + 1, o + n) = Listens
  <2> DEFINE q == SubSeq(orbArgs, o + 1, o + n)
  <2>1. \A i \in (o + 1) .. (o + n) : orbArgs[i] \in L
    <3> TAKE i \in (o + 1) .. (o + n)
    <3>1. i - o \in 1 .. n /\ o + (i - o) = i
      BY <1>1, <1>2
    <3> QED BY <1>9, <3>1
  <2>2. q \in Seq(L) /\ Len(q) = n /\ \A i \in 1 .. n : q[i] = orbArgs[o + i]
    <3>1. /\ (o + n) - (o + 1) + 1 = n /\ (IF o + 1 <= o + n THEN (o + n) - (o + 1) + 1 ELSE 0) = n
          /\ \A i \in 1 .. n : (o + 1) + i - 1 = o + i
      BY <1>1, <1>2
    <3>2. /\ q \in Seq(L) /\ Len(q) = IF o + 1 <= o + n THEN (o + n) - (o + 1) + 1 ELSE 0
          /\ \A i \in 1 .. (o + n) - (o + 1) + 1 : q[i] = orbArgs[(o + 1) + i - 1]
      <4> DEFINE a == o + 1
                 b == o + n
      <4>1. a \in Int /\ b \in Int
        BY <1>1, <1>2
      <4>3. \A i \in a .. b : orbArgs[i] \in L
        BY <2>1, Zenon
      <4> HIDE DEF a, b
      <4>2. /\ SubSeq(orbArgs, a, b) \in Seq(L) /\ Len(SubSeq(orbArgs, a, b)) = IF a <= b THEN b - a + 1 ELSE 0
            /\ \A i \in 1 .. b - a + 1 : SubSeq(orbArgs, a, b)[i] = orbArgs[a + i - 1]
        BY <4>1, <4>3, SubSeqProperties
      <4> QED BY <4>2 DEF a, b
    <3> HIDE DEF q
    <3> QED BY <3>1, <3>2
  <2> HIDE DEF q
  <2>3. q = Listens
    BY <1>3, <1>9, <2>2, SeqEqual
  <2> QED BY <2>3 DEF q
<1> QED BY <1>1, <1>2, <1>3, <1>4, <1>5, <1>7, <1>8, <1>9, <1>10, <1>11 DEF IsSeq, o, n

\* In every state of every start, the policies of the two POA managers only name
\* endpoints at which ORB_init was told to listen, by the very host that it was told
\* to put in references: get_endpoints answers from what was parsed once, whatever
\* interfaces and random aliases do between get_orb_options and create_poa_manager.
THEOREM ManagersAlwaysListen == Spec => []ManagersListen
<1>1. Started => ManagersListen
  <2> SUFFICES ASSUME Started, NEW m \in DOMAIN managers, NEW k \in DOMAIN managers[m]
               PROVE  \E w \in ToSet(orbArgs) :
                        /\ w.kind = "listen"
                        /\ w.hostname_in_ior = managers[m][k].host /\ w.port = managers[m][k].port
    BY DEF ManagersListen
  <2>1. DOMAIN managers = 1 .. Len(managers) /\ Len(managers) \in Nat
    BY LenProperties DEF Started, Managed, IsSeq
  <2>2. managers # <<>>
    <3>1. Len(managers) # 0
      BY <2>1
    <3> QED BY <3>1, EmptySeq
  <2>3. HasArguments
    BY <2>2 DEF Started, Managed, HasArguments
  <2>4. PICK j \in 1 .. Len(endpoints) :
          managers[m][k].host = InIor(endpoints[j]) /\ managers[m][k].port = endpoints[j].port
    BY <2>1 DEF Started, Managed
  <2> DEFINE i == Len(Opts) + j
             w == orbArgs[i]
  <2>5. w = as_tao_endpoint(endpoints[j]) /\ i \in 1 .. Len(orbArgs) /\ DOMAIN orbArgs = 1 .. Len(orbArgs)
    BY <2>3, ArgumentsOf, LenProperties DEF IsSeq
  <2> HIDE DEF i
  <2>6. w \in ToSet(orbArgs)
    BY <2>5 DEF ToSet
  <2>7. w.kind = "listen" /\ w.hostname_in_ior = InIor(endpoints[j]) /\ w.port = endpoints[j].port
    BY <2>5 DEF as_tao_endpoint
  <2> QED BY <2>4, <2>6, <2>7
<1> QED BY StartedAlways, <1>1, PTL

\* The options and the endpoints among the arguments of ORB_init.
LEMMA ArgumentsSplit ==
    ASSUME Started, HasArguments
    PROVE  /\ Selected(orbArgs, LAMBDA w : w.kind # "listen") = Opts
           /\ Selected(orbArgs, LAMBDA w : w.kind = "listen") = Listens
<1> DEFINE o == Len(Opts)
           l == Len(orbArgs)
           opts == [k \in 1 .. l |-> IF orbArgs[k].kind # "listen" THEN <<orbArgs[k]>> ELSE <<>>]
           ends == [k \in 1 .. l |-> IF orbArgs[k].kind = "listen" THEN <<orbArgs[k]>> ELSE <<>>]
<1>1. /\ IsSeq(orbArgs) /\ o \in Nat /\ Len(endpoints) \in Nat /\ l = o + Len(endpoints)
      /\ \A k \in 1 .. o : orbArgs[k].kind # "listen"
      /\ \A j \in 1 .. Len(endpoints) : orbArgs[o + j].kind = "listen"
      /\ SubSeq(orbArgs, 1, o) = Opts /\ SubSeq(orbArgs, o + 1, l) = Listens
  BY ArgumentsOf
<1>2. PICK S : orbArgs \in Seq(S)
  BY <1>1 DEF IsSeq
<1>s. /\ Selected(orbArgs, LAMBDA w : w.kind # "listen") = FlattenSeq(opts)
      /\ Selected(orbArgs, LAMBDA w : w.kind = "listen") = FlattenSeq(ends)
  BY DEF Selected
<1> HIDE DEF o
<1>3. \A k \in 1 .. l : orbArgs[k].kind # "listen" <=> k <= o
  <2> TAKE k \in 1 .. l
  <2>1. CASE k <= o
    <3>1. k \in 1 .. o
      BY <1>1, <2>1
    <3> QED BY <1>1, <2>1, <3>1
  <2>2. CASE ~(k <= o)
    <3>1. k - o \in 1 .. Len(endpoints) /\ o + (k - o) = k
      BY <1>1, <2>2
    <3>2. orbArgs[o + (k - o)].kind = "listen"
      BY <1>1, <3>1
    <3> QED BY <2>2, <3>1, <3>2
  <2> QED BY <2>1, <2>2
<1>i. \A k \in 1 .. l : 1 <= k /\ k <= l /\ (o + 1 <= k <=> ~(k <= o))
  BY <1>1
<1> HIDE DEF l
<1>4. opts = [k \in 1 .. l |-> IF 1 <= k /\ k <= o THEN <<orbArgs[k]>> ELSE <<>>]
  BY <1>3, <1>i
<1>5. ends = [k \in 1 .. l |-> IF o + 1 <= k /\ k <= l THEN <<orbArgs[k]>> ELSE <<>>]
  BY <1>3, <1>i
<1> HIDE DEF opts, ends
<1>6. FlattenSeq(opts) = SubSeq(orbArgs, 1, o)
  <2>1. 1 \in Nat /\ o \in Nat /\ 1 <= 1 /\ 1 <= o + 1 /\ o <= l
    BY <1>1
  <2> QED BY <1>2, <1>4, <2>1, FlattenPart DEF l
<1>7. FlattenSeq(ends) = SubSeq(orbArgs, o + 1, l)
  <2> DEFINE a == o + 1
  <2>1. a \in Nat /\ l \in Nat /\ 1 <= a /\ a <= l + 1 /\ l <= l
    BY <1>1
  <2>2. ends = [k \in 1 .. l |-> IF a <= k /\ k <= l THEN <<orbArgs[k]>> ELSE <<>>]
    BY <1>5
  <2> HIDE DEF a
  <2>3. FlattenSeq(ends) = SubSeq(orbArgs, a, l)
    BY <1>2, <2>1, <2>2, FlattenPart DEF l
  <2> QED BY <2>3 DEF a
<1> QED BY <1>1, <1>s, <1>6, <1>7

\* Whatever the file, what ORB_init is given besides endpoints is the program's name,
\* -ORBUseSharedProfile 0, and then every word of every ORB_Option line in the order
\* of the file: load() joins the values of a token that stands in several lines, and
\* get_orb_options takes the words of the joined value one by one.
THEOREM OptionsAlwaysInOrder == Spec => []OptionsInOrder
<1>1. Started => OptionsInOrder
  <2> SUFFICES ASSUME Started, Past(stage)
               PROVE  Selected(orbArgs, LAMBDA w : w.kind # "listen") =
                        <<Text("lorica"), Text("-ORBUseSharedProfile"), Num(0)>>
                        \o Selected(Said("ORB_Option"), IsWord)
    BY DEF OptionsInOrder
  <2>1. HasArguments /\ file \in Files /\ configs = load(file)
    BY DEF Started, Loaded, HasArguments, Past
  <2>2. get_value("ORB_Option") = Said("ORB_Option")
    BY <2>1, ValueSaid DEF Named, Asked
  <2>3. Opts = <<Text("lorica"), Text("-ORBUseSharedProfile"), Num(0)>>
               \o Selected(Said("ORB_Option"), IsWord)
    BY <2>2 DEF Opts
  <2> QED BY <2>1, <2>3, ArgumentsSplit
<1> QED BY StartedAlways, <1>1, PTL

\* When no two blanks stand together in a value, the ORB of every start listens, in
\* this order, at each External_Address and each Internal_Address of the file, or at the
\* default of a side that has none: at the host of the file, or at an address that an
\* interface it names can have, with its ports and its alias.  Interfaces may change
\* while parse_string waits for one.
THEOREM AddressesAlwaysUsed == Spec => []AddressesUsed
<1>1. Started => AddressesUsed
  <2> DEFINE listens == Selected(orbArgs, LAMBDA w : w.kind = "listen")
             wanted  == Wanted(TRUE) \o Wanted(FALSE)
  <2> SUFFICES ASSUME Started, Past(stage), \A k \in DOMAIN wanted : wanted[k].word # Blank
               PROVE  /\ Len(listens) = Len(wanted)
                      /\ \A k \in DOMAIN wanted : ListensFor(listens[k], wanted[k])
    BY DEF AddressesUsed
  <2>1. HasArguments /\ file \in Files /\ configs = load(file)
    BY DEF Started, Loaded, HasArguments, Past
  <2> DEFINE v(ext) == get_value(Side(ext))
             words(ext) == IF v(ext) = <<>> THEN <<DefaultAddress(ext)>> ELSE v(ext)
  <2>2. \A ext \in BOOLEAN :
          /\ v(ext) \in Seq({Blank} \cup Addresses)
          /\ Wanted(ext) = [k \in 1 .. Len(words(ext)) |-> [external |-> ext, word |-> words(ext)[k]]]
    <3> TAKE ext \in BOOLEAN
    <3>1. Side(ext) \in Named /\ Side(ext) \in {"External_Address", "Internal_Address"}
      BY DEF Side, Named, Asked
    <3>2. Arguments(Side(ext)) = {Blank} \cup Addresses
      BY <3>1 DEF Arguments
    <3>3. v(ext) = Said(Side(ext)) /\ v(ext) \in Seq({Blank} \cup Addresses)
      BY <2>1, <3>1, <3>2, ValueSaid
    <3>4. Side(ext) = IF ext THEN "External_Address" ELSE "Internal_Address"
      BY DEF Side
    <3> QED BY <3>3, <3>4 DEF Wanted
  <2>3. \A ext \in BOOLEAN :
          /\ words(ext) \in Seq({Blank} \cup Addresses) /\ Len(words(ext)) \in Nat
          /\ Wanted(ext) \in Seq([external : BOOLEAN, word : {Blank} \cup Addresses])
          /\ Len(Wanted(ext)) = Len(words(ext))
          /\ \A k \in 1 .. Len(words(ext)) : Wanted(ext)[k].word = words(ext)[k]
    <3> TAKE ext \in BOOLEAN
    <3> DEFINE ws == words(ext)
               T == {Blank} \cup Addresses
    <3>1. ws \in Seq(T)
      <4>1. CASE v(ext) = <<>>
        <5>1. Given(ext) \in Seq(Addresses) /\ Given(ext) = <<DefaultAddress(ext)>>
          BY <2>1, <4>1, GivenIn DEF Given
        <5>2. ws = Given(ext)
          BY <4>1, <5>1
        <5> QED BY <5>1, <5>2, SeqMonotonic
      <4>2. CASE v(ext) # <<>>
        BY <2>2, <4>2
      <4> QED BY <4>1, <4>2
    <3>2. Wanted(ext) = [k \in 1 .. Len(ws) |-> [external |-> ext, word |-> ws[k]]]
      BY <2>2
    <3> HIDE DEF ws
    <3>3. Len(ws) \in Nat /\ \A k \in 1 .. Len(ws) : ws[k] \in T
      BY <3>1, LenProperties, ElementOfSeq
    <3>4. Wanted(ext) \in [1 .. Len(ws) -> [external : BOOLEAN, word : T]]
      BY <3>2, <3>3
    <3>5. Wanted(ext) \in Seq([external : BOOLEAN, word : T]) /\ Len(Wanted(ext)) = Len(ws)
      BY <3>3, <3>4, FunctionIsSeq
    <3>6. \A k \in 1 .. Len(ws) : Wanted(ext)[k].word = ws[k]
      BY <3>2
    <3> QED BY <3>1, <3>3, <3>5, <3>6 DEF ws
  <2> DEFINE a == Wanted(TRUE)
             b == Wanted(FALSE)
             R == [external : BOOLEAN, word : {Blank} \cup Addresses]
  <2>4. a \in Seq(R) /\ b \in Seq(R) /\ Len(a) \in Nat /\ Len(b) \in Nat
    BY <2>3
  <2>w. /\ Len(a) = Len(words(TRUE)) /\ Len(b) = Len(words(FALSE))
        /\ \A k \in 1 .. Len(a) : a[k].word = words(TRUE)[k]
        /\ \A k \in 1 .. Len(b) : b[k].word = words(FALSE)[k]
    BY <2>3
  <2> HIDE DEF a, b, R, words
  <2>5. /\ a \o b \in Seq(R) /\ Len(a \o b) = Len(a) + Len(b)
        /\ \A i \in 1 .. Len(a) + Len(b) : (a \o b)[i] = IF i <= Len(a) THEN a[i] ELSE b[i - Len(a)]
    BY <2>4, ConcatProperties
  <2>6. DOMAIN (a \o b) = 1 .. (Len(a) + Len(b)) /\ \A i \in 1 .. (Len(a) + Len(b)) : (a \o b)[i].word # Blank
    <3>1. wanted = a \o b
      BY DEF a, b
    <3>2. DOMAIN (a \o b) = 1 .. (Len(a) + Len(b))
      BY <2>4, <2>5, LenProperties
    <3> QED BY <3>1, <3>2
  <2>7. ASSUME NEW i \in 1 .. Len(a) PROVE words(TRUE)[i] # Blank
    <3>1. i \in 1 .. (Len(a) + Len(b)) /\ i <= Len(a)
      BY <2>4
    <3> QED BY <2>w, <2>5, <2>6, <3>1
  <2>8. ASSUME NEW i \in 1 .. Len(b) PROVE words(FALSE)[i] # Blank
    <3>1. /\ Len(a) + i \in 1 .. (Len(a) + Len(b)) /\ ~(Len(a) + i <= Len(a))
          /\ (Len(a) + i) - Len(a) = i
      BY <2>4
    <3> QED BY <2>w, <2>5, <2>6, <3>1
  <2>9. \A ext \in BOOLEAN : Wanted(ext) = init_endpoints(ext)
    <3> TAKE ext \in BOOLEAN
    <3>1. Given(ext) = words(ext)
      <4>1. CASE v(ext) = <<>>
        BY <4>1 DEF Given, words
      <4>2. CASE v(ext) # <<>>
        <5>1. words(ext) = v(ext) /\ v(ext) \in Seq({Blank} \cup Addresses)
          BY <2>2, <4>2 DEF words
        <5>2. \A i \in 1 .. Len(words(ext)) : words(ext)[i] # Blank
          BY <2>w, <2>7, <2>8
        <5>3. DOMAIN v(ext) = 1 .. Len(v(ext))
          BY <5>1, LenProperties
        <5>4. Blank \notin ToSet(v(ext))
          BY <5>1, <5>2, <5>3 DEF ToSet
        <5> QED BY <2>1, <4>2, <5>1, <5>4, GivenIn
      <4> QED BY <4>1, <4>2
    <3>2. init_endpoints(ext) = [k \in 1 .. Len(Given(ext)) |-> [external |-> ext, word |-> Given(ext)[k]]]
      BY DEF init_endpoints, Given, Side
    <3>3. Wanted(ext) = [k \in 1 .. Len(words(ext)) |-> [external |-> ext, word |-> words(ext)[k]]]
      BY <2>2 DEF words
    <3> QED BY <3>1, <3>2, <3>3
  <2>10. wanted = All
    BY <2>9 DEF All
  <2>11. listens = Listens
    BY <2>1, ArgumentsSplit
  <2> DEFINE n == Len(endpoints)
  <2>12. n \in Nat /\ n = Len(All) /\ \A k \in 1 .. n : Made(endpoints[k], All[k])
    <3>1. /\ todo = <<>> /\ n + Len(todo) = Len(All) /\ IsSeq(endpoints)
          /\ \A k \in 1 .. n : Made(endpoints[k], All[k])
      BY <2>1 DEF Started, Parsed, HasArguments
    <3>2. Len(todo) = 0 /\ n \in Nat
      BY <3>1, EmptySeq, LenProperties DEF IsSeq
    <3> QED BY <3>1, <3>2
  <2> HIDE DEF n, listens, wanted
  <2>13. Listens = [k \in 1 .. n |-> as_tao_endpoint(endpoints[k])]
    BY DEF Listens, n
  <2>14. Len(listens) = n
    BY <2>11, <2>12, <2>13
  <2>15. DOMAIN wanted = 1 .. n
    <3>1. All \in Seq(Sides)
      BY <2>1, SidesIn
    <3> QED BY <2>10, <2>12, <3>1, LenProperties
  <2>16. \A k \in 1 .. n : ListensFor(listens[k], wanted[k])
    <3> TAKE k \in 1 .. n
    <3>1. listens[k] = as_tao_endpoint(endpoints[k]) /\ wanted[k] = All[k]
      BY <2>10, <2>11, <2>13
    <3> QED BY <2>12, <3>1 DEF Made
  <2> QED BY <2>10, <2>12, <2>14, <2>15, <2>16
<1> QED BY StartedAlways, <1>1, PTL

(***************************************************************************)
(* The null mapper, and the types of the variables.                        *)
(***************************************************************************)

\* What the file says of the null mapper.
Ids     == {String(w) : w \in ToSet(Said("Null_Eval_Type_ID"))}
AnyType == /\ Said("Null_Eval_Type_ID") = <<>>
           /\ Said("Null_Evaluator_Any") \in {<<Text("yes")>>, <<Text("true")>>}

\* A null mapper has type ids of the file; the registry refers to one without any,
\* which serves every type, only if the file asks for that.
Nulled ==
    /\ typeIds \in [Nulls -> SUBSET Ids]
    /\ \A n \in Nulls : Refers(n) => typeIds[n] # {} \/ AnyType
    /\ stage = "nulls" => ids \in Seq(Arguments("Null_Eval_Type_ID"))
                          /\ \A k \in 1 .. Len(ids) : String(ids[k]) \in Ids

LEMMA NulledInit == Init => Nulled
<1> SUFFICES ASSUME Init PROVE Nulled
  OBVIOUS
<1>1. /\ mappers = <<>> /\ generic = None /\ null = None /\ typeIds = [n \in Nulls |-> {}] /\ stage = "file"
  BY DEF Init, RegistryInit
<1>2. Len(mappers) = 0 /\ None \notin Nulls
  BY <1>1, EmptySeq, RegistryAssumption
<1>3. \A n \in Nulls : ~Refers(n)
  BY <1>1, <1>2 DEF Refers, Holds
<1>4. typeIds \in [Nulls -> SUBSET Ids]
  BY <1>1
<1> QED BY <1>1, <1>3, <1>4 DEF Nulled

LEMMA NulledStep == Owned /\ Started /\ Nulled /\ [Next]_vars => Nulled'
<1> SUFFICES ASSUME Owned, Started, Nulled, [Next]_vars PROVE Nulled'
  OBVIOUS
<1>m. Others \subseteq Mappers /\ Nulls \subseteq Mappers /\ None \notin Mappers /\ Others \cap Nulls = {}
  BY RegistryAssumption DEF Mappers
<1>s. /\ mappers \in Seq(Mappers) /\ generic \in Others \cup {None} /\ null \in Nulls \cup {None}
      /\ typeIds \in [Nulls -> SUBSET Ids] /\ \A n \in Nulls : Refers(n) => typeIds[n] # {} \/ AnyType
  BY DEF Owned, Shape, Nulled
<1>f. file' = file
  BY DEF Next, Configure, ReadFile, LoadFile, NoFile, Options, BeginOptions, Parse, ParseRetries, EndOptions,
         BadOptions, ParseFails, OrbInit, NoOrb, Resolve, CreateManagers, Servant, NullType, NullTypesDone,
         GenericEvaluator, StartMappers, StartMappersThrows, Throw, Release, LoadEvaluator, DestroyProxy,
         Environment, NicChanges, configVars, vars
<1>g. Ids' = Ids /\ AnyType' = AnyType
  BY <1>f DEF Ids, AnyType, Said
<1>v. stage \notin {"file", "ended"} =>
        \A token \in Named : get_value(token) = Said(token) /\ Said(token) \in Seq(Arguments(token))
  BY ValueSaid DEF Started, Loaded
<1>t. "Null_Eval_Type_ID" \in Named /\ "Null_Evaluator_Any" \in Named
  BY DEF Named, Asked
<1>k. ASSUME UNCHANGED typeIds, \A n \in Nulls : Refers(n)' => Refers(n),
             stage' = "nulls" => stage = "nulls" /\ UNCHANGED ids
      PROVE  Nulled'
  BY <1>k, <1>g DEF Nulled
<1>a. ASSUME NEW m \in Others, AddProxyMapper(m) \/ SetGeneric(m), stage' # "nulls" \/ UNCHANGED <<stage, ids>>
      PROVE  Nulled'
  <2>1. UNCHANGED <<typeIds, null>> /\ generic' \in {generic, m} /\ mappers' \in {mappers, Append(mappers, m)}
    BY <1>a DEF AddProxyMapper, SetGeneric
  <2>2. m \in Mappers /\ m \notin Nulls /\ m # None
    BY <1>m
  <2>3. \A x \in Mappers : Holds(mappers', x) => Holds(mappers, x) \/ x = m
    <3>1. CASE mappers' = mappers
      BY <3>1
    <3>2. CASE mappers' = Append(mappers, m)
      <4>1. mappers' = mappers \o Opt(m)
        BY <1>s, <2>2, <3>2, AppendIsConcat DEF Opt
      <4> QED BY <1>s, <2>2, <4>1, OptConcat
    <3> QED BY <2>1, <3>1, <3>2
  <2>4. \A n \in Nulls : Refers(n)' => Refers(n)
    BY <1>m, <2>1, <2>2, <2>3 DEF Refers
  <2> QED BY <1>a, <1>k, <2>1, <2>4
<1>i. ASSUME InitMappers \/ InitMappersThrows, stage' # "nulls" PROVE Nulled'
  <2> DEFINE c == mappers \o Opt(generic)
  <2>1. mappers' = c \o Opt(null) /\ null' = None /\ generic' = None /\ UNCHANGED typeIds
    BY <1>i DEF InitMappers, InitMappersThrows, Consolidated, HandedOver
  <2>2. c \in Seq(Mappers) /\ \A x \in Mappers : Holds(c, x) <=> Holds(mappers, x) \/ x = generic
    BY <1>m, <1>s, OptConcat
  <2> HIDE DEF c
  <2>3. \A x \in Mappers : Holds(mappers', x) <=> Holds(c, x) \/ x = null
    BY <1>m, <1>s, <2>1, <2>2, OptConcat
  <2>4. \A n \in Nulls : Refers(n)' => Refers(n)
    BY <1>m, <2>1, <2>2, <2>3 DEF Refers
  <2> QED BY <1>i, <1>k, <2>1, <2>4
<1>1. ASSUME NEW n \in Nulls, NullType(n) PROVE Nulled'
  <2> DEFINE type == String(Head(ids))
  <2>1. /\ stage = "nulls" /\ stage' = "nulls" /\ ids # <<>> /\ ids' = Tail(ids)
        /\ null' = n /\ typeIds' = [typeIds EXCEPT ![n] = @ \cup {type}] /\ UNCHANGED <<mappers, generic>>
    BY <1>1 DEF NullType, AddNullType, WithType, Go
  <2>2. ids \in Seq(Arguments("Null_Eval_Type_ID")) /\ \A k \in 1 .. Len(ids) : String(ids[k]) \in Ids
    BY <2>1 DEF Nulled
  <2> DEFINE S == Arguments("Null_Eval_Type_ID")
  <2>3. /\ Len(ids) \in Nat /\ 1 \in 1 .. Len(ids) /\ Head(ids) = ids[1] /\ ids' \in Seq(S)
        /\ Len(ids') = Len(ids) - 1 /\ \A k \in 1 .. Len(ids') : ids'[k] = ids[k + 1]
    <3> HIDE DEF S, type
    <3>1. ids \in Seq(S) /\ Len(ids) \in Nat /\ Len(ids) # 0
      BY <2>1, <2>2, LenProperties, EmptySeq DEF S
    <3> QED BY <2>1, <3>1, HeadTailProperties
  <2>4. type \in Ids
    BY <2>2, <2>3
  <2> HIDE DEF type, S
  <2>5. typeIds' \in [Nulls -> SUBSET Ids'] /\ typeIds'[n] # {}
    BY <1>g, <1>s, <2>1, <2>4
  <2>6. ASSUME NEW x \in Nulls, Refers(x)' PROVE typeIds'[x] # {} \/ AnyType'
    <3>1. CASE x = n
      BY <2>5, <3>1
    <3>2. CASE x # n
      <4>1. Refers(x) /\ typeIds'[x] = typeIds[x]
        BY <1>s, <2>1, <2>6, <3>2 DEF Refers
      <4> QED BY <1>g, <1>s, <4>1
    <3> QED BY <3>1, <3>2
  <2>7. \A k \in 1 .. Len(ids') : String(ids'[k]) \in Ids'
    <3> TAKE k \in 1 .. Len(ids')
    <3>1. k + 1 \in 1 .. Len(ids)
      BY <2>3
    <3> QED BY <1>g, <2>2, <2>3, <3>1
  <2> QED BY <2>3, <2>5, <2>6, <2>7 DEF Nulled, S
<1>2. CASE NullTypesDone
  <2>1. stage = "nulls" /\ stage' = "generic"
    BY <1>2 DEF NullTypesDone, Go
  <2>2. CASE null_eval_any /\ null = None
    <3>1. PICK n \in Nulls : CreateDefaultNull(n)
      BY <1>2, <2>2 DEF NullTypesDone
    <3>2. AnyType
      <4>1. get_value("Null_Eval_Type_ID") = <<>> /\ get_bool_value("Null_Evaluator_Any", FALSE)
        BY <2>2 DEF null_eval_any
      <4>2. get_value("Null_Evaluator_Any") \in {<<Text("yes")>>, <<Text("true")>>}
        BY <4>1 DEF get_bool_value
      <4>3. /\ get_value("Null_Eval_Type_ID") = Said("Null_Eval_Type_ID")
            /\ get_value("Null_Evaluator_Any") = Said("Null_Evaluator_Any")
        BY <1>t, <1>v, <2>1
      <4> QED BY <4>1, <4>2, <4>3 DEF AnyType
    <3>3. UNCHANGED typeIds
      BY <3>1 DEF CreateDefaultNull
    <3> QED BY <1>g, <1>s, <2>1, <3>2, <3>3 DEF Nulled
  <2>3. CASE ~(null_eval_any /\ null = None)
    <3>1. UNCHANGED registryVars
      BY <1>2, <2>3 DEF NullTypesDone
    <3> QED BY <1>k, <2>1, <3>1 DEF registryVars, Refers
  <2> QED BY <2>2, <2>3
<1>3. CASE GenericEvaluator
  <2>1. stage' # "nulls"
    BY <1>3 DEF GenericEvaluator, Go
  <2>2. CASE UNCHANGED registryVars
    BY <1>k, <2>1, <2>2 DEF registryVars, Refers
  <2> QED BY <1>3, <1>a, <2>1, <2>2, StartAssumption DEF GenericEvaluator
<1>4. CASE StartMappers \/ StartMappersThrows
  BY <1>4, <1>i DEF StartMappers, StartMappersThrows, Go
<1>5. CASE DestroyProxy
  <2>1. mappers' = <<>> /\ generic' = None /\ null' = None /\ stage' = "destroyed" /\ UNCHANGED typeIds
    BY <1>5 DEF DestroyProxy, Destroy, Go
  <2>2. Len(mappers') = 0
    BY <2>1, EmptySeq
  <2>3. \A n \in Nulls : ~Refers(n)'
    BY <1>m, <2>1, <2>2 DEF Refers, Holds
  <2> QED BY <1>k, <2>1, <2>3
<1>6. CASE Release
  BY <1>6, <1>k DEF Release, Decr, startVars, Refers
<1>7. ASSUME NEW m \in Others \ {Generic}, LoadEvaluator(m) PROVE Nulled'
  BY <1>7, <1>a DEF LoadEvaluator, startVars
<1>8. CASE Servant
  <2>1. stage = "servant" /\ ids' = get_value("Null_Eval_Type_ID") /\ UNCHANGED registryVars
    BY <1>8 DEF Servant, Go
  <2> DEFINE v == Said("Null_Eval_Type_ID")
             S == Arguments("Null_Eval_Type_ID")
  <2>2. ids' = v /\ v \in Seq(S)
    BY <1>t, <1>v, <2>1
  <2>i. Ids = {String(w) : w \in ToSet(v)}
    BY DEF Ids
  <2> HIDE DEF v, S
  <2>3. \A k \in 1 .. Len(ids') : String(ids'[k]) \in Ids
    <3>1. DOMAIN v = 1 .. Len(v)
      BY <2>2, LenProperties
    <3> QED BY <2>2, <2>i, <3>1 DEF ToSet
  <2>4. UNCHANGED typeIds /\ \A n \in Nulls : Refers(n)' => Refers(n)
    BY <2>1 DEF registryVars, Refers
  <2> QED BY <1>g, <1>s, <2>2, <2>3, <2>4 DEF Nulled, S
<1>9. CASE ReadFile \/ NoFile \/ Options \/ BadOptions
  BY <1>9, <1>k DEF ReadFile, NoFile, Options, BadOptions, registryVars, Go, Refers
<1>10. CASE OrbInit \/ NoOrb \/ Resolve \/ CreateManagers \/ Throw
  BY <1>10, <1>k DEF OrbInit, NoOrb, Resolve, CreateManagers, Throw, registryVars, Go, Refers
<1>11. CASE Environment \/ UNCHANGED vars
  BY <1>11, <1>k DEF Environment, vars, registryVars, startVars, Refers
<1> QED BY <1>1, <1>2, <1>3, <1>4, <1>5, <1>6, <1>7, <1>8, <1>9, <1>10, <1>11 DEF Next, Configure

LEMMA NulledAlways == Spec => []Nulled
<1>1. Owned /\ Started /\ Nulled /\ [Next]_vars => Nulled'
  BY NulledStep
<1> QED BY NulledInit, <1>1, OwnedAlways, StartedAlways, PTL DEF Spec

\* Whatever the file and whatever is loaded, a reference of some type goes through
\* the null mapper only if the file names that type, or names none and gives yes or
\* true to Null_Evaluator_Any: add_null_mapper_type is only called with the words of
\* Null_Eval_Type_ID, and create_default_null only when there are none.
THEOREM NullAlwaysAsConfigured == Spec => []NullAsConfigured
<1>1. Owned /\ Nulled => NullAsConfigured
  <2> SUFFICES ASSUME Owned, Nulled, NEW type \in Types, MapperFor(type) \in Nulls
               PROVE  type \in Ids \/ (Ids = {} /\ Said("Null_Evaluator_Any")
                                                     \in {<<Text("yes")>>, <<Text("true")>>})
    BY DEF NullAsConfigured, Ids
  <2> DEFINE n == MapperFor(type)
  <2>1. n \in Mappers
    BY DEF Mappers
  <2>2. EvaluatorFor(n, type) /\ Holds(mappers, n)
    <3>1. PICK i \in 1 .. Len(mappers) : mappers[i] = n /\ EvaluatorFor(n, type)
      BY <2>1, FirstMapper
    <3> QED BY <3>1 DEF Holds
  <2> HIDE DEF n
  <2>3. typeIds[n] = {} \/ type \in typeIds[n]
    BY <2>2 DEF EvaluatorFor, n
  <2>4. Refers(n) /\ n \in Nulls /\ typeIds[n] \subseteq Ids
    BY <2>2 DEF Refers, Nulled, n
  <2>5. CASE type \in typeIds[n]
    BY <2>4, <2>5
  <2>6. CASE typeIds[n] = {}
    <3>1. AnyType
      BY <2>4, <2>6 DEF Nulled
    <3>2. ToSet(<<>>) = {}
      BY DEF ToSet
    <3> QED BY <3>1, <3>2 DEF AnyType, Ids
  <2> QED BY <2>3, <2>5, <2>6
<1> QED BY OwnedAlways, NulledAlways, <1>1, PTL

\* The variables of the start keep their types: the registry's, the numbers of every
\* endpoint, at most two POA managers, no arguments and no endpoints before
\* get_orb_options, and no address left to parse after it.
THEOREM StartTypes == Spec => []TypeOK
<1> DEFINE Kinds == ready \in BOOLEAN /\ stage \in Stages /\ attempts \in 0 .. 3
<1>1. Init => Kinds
  <2> SUFFICES ASSUME Init PROVE Kinds
    OBVIOUS
  <2>1. ready = FALSE /\ stage = "file" /\ attempts = 3
    BY DEF Init, RegistryInit
  <2>2. stage \in Stages /\ attempts \in 0 .. 3
    BY <2>1 DEF Stages
  <2>3. ready \in BOOLEAN
    BY <2>1
  <2> QED BY <2>2, <2>3
<1>2. Kinds /\ [Next]_vars => Kinds'
  <2> SUFFICES ASSUME Kinds, [Next]_vars PROVE Kinds'
    OBVIOUS
  <2>1. stage' \in Stages
    BY DEF Next, Configure, ReadFile, NoFile, Options, BadOptions, OrbInit, NoOrb, Resolve, CreateManagers,
           Servant, NullType, NullTypesDone, GenericEvaluator, StartMappers, StartMappersThrows, Throw, Release,
           LoadEvaluator, DestroyProxy, Environment, vars, startVars, Go, Stages
  <2>2. attempts' \in 0 .. 3
    <3>1. CASE Resolve
      BY <3>1 DEF Resolve
    <3>2. CASE ~Resolve
      <4>1. attempts' = attempts
        BY <3>2 DEF Next, Configure, ReadFile, NoFile, Options, BadOptions, OrbInit, NoOrb, CreateManagers,
           Servant, NullType, NullTypesDone, GenericEvaluator, StartMappers, StartMappersThrows, Throw, Release,
           LoadEvaluator, DestroyProxy, Environment, vars, startVars
      <4> QED BY <4>1
    <3> QED BY <3>1, <3>2
  <2>3. ready' \in BOOLEAN
    <3>1. Registers \/ UNCHANGED registryVars
      BY NextRegisters
    <3>2. ready' = ready \/ ready' = TRUE
      BY <3>1 DEF Registers, SetGeneric, AddProxyMapper, CreateDefaultNull, AddNullType, InitMappers,
                  InitMappersThrows, Destroy, Decr, registryVars
    <3> QED BY <3>2
  <2> QED BY <2>1, <2>2, <2>3
<1>3. Owned /\ Started /\ Nulled /\ Kinds => TypeOK
  <2> SUFFICES ASSUME Owned, Started, Nulled, Kinds PROVE TypeOK
    OBVIOUS
  <2>1. Ids \subseteq Types
    <3>1. file \in Files /\ "Null_Eval_Type_ID" \in Named
      BY DEF Started, Loaded, Named, Asked
    <3>2. Said("Null_Eval_Type_ID") = FlattenSeq(Lines(file, "Null_Eval_Type_ID"))
      BY DEF Said, Lines, Heard
    <3>3. extract(load(file), "Null_Eval_Type_ID") = Said("Null_Eval_Type_ID")
      BY <3>1, <3>2, LoadFileSays
    <3> QED BY <3>1, <3>3, StartAssumption DEF Ids
  <2>2. RegistryTypeOK
    <3>1. typeIds \in [Nulls -> SUBSET Types]
      BY <2>1 DEF Nulled
    <3> QED BY <3>1 DEF RegistryTypeOK, Owned, Shape
  <2>3. \A k \in DOMAIN endpoints :
          endpoints[k].port > 0 /\ endpoints[k].ssl_port >= 0 /\ endpoints[k].external \in BOOLEAN
    <3>1. DOMAIN endpoints = 1 .. Len(endpoints)
      BY LenProperties DEF Started, Parsed, IsSeq
    <3>2. \A k \in 1 .. Len(endpoints) : WellMade(endpoints[k])
      BY DEF Started, Parsed
    <3> TAKE k \in DOMAIN endpoints
    <3>3. endpoints[k].external \in BOOLEAN /\ endpoints[k].port \in Nat \ {0} /\ endpoints[k].ssl_port \in Nat
      BY <3>1, <3>2 DEF WellMade
    <3>4. endpoints[k].port > 0 /\ endpoints[k].ssl_port >= 0
      BY <3>3
    <3> QED BY <3>3, <3>4
  <2>4. Len(managers) <= 2
    BY DEF Started, Managed
  <2>5. stage \in {"file", "options"} => orbArgs = <<>> /\ endpoints = <<>>
    BY DEF Started, Parsed, Argued
  <2>6. stage \notin {"parse", "crashed"} => todo = <<>>
    BY DEF Started, Parsed
  <2> QED BY <2>2, <2>3, <2>4, <2>5, <2>6 DEF TypeOK
<1> QED BY OwnedAlways, StartedAlways, NulledAlways, <1>1, <1>2, <1>3, PTL DEF Spec
=============================================================================
