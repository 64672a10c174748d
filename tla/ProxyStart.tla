----------------------------- MODULE ProxyStart -----------------------------
(***************************************************************************)
(* The start of the proxy, from the configuration file to the active POA   *)
(* managers (Proxy::configure in src/src/proxy/proxy.cpp): it puts the     *)
(* configuration and the mapper registry together, and takes the registry  *)
(* down again in Proxy::destroy.                                           *)
(***************************************************************************)
EXTENDS Configuration, MapperRegistry

CONSTANT Generic   \* the generic mapper that configure creates

ASSUME StartAssumption ==
    /\ Generic \in Others
    /\ \A f \in Files : \A w \in ToSet(extract(load(f), "Null_Eval_Type_ID")) : String(w) \in Types

VARIABLES
    stage,     \* where configure is
    attempts,  \* how often the root POA may still be asked for
    managers,  \* the endpoint policies of the POA managers: outside, then inside
    ids        \* the type ids of Null_Eval_Type_ID that are yet to be registered

startVars == <<stage, attempts, managers, ids>>
vars == <<configVars, nics, registryVars, startVars>>

Stages == {"file", "options", "parse", "orb_init", "resolve", "managers", "servant", "nulls",
           "generic", "mappers", "active", "failed", "destroyed", "ended", "crashed"}

TypeOK ==
    /\ RegistryTypeOK
    /\ stage \in Stages
    /\ attempts \in 0 .. 3
    /\ Len(managers) <= 2
    /\ \A k \in DOMAIN endpoints :
         endpoints[k].port > 0 /\ endpoints[k].ssl_port >= 0 /\ endpoints[k].external \in BOOLEAN
    /\ stage \in {"file", "options"} => orbArgs = <<>> /\ endpoints = <<>>
    /\ stage \notin {"parse", "crashed"} => todo = <<>>

Init ==
    /\ ConfigInit
    /\ RegistryInit
    /\ stage = "file"
    /\ attempts = 3
    /\ managers = <<>>
    /\ ids = <<>>

-----------------------------------------------------------------------------
Go(from, to) == stage = from /\ stage' = to

\* init_proxy reads the file, or gives up.
ReadFile ==
    /\ Go("file", "options")
    /\ LoadFile
    /\ UNCHANGED <<registryVars, attempts, managers, ids>>

NoFile ==
    /\ Go("file", "ended")
    /\ UNCHANGED <<configVars, nics, registryVars, attempts, managers, ids>>

Options ==
    /\ \/ Go("options", "parse") /\ BeginOptions
       \/ Go("parse", "parse") /\ (Parse \/ ParseRetries)
       \/ Go("parse", "orb_init") /\ EndOptions
    /\ UNCHANGED <<registryVars, attempts, managers, ids>>

\* get_orb_options returns a null pointer, which configure dereferences.
BadOptions ==
    /\ Go("parse", "crashed")
    /\ ParseFails
    /\ UNCHANGED <<registryVars, attempts, managers, ids>>

\* An evaluator service is loaded: by ORB_init, or later, and then in vain.
LoadEvaluator(m) ==
    /\ stage \in {"orb_init", "active"}
    /\ AddProxyMapper(m) \/ SetGeneric(m)
    /\ UNCHANGED <<configVars, nics, startVars>>

OrbInit ==
    /\ Go("orb_init", "resolve")
    /\ pending = <<>>
    /\ UNCHANGED <<configVars, nics, registryVars, attempts, managers, ids>>

\* Without an ORB there is nothing for destroy to do.
NoOrb ==
    /\ Go("orb_init", "ended")
    /\ UNCHANGED <<configVars, nics, registryVars, attempts, managers, ids>>

\* resolve_initial_references("RootPOA")
Resolve ==
    /\ \/ Go("resolve", "managers") /\ UNCHANGED attempts
       \/ Go("resolve", "resolve") /\ attempts > 0 /\ attempts' = attempts - 1
    /\ UNCHANGED <<configVars, nics, registryVars, managers, ids>>

\* The policy of a POA manager: the hosts and ports of the endpoints of its side.
EndpointPolicy(external) ==
    LET eps == get_endpoints(external)
    IN [k \in 1 .. Len(eps) |-> [host |-> InIor(eps[k]), port |-> eps[k].port]]

CreateManagers ==
    /\ \/ managers = <<>> /\ Go("managers", "managers")
       \/ managers # <<>> /\ Go("managers", "servant")
    /\ managers' = Append(managers, EndpointPolicy(managers = <<>>))
    /\ UNCHANGED <<configVars, nics, registryVars, attempts, ids>>

\* The reference mapper's servant, the IOR file and the signal handler.
Servant ==
    /\ Go("servant", "nulls")
    /\ ids' = get_value("Null_Eval_Type_ID")
    /\ UNCHANGED <<configVars, nics, registryVars, attempts, managers>>

NullType(n) ==
    /\ Go("nulls", "nulls")
    /\ ids # <<>>
    /\ AddNullType(n, String(Head(ids)))
    /\ ids' = Tail(ids)
    /\ UNCHANGED <<configVars, nics, attempts, managers>>

\* null_eval_any: only when no type ids are given.
null_eval_any == get_value("Null_Eval_Type_ID") = <<>> /\ get_bool_value("Null_Evaluator_Any", FALSE)

NullTypesDone ==
    /\ Go("nulls", "generic")
    /\ ids = <<>>
    /\ IF null_eval_any /\ null = None THEN \E n \in Nulls : CreateDefaultNull(n)
                                       ELSE UNCHANGED registryVars
    /\ UNCHANGED <<configVars, nics, attempts, managers, ids>>

\* The generic mapper is added by configure itself, on Windows by its loader.
GenericEvaluator ==
    /\ Go("generic", "mappers")
    /\ IF get_bool_value("Generic_Evaluator", FALSE)
       THEN AddProxyMapper(Generic) \/ SetGeneric(Generic)
       ELSE UNCHANGED registryVars
    /\ UNCHANGED <<configVars, nics, attempts, managers, ids>>

\* init_mappers; when a mapper's initialisation throws, mappers_ready_ is not set.
StartMappers ==
    /\ Go("mappers", "active")
    /\ InitMappers
    /\ UNCHANGED <<configVars, nics, attempts, managers, ids>>

StartMappersThrows ==
    /\ Go("mappers", "failed")
    /\ InitMappersThrows
    /\ UNCHANGED <<configVars, nics, attempts, managers, ids>>

\* InitError: init_proxy deletes the proxy.
Throw ==
    /\ \E from \in {"resolve", "managers", "servant", "nulls", "generic"} : Go(from, "failed")
    /\ stage = "resolve" => attempts = 0
    /\ UNCHANGED <<configVars, nics, registryVars, attempts, managers, ids>>

\* Proxy::destroy, after the ORB's threads have ended or by the destructor.
DestroyProxy ==
    /\ \E from \in {"active", "failed"} : Go(from, "destroyed")
    /\ Destroy
    /\ UNCHANGED <<configVars, nics, attempts, managers, ids>>

Release == Decr /\ UNCHANGED <<configVars, nics, startVars>>

Environment == \E k \in DOMAIN Nics : NicChanges(k) /\ UNCHANGED <<registryVars, startVars>>

Configure ==
    \/ ReadFile \/ NoFile \/ Options \/ BadOptions \/ OrbInit \/ NoOrb \/ Resolve
    \/ CreateManagers \/ Servant \/ (\E n \in Nulls : NullType(n)) \/ NullTypesDone
    \/ GenericEvaluator \/ StartMappers \/ StartMappersThrows \/ Throw \/ Release

Next ==
    \/ Configure
    \/ \E m \in Others \ {Generic} : LoadEvaluator(m)
    \/ DestroyProxy
    \/ Environment

Spec == Init /\ [][Next]_vars

\* The thread that starts the proxy goes on, its sleeps included.
FairSpec == Spec /\ WF_vars(Configure)

-----------------------------------------------------------------------------
(***************************************************************************)
(* Properties.                                                             *)
(***************************************************************************)

\* The words that the lines of the file give to a token, in their order.
Said(token) ==
    FlattenSeq([k \in 1 .. Len(file) |->
        LET l == Trimmed(file[k])
        IN IF l # <<>> /\ Head(l) = Text(token) THEN Tail(l) ELSE <<>>])

Past(s) == s \in {"resolve", "managers", "servant", "nulls", "generic", "mappers", "active"}

\* lorica.conf: the order of ORB options "is obviously important", and they may be
\* "interplaced in between normal options".  What ORB_init is given is every word
\* of every ORB_Option line, in the order of the file, whatever stands between
\* them and however many blanks, tabs and comments there are.
OptionsInOrder ==
    Past(stage) =>
        Selected(orbArgs, LAMBDA w : w.kind # "listen") =
            <<Text("lorica"), Text("-ORBUseSharedProfile"), Num(0)>>
            \o Selected(Said("ORB_Option"), IsWord)

\* The addresses that the file gives to a side, or the default of a side without any.
Wanted(ext) ==
    LET said  == Said(IF ext THEN "External_Address" ELSE "Internal_Address")
        words == IF said = <<>> THEN <<DefaultAddress(ext)>> ELSE said
    IN [k \in 1 .. Len(words) |-> [external |-> ext, word |-> words[k]]]

\* Whether the ORB listens at l as the address t of the file says: at its host, or at
\* an address of an interface that it names, of the right family; with its ports, a
\* default for those that are no positive number; and by its alias in references.
ListensFor(l, t) ==
    LET w == t.word
        given(n, def) == IF n.num > 0 THEN n.num ELSE def
    IN /\ w.port # Missing /\ (w.random => w.alias = "")
       /\ l.port = given(w.port, DefaultPort(t.external))
       /\ l.ssl_port = IF w.ssl = Missing THEN 0 ELSE given(w.ssl, DefaultSslPort(t.external))
       /\ l.is_ipv6 = (w.brackets \/ w.mark = "+")
       /\ IF w.mark = "" \/ w.host = ""
          THEN l.host = IF w.host = "" THEN "hostname" ELSE w.host
          ELSE \E k \in DOMAIN Nics :
                 /\ Nics[k].family = IF w.mark = "%" THEN "AF_INET" ELSE "AF_INET6"
                 /\ l.host \in Nics[k].addresses
                 /\ \/ Nics[k].name = w.host
                    \/ /\ w.host = "?" \/ Overrun
                       /\ Nics[k].name # "lo0" /\ l.host \notin NotExternal
       /\ IF w.random THEN l.hostname_in_ior[1] = "uuid"
          ELSE l.hostname_in_ior = IF w.alias = "" THEN <<"host", l.host>> ELSE <<"alias", w.alias>>

\* An ORB that is made listens at every address the file gives for either side and
\* nowhere else, the outside first and in the order of the file, provided no two
\* blanks stand together in a value; so no ORB is made if one of them cannot be parsed,
\* whatever was parsed before it and however long interfaces were waited for.
AddressesUsed ==
    LET listens == Selected(orbArgs, LAMBDA w : w.kind = "listen")
        wanted  == Wanted(TRUE) \o Wanted(FALSE)
    IN Past(stage) /\ (\A k \in DOMAIN wanted : wanted[k].word # Blank) =>
            /\ Len(listens) = Len(wanted)
            /\ \A k \in DOMAIN wanted : ListensFor(listens[k], wanted[k])

\* The policies by which the POA managers choose their endpoints only name
\* endpoints at which the ORB listens and that it puts in references by that very
\* name, although interfaces change their addresses in the meantime and a random
\* alias is never the same twice.
ManagersListen ==
    \A m \in DOMAIN managers : \A k \in DOMAIN managers[m] :
        \E w \in ToSet(orbArgs) :
            /\ w.kind = "listen"
            /\ w.hostname_in_ior = managers[m][k].host /\ w.port = managers[m][k].port

\* The null mapper, which looks at nothing, serves a type only if the file names
\* it, or names none and gives yes or true to Null_Evaluator_Any.
NullAsConfigured ==
    LET named == {String(w) : w \in ToSet(Said("Null_Eval_Type_ID"))} IN
    \A type \in Types : MapperFor(type) \in Nulls =>
        type \in named \/ (named = {} /\ Said("Null_Evaluator_Any") \in {<<Text("yes")>>, <<Text("true")>>})

\* If the interface that is waited for has an address from some time on, the
\* start comes to an end.
Waits == todo # <<>> /\ Looked(Head(todo).word)

StartEnds ==
    <>[](Waits => Detected(Head(todo).word, Head(todo).word.host = "?") # Down)
    => <>(stage \in {"active", "failed", "destroyed", "ended", "crashed"})
=============================================================================
