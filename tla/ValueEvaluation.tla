-------------------------- MODULE ValueEvaluation --------------------------
(***************************************************************************)
(* What the generic evaluator does to the values of a call                 *)
(* (src/src/lorica/GenericEvaluator.cpp, with ArgList and Arg of           *)
(* src/src/OCI/OperationTable.cpp): it walks through every argument,       *)
(* result and exception that may hold an object reference, and replaces    *)
(* the references by mapped ones.  Whether one may is found out from the   *)
(* type code when it is first needed, and kept in the operation's          *)
(* signature, which all calls share.                                       *)
(*                                                                         *)
(* A value is a tree: its type code, its components, and, at a leaf that   *)
(* is a reference, what it refers to.  A reference is "native" or "mapped" *)
(* (mapping it once more makes it native again), "nil", or "stray" when no *)
(* mapper wants it.  The side that a reference is mapped for is            *)
(* ProxyInvocation's matter.                                               *)
(***************************************************************************)
EXTENDS Naturals, Sequences

CONSTANTS
    Types,      \* the type codes
    kind,       \* the kind of each
    parts,      \* the types of its members, or its content type
    Ops,        \* the operations
    signature,  \* their signatures: oneway, result, args (mode and type), exceps
    values,     \* the values of each type that come up
    Calls       \* the calls that are in progress at once

Kinds == {"plain", "objref", "any", "alias", "struct", "union", "sequence", "array"}
Modes == {"in", "out", "inout"}

\* The types that occur in a type: the closure of its parts.
PartsOf(ts) == UNION {{parts[t][i] : i \in DOMAIN parts[t]} : t \in ts}

RECURSIVE Closed(_)
Closed(ts) == IF PartsOf(ts) \subseteq ts THEN ts ELSE Closed(ts \cup PartsOf(ts))

Within == [t \in Types |-> Closed(PartsOf({t}))]

\* has_objref and proxify do not come to an end on a type that contains itself.
ASSUME ValueAssumption ==
    /\ kind \in [Types -> Kinds]
    /\ \A t \in Types : t \notin Within[t]
    /\ "void" \in Types

VARIABLES
    must,     \* for each operation the must_proxy_ of its result, arguments and exceptions
    call,     \* the calls
    crashed

vars == <<must, call, crashed>>

Flag == {"unknown", "no", "yes"}

\* A value that is not there.
Void == [tc |-> "void", sub |-> <<>>, ref |-> "none"]

NewFlags(o) ==
    [result |-> "unknown",
     args   |-> [i \in DOMAIN signature[o].args |-> "unknown"],
     exceps |-> [i \in DOMAIN signature[o].exceps |-> "unknown"]]

Idle == [pc |-> "idle", op |-> "none", waits |-> FALSE, i |-> 1, n |-> 1, list |-> <<>>, result |-> Void,
         asked |-> <<>>, passed |-> <<>>, answer |-> Void, filled |-> <<>>]

Init ==
    /\ must = [o \in Ops |-> NewFlags(o)]
    /\ call = [c \in Calls |-> Idle]
    /\ crashed = FALSE

-----------------------------------------------------------------------------
(***************************************************************************)
(* Types.  A definition that stands before the one it resembles is a       *)
(* faulty variant that no action uses.                                     *)
(***************************************************************************)

\* The kinds whose members or content has_objref looks into.
WithoutUnions == {"alias", "struct", "sequence", "array"}
Composite     == {"alias", "struct", "union", "sequence", "array"}

RECURSIVE has_objref(_)
has_objref(t) ==
    \/ kind[t] \in {"objref", "any"}
    \/ kind[t] \in Composite /\ \E i \in DOMAIN parts[t] : has_objref(parts[t][i])

\* must_proxy_ once it is known.
Known(f, t) == IF f # "unknown" THEN f ELSE IF has_objref(t) THEN "yes" ELSE "no"

RECURSIVE Stripped(_)
Stripped(t) == IF kind[t] = "alias" THEN Stripped(parts[t][1]) ELSE t

-----------------------------------------------------------------------------
(***************************************************************************)
(* Values.                                                                 *)
(***************************************************************************)

\* mapped_for_native, and whether proxify puts what it gives back into the value.
MappedRef(r) == CASE r = "native" -> "mapped" [] r = "mapped" -> "native" [] OTHER -> r
Replaces(r)  == r \in {"native", "mapped"}

\* DynSequence::_narrow gives nil for the value of an array.
NarrowsToSequence(k) == k # "array"

\* What a composite value makes of what its components say.
LastChanged(each) == each # <<>> /\ each[Len(each)].changed
AnyChanged(each)  == \E i \in DOMAIN each : each[i].changed

\* proxify: the value afterwards, whether it says that it changed it, and whether
\* it got that far.  Components that cannot hold a reference are left out.
RECURSIVE proxify(_)
proxify(v) ==
    LET k    == kind[Stripped(v.tc)]
        each == [i \in DOMAIN v.sub |->
                    IF has_objref(v.sub[i].tc) THEN proxify(v.sub[i])
                    ELSE [value |-> v.sub[i], changed |-> FALSE, ok |-> TRUE]]
    IN  IF k = "objref"
        THEN [value |-> [v EXCEPT !.ref = MappedRef(@)], changed |-> Replaces(v.ref), ok |-> TRUE]
        ELSE [value   |-> [v EXCEPT !.sub = [i \in DOMAIN @ |-> each[i].value]],
              changed |-> AnyChanged(each),
              ok      |-> /\ k = "array" /\ has_objref(v.tc) => NarrowsToSequence(k)
                          /\ \A i \in DOMAIN each : each[i].ok]

\* proxify_any: the value is only replaced when proxify says that it changed it.
proxify_any(v) == IF proxify(v).changed THEN proxify(v).value ELSE v

\* What proxify_params, proxify_result and proxify_exception leave of a value
\* whose must_proxy_ is f.
Treated(f, v) == IF f = "yes" THEN proxify_any(v) ELSE v
Breaks(f, v)  == f = "yes" /\ ~proxify(v).ok

-----------------------------------------------------------------------------
(***************************************************************************)
(* Calls.                                                                  *)
(***************************************************************************)
Args(c) == signature[call[c].op].args

\* Values for the arguments of an operation that have one of the modes.
Given(modes) ==
    [o \in Ops |->
        LET a  == signature[o].args
            Of == [i \in DOMAIN a |-> IF a[i].mode \in modes THEN values[a[i].tc] ELSE {Void}]
        IN  {vs \in [DOMAIN a -> UNION {Of[i] : i \in DOMAIN a}] : \A i \in DOMAIN a : vs[i] \in Of[i]}]

Asked    == Given({"in", "inout"})
Returned == Given({"out", "inout"})

\* prepare_request and ServerRequest::arguments: the NVList of all arguments.
NVList(o, vs) == [i \in DOMAIN vs |-> [flags |-> signature[o].args[i].mode, value |-> vs[i]]]

\* Whether the client waits for the outcome is its own choice, also for an operation
\* that IDL declares oneway.
Receive(c, o, waits, vs) ==
    /\ ~crashed
    /\ call[c].pc \in {"idle", "done"}
    /\ call' = [call EXCEPT ![c] = [Idle EXCEPT !.pc = "request", !.op = o, !.waits = waits,
                                               !.list = NVList(o, vs), !.asked = vs]]
    /\ UNCHANGED <<must, crashed>>

\* The mode that a direction leaves out.
Exclude(pc) == IF pc = "request" THEN "out" ELSE "in"

\* Where the list goes on that n_arg runs through: the next item of the direction.
NextItemAny(list, n, ex)  == n
NextItem(list, n, ex) ==
    CHOOSE m \in n .. Len(list) + 1 :
        /\ m <= Len(list) => list[m].flags # ex
        /\ \A l \in n .. m - 1 : list[l].flags = ex

\* One turn of the loop of proxify_params, for the arguments on their way in and
\* on their way out.
Passed(c) ==
    /\ Args(c)[call[c].i].mode = Exclude(call[c].pc)
    /\ call' = [call EXCEPT ![c].i = @ + 1]
    /\ UNCHANGED <<must, crashed>>

Evaluated(c) ==
    LET me == call[c]
        a  == Args(c)[me.i]
        k  == NextItem(me.list, me.n, Exclude(me.pc))
        f  == Known(must[me.op].args[me.i], a.tc)
    IN  /\ a.mode # Exclude(me.pc)
        /\ IF k > Len(me.list) \/ Breaks(f, me.list[k].value)
           THEN crashed' = TRUE /\ UNCHANGED <<must, call>>
           ELSE /\ must' = [must EXCEPT ![me.op].args[me.i] = f]
                /\ call' = [call EXCEPT ![c].i = @ + 1, ![c].n = k + 1,
                                        ![c].list[k].value = Treated(f, @)]
                /\ UNCHANGED crashed

proxify_params(c) ==
    /\ ~crashed
    /\ call[c].pc \in {"request", "reply"}
    /\ call[c].i <= Len(Args(c))
    /\ Passed(c) \/ Evaluated(c)

\* The arguments that the reply is to fill in.
OutArgsOnly(list) == SelectSeq(list, LAMBDA nv : nv.flags = "out")
OutArgs(list)     == SelectSeq(list, LAMBDA nv : nv.flags \in {"inout", "out"})

\* The request goes on to the server, and a reply handler keeps the rest if the client waits.
Forward(c) ==
    /\ ~crashed
    /\ call[c].pc = "request" /\ call[c].i > Len(Args(c))
    /\ call' = [call EXCEPT ![c].pc = IF call[c].waits THEN "server" ELSE "done",
                            ![c].passed = call[c].list,
                            ![c].list = OutArgs(call[c].list)]
    /\ UNCHANGED <<must, crashed>>

\* handle_response_i: the result and the list are read from the reply.
Reply(c, r, vs) ==
    /\ ~crashed
    /\ call[c].pc = "server"
    /\ call' = [call EXCEPT ![c].pc = "result", ![c].result = r, ![c].list = OutArgs(NVList(call[c].op, vs)),
                            ![c].answer = r, ![c].filled = vs]
    /\ UNCHANGED <<must, crashed>>

\* The signature of an oneway operation has no type code for the result: has_objref
\* is called with nil.
proxify_result(c) ==
    LET me == call[c]
        f  == Known(must[me.op].result, signature[me.op].result)
    IN  /\ ~crashed
        /\ me.pc = "result"
        /\ IF signature[me.op].oneway \/ Breaks(f, me.result)
           THEN crashed' = TRUE /\ UNCHANGED <<must, call>>
           ELSE /\ must' = [must EXCEPT ![me.op].result = f]
                /\ call' = [call EXCEPT ![c].result = Treated(f, @), ![c].pc = "reply", ![c].i = 1, ![c].n = 1]
                /\ UNCHANGED crashed

\* invoke_reply
Answer(c) ==
    /\ ~crashed
    /\ call[c].pc = "reply" /\ call[c].i > Len(Args(c))
    /\ call' = [call EXCEPT ![c].pc = "done"]
    /\ UNCHANGED <<must, crashed>>

\* handle_excep_i and evaluate_exception: an exception that the signature does
\* not name is passed on with nothing in it.
Raise(c, e, v) ==
    /\ ~crashed
    /\ call[c].pc = "server"
    /\ call' = [call EXCEPT ![c].pc = "exception", ![c].i = e, ![c].list = <<>>, ![c].result = v, ![c].answer = v]
    /\ UNCHANGED <<must, crashed>>

RaiseUnknown(c, v) ==
    /\ ~crashed
    /\ call[c].pc = "server"
    /\ call' = [call EXCEPT ![c].pc = "done", ![c].list = <<>>, ![c].answer = v]
    /\ UNCHANGED <<must, crashed>>

proxify_exception(c) ==
    LET me == call[c]
        f  == Known(must[me.op].exceps[me.i], signature[me.op].exceps[me.i])
    IN  /\ ~crashed
        /\ me.pc = "exception"
        /\ IF Breaks(f, me.result) THEN crashed' = TRUE /\ UNCHANGED <<must, call>>
           ELSE /\ must' = [must EXCEPT ![me.op].exceps[me.i] = f]
                /\ call' = [call EXCEPT ![c].result = Treated(f, @), ![c].pc = "done"]
                /\ UNCHANGED crashed

Exceptions(o) == {signature[o].exceps[e] : e \in DOMAIN signature[o].exceps}
Unnamed(o)    == UNION {Exceptions(p) : p \in Ops} \ Exceptions(o)

Serve(c, o) ==
    \/ \E r \in values[signature[o].result], vs \in Returned[o] : Reply(c, r, vs)
    \/ \E e \in DOMAIN signature[o].exceps : \E v \in values[signature[o].exceps[e]] : Raise(c, e, v)
    \/ \E t \in Unnamed(o) : \E v \in values[t] : RaiseUnknown(c, v)

Next ==
    \E c \in Calls :
        \/ \E o \in Ops, waits \in BOOLEAN : \E vs \in Asked[o] : Receive(c, o, waits, vs)
        \/ proxify_params(c) \/ Forward(c) \/ proxify_result(c) \/ Answer(c) \/ proxify_exception(c)
        \/ call[c].pc = "server" /\ Serve(c, call[c].op)

Spec == Init /\ [][Next]_vars

-----------------------------------------------------------------------------
(***************************************************************************)
(* Properties.                                                             *)
(***************************************************************************)
\* Flags, positions and lists are what the code declares them to be, and n_arg
\* does not overtake the argument that it belongs to.
TypeOK ==
    /\ \A o \in Ops : /\ must[o].result \in Flag
                      /\ \A i \in DOMAIN signature[o].args : must[o].args[i] \in Flag
                      /\ \A e \in DOMAIN signature[o].exceps : must[o].exceps[e] \in Flag
    /\ \A c \in Calls :
         LET me == call[c]
         IN  /\ me.pc \in {"idle", "request", "server", "result", "reply", "exception", "done"}
             /\ me.pc # "idle" => me.op \in Ops
             /\ me.pc \in {"request", "reply"} => me.i <= Len(Args(c)) + 1 /\ me.n <= me.i
             /\ \A k \in DOMAIN me.list : me.list[k].flags \in Modes

\* Every reference in a value, mapped: what the walk by type codes is to amount to.
RECURSIVE Translated(_)
Translated(v) == [v EXCEPT !.ref = MappedRef(@), !.sub = [i \in DOMAIN @ |-> Translated(@[i])]]

\* What a type may hold, read off the relation between types and their parts.
HoldsRef(t) == \E u \in {t} \cup Within[t] : kind[u] \in {"objref", "any"}

\* The server gets the arguments that the client gave, each in its place and with
\* every reference in it mapped once, whatever calls have learnt of the signature
\* and at whatever point of their own walk they are.
ServerSees ==
    \A c \in Calls : call[c].pc \notin {"idle", "request"} =>
        \A k \in DOMAIN Args(c) :
            /\ call[c].passed[k].flags = Args(c)[k].mode
            /\ Args(c)[k].mode # "out" => call[c].passed[k].value = Translated(call[c].asked[k])

\* A client that waits gets the server's result or exception and all inout and out
\* arguments in their order, with every reference in them mapped once; of an exception
\* that the signature does not name it gets nothing.
ClientSees ==
    \A c \in Calls : call[c].pc = "done" =>
        LET me     == call[c]
            mapped == [i \in DOMAIN me.filled |-> [flags |-> Args(c)[i].mode, value |-> Translated(me.filled[i])]]
        IN  /\ me.result = IF me.answer.tc \in Unnamed(me.op) THEN Void ELSE Translated(me.answer)
            /\ me.waits => me.list = SelectSeq(mapped, LAMBDA nv : nv.flags # "in")

\* What must_proxy_ remembers of a type is true of it: has_objref finds a
\* reference at any depth, through aliases, members, contents and branches.
FlagsTell ==
    \A o \in Ops :
        LET Right(f, t) == f # "unknown" => (f = "yes") = HoldsRef(t)
        IN  /\ Right(must[o].result, signature[o].result)
            /\ \A i \in DOMAIN signature[o].args : Right(must[o].args[i], signature[o].args[i].tc)
            /\ \A e \in DOMAIN signature[o].exceps : Right(must[o].exceps[e], signature[o].exceps[e])

RECURSIVE HasRefArray(_)
HasRefArray(v) ==
    \/ kind[Stripped(v.tc)] = "array" /\ HoldsRef(v.tc)
    \/ \E i \in DOMAIN v.sub : HasRefArray(v.sub[i])

\* The evaluator fails on two things only: an array of what may hold a reference,
\* which proxify takes for a sequence, and the reply to an oneway operation for which the
\* client waits all the same; the list never ends before the signature.
OnlyArraysAndOnewaysFail ==
    crashed => \E c \in Calls :
        \/ HasRefArray(call[c].result)
        \/ \E k \in DOMAIN call[c].list : HasRefArray(call[c].list[k].value)
        \/ call[c].pc = "result" /\ signature[call[c].op].oneway
=============================================================================
