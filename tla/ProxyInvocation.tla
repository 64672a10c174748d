-------------------------- MODULE ProxyInvocation --------------------------
(***************************************************************************)
(* The way of a request through the proxy: the servant dispatches it       *)
(* (OCI/ProxyServant.cpp, lorica/ProxyServant.cpp), the generic evaluator  *)
(* looks up its signature and maps the references in its arguments         *)
(* (lorica/GenericEvaluator.cpp), it is forwarded to the native object,    *)
(* and the reply, exception or forward that comes back is handled by a     *)
(* reply handler on whichever thread receives it                           *)
(* (lorica/ProxyReplyHandler.cpp).                                         *)
(*                                                                         *)
(* A request comes in on one of the two POAs: the in-facing one serves the *)
(* clients inside, whose targets are outside, and the other way around.    *)
(***************************************************************************)
EXTENDS OperationTable

CONSTANTS
    Requests,  \* what the requests are: each is dispatched once
    Oneways    \* the pairs <<interface, operation>> that IDL declares oneway: a client may
               \* wait for the outcome of these all the same

\* The operations that invoke keeps from invoke_i and does nothing for.
Meta == {"_get_interface", "_primary_interface"}

ASSUME RequestAssumption ==
    /\ Calls = DOMAIN Requests
    /\ \A r \in Calls :
         /\ Requests[r].mode \in {"twoway", "sync", "oneway"}
         /\ Requests[r].poa \in {"in", "out"}
         /\ Requests[r].op \in Names \cup Meta
         /\ Requests[r].type \in Interfaces

VARIABLES
    stage,     \* where each request is
    back,      \* what came back from its target
    work,      \* what each ORB thread does: the request it serves and its step
    answers,   \* how often the request has been answered
    handed,    \* for each request the references that were handed on: to whom, facing where
    crashed    \* what null pointer has been dereferenced, if any

invocationVars == <<stage, back, work, answers, handed, crashed>>
vars == <<tableVars, invocationVars>>

Sides == {"in", "out"}
Kinds == {"result", "user", "system", "nonstandard", "forward", "unread", "unknown"}
Nulls == {"signature", "result", "exception"}
Idle  == [req |-> Null, pc |-> "idle", def |-> Null]

TypeOK ==
    /\ ones \in Ones
    /\ \A n \in DOMAIN nodes :
         /\ nodes[n].name \in Names
         /\ {nodes[n].left, nodes[n].right} \subseteq DOMAIN nodes \cup {Null}
    /\ stage \in [Calls -> {"new", "served", "sent", "back", "done"}]
    /\ back \in [Calls -> Kinds \cup {Null}]
    /\ answers \in [Calls -> 0 .. 2]
    /\ handed \in [Calls -> SUBSET [what : Kinds \cup {"request"}, to : Sides, faces : Sides]]
    /\ crashed \in Nulls \cup {"no"}
    /\ \A t \in Threads :
         /\ work[t].req \in Calls \cup {Null}
         /\ work[t].pc \in {"idle", "native", "find", "add", "ready"}
         /\ work[t].pc = "ready" => work[t].def \in Interfaces \cup {Object}
         /\ (work[t].pc = "add") = (job[t] # Null)

Init ==
    /\ TableInit
    /\ stage = [r \in Calls |-> "new"]
    /\ back = [r \in Calls |-> Null]
    /\ work = [t \in Threads |-> Idle]
    /\ answers = [r \in Calls |-> 0]
    /\ handed = [r \in Calls |-> {}]
    /\ crashed = "no"

-----------------------------------------------------------------------------
(***************************************************************************)
(* A definition that stands before the one it resembles is a faulty        *)
(* variant that no action uses: it shows which fault a property notices.   *)
(***************************************************************************)
Req(t) == Requests[work[t].req]

\* Where a thread is, as long as nobody has brought the process down.
At(t, pc) == crashed = "no" /\ work[t].pc = pc

\* ProxyMapper::other_POA
other_POA(poa) == IF poa = "in" THEN "out" ELSE "in"

\* mapped_for_native: the reference it makes faces outward for the in-facing POA.
Facing(poa) == IF poa = "in" THEN "out" ELSE "in"

\* The POA that each kind of message has its references mapped for.
ReplyPOASame(poa) == poa
ReplyPOA(poa)     == other_POA(poa)

\* The references in a message are mapped, if there are any and a mapper has them.
Hand(r, what, to, poa) ==
    handed' \in {handed, [handed EXCEPT ![r] = @ \cup {[what |-> what, to |-> to, faces |-> Facing(poa)]}]}

Answer(r, n) == answers' = [answers EXCEPT ![r] = @ + n]

\* What _dispatch's catch clause answers: only a client that waits.
AnswersAll(mode)   == mode # "oneway"
AnswersError(mode) == mode = "twoway"

\* The thread goes on with a request, or has done with it.
Go(t, r, pc, def) == work' = [work EXCEPT ![t] = [req |-> r, pc |-> pc, def |-> def]]
Leave(t) == work' = [work EXCEPT ![t] = Idle]

-----------------------------------------------------------------------------
(***************************************************************************)
(* The request.                                                            *)
(***************************************************************************)

\* _dispatch: a client that only waits for the server is answered at once.
Dispatch(t, r) ==
    /\ At(t, "idle")
    /\ stage[r] = "new"
    /\ Requests[r].op \notin Meta
    /\ stage' = [stage EXCEPT ![r] = "served"]
    /\ Go(t, r, "native", Null)
    /\ Answer(r, IF Requests[r].mode = "sync" THEN 1 ELSE 0)
    /\ UNCHANGED <<tableVars, back, handed, crashed>>

DispatchMeta(t, r) ==
    /\ At(t, "idle")
    /\ stage[r] = "new"
    /\ Requests[r].op \in Meta
    /\ stage' = [stage EXCEPT ![r] = "done"]
    /\ Answer(r, IF Requests[r].mode = "sync" THEN 1 ELSE 0)
    /\ UNCHANGED <<tableVars, back, work, handed, crashed>>

\* A client that waits is told at once when the request is to go elsewhere.
DispatchForwarded(t, r) ==
    /\ At(t, "idle")
    /\ stage[r] = "new"
    /\ Requests[r].mode # "oneway"
    /\ stage' = [stage EXCEPT ![r] = "done"]
    /\ Answer(r, 1)
    /\ UNCHANGED <<tableVars, back, work, handed, crashed>>

\* invoke_i: the native object is known and its type has an evaluator.
Evaluate(t) ==
    /\ At(t, "native")
    /\ Go(t, work[t].req, "find", Null)
    /\ UNCHANGED <<tableVars, stage, back, answers, handed, crashed>>

\* NO_IMPLEMENT when it is not; or an exception of the evaluator, of the
\* interface repository, of decoding or of sending.
Throw(t) ==
    /\ \E pc \in {"native", "add", "ready"} : At(t, pc)
    /\ stage' = [stage EXCEPT ![work[t].req] = "done"]
    /\ Answer(work[t].req, IF AnswersError(Req(t).mode) THEN 1 ELSE 0)
    /\ job' = [job EXCEPT ![t] = Null]
    /\ Leave(t)
    /\ UNCHANGED <<ones, nodes, back, handed, crashed>>

\* evaluate_request looks for the signature, and asks the repository if there is none.
FindSignature(t) ==
    /\ At(t, "find")
    /\ LET def == Find(Req(t).op, Req(t).type)
       IN /\ Go(t, work[t].req, IF def = Null THEN "add" ELSE "ready", def)
          /\ job' = [job EXCEPT ![t] = IF def = Null THEN Begun(work[t].req, Req(t).type) ELSE Null]
    /\ UNCHANGED <<ones, nodes, stage, back, answers, handed, crashed>>

Add(t) ==
    /\ At(t, "add")
    /\ AddInterface(t)
    /\ UNCHANGED invocationVars

\* The signature that add_interface returns is used unseen.
Added(t) ==
    /\ At(t, "add") /\ job[t].pc = "added"
    /\ LET def == Desired(job[t].iface, Req(t).op)
       IN /\ crashed' = IF def = Null THEN "signature" ELSE "no"
          /\ IF def = Null THEN Leave(t) ELSE Go(t, work[t].req, "ready", def)
    /\ job' = [job EXCEPT ![t] = Null]
    /\ UNCHANGED <<ones, nodes, stage, back, answers, handed>>

\* The arguments are mapped and the request goes to the target; a reply handler
\* is left behind when the client waits for the outcome.
Forward(t) ==
    /\ At(t, "ready")
    /\ LET r == work[t].req
       IN /\ Hand(r, "request", other_POA(Req(t).poa), Req(t).poa)
          /\ stage' = [stage EXCEPT ![r] = IF Req(t).mode = "twoway" THEN "sent" ELSE "done"]
    /\ Leave(t)
    /\ UNCHANGED <<tableVars, back, answers, crashed>>

-----------------------------------------------------------------------------
(***************************************************************************)
(* What comes back, handled by any thread that is free.                    *)
(***************************************************************************)
TargetReplies(r) ==
    /\ stage[r] = "sent"
    /\ stage' = [stage EXCEPT ![r] = "back"]
    /\ \E k \in Kinds : back' = [back EXCEPT ![r] = k]
    /\ UNCHANGED <<tableVars, work, answers, handed, crashed>>

Handling(t, r, kind) ==
    /\ At(t, "idle")
    /\ stage[r] = "back" /\ back[r] = kind
    /\ stage' = [stage EXCEPT ![r] = "done"]
    /\ UNCHANGED <<tableVars, back, work>>

\* The signature the evaluator uses for what came back, without looking.
Signature(r) == Find(Requests[r].op, Requests[r].type)

\* evaluate_reply uses it as if it were there and had a type code of the result, which
\* that of an oneway operation has not.
ReplyFails(r) ==
    CASE Signature(r) = Null                            -> "signature"
      [] <<Signature(r), Requests[r].op>> \in Oneways   -> "result"
      [] OTHER                                          -> "no"

\* Null pointers in what handles an answer bring the process down.
Dereferenced(fails, Then) ==
    /\ crashed' = fails
    /\ IF fails # "no" THEN UNCHANGED <<answers, handed>> ELSE Then

\* handle_response_i
HandleResponse(t, r) ==
    /\ Handling(t, r, "result")
    /\ Dereferenced(ReplyFails(r), /\ Hand(r, "result", Requests[r].poa, ReplyPOA(Requests[r].poa))
                                   /\ Answer(r, 1))

\* When decoding or evaluating the reply throws, the handler answers with the exception
\* and goes on to answer with the reply.
HandleResponseThrows(t, r) ==
    /\ Handling(t, r, "result")
    /\ ReplyFails(r) # "result"
    /\ Answer(r, 2)
    /\ UNCHANGED <<handed, crashed>>

\* handle_excep_i with a user exception, known to the signature or not.
HandleUser(t, r) ==
    /\ Handling(t, r, "user")
    /\ Dereferenced(IF Signature(r) = Null THEN "signature" ELSE "no",
                    Hand(r, "user", Requests[r].poa, Requests[r].poa) /\ Answer(r, 1))

\* What evaluating an exception or mapping a forward throws goes to the ORB.
HandleThrows(t, r) ==
    /\ \E kind \in {"user", "forward"} : Handling(t, r, kind)
    /\ UNCHANGED <<answers, handed, crashed>>

\* (One that is only logged.)
HandleSystemSilent(t, r) ==
    /\ \E kind \in {"system", "unread"} : Handling(t, r, kind)
    /\ UNCHANGED <<answers, handed, crashed>>

\* A system exception is passed on, and MARSHAL stands for what cannot be read.
HandleSystem(t, r) ==
    /\ \E kind \in {"system", "unread"} : Handling(t, r, kind)
    /\ Answer(r, 1)
    /\ UNCHANGED <<handed, crashed>>

\* One that is not among CORBA's own: create_system_exception returns null, which is used.
HandleNonstandard(t, r) ==
    /\ Handling(t, r, "nonstandard")
    /\ crashed' = "exception"
    /\ UNCHANGED <<answers, handed>>

\* handle_location_forward_i; MARSHAL when the reference cannot be mapped.
HandleForward(t, r) ==
    /\ Handling(t, r, "forward")
    /\ Hand(r, "forward", Requests[r].poa, ReplyPOA(Requests[r].poa))
    /\ Answer(r, 1)
    /\ UNCHANGED crashed

\* Any other reply status is ignored.
HandleUnknown(t, r) ==
    /\ Handling(t, r, "unknown")
    /\ UNCHANGED <<answers, handed, crashed>>

-----------------------------------------------------------------------------
Serve(t) == Evaluate(t) \/ Throw(t) \/ FindSignature(t) \/ Add(t) \/ Added(t) \/ Forward(t)

Handle(t, r) ==
    \/ HandleResponse(t, r) \/ HandleResponseThrows(t, r) \/ HandleUser(t, r) \/ HandleThrows(t, r)
    \/ HandleSystem(t, r) \/ HandleNonstandard(t, r) \/ HandleForward(t, r) \/ HandleUnknown(t, r)

Next ==
    \/ \E t \in Threads, r \in Calls : Dispatch(t, r) \/ DispatchMeta(t, r) \/ DispatchForwarded(t, r)
    \/ \E t \in Threads : Serve(t)
    \/ \E t \in Threads, r \in Calls : Handle(t, r)
    \/ \E r \in Calls : TargetReplies(r)

Spec == Init /\ [][Next]_vars

\* A thread goes on with what it has begun, and what has come back is handled.
FairSpec ==
    /\ Spec
    /\ \A t \in Threads : WF_vars(Serve(t))
    /\ \A r \in Calls : WF_vars(\E t \in Threads : Handle(t, r))

-----------------------------------------------------------------------------
(***************************************************************************)
(* Properties.                                                             *)
(***************************************************************************)

Implicit == {"_is_a", "_non_existent"}

\* The interface that defines the operation for the type: the type itself or a
\* base of it.
Defined(op, type) ==
    IF op \in Implicit THEN Object
    ELSE CHOOSE i \in ToSet(Visited(type)) : op \in ToSet(Own[i])

\* What IDL demands of a repository: the names of the implicit operations are
\* reserved, and among what an interface inherits no name is defined twice.
ImplicitReserved == \A i \in Interfaces : Implicit \cap ToSet(Own[i]) = {}

Unambiguous ==
    \A i \in Interfaces : \A a, b \in ToSet(Visited(i)) :
        \A x \in ToSet(Visited(a)), y \in ToSet(Visited(b)) :
            ToSet(Own[x]) \cap ToSet(Own[y]) # {} => x = y

\* The operation asked for is the type's own, or inherited over one level.
Reached(r) ==
    \/ Requests[r].op \in Implicit \cup Meta
    \/ \E i \in ToSet(Visited(Requests[r].type)) : Requests[r].op \in ToSet(Own[i])

WithinReach == \A r \in Calls : Reached(r)

\* Whatever order requests, replies and additions to the table come in, and
\* whatever positive numbers strcmp returns, the signature by which a request,
\* a reply or an exception is taken apart is the one that the repository has
\* for that operation and type.
SignatureRight ==
    /\ \A t \in Threads : work[t].pc = "ready" => work[t].def = Defined(Req(t).op, Req(t).type)
    /\ \A r \in Calls : stage[r] \in {"sent", "back"} =>
         Signature(r) \in {Defined(Requests[r].op, Requests[r].type), Null}

\* evaluate_reply and evaluate_exception do not ask whether find has found
\* anything: the signature a request was forwarded with is still in the table
\* when the answer comes, however late.  A missing signature is only used by
\* evaluate_request, for an operation that add_interface does not get to.
SignatureKept ==
    /\ crashed = "signature" => \E r \in Calls : stage[r] = "served" /\ ~Reached(r)
    /\ \A r \in Calls : stage[r] \in {"sent", "back"} => Signature(r) # Null

\* A client that does not wait is never answered, one that waits for the server
\* once, and one that waits for the outcome not before there is one and once,
\* except that a reply which cannot be evaluated is answered twice.
AnswersFit ==
    \A r \in Calls :
        LET mode == Requests[r].mode IN
        /\ mode = "oneway" => answers[r] = 0
        /\ mode = "sync" => answers[r] = IF stage[r] = "new" THEN 0 ELSE 1
        /\ mode = "twoway" /\ stage[r] # "done" => answers[r] = 0
        /\ answers[r] = 2 => back[r] = "result"

\* References handed to the target, and those in results and forwards handed to
\* the client, face the side on which the receiver is.
FacesReceiver ==
    \A r \in Calls : \A h \in handed[r] : h.what # "user" => h.faces = h.to

\* A client that waits is answered, or its request is with the target; and an
\* answer of the target that can be read reaches the client: unless the process crashes,
\* by a system exception that is not one of CORBA's own, by the reply to an oneway
\* operation or, see SignatureKept, by a request for an operation beyond reach.
AnsweredAtLast ==
    \A r \in {q \in Calls : Requests[q].mode = "twoway"} :
        \/ stage[r] = "served"
        \/ stage[r] = "back" /\ back[r] \in {"result", "system", "unread"}
        ~> stage[r] = "sent" \/ answers[r] > 0 \/ crashed # "no"

\* ChangeLog: "References contained within replies or exceptions are mapped to the
\* POA that received the invocation", that is, both in the same way.
ExceptionsLikeReplies ==
    \A r \in Calls : \A h \in handed[r] : h.faces = h.to
=============================================================================
