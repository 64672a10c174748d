----------------------- MODULE ProxyInvocation_proofs -----------------------
(***************************************************************************)
(* Proofs, for any number of threads and requests and for any repository,  *)
(* with the overlaps of a thread pool on the table of operations and up to *)
(* a crash: that every client gets the number of answers its request calls *)
(* for, that references face their receiver, and that signatures are the   *)
(* right ones; and, for a single thread, that they stay in the table.      *)
(*                                                                         *)
(* AnswersFit is not inductive: it has to be known that a thread which may *)
(* still answer has a request that was not answered yet, that no other     *)
(* thread has the same request, and that only two-way requests come back.  *)
(* What SignatureRight and SignatureKept need is at Signed and Keeping.    *)
(***************************************************************************)
EXTENDS ProxyInvocation, SequenceLemmas

Stages == {"new", "served", "sent", "back", "done"}

Typed ==
    /\ stage \in [Calls -> Stages]
    /\ back \in [Calls -> Kinds \cup {Null}]
    /\ answers \in [Calls -> Nat]
    /\ work = [t \in Threads |-> work[t]]

\* A thread that is not idle serves a request that is in its hands alone.
InHand ==
    /\ \A t \in Threads : work[t].pc # "idle" => work[t].req \in Calls /\ stage[work[t].req] = "served"
    /\ \A t, u \in Threads :
         work[t].pc # "idle" /\ work[u].pc # "idle" /\ work[t].req = work[u].req => t = u

\* Only a request whose client waits for the outcome comes back.
TwowaysReturn == \A r \in Calls : stage[r] \in {"sent", "back"} => Requests[r].mode = "twoway"

IInv == Typed /\ InHand /\ TwowaysReturn /\ AnswersFit

LEMMA Initially == Init => IInv
<1> SUFFICES ASSUME Init PROVE IInv
  OBVIOUS
<1>1. Typed
  BY DEF Init, Typed, Stages, Idle
<1>2. InHand
  BY DEF Init, InHand, Idle
<1>3. TwowaysReturn
  BY DEF Init, TwowaysReturn
<1>4. AnswersFit
  BY RequestAssumption DEF Init, AnswersFit
<1> QED
  BY <1>1, <1>2, <1>3, <1>4 DEF IInv

LEMMA Steps == IInv /\ [Next]_vars => IInv'
<1> SUFFICES ASSUME IInv, [Next]_vars PROVE IInv'
  OBVIOUS
<1> USE RequestAssumption DEF IInv, Typed, InHand, TwowaysReturn, AnswersFit, Stages, Kinds, Idle,
        invocationVars, tableVars, At, Answer, Go, Leave, Req, Hand
<1>1. ASSUME NEW t \in Threads, NEW r \in Calls, Dispatch(t, r) PROVE IInv'
  <2>1. Typed'
    BY <1>1 DEF Dispatch
  <2>2. InHand'
    BY <1>1 DEF Dispatch
  <2>3. TwowaysReturn'
    BY <1>1 DEF Dispatch
  <2>4. AnswersFit'
    BY <1>1 DEF Dispatch
  <2> QED
    BY <2>1, <2>2, <2>3, <2>4
<1>2. ASSUME NEW t \in Threads, NEW r \in Calls, DispatchMeta(t, r) PROVE IInv'
  BY <1>2 DEF DispatchMeta
<1>3. ASSUME NEW t \in Threads, NEW r \in Calls, DispatchForwarded(t, r) PROVE IInv'
  BY <1>3 DEF DispatchForwarded
<1>4. ASSUME NEW t \in Threads, Evaluate(t) PROVE IInv'
  BY <1>4 DEF Evaluate
<1>5. ASSUME NEW t \in Threads, Throw(t) PROVE IInv'
  <2> DEFINE q == work[t].req
  <2>1. work[t].pc # "idle" /\ q \in Calls /\ stage[q] = "served"
    BY <1>5 DEF Throw
  <2>2. /\ stage' = [stage EXCEPT ![q] = "done"]
        /\ work' = [work EXCEPT ![t] = Idle]
        /\ answers' = [answers EXCEPT ![q] = @ + (IF AnswersError(Requests[q].mode) THEN 1 ELSE 0)]
        /\ UNCHANGED back
    BY <1>5 DEF Throw
  <2> HIDE DEF q
  <2>3. Typed'
    BY <2>1, <2>2
  <2>4. InHand'
    BY <2>1, <2>2 DEF q
  <2>5. TwowaysReturn'
    BY <2>1, <2>2
  <2>6. AnswersFit'
    BY <2>1, <2>2 DEF AnswersError
  <2> QED
    BY <2>3, <2>4, <2>5, <2>6
<1>6. ASSUME NEW t \in Threads, FindSignature(t) PROVE IInv'
  <2>1. Typed'
    BY <1>6 DEF FindSignature
  <2>2. InHand'
    BY <1>6 DEF FindSignature
  <2>3. TwowaysReturn'
    BY <1>6 DEF FindSignature
  <2>4. AnswersFit'
    BY <1>6 DEF FindSignature
  <2> QED
    BY <2>1, <2>2, <2>3, <2>4
<1>7. ASSUME NEW t \in Threads, Add(t) PROVE IInv'
  BY <1>7 DEF Add
<1>8. ASSUME NEW t \in Threads, Added(t) PROVE IInv'
  <2> DEFINE def == Desired(job[t].iface, Req(t).op)
  <2>1. work[t].pc = "add" /\ UNCHANGED <<stage, back, answers>>
    BY <1>8 DEF Added
  <2>2. CASE def = Null
    <3>1. Leave(t)
      BY <1>8, <2>2 DEF Added
    <3> QED
      BY <2>1, <3>1
  <2>3. CASE def # Null
    <3>1. Go(t, work[t].req, "ready", def)
      BY <1>8, <2>3 DEF Added
    <3> HIDE DEF def
    <3> QED
      BY <2>1, <3>1
  <2> QED
    BY <2>2, <2>3
<1>9. ASSUME NEW t \in Threads, Forward(t) PROVE IInv'
  BY <1>9 DEF Forward
<1>10. ASSUME NEW r \in Calls, TargetReplies(r) PROVE IInv'
  BY <1>10 DEF TargetReplies
<1>11. ASSUME NEW t \in Threads, NEW r \in Calls, Handle(t, r) PROVE IInv'
  <2> USE DEF Handling
  <2>1. CASE HandleResponse(t, r)
    BY <2>1 DEF HandleResponse, Dereferenced
  <2>2. CASE HandleResponseThrows(t, r)
    BY <2>2 DEF HandleResponseThrows
  <2>3. CASE HandleUser(t, r)
    BY <2>3 DEF HandleUser, Dereferenced
  <2>4. CASE HandleThrows(t, r)
    BY <2>4 DEF HandleThrows
  <2>5. CASE HandleSystem(t, r)
    BY <2>5 DEF HandleSystem
  <2>8. CASE HandleNonstandard(t, r)
    BY <2>8 DEF HandleNonstandard
  <2>6. CASE HandleForward(t, r)
    BY <2>6 DEF HandleForward
  <2>7. CASE HandleUnknown(t, r)
    BY <2>7 DEF HandleUnknown
  <2> QED
    BY <1>11, <2>1, <2>2, <2>3, <2>4, <2>5, <2>6, <2>7, <2>8 DEF Handle
<1>12. CASE UNCHANGED vars
  BY <1>12 DEF vars
<1> QED
  BY <1>1, <1>2, <1>3, <1>4, <1>5, <1>6, <1>7, <1>8, <1>9, <1>10, <1>11, <1>12 DEF Next, Serve

\* However many threads serve them, and whatever is thrown on the way, clients
\* that do not wait are never answered, and clients that wait are answered once
\* and not before their time, except when a reply cannot be evaluated.
THEOREM ClientsAnswered == Spec => []AnswersFit
<1>1. IInv => AnswersFit
  BY DEF IInv
<1> QED
  BY <1>1, Initially, Steps, PTL DEF Spec

-----------------------------------------------------------------------------
(***************************************************************************)
(* Which way the references face that are handed on.                       *)
(***************************************************************************)

\* What has been handed on so far is for requests there are, and faces its receiver.
Faced == handed \in [Calls -> SUBSET [what : Kinds \cup {"request"}, to : Sides, faces : Sides]]
         /\ FacesReceiver

\* A message whose references are mapped for the POA of the side it comes from.
LEMMA HandFaces ==
    ASSUME Faced, NEW r \in Calls, NEW what \in Kinds \cup {"request"}, NEW poa \in Sides,
           NEW to \in Sides, what # "user" => to = other_POA(poa), Hand(r, what, to, poa)
    PROVE  Faced'
<1> DEFINE h == [what |-> what, to |-> to, faces |-> Facing(poa)]
<1>1. h \in [what : Kinds \cup {"request"}, to : Sides, faces : Sides]
  BY DEF Facing, Sides
<1>2. h.what # "user" => h.faces = h.to
  BY DEF Facing, other_POA, Sides
<1>3. handed' \in {handed, [handed EXCEPT ![r] = @ \cup {h}]}
  BY DEF Hand
<1> HIDE DEF h
<1> QED
  BY <1>1, <1>2, <1>3 DEF Faced, FacesReceiver

LEMMA FacedStep == IInv /\ Faced /\ [Next]_vars => Faced'
<1> SUFFICES ASSUME IInv, Faced, [Next]_vars PROVE Faced'
  OBVIOUS
<1>p. \A r \in Calls : /\ Requests[r].poa \in Sides /\ other_POA(Requests[r].poa) \in Sides
                       /\ other_POA(other_POA(Requests[r].poa)) = Requests[r].poa
  BY RequestAssumption DEF Sides, other_POA
<1>1. CASE UNCHANGED handed
  BY <1>1 DEF Faced, FacesReceiver
<1>2. ASSUME NEW t \in Threads, Forward(t) PROVE Faced'
  <2>1. work[t].req \in Calls
    BY <1>2 DEF Forward, At, IInv, InHand
  <2>2. Hand(work[t].req, "request", other_POA(Requests[work[t].req].poa), Requests[work[t].req].poa)
    BY <1>2 DEF Forward, Req
  <2> QED
    BY <1>p, <2>1, <2>2, HandFaces
<1>3. ASSUME NEW t \in Threads, NEW r \in Calls, HandleResponse(t, r) PROVE Faced'
  <2>1. UNCHANGED handed \/ Hand(r, "result", Requests[r].poa, other_POA(Requests[r].poa))
    BY <1>3 DEF HandleResponse, Dereferenced, ReplyPOA
  <2> QED
    BY <1>1, <1>p, <2>1, HandFaces DEF Kinds
<1>4. ASSUME NEW t \in Threads, NEW r \in Calls, HandleForward(t, r) PROVE Faced'
  <2>1. Hand(r, "forward", Requests[r].poa, other_POA(Requests[r].poa))
    BY <1>4 DEF HandleForward, ReplyPOA
  <2> QED
    BY <1>p, <2>1, HandFaces DEF Kinds
<1>5. ASSUME NEW t \in Threads, NEW r \in Calls, HandleUser(t, r) PROVE Faced'
  <2>1. UNCHANGED handed \/ Hand(r, "user", Requests[r].poa, Requests[r].poa)
    BY <1>5 DEF HandleUser, Dereferenced
  <2> QED
    BY <1>1, <1>p, <2>1, HandFaces DEF Kinds
<1>6. ASSUME NEW t \in Threads, NEW r \in Calls,
             \/ Dispatch(t, r) \/ DispatchMeta(t, r) \/ DispatchForwarded(t, r)
             \/ HandleResponseThrows(t, r) \/ HandleThrows(t, r) \/ HandleSystem(t, r)
             \/ HandleNonstandard(t, r) \/ HandleUnknown(t, r)
      PROVE  UNCHANGED handed
  BY <1>6 DEF Dispatch, DispatchMeta, DispatchForwarded, HandleResponseThrows,
              HandleThrows, HandleSystem, HandleNonstandard, HandleUnknown
<1>7. ASSUME NEW t \in Threads, Serve(t), ~Forward(t) PROVE UNCHANGED handed
  BY <1>7 DEF Serve, Evaluate, Throw, FindSignature, Add, Added, invocationVars
<1>8. ASSUME NEW r \in Calls, TargetReplies(r) PROVE UNCHANGED handed
  BY <1>8 DEF TargetReplies
<1> QED
  BY <1>1, <1>2, <1>3, <1>4, <1>5, <1>6, <1>7, <1>8 DEF Next, Handle, vars, invocationVars

\* However many threads serve them, requests, results and forwards only carry
\* references that face the side they are handed to.
THEOREM ReferencesFace == Spec => []FacesReceiver
<1>1. Init => Faced
  BY DEF Init, Faced, FacesReceiver
<1>2. Faced => FacesReceiver
  BY DEF Faced
<1> QED
  BY <1>1, <1>2, Initially, Steps, FacedStep, PTL DEF Spec

-----------------------------------------------------------------------------
(***************************************************************************)
(* The tree of operations, for any tree.  h ranks the nodes: what a node   *)
(* links to has a lower rank, so that every search comes to an end.        *)
(***************************************************************************)
Kids       == {"left", "right"}
Operations == [name : Names, left : Ids \cup {Null}, right : Ids \cup {Null}, set : Seq(Entries)]

Nodes(N) ==
    /\ N = [n \in DOMAIN N |-> N[n]] /\ head \in DOMAIN N /\ DOMAIN N \subseteq Ids
    /\ \A n \in DOMAIN N : N[n] \in Operations /\ \A l \in Kids : N[n][l] \in DOMAIN N \cup {Null}

Ranks(N, h) == \A n \in DOMAIN N : \A l \in Kids : N[n][l] # Null => h[N[n][l]] < h[n]

Tree(N) == Nodes(N) /\ \E b \in Nat : \E h \in [DOMAIN N -> 0 .. b] : Ranks(N, h)

\* Search as an operator of the tree, taken apart.
Way(name, m, right) == IF <<name, m>> \in right THEN "right" ELSE "left"

Turn(N, name, right, f, n) ==
    LET next == Way(name, N[n].name, right)
    IN CASE N[n].name = name -> [at |-> n, link |-> "found"]
         [] N[n].name # name /\ N[n][next] = Null -> [at |-> n, link |-> next]
         [] OTHER -> f[N[n][next]]

Searches(f, N, name, right) == f = [n \in DOMAIN N |-> Turn(N, name, right, f, n)]
Searched(N, name, right)    == CHOOSE f : Searches(f, N, name, right)
Route(N, name, right)       == Searched(N, name, right)[head]

\* Where a search may end.
Ends(N, name, right) ==
    {s \in [at : DOMAIN N, link : {"found"} \cup Kids] :
        /\ s.link = "found" => N[s.at].name = name
        /\ s.link # "found" => /\ N[s.at].name # name /\ N[s.at][s.link] = Null
                               /\ s.link = Way(name, N[s.at].name, right)}

\* It is the search of the table.
LEMMA SearchIs == \A name, right : Search(name, right) = Route(nodes, name, right)
BY DEF Search, Route, Searched, Searches, Turn, Way

\* The three turns of a search.
LEMMA Turns ==
    ASSUME NEW N, Nodes(N), NEW name, NEW right, NEW f, NEW n \in DOMAIN N,
           NEW l, l = Way(name, N[n].name, right)
    PROVE  /\ l \in Kids
           /\ N[n].name = name => Turn(N, name, right, f, n) = [at |-> n, link |-> "found"]
           /\ N[n].name # name /\ N[n][l] = Null => Turn(N, name, right, f, n) = [at |-> n, link |-> l]
           /\ N[n].name # name /\ N[n][l] # Null => /\ Turn(N, name, right, f, n) = f[N[n][l]]
                                                   /\ N[n][l] \in DOMAIN N
<1>1. l \in Kids
  BY DEF Way, Kids
<1>2. N[n][l] \in DOMAIN N \cup {Null}
  BY <1>1 DEF Nodes
<1>3. N[n].name = name => Turn(N, name, right, f, n) = [at |-> n, link |-> "found"]
  BY DEF Turn
<1>4. N[n].name # name /\ N[n][l] = Null => Turn(N, name, right, f, n) = [at |-> n, link |-> l]
  BY DEF Turn
<1>5. N[n].name # name /\ N[n][l] # Null => Turn(N, name, right, f, n) = f[N[n][l]]
  BY DEF Turn
<1> QED BY <1>1, <1>2, <1>3, <1>4, <1>5

\* A search in a tree comes to an end, where it should.
LEMMA SearchEnds ==
    ASSUME NEW N, Tree(N), NEW name, NEW right
    PROVE  /\ Searches(Searched(N, name, right), N, name, right)
           /\ \A n \in DOMAIN N : Searched(N, name, right)[n] \in Ends(N, name, right)
           /\ Route(N, name, right) \in Ends(N, name, right)
<1> DEFINE D == DOMAIN N
           R == Ends(N, name, right)
           F == Searched(N, name, right)
           way(n) == Way(name, N[n].name, right)
           next(n) == N[n][way(n)]
<1>0. Nodes(N)
  BY DEF Tree
<1>1. PICK b \in Nat : \E h \in [D -> 0 .. b] : Ranks(N, h)
  BY DEF Tree
<1>2. PICK h \in [D -> 0 .. b] : Ranks(N, h)
  BY <1>1
<1>3. \A n \in D : h[n] \in Nat /\ h[n] <= b
  BY <1>1, <1>2
<1>4. ASSUME NEW n \in D
      PROVE  /\ way(n) \in Kids
             /\ next(n) # Null => next(n) \in D /\ h[next(n)] < h[n]
             /\ \A f : /\ N[n].name = name => Turn(N, name, right, f, n) = [at |-> n, link |-> "found"]
                       /\ N[n].name # name /\ next(n) = Null =>
                            Turn(N, name, right, f, n) = [at |-> n, link |-> way(n)]
                       /\ N[n].name # name /\ next(n) # Null =>
                            Turn(N, name, right, f, n) = f[next(n)]
  <2>1. way(n) \in Kids
    BY DEF Way, Kids
  <2>2. next(n) # Null => next(n) \in D /\ h[next(n)] < h[n]
    BY <1>0, <1>2, <2>1 DEF Nodes, Ranks
  <2> QED BY <1>0, <2>1, <2>2, Turns
<1> HIDE DEF way, next
<1> DEFINE Up(f, k) == \A n \in D : h[n] < k => f[n] = Turn(N, name, right, f, n)
           A == {k \in Nat : \E f : Up(f, k)}
<1>5. 0 \in A
  <2>1. Up([n \in D |-> n], 0)
    BY <1>3
  <2> QED BY <2>1
<1>6. ASSUME NEW k \in Nat, k \in A PROVE k + 1 \in A
  <2>1. PICK f : Up(f, k)
    BY <1>6
  <2> DEFINE g == [n \in D |-> Turn(N, name, right, f, n)]
  <2>2. ASSUME NEW n \in D, h[n] < k + 1
        PROVE  Turn(N, name, right, g, n) = Turn(N, name, right, f, n)
    <3>1. CASE N[n].name # name /\ next(n) # Null
      <4>1. next(n) \in D /\ h[next(n)] < k
        BY <1>3, <1>4, <2>2, <3>1
      <4>2. g[next(n)] = f[next(n)]
        BY <2>1, <4>1
      <4> HIDE DEF g
      <4> QED BY <1>4, <3>1, <4>2
    <3>2. CASE ~(N[n].name # name /\ next(n) # Null)
      <4> HIDE DEF g
      <4> QED BY <1>4, <3>2
    <3> QED BY <3>1, <3>2
  <2>3. Up(g, k + 1)
    BY <2>2
  <2> HIDE DEF g
  <2> QED BY <2>3
<1>7. PICK f : Up(f, b + 1)
  <2> HIDE DEF A
  <2>1. b + 1 \in A
    BY <1>5, <1>6, Reaches
  <2> QED BY <2>1 DEF A
<1>8. Searches(F, N, name, right)
  <2> DEFINE g == [n \in D |-> f[n]]
  <2>1. \A n \in D : f[n] = Turn(N, name, right, f, n)
    BY <1>3, <1>7
  <2>2. ASSUME NEW n \in D PROVE Turn(N, name, right, g, n) = Turn(N, name, right, f, n)
    <3>1. next(n) # Null => g[next(n)] = f[next(n)]
      BY <1>4
    <3> HIDE DEF g
    <3> QED BY <1>4, <3>1
  <2>3. g = [n \in D |-> Turn(N, name, right, g, n)]
    BY <2>1, <2>2
  <2> HIDE DEF g
  <2>4. Searches(g, N, name, right)
    BY <2>3 DEF Searches
  <2> QED BY <2>4 DEF Searched
<1>9. \A n \in D : F[n] = Turn(N, name, right, F, n)
  BY <1>8 DEF Searches
<1> HIDE DEF F, A, Up
<1> DEFINE B == {k \in Nat : \A n \in D : h[n] < k => F[n] \in R}
<1>10. 0 \in B
  BY <1>3
<1>11. ASSUME NEW k \in Nat, k \in B PROVE k + 1 \in B
  <2> SUFFICES ASSUME NEW n \in D, h[n] < k + 1 PROVE F[n] \in R
    OBVIOUS
  <2>1. CASE N[n].name = name
    <3>1. F[n] = [at |-> n, link |-> "found"]
      BY <1>4, <1>9, <2>1
    <3> QED BY <2>1, <3>1 DEF Ends
  <2>2. CASE N[n].name # name /\ next(n) = Null
    <3>1. F[n] = [at |-> n, link |-> way(n)] /\ way(n) \in Kids /\ way(n) # "found"
      BY <1>4, <1>9, <2>2 DEF Kids
    <3>2. way(n) = Way(name, N[n].name, right) /\ N[n][way(n)] = Null
      BY <2>2 DEF way, next
    <3> QED BY <2>2, <3>1, <3>2 DEF Ends
  <2>3. CASE N[n].name # name /\ next(n) # Null
    <3>1. F[n] = F[next(n)] /\ next(n) \in D /\ h[next(n)] < k
      BY <1>3, <1>4, <1>9, <2>3
    <3> QED BY <1>11, <3>1
  <2> QED BY <2>1, <2>2, <2>3
<1> HIDE DEF B
<1>12. b + 1 \in B
  BY <1>10, <1>11, Reaches
<1>13. \A n \in D : F[n] \in R
  BY <1>3, <1>12 DEF B
<1>14. head \in D
  BY <1>0 DEF Nodes
<1> QED BY <1>8, <1>13, <1>14 DEF F, Route

\* M is N with a new node x in the link l of the node at.
Grows(M, N, x, at, l, nm) ==
    M = [n \in DOMAIN N \cup {x} |-> IF n = x THEN Operation(nm, <<>>) ELSE [N EXCEPT ![at][l] = x][n]]

Grown(M, N, x, at, l, nm) ==
    /\ DOMAIN M = DOMAIN N \cup {x}
    /\ M[x].name = nm /\ M[x].set = <<>> /\ (\A k \in Kids : M[x][k] = Null) /\ M[at][l] = x
    /\ \A n \in DOMAIN N :
         /\ M[n].name = N[n].name /\ M[n].set = N[n].set
         /\ \A k \in Kids : (n # at \/ k # l) => M[n][k] = N[n][k]

\* The others keep their names, chains and links.
LEMMA GrownNodes ==
    ASSUME NEW N, Nodes(N), NEW x \in Ids, x \notin DOMAIN N, NEW at \in DOMAIN N, NEW l \in Kids,
           NEW nm \in Names, NEW M, Grows(M, N, x, at, l, nm)
    PROVE  Nodes(M) /\ Grown(M, N, x, at, l, nm)
<1>0. x # Null
  BY NullAssumption
<1>1. DOMAIN M = DOMAIN N \cup {x} /\ M = [n \in DOMAIN M |-> M[n]]
  BY DEF Grows
<1>2. M[x] = [name |-> nm, left |-> Null, right |-> Null, set |-> <<>>]
  BY DEF Grows, Operation
<1>3. \A n \in DOMAIN N : M[n] = IF n = at THEN [N[at] EXCEPT ![l] = x] ELSE N[n]
  <2>1. \A n \in DOMAIN N : M[n] = [N EXCEPT ![at][l] = x][n]
    BY DEF Grows
  <2> QED BY <2>1 DEF Nodes
<1>4. \A n \in DOMAIN N : N[n] \in Operations
  BY DEF Nodes
<1>5. \A n \in DOMAIN N : M[n].name = N[n].name /\ M[n].set = N[n].set
  BY <1>3, <1>4 DEF Kids, Operations
<1>6. M[at][l] = x /\ \A n \in DOMAIN N : \A k \in Kids : (n # at \/ k # l) => M[n][k] = N[n][k]
  BY <1>3, <1>4 DEF Kids, Operations
<1>7. M[x].name = nm /\ M[x].set = <<>> /\ \A k \in Kids : M[x][k] = Null
  BY <1>2 DEF Kids
<1>8. M[x] \in Operations
  <2>1. <<>> \in Seq(Entries)
    OBVIOUS
  <2> QED BY <1>2, <2>1 DEF Operations
<1>9. ASSUME NEW n \in DOMAIN N PROVE M[n] \in Operations
  <2>1. N[n] \in Operations
    BY <1>4
  <2>2. CASE n = at
    <3>1. M[n] = [N[n] EXCEPT ![l] = x]
      BY <1>3, <2>2
    <3>2. CASE l = "left"
      BY <2>1, <3>1, <3>2 DEF Operations
    <3>3. CASE l = "right"
      BY <2>1, <3>1, <3>3 DEF Operations
    <3> QED BY <3>2, <3>3 DEF Kids
  <2>3. CASE n # at
    BY <1>3, <1>4, <2>3
  <2> QED BY <2>2, <2>3
<1>10. \A n \in DOMAIN M : \A k \in Kids : M[n][k] \in DOMAIN M \cup {Null}
  <2> SUFFICES ASSUME NEW n \in DOMAIN M, NEW k \in Kids PROVE M[n][k] \in DOMAIN M \cup {Null}
    OBVIOUS
  <2>1. CASE n = x
    BY <1>7, <2>1
  <2>2. CASE n # x /\ (n # at \/ k # l)
    <3>1. n \in DOMAIN N /\ M[n][k] = N[n][k] /\ N[n][k] \in DOMAIN N \cup {Null}
      BY <1>1, <1>6, <2>2 DEF Nodes
    <3> QED BY <1>1, <3>1
  <2>3. CASE n = at /\ k = l
    BY <1>1, <1>6, <2>3
  <2> QED BY <2>1, <2>2, <2>3
<1>11. Nodes(M)
  <2>1. \A n \in DOMAIN M : M[n] \in Operations
    BY <1>1, <1>8, <1>9
  <2>2. head \in DOMAIN M /\ DOMAIN M \subseteq Ids
    BY <1>0, <1>1 DEF Nodes
  <2> QED BY <1>1, <1>10, <2>1, <2>2 DEF Nodes
<1> QED BY <1>1, <1>5, <1>6, <1>7, <1>11 DEF Grown

\* A new leaf leaves a tree a tree, even if it takes the place of another node.
LEMMA GrownTree ==
    ASSUME NEW N, Tree(N), NEW x \in Ids, x \notin DOMAIN N, NEW at \in DOMAIN N, NEW l \in Kids,
           NEW nm \in Names, NEW M, Grows(M, N, x, at, l, nm)
    PROVE  Tree(M)
<1>0. Nodes(N)
  BY DEF Tree
<1>1. PICK b \in Nat : \E h \in [DOMAIN N -> 0 .. b] : Ranks(N, h)
  BY DEF Tree
<1>2. PICK h \in [DOMAIN N -> 0 .. b] : Ranks(N, h)
  BY <1>1
<1>3. /\ Nodes(M) /\ DOMAIN M = DOMAIN N \cup {x} /\ (\A k \in Kids : M[x][k] = Null) /\ M[at][l] = x
      /\ \A n \in DOMAIN N : \A k \in Kids : (n # at \/ k # l) => M[n][k] = N[n][k]
  <2>1. Nodes(M) /\ Grown(M, N, x, at, l, nm)
    BY <1>0, GrownNodes
  <2> QED BY <2>1 DEF Grown
<1> DEFINE g == [n \in DOMAIN M |-> IF n = x THEN 0 ELSE h[n] + 1]
<1>4. g \in [DOMAIN M -> 0 .. (b + 1)]
  BY <1>1, <1>2, <1>3
<1>5. ASSUME NEW n \in DOMAIN M, NEW k \in Kids, M[n][k] # Null PROVE g[M[n][k]] < g[n]
  <2>1. n # x /\ n \in DOMAIN N /\ g[n] = h[n] + 1 /\ h[n] \in Nat
    BY <1>1, <1>2, <1>3, <1>5
  <2>2. CASE n = at /\ k = l
    <3>1. g[M[n][k]] = 0
      BY <1>3, <2>2
    <3> QED BY <2>1, <3>1
  <2>3. CASE n # at \/ k # l
    <3>1. M[n][k] = N[n][k] /\ N[n][k] # Null
      BY <1>3, <1>5, <2>1, <2>3
    <3>2. N[n][k] \in DOMAIN N /\ h[N[n][k]] < h[n]
      BY <1>0, <1>2, <2>1, <3>1 DEF Nodes, Ranks
    <3>3. g[N[n][k]] = h[N[n][k]] + 1 /\ h[N[n][k]] \in Nat
      BY <1>1, <1>2, <1>3, <3>2
    <3> QED BY <2>1, <3>1, <3>2, <3>3
  <2> QED BY <2>2, <2>3
<1> HIDE DEF g
<1>6. Ranks(M, g)
  BY <1>5 DEF Ranks
<1>7. b + 1 \in Nat
  BY <1>1
<1> QED BY <1>3, <1>4, <1>6, <1>7 DEF Tree

\* A search turns at a node by name and links.
LEMMA SearchTurns ==
    ASSUME NEW N, Tree(N), NEW name, NEW right, NEW n \in DOMAIN N, NEW F, F = Searched(N, name, right),
           NEW l, l = Way(name, N[n].name, right)
    PROVE  /\ l \in Kids /\ N[n][l] \in DOMAIN N \cup {Null}
           /\ N[n].name = name => F[n] = [at |-> n, link |-> "found"]
           /\ N[n].name # name /\ N[n][l] = Null => F[n] = [at |-> n, link |-> l]
           /\ N[n].name # name /\ N[n][l] # Null => F[n] = F[N[n][l]]
<1>1. Nodes(N) /\ Searches(F, N, name, right)
  BY SearchEnds DEF Tree
<1>2. F[n] = Turn(N, name, right, F, n)
  BY <1>1 DEF Searches
<1>3. l \in Kids
  BY DEF Way, Kids
<1>4. N[n][l] \in DOMAIN N \cup {Null}
  BY <1>1, <1>3 DEF Nodes
<1> QED BY <1>1, <1>2, <1>3, <1>4, Turns

\* A name is found at a node that has it.
LEMMA FoundHere ==
    ASSUME NEW N, Tree(N), NEW right, NEW n \in DOMAIN N
    PROVE  Searched(N, N[n].name, right)[n] = [at |-> n, link |-> "found"]
<1> DEFINE F == Searched(N, N[n].name, right)
<1>1. Searches(F, N, N[n].name, right)
  BY SearchEnds
<1> HIDE DEF F
<1>2. F[n] = Turn(N, N[n].name, right, F, n)
  BY <1>1 DEF Searches
<1>3. F[n] = [at |-> n, link |-> "found"]
  BY <1>2 DEF Turn
<1> QED BY <1>3 DEF F

\* What was found is found where it was, and what was not is found in the new leaf
\* if that is where the search for it ended.
LEMMA LeafFound ==
    ASSUME NEW N, Tree(N), NEW x \in Ids, x \notin DOMAIN N, NEW at \in DOMAIN N, NEW l \in Kids,
           NEW nm \in Names, NEW M, Grows(M, N, x, at, l, nm), N[at][l] = Null, NEW m, NEW right
    PROVE  /\ Route(N, m, right).link = "found" => Route(M, m, right) = Route(N, m, right)
           /\ m = nm /\ Route(N, m, right) = [at |-> at, link |-> l] =>
                Route(M, m, right) = [at |-> x, link |-> "found"]
<1> DEFINE D == DOMAIN N
           F == Searched(N, m, right)
           G == Searched(M, m, right)
           end == [at |-> at, link |-> l]
           new == [at |-> x, link |-> "found"]
           Kept(n) == (F[n].link = "found" => G[n] = F[n]) /\ (m = nm /\ F[n] = end => G[n] = new)
<1>0. Nodes(N) /\ head \in D /\ x # Null
  BY NullAssumption DEF Tree, Nodes
<1>1. PICK b \in Nat : \E h \in [D -> 0 .. b] : Ranks(N, h)
  BY DEF Tree
<1>2. PICK h \in [D -> 0 .. b] : Ranks(N, h)
  BY <1>1
<1>3. \A n \in D : h[n] \in Nat /\ h[n] <= b
  BY <1>1, <1>2
<1>4. Tree(M) /\ Grown(M, N, x, at, l, nm)
  BY <1>0, GrownNodes, GrownTree
<1>5. DOMAIN M = D \cup {x} /\ M[x].name = nm /\ M[at][l] = x
      /\ \A n \in D : /\ M[n].name = N[n].name
                      /\ \A k \in Kids : (n # at \/ k # l) => M[n][k] = N[n][k]
  BY <1>4 DEF Grown
<1>6. m = nm => G[x] = new
  <2>1. Tree(M) /\ x \in DOMAIN M
    BY <1>4, <1>5
  <2>2. Searched(M, M[x].name, right)[x] = [at |-> x, link |-> "found"]
    BY <2>1, FoundHere
  <2> QED BY <1>5, <2>2
<1> HIDE DEF F, G, end, new
<1>7. ASSUME NEW n \in D, NEW k, k = Way(m, N[n].name, right),
             N[n][k] # Null => Kept(N[n][k])
      PROVE  Kept(n)
  <2>1. /\ k \in Kids
        /\ N[n].name = m => F[n] = [at |-> n, link |-> "found"]
        /\ N[n].name # m /\ N[n][k] = Null => F[n] = [at |-> n, link |-> k]
        /\ N[n].name # m /\ N[n][k] # Null => F[n] = F[N[n][k]]
    BY <1>7, SearchTurns DEF F
  <2>2. /\ n \in DOMAIN M /\ k = Way(m, M[n].name, right) /\ M[n].name = N[n].name
        /\ (n # at \/ k # l) => M[n][k] = N[n][k]
    BY <1>5, <1>7, <2>1
  <2>3. /\ N[n].name = m => G[n] = [at |-> n, link |-> "found"]
        /\ N[n].name # m /\ M[n][k] = Null => G[n] = [at |-> n, link |-> k]
        /\ N[n].name # m /\ M[n][k] # Null => G[n] = G[M[n][k]]
    BY <1>4, <2>2, SearchTurns DEF G
  <2>4. k # "found" /\ l # "found"
    BY <2>1 DEF Kids
  <2>5. CASE N[n].name = m
    BY <2>1, <2>3, <2>4, <2>5 DEF end
  <2>6. CASE N[n].name # m /\ N[n][k] = Null
    <3>1. F[n].link # "found" /\ (F[n] = end => n = at /\ k = l)
      BY <2>1, <2>4, <2>6 DEF end
    <3>2. ASSUME m = nm, n = at, k = l PROVE G[n] = new
      BY <1>0, <1>5, <1>6, <2>3, <2>6, <3>2
    <3> QED BY <3>1, <3>2
  <2>7. CASE N[n].name # m /\ N[n][k] # Null
    <3>1. n # at \/ k # l
      BY <2>7
    <3>2. F[n] = F[N[n][k]] /\ G[n] = G[N[n][k]] /\ Kept(N[n][k])
      BY <1>7, <2>1, <2>2, <2>3, <2>7, <3>1
    <3> QED BY <3>2
  <2> QED BY <2>5, <2>6, <2>7
<1> HIDE DEF Kept
<1> DEFINE A == {k \in Nat : \A n \in D : h[n] < k => Kept(n)}
<1>8. 0 \in A
  BY <1>3
<1>9. ASSUME NEW j \in Nat, j \in A PROVE j + 1 \in A
  <2> SUFFICES ASSUME NEW n \in D, h[n] < j + 1 PROVE Kept(n)
    OBVIOUS
  <2> DEFINE k == Way(m, N[n].name, right)
  <2>1. k \in Kids
    BY DEF Way, Kids
  <2> HIDE DEF k
  <2>2. N[n][k] # Null => N[n][k] \in D /\ h[N[n][k]] < h[n]
    BY <1>0, <1>2, <2>1 DEF Nodes, Ranks
  <2>3. N[n][k] # Null => Kept(N[n][k])
    BY <1>3, <1>9, <2>2
  <2> QED BY <1>7, <2>3 DEF k
<1> HIDE DEF A
<1>10. b + 1 \in A
  BY <1>8, <1>9, Reaches
<1>11. Kept(head)
  BY <1>0, <1>3, <1>10 DEF A
<1> QED BY <1>11 DEF Kept, Route, F, G, end, new

\* M is N with other chains of entries.
Rechained(M, N) ==
    /\ M = [n \in DOMAIN N |-> M[n]]
    /\ \A n \in DOMAIN N : M[n] \in Operations /\ M[n].name = N[n].name /\ \A k \in Kids : M[n][k] = N[n][k]

\* Then nothing is found elsewhere.
LEMMA ChainsApart ==
    ASSUME NEW N, Tree(N), NEW M, Rechained(M, N)
    PROVE  Tree(M) /\ \A m, right : Route(M, m, right) = Route(N, m, right)
<1> DEFINE D == DOMAIN N
<1>0. Nodes(N) /\ head \in D
  BY DEF Tree, Nodes
<1>1. PICK b \in Nat : \E h \in [D -> 0 .. b] : Ranks(N, h)
  BY DEF Tree
<1>2. PICK h \in [D -> 0 .. b] : Ranks(N, h)
  BY <1>1
<1>3. \A n \in D : h[n] \in Nat /\ h[n] <= b
  BY <1>1, <1>2
<1>4. DOMAIN M = D
  BY DEF Rechained
<1>5. Tree(M)
  <2>1. Nodes(M)
    BY <1>0, <1>4 DEF Nodes, Rechained
  <2>2. Ranks(M, h)
    BY <1>2, <1>4 DEF Ranks, Rechained
  <2> QED BY <1>1, <1>2, <1>4, <2>1, <2>2 DEF Tree
<1> SUFFICES ASSUME NEW m, NEW right PROVE Route(M, m, right) = Route(N, m, right)
  BY <1>5
<1> DEFINE F == Searched(N, m, right)
           G == Searched(M, m, right)
           A == {j \in Nat : \A n \in D : h[n] < j => G[n] = F[n]}
<1>6. 0 \in A
  BY <1>3
<1>7. ASSUME NEW j \in Nat, j \in A PROVE j + 1 \in A
  <2> SUFFICES ASSUME NEW n \in D, h[n] < j + 1 PROVE G[n] = F[n]
    OBVIOUS
  <2> DEFINE k == Way(m, N[n].name, right)
  <2>1. k \in Kids /\ M[n].name = N[n].name /\ M[n][k] = N[n][k]
    BY DEF Way, Kids, Rechained
  <2> HIDE DEF k, F, G
  <2>2. N[n][k] # Null => N[n][k] \in D /\ h[N[n][k]] < h[n]
    BY <1>0, <1>2, <2>1 DEF Nodes, Ranks
  <2>3. N[n][k] # Null => G[N[n][k]] = F[N[n][k]]
    BY <1>3, <1>7, <2>2
  <2>4. /\ N[n].name = m => F[n] = [at |-> n, link |-> "found"]
        /\ N[n].name # m /\ N[n][k] = Null => F[n] = [at |-> n, link |-> k]
        /\ N[n].name # m /\ N[n][k] # Null => F[n] = F[N[n][k]]
    BY SearchTurns DEF F, k
  <2>5. n \in DOMAIN M /\ k = Way(m, M[n].name, right)
    BY <1>4, <2>1 DEF k
  <2>6. /\ M[n].name = m => G[n] = [at |-> n, link |-> "found"]
        /\ M[n].name # m /\ M[n][k] = Null => G[n] = [at |-> n, link |-> k]
        /\ M[n].name # m /\ M[n][k] # Null => G[n] = G[M[n][k]]
    BY <1>5, <2>5, SearchTurns DEF G
  <2> QED BY <2>1, <2>3, <2>4, <2>6
<1> HIDE DEF A, F, G
<1>8. b + 1 \in A
  BY <1>6, <1>7, Reaches
<1>9. G[head] = F[head]
  BY <1>0, <1>3, <1>8 DEF A
<1> QED BY <1>9 DEF F, G, Route

-----------------------------------------------------------------------------
(***************************************************************************)
(* What add_interface enters.                                              *)
(***************************************************************************)
Listed(i, k, o) ==
    [name |-> Own[Visited(i)[k]][o], def |-> Visited(i)[k], reps |-> Entered(i, k)]

Implied(i) == {[name |-> n, def |-> Object, reps |-> <<i>>] : n \in Implicit}

Catalogue(i) ==
    Implied(i) \cup UNION {{Listed(i, k, o) : o \in 1 .. Len(Own[Visited(i)[k]])} : k \in 1 .. Len(Visited(i))}

\* The entry is what the repository of some interface says: def has the operation
\* and is, like rep, that interface or a direct base of it.
Right(name, rep, def) ==
    \/ name \in Implicit /\ def = Object
    \/ \E i \in Interfaces : /\ rep \in ToSet(Visited(i)) /\ def \in ToSet(Visited(i))
                             /\ name \in ToSet(Own[def])

\* The loop of add_interface begins with the interface it is given.
LEMMA VisitedIn ==
    ASSUME NEW i \in Interfaces
    PROVE  /\ Visited(i) \in Seq(Interfaces) /\ Len(Visited(i)) \in Nat \ {0} /\ Visited(i)[1] = i
           /\ ToSet(Visited(i)) \subseteq Interfaces /\ i \in ToSet(Visited(i))
           /\ \A k \in 1 .. Len(Visited(i)) : Visited(i)[k] \in Interfaces /\ Visited(i)[k] \in ToSet(Visited(i))
<1> DEFINE s == <<i>>
           b == Bases[i]
           c == s \o b
<1>1. s \in Seq(Interfaces) /\ b \in Seq(Interfaces) /\ Len(s) = 1 /\ s[1] = i
  BY TableAssumption
<1>2. Visited(i) = c
  BY DEF Visited
<1> HIDE DEF s, b
<1>3. Len(b) \in Nat
  BY <1>1, LenProperties
<1>4. c \in Seq(Interfaces) /\ Len(c) = 1 + Len(b) /\ c[1] = i
  <2>1. s \in Seq(Interfaces) /\ b \in Seq(Interfaces)
    BY <1>1
  <2>2. /\ c \in Seq(Interfaces) /\ Len(c) = Len(s) + Len(b)
        /\ \A p \in 1 .. Len(s) + Len(b) : c[p] = IF p <= Len(s) THEN s[p] ELSE b[p - Len(s)]
    BY <2>1, ConcatProperties
  <2> HIDE DEF c
  <2> QED BY <1>1, <1>3, <2>2
<1> HIDE DEF c
<1>5. Len(c) \in Nat \ {0} /\ DOMAIN c = 1 .. Len(c) /\ \A k \in 1 .. Len(c) : c[k] \in Interfaces
  BY <1>3, <1>4, LenProperties, ElementOfSeq
<1> QED BY <1>2, <1>4, <1>5 DEF ToSet

\* The interfaces an operation is entered for are visited, and the one that is added
\* is among them.
LEMMA EnteredIn ==
    ASSUME NEW i \in Interfaces, NEW k \in 1 .. Len(Visited(i))
    PROVE  /\ Entered(i, k) \in Seq(Interfaces) /\ Len(Entered(i, k)) \in Nat \ {0}
           /\ \A p \in 1 .. Len(Entered(i, k)) : Entered(i, k)[p] \in ToSet(Visited(i))
           /\ \E p \in 1 .. Len(Entered(i, k)) : Entered(i, k)[p] = i
<1> DEFINE v == Visited(i)
           T == ToSet(v)
           s == <<v[k]>>
           d == SubSeq(v, 1, k - 1)
           c == s \o d
<1>1. /\ v \in Seq(Interfaces) /\ Len(v) \in Nat \ {0} /\ v[1] = i /\ T \subseteq Interfaces
      /\ \A j \in 1 .. Len(v) : v[j] \in T
  BY VisitedIn
<1>2. Entered(i, k) = c /\ k \in 1 .. Len(v)
  BY DEF Entered
<1> HIDE DEF v, T
<1>3. s \in Seq(T) /\ Len(s) = 1 /\ s[1] = v[k]
  BY <1>1, <1>2
<1>4. d \in Seq(Interfaces) /\ Len(d) = k - 1 /\ \A j \in 1 .. (k - 1) : d[j] = v[j]
  <2>1. 1 \in 1 .. Len(v) + 1 /\ k - 1 \in 0 .. Len(v) /\ 1 <= (k - 1) + 1
    BY <1>1, <1>2
  <2>2. /\ d \in Seq(Interfaces) /\ Len(d) = IF 1 <= k - 1 THEN (k - 1) - 1 + 1 ELSE 0
        /\ \A j \in 1 .. (k - 1) - 1 + 1 : d[j] = v[1 + j - 1]
    BY <1>1, <1>2, <2>1, SubSeqProperties
  <2>3. Len(d) = k - 1 /\ \A j \in 1 .. (k - 1) : j \in 1 .. (k - 1) - 1 + 1 /\ 1 + j - 1 = j
    BY <1>1, <1>2, <2>2
  <2> QED BY <2>2, <2>3
<1> HIDE DEF d
<1>5. d \in Seq(T)
  <2>1. \A j \in 1 .. Len(d) : d[j] \in T
    BY <1>1, <1>2, <1>4
  <2> QED BY <1>4, <2>1, SeqIn
<1> HIDE DEF s
<1>6. /\ c \in Seq(T) /\ Len(c) = 1 + (k - 1)
      /\ \A p \in 1 .. Len(s) + Len(d) : c[p] = IF p <= Len(s) THEN s[p] ELSE d[p - Len(s)]
  <2>1. s \in Seq(T) /\ d \in Seq(T)
    BY <1>3, <1>5
  <2>2. /\ c \in Seq(T) /\ Len(c) = Len(s) + Len(d)
        /\ \A p \in 1 .. Len(s) + Len(d) : c[p] = IF p <= Len(s) THEN s[p] ELSE d[p - Len(s)]
    BY <2>1, ConcatProperties
  <2> QED BY <1>3, <1>4, <2>2
<1>7. Len(c) = k /\ c[1] = v[k]
  BY <1>2, <1>3, <1>4, <1>6
<1>8. k # 1 => c[2] = i
  <2> HAVE k # 1
  <2>1. 2 \in 1 .. Len(s) + Len(d) /\ ~(2 <= Len(s)) /\ 2 - Len(s) = 1 /\ 1 \in 1 .. (k - 1)
    BY <1>2, <1>3, <1>4
  <2> QED BY <1>1, <1>4, <1>6, <2>1
<1> HIDE DEF c
<1>9. \A p \in 1 .. Len(c) : c[p] \in T
  BY <1>6, ElementOfSeq
<1>10. \E p \in 1 .. Len(c) : c[p] = i
  <2>1. CASE k = 1
    BY <1>1, <1>7, <2>1
  <2>2. CASE k # 1
    <3>1. 2 \in 1 .. Len(c)
      BY <1>2, <1>7, <2>2
    <3> QED BY <1>8, <2>2, <3>1
  <2> QED BY <2>1, <2>2
<1>11. c \in Seq(Interfaces)
  BY <1>1, <1>6, <1>9, SeqIn
<1> QED BY <1>2, <1>7, <1>9, <1>10, <1>11 DEF v, T

\* Its items are those of the catalogue.
LEMMA ItemsAre ==
    ASSUME NEW i \in Interfaces
    PROVE  /\ Items(i) \in Seq(Catalogue(i)) /\ Len(Items(i)) \in Nat \ {0}
           /\ \A k \in 1 .. Len(Items(i)) : Items(i)[k] \in Catalogue(i)
           /\ \A x \in Catalogue(i) : \E k \in 1 .. Len(Items(i)) : Items(i)[k] = x
<1> DEFINE v == Visited(i)
           C == Catalogue(i)
           a == [name |-> "_is_a", def |-> Object, reps |-> <<i>>]
           b == [name |-> "_non_existent", def |-> Object, reps |-> <<i>>]
           two == <<a, b>>
           own(k) == [o \in 1 .. Len(Own[v[k]]) |-> Listed(i, k, o)]
           seqs == [k \in 1 .. Len(v) |-> own(k)]
           f == FlattenSeq(seqs)
<1>1. Len(v) \in Nat /\ \A k \in 1 .. Len(v) : Len(Own[v[k]]) \in Nat
  BY VisitedIn, TableAssumption, LenProperties
<1>2. Items(i) = two \o f
  BY DEF Items, Listed
<1>3. Implied(i) = {a, b} /\ Implied(i) \subseteq C
  BY DEF Implied, Implicit, Catalogue
<1>4. \A k \in 1 .. Len(v) : \A o \in 1 .. Len(Own[v[k]]) : Listed(i, k, o) \in C
  BY DEF Catalogue
<1>5. \A x \in C : x \in {a, b} \/ \E k \in 1 .. Len(v) : \E o \in 1 .. Len(Own[v[k]]) : x = Listed(i, k, o)
  BY <1>3 DEF Catalogue
<1> HIDE DEF C, a, b
<1>6. two \in Seq(C) /\ Len(two) = 2 /\ two[1] = a /\ two[2] = b
  BY <1>3
<1>7. \A k \in 1 .. Len(v) : own(k) \in Seq(C) /\ Len(own(k)) = Len(Own[v[k]])
  BY <1>1, <1>4, IsASeq
<1>8. seqs \in Seq(Seq(C)) /\ Len(seqs) = Len(v)
  <2> HIDE DEF own
  <2> QED BY <1>1, <1>7, IsASeq
<1>9. \A k \in 1 .. Len(v) : seqs[k] = own(k)
  OBVIOUS
<1> HIDE DEF seqs, two, v, f
<1>10. f \in Seq(C)
  BY <1>8, FlattenIn DEF f
<1>11. \A k \in 1 .. Len(v) : \A o \in 1 .. Len(Own[v[k]]) : \E p \in 1 .. Len(f) : f[p] = Listed(i, k, o)
  <2> TAKE k \in 1 .. Len(v)
  <2> TAKE o \in 1 .. Len(Own[v[k]])
  <2>1. k \in 1 .. Len(seqs) /\ o \in 1 .. Len(seqs[k]) /\ seqs[k][o] = Listed(i, k, o)
    BY <1>7, <1>8, <1>9
  <2> HIDE DEF own
  <2>2. \E p \in 1 .. Len(FlattenSeq(seqs)) : FlattenSeq(seqs)[p] = seqs[k][o]
    BY <1>8, <2>1, FlattenHas
  <2> QED BY <2>1, <2>2 DEF f
<1> HIDE DEF own
<1> DEFINE c == two \o f
<1>12. Len(f) \in Nat
  BY <1>10, LenProperties
<1>13. /\ c \in Seq(C) /\ Len(c) = Len(two) + Len(f)
       /\ \A p \in 1 .. Len(two) + Len(f) : c[p] = IF p <= Len(two) THEN two[p] ELSE f[p - Len(two)]
  <2>1. two \in Seq(C)
    BY <1>6
  <2> QED BY <1>10, <2>1, ConcatProperties
<1> HIDE DEF c
<1>14. Len(c) \in Nat \ {0} /\ \A k \in 1 .. Len(c) : c[k] \in C
  BY <1>6, <1>12, <1>13, ElementOfSeq
<1>15. ASSUME NEW x \in C PROVE \E k \in 1 .. Len(c) : c[k] = x
  <2>1. CASE x = a
    <3>1. 1 \in 1 .. Len(two) + Len(f) /\ 1 <= Len(two)
      BY <1>6, <1>12
    <3>2. c[1] = a
      BY <1>6, <1>13, <3>1
    <3> QED BY <1>13, <2>1, <3>1, <3>2
  <2>2. CASE x = b
    <3>1. 2 \in 1 .. Len(two) + Len(f) /\ 2 <= Len(two)
      BY <1>6, <1>12
    <3>2. c[2] = b
      BY <1>6, <1>13, <3>1
    <3> QED BY <1>13, <2>2, <3>1, <3>2
  <2>3. CASE \E k \in 1 .. Len(v) : \E o \in 1 .. Len(Own[v[k]]) : x = Listed(i, k, o)
    <3>1. PICK p \in 1 .. Len(f) : f[p] = x
      BY <1>11, <2>3
    <3>2. Len(two) + p \in 1 .. Len(two) + Len(f) /\ ~(Len(two) + p <= Len(two)) /\ (Len(two) + p) - Len(two) = p
      BY <1>6, <1>12
    <3>3. c[Len(two) + p] = x
      BY <1>13, <3>1, <3>2
    <3> QED BY <1>13, <3>2, <3>3
  <2> QED BY <1>5, <2>1, <2>2, <2>3
<1>16. Items(i) = c
  BY <1>2 DEF c
<1> QED BY <1>13, <1>14, <1>15, <1>16 DEF C

\* Each of them is right, and is entered for the interface that is added.
LEMMA CatalogueRight ==
    ASSUME NEW i \in Interfaces, NEW x \in Catalogue(i)
    PROVE  /\ x.name \in Names /\ x.def \in Interfaces \cup {Object}
           /\ x.reps \in Seq(Interfaces) /\ Len(x.reps) \in Nat \ {0}
           /\ \A p \in 1 .. Len(x.reps) : x.reps[p] \in Interfaces /\ Right(x.name, x.reps[p], x.def)
           /\ \E p \in 1 .. Len(x.reps) : x.reps[p] = i
           /\ Right(x.name, i, x.def)
<1>1. CASE x \in Implied(i)
  <2>1. x.name \in Implicit /\ x.def = Object /\ x.reps = <<i>>
    BY <1>1 DEF Implied
  <2>2. Implicit \subseteq Names
    BY DEF Implicit, Names
  <2>3. <<i>> \in Seq(Interfaces) /\ Len(<<i>>) = 1 /\ <<i>>[1] = i
    OBVIOUS
  <2>4. 1 \in 1 .. Len(x.reps) /\ \A p \in 1 .. Len(x.reps) : p = 1
    BY <2>1, <2>3
  <2> QED BY <2>1, <2>2, <2>3, <2>4 DEF Right
<1>2. CASE x \notin Implied(i)
  <2>1. PICK k \in 1 .. Len(Visited(i)) : x \in {Listed(i, k, o) : o \in 1 .. Len(Own[Visited(i)[k]])}
    BY <1>2 DEF Catalogue
  <2>2. PICK o \in 1 .. Len(Own[Visited(i)[k]]) : x = Listed(i, k, o)
    BY <2>1
  <2> DEFINE d == Visited(i)[k]
             r == Entered(i, k)
  <2>3. x.name = Own[d][o] /\ x.def = d /\ x.reps = r
    BY <2>2 DEF Listed
  <2>4. d \in Interfaces /\ d \in ToSet(Visited(i)) /\ ToSet(Visited(i)) \subseteq Interfaces
        /\ i \in ToSet(Visited(i))
    BY VisitedIn
  <2>5. /\ r \in Seq(Interfaces) /\ Len(r) \in Nat \ {0}
        /\ (\A p \in 1 .. Len(r) : r[p] \in ToSet(Visited(i))) /\ \E p \in 1 .. Len(r) : r[p] = i
    BY EnteredIn
  <2>6. Own[d][o] \in ToSet(Own[d])
    <3>1. Own[d] \in Seq(STRING) /\ DOMAIN Own[d] = 1 .. Len(Own[d])
      BY <2>4, TableAssumption, LenProperties
    <3> QED BY <3>1 DEF ToSet
  <2> HIDE DEF d, r
  <2>7. x.name \in Names
    BY <2>3, <2>4, <2>6 DEF Names
  <2>8. \A p \in 1 .. Len(r) : Right(x.name, r[p], x.def)
    BY <2>3, <2>4, <2>5, <2>6 DEF Right
  <2>9. Right(x.name, i, x.def)
    BY <2>3, <2>4, <2>6 DEF Right
  <2> QED BY <2>3, <2>4, <2>5, <2>7, <2>8, <2>9
<1> QED BY <1>1, <1>2

\* What is right for an operation of the type is what the type defines.
LEMMA RightIsDefined ==
    ASSUME ImplicitReserved, Unambiguous, NEW name, NEW type \in Interfaces, NEW def,
           name \in Implicit \/ \E y \in ToSet(Visited(type)) : name \in ToSet(Own[y]),
           Right(name, type, def)
    PROVE  def = Defined(name, type)
<1>0. ASSUME NEW i \in Interfaces, def \in ToSet(Visited(i)), name \in ToSet(Own[def])
      PROVE  name \notin Implicit /\ def \in Interfaces /\ def \in ToSet(Visited(def))
  <2>1. def \in Interfaces
    BY <1>0, VisitedIn
  <2> QED BY <1>0, <2>1, VisitedIn DEF ImplicitReserved
<1>1. CASE name \in Implicit
  BY <1>0, <1>1 DEF Right, Defined
<1>2. CASE name \notin Implicit
  <2>1. PICK i \in Interfaces : /\ type \in ToSet(Visited(i)) /\ def \in ToSet(Visited(i))
                                /\ name \in ToSet(Own[def])
    BY <1>2 DEF Right
  <2> DEFINE y == Defined(name, type)
  <2>2. y \in ToSet(Visited(type)) /\ name \in ToSet(Own[y])
    BY <1>2 DEF Defined
  <2>3. ToSet(Own[def]) \cap ToSet(Own[y]) # {}
    BY <2>1, <2>2
  <2> HIDE DEF y
  <2>4. def = y
    BY <1>0, <2>1, <2>2, <2>3 DEF Unambiguous
  <2> QED BY <2>4 DEF y
<1> QED BY <1>1, <1>2

\* So is what add_interface returns; and there is something if the type has the
\* operation.
LEMMA DesiredRight ==
    ASSUME NEW i \in Interfaces, NEW name
    PROVE  /\ Desired(i, name) # Null => Right(name, i, Desired(i, name))
           /\ (name \in Implicit \/ \E y \in ToSet(Visited(i)) : name \in ToSet(Own[y])) =>
                Desired(i, name) # Null
           /\ Desired(i, name) # Null => \E k \in 1 .. Len(Items(i)) : Items(i)[k].name = name
<1> DEFINE s == Items(i)
           I == {k \in 1 .. Len(s) : s[k].name = name}
           last == IF I # {} THEN Max(I) ELSE 0
<1>1. Len(s) \in Nat \ {0} /\ (\A k \in 1 .. Len(s) : s[k] \in Catalogue(i))
      /\ \A x \in Catalogue(i) : \E k \in 1 .. Len(s) : s[k] = x
  BY ItemsAre
<1>2. Desired(i, name) = IF last = 0 THEN Null ELSE s[last].def
  BY DEF Desired, SelectLastInSeq
<1>3. I # {} => last \in I /\ last # 0
  <2>1. I \subseteq 1 .. Len(s) /\ Len(s) \in Nat
    BY <1>1
  <2>2. I # {} => Max(I) \in I
    <3> HIDE DEF I
    <3> QED BY <2>1, GreatestPlace
  <2>3. \A k \in I : k # 0
    BY <2>1
  <2> QED BY <2>2, <2>3
<1>4. I # {} => Right(name, i, s[last].def) /\ s[last].def \in Interfaces \cup {Object}
  <2> HAVE I # {}
  <2>1. last \in 1 .. Len(s) /\ s[last].name = name
    BY <1>3
  <2>2. s[last] \in Catalogue(i)
    BY <1>1, <2>1
  <2> HIDE DEF last, s
  <2> QED BY <2>1, <2>2, CatalogueRight
<1>5. ASSUME name \in Implicit \/ \E y \in ToSet(Visited(i)) : name \in ToSet(Own[y])
      PROVE  I # {}
  <2>1. \E x \in Catalogue(i) : x.name = name
    <3>1. CASE name \in Implicit
      <4>1. [name |-> name, def |-> Object, reps |-> <<i>>] \in Catalogue(i)
        BY <3>1 DEF Catalogue, Implied
      <4> QED BY <4>1
    <3>2. CASE \E y \in ToSet(Visited(i)) : name \in ToSet(Own[y])
      <4>0. DOMAIN Visited(i) = 1 .. Len(Visited(i)) /\ ToSet(Visited(i)) \subseteq Interfaces
        BY VisitedIn, LenProperties
      <4>1. PICK y \in ToSet(Visited(i)) : name \in ToSet(Own[y])
        BY <3>2
      <4>2. PICK k \in 1 .. Len(Visited(i)) : Visited(i)[k] = y
        BY <4>0, <4>1 DEF ToSet
      <4>3. DOMAIN Own[y] = 1 .. Len(Own[y])
        BY <4>0, <4>1, TableAssumption, LenProperties
      <4>4. PICK o \in 1 .. Len(Own[y]) : Own[y][o] = name
        BY <4>1, <4>3 DEF ToSet
      <4>5. Listed(i, k, o) \in Catalogue(i)
        BY <4>2, <4>4 DEF Catalogue
      <4>6. Listed(i, k, o).name = name
        BY <4>2, <4>4 DEF Listed
      <4> QED BY <4>5, <4>6
    <3> QED BY <1>5, <3>1, <3>2
  <2> QED BY <1>1, <2>1
<1>6. ASSUME Desired(i, name) # Null PROVE I # {}
  BY <1>2, <1>6
<1> HIDE DEF last
<1>7. I # {} => Desired(i, name) = s[last].def
  BY <1>2, <1>3
<1>8. I # {} => Desired(i, name) # Null /\ Right(name, i, Desired(i, name))
  BY <1>4, <1>7, NullAssumption
<1>9. I # {} => \E k \in 1 .. Len(s) : s[k].name = name
  OBVIOUS
<1> HIDE DEF I, s
<1> QED BY <1>5, <1>6, <1>8, <1>9 DEF s

-----------------------------------------------------------------------------
(***************************************************************************)
(* Chains of entries.                                                      *)
(***************************************************************************)

\* args finds an entry for the interface if there is one.
LEMMA LookupFinds ==
    ASSUME NEW set \in Seq(Entries), NEW rep
    PROVE  /\ Lookup(set, rep) # Null =>
                \E k \in 1 .. Len(set) : set[k].rep = rep /\ set[k].def = Lookup(set, rep)
           /\ (\E k \in 1 .. Len(set) : set[k].rep = rep) => Lookup(set, rep) # Null
<1> DEFINE I == {k \in 1 .. Len(set) : set[k].rep = rep}
           at == IF I # {} THEN Min(I) ELSE 0
<1>1. Len(set) \in Nat /\ \A k \in 1 .. Len(set) : set[k] \in Entries
  BY LenProperties, ElementOfSeq
<1>2. Lookup(set, rep) = IF at = 0 THEN Null ELSE set[at].def
  BY DEF Lookup, SelectInSeq
<1>3. I # {} => at \in I /\ at # 0
  <2>1. I \subseteq Nat /\ \A k \in I : k # 0
    BY <1>1
  <2>2. I # {} => Min(I) \in I
    <3> HIDE DEF I
    <3> QED BY <2>1, LeastPlace
  <2> QED BY <2>1, <2>2
<1>4. I = {} => at = 0
  OBVIOUS
<1> HIDE DEF at
<1>5. I # {} => /\ at \in 1 .. Len(set) /\ set[at].rep = rep /\ Lookup(set, rep) = set[at].def
                /\ set[at].def # Null
  <2> HAVE I # {}
  <2>1. at \in 1 .. Len(set) /\ set[at].rep = rep /\ Lookup(set, rep) = set[at].def
    BY <1>2, <1>3
  <2>2. set[at].def \in Interfaces \cup {Object}
    BY <1>1, <2>1 DEF Entries
  <2> QED BY <2>1, <2>2, NullAssumption
<1>6. I = {} => Lookup(set, rep) = Null
  BY <1>2, <1>4
<1>7. (\E k \in 1 .. Len(set) : set[k].rep = rep) => I # {}
  OBVIOUS
<1> HIDE DEF I
<1> QED BY <1>5, <1>6, <1>7

\* The first k entries of a chain and one more.
LEMMA CutAndAppend ==
    ASSUME NEW S, NEW set \in Seq(S), NEW e \in S, NEW k \in 0 .. Len(set)
    PROVE  LET a == Append(SubSeq(set, 1, k), e)
           IN /\ a \in Seq(S) /\ Len(a) = k + 1 /\ a[k + 1] = e
              /\ \A j \in 1 .. k : a[j] = set[j]
<1> DEFINE b == SubSeq(set, 1, k)
           a == Append(b, e)
<1>1. Len(set) \in Nat /\ (\A j \in 1 .. Len(set) : set[j] \in S) /\ k \in Nat /\ k <= Len(set)
  BY LenProperties, ElementOfSeq
<1>2. b \in Seq(S) /\ Len(b) = k /\ \A j \in 1 .. k : b[j] = set[j]
  <2>1. 1 \in Int /\ k \in Int /\ \A j \in 1 .. k : set[j] \in S
    BY <1>1
  <2>2. /\ b \in Seq(S) /\ Len(b) = IF 1 <= k THEN k - 1 + 1 ELSE 0
        /\ \A j \in 1 .. k - 1 + 1 : b[j] = set[1 + j - 1]
    BY <2>1, SubSeqProperties
  <2>3. Len(b) = k /\ \A j \in 1 .. k : j \in 1 .. k - 1 + 1 /\ 1 + j - 1 = j
    BY <1>1, <2>2
  <2> QED BY <2>2, <2>3
<1> HIDE DEF b
<1>3. a \in Seq(S) /\ Len(a) = Len(b) + 1 /\ (\A j \in 1 .. Len(b) : a[j] = b[j]) /\ a[Len(b) + 1] = e
  BY <1>2, AppendProperties
<1> HIDE DEF a
<1>4. a \in Seq(S) /\ Len(a) = k + 1 /\ a[k + 1] = e /\ \A j \in 1 .. k : a[j] = set[j]
  BY <1>1, <1>2, <1>3
<1> QED BY <1>4 DEF a, b

\* add_set adds the entry to a chain that may have lost others.
LEMMA AppendedIn ==
    ASSUME NEW set \in Seq(Entries), NEW seen, NEW e \in Entries
    PROVE  /\ Appended(set, seen, e) \in Seq(Entries)
           /\ \A k \in 1 .. Len(Appended(set, seen, e)) :
                \/ Appended(set, seen, e)[k] = e
                \/ \E j \in 1 .. Len(set) : Appended(set, seen, e)[k] = set[j]
<1> DEFINE keep == IF seen = Null THEN {0} ELSE {k \in 1 .. Len(set) : set[k] = seen}
           c == CHOOSE k \in keep : TRUE
           a == Append(SubSeq(set, 1, c), e)
<1>0. Len(set) \in Nat
  BY LenProperties
<1>1. Appended(set, seen, e) = IF keep = {} THEN set ELSE a
  BY DEF Appended
<1>2. CASE keep = {}
  <2>1. Appended(set, seen, e) = set
    BY <1>1, <1>2
  <2> QED BY <2>1
<1>3. CASE keep # {}
  <2>1. c \in keep /\ keep \subseteq 0 .. Len(set)
    BY <1>0, <1>3
  <2>2. c \in 0 .. Len(set) /\ Appended(set, seen, e) = a
    BY <1>1, <1>3, <2>1
  <2> HIDE DEF keep, c
  <2>3. a \in Seq(Entries) /\ Len(a) = c + 1 /\ a[c + 1] = e /\ \A j \in 1 .. c : a[j] = set[j]
    BY <2>2, CutAndAppend
  <2> HIDE DEF a
  <2>4. \A k \in 1 .. Len(a) : a[k] = e \/ \E j \in 1 .. Len(set) : a[k] = set[j]
    <3> TAKE k \in 1 .. Len(a)
    <3>1. k = c + 1 \/ (k \in 1 .. c /\ k \in 1 .. Len(set))
      BY <1>0, <2>2, <2>3
    <3> QED BY <2>3, <3>1
  <2> QED BY <2>2, <2>3, <2>4
<1> QED BY <1>2, <1>3

\* To one that has not changed since it was seen to end it adds at the end.
LEMMA AppendedLast ==
    ASSUME NEW set \in Seq(Entries), NEW seen, NEW e \in Entries,
           \A j, k \in 1 .. Len(set) : set[j] = set[k] => j = k,
           seen = IF set = <<>> THEN Null ELSE set[Len(set)]
    PROVE  LET a == Appended(set, seen, e)
           IN /\ Len(a) = Len(set) + 1 /\ a[Len(set) + 1] = e
              /\ \A k \in 1 .. Len(set) : a[k] = set[k]
<1> DEFINE n == Len(set)
           keep == IF seen = Null THEN {0} ELSE {k \in 1 .. n : set[k] = seen}
           c == CHOOSE k \in keep : TRUE
           a == Append(SubSeq(set, 1, c), e)
<1>0. n \in Nat /\ (\A k \in 1 .. n : set[k] \in Entries) /\ (set = <<>> <=> n = 0)
  BY LenProperties, ElementOfSeq, EmptySeq
<1>1. keep = {n}
  <2>1. CASE n = 0
    BY <1>0, <2>1
  <2>2. CASE n # 0
    <3>1. n \in 1 .. n /\ seen = set[n] /\ seen # Null
      BY <1>0, <2>2, NullAssumption
    <3> QED BY <3>1
  <2> QED BY <2>1, <2>2
<1>2. c = n /\ keep # {}
  BY <1>1
<1>3. Appended(set, seen, e) = a
  BY <1>2 DEF Appended
<1>4. a = Append(SubSeq(set, 1, n), e)
  BY <1>2
<1> HIDE DEF a, keep, c
<1>5. /\ n \in 0 .. n
  BY <1>0
<1>6. Len(a) = n + 1 /\ a[n + 1] = e /\ \A j \in 1 .. n : a[j] = set[j]
  BY <1>4, <1>5, CutAndAppend
<1> QED BY <1>3, <1>6

-----------------------------------------------------------------------------
(***************************************************************************)
(* The inductive invariant, in named parts, for any number of threads.     *)
(***************************************************************************)
Busy(t) == job[t] # Null

\* What a thread with work w and job j is at, in the tree N.
Sound(j, w, N) ==
    LET x == Items(j.iface)[j.item] IN
    /\ j \in Jobs /\ w.pc = "add" /\ j.call = w.req /\ w.req \in Calls /\ j.iface = Requests[w.req].type
    /\ j.item \in 1 .. Len(Items(j.iface)) /\ j.rep \in 1 .. Len(x.reps)
    /\ j.pc = "store" => j.at \in DOMAIN N /\ j.link \in Kids
    /\ j.pc \in {"tail", "append"} => j.at \in DOMAIN N /\ N[j.at].name = x.name

Working ==
    /\ job = [t \in Threads |-> job[t]]
    /\ \A t \in Threads : work[t].pc = "add" => Busy(t)
    /\ \A t \in Threads : Busy(t) => Sound(job[t], work[t], nodes)

\* The node n was not made by what the thread has yet to do.
Past(n, j, w) ==
    w.pc # "idle" /\ w.req = n[1] =>
        /\ w.pc \notin {"native", "find"}
        /\ j # Null => n[2] < j.item \/ (n[2] = j.item /\ j.pc \notin {"search", "store"})

\* So the nodes that a call makes are new.
Fresh ==
    \A n \in DOMAIN nodes : n[1] # Null =>
        stage[n[1]] # "new" /\ \A t \in Threads : Past(n, job[t], work[t])

\* All entries of an operation are right.
EntriesRight(N) ==
    \A n \in DOMAIN N : \A k \in 1 .. Len(N[n].set) :
        Right(N[n].name, N[n].set[k].rep, N[n].set[k].def)

ReadyRight ==
    /\ \A t \in Threads : work[t].pc = "ready" => Right(Req(t).op, Req(t).type, work[t].def)
    /\ \A r \in Calls : stage[r] \in {"served", "sent", "back"} => Requests[r].op \notin Meta

Signed == Tree(nodes) /\ Working /\ Fresh /\ EntriesRight(nodes) /\ ReadyRight

\* The constructor makes a tree with right entries.
LEMMA ConstructedTree == Tree(Constructed) /\ EntriesRight(Constructed) /\ \A n \in DOMAIN Constructed : n[1] = Null
<1> DEFINE second == <<Null, 2>>
           entry(n) == <<OpArgs(Object, Object, n)>>
           right == <<"_non_existent", "_is_a">> \in ones
           N == Constructed
           h == [n \in {head, second} |-> IF n = head THEN 1 ELSE 0]
<1>1. head \in Ids /\ second \in Ids /\ head # second /\ head[1] = Null /\ second[1] = Null
      /\ head # Null /\ second # Null
  BY NullAssumption DEF head, Ids
<1>2. \A n \in Ids : entry(n) \in Seq(Entries) /\ Len(entry(n)) = 1 /\ entry(n)[1].rep = Object /\ entry(n)[1].def = Object
  BY DEF OpArgs, Entries
<1>3. /\ N = [n \in {head, second} |-> N[n]] /\ DOMAIN N = {head, second}
      /\ N[head] = [name |-> "_is_a", left |-> IF right THEN Null ELSE second,
                    right |-> IF right THEN second ELSE Null, set |-> entry(head)]
      /\ N[second] = [name |-> "_non_existent", left |-> Null, right |-> Null, set |-> entry(second)]
  BY <1>1 DEF Constructed, Operation
<1> HIDE DEF N, second, entry, right
<1>4. "_is_a" \in Names /\ "_non_existent" \in Names /\ "_is_a" \in Implicit /\ "_non_existent" \in Implicit
  BY DEF Names, Implicit
<1>5. \A n \in DOMAIN N : N[n] \in Operations
  BY <1>1, <1>2, <1>3, <1>4 DEF Operations
<1>6. \A n \in DOMAIN N : \A l \in Kids : N[n][l] \in DOMAIN N \cup {Null}
  BY <1>1, <1>3 DEF Kids
<1>7. Nodes(N)
  BY <1>1, <1>3, <1>5, <1>6 DEF Nodes
<1>8. Ranks(N, h) /\ h \in [DOMAIN N -> 0 .. 1]
  <2>1. h[head] = 1 /\ h[second] = 0 /\ h \in [DOMAIN N -> 0 .. 1]
    BY <1>1, <1>3
  <2> HIDE DEF h
  <2>2. \A n \in DOMAIN N : \A l \in Kids : N[n][l] # Null => n = head /\ N[n][l] = second
    BY <1>1, <1>3 DEF Kids
  <2> QED BY <2>1, <2>2 DEF Ranks
<1>9. Tree(N)
  <2> HIDE DEF h
  <2> QED BY <1>7, <1>8 DEF Tree
<1>10. EntriesRight(N)
  <2>1. \A n \in DOMAIN N : N[n].name \in Implicit /\ N[n].set = entry(n)
    BY <1>1, <1>3, <1>4
  <2>2. \A n \in DOMAIN N : Len(N[n].set) = 1 /\ N[n].set[1].def = Object
    BY <1>1, <1>2, <1>3, <2>1
  <2>3. \A k \in 1 .. 1 : k = 1
    OBVIOUS
  <2> QED BY <2>1, <2>2, <2>3 DEF EntriesRight, Right
<1>11. \A n \in DOMAIN N : n[1] = Null
  BY <1>1, <1>3
<1> QED BY <1>9, <1>10, <1>11 DEF N

\* So the invariant holds at first.
LEMMA SignedInit == Init => Signed
<1> SUFFICES ASSUME Init PROVE Signed
  OBVIOUS
<1>1. Tree(nodes) /\ EntriesRight(nodes) /\ \A n \in DOMAIN nodes : n[1] = Null
  BY ConstructedTree DEF Init, TableInit
<1>2. Working
  BY DEF Init, TableInit, Working, Busy, Idle
<1>3. Fresh
  BY <1>1 DEF Fresh
<1>4. ReadyRight
  BY DEF Init, ReadyRight, Idle
<1> QED BY <1>1, <1>2, <1>3, <1>4 DEF Signed

\* What the table finds is right.
LEMMA FindRight ==
    ASSUME Tree(nodes), EntriesRight(nodes), NEW name, NEW rep, Find(name, rep) # Null
    PROVE  Right(name, rep, Find(name, rep))
<1> DEFINE s == Route(nodes, name, ones)
           set == nodes[s.at].set
<1>1. Search(name, FindsRight) = s
  BY SearchIs DEF FindsRight
<1>2. Find(name, rep) = Lookup(set, rep) /\ s.link = "found"
  BY <1>1 DEF Find
<1>3. s \in Ends(nodes, name, ones)
  BY SearchEnds
<1> HIDE DEF s
<1>4. s.at \in DOMAIN nodes /\ nodes[s.at].name = name
  BY <1>2, <1>3 DEF Ends
<1>5. set \in Seq(Entries)
  BY <1>4 DEF Tree, Nodes, Operations
<1> HIDE DEF set
<1>6. PICK k \in 1 .. Len(set) : set[k].rep = rep /\ set[k].def = Lookup(set, rep)
  BY <1>2, <1>5, LookupFinds
<1> QED BY <1>2, <1>4, <1>6 DEF EntriesRight, set

\* A step that leaves the table and every job alone.
LEMMA SignedAside ==
    ASSUME Signed, UNCHANGED <<nodes, job>>,
           \A t \in Threads : \/ work'[t] = work[t]
                              \/ ~Busy(t) /\ work'[t].pc = "idle"
                              \/ ~Busy(t) /\ work'[t].pc = "native" /\ stage[work'[t].req] = "new"
                              \/ ~Busy(t) /\ work'[t].pc = "find" /\ work[t].pc = "native" /\ work'[t].req = work[t].req,
           \A r \in Calls : /\ stage'[r] = "new" => stage[r] = "new"
                            /\ stage'[r] \in {"served", "sent", "back"} =>
                                 stage[r] \in {"served", "sent", "back"} \/ Requests[r].op \notin Meta
    PROVE  Signed'
<1>1. Tree(nodes)' /\ EntriesRight(nodes)'
  BY DEF Signed
<1>2. Working'
  BY DEF Signed, Working, Busy
<1>3. Fresh'
  <2> SUFFICES ASSUME NEW n \in DOMAIN nodes, n[1] # Null
               PROVE  stage'[n[1]] # "new" /\ \A t \in Threads : Past(n, job[t], work'[t])
    BY DEF Fresh
  <2>1. stage[n[1]] # "new" /\ (\A t \in Threads : Past(n, job[t], work[t])) /\ n[1] \in Calls
    BY DEF Signed, Fresh, Tree, Nodes, Ids
  <2>2. stage'[n[1]] # "new"
    BY <2>1
  <2>3. ASSUME NEW t \in Threads PROVE Past(n, job[t], work'[t])
    BY <2>1 DEF Past
  <2> QED BY <2>2, <2>3
<1>4. ReadyRight'
  <2>1. \A t \in Threads : work'[t].pc = "ready" => work'[t] = work[t]
    OBVIOUS
  <2> QED BY <2>1 DEF Signed, ReadyRight, Req
<1> QED BY <1>1, <1>2, <1>3, <1>4 DEF Signed

\* One that ends the job of a thread, or begins it.
LEMMA SignedJob ==
    ASSUME Signed, IInv, NEW t \in Threads, NEW w, NEW j, UNCHANGED nodes,
           work' = [work EXCEPT ![t] = w], job' = [job EXCEPT ![t] = j],
           w.pc = "add" <=> j # Null, j # Null => Sound(j, w, nodes),
           w.pc = "ready" => Right(Requests[w.req].op, Requests[w.req].type, w.def),
           w.pc \in {"idle", "add", "ready"},
           w.pc = "add" => work[t].pc = "find" /\ w.req = work[t].req,
           \A r \in Calls : stage'[r] = stage[r] \/ stage'[r] = "done"
    PROVE  Signed'
<1>0. work'[t] = w /\ job'[t] = j /\ \A u \in Threads : u # t => work'[u] = work[u] /\ job'[u] = job[u]
  BY DEF Signed, Working, IInv, Typed
<1>1. Tree(nodes)' /\ EntriesRight(nodes)'
  BY DEF Signed
<1>2. Working'
  <2>1. job' = [u \in Threads |-> job'[u]]
    BY DEF Signed, Working
  <2>2. ASSUME NEW u \in Threads
        PROVE  /\ work'[u].pc = "add" => job'[u] # Null
               /\ job'[u] # Null => Sound(job'[u], work'[u], nodes)
    <3>1. CASE u = t
      BY <1>0, <3>1
    <3>2. CASE u # t
      BY <1>0, <3>2 DEF Signed, Working, Busy
    <3> QED BY <3>1, <3>2
  <2> QED BY <2>1, <2>2 DEF Working, Busy
<1>3. Fresh'
  <2> SUFFICES ASSUME NEW n \in DOMAIN nodes, n[1] # Null
               PROVE  stage'[n[1]] # "new" /\ \A u \in Threads : Past(n, job'[u], work'[u])
    BY DEF Fresh
  <2>1. stage[n[1]] # "new" /\ (\A u \in Threads : Past(n, job[u], work[u])) /\ n[1] \in Calls
    BY DEF Signed, Fresh, Tree, Nodes, Ids
  <2>2. stage'[n[1]] # "new"
    BY <2>1
  <2>3. Past(n, j, w)
    BY <2>1 DEF Past
  <2> QED BY <1>0, <2>1, <2>2, <2>3
<1>4. ReadyRight'
  <2>1. \A u \in Threads : work'[u].pc = "ready" =>
          Right(Requests[work'[u].req].op, Requests[work'[u].req].type, work'[u].def)
    BY <1>0 DEF Signed, ReadyRight, Req
  <2> QED BY <2>1 DEF Signed, ReadyRight, Req
<1> QED BY <1>1, <1>2, <1>3, <1>4 DEF Signed

\* A step in add_interface, to the job j and the tree M.
LEMMA SignedAdd ==
    ASSUME Signed, IInv, NEW t \in Threads, NEW j, Busy(t), UNCHANGED <<work, stage>>,
           job' = [job EXCEPT ![t] = j], j # Null, Sound(j, work[t], nodes'),
           Tree(nodes'), EntriesRight(nodes'),
           \A n \in DOMAIN nodes : n \in DOMAIN nodes' /\ nodes'[n].name = nodes[n].name,
           \A n \in DOMAIN nodes' : n \notin DOMAIN nodes =>
               n[1] = work[t].req /\ n[2] = j.item /\ j.pc \notin {"search", "store"},
           \A n \in DOMAIN nodes : Past(n, job[t], work[t]) => Past(n, j, work[t])
    PROVE  Signed'
<1>0. job'[t] = j /\ \A u \in Threads : u # t => job'[u] = job[u]
  BY DEF Signed, Working
<1>a. work[t].pc = "add"
  BY DEF Signed, Working, Sound
<1>2. Working'
  <2>1. job' = [u \in Threads |-> job'[u]]
    BY DEF Signed, Working
  <2>2. ASSUME NEW u \in Threads
        PROVE  /\ work[u].pc = "add" => job'[u] # Null
               /\ job'[u] # Null => Sound(job'[u], work[u], nodes')
    <3>1. CASE u = t
      BY <1>0, <3>1
    <3>2. CASE u # t
      <4>1. job[u] # Null => Sound(job[u], work[u], nodes)
        BY DEF Signed, Working, Busy
      <4>2. Sound(job[u], work[u], nodes) => Sound(job[u], work[u], nodes')
        BY DEF Sound
      <4>3. work[u].pc = "add" => job[u] # Null
        BY DEF Signed, Working, Busy
      <4> QED BY <1>0, <3>2, <4>1, <4>2, <4>3
    <3> QED BY <3>1, <3>2
  <2> QED BY <2>1, <2>2 DEF Working, Busy
<1>3. Fresh'
  <2> SUFFICES ASSUME NEW n \in DOMAIN nodes', n[1] # Null
               PROVE  stage[n[1]] # "new" /\ \A u \in Threads : Past(n, job'[u], work[u])
    BY DEF Fresh
  <2>1. CASE n \in DOMAIN nodes
    <3>1. stage[n[1]] # "new" /\ \A u \in Threads : Past(n, job[u], work[u])
      BY <2>1 DEF Signed, Fresh
    <3> QED BY <1>0, <2>1, <3>1
  <2>2. CASE n \notin DOMAIN nodes
    <3>1. n[1] = work[t].req /\ n[2] = j.item /\ j.pc \notin {"search", "store"}
      BY <2>2
    <3>2. stage[n[1]] = "served"
      BY <1>a, <3>1 DEF IInv, InHand
    <3>3. Past(n, j, work[t])
      BY <1>a, <3>1 DEF Past
    <3>4. ASSUME NEW u \in Threads, u # t PROVE Past(n, job'[u], work[u])
      <4>1. ~(work[u].pc # "idle" /\ work[u].req = n[1])
        BY <1>a, <3>1, <3>4 DEF IInv, InHand
      <4> QED BY <4>1 DEF Past
    <3> QED BY <1>0, <3>2, <3>3, <3>4
  <2> QED BY <2>1, <2>2
<1>4. ReadyRight'
  BY DEF Signed, ReadyRight, Req
<1> QED BY <1>2, <1>3, <1>4 DEF Signed

\* What a thread has in hand in add_interface.
LEMMA InAdd ==
    ASSUME Signed, NEW t \in Threads, Busy(t)
    PROVE  /\ Sound(job[t], work[t], nodes)
           /\ Item(t) = Items(job[t].iface)[job[t].item] /\ Item(t) \in Catalogue(job[t].iface)
           /\ job[t].iface \in Interfaces /\ job[t].call \in Calls /\ job[t].item \in Nat
           /\ job[t].call = work[t].req /\ work[t].pc = "add"
<1>1. Sound(job[t], work[t], nodes)
  BY DEF Signed, Working
<1>2. job[t] \in Jobs /\ job[t].item \in 1 .. Len(Items(job[t].iface))
      /\ job[t].call = work[t].req /\ work[t].pc = "add"
  BY <1>1 DEF Sound
<1>3. job[t].iface \in Interfaces /\ job[t].call \in Calls /\ job[t].item \in Nat
  BY <1>2 DEF Jobs
<1>4. Item(t) = Items(job[t].iface)[job[t].item]
  BY DEF Item
<1>5. Item(t) \in Catalogue(job[t].iface)
  BY <1>2, <1>3, <1>4, ItemsAre
<1> QED BY <1>1, <1>2, <1>3, <1>4, <1>5

\* The four steps of add_interface keep the invariant: the search,
LEMMA SignedFindOrAdd ==
    ASSUME Signed, IInv, NEW t \in Threads, FindOrAdd(t), UNCHANGED <<work, stage>>
    PROVE  Signed'
<1> DEFINE s == Route(nodes, Item(t).name, ones)
           pc == IF s.link = "found" THEN "tail" ELSE "store"
           j == [job[t] EXCEPT !.at = s.at, !.link = s.link, !.pc = pc]
<1>1. Busy(t) /\ job[t].pc = "search" /\ UNCHANGED nodes
  BY DEF FindOrAdd, Busy
<1>2. Sound(job[t], work[t], nodes) /\ Item(t) = Items(job[t].iface)[job[t].item]
  BY <1>1, InAdd
<1>3. Search(Item(t).name, AddsRight) = s
  BY SearchIs DEF AddsRight
<1>4. job' = [job EXCEPT ![t] = j]
  BY <1>3 DEF FindOrAdd
<1>5. s \in Ends(nodes, Item(t).name, ones)
  BY SearchEnds DEF Signed
<1> HIDE DEF s
<1>6. /\ s.at \in DOMAIN nodes /\ s.link \in {"found"} \cup Kids
      /\ s.link = "found" => nodes[s.at].name = Item(t).name
  BY <1>5 DEF Ends
<1>7. s.at \in Ids
  BY <1>6 DEF Signed, Tree, Nodes
<1>8. job[t] \in Jobs
  BY <1>2 DEF Sound
<1>9. /\ j.call = job[t].call /\ j.iface = job[t].iface /\ j.item = job[t].item /\ j.rep = job[t].rep
      /\ j.at = s.at /\ j.link = s.link /\ j.pc = pc /\ j \in Jobs
  BY <1>6, <1>7, <1>8 DEF Jobs, Kids
<1> HIDE DEF j
<1>10. Sound(j, work[t], nodes)
  BY <1>2, <1>6, <1>9 DEF Sound
<1>11. j # Null
  BY <1>9, NullAssumption
<1>12. \A n \in DOMAIN nodes : Past(n, job[t], work[t]) => Past(n, j, work[t])
  BY <1>1, <1>9 DEF Past, Busy
<1>13. Tree(nodes') /\ EntriesRight(nodes')
  BY <1>1 DEF Signed
<1> QED BY <1>1, <1>4, <1>10, <1>11, <1>12, <1>13, SignedAdd

\* StoreNode makes a node that there was not.
LEMMA StoresNew ==
    ASSUME Signed, NEW t \in Threads, StoreNode(t)
    PROVE  /\ Id(t) \in Ids /\ Id(t) \notin DOMAIN nodes /\ Id(t)[1] = work[t].req /\ Id(t)[2] = job[t].item
           /\ job[t].at \in DOMAIN nodes /\ job[t].link \in Kids /\ Item(t).name \in Names
           /\ Grows(nodes', nodes, Id(t), job[t].at, job[t].link, Item(t).name)
<1>1. Busy(t) /\ job[t].pc = "store"
  BY DEF StoreNode, Busy
<1>2. /\ Sound(job[t], work[t], nodes) /\ Item(t) \in Catalogue(job[t].iface)
      /\ job[t].iface \in Interfaces /\ job[t].call \in Calls /\ job[t].item \in Nat
      /\ job[t].call = work[t].req /\ work[t].pc = "add"
  BY <1>1, InAdd
<1>3. Id(t) = <<job[t].call, job[t].item>> /\ Id(t) \in Ids
  BY <1>2 DEF Id, Ids
<1>4. Id(t) \notin DOMAIN nodes
  <2> SUFFICES ASSUME Id(t) \in DOMAIN nodes PROVE FALSE
    OBVIOUS
  <2>1. Past(Id(t), job[t], work[t])
    BY <1>2, <1>3, NullAssumption DEF Signed, Fresh
  <2> QED BY <1>1, <1>2, <1>3, <2>1 DEF Past, Busy
<1>5. job[t].at \in DOMAIN nodes /\ job[t].link \in Kids
  BY <1>1, <1>2 DEF Sound
<1>6. Item(t).name \in Names
  BY <1>2, CatalogueRight
<1>7. Grows(nodes', nodes, Id(t), job[t].at, job[t].link, Item(t).name)
  BY DEF StoreNode, Grows, Linked
<1>8. Id(t)[1] = work[t].req /\ Id(t)[2] = job[t].item
  BY <1>2, <1>3
<1> QED BY <1>3, <1>4, <1>5, <1>6, <1>7, <1>8

\* the new node,
LEMMA SignedStoreNode ==
    ASSUME Signed, IInv, NEW t \in Threads, StoreNode(t), UNCHANGED <<work, stage>>
    PROVE  Signed'
<1> DEFINE x == Id(t)
           at == job[t].at
           l == job[t].link
           nm == Item(t).name
           j == [job[t] EXCEPT !.at = x, !.pc = "tail"]
<1>1. Busy(t) /\ job[t].pc = "store" /\ job' = [job EXCEPT ![t] = j]
  BY DEF StoreNode, Busy
<1>2. Sound(job[t], work[t], nodes) /\ nm = Items(job[t].iface)[job[t].item].name
  BY <1>1, InAdd
<1>3. /\ x \in Ids /\ x \notin DOMAIN nodes /\ x[1] = work[t].req /\ x[2] = job[t].item
      /\ at \in DOMAIN nodes /\ l \in Kids /\ nm \in Names /\ Grows(nodes', nodes, x, at, l, nm)
  BY StoresNew
<1>4. job[t] \in Jobs
  BY <1>2 DEF Sound
<1>5. /\ j.call = job[t].call /\ j.iface = job[t].iface /\ j.item = job[t].item /\ j.rep = job[t].rep
      /\ j.at = x /\ j.pc = "tail" /\ j \in Jobs
  BY <1>3, <1>4 DEF Jobs
<1> HIDE DEF j, x, at, l, nm
<1>6. Tree(nodes') /\ Grown(nodes', nodes, x, at, l, nm)
  <2>1. Tree(nodes) /\ Nodes(nodes)
    BY DEF Signed, Tree
  <2>2. Tree(nodes')
    BY <1>3, <2>1, GrownTree
  <2>3. Grown(nodes', nodes, x, at, l, nm)
    BY <1>3, <2>1, GrownNodes
  <2> QED BY <2>2, <2>3
<1>7. /\ DOMAIN nodes' = DOMAIN nodes \cup {x} /\ nodes'[x].name = nm /\ nodes'[x].set = <<>>
      /\ \A n \in DOMAIN nodes : nodes'[n].name = nodes[n].name /\ nodes'[n].set = nodes[n].set
  BY <1>6 DEF Grown
<1>8. Sound(j, work[t], nodes')
  BY <1>2, <1>5, <1>7 DEF Sound
<1>9. j # Null
  BY <1>5, NullAssumption
<1>10. \A n \in DOMAIN nodes : Past(n, job[t], work[t]) => Past(n, j, work[t])
  BY <1>1, <1>5 DEF Past, Busy
<1>11. EntriesRight(nodes')
  <2>1. Len(nodes'[x].set) = 0
    BY <1>7
  <2> QED BY <1>7, <2>1 DEF Signed, EntriesRight
<1>12. /\ \A n \in DOMAIN nodes : n \in DOMAIN nodes' /\ nodes'[n].name = nodes[n].name
       /\ \A n \in DOMAIN nodes' : n \notin DOMAIN nodes =>
            n[1] = work[t].req /\ n[2] = j.item /\ j.pc \notin {"search", "store"}
  BY <1>3, <1>5, <1>7
<1> QED BY <1>1, <1>6, <1>8, <1>9, <1>10, <1>11, <1>12, SignedAdd

\* the end of the chain
LEMMA SignedSeekTail ==
    ASSUME Signed, IInv, NEW t \in Threads, SeekTail(t), UNCHANGED <<work, stage>>
    PROVE  Signed'
<1> DEFINE set == nodes[job[t].at].set
           seen == IF set = <<>> THEN Null ELSE Last(set)
           j == [job[t] EXCEPT !.seen = seen, !.pc = "append"]
<1>1. Busy(t) /\ job[t].pc = "tail" /\ UNCHANGED nodes /\ job' = [job EXCEPT ![t] = j]
  BY DEF SeekTail, Busy
<1>2. Sound(job[t], work[t], nodes)
  BY <1>1, InAdd
<1>3. job[t] \in Jobs /\ job[t].at \in DOMAIN nodes
  BY <1>1, <1>2 DEF Sound
<1>4. set \in Seq(Entries)
  BY <1>3 DEF Signed, Tree, Nodes, Operations
<1>5. seen \in Entries \cup {Null}
  <2> HIDE DEF set
  <2>1. set # <<>> => Len(set) \in 1 .. Len(set) /\ set[Len(set)] \in Entries
    BY <1>4, EmptySeq, LenProperties, ElementOfSeq
  <2> QED BY <2>1 DEF Last
<1> HIDE DEF seen
<1>6. /\ j.call = job[t].call /\ j.iface = job[t].iface /\ j.item = job[t].item /\ j.rep = job[t].rep
      /\ j.at = job[t].at /\ j.link = job[t].link /\ j.pc = "append" /\ j \in Jobs
  BY <1>3, <1>5 DEF Jobs
<1> HIDE DEF j
<1>7. Sound(j, work[t], nodes)
  BY <1>1, <1>2, <1>6 DEF Sound
<1>8. j # Null
  BY <1>6, NullAssumption
<1>9. \A n \in DOMAIN nodes : Past(n, job[t], work[t]) => Past(n, j, work[t])
  BY <1>1, <1>6 DEF Past, Busy
<1>10. Tree(nodes') /\ EntriesRight(nodes')
  BY <1>1 DEF Signed
<1> QED BY <1>1, <1>7, <1>8, <1>9, <1>10, SignedAdd

\* Where a call goes on from an entry it has made.
LEMMA MovesOn ==
    ASSUME NEW j, NEW w, NEW N, Sound(j, w, N), j.pc = "append"
    PROVE  LET x == Items(j.iface)[j.item]
               m == Moved(j)
           IN /\ m \in Jobs /\ m.call = j.call /\ m.iface = j.iface /\ m.at = j.at
              /\ \/ /\ j.rep < Len(x.reps) /\ m.item = j.item /\ m.rep = j.rep + 1 /\ m.pc = "tail"
                 \/ /\ j.rep = Len(x.reps) /\ j.item < Len(Items(j.iface))
                    /\ m.item = j.item + 1 /\ m.rep = 1 /\ m.pc = "search"
                 \/ /\ j.rep = Len(x.reps) /\ j.item = Len(Items(j.iface))
                    /\ m.item = j.item /\ m.rep = j.rep /\ m.pc = "added"
<1> DEFINE x == Items(j.iface)[j.item]
           n == Len(Items(j.iface))
           m == Moved(j)
<1>1. j \in Jobs /\ j.item \in 1 .. n /\ j.rep \in 1 .. Len(x.reps)
  BY DEF Sound
<1>2. j.iface \in Interfaces /\ j.item \in Nat /\ j.rep \in Nat
  BY <1>1 DEF Jobs
<1>3. n \in Nat /\ x \in Catalogue(j.iface)
  BY <1>1, <1>2, ItemsAre
<1>4. Len(x.reps) \in Nat
  BY <1>2, <1>3, CatalogueRight
<1>5. m = CASE j.rep < Len(x.reps) -> [j EXCEPT !.rep = @ + 1, !.pc = "tail"]
            [] j.rep = Len(x.reps) /\ j.item < n -> [j EXCEPT !.item = @ + 1, !.rep = 1, !.pc = "search"]
            [] OTHER -> [j EXCEPT !.pc = "added"]
  BY DEF Moved
<1> HIDE DEF m, n, x
<1>6. CASE j.rep < Len(x.reps)
  <2>1. m = [j EXCEPT !.rep = @ + 1, !.pc = "tail"]
    BY <1>2, <1>4, <1>5, <1>6
  <2>2. /\ m \in Jobs /\ m.call = j.call /\ m.iface = j.iface /\ m.at = j.at
        /\ m.item = j.item /\ m.rep = j.rep + 1 /\ m.pc = "tail"
    <3> DEFINE v == j.rep + 1
    <3>1. v \in Nat /\ m = [j EXCEPT !.rep = v, !.pc = "tail"]
      BY <1>2, <2>1
    <3> HIDE DEF v
    <3>2. /\ m \in Jobs /\ m.call = j.call /\ m.iface = j.iface /\ m.at = j.at
          /\ m.item = j.item /\ m.rep = v /\ m.pc = "tail"
      BY <1>1, <3>1 DEF Jobs
    <3> QED BY <3>2 DEF v
  <2> QED BY <1>6, <2>2 DEF m, x
<1>7. CASE j.rep = Len(x.reps) /\ j.item < n
  <2>1. m = [j EXCEPT !.item = @ + 1, !.rep = 1, !.pc = "search"]
    BY <1>2, <1>4, <1>5, <1>7
  <2>2. /\ m \in Jobs /\ m.call = j.call /\ m.iface = j.iface /\ m.at = j.at
        /\ m.item = j.item + 1 /\ m.rep = 1 /\ m.pc = "search"
    <3> DEFINE v == j.item + 1
    <3>1. v \in Nat /\ m = [j EXCEPT !.item = v, !.rep = 1, !.pc = "search"]
      BY <1>2, <2>1
    <3> HIDE DEF v
    <3>2. /\ m \in Jobs /\ m.call = j.call /\ m.iface = j.iface /\ m.at = j.at
          /\ m.item = v /\ m.rep = 1 /\ m.pc = "search"
      BY <1>1, <3>1 DEF Jobs
    <3> QED BY <3>2 DEF v
  <2> QED BY <1>7, <2>2 DEF m, x, n
<1>8. CASE j.rep = Len(x.reps) /\ j.item = n
  <2>1. m = [j EXCEPT !.pc = "added"]
    BY <1>2, <1>3, <1>4, <1>5, <1>8
  <2>2. /\ m \in Jobs /\ m.call = j.call /\ m.iface = j.iface /\ m.at = j.at
        /\ m.item = j.item /\ m.rep = j.rep /\ m.pc = "added"
    BY <1>1, <2>1 DEF Jobs
  <2> QED BY <1>8, <2>2 DEF m, x, n
<1>9. \/ j.rep < Len(x.reps) \/ (j.rep = Len(x.reps) /\ j.item < n) \/ (j.rep = Len(x.reps) /\ j.item = n)
  BY <1>1, <1>2, <1>3, <1>4
<1> QED BY <1>6, <1>7, <1>8, <1>9

\* The entry that a thread makes.
Made(t) == OpArgs(Item(t).reps[job[t].rep], Item(t).def, <<job[t].call, job[t].item, job[t].rep>>)

\* AppendEntry changes one chain of entries, and adds a right one.
LEMMA AppendsRight ==
    ASSUME Signed, NEW t \in Threads, AppendEntry(t)
    PROVE  /\ Rechained(nodes', nodes) /\ Made(t) \in Entries
           /\ Right(Item(t).name, Made(t).rep, Made(t).def)
           /\ job[t].at \in DOMAIN nodes /\ nodes[job[t].at].name = Item(t).name
           /\ nodes'[job[t].at].set = Appended(nodes[job[t].at].set, job[t].seen, Made(t))
           /\ \A n \in DOMAIN nodes : n # job[t].at => nodes'[n] = nodes[n]
<1> DEFINE at == job[t].at
           x == Item(t)
           e == Made(t)
           new == Appended(nodes[at].set, job[t].seen, e)
<1>1. Busy(t) /\ job[t].pc = "append"
  BY DEF AppendEntry, Busy
<1>2. /\ Sound(job[t], work[t], nodes) /\ x = Items(job[t].iface)[job[t].item] /\ x \in Catalogue(job[t].iface)
      /\ job[t].iface \in Interfaces /\ job[t].call \in Calls /\ job[t].item \in Nat
  BY <1>1, InAdd
<1>3. at \in DOMAIN nodes /\ nodes[at].name = x.name /\ job[t].rep \in 1 .. Len(x.reps) /\ job[t].rep \in Nat
  BY <1>1, <1>2 DEF Sound, Jobs
<1>4. x.def \in Interfaces \cup {Object} /\ x.reps[job[t].rep] \in Interfaces
      /\ Right(x.name, x.reps[job[t].rep], x.def)
  BY <1>2, <1>3, CatalogueRight
<1>5. e \in Entries /\ e.rep = x.reps[job[t].rep] /\ e.def = x.def
  BY <1>2, <1>3, <1>4 DEF Made, OpArgs, Entries
<1>6. nodes' = [nodes EXCEPT ![at].set = new]
  BY DEF AppendEntry, Made
<1>7. Nodes(nodes) /\ nodes[at] \in Operations /\ nodes[at].set \in Seq(Entries)
  BY <1>3 DEF Signed, Tree, Nodes, Operations
<1>8. new \in Seq(Entries)
  <2> HIDE DEF e
  <2> QED BY <1>5, <1>7, AppendedIn
<1> HIDE DEF new, e, x
<1>9. nodes' = [n \in DOMAIN nodes |-> IF n = at THEN [nodes[at] EXCEPT !.set = new] ELSE nodes[n]]
  BY <1>6, <1>7 DEF Nodes
<1>10. /\ [nodes[at] EXCEPT !.set = new] \in Operations
       /\ [nodes[at] EXCEPT !.set = new].name = nodes[at].name
       /\ [nodes[at] EXCEPT !.set = new].set = new
       /\ \A k \in Kids : [nodes[at] EXCEPT !.set = new][k] = nodes[at][k]
  BY <1>7, <1>8 DEF Operations, Kids
<1>11. Rechained(nodes', nodes)
  BY <1>7, <1>9, <1>10 DEF Rechained, Nodes
<1>12. nodes'[at].set = new /\ \A n \in DOMAIN nodes : n # at => nodes'[n] = nodes[n]
  BY <1>3, <1>9, <1>10
<1> QED BY <1>3, <1>4, <1>5, <1>11, <1>12 DEF new, e, x

\* and the new entry;
LEMMA SignedAppendEntry ==
    ASSUME Signed, IInv, NEW t \in Threads, AppendEntry(t), UNCHANGED <<work, stage>>
    PROVE  Signed'
<1> DEFINE at == job[t].at
           x == Item(t)
           e == Made(t)
           j == Moved(job[t])
<1>1. Busy(t) /\ job[t].pc = "append" /\ job' = [job EXCEPT ![t] = j]
  BY DEF AppendEntry, Busy, Signed, Working
<1>2. /\ Sound(job[t], work[t], nodes) /\ x = Items(job[t].iface)[job[t].item]
      /\ job[t].iface \in Interfaces /\ job[t].item \in Nat
  BY <1>1, InAdd
<1>3. /\ Rechained(nodes', nodes) /\ e \in Entries /\ Right(x.name, e.rep, e.def)
      /\ at \in DOMAIN nodes /\ nodes[at].name = x.name
      /\ nodes'[at].set = Appended(nodes[at].set, job[t].seen, e)
      /\ \A n \in DOMAIN nodes : n # at => nodes'[n] = nodes[n]
  BY AppendsRight
<1>4. /\ j \in Jobs /\ j.call = job[t].call /\ j.iface = job[t].iface /\ j.at = at
      /\ \/ /\ job[t].rep < Len(x.reps) /\ j.item = job[t].item /\ j.rep = job[t].rep + 1 /\ j.pc = "tail"
         \/ /\ job[t].rep = Len(x.reps) /\ job[t].item < Len(Items(job[t].iface))
            /\ j.item = job[t].item + 1 /\ j.rep = 1 /\ j.pc = "search"
         \/ /\ job[t].rep = Len(x.reps) /\ job[t].item = Len(Items(job[t].iface))
            /\ j.item = job[t].item /\ j.rep = job[t].rep /\ j.pc = "added"
  BY <1>1, <1>2, MovesOn
<1>5. job[t].item \in 1 .. Len(Items(job[t].iface)) /\ job[t].rep \in 1 .. Len(x.reps)
  BY <1>2 DEF Sound
<1> HIDE DEF e, j, x
<1>6. Tree(nodes') /\ DOMAIN nodes' = DOMAIN nodes
      /\ \A n \in DOMAIN nodes : n \in DOMAIN nodes' /\ nodes'[n].name = nodes[n].name
  BY <1>3, ChainsApart DEF Signed, Rechained
<1>7. EntriesRight(nodes')
  <2> SUFFICES ASSUME NEW n \in DOMAIN nodes, NEW k \in 1 .. Len(nodes'[n].set)
               PROVE  Right(nodes[n].name, nodes'[n].set[k].rep, nodes'[n].set[k].def)
    BY <1>6 DEF EntriesRight
  <2>1. CASE n # at
    BY <1>3, <2>1 DEF Signed, EntriesRight
  <2>2. CASE n = at
    <3> DEFINE s == nodes[at].set
               a == Appended(s, job[t].seen, e)
    <3>1. s \in Seq(Entries)
      BY <1>3 DEF Signed, Tree, Nodes, Operations
    <3>2. \A p \in 1 .. Len(s) : Right(x.name, s[p].rep, s[p].def)
      BY <1>3 DEF Signed, EntriesRight
    <3>3. nodes'[n].set = a /\ k \in 1 .. Len(a)
      BY <1>3, <2>2
    <3> HIDE DEF s
    <3>4. a[k] = e \/ \E p \in 1 .. Len(s) : a[k] = s[p]
      BY <1>3, <3>1, <3>3, AppendedIn
    <3> HIDE DEF a
    <3> QED BY <1>3, <2>2, <3>2, <3>3, <3>4
  <2> QED BY <2>1, <2>2
<1>8. Sound(j, work[t], nodes')
  <2>1. /\ j \in Jobs /\ work[t].pc = "add" /\ j.call = work[t].req /\ work[t].req \in Calls
        /\ j.iface = Requests[work[t].req].type
    BY <1>2, <1>4 DEF Sound
  <2> DEFINE y == Items(j.iface)[j.item]
             n == Len(Items(job[t].iface))
  <2>2. n \in Nat
    BY <1>2, ItemsAre
  <2>3. j.item \in 1 .. Len(Items(j.iface))
    <3> HIDE DEF n
    <3>1. j.item \in 1 .. n
      BY <1>4, <1>5, <2>2 DEF n
    <3> QED BY <1>4, <3>1 DEF n
  <2>4. y \in Catalogue(job[t].iface)
    BY <1>2, <1>4, <2>3, ItemsAre
  <2>5. Len(y.reps) \in Nat \ {0} /\ Len(x.reps) \in Nat
    <3>1. Len(y.reps) \in Nat \ {0}
      BY <1>2, <2>4, CatalogueRight
    <3>2. x \in Catalogue(job[t].iface)
      BY <1>2, <1>5, ItemsAre
    <3> QED BY <1>2, <3>1, <3>2, CatalogueRight
  <2>6. j.item = job[t].item => y = x
    BY <1>2, <1>4
  <2> HIDE DEF y
  <2>7. j.rep \in 1 .. Len(y.reps)
    BY <1>4, <1>5, <2>5, <2>6
  <2>8. j.pc # "store" /\ (j.pc \in {"tail", "append"} => j.at \in DOMAIN nodes' /\ nodes'[j.at].name = y.name)
    BY <1>3, <1>4, <1>6, <2>6
  <2> QED BY <2>1, <2>3, <2>7, <2>8 DEF Sound, y
<1>9. j # Null
  BY <1>4, NullAssumption
<1>10. \A n \in DOMAIN nodes : Past(n, job[t], work[t]) => Past(n, j, work[t])
  <2>1. \A n \in DOMAIN nodes : n[2] \in Nat
    BY DEF Signed, Tree, Nodes, Ids
  <2> QED BY <1>1, <1>2, <1>4, <2>1 DEF Past, Busy
<1> QED BY <1>1, <1>6, <1>7, <1>8, <1>9, <1>10, SignedAdd

\* A call begins soundly.
LEMMA BegunSound ==
    ASSUME NEW r \in Calls, NEW w, w.pc = "add", w.req = r, NEW N
    PROVE  Sound(Begun(r, Requests[r].type), w, N) /\ Begun(r, Requests[r].type) # Null
<1> DEFINE i == Requests[r].type
           j == Begun(r, i)
<1>1. i \in Interfaces
  BY RequestAssumption
<1> HIDE DEF i
<1>2. /\ j.call = r /\ j.iface = i /\ j.item = 1 /\ j.rep = 1 /\ j.pc = "search" /\ j \in Jobs
  BY <1>1 DEF Begun, Jobs
<1>3. 1 \in 1 .. Len(Items(i)) /\ Items(i)[1] \in Catalogue(i)
  BY <1>1, ItemsAre
<1>4. 1 \in 1 .. Len(Items(i)[1].reps)
  <2>1. Len(Items(i)[1].reps) \in Nat \ {0}
    BY <1>1, <1>3, CatalogueRight
  <2> QED BY <2>1
<1> HIDE DEF j
<1>5. Sound(j, w, N)
  BY <1>2, <1>3, <1>4 DEF Sound, i
<1> QED BY <1>2, <1>5, NullAssumption DEF i, j

\* and so does every step of the proxy.
LEMMA SignedStep == IInv /\ Signed /\ [Next]_vars => Signed'
<1> SUFFICES ASSUME IInv, Signed, [Next]_vars PROVE Signed'
  OBVIOUS
<1>b. \A t \in Threads : Busy(t) <=> work[t].pc = "add"
  BY DEF Signed, Working, Sound
<1>w. work = [t \in Threads |-> work[t]] /\ stage \in [Calls -> Stages]
  BY DEF IInv, Typed
<1>h. \A t \in Threads : work[t].pc # "idle" => work[t].req \in Calls /\ stage[work[t].req] = "served"
  BY DEF IInv, InHand
<1>1. ASSUME NEW t \in Threads, NEW r \in Calls, Dispatch(t, r) PROVE Signed'
  <2>1. /\ work[t].pc = "idle" /\ stage[r] = "new" /\ Requests[r].op \notin Meta
        /\ stage' = [stage EXCEPT ![r] = "served"] /\ UNCHANGED <<nodes, job>>
        /\ work' = [work EXCEPT ![t] = [req |-> r, pc |-> "native", def |-> Null]]
    BY <1>1 DEF Dispatch, At, Go, tableVars
  <2>2. \A u \in Threads : \/ work'[u] = work[u]
                           \/ ~Busy(u) /\ work'[u].pc = "native" /\ stage[work'[u].req] = "new"
    BY <1>b, <1>w, <2>1
  <2>3. \A q \in Calls : /\ stage'[q] = "new" => stage[q] = "new"
                         /\ stage'[q] \in {"served", "sent", "back"} =>
                              stage[q] \in {"served", "sent", "back"} \/ Requests[q].op \notin Meta
    BY <1>w, <2>1
  <2> QED BY <2>1, <2>2, <2>3, SignedAside
<1>2. ASSUME UNCHANGED <<nodes, job, work>>, NEW r \in Calls,
             \/ stage' = [stage EXCEPT ![r] = "done"]
             \/ stage[r] = "sent" /\ stage' = [stage EXCEPT ![r] = "back"]
             \/ UNCHANGED stage
      PROVE  Signed'
  <2>1. \A q \in Calls : /\ stage'[q] = "new" => stage[q] = "new"
                         /\ stage'[q] \in {"served", "sent", "back"} =>
                              stage[q] \in {"served", "sent", "back"} \/ Requests[q].op \notin Meta
    BY <1>w, <1>2
  <2> QED BY <1>2, <2>1, SignedAside
<1>3. ASSUME NEW t \in Threads, Evaluate(t) PROVE Signed'
  <2>1. /\ work[t].pc = "native" /\ UNCHANGED <<nodes, job, stage>>
        /\ work' = [work EXCEPT ![t] = [req |-> work[t].req, pc |-> "find", def |-> Null]]
    BY <1>3 DEF Evaluate, At, Go, tableVars
  <2>2. \A u \in Threads :
          \/ work'[u] = work[u]
          \/ ~Busy(u) /\ work'[u].pc = "find" /\ work[u].pc = "native" /\ work'[u].req = work[u].req
    BY <1>b, <1>w, <2>1
  <2> QED BY <2>1, <2>2, SignedAside
<1>4. ASSUME NEW t \in Threads, Throw(t) PROVE Signed'
  <2>1. /\ UNCHANGED nodes /\ job' = [job EXCEPT ![t] = Null] /\ work' = [work EXCEPT ![t] = Idle]
        /\ stage' = [stage EXCEPT ![work[t].req] = "done"]
    BY <1>4 DEF Throw, Leave
  <2>2. Idle.pc = "idle" /\ \A r \in Calls : stage'[r] = stage[r] \/ stage'[r] = "done"
    BY <1>w, <2>1 DEF Idle
  <2> HIDE DEF Idle
  <2> QED BY <2>1, <2>2, SignedJob
<1>5. ASSUME NEW t \in Threads, FindSignature(t) PROVE Signed'
  <2> DEFINE r == work[t].req
             i == Requests[r].type
             def == Find(Requests[r].op, i)
             w == [req |-> r, pc |-> IF def = Null THEN "add" ELSE "ready", def |-> def]
             j == IF def = Null THEN Begun(r, i) ELSE Null
  <2>1. /\ work[t].pc = "find" /\ UNCHANGED <<nodes, stage>>
        /\ work' = [work EXCEPT ![t] = w] /\ job' = [job EXCEPT ![t] = j]
    BY <1>5 DEF FindSignature, At, Go, Req
  <2>2. r \in Calls
    BY <1>h, <2>1
  <2>3. def # Null => Right(Requests[r].op, i, def)
    BY FindRight DEF Signed
  <2> HIDE DEF def
  <2>4. w.req = r /\ w.pc = (IF def = Null THEN "add" ELSE "ready") /\ w.def = def
    OBVIOUS
  <2> HIDE DEF w, r
  <2>5. def = Null => Sound(j, w, nodes) /\ j # Null
    BY <2>2, <2>4, BegunSound
  <2>6. /\ w.pc = "add" <=> j # Null
        /\ j # Null => Sound(j, w, nodes)
        /\ w.pc \in {"idle", "add", "ready"}
        /\ w.pc = "ready" => Right(Requests[w.req].op, Requests[w.req].type, w.def)
        /\ w.pc = "add" => work[t].pc = "find" /\ w.req = work[t].req
    BY <2>1, <2>3, <2>4, <2>5 DEF r
  <2> HIDE DEF j
  <2> QED BY <2>1, <2>6, SignedJob
<1>6. ASSUME NEW t \in Threads, Add(t) PROVE Signed'
  <2>1. UNCHANGED <<work, stage>> /\ AddInterface(t)
    BY <1>6 DEF Add, invocationVars
  <2> QED BY <2>1, SignedFindOrAdd, SignedStoreNode, SignedSeekTail, SignedAppendEntry DEF AddInterface
<1>7. ASSUME NEW t \in Threads, Added(t) PROVE Signed'
  <2> DEFINE r == work[t].req
             def == Desired(job[t].iface, Requests[r].op)
             w == IF def = Null THEN Idle ELSE [req |-> r, pc |-> "ready", def |-> def]
  <2>1. /\ work[t].pc = "add" /\ UNCHANGED <<nodes, stage>>
        /\ work' = [work EXCEPT ![t] = w] /\ job' = [job EXCEPT ![t] = Null]
    BY <1>7 DEF Added, At, Go, Leave, Req
  <2>2. job[t].iface = Requests[r].type /\ job[t].iface \in Interfaces
    <3>1. Busy(t)
      BY <1>b, <2>1
    <3> QED BY <3>1, InAdd DEF Sound
  <2>3. def # Null => Right(Requests[r].op, Requests[r].type, def)
    BY <2>2, DesiredRight
  <2> HIDE DEF def
  <2>4. w.pc \in {"idle", "ready"} /\ (w.pc = "ready" => w.req = r /\ w.def = def /\ def # Null)
    BY DEF Idle
  <2> HIDE DEF w
  <2>5. w.pc = "ready" => Right(Requests[w.req].op, Requests[w.req].type, w.def)
    BY <2>3, <2>4
  <2> QED BY <2>1, <2>4, <2>5, SignedJob
<1>8. ASSUME NEW t \in Threads, Forward(t) PROVE Signed'
  <2>1. /\ work[t].pc = "ready" /\ UNCHANGED <<nodes, job>> /\ work' = [work EXCEPT ![t] = Idle]
        /\ stage' = [stage EXCEPT ![work[t].req] = IF Req(t).mode = "twoway" THEN "sent" ELSE "done"]
    BY <1>8 DEF Forward, At, Leave, tableVars
  <2>2. \A u \in Threads : work'[u] = work[u] \/ (~Busy(u) /\ work'[u].pc = "idle")
    BY <1>b, <1>w, <2>1 DEF Idle
  <2>3. \A q \in Calls : /\ stage'[q] = "new" => stage[q] = "new"
                         /\ stage'[q] \in {"served", "sent", "back"} =>
                              stage[q] \in {"served", "sent", "back"} \/ Requests[q].op \notin Meta
    BY <1>h, <1>w, <2>1
  <2> QED BY <2>1, <2>2, <2>3, SignedAside
<1>9. ASSUME NEW t \in Threads, NEW r \in Calls, DispatchMeta(t, r) \/ DispatchForwarded(t, r) PROVE Signed'
  <2>1. UNCHANGED <<nodes, job, work>> /\ stage' = [stage EXCEPT ![r] = "done"]
    BY <1>9 DEF DispatchMeta, DispatchForwarded, tableVars
  <2> QED BY <1>2, <2>1
<1>10. ASSUME NEW t \in Threads, NEW r \in Calls, Handle(t, r) PROVE Signed'
  <2>1. \E kind : Handling(t, r, kind)
    BY <1>10 DEF Handle, HandleResponse, HandleResponseThrows, HandleUser, HandleThrows, HandleSystem, HandleNonstandard,
                 HandleForward, HandleUnknown
  <2>2. UNCHANGED <<nodes, job, work>> /\ stage' = [stage EXCEPT ![r] = "done"]
    BY <2>1 DEF Handling, tableVars
  <2> QED BY <1>2, <2>2
<1>11. ASSUME NEW r \in Calls, TargetReplies(r) PROVE Signed'
  <2>1. UNCHANGED <<nodes, job, work>> /\ stage[r] = "sent" /\ stage' = [stage EXCEPT ![r] = "back"]
    BY <1>11 DEF TargetReplies, tableVars
  <2> QED BY <1>2, <2>1
<1>12. CASE UNCHANGED vars
  <2>1. UNCHANGED <<nodes, job, work, stage>>
    BY <1>12 DEF vars, tableVars, invocationVars
  <2> QED BY <2>1, SignedAside
<1> QED BY <1>1, <1>3, <1>4, <1>5, <1>6, <1>7, <1>8, <1>9, <1>10, <1>11, <1>12 DEF Next, Serve

\* However many threads overlap on the table of operations, and whatever numbers
\* strcmp returns, the signature that a request, a reply or an exception is taken
\* apart by is the one the repository has for it, if names are reserved and
\* inherited as IDL demands and requests are for operations of their type or of a
\* direct base.
THEOREM SignaturesRight ==
    ASSUME ImplicitReserved, Unambiguous, WithinReach
    PROVE  Spec => []SignatureRight
<1>1. IInv /\ Signed => SignatureRight
  <2> SUFFICES ASSUME IInv, Signed PROVE SignatureRight
    OBVIOUS
  <2>1. ASSUME NEW r \in Calls, stage[r] \in {"served", "sent", "back"}, NEW def,
               Right(Requests[r].op, Requests[r].type, def)
        PROVE  def = Defined(Requests[r].op, Requests[r].type)
    <3>1. Requests[r].op \notin Meta
      BY <2>1 DEF Signed, ReadyRight
    <3>2. \/ Requests[r].op \in Implicit
          \/ \E y \in ToSet(Visited(Requests[r].type)) : Requests[r].op \in ToSet(Own[y])
      BY <3>1 DEF WithinReach, Reached
    <3>3. Requests[r].type \in Interfaces
      BY RequestAssumption
    <3> QED BY <2>1, <3>2, <3>3, RightIsDefined
  <2>2. ASSUME NEW t \in Threads, work[t].pc = "ready"
        PROVE  work[t].def = Defined(Req(t).op, Req(t).type)
    <3>1. work[t].req \in Calls /\ stage[work[t].req] = "served"
      BY <2>2 DEF IInv, InHand
    <3>2. Right(Requests[work[t].req].op, Requests[work[t].req].type, work[t].def)
      BY <2>2 DEF Signed, ReadyRight, Req
    <3> QED BY <2>1, <3>1, <3>2 DEF Req
  <2>3. ASSUME NEW r \in Calls, stage[r] \in {"sent", "back"}, Signature(r) # Null
        PROVE  Signature(r) = Defined(Requests[r].op, Requests[r].type)
    <3>1. Right(Requests[r].op, Requests[r].type, Signature(r))
      BY <2>3, FindRight DEF Signed, Signature
    <3> QED BY <2>1, <2>3, <3>1
  <2> QED BY <2>2, <2>3 DEF SignatureRight
<1> QED BY <1>1, Initially, Steps, SignedInit, SignedStep, PTL DEF Spec

-----------------------------------------------------------------------------
(***************************************************************************)
(* With a single thread nothing is lost from the table.                    *)
(***************************************************************************)
Single == \A t, u \in Threads : t = u

\* There is an entry for the interface where the name is found.
Has(N, R, name, rep) ==
    LET s == Route(N, name, R)
    IN s.link = "found" /\ \E k \in 1 .. Len(N[s.at].set) : N[s.at].set[k].rep = rep

\* Nothing has changed since the thread with job j has looked.
Placed(j, N, R) ==
    LET s   == Route(N, Items(j.iface)[j.item].name, R)
        set == N[j.at].set
    IN /\ j.pc = "store" => s = [at |-> j.at, link |-> j.link]
       /\ j.pc \in {"tail", "append"} => s = [at |-> j.at, link |-> "found"]
       /\ j.pc = "append" => j.seen = IF set = <<>> THEN Null ELSE set[Len(set)]

\* The p-th interface of the i-th item has been entered, if Before; and is in the table.
Before(j, i, p) == i < j.item \/ (i = j.item /\ p < j.rep) \/ j.pc = "added"

Entering(j, N, R) ==
    \A i \in 1 .. Len(Items(j.iface)) : \A p \in 1 .. Len(Items(j.iface)[i].reps) :
        Before(j, i, p) => Has(N, R, Items(j.iface)[i].name, Items(j.iface)[i].reps[p])

AddingRight == \A t \in Threads : Busy(t) => Placed(job[t], nodes, ones) /\ Entering(job[t], nodes, ones)

\* No entry is twice in a chain, because those that a call makes are new.
Distinct(N) ==
    \A n \in DOMAIN N : \A k, l \in 1 .. Len(N[n].set) : N[n].set[k].id = N[n].set[l].id => k = l

PastEntry(id, j, w) ==
    w.pc # "idle" /\ w.req = id[1] => w.pc \notin {"native", "find"} /\ (j # Null => Before(j, id[2], id[3]))

FreshEntry(id) ==
    id[1] # Null => /\ id \in Calls \X Nat \X Nat /\ stage[id[1]] # "new"
                    /\ \A t \in Threads : PastEntry(id, job[t], work[t])

FreshEntries == \A n \in DOMAIN nodes : \A k \in 1 .. Len(nodes[n].set) : FreshEntry(nodes[n].set[k].id)

\* What a request was or will be forwarded with is in the table.
Known ==
    /\ \A t \in Threads : work[t].pc = "ready" => Has(nodes, ones, Req(t).op, Req(t).type)
    /\ \A r \in Calls : stage[r] \in {"sent", "back"} => Has(nodes, ones, Requests[r].op, Requests[r].type)

Keeping == AddingRight /\ Distinct(nodes) /\ FreshEntries /\ Known

\* It holds of what the constructor makes.
LEMMA KeepingInit == Init => Keeping
<1> SUFFICES ASSUME Init PROVE Keeping
  OBVIOUS
<1>1. \A n \in DOMAIN nodes : /\ \A k \in 1 .. Len(nodes[n].set) : k = 1
                              /\ nodes[n].set[1].id[1] = Null
  BY DEF Init, TableInit, Constructed, Operation, OpArgs, head
<1>2. AddingRight
  BY DEF Init, TableInit, AddingRight, Busy
<1>3. Distinct(nodes)
  BY <1>1 DEF Distinct
<1>4. FreshEntries
  BY <1>1 DEF FreshEntries, FreshEntry
<1>5. Known
  BY DEF Init, Known, Idle
<1> QED BY <1>2, <1>3, <1>4, <1>5 DEF Keeping

\* The table finds what it has, and has what it finds.
LEMMA HasFinds ==
    ASSUME Tree(nodes), NEW name, NEW rep
    PROVE  Has(nodes, ones, name, rep) <=> Find(name, rep) # Null
<1> DEFINE s == Route(nodes, name, ones)
           set == nodes[s.at].set
<1>1. Search(name, FindsRight) = s
  BY SearchIs DEF FindsRight
<1>2. Find(name, rep) = IF s.link = "found" THEN Lookup(set, rep) ELSE Null
  BY <1>1 DEF Find
<1>3. s \in Ends(nodes, name, ones)
  BY SearchEnds
<1>4. s.at \in DOMAIN nodes
  <2> HIDE DEF s
  <2> QED BY <1>3 DEF Ends
<1>5. set \in Seq(Entries)
  <2> HIDE DEF s
  <2> QED BY <1>4 DEF Tree, Nodes, Operations
<1>6. Has(nodes, ones, name, rep) <=> s.link = "found" /\ \E k \in 1 .. Len(set) : set[k].rep = rep
  BY DEF Has
<1> HIDE DEF s, set
<1>7. Lookup(set, rep) # Null <=> \E k \in 1 .. Len(set) : set[k].rep = rep
  BY <1>5, LookupFinds
<1> QED BY <1>2, <1>6, <1>7

\* A step that leaves the table and every job alone.
LEMMA KeepingAside ==
    ASSUME Signed, Keeping, UNCHANGED <<nodes, job, ones>>,
           \A t \in Threads : \/ work'[t] = work[t]
                              \/ ~Busy(t) /\ work'[t].pc = "idle"
                              \/ ~Busy(t) /\ work'[t].pc = "native" /\ stage[work'[t].req] = "new"
                              \/ ~Busy(t) /\ work'[t].pc = "find" /\ work[t].pc = "native" /\ work'[t].req = work[t].req,
           \A r \in Calls : /\ stage'[r] = "new" => stage[r] = "new"
                            /\ stage'[r] \in {"sent", "back"} =>
                                 stage[r] \in {"sent", "back"} \/ Has(nodes, ones, Requests[r].op, Requests[r].type)
    PROVE  Keeping'
<1>1. AddingRight'
  BY DEF Keeping, AddingRight, Busy
<1>2. Distinct(nodes)'
  BY DEF Keeping
<1>3. FreshEntries'
  <2> SUFFICES ASSUME NEW n \in DOMAIN nodes, NEW k \in 1 .. Len(nodes[n].set), NEW id, id = nodes[n].set[k].id,
                      id[1] # Null
               PROVE  /\ id \in Calls \X Nat \X Nat /\ stage'[id[1]] # "new"
                      /\ \A t \in Threads : PastEntry(id, job[t], work'[t])
    BY DEF FreshEntries, FreshEntry
  <2>1. /\ id \in Calls \X Nat \X Nat /\ stage[id[1]] # "new"
        /\ \A t \in Threads : PastEntry(id, job[t], work[t])
    BY DEF Keeping, FreshEntries, FreshEntry
  <2>2. stage'[id[1]] # "new"
    BY <2>1
  <2>3. ASSUME NEW t \in Threads PROVE PastEntry(id, job[t], work'[t])
    BY <2>1 DEF PastEntry, Busy
  <2> QED BY <2>1, <2>2, <2>3
<1>4. Known'
  <2>1. \A t \in Threads : work'[t].pc = "ready" => work'[t] = work[t]
    OBVIOUS
  <2>2. \A t \in Threads : work'[t].pc = "ready" => Has(nodes, ones, Requests[work'[t].req].op, Requests[work'[t].req].type)
    BY <2>1 DEF Keeping, Known, Req
  <2>3. \A r \in Calls : stage'[r] \in {"sent", "back"} => Has(nodes, ones, Requests[r].op, Requests[r].type)
    BY DEF Keeping, Known
  <2> QED BY <2>2, <2>3 DEF Known, Req
<1> QED BY <1>1, <1>2, <1>3, <1>4 DEF Keeping

\* One that ends the job of the thread, or begins it.
LEMMA KeepingJob ==
    ASSUME Signed, IInv, Keeping, NEW t \in Threads, NEW w, NEW j, UNCHANGED <<nodes, ones>>,
           work' = [work EXCEPT ![t] = w], job' = [job EXCEPT ![t] = j],
           j # Null => Placed(j, nodes, ones) /\ Entering(j, nodes, ones),
           w.pc = "ready" => Has(nodes, ones, Requests[w.req].op, Requests[w.req].type),
           w.pc \in {"idle", "add", "ready"}, w.pc = "add" <=> j # Null,
           w.pc = "add" => work[t].pc = "find" /\ w.req = work[t].req,
           \A r \in Calls : stage'[r] = stage[r] \/ stage'[r] = "done"
    PROVE  Keeping'
<1>0. work'[t] = w /\ job'[t] = j /\ \A u \in Threads : u # t => work'[u] = work[u] /\ job'[u] = job[u]
  BY DEF Signed, Working, IInv, Typed
<1>1. AddingRight'
  <2>1. ASSUME NEW u \in Threads, job'[u] # Null PROVE Placed(job'[u], nodes, ones) /\ Entering(job'[u], nodes, ones)
    BY <1>0, <2>1 DEF Keeping, AddingRight, Busy
  <2> QED BY <2>1 DEF AddingRight, Busy
<1>2. Distinct(nodes)'
  BY DEF Keeping
<1>3. FreshEntries'
  <2> SUFFICES ASSUME NEW n \in DOMAIN nodes, NEW k \in 1 .. Len(nodes[n].set), NEW id, id = nodes[n].set[k].id,
                      id[1] # Null
               PROVE  /\ id \in Calls \X Nat \X Nat /\ stage'[id[1]] # "new"
                      /\ \A u \in Threads : PastEntry(id, job'[u], work'[u])
    BY DEF FreshEntries, FreshEntry
  <2>1. /\ id \in Calls \X Nat \X Nat /\ stage[id[1]] # "new"
        /\ \A u \in Threads : PastEntry(id, job[u], work[u])
    BY DEF Keeping, FreshEntries, FreshEntry
  <2>2. stage'[id[1]] # "new"
    BY <2>1
  <2>3. PastEntry(id, j, w)
    BY <2>1 DEF PastEntry
  <2> QED BY <1>0, <2>1, <2>2, <2>3
<1>4. Known'
  <2>1. \A u \in Threads : work'[u].pc = "ready" => Has(nodes, ones, Requests[work'[u].req].op, Requests[work'[u].req].type)
    BY <1>0 DEF Keeping, Known, Req
  <2>2. \A r \in Calls : stage'[r] \in {"sent", "back"} => Has(nodes, ones, Requests[r].op, Requests[r].type)
    BY DEF Keeping, Known
  <2> QED BY <2>1, <2>2 DEF Known, Req
<1> QED BY <1>1, <1>2, <1>3, <1>4 DEF Keeping

\* A step in add_interface, to the job j and another table, of the only thread.
LEMMA KeepingAdd ==
    ASSUME Single, Signed, IInv, Keeping, NEW t \in Threads, NEW j, Busy(t),
           UNCHANGED <<work, stage, ones, crashed>>, job' = [job EXCEPT ![t] = j],
           Placed(j, nodes', ones), Entering(j, nodes', ones), Distinct(nodes'),
           \A name, rep : Has(nodes, ones, name, rep) => Has(nodes', ones, name, rep),
           \A n \in DOMAIN nodes' : \A k \in 1 .. Len(nodes'[n].set) :
               \/ \E m \in DOMAIN nodes : \E l \in 1 .. Len(nodes[m].set) : nodes'[n].set[k].id = nodes[m].set[l].id
               \/ /\ nodes'[n].set[k].id \in Calls \X Nat \X Nat /\ nodes'[n].set[k].id[1] = work[t].req
                  /\ Before(j, nodes'[n].set[k].id[2], nodes'[n].set[k].id[3]),
           \A i, p \in Nat : Before(job[t], i, p) => Before(j, i, p)
    PROVE  Keeping'
<1>0. job'[t] = j /\ \A u \in Threads : u = t
  BY DEF Signed, Working, Single
<1>a. work[t].pc = "add" /\ work[t].req \in Calls /\ stage[work[t].req] = "served"
  BY DEF Signed, Working, Sound, IInv, InHand
<1>1. AddingRight'
  BY <1>0 DEF AddingRight, Busy
<1>2. FreshEntries'
  <2> SUFFICES ASSUME NEW n \in DOMAIN nodes', NEW k \in 1 .. Len(nodes'[n].set),
                      NEW id, id = nodes'[n].set[k].id, id[1] # Null
               PROVE  /\ id \in Calls \X Nat \X Nat /\ stage[id[1]] # "new"
                      /\ \A u \in Threads : PastEntry(id, job'[u], work[u])
    BY DEF FreshEntries, FreshEntry
  <2>1. CASE \E m \in DOMAIN nodes : \E l \in 1 .. Len(nodes[m].set) : id = nodes[m].set[l].id
    <3>1. id \in Calls \X Nat \X Nat /\ stage[id[1]] # "new" /\ PastEntry(id, job[t], work[t])
      BY <2>1 DEF Keeping, FreshEntries, FreshEntry
    <3>2. id[2] \in Nat /\ id[3] \in Nat
      BY <3>1
    <3>3. PastEntry(id, j, work[t])
      BY <3>1, <3>2 DEF PastEntry, Busy
    <3> QED BY <1>0, <3>1, <3>3
  <2>2. CASE id \in Calls \X Nat \X Nat /\ id[1] = work[t].req /\ Before(j, id[2], id[3])
    <3>1. PastEntry(id, j, work[t])
      BY <1>a, <2>2 DEF PastEntry
    <3> QED BY <1>0, <1>a, <2>2, <3>1
  <2> QED BY <2>1, <2>2
<1>3. Known'
  BY DEF Keeping, Known, Req
<1> QED BY <1>1, <1>2, <1>3 DEF Keeping

\* A job that stays at its place among the items.
LEMMA KeepingPlace ==
    ASSUME Keeping, NEW t \in Threads, Busy(t), NEW j, NEW M,
           j.iface = job[t].iface, j.item = job[t].item, j.rep = job[t].rep,
           j.pc # "added", job[t].pc # "added",
           \A name, rep : Has(nodes, ones, name, rep) => Has(M, ones, name, rep)
    PROVE  /\ Entering(j, M, ones)
           /\ \A i, p : Before(job[t], i, p) <=> Before(j, i, p)
<1>1. \A i, p : Before(job[t], i, p) <=> Before(j, i, p)
  BY DEF Before
<1>2. Entering(job[t], nodes, ones)
  BY DEF Keeping, AddingRight
<1> QED BY <1>1, <1>2 DEF Entering

\* The steps of add_interface keep it: the search,
LEMMA KeepingFindOrAdd ==
    ASSUME Single, Signed, IInv, Keeping, NEW t \in Threads, FindOrAdd(t), UNCHANGED <<work, stage, crashed>>
    PROVE  Keeping'
<1> DEFINE s == Route(nodes, Item(t).name, ones)
           pc == IF s.link = "found" THEN "tail" ELSE "store"
           j == [job[t] EXCEPT !.at = s.at, !.link = s.link, !.pc = pc]
<1>1. Busy(t) /\ job[t].pc = "search" /\ UNCHANGED <<nodes, ones>>
  BY DEF FindOrAdd, Busy
<1>2. Sound(job[t], work[t], nodes) /\ Item(t) = Items(job[t].iface)[job[t].item]
  BY <1>1, InAdd
<1>3. Search(Item(t).name, AddsRight) = s
  BY SearchIs DEF AddsRight
<1>4. job' = [job EXCEPT ![t] = j]
  BY <1>3 DEF FindOrAdd
<1>5. s \in Ends(nodes, Item(t).name, ones)
  BY SearchEnds DEF Signed
<1>r. s = Route(nodes, Item(t).name, ones)
  OBVIOUS
<1> HIDE DEF s
<1>6. s = [at |-> s.at, link |-> s.link]
  BY <1>5 DEF Ends
<1>7. job[t] \in Jobs
  BY <1>2 DEF Sound
<1>8. /\ j.iface = job[t].iface /\ j.item = job[t].item /\ j.rep = job[t].rep
      /\ j.at = s.at /\ j.link = s.link /\ j.pc = pc
  BY <1>7 DEF Jobs
<1> HIDE DEF j
<1>9. Placed(j, nodes, ones)
  <2>1. Items(j.iface)[j.item].name = Item(t).name
    BY <1>2, <1>8
  <2>2. j.pc = "store" => s = [at |-> j.at, link |-> j.link]
    BY <1>6, <1>8
  <2>3. j.pc # "append" /\ (j.pc = "tail" => s = [at |-> j.at, link |-> "found"])
    BY <1>6, <1>8
  <2> QED BY <1>r, <2>1, <2>2, <2>3 DEF Placed
<1>10. Entering(j, nodes, ones) /\ \A i, p : Before(job[t], i, p) <=> Before(j, i, p)
  BY <1>1, <1>8, KeepingPlace
<1>11. Distinct(nodes)
  BY DEF Keeping
<1> QED BY <1>1, <1>4, <1>9, <1>10, <1>11, KeepingAdd

\* the end of the chain,
LEMMA KeepingSeekTail ==
    ASSUME Single, Signed, IInv, Keeping, NEW t \in Threads, SeekTail(t), UNCHANGED <<work, stage, crashed>>
    PROVE  Keeping'
<1> DEFINE set == nodes[job[t].at].set
           seen == IF set = <<>> THEN Null ELSE Last(set)
           j == [job[t] EXCEPT !.seen = seen, !.pc = "append"]
<1>1. Busy(t) /\ job[t].pc = "tail" /\ UNCHANGED <<nodes, ones>> /\ job' = [job EXCEPT ![t] = j]
  BY DEF SeekTail, Busy
<1>2. Sound(job[t], work[t], nodes)
  BY <1>1, InAdd
<1>3. job[t] \in Jobs
  BY <1>2 DEF Sound
<1>4. seen = IF set = <<>> THEN Null ELSE set[Len(set)]
  BY DEF Last
<1> HIDE DEF seen
<1>5. /\ j.iface = job[t].iface /\ j.item = job[t].item /\ j.rep = job[t].rep
      /\ j.at = job[t].at /\ j.seen = seen /\ j.pc = "append"
  BY <1>3 DEF Jobs
<1> HIDE DEF j
<1>6. Placed(job[t], nodes, ones)
  BY <1>1 DEF Keeping, AddingRight
<1>7. Placed(j, nodes, ones)
  BY <1>1, <1>4, <1>5, <1>6 DEF Placed
<1>8. Entering(j, nodes, ones) /\ \A i, p : Before(job[t], i, p) <=> Before(j, i, p)
  BY <1>1, <1>5, KeepingPlace
<1>9. Distinct(nodes)
  BY DEF Keeping
<1> QED BY <1>1, <1>7, <1>8, <1>9, KeepingAdd

\* the new node, where the search for its name ends,
LEMMA KeepingStoreNode ==
    ASSUME Single, Signed, IInv, Keeping, NEW t \in Threads, StoreNode(t), UNCHANGED <<work, stage, crashed>>
    PROVE  Keeping'
<1> DEFINE x == Id(t)
           at == job[t].at
           l == job[t].link
           nm == Item(t).name
           j == [job[t] EXCEPT !.at = x, !.pc = "tail"]
<1>1. Busy(t) /\ job[t].pc = "store" /\ UNCHANGED ones /\ job' = [job EXCEPT ![t] = j]
  BY DEF StoreNode, Busy
<1>2. Sound(job[t], work[t], nodes) /\ nm = Items(job[t].iface)[job[t].item].name
  BY <1>1, InAdd
<1>3. /\ x \in Ids /\ x \notin DOMAIN nodes /\ at \in DOMAIN nodes /\ l \in Kids /\ nm \in Names
      /\ Grows(nodes', nodes, x, at, l, nm)
  BY StoresNew
<1>4. job[t] \in Jobs
  BY <1>2 DEF Sound
<1>5. /\ j.iface = job[t].iface /\ j.item = job[t].item /\ j.rep = job[t].rep
      /\ j.at = x /\ j.pc = "tail"
  BY <1>4 DEF Jobs
<1>6. Route(nodes, nm, ones) = [at |-> at, link |-> l]
  BY <1>1, <1>2 DEF Keeping, AddingRight, Placed
<1> HIDE DEF j, x, at, l, nm
<1>7. Tree(nodes) /\ Nodes(nodes)
  BY DEF Signed, Tree
<1>8. nodes[at][l] = Null
  <2>1. [at |-> at, link |-> l] \in Ends(nodes, nm, ones)
    BY <1>6, <1>7, SearchEnds
  <2>2. l # "found"
    BY <1>3 DEF Kids
  <2> QED BY <2>1, <2>2 DEF Ends
<1>9. Grown(nodes', nodes, x, at, l, nm)
  BY <1>3, <1>7, GrownNodes
<1>10. /\ DOMAIN nodes' = DOMAIN nodes \cup {x} /\ nodes'[x].set = <<>>
       /\ \A n \in DOMAIN nodes : nodes'[n].set = nodes[n].set
  BY <1>9 DEF Grown
<1>11. \A m : /\ Route(nodes, m, ones).link = "found" => Route(nodes', m, ones) = Route(nodes, m, ones)
              /\ m = nm => Route(nodes', m, ones) = [at |-> x, link |-> "found"]
  BY <1>3, <1>6, <1>7, <1>8, LeafFound
<1>12. Placed(j, nodes', ones)
  <2>1. Items(j.iface)[j.item].name = nm
    BY <1>2, <1>5
  <2> QED BY <1>5, <1>11, <2>1 DEF Placed
<1>13. ASSUME NEW name, NEW rep, Has(nodes, ones, name, rep) PROVE Has(nodes', ones, name, rep)
  <2> DEFINE s == Route(nodes, name, ones)
  <2>1. s.link = "found" /\ \E k \in 1 .. Len(nodes[s.at].set) : nodes[s.at].set[k].rep = rep
    BY <1>13 DEF Has
  <2>2. s \in Ends(nodes, name, ones)
    BY <1>7, SearchEnds
  <2>3. Route(nodes', name, ones) = s
    BY <1>11, <2>1
  <2> HIDE DEF s
  <2>4. s.at \in DOMAIN nodes
    BY <2>2 DEF Ends
  <2> QED BY <1>10, <2>1, <2>3, <2>4 DEF Has
<1>14. Entering(j, nodes', ones) /\ \A i, p : Before(job[t], i, p) <=> Before(j, i, p)
  BY <1>1, <1>5, <1>13, KeepingPlace
<1>15. Len(nodes'[x].set) = 0
  BY <1>10
<1>16. Distinct(nodes')
  BY <1>10, <1>15 DEF Keeping, Distinct
<1>17. \A n \in DOMAIN nodes' : \A k \in 1 .. Len(nodes'[n].set) : n \in DOMAIN nodes /\ nodes'[n].set = nodes[n].set
  BY <1>10, <1>15
<1> QED BY <1>1, <1>12, <1>13, <1>14, <1>16, <1>17, KeepingAdd

\* The entry goes to the end of the chain, and the others stay.
LEMMA AppendsLast ==
    ASSUME Signed, Keeping, NEW t \in Threads, AppendEntry(t)
    PROVE  LET set == nodes[job[t].at].set
               new == nodes'[job[t].at].set
               id  == <<job[t].call, job[t].item, job[t].rep>>
           IN /\ set \in Seq(Entries) /\ Len(new) = Len(set) + 1 /\ new[Len(set) + 1] = Made(t)
              /\ \A k \in 1 .. Len(set) : new[k] = set[k] /\ set[k].id # id
              /\ Made(t).id = id /\ id \in Calls \X Nat \X Nat /\ id[1] = work[t].req
              /\ id[2] = job[t].item /\ id[3] = job[t].rep /\ Made(t).rep = Item(t).reps[job[t].rep]
<1> DEFINE at == job[t].at
           set == nodes[at].set
           seen == job[t].seen
           e == Made(t)
           id == <<job[t].call, job[t].item, job[t].rep>>
<1>1. Busy(t) /\ job[t].pc = "append"
  BY DEF AppendEntry, Busy
<1>2. /\ Sound(job[t], work[t], nodes) /\ job[t].call \in Calls /\ job[t].item \in Nat
      /\ job[t].call = work[t].req /\ work[t].pc = "add"
  BY <1>1, InAdd
<1>3. job[t].rep \in Nat
  BY <1>2 DEF Sound, Jobs
<1>4. e \in Entries /\ at \in DOMAIN nodes /\ nodes'[at].set = Appended(set, seen, e)
  BY AppendsRight
<1>5. e.id = id /\ e.rep = Item(t).reps[job[t].rep]
  BY DEF Made, OpArgs
<1>6. id \in Calls \X Nat \X Nat /\ id[1] = work[t].req /\ id[2] = job[t].item /\ id[3] = job[t].rep /\ id[1] # Null
  BY <1>2, <1>3, NullAssumption
<1>7. set \in Seq(Entries)
  BY <1>4 DEF Signed, Tree, Nodes, Operations
<1>8. \A k, l \in 1 .. Len(set) : set[k] = set[l] => k = l
  BY <1>4 DEF Keeping, Distinct
<1>9. seen = IF set = <<>> THEN Null ELSE set[Len(set)]
  BY <1>1 DEF Keeping, AddingRight, Placed
<1> HIDE DEF e, id
<1>10. ASSUME NEW k \in 1 .. Len(set), set[k].id = id PROVE FALSE
  <2>1. PastEntry(id, job[t], work[t])
    BY <1>4, <1>6, <1>10 DEF Keeping, FreshEntries, FreshEntry
  <2>2. Before(job[t], job[t].item, job[t].rep)
    BY <1>1, <1>2, <1>6, <2>1 DEF PastEntry, Busy
  <2> QED BY <1>1, <1>2, <1>3, <2>2 DEF Before
<1> HIDE DEF set, seen
<1>11. LET a == Appended(set, seen, e)
       IN Len(a) = Len(set) + 1 /\ a[Len(set) + 1] = e /\ \A k \in 1 .. Len(set) : a[k] = set[k]
  BY <1>4, <1>7, <1>8, <1>9, AppendedLast
<1>12. Len(nodes'[at].set) = Len(set) + 1 /\ nodes'[at].set[Len(set) + 1] = e
       /\ \A k \in 1 .. Len(set) : nodes'[at].set[k] = set[k]
  BY <1>4, <1>11
<1> HIDE DEF at
<1> QED BY <1>5, <1>6, <1>7, <1>10, <1>12 DEF set, at, e, id

\* and the new entry, with which all that is Before the next place is in the table;
LEMMA KeepingAppendEntry ==
    ASSUME Single, Signed, IInv, Keeping, NEW t \in Threads, AppendEntry(t), UNCHANGED <<work, stage, crashed>>
    PROVE  Keeping'
<1> DEFINE at == job[t].at
           x == Item(t)
           e == Made(t)
           j == Moved(job[t])
           set == nodes[at].set
           new == nodes'[at].set
           id == <<job[t].call, job[t].item, job[t].rep>>
<1>1. Busy(t) /\ job[t].pc = "append" /\ UNCHANGED ones /\ job' = [job EXCEPT ![t] = j]
  BY DEF AppendEntry, Busy, Signed, Working
<1>2. /\ Sound(job[t], work[t], nodes) /\ x = Items(job[t].iface)[job[t].item]
      /\ job[t].iface \in Interfaces /\ job[t].item \in Nat
  BY <1>1, InAdd
<1>3. job[t].item \in 1 .. Len(Items(job[t].iface)) /\ job[t].rep \in 1 .. Len(x.reps) /\ job[t].rep \in Nat
  BY <1>2 DEF Sound, Jobs
<1>4. /\ Rechained(nodes', nodes) /\ at \in DOMAIN nodes
      /\ \A n \in DOMAIN nodes : n # at => nodes'[n] = nodes[n]
  BY AppendsRight
<1>5. /\ set \in Seq(Entries) /\ Len(new) = Len(set) + 1 /\ new[Len(set) + 1] = e
      /\ \A k \in 1 .. Len(set) : new[k] = set[k] /\ set[k].id # id
      /\ e.id = id /\ id \in Calls \X Nat \X Nat /\ id[1] = work[t].req
      /\ id[2] = job[t].item /\ id[3] = job[t].rep /\ e.rep = x.reps[job[t].rep]
  BY AppendsLast
<1>6. /\ j \in Jobs /\ j.iface = job[t].iface /\ j.at = at
      /\ \/ /\ job[t].rep < Len(x.reps) /\ j.item = job[t].item /\ j.rep = job[t].rep + 1 /\ j.pc = "tail"
         \/ /\ job[t].rep = Len(x.reps) /\ job[t].item < Len(Items(job[t].iface))
            /\ j.item = job[t].item + 1 /\ j.rep = 1 /\ j.pc = "search"
         \/ /\ job[t].rep = Len(x.reps) /\ job[t].item = Len(Items(job[t].iface))
            /\ j.item = job[t].item /\ j.rep = job[t].rep /\ j.pc = "added"
  BY <1>1, <1>2, MovesOn
<1>7. Route(nodes, x.name, ones) = [at |-> at, link |-> "found"]
  BY <1>1, <1>2 DEF Keeping, AddingRight, Placed
<1>8. Entering(job[t], nodes, ones) /\ Distinct(nodes)
  BY <1>1 DEF Keeping, AddingRight
<1>9. DOMAIN nodes' = DOMAIN nodes /\ \A m : Route(nodes', m, ones) = Route(nodes, m, ones)
  BY <1>4, ChainsApart DEF Signed, Rechained
<1>10. Len(set) \in Nat
  BY <1>5, LenProperties
<1> HIDE DEF at, x, e, j, id
<1>11. Placed(j, nodes', ones)
  <2>1. j.pc \notin {"store", "append"} /\ (j.pc = "tail" => j.item = job[t].item)
    BY <1>6
  <2>2. ASSUME j.pc = "tail" PROVE Items(j.iface)[j.item].name = x.name
    BY <1>2, <1>6, <2>1, <2>2
  <2> QED BY <1>6, <1>7, <1>9, <2>1, <2>2 DEF Placed
<1>12. ASSUME NEW name, NEW rep, Has(nodes, ones, name, rep) PROVE Has(nodes', ones, name, rep)
  <2> DEFINE s == Route(nodes, name, ones)
  <2>1. s.link = "found" /\ Route(nodes', name, ones) = s
    BY <1>9, <1>12 DEF Has
  <2>2. PICK k \in 1 .. Len(nodes[s.at].set) : nodes[s.at].set[k].rep = rep
    BY <1>12 DEF Has
  <2>3. s \in Ends(nodes, name, ones)
    BY SearchEnds DEF Signed
  <2> HIDE DEF s
  <2>4. s.at \in DOMAIN nodes
    BY <2>3 DEF Ends
  <2>5. k \in 1 .. Len(nodes'[s.at].set) /\ nodes'[s.at].set[k].rep = rep
    <3>1. CASE s.at = at
      <4>1. k \in 1 .. Len(set) /\ set[k].rep = rep
        BY <2>2, <3>1
      <4> HIDE DEF set, new
      <4>2. k \in 1 .. Len(new) /\ new[k].rep = rep
        BY <1>5, <1>10, <4>1
      <4> QED BY <3>1, <4>2 DEF new
    <3>2. CASE s.at # at
      BY <1>4, <2>2, <2>4, <3>2
    <3> QED BY <3>1, <3>2
  <2> QED BY <2>1, <2>5 DEF Has
<1>13. Has(nodes', ones, x.name, x.reps[job[t].rep])
  <2>1. Route(nodes', x.name, ones).link = "found" /\ Route(nodes', x.name, ones).at = at
    BY <1>7, <1>9
  <2>2. Len(set) + 1 \in 1 .. Len(new) /\ new[Len(set) + 1].rep = x.reps[job[t].rep]
    <3> HIDE DEF set, new
    <3> QED BY <1>5, <1>10
  <2>3. \E k \in 1 .. Len(nodes'[at].set) : nodes'[at].set[k].rep = x.reps[job[t].rep]
    BY <2>2 DEF new
  <2> QED BY <2>1, <2>3 DEF Has
<1>14. \A i, p \in Nat : Before(job[t], i, p) => Before(j, i, p)
  BY <1>1, <1>2, <1>3, <1>6 DEF Before
<1>15. Entering(j, nodes', ones)
  <2> DEFINE L == Items(job[t].iface)
  <2> SUFFICES ASSUME NEW i \in 1 .. Len(L), NEW p \in 1 .. Len(L[i].reps), Before(j, i, p)
               PROVE  Has(nodes', ones, L[i].name, L[i].reps[p])
    BY <1>6 DEF Entering
  <2>1. Len(L) \in Nat /\ L[i] \in Catalogue(job[t].iface)
    BY <1>2, ItemsAre
  <2>2. Len(L[i].reps) \in Nat
    BY <1>2, <2>1, CatalogueRight
  <2>3. i = job[t].item => L[i] = x
    BY <1>2
  <2> HIDE DEF L
  <2>4. Before(job[t], i, p) \/ (i = job[t].item /\ p = job[t].rep)
    <3>1. i \in Nat /\ p \in Nat /\ i <= Len(L) /\ p <= Len(L[i].reps) /\ i >= 1 /\ p >= 1
      BY <2>1, <2>2
    <3>2. CASE i = job[t].item
      <4>1. p <= Len(x.reps)
        BY <2>3, <3>1, <3>2
      <4> QED BY <1>2, <1>3, <1>6, <3>1, <3>2, <4>1 DEF Before, L
    <3>3. CASE i # job[t].item
      BY <1>2, <1>3, <1>6, <2>1, <3>1, <3>3 DEF Before, L
    <3> QED BY <3>2, <3>3
  <2>5. CASE Before(job[t], i, p)
    BY <1>8, <1>12, <2>5 DEF Entering, L
  <2>6. CASE i = job[t].item /\ p = job[t].rep
    BY <1>13, <2>3, <2>6
  <2> QED BY <2>4, <2>5, <2>6
<1>16. Distinct(nodes')
  <2> SUFFICES ASSUME NEW n \in DOMAIN nodes, NEW k \in 1 .. Len(nodes'[n].set), NEW l \in 1 .. Len(nodes'[n].set),
                      nodes'[n].set[k].id = nodes'[n].set[l].id
               PROVE  k = l
    BY <1>9 DEF Distinct
  <2>1. CASE n # at
    BY <1>4, <1>8, <2>1 DEF Distinct
  <2>2. CASE n = at
    <3>1. k \in 1 .. Len(new) /\ l \in 1 .. Len(new) /\ new[k].id = new[l].id
      BY <2>2
    <3>2. \A a, b \in 1 .. Len(set) : set[a].id = set[b].id => a = b
      BY <1>4, <1>8 DEF Distinct
    <3> HIDE DEF set, new
    <3>3. \A q \in 1 .. Len(new) : (q \in 1 .. Len(set) /\ new[q].id = set[q].id) \/ (q = Len(set) + 1 /\ new[q].id = id)
      BY <1>5, <1>10
    <3> QED BY <1>5, <3>1, <3>2, <3>3
  <2> QED BY <2>1, <2>2
<1>17. ASSUME NEW n \in DOMAIN nodes', NEW k \in 1 .. Len(nodes'[n].set)
       PROVE  \/ \E m \in DOMAIN nodes : \E l \in 1 .. Len(nodes[m].set) : nodes'[n].set[k].id = nodes[m].set[l].id
              \/ /\ nodes'[n].set[k].id \in Calls \X Nat \X Nat /\ nodes'[n].set[k].id[1] = work[t].req
                 /\ Before(j, nodes'[n].set[k].id[2], nodes'[n].set[k].id[3])
  <2>1. CASE n # at
    BY <1>4, <1>9, <2>1
  <2>2. CASE n = at
    <3>1. k \in 1 .. Len(new) /\ nodes'[n].set[k].id = new[k].id
      BY <2>2
    <3>2. (k \in 1 .. Len(set) /\ new[k].id = set[k].id) \/ new[k].id = id
      <4> HIDE DEF set, new
      <4> QED BY <1>5, <1>10, <3>1
    <3>3. Before(j, job[t].item, job[t].rep)
      BY <1>2, <1>3, <1>6 DEF Before
    <3>4. CASE k \in 1 .. Len(set) /\ new[k].id = set[k].id
      <4>1. at \in DOMAIN nodes /\ k \in 1 .. Len(nodes[at].set) /\ nodes'[n].set[k].id = nodes[at].set[k].id
        BY <1>4, <3>1, <3>4
      <4> HIDE DEF set, new
      <4> QED BY <4>1
    <3>5. CASE new[k].id = id
      <4>1. nodes'[n].set[k].id = id
        BY <3>1, <3>5
      <4> HIDE DEF set, new
      <4> QED BY <1>5, <3>3, <4>1
    <3> QED BY <3>2, <3>4, <3>5
  <2> QED BY <2>1, <2>2
<1> QED BY <1>1, <1>11, <1>12, <1>14, <1>15, <1>16, <1>17, KeepingAdd

\* and so does every step of the proxy: what is forwarded has just been found or entered.
LEMMA KeepingStep ==
    ASSUME Single
    PROVE  IInv /\ Signed /\ Keeping /\ [Next]_vars => Keeping'
<1> SUFFICES ASSUME IInv, Signed, Keeping, [Next]_vars PROVE Keeping'
  OBVIOUS
<1>b. \A t \in Threads : Busy(t) <=> work[t].pc = "add"
  BY DEF Signed, Working, Sound
<1>w. work = [t \in Threads |-> work[t]] /\ stage \in [Calls -> Stages]
  BY DEF IInv, Typed
<1>h. \A t \in Threads : work[t].pc # "idle" => work[t].req \in Calls /\ stage[work[t].req] = "served"
  BY DEF IInv, InHand
<1>1. ASSUME NEW t \in Threads, NEW r \in Calls, Dispatch(t, r) PROVE Keeping'
  <2>1. /\ work[t].pc = "idle" /\ stage[r] = "new" /\ UNCHANGED crashed
        /\ stage' = [stage EXCEPT ![r] = "served"] /\ UNCHANGED <<nodes, job, ones>>
        /\ work' = [work EXCEPT ![t] = [req |-> r, pc |-> "native", def |-> Null]]
    BY <1>1 DEF Dispatch, At, Go, tableVars
  <2>2. \A u \in Threads : \/ work'[u] = work[u]
                           \/ ~Busy(u) /\ work'[u].pc = "native" /\ stage[work'[u].req] = "new"
    BY <1>b, <1>w, <2>1
  <2>3. \A q \in Calls : /\ stage'[q] = "new" => stage[q] = "new"
                         /\ stage'[q] \in {"sent", "back"} => stage[q] \in {"sent", "back"}
    BY <1>w, <2>1
  <2> QED BY <2>1, <2>2, <2>3, KeepingAside
<1>2. ASSUME UNCHANGED <<nodes, job, ones, work>>, NEW r \in Calls,
             \/ stage' = [stage EXCEPT ![r] = "done"]
             \/ stage[r] = "sent" /\ stage' = [stage EXCEPT ![r] = "back"]
             \/ UNCHANGED stage
      PROVE  Keeping'
  <2>1. \A q \in Calls : /\ stage'[q] = "new" => stage[q] = "new"
                         /\ stage'[q] \in {"sent", "back"} => stage[q] \in {"sent", "back"}
    BY <1>w, <1>2
  <2> QED BY <1>2, <2>1, KeepingAside
<1>3. ASSUME NEW t \in Threads, Evaluate(t) PROVE Keeping'
  <2>1. /\ work[t].pc = "native" /\ UNCHANGED <<nodes, job, ones, stage, crashed>>
        /\ work' = [work EXCEPT ![t] = [req |-> work[t].req, pc |-> "find", def |-> Null]]
    BY <1>3 DEF Evaluate, At, Go, tableVars
  <2>2. \A u \in Threads :
          \/ work'[u] = work[u]
          \/ ~Busy(u) /\ work'[u].pc = "find" /\ work[u].pc = "native" /\ work'[u].req = work[u].req
    BY <1>b, <1>w, <2>1
  <2> QED BY <2>1, <2>2, KeepingAside
<1>4. ASSUME NEW t \in Threads, Throw(t) PROVE Keeping'
  <2>1. /\ UNCHANGED <<nodes, ones, crashed>> /\ job' = [job EXCEPT ![t] = Null]
        /\ work' = [work EXCEPT ![t] = Idle] /\ stage' = [stage EXCEPT ![work[t].req] = "done"]
    BY <1>4 DEF Throw, Leave
  <2>2. Idle.pc = "idle" /\ \A r \in Calls : stage'[r] = stage[r] \/ stage'[r] = "done"
    BY <1>w, <2>1 DEF Idle
  <2> HIDE DEF Idle
  <2> QED BY <2>1, <2>2, KeepingJob
<1>5. ASSUME NEW t \in Threads, FindSignature(t) PROVE Keeping'
  <2> DEFINE r == work[t].req
             i == Requests[r].type
             def == Find(Requests[r].op, i)
             w == [req |-> r, pc |-> IF def = Null THEN "add" ELSE "ready", def |-> def]
             j == IF def = Null THEN Begun(r, i) ELSE Null
  <2>1. /\ work[t].pc = "find" /\ UNCHANGED <<nodes, ones, stage, crashed>>
        /\ work' = [work EXCEPT ![t] = w] /\ job' = [job EXCEPT ![t] = j]
    BY <1>5 DEF FindSignature, At, Go, Req
  <2>2. r \in Calls
    BY <1>h, <2>1
  <2>3. def # Null => Has(nodes, ones, Requests[r].op, i)
    BY HasFinds DEF Signed
  <2> HIDE DEF def
  <2>4. w.req = r /\ w.pc = (IF def = Null THEN "add" ELSE "ready")
    OBVIOUS
  <2> HIDE DEF w, r
  <2>5. def = Null => j # Null
    BY <2>2, <2>4, BegunSound
  <2>6. def = Null => j.item = 1 /\ j.rep = 1 /\ j.pc = "search" /\ j.iface = i
    BY DEF Begun
  <2>7. j # Null => Placed(j, nodes, ones) /\ Entering(j, nodes, ones)
    <3> HAVE j # Null
    <3>1. j.item = 1 /\ j.rep = 1 /\ j.pc = "search" /\ j.iface = i
      BY <2>6
    <3> HIDE DEF j
    <3>2. i \in Interfaces
      BY <2>2, RequestAssumption
    <3>3. \A a \in 1 .. Len(Items(i)) : \A p \in 1 .. Len(Items(i)[a].reps) : a \in Nat /\ p \in Nat /\ a >= 1 /\ p >= 1
      BY <3>2, ItemsAre, CatalogueRight
    <3>4. \A a \in 1 .. Len(Items(i)) : \A p \in 1 .. Len(Items(i)[a].reps) : ~Before(j, a, p)
      BY <3>1, <3>3 DEF Before
    <3>5. Entering(j, nodes, ones)
      BY <3>1, <3>4 DEF Entering
    <3> QED BY <3>1, <3>5 DEF Placed
  <2>8. /\ w.pc = "add" <=> j # Null
        /\ w.pc \in {"idle", "add", "ready"}
        /\ w.pc = "ready" => Has(nodes, ones, Requests[w.req].op, Requests[w.req].type)
        /\ w.pc = "add" => work[t].pc = "find" /\ w.req = work[t].req
    BY <2>1, <2>3, <2>4, <2>5 DEF r
  <2> HIDE DEF j
  <2> QED BY <2>1, <2>7, <2>8, KeepingJob
<1>6. ASSUME NEW t \in Threads, Add(t) PROVE Keeping'
  <2>1. UNCHANGED <<work, stage, crashed>> /\ AddInterface(t)
    BY <1>6 DEF Add, invocationVars
  <2> QED BY <2>1, KeepingFindOrAdd, KeepingStoreNode, KeepingSeekTail, KeepingAppendEntry DEF AddInterface
<1>7. ASSUME NEW t \in Threads, Added(t) PROVE Keeping'
  <2> DEFINE r == work[t].req
             i == job[t].iface
             op == Requests[r].op
             def == Desired(i, op)
             w == [req |-> r, pc |-> "ready", def |-> def]
  <2>1. work[t].pc = "add" /\ job[t].pc = "added" /\ Busy(t)
    BY <1>7, <1>b DEF Added, At
  <2>2. i = Requests[r].type /\ i \in Interfaces /\ r \in Calls /\ stage[r] = "served"
    BY <1>h, <2>1, InAdd DEF Sound
  <2>d. Desired(job[t].iface, Req(t).op) = def
    BY DEF Req
  <2>3. CASE def = Null
    <3>1. /\ UNCHANGED <<nodes, ones, stage>>
          /\ work' = [work EXCEPT ![t] = Idle] /\ job' = [job EXCEPT ![t] = Null]
      <4> HIDE DEF def
      <4> QED BY <1>7, <2>d, <2>3 DEF Added, Leave
    <3>2. Idle.pc = "idle"
      BY DEF Idle
    <3> HIDE DEF Idle
    <3> QED BY <3>1, <3>2, KeepingJob
  <2> SUFFICES ASSUME def # Null PROVE Keeping'
    BY <2>3
  <2>4. \E k \in 1 .. Len(Items(i)) : Items(i)[k].name = op
    BY <2>2, DesiredRight
  <2>5. /\ UNCHANGED <<nodes, ones, stage>>
        /\ work' = [work EXCEPT ![t] = w] /\ job' = [job EXCEPT ![t] = Null]
    <3> HIDE DEF def
    <3> QED BY <1>7, <2>d DEF Added, Go
  <2>6. Has(nodes, ones, op, i)
    <3>1. PICK k \in 1 .. Len(Items(i)) : Items(i)[k].name = op
      BY <2>4
    <3>2. Items(i)[k] \in Catalogue(i)
      BY <2>2, ItemsAre
    <3>3. PICK p \in 1 .. Len(Items(i)[k].reps) : Items(i)[k].reps[p] = i
      BY <2>2, <3>2, CatalogueRight
    <3>4. Entering(job[t], nodes, ones) /\ Before(job[t], k, p)
      BY <2>1 DEF Keeping, AddingRight, Before
    <3> QED BY <3>1, <3>3, <3>4 DEF Entering
  <2> HIDE DEF def
  <2>7. w.pc = "ready" /\ w.req = r
    OBVIOUS
  <2> HIDE DEF w
  <2> QED BY <2>2, <2>5, <2>6, <2>7, KeepingJob
<1>8. ASSUME NEW t \in Threads, Forward(t) PROVE Keeping'
  <2>1. /\ work[t].pc = "ready" /\ UNCHANGED <<nodes, job, ones, crashed>> /\ work' = [work EXCEPT ![t] = Idle]
        /\ stage' = [stage EXCEPT ![work[t].req] = IF Req(t).mode = "twoway" THEN "sent" ELSE "done"]
    BY <1>8 DEF Forward, At, Leave, tableVars
  <2>2. \A u \in Threads : work'[u] = work[u] \/ (~Busy(u) /\ work'[u].pc = "idle")
    BY <1>b, <1>w, <2>1 DEF Idle
  <2>3. Has(nodes, ones, Requests[work[t].req].op, Requests[work[t].req].type)
    BY <2>1 DEF Keeping, Known, Req
  <2>4. \A q \in Calls : /\ stage'[q] = "new" => stage[q] = "new"
                         /\ stage'[q] \in {"sent", "back"} => stage[q] \in {"sent", "back"} \/ q = work[t].req
    BY <1>w, <2>1
  <2> QED BY <2>1, <2>2, <2>3, <2>4, KeepingAside
<1>9. ASSUME NEW t \in Threads, NEW r \in Calls, DispatchMeta(t, r) \/ DispatchForwarded(t, r) PROVE Keeping'
  <2>1. UNCHANGED <<nodes, job, ones, work, crashed>> /\ stage' = [stage EXCEPT ![r] = "done"]
    BY <1>9 DEF DispatchMeta, DispatchForwarded, tableVars
  <2> QED BY <1>2, <2>1
<1>10. ASSUME NEW t \in Threads, NEW r \in Calls, Handle(t, r) PROVE Keeping'
  <2>1. \E kind : Handling(t, r, kind)
    BY <1>10 DEF Handle, HandleResponse, HandleResponseThrows, HandleUser, HandleThrows, HandleSystem, HandleNonstandard,
                 HandleForward, HandleUnknown
  <2>2. /\ UNCHANGED <<nodes, job, ones, work>> /\ stage[r] = "back"
        /\ stage' = [stage EXCEPT ![r] = "done"]
    BY <2>1 DEF Handling, tableVars
  <2> QED BY <1>2, <2>2
<1>11. ASSUME NEW r \in Calls, TargetReplies(r) PROVE Keeping'
  <2>1. /\ UNCHANGED <<nodes, job, ones, work, crashed>> /\ stage[r] = "sent"
        /\ stage' = [stage EXCEPT ![r] = "back"]
    BY <1>11 DEF TargetReplies, tableVars
  <2> QED BY <1>2, <2>1
<1>12. CASE UNCHANGED vars
  <2>1. UNCHANGED <<nodes, job, ones, work, stage, crashed>>
    BY <1>12 DEF vars, tableVars, invocationVars
  <2> QED BY <2>1, KeepingAside
<1> QED BY <1>1, <1>3, <1>4, <1>5, <1>6, <1>7, <1>8, <1>9, <1>10, <1>11, <1>12 DEF Next, Serve

\* Whoever uses a missing signature has just asked for it in vain.
Blamed == crashed = "signature" => \E r \in Calls : stage[r] = "served" /\ ~Reached(r)

LEMMA BlamedStep == IInv /\ Signed /\ Keeping /\ Blamed /\ [Next]_vars => Blamed'
<1> SUFFICES ASSUME IInv, Signed, Keeping, Blamed, [Next]_vars PROVE Blamed'
  OBVIOUS
<1>w. stage \in [Calls -> Stages]
  BY DEF IInv, Typed
<1>h. \A t \in Threads : work[t].pc # "idle" => work[t].req \in Calls /\ stage[work[t].req] = "served"
  BY DEF IInv, InHand
<1>1. ASSUME UNCHANGED crashed, crashed = "no" PROVE Blamed'
  BY <1>1 DEF Blamed
<1>2. ASSUME NEW t \in Threads, NEW r \in Calls, Dispatch(t, r) \/ DispatchMeta(t, r) \/ DispatchForwarded(t, r)
      PROVE  Blamed'
  BY <1>1, <1>2 DEF Dispatch, DispatchMeta, DispatchForwarded, At
<1>3. ASSUME NEW t \in Threads, Serve(t), ~Added(t) PROVE Blamed'
  BY <1>1, <1>3 DEF Serve, Evaluate, Throw, FindSignature, Add, Forward, At, invocationVars
<1>4. ASSUME NEW t \in Threads, Added(t) PROVE Blamed'
  <2> DEFINE r == work[t].req
             i == job[t].iface
             op == Requests[r].op
             def == Desired(i, op)
  <2>1. work[t].pc = "add" /\ UNCHANGED stage
    BY <1>4 DEF Added, At
  <2>2. i = Requests[r].type /\ i \in Interfaces /\ r \in Calls /\ stage[r] = "served"
    <3>1. Busy(t)
      BY <2>1 DEF Signed, Working, Sound
    <3> QED BY <1>h, <2>1, <3>1, InAdd DEF Sound
  <2>3. crashed' = "signature" => def = Null
    <3>1. Desired(job[t].iface, Req(t).op) = def
      BY DEF Req
    <3> HIDE DEF def
    <3> QED BY <1>4, <3>1 DEF Added
  <2>4. Reached(r) => def # Null
    <3>1. op \notin Meta
      BY <2>2 DEF Signed, ReadyRight
    <3>2. Reached(r) => op \in Implicit \/ \E y \in ToSet(Visited(i)) : op \in ToSet(Own[y])
      BY <2>2, <3>1 DEF Reached
    <3> QED BY <2>2, <3>2, DesiredRight
  <2> HIDE DEF r, def
  <2> QED BY <2>1, <2>2, <2>3, <2>4 DEF Blamed
<1>5. ASSUME NEW t \in Threads, NEW r \in Calls, Handle(t, r) PROVE Blamed'
  <2>1. \E kind : Handling(t, r, kind)
    BY <1>5 DEF Handle, HandleResponse, HandleResponseThrows, HandleUser, HandleThrows, HandleSystem,
                HandleNonstandard, HandleForward, HandleUnknown
  <2>2. stage[r] = "back" /\ crashed = "no"
    BY <2>1 DEF Handling, At
  <2>3. Signature(r) # Null
    <3>1. Has(nodes, ones, Requests[r].op, Requests[r].type)
      BY <2>2 DEF Keeping, Known
    <3> QED BY <3>1, HasFinds DEF Signed, Signature
  <2>4. ReplyFails(r) # "signature"
    BY <2>3 DEF ReplyFails
  <2>5. crashed' # "signature"
    BY <1>5, <2>2, <2>3, <2>4 DEF Handle, HandleResponse, HandleResponseThrows, HandleUser, HandleThrows,
                                  HandleSystem, HandleNonstandard, HandleForward, HandleUnknown, Dereferenced
  <2> QED BY <2>5 DEF Blamed
<1>6. ASSUME NEW r \in Calls, TargetReplies(r) PROVE Blamed'
  <2>1. UNCHANGED crashed /\ stage[r] = "sent" /\ stage' = [stage EXCEPT ![r] = "back"]
    BY <1>6 DEF TargetReplies
  <2>2. \A q \in Calls : stage[q] = "served" => stage'[q] = "served"
    BY <1>w, <2>1
  <2> QED BY <2>1, <2>2 DEF Blamed
<1>7. CASE UNCHANGED vars
  BY <1>7 DEF vars, invocationVars, Blamed
<1> QED BY <1>2, <1>3, <1>4, <1>5, <1>6, <1>7 DEF Next, Serve

\* With a single ORB thread, which has add_interface to itself, the signature that
\* a request was forwarded with is still in the table when its answer comes,
\* however late; and a missing one is only used by evaluate_request, for an operation
\* that neither the type nor a direct base of it has.
THEOREM SignaturesKept ==
    ASSUME Single
    PROVE  Spec => []SignatureKept
<1>1. Signed /\ Keeping /\ Blamed => SignatureKept
  BY HasFinds DEF Signed, Keeping, Known, Blamed, SignatureKept, Signature
<1>3. Init => Blamed
  BY DEF Init, Blamed
<1>2. IInv /\ Signed /\ Keeping /\ [Next]_vars => Keeping'
  BY KeepingStep
<1> QED BY <1>1, <1>2, <1>3, Initially, Steps, SignedInit, SignedStep, KeepingInit, BlamedStep, PTL DEF Spec

-----------------------------------------------------------------------------
(***************************************************************************)
(* Types.                                                                  *)
(***************************************************************************)

\* What the other invariants leave open.
Ranges ==
    /\ ones \in Ones /\ crashed \in Nulls \cup {"no"}
    /\ answers \in [Calls -> 0 .. 2]
    /\ \A t \in Threads : /\ work[t].req \in Calls \cup {Null}
                          /\ work[t].pc \in {"idle", "native", "find", "add", "ready"}

\* They stay in their ranges.
LEMMA RangesStep == IInv /\ Signed /\ Ranges /\ [Next]_vars => Ranges'
<1> SUFFICES ASSUME IInv, Signed, Ranges, [Next]_vars PROVE Ranges'
  OBVIOUS
<1>w. work = [t \in Threads |-> work[t]]
  BY DEF IInv, Typed
<1>h. \A t \in Threads : work[t].pc # "idle" => work[t].req \in Calls /\ stage[work[t].req] = "served"
  BY DEF IInv, InHand
<1>a. \A r \in Calls : Requests[r].mode = "twoway" /\ stage[r] # "done" => answers[r] = 0
  BY DEF IInv, AnswersFit
<1>m. \A r \in Calls : stage[r] = "new" => answers[r] = 0
  BY RequestAssumption DEF IInv, AnswersFit
<1>t. \A r \in Calls : stage[r] \in {"sent", "back"} => Requests[r].mode = "twoway"
  BY DEF IInv, TwowaysReturn
<1>1. ASSUME NEW r \in Calls, NEW n \in 0 .. 2, answers[r] = 0, Answer(r, n)
      PROVE  answers' \in [Calls -> 0 .. 2]
  BY <1>1 DEF Answer, Ranges
<1>2. ASSUME NEW t \in Threads, NEW w, work' = [work EXCEPT ![t] = w], w.req \in Calls \cup {Null},
             w.pc \in {"idle", "native", "find", "add", "ready"}
      PROVE  \A u \in Threads : /\ work'[u].req \in Calls \cup {Null}
                                /\ work'[u].pc \in {"idle", "native", "find", "add", "ready"}
  BY <1>2, <1>w DEF Ranges
<1>i. Idle.req \in Calls \cup {Null} /\ Idle.pc = "idle"
  BY DEF Idle
<1>3. ASSUME NEW t \in Threads, NEW r \in Calls, Dispatch(t, r) PROVE Ranges'
  <2> DEFINE w == [req |-> r, pc |-> "native", def |-> Null]
             n == IF Requests[r].mode = "sync" THEN 1 ELSE 0
  <2>1. stage[r] = "new" /\ UNCHANGED <<ones, crashed>> /\ work' = [work EXCEPT ![t] = w] /\ Answer(r, n)
    BY <1>3 DEF Dispatch, Go, tableVars
  <2>2. w.req \in Calls \cup {Null} /\ w.pc = "native" /\ n \in 0 .. 2
    OBVIOUS
  <2> HIDE DEF w, n
  <2> QED BY <1>1, <1>2, <1>m, <2>1, <2>2 DEF Ranges
<1>4. ASSUME NEW t \in Threads, NEW r \in Calls, DispatchMeta(t, r) \/ DispatchForwarded(t, r) PROVE Ranges'
  <2>1. PICK n \in 0 .. 2 : stage[r] = "new" /\ UNCHANGED <<ones, crashed, work>> /\ Answer(r, n)
    <3>1. CASE DispatchForwarded(t, r)
      BY <3>1 DEF DispatchForwarded, tableVars
    <3>2. CASE DispatchMeta(t, r)
      BY <3>2 DEF DispatchMeta, tableVars
    <3> QED BY <1>4, <3>1, <3>2
  <2> QED BY <1>1, <1>m, <2>1 DEF Ranges
<1>5. ASSUME NEW t \in Threads, Throw(t) PROVE Ranges'
  <2> DEFINE r == work[t].req
             n == IF AnswersError(Requests[r].mode) THEN 1 ELSE 0
  <2>1. work[t].pc # "idle" /\ UNCHANGED <<ones, crashed>> /\ work' = [work EXCEPT ![t] = Idle] /\ Answer(r, n)
    BY <1>5 DEF Throw, At, Leave, Req
  <2>2. r \in Calls /\ stage[r] = "served"
    BY <1>h, <2>1
  <2>3. answers' \in [Calls -> 0 .. 2]
    <3>1. CASE Requests[r].mode = "twoway"
      BY <1>1, <1>a, <2>1, <2>2, <3>1
    <3>2. CASE Requests[r].mode # "twoway"
      <4>1. answers' = [answers EXCEPT ![r] = answers[r] + 0] /\ answers[r] \in 0 .. 2
        BY <2>1, <2>2, <3>2 DEF Answer, AnswersError, Ranges
      <4>2. answers[r] + 0 \in 0 .. 2
        BY <4>1
      <4> QED BY <4>1, <4>2 DEF Ranges
    <3> QED BY <3>1, <3>2
  <2> QED BY <1>2, <1>i, <2>1, <2>3 DEF Ranges
<1>6. ASSUME NEW t \in Threads, Evaluate(t) \/ FindSignature(t) \/ Added(t) \/ Forward(t) PROVE Ranges'
  <2>1. work[t].pc # "idle" /\ UNCHANGED <<ones, answers>> /\ crashed' \in Nulls \cup {"no"}
    BY <1>6 DEF Evaluate, FindSignature, Added, Forward, At, tableVars, Ranges, Nulls
  <2>2. \E w : /\ work' = [work EXCEPT ![t] = w] /\ w.req \in {work[t].req, Idle.req}
               /\ w.pc \in {"idle", "find", "add", "ready"}
    <3>0. ASSUME NEW pc \in {"find", "add", "ready"}, NEW def, Go(t, work[t].req, pc, def)
          PROVE  \E w : /\ work' = [work EXCEPT ![t] = w] /\ w.req \in {work[t].req, Idle.req}
                        /\ w.pc \in {"idle", "find", "add", "ready"}
      <4> DEFINE w == [req |-> work[t].req, pc |-> pc, def |-> def]
      <4>1. work' = [work EXCEPT ![t] = w] /\ w.req = work[t].req /\ w.pc = pc
        BY <3>0 DEF Go
      <4> HIDE DEF w
      <4> QED BY <4>1
    <3>1. CASE Evaluate(t)
      BY <3>0, <3>1 DEF Evaluate
    <3>2. CASE FindSignature(t)
      <4> DEFINE def == Find(Req(t).op, Req(t).type)
      <4>1. Go(t, work[t].req, IF def = Null THEN "add" ELSE "ready", def)
        BY <3>2 DEF FindSignature
      <4> HIDE DEF def
      <4> QED BY <3>0, <4>1
    <3>3. CASE Added(t)
      <4>1. \E def : Leave(t) \/ Go(t, work[t].req, "ready", def)
        BY <3>3 DEF Added
      <4> QED BY <1>i, <3>0, <4>1 DEF Leave
    <3>4. CASE Forward(t)
      BY <1>i, <3>4 DEF Forward, Leave
    <3> QED BY <1>6, <3>1, <3>2, <3>3, <3>4
  <2>3. work[t].req \in Calls
    BY <1>h, <2>1
  <2> QED BY <1>2, <1>i, <2>1, <2>2, <2>3 DEF Ranges
<1>7. ASSUME NEW t \in Threads, Add(t) PROVE Ranges'
  BY <1>7 DEF Add, AddInterface, FindOrAdd, StoreNode, SeekTail, AppendEntry, invocationVars, Ranges
<1>8. ASSUME NEW t \in Threads, NEW r \in Calls, Handle(t, r) PROVE Ranges'
  <2>1. \E kind : Handling(t, r, kind)
    BY <1>8 DEF Handle, HandleResponse, HandleResponseThrows, HandleUser, HandleThrows, HandleSystem, HandleNonstandard,
                HandleForward, HandleUnknown
  <2>2. UNCHANGED <<ones, work>> /\ answers[r] = 0
    BY <1>a, <1>t, <2>1 DEF Handling, tableVars
  <2>3. UNCHANGED answers \/ Answer(r, 1) \/ Answer(r, 2)
    BY <1>8 DEF Handle, HandleResponse, HandleResponseThrows, HandleUser, HandleThrows, HandleSystem, HandleNonstandard,
                HandleForward, HandleUnknown, Dereferenced
  <2>f. ReplyFails(r) \in Nulls \cup {"no"}
    BY DEF ReplyFails, Nulls
  <2>4. crashed' \in Nulls \cup {"no"}
    BY <1>8, <2>f DEF Nulls, Handle, HandleResponse, HandleResponseThrows, HandleUser, HandleThrows, HandleSystem, HandleNonstandard,
                HandleForward, HandleUnknown, Dereferenced, Ranges
  <2>5. answers' \in [Calls -> 0 .. 2]
    BY <1>1, <2>2, <2>3 DEF Ranges
  <2> QED BY <2>2, <2>4, <2>5 DEF Ranges
<1>9. ASSUME NEW r \in Calls, TargetReplies(r) PROVE Ranges'
  BY <1>9 DEF TargetReplies, tableVars, Ranges
<1>10. CASE UNCHANGED vars
  BY <1>10 DEF vars, tableVars, invocationVars, Ranges
<1> QED BY <1>3, <1>4, <1>5, <1>6, <1>7, <1>8, <1>9, <1>10 DEF Next, Serve

\* The table stays a tree of operations of the repository, whatever threads do to
\* it at the same time, no request is answered more than twice, and a thread has a
\* call of add_interface exactly while it waits for one.
THEOREM InvocationTypes == Spec => []TypeOK
<1>1. Init => Ranges
  <2> SUFFICES ASSUME Init PROVE Ranges
    OBVIOUS
  <2>1. ones \in Ones /\ crashed \in Nulls \cup {"no"}
    BY DEF Init, TableInit
  <2>2. answers \in [Calls -> 0 .. 2]
    BY DEF Init
  <2>3. \A t \in Threads : work[t].req = Null /\ work[t].pc = "idle"
    BY DEF Init, Idle
  <2> QED BY <2>1, <2>2, <2>3 DEF Ranges
<1>2. IInv /\ Signed /\ Faced /\ Ranges => TypeOK
  <2> SUFFICES ASSUME IInv, Signed, Faced, Ranges PROVE TypeOK
    OBVIOUS
  <2>1. \A n \in DOMAIN nodes : nodes[n].name \in Names /\ {nodes[n].left, nodes[n].right} \subseteq DOMAIN nodes \cup {Null}
    BY DEF Signed, Tree, Nodes, Operations, Kids
  <2>2. \A t \in Threads : (work[t].pc = "add") = (job[t] # Null)
    BY DEF Signed, Working, Busy, Sound
  <2>3. \A t \in Threads : work[t].pc = "ready" => work[t].def \in Interfaces \cup {Object}
    BY VisitedIn DEF Signed, ReadyRight, Right
  <2>4. /\ stage \in [Calls -> {"new", "served", "sent", "back", "done"}]
        /\ back \in [Calls -> Kinds \cup {Null}]
        /\ handed \in [Calls -> SUBSET [what : Kinds \cup {"request"}, to : Sides, faces : Sides]]
    BY DEF IInv, Typed, Stages, Faced
  <2> QED BY <2>1, <2>2, <2>3, <2>4 DEF TypeOK, Ranges
<1>3. Init => Faced
  BY DEF Init, Faced, FacesReceiver
<1> QED BY <1>1, <1>2, <1>3, Initially, Steps, SignedInit, SignedStep, FacedStep, RangesStep, PTL DEF Spec
=============================================================================
