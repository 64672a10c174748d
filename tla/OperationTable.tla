--------------------------- MODULE OperationTable ---------------------------
(***************************************************************************)
(* The table of operation signatures (src/src/OCI/OperationTable.cpp) that *)
(* the generic evaluator consults for every request, reply and exception.  *)
(* It is a binary tree of operations; each has a chain of entries, one per *)
(* interface that has an operation of that name.  find reads it and        *)
(* add_interface extends it with what the interface repository says.       *)
(*                                                                         *)
(* The guards in find and add_interface are temporaries: they release the  *)
(* lock at once and exclude nobody.  A pointer is read in one step and     *)
(* stored in another, so that threads may overlap between the two.         *)
(*                                                                         *)
(* Left out: the reference counts of the argument lists, which only grow,  *)
(* and their contents; a signature is represented by the interface that    *)
(* defines it.  An attribute is its _get_ and _set_ operations.            *)
(***************************************************************************)
EXTENDS Naturals, Sequences, SequencesExt

CONSTANTS
    Threads,     \* the ORB threads
    Calls,       \* the calls of add_interface
    Interfaces,  \* the interfaces in the repository
    Own,         \* Own[i]: the operations that i itself declares, in order
    Bases,       \* Bases[i]: what base_interfaces() returns, in order
    Greater,     \* the pairs of names <<a, b>> with strcmp(a, b) > 0
    Ones,        \* the sets of pairs for which a C library's strcmp may return exactly 1
    Object,      \* the type id of CORBA::Object
    Null         \* no node, no entry, no interface

ASSUME TableAssumption ==
    /\ Own \in [Interfaces -> Seq(STRING)]
    /\ Bases \in [Interfaces -> Seq(Interfaces)]
    /\ Ones \subseteq SUBSET Greater

\* Nodes and entries are identified by the call that has made them and the place in
\* it; what a thread has of its call is described at Begun.
Ids     == (Calls \cup {Null}) \X Nat
Entries == [rep : Interfaces \cup {Object}, def : Interfaces \cup {Object},
            id : Ids \cup (Calls \X Nat \X Nat)]
Jobs    == [call : Calls, iface : Interfaces, item : Nat, rep : Nat,
            pc : {"search", "store", "tail", "append", "added"}, at : Ids \cup {Null},
            link : {"found", "left", "right"}, seen : Entries \cup {Null}]

\* The null pointer is none of these.
ASSUME NullAssumption ==
    /\ Null \notin Interfaces /\ Null # Object /\ Null \notin Calls
    /\ Null \notin Ids /\ Null \notin Entries /\ Null \notin Jobs

VARIABLES
    ones,   \* the pairs for which this strcmp returns 1
    nodes,  \* the operations in memory, also those that have dropped out of the tree
    job     \* what each thread has of its call of add_interface

tableVars == <<ones, nodes, job>>

Names == {"_is_a", "_non_existent"} \cup UNION {ToSet(Own[i]) : i \in Interfaces}

-----------------------------------------------------------------------------
(***************************************************************************)
(* The tree.  A definition that stands before the one it resembles is a    *)
(* faulty variant that no action uses: it shows which fault a property     *)
(* notices.                                                                *)
(***************************************************************************)

\* The operation at the root, made by the constructor.
head == <<Null, 1>>

\* A new operation, and an entry of its chain.
Operation(name, set) == [name |-> name, left |-> Null, right |-> Null, set |-> set]
OpArgs(rep, def, id) == [rep |-> rep, def |-> def, id |-> id]

\* find goes right when strcmp returns 1, and so does find_or_add.
FindsBySign == Greater
FindsRight  == ones
AddsRight   == ones

\* The node where the search for a name ends, and the link that would hold it;
\* right has the pairs of names for which it goes right.
Search(name, right) ==
    LET from[n \in DOMAIN nodes] ==
          LET next == IF <<name, nodes[n].name>> \in right THEN "right" ELSE "left"
          IN CASE nodes[n].name = name   -> [at |-> n, link |-> "found"]
               [] nodes[n].name # name /\ nodes[n][next] = Null -> [at |-> n, link |-> next]
               [] OTHER -> from[nodes[n][next]]
    IN from[head]

\* Operation::args: the first entry for an interface.
LookupAny(set, rep) == IF set = <<>> THEN Null ELSE set[1].def
Lookup(set, rep) ==
    LET at == SelectInSeq(set, LAMBDA e : e.rep = rep)
    IN IF at = 0 THEN Null ELSE set[at].def

\* OperationTable::find: the signature, or Null.
Find(name, rep) ==
    LET s == Search(name, FindsRight)
    IN IF s.link = "found" THEN Lookup(nodes[s.at].set, rep) ELSE Null

-----------------------------------------------------------------------------
(***************************************************************************)
(* add_interface.                                                          *)
(***************************************************************************)

\* The interfaces its loop visits: the one it is given, then its direct bases.
Visited(i) == <<i>> \o Bases[i]

\* The interfaces an operation of the k-th one visited is entered for: that one
\* itself and all of derived.
Entered(i, k) == <<Visited(i)[k]>> \o SubSeq(Visited(i), 1, k - 1)

\* The operations it enters, in order.
Items(i) ==
    <<[name |-> "_is_a", def |-> Object, reps |-> <<i>>],
      [name |-> "_non_existent", def |-> Object, reps |-> <<i>>]>>
    \o FlattenSeq([k \in 1 .. Len(Visited(i)) |->
         [o \in 1 .. Len(Own[Visited(i)[k]]) |->
            [name |-> Own[Visited(i)[k]][o], def |-> Visited(i)[k], reps |-> Entered(i, k)]]])

\* The constructor enters the two implicit operations for CORBA::Object.
Constructed ==
    LET second == <<Null, 2>>
        entry(n) == <<OpArgs(Object, Object, n)>>
        right == <<"_non_existent", "_is_a">> \in ones
        root == [Operation("_is_a", entry(head)) EXCEPT !.right = IF right THEN second ELSE Null,
                                                        !.left = IF right THEN Null ELSE second]
    IN [n \in {head, second} |-> IF n = head THEN root ELSE Operation("_non_existent", entry(second))]

TableInit ==
    /\ ones \in Ones
    /\ nodes = Constructed
    /\ job = [t \in Threads |-> Null]

\* A call of add_interface begins with its first item.
Begun(call, i) == [call |-> call, iface |-> i, item |-> 1, rep |-> 1,
                   pc |-> "search", at |-> Null, link |-> "found", seen |-> Null]

Item(t) == Items(job[t].iface)[job[t].item]
Id(t)   == <<job[t].call, job[t].item>>

\* find_or_add, up to the node or the empty link that it finds.
FindOrAdd(t) ==
    /\ job[t] # Null /\ job[t].pc = "search"
    /\ LET s == Search(Item(t).name, AddsRight)
       IN job' = [job EXCEPT ![t].at = s.at, ![t].link = s.link,
                             ![t].pc = IF s.link = "found" THEN "tail" ELSE "store"]
    /\ UNCHANGED <<ones, nodes>>

\* It stores the new node in the link it has seen empty.
Linked(t) == [nodes EXCEPT ![job[t].at][job[t].link] = Id(t)]

StoreNode(t) ==
    /\ job[t] # Null /\ job[t].pc = "store"
    /\ nodes' = [n \in DOMAIN nodes \cup {Id(t)} |->
                   IF n = Id(t) THEN Operation(Item(t).name, <<>>) ELSE Linked(t)[n]]
    /\ job' = [job EXCEPT ![t].at = Id(t), ![t].pc = "tail"]
    /\ UNCHANGED ones

\* add_set, up to the end of the chain.
SeekTail(t) ==
    /\ job[t] # Null /\ job[t].pc = "tail"
    /\ LET set == nodes[job[t].at].set
       IN job' = [job EXCEPT ![t].seen = IF set = <<>> THEN Null ELSE Last(set),
                             ![t].pc = "append"]
    /\ UNCHANGED <<ones, nodes>>

\* The chain when the new entry is stored behind the one that was last: what
\* others have stored there since is cut off, and behind an entry that has been
\* cut off itself the new one is out of reach.
Appended(set, seen, entry) ==
    LET keep == IF seen = Null THEN {0} ELSE {k \in 1 .. Len(set) : set[k] = seen}
    IN IF keep = {} THEN set
       ELSE Append(SubSeq(set, 1, CHOOSE k \in keep : TRUE), entry)

\* Where the call goes on: the next interface of this item, the next item, or
\* nowhere.
Moved(j) ==
    CASE j.rep < Len(Items(j.iface)[j.item].reps) -> [j EXCEPT !.rep = @ + 1, !.pc = "tail"]
      [] j.rep = Len(Items(j.iface)[j.item].reps) /\ j.item < Len(Items(j.iface)) ->
           [j EXCEPT !.item = @ + 1, !.rep = 1, !.pc = "search"]
      [] OTHER -> [j EXCEPT !.pc = "added"]

AppendEntry(t) ==
    /\ job[t] # Null /\ job[t].pc = "append"
    /\ LET entry == OpArgs(Item(t).reps[job[t].rep], Item(t).def, <<job[t].call, job[t].item, job[t].rep>>)
       IN nodes' = [nodes EXCEPT ![job[t].at].set = Appended(@, job[t].seen, entry)]
    /\ job' = [job EXCEPT ![t] = Moved(@)]
    /\ UNCHANGED ones

\* What add_interface returns for the operation it was asked for.
Desired(i, name) ==
    LET at == SelectLastInSeq(Items(i), LAMBDA x : x.name = name)
    IN IF at = 0 THEN Null ELSE Items(i)[at].def

AddInterface(t) == FindOrAdd(t) \/ StoreNode(t) \/ SeekTail(t) \/ AppendEntry(t)
=============================================================================
