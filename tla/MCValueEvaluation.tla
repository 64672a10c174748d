------------------------- MODULE MCValueEvaluation -------------------------
(* ValueEvaluation with one type of each kind, and operations that mix them. *)
EXTENDS ValueEvaluation, TLC

CONSTANTS c1, c2

TwoCalls == {c1, c2}

MCKind ==
    "void"   :> "plain"    @@ "long"   :> "plain"    @@ "Object" :> "objref"
    @@ "Name"   :> "alias"    @@ "any"    :> "any"      @@ "Pair"   :> "struct"
    @@ "Longs"  :> "sequence" @@ "Pairs"  :> "sequence" @@ "Choice" :> "union"
    @@ "Refused" :> "struct"  @@ "Table"  :> "array"

MCTypes == DOMAIN MCKind

\* The types with parts.
MCParts ==
    [t \in MCTypes |->
        CASE t = "Name"    -> <<"Object">>
          [] t = "Pair"    -> <<"long", "Name">>
          [] t = "Longs"   -> <<"long">>
          [] t = "Pairs"   -> <<"Pair">>
          [] t = "Choice"  -> <<"long", "Pairs">>
          [] t = "Refused" -> <<"any">>
          [] t = "Table"   -> <<"Object">>
          [] OTHER         -> <<>>]

Tree(t, sub) == [tc |-> t, sub |-> sub, ref |-> "none"]
Leaf(t, r)   == [tc |-> t, sub |-> <<>>, ref |-> r]
APair(r)     == Tree("Pair", <<Tree("long", <<>>), Leaf("Name", r)>>)

MCValues ==
    [t \in MCTypes |->
        CASE t = "Object"  -> {Leaf("Object", r) : r \in {"mapped", "stray"}}
          [] t = "Pair"    -> {APair("native"), APair("nil")}
          [] t = "Longs"   -> {Tree("Longs", <<Tree("long", <<>>)>>)}
          [] t = "Pairs"   -> {Tree("Pairs", <<>>), Tree("Pairs", <<APair("stray"), APair("native")>>)}
          [] t = "Choice"  -> {Tree("Choice", <<>>),
                               Tree("Choice", <<Tree("Pairs", <<APair("mapped"), APair("nil")>>)>>)}
          [] t = "any"     -> {Tree("any", <<Tree("long", <<>>)>>), Tree("any", <<APair("native")>>)}
          [] t = "Refused" -> {Tree("Refused", <<Tree("any", <<Leaf("Object", "native")>>)>>)}
          [] t = "Table"   -> {Tree("Table", <<Leaf("Object", "nil")>>)}
          [] t = "Name"    -> {Leaf("Name", "native")}
          [] OTHER         -> {Tree(t, <<>>)}]

Arg(m, t) == [mode |-> m, tc |-> t]
Sig(oneway, result, args, exceps) ==
    [oneway |-> oneway, result |-> result, args |-> args, exceps |-> exceps]

MCSignature ==
    "open"   :> Sig(FALSE, "Object", <<Arg("out", "Choice"), Arg("in", "Name"), Arg("inout", "Pair")>>, <<"Refused">>)
    @@ "list"   :> Sig(FALSE, "Pairs", <<Arg("in", "Longs"), Arg("out", "any")>>, <<>>)
    @@ "notify" :> Sig(TRUE, "void", <<Arg("in", "any"), Arg("in", "long")>>, <<>>)
    @@ "fill"   :> Sig(FALSE, "void", <<Arg("out", "Longs"), Arg("inout", "Table")>>, <<>>)

MCOps == DOMAIN MCSignature

Symmetry == Permutations(Calls)
=============================================================================
