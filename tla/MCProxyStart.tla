---------------------------- MODULE MCProxyStart ----------------------------
(* ProxyStart with a handful of configuration files. *)
EXTENDS ProxyStart

CONSTANTS m1, m2, g, z1

TwoOthers   == {m1, m2, g}
SomeSupport == m1 :> {"ta"} @@ m2 :> {"tb"} @@ g :> {"ta"}
SomeTypes   == {"", "ta", "tb"}
OneNull     == {z1}

SomeTokens == {"External_Address", "Internal_Address", "ORB_Option", "Null_Eval_Type_ID",
               "Null_Evaluator_Any", "Generic_Evaluator", ""}
SomeHash   == "External_Address" :> 1 @@ "Internal_Address" :> 2 @@ "ORB_Option" :> 3
              @@ "Null_Eval_Type_ID" :> 4 @@ "Null_Evaluator_Any" :> 5
              @@ "Generic_Evaluator" :> 6 @@ "" :> 0

SomeNics == <<[name |-> "lo", family |-> "AF_INET", addresses |-> {"127.0.0.1"}],
              [name |-> "eth0", family |-> "AF_INET", addresses |-> {"10.0.0.1", "10.0.0.2"}],
              [name |-> "eth0", family |-> "AF_INET6", addresses |-> {"fe80::1"}]>>
Local == {"127.0.0.1", "::1"}

NoHazard == {}

Plain(host, port) == Address(FALSE, "", host, Num(port), "", FALSE, Missing)
Word(s) == Text(s)

\* Options between other options, extra blanks, a comment, and two addresses.
Interplaced ==
    << <<Comment>>,
       <<Word("ORB_Option"), Word("-ORBDebug")>>,
       <<Word("External_Address"), Plain("a", 1), Blank>>,
       <<Word("ORB_Option"), Blank, Word("-ORBLogFile"), Comment, Word("x")>>,
       <<Word("External_Address"), Address(TRUE, "", "", Num(0), "b", FALSE, Num(0)), Plain("c", 3)>>,
       <<Word("ORB_Option"), Word("orb.log")>>,
       <<Word("Null_Evaluator_Any"), Word("yes")>> >>

\* Addresses of interfaces, one of them with a random alias.
Detecting ==
    << <<Word("External_Address"), Address(FALSE, "%", "?", Num(1), "", TRUE, Missing)>>,
       <<Word("Internal_Address"), Address(FALSE, "+", "eth0", Num(2), "", FALSE, Missing),
         Address(FALSE, "%", "", Num(3), "", FALSE, Missing)>>,
       <<Word("Null_Eval_Type_ID"), Word("ta"), Blank, Word("tb")>>,
       <<Word("Null_Evaluator_Any"), Word("yes")>>,
       <<Word("Generic_Evaluator"), Word("yes")>> >>

\* An address after two blanks, which is not reached, and a token without a value.
Spaced ==
    << <<Word("External_Address"), Plain("a", 1)>>,
       <<Word("External_Address"), Blank, Plain("b", 2)>>,
       <<Blank, Word("External_Address")>>,
       <<Word("Generic_Evaluator")>>,
       <<Word("Null_Eval_Type_ID"), Word("tb")>> >>

\* Addresses that cannot be parsed.
NoPort ==
    << <<Word("External_Address"), Plain("a", 1)>>,
       <<Word("Internal_Address"), Address(FALSE, "", "b", Missing, "", FALSE, Missing)>> >>

TwoAliases ==
    << <<Word("Internal_Address"), Plain("a", 1), Address(FALSE, "%", "eth0", Num(2), "b", TRUE, Missing)>> >>

SomeFiles == {Interplaced, Detecting, Spaced, NoPort, TwoAliases}
=============================================================================
