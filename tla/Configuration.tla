--------------------------- MODULE Configuration ---------------------------
(***************************************************************************)
(* The configuration file (src/src/lorica/FileConfig.cpp) and what is made *)
(* of it (src/src/lorica/ConfigBase.cpp): the arguments of ORB_init and    *)
(* the endpoints of the two sides.                                         *)
(*                                                                         *)
(* A line of the file is the sequence of the words that single blanks      *)
(* separate, tabs and carriage returns counting as blanks; two blanks      *)
(* together have the word Blank between them.  A value is such a sequence  *)
(* too, the empty one for a token that has none.                           *)
(*                                                                         *)
(* An endpoint may name a network interface, whose address is looked up    *)
(* when the endpoint is parsed and may come, go and change at any time.    *)
(***************************************************************************)
EXTENDS Integers, Sequences, SequencesExt, FiniteSetsExt

CONSTANTS
    Files,       \* the files there may be
    Tokens,      \* the tokens in them
    hash_pjw,    \* the hash by which a value is stored
    Nics,        \* what getifaddrs lists, in order: name, family, possible addresses
    NotExternal, \* the addresses that get_first_external_ip passes over
    Hazards      \* what may happen: see Overrun

ASSUME ConfigAssumption ==
    /\ hash_pjw \in [Tokens -> Nat]
    /\ \A s, t \in Tokens : hash_pjw[s] = hash_pjw[t] => s = t
    /\ Len(Nics) \in Nat /\ DOMAIN Nics = 1 .. Len(Nics)
    /\ \A k \in DOMAIN Nics : "" \notin Nics[k].addresses

\* The second character of an empty string is read, and may be anything.
Overrun == "overrun" \in Hazards

Blank     == [kind |-> "blank"]
Comment   == [kind |-> "comment"]
Text(s)   == [kind |-> "text", text |-> s]
Num(n)    == [kind |-> "num", num |-> n]
Missing   == [kind |-> "missing"]
Down      == "down"

\* host:port/options, where brackets stand around the host of an IPv6 address, '%'
\* or '+' before the name of an interface, and a port that is no number is 0.
Address(brackets, mark, host, port, alias, random, ssl) ==
    [kind |-> "address", brackets |-> brackets, mark |-> mark, host |-> host,
     port |-> port, alias |-> alias, random |-> random, ssl |-> ssl]

\* All strings; those that the code itself has are listed, because STRING has no
\* members that could be reasoned about.
Names     == STRING \cup {"", "hostname", "localhost"}
Nums      == [kind : {"num"}, num : Int]
Texts     == [kind : {"text"}, text : STRING]
Addresses == [kind : {"address"}, brackets : BOOLEAN, mark : {"", "%", "+"}, host : Names,
              port : Nums \cup {Missing}, alias : Names, random : BOOLEAN,
              ssl : Nums \cup {Missing}]
Words     == {Blank, Comment} \cup Texts \cup Addresses

VARIABLES
    file,       \* the file that was read
    configs,    \* configs_
    endpoints,  \* endpoints_
    orbArgs,    \* orb_args_
    todo,       \* the addresses init_endpoints has yet to parse
    retried,    \* whether the interface of the first of them has been looked up in vain
    uuids,      \* how many UUIDs have been generated
    nics        \* the address of each of Nics, Down when it has none

configVars == <<file, configs, endpoints, orbArgs, todo, retried, uuids>>

-----------------------------------------------------------------------------
(***************************************************************************)
(* FileConfig.  A definition that stands before the one it resembles is a  *)
(* faulty variant that no action uses.                                     *)
(***************************************************************************)
String(w)   == IF w = Blank THEN "" ELSE w.text
IsBlank(w)  == w = Blank
IsWord(w)   == w # Blank

\* SelectSeq, in a form that can be reasoned about.
Selected(s, Test(_)) == FlattenSeq([k \in 1 .. Len(s) |-> IF Test(s[k]) THEN <<s[k]>> ELSE <<>>])

\* What comments and trailing blanks leave of a line.
Trimmed(line) ==
    LET at   == SelectInSeq(line, LAMBDA w : w = Comment)
        text == IF at = 0 THEN line ELSE SubSeq(line, 1, at - 1)
    IN SubSeq(text, 1, SelectLastInSeq(text, IsWord))

\* The tokens that are asked for, "" being the token of a line that begins with a
\* blank; and the words that a token is given.
Asked == {"External_Address", "Internal_Address", "ORB_Option", "Null_Eval_Type_ID",
          "Null_Evaluator_Any", "Generic_Evaluator", ""}

Arguments(token) ==
    {Blank} \cup IF token \in {"External_Address", "Internal_Address"} THEN Addresses ELSE Texts

ASSUME FileAssumption ==
    /\ Asked \subseteq Tokens /\ Tokens \subseteq STRING
    /\ Files \subseteq Seq(Seq(Words))
    /\ \A f \in Files : \A k \in DOMAIN f :
         LET l == Trimmed(f[k])
         IN Len(l) >= 2 => /\ Head(l) \in Texts \cup {Blank} /\ String(Head(l)) \in Tokens
                           /\ \A j \in 2 .. Len(l) : l[j] \in Arguments(String(Head(l)))

insert(c, token, value) == [c EXCEPT ![hash_pjw[token]] = value]
extract(c, token)       == c[hash_pjw[token]]

\* The value of a token that stands in several lines is all they say.
ReplacedBy(value, more) == more
Accrued(value, more)    == value \o more

Read(c, line) ==
    LET l == Trimmed(line)
        token == IF l = <<>> THEN "" ELSE String(Head(l))
    IN IF Len(l) < 2 THEN c ELSE insert(c, token, Accrued(extract(c, token), Tail(l)))

unload  == [h \in {hash_pjw[t] : t \in Tokens} |-> <<>>]
load(f) == LET lines[k \in 0 .. Len(f)] == IF k = 0 THEN unload ELSE Read(lines[k - 1], f[k])
           IN lines[Len(f)]

get_value(token) == extract(configs, token)

get_bool_value(token, def) ==
    CASE get_value(token) \in {<<Text("yes")>>, <<Text("true")>>} -> TRUE
      [] get_value(token) \in {<<Text("no")>>, <<Text("false")>>} -> FALSE
      [] OTHER -> def

-----------------------------------------------------------------------------
(***************************************************************************)
(* Network interfaces.                                                     *)
(***************************************************************************)
FirstOf(ks) == IF ks = {} THEN Down ELSE nics[Min(ks)]

Up(family) == {k \in DOMAIN Nics : nics[k] # Down /\ Nics[k].family = family}

get_first_external_ip(family) ==
    FirstOf({k \in Up(family) : Nics[k].name # "lo0" /\ nics[k] \notin NotExternal})

get_ip_from_ifname(family, name) == FirstOf({k \in Up(family) : Nics[k].name = name})

\* An interface comes up, goes down, or gets another address.
NicChanges(k) ==
    /\ \E a \in (Nics[k].addresses \cup {Down}) \ {nics[k]} : nics' = [nics EXCEPT ![k] = a]
    /\ UNCHANGED configVars

-----------------------------------------------------------------------------
(***************************************************************************)
(* Endpoints.                                                              *)
(***************************************************************************)
DefaultPort(external)    == IF external THEN 4082 ELSE 4080
DefaultSslPort(external) == IF external THEN 4083 ELSE 4081

\* init_endpoints: the addresses of a side are the words of its value up to the
\* first empty one, or the default.
UpToBlank(v) ==
    LET at == SelectInSeq(v, IsBlank)
    IN IF at = 0 THEN v ELSE SubSeq(v, 1, at - 1)

DefaultAddress(external) ==
    Address(FALSE, "", IF external THEN "hostname" ELSE "localhost",
            Num(DefaultPort(external)), "", FALSE, Missing)

init_endpoints(external) ==
    LET v == get_value(IF external THEN "External_Address" ELSE "Internal_Address")
        words == IF v = <<>> THEN <<DefaultAddress(external)>> ELSE UpToBlank(v)
    IN [k \in 1 .. Len(words) |-> [external |-> external, word |-> words[k]]]

\* Whether parse_string asks for an address, and of which family.
Looked(w) == w.mark # "" /\ w.host # ""
Version4(w) == "AF_INET"
Family(w) == IF w.mark = "%" THEN "AF_INET" ELSE "AF_INET6"

\* The test for '?' looks at hostname_, which a failed lookup has emptied.
AskedForAnyNot(w) == IF retried THEN {FALSE} ELSE {w.host = "?"}
AskedForAny(w)    == IF retried /\ Overrun THEN BOOLEAN ELSE {w.host = "?"}

Detected(w, any) ==
    IF any THEN get_first_external_ip(Family(w)) ELSE get_ip_from_ifname(Family(w), w.host)

\* The endpoint that parse_string makes with the host that it has found.
AsGiven(n, def)  == n
Positive(n, def) == IF n > 0 THEN n ELSE def

Endpoint(t, host, uuid) ==
    [external |-> t.external,
     hostname |-> IF host = "" THEN "hostname" ELSE host,
     port     |-> Positive(t.word.port.num, DefaultPort(t.external)),
     is_ipv6  |-> t.word.brackets \/ t.word.mark = "+",
     alias    |-> IF t.word.random THEN <<"uuid", uuid>> ELSE <<"alias", t.word.alias>>,
     ssl_port |-> IF t.word.ssl = Missing THEN 0
                  ELSE Positive(t.word.ssl.num, DefaultSslPort(t.external))]

NoAlias == <<"alias", "">>

\* parse_string returns false: there is no port, or both kinds of alias.
Malformed(w) == w.port = Missing

\* as_tao_endpoint: where the ORB listens, and the host that it puts in references.
InIor(e) == IF e.alias = NoAlias THEN <<"host", e.hostname>> ELSE e.alias

as_tao_endpoint(e) ==
    [kind |-> "listen", host |-> e.hostname, is_ipv6 |-> e.is_ipv6, port |-> e.port,
     ssl_port |-> e.ssl_port, hostname_in_ior |-> InIor(e)]

\* get_endpoints: the endpoints are parsed once and kept.
get_endpoints_anew(external) ==
    LET ts == init_endpoints(external)
        host(w) == IF Looked(w) THEN Detected(w, w.host = "?") ELSE w.host
    IN [k \in 1 .. Len(ts) |-> Endpoint(ts[k], host(ts[k].word), uuids + k)]
get_endpoints(external) == Selected(endpoints, LAMBDA e : e.external = external)

-----------------------------------------------------------------------------
(***************************************************************************)
(* get_orb_options, called once by Proxy::configure: the options of the    *)
(* file, then the endpoints, whose parsing may have to wait.               *)
(***************************************************************************)
ConfigInit ==
    /\ file \in Files
    /\ configs = unload
    /\ endpoints = <<>>
    /\ orbArgs = <<>>
    /\ todo = <<>>
    /\ retried = FALSE
    /\ uuids = 0
    /\ nics \in [DOMAIN Nics -> UNION {Nics[k].addresses : k \in DOMAIN Nics} \cup {Down}]
    /\ \A k \in DOMAIN Nics : nics[k] \in Nics[k].addresses \cup {Down}

\* FileConfig::init
LoadFile ==
    /\ configs' = load(file)
    /\ UNCHANGED <<file, endpoints, orbArgs, todo, retried, uuids, nics>>

BeginOptions ==
    /\ orbArgs = <<>>
    /\ orbArgs' = <<Text("lorica"), Text("-ORBUseSharedProfile"), Num(0)>>
                  \o Selected(get_value("ORB_Option"), IsWord)
    /\ todo' = init_endpoints(TRUE) \o init_endpoints(FALSE)
    /\ UNCHANGED <<file, configs, endpoints, retried, uuids, nics>>

\* The next address is parsed.
Parse ==
    LET t == Head(todo) IN
    /\ todo # <<>>
    /\ ~Malformed(t.word)
    /\ ~(t.word.random /\ t.word.alias # "")
    /\ \E host \in IF Looked(t.word) THEN {Detected(t.word, any) : any \in AskedForAny(t.word)}
                   ELSE {t.word.host} :
         /\ host # Down
         /\ endpoints' = Append(endpoints, Endpoint(t, host, uuids + 1))
    /\ uuids' = IF t.word.random THEN uuids + 1 ELSE uuids
    /\ todo' = Tail(todo)
    /\ retried' = FALSE
    /\ UNCHANGED <<file, configs, orbArgs, nics>>

\* "Could not determine auto address", and ten seconds of sleep.
ParseRetries ==
    LET w == Head(todo).word IN
    /\ todo # <<>>
    /\ ~Malformed(w) /\ Looked(w)
    /\ \E any \in AskedForAny(w) : Detected(w, any) = Down
    /\ retried' = TRUE
    /\ UNCHANGED <<file, configs, endpoints, orbArgs, todo, uuids, nics>>

\* parse_string fails, after any wait for an address, and get_orb_options with it.
ParseFails ==
    LET w == Head(todo).word IN
    /\ todo # <<>>
    /\ \/ Malformed(w)
       \/ /\ w.random /\ w.alias # ""
          /\ Looked(w) => \E any \in AskedForAny(w) : Detected(w, any) # Down
    /\ endpoints' = <<>>
    /\ orbArgs' = <<>>
    /\ todo' = <<>>
    /\ retried' = FALSE
    /\ UNCHANGED <<file, configs, uuids, nics>>

EndOptions ==
    /\ todo = <<>>
    /\ orbArgs' = orbArgs \o [k \in 1 .. Len(endpoints) |-> as_tao_endpoint(endpoints[k])]
    /\ UNCHANGED <<file, configs, endpoints, todo, retried, uuids, nics>>
=============================================================================
