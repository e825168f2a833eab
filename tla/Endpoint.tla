------------------------------ MODULE Endpoint ------------------------------
(***************************************************************************)
(* URLs and endpoints: from_string and to_string of libgonet/abstract.cpp. *)
(* A URL is the sequence of its tokens: ":", "/", and the words between    *)
(* them (so two words are never neighbours).                               *)
(***************************************************************************)
EXTENDS Integers, Sequences

CONSTANTS
    Lookup,   \* external: host name -> address or "none" (address::from_string, DNS)
    Digits    \* the words that are decimal numbers -> their value

Colon == ":"
Slash == "/"
Sep == <<Colon, Slash, Slash>>
IsWord(t) == t \notin {Colon, Slash}
IsNum(t) == t \in DOMAIN Digits

\* uint16_t, the type of a port.
U16 == 65536

\* A name stands for an address, which stands for itself; 0.0.0.0 is one.
ASSUME LookupAssumption ==
    /\ \A h \in DOMAIN Lookup :
           /\ h \in STRING /\ IsWord(h)
           /\ Lookup[h] # "none" => Lookup[h] \in DOMAIN Lookup /\ Lookup[Lookup[h]] = Lookup[h]
    /\ "0.0.0.0" \in DOMAIN Lookup /\ Lookup["0.0.0.0"] = "0.0.0.0"

\* Among the numbers are those that std::to_string makes of the ports.
ASSUME DigitsAssumption ==
    /\ \A w \in DOMAIN Digits :
           /\ w \in STRING \ {"none"} /\ IsWord(w) /\ Digits[w] \in Nat
           /\ \E v \in DOMAIN Digits : Digits[v] = Digits[w] % U16
    /\ \E v \in DOMAIN Digits : Digits[v] = 0

\* Whether and to what a host resolves: a name nobody knows does not.
Resolve(h) == IF h \in DOMAIN Lookup THEN Lookup[h] ELSE "none"

\* proto_type_s, the names of proto_type.
Proto == {"unkown", "tcp", "ssl", "udp", "http", "https", "zk"}

\* str2proto of what stands before "://", which may be more than one word.
str2proto(s) == IF Len(s) = 1 /\ s[1] \in Proto THEN s[1] ELSE "unkown"

\* endpoint(), which from_string returns with an error.
NoEndpoint == [proto |-> "unkown", address |-> "0.0.0.0", port |-> 0, path |-> << >>]

-----------------------------------------------------------------------------
\* from_string: the expression ((.*)://)?([^:/]+)(:(\d+))?(/.*)?

From(s, i) == SubSeq(s, i, Len(s))
StartsWith(s, t) == s # << >> /\ s[1] = t

\* (:(\d+))? is there, and what follows it.
HasPort(t) == StartsWith(t, Colon) /\ Len(t) >= 2 /\ IsNum(t[2])
AfterPort(t) == IF HasPort(t) THEN From(t, 3) ELSE t

\* ([^:/]+)(:(\d+))?(/.*)? matches r.
HostPortPath(r) ==
    /\ r # << >> /\ IsWord(r[1])
    /\ LET path == AfterPort(Tail(r)) IN path = << >> \/ StartsWith(path, Slash)

\* Where the host may begin: at the start, or after any "://".
HostAt(s) ==
    {i \in {1} \cup {k \in 4..Len(s) : SubSeq(s, k - 3, k - 1) = Sep} : HostPortPath(From(s, i))}

\* (.*) is greedy: the last of them is taken, and the scheme is what comes before.
Host(s) == CHOOSE i \in HostAt(s) : \A k \in HostAt(s) : k <= i
Scheme(s) == IF Host(s) = 1 THEN << >> ELSE SubSeq(s, 1, Host(s) - 4)

\* Mutant: result[4], with the colon, is given to atoi.
PortMutant(t) == 0

\* atoi(result[5]), as a uint16_t; 0 without a port.
Port(t) == IF HasPort(t) THEN Digits[t[2]] % U16 ELSE 0

\* The error code and the endpoint from_string gives.
from_string(s) ==
    IF HostAt(s) = {} THEN [ec |-> "url_parse_error", ep |-> NoEndpoint]
    ELSE LET host == s[Host(s)]
             rest == From(s, Host(s) + 1)
         IN  IF Resolve(host) = "none" THEN [ec |-> "dns_not_found", ep |-> NoEndpoint]
             ELSE [ec |-> "ok",
                   ep |-> [proto |-> str2proto(Scheme(s)), address |-> Resolve(host),
                           port |-> Port(rest), path |-> AfterPort(rest)]]

-----------------------------------------------------------------------------

\* The word std::to_string makes of a port.
Decimal(n) == CHOOSE w \in DOMAIN Digits : Digits[w] = n

\* Mutant: the path is left out.
to_stringMutant(ep) ==
    (IF ep.proto = "unkown" THEN << >> ELSE <<ep.proto>> \o Sep)
        \o <<ep.address, Colon, Decimal(ep.port)>>

to_string(ep) ==
    (IF ep.proto = "unkown" THEN << >> ELSE <<ep.proto>> \o Sep)
        \o <<ep.address, Colon, Decimal(ep.port)>> \o ep.path

-----------------------------------------------------------------------------
(* What a user means by a URL: the parts it is written from, each of which   *)
(* but the host may be left out.                                             *)

Written(w) ==
    (IF w.scheme = "none" THEN << >> ELSE <<w.scheme>> \o Sep)
        \o <<w.host>>
        \o (IF w.port = "none" THEN << >> ELSE <<Colon, w.port>>)
        \o w.path

\* The endpoint that is meant.
Meant(w) ==
    [proto |-> IF w.scheme \in Proto THEN w.scheme ELSE "unkown",
     address |-> Lookup[w.host],
     port |-> IF w.port = "none" THEN 0 ELSE Digits[w.port],
     path |-> w.path]

HasSep(s) == \E k \in 3..Len(s) : SubSeq(s, k - 2, k) = Sep

\* The URLs with one reading: the parts are what they should be, the port has 16
\* bits, and there is no "://" in the path.
Plain(w) ==
    /\ IsWord(w.scheme)
    /\ w.host \in DOMAIN Lookup
    /\ w.port = "none" \/ (IsNum(w.port) /\ Digits[w.port] < U16)
    /\ w.path = << >> \/ StartsWith(w.path, Slash)
    /\ ~HasSep(w.path)
=============================================================================
