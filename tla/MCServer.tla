------------------------------ MODULE MCServer ------------------------------
(* Instances of Server for TLC. *)
EXTENDS Server

CONSTANTS srv, grp, i1, i2

DefaultSmall == [k \in Key |-> "small"]

HostsKnown == [h \in {"0.0.0.0", "10.0.0.1", "db", "nowhere", "80", "tcp"} |->
                  CASE h = "db" -> "10.0.0.1"
                    [] h \in {"nowhere", "80", "tcp"} -> "none"
                    [] OTHER -> h]

Numbers == [w \in {"0", "80", "081", "65535", "65616"} |->
               CASE w = "0" -> 0 [] w = "80" -> 80 [] w = "081" -> 81
                 [] w = "65535" -> 65535 [] OTHER -> 65616]

Url(schemes, hosts, ports, paths) ==
    [scheme : schemes, host : hosts, port : ports, path : paths]

Paths == {<< >>, <<"/">>, <<"/", "a", "/", "b">>, <<"/", "/", "a">>, <<"/", "a", ":", "80">>,
          <<"/", "go", ":", "/", "/", "db">>, <<"/", "go", ":", "/", "/">>}

\* Every way of writing a URL, and some that are none.
ManyUrls ==
    Url({"none", "tcp", "ssl", "udp", "http", "zk", "tls"}, {"10.0.0.1", "db", "nowhere", "80"},
        {"none", "0", "80", "65535", "65616"}, Paths)
    \cup Url({"tcp", "none"}, {"db", ":"}, {"db", "none"}, {<< >>, <<"/", "a">>, <<":">>})

\* A server of each kind, and the two refusals.
FewUrls ==
    Url({"tcp", "udp"}, {"10.0.0.1"}, {"none"}, {<< >>})
    \cup Url({"http"}, {"db"}, {"80"}, {<<"/", "a">>}) \cup Url({"tcp"}, {"nowhere"}, {"80"}, {<< >>})
=============================================================================
