------------------------------- MODULE Server -------------------------------
(***************************************************************************)
(* The Server facade of libgonet/network.cpp with the TcpServer or UdpPoint*)
(* objects it makes: which of them runs, who keeps it alive, and where it  *)
(* is in the tree of options. The facade is used by one thread; the loops  *)
(* and sessions of its servers run beside it and may be the ones that drop *)
(* the last reference.                                                     *)
(***************************************************************************)
EXTENDS Options, Endpoint

CONSTANTS
    Facade,      \* the Server object
    Group,       \* an option object of the user's, which may be linked above it
    Impl,        \* the objects CreateServer makes: a bound on the goStart calls
    StartUrl,    \* what goStart is given
    ReadableUrl, \* what the user parses before there is a Server
    MaxHolders,  \* bound on the sessions a server has at a time
    RandomPort   \* external: the port bind chooses for port 0

ASSUME ServerAssumption ==
    /\ Object = {Facade, Group} \cup Impl
    /\ Facade # Group /\ Facade \notin Impl /\ Group \notin Impl
    /\ MaxHolders \in Nat /\ RandomPort \in 1..(U16 - 1)
    /\ \E v \in DOMAIN Digits : Digits[v] = RandomPort
ASSUME UrlAssumption ==
    StartUrl \cup ReadableUrl \subseteq
        [scheme : STRING, host : STRING, port : STRING, path : Seq(STRING)]

VARIABLES
    user,             \* where the thread that uses the facade is
    fork,             \* its call is goStartBeforeFork, not goStart
    asked,            \* the URL it reads, and what from_string made of it
    busy,             \* the object whose destructor the thread is in, if any
    impl,             \* impl_
    local_addr,       \* *local_addr_
    run,              \* what each server object does
    udp,              \* whether it is a UdpPoint
    told,             \* its shutdown_
    holders,          \* sessions that keep it alive: holder_, udp_point
    replaced          \* history: servers that ran when a goStart replaced them

userVars == <<user, fork, asked, busy>>
facadeVars == <<impl, local_addr>>
implVars == <<run, udp, told, holders>>
vars == <<treeVars, userVars, facadeVars, implVars, replaced>>

\* The thread is asking for nothing.
NotAsked == [url |-> << >>, ec |-> "none", ep |-> NoEndpoint]

Init ==
    /\ OptionsInit({Group})
    /\ user = "none" /\ fork = FALSE /\ asked = NotAsked /\ busy = None
    /\ impl = None /\ local_addr = NoEndpoint
    /\ run = [i \in Impl |-> "unborn"] /\ udp = [i \in Impl |-> FALSE]
    /\ told = [i \in Impl |-> FALSE] /\ holders = [i \in Impl |-> 0]
    /\ replaced = {}

\* The user's thread is at a place, and not in a destructor.
At(where) == user = where /\ busy \notin alive
Goto(where) == user' = where
UserDestroys(o) == Destroy(o) /\ busy' = o

\* Mutant: the coroutine of the loop does not keep its server alive.
HeldMutant(i) == impl' = i \/ holders'[i] > 0

\* Who still has a shared_ptr to i after this step.
Held(i) == impl' = i \/ run'[i] = "listening" \/ holders'[i] > 0

-----------------------------------------------------------------------------
(* The URL and the server object *)

\* What the thread knows of a URL once from_string has read it.
Read(w) == LET r == from_string(Written(w)) IN [url |-> w, ec |-> r.ec, ep |-> r.ep]

\* from_string, called by the user.
ReadUrl(w) ==
    /\ At("none") /\ asked.ec = "none"
    /\ asked' = Read(w)
    /\ UNCHANGED <<treeVars, user, fork, busy, facadeVars, implVars, replaced>>

\* Server::Server.
NewServer ==
    /\ At("none")
    /\ Construct(Facade)
    /\ Goto("idle") /\ asked' = NotAsked
    /\ UNCHANGED <<fork, busy, facadeVars, implVars, replaced>>

\* goStart and goStartBeforeFork read the URL into *local_addr_. Impl bounds
\* the calls that get as far as CreateServer.
goStart(w, before) ==
    /\ At("idle") /\ \E i \in Impl : run[i] = "unborn"
    /\ asked' = Read(w)
    /\ local_addr' = Read(w).ep
    /\ fork' = before
    /\ Goto("parsed")
    /\ UNCHANGED <<treeVars, busy, impl, implVars, replaced>>

\* The protocols that have a server.
IsTcp(ep) == ep.proto \in {"tcp", "ssl"}
IsUdp(ep) == ep.proto = "udp"

\* The early returns: the parse error, and ec_unsupport_protocol.
Refuse ==
    /\ At("parsed")
    /\ asked.ec # "ok" \/ ~(IsTcp(local_addr) \/ IsUdp(local_addr))
    /\ Goto("idle") /\ asked' = NotAsked
    /\ UNCHANGED <<treeVars, fork, busy, facadeVars, implVars, replaced>>

\* protocol_->CreateServer().
CreateServer(i) ==
    /\ At("parsed") /\ asked.ec = "ok" /\ (IsTcp(local_addr) \/ IsUdp(local_addr))
    /\ run[i] = "unborn"
    /\ Construct(i)
    /\ run' = [run EXCEPT ![i] = "new"]
    /\ udp' = [udp EXCEPT ![i] = IsUdp(local_addr)]
    /\ Goto("assign") /\ asked' = NotAsked
    /\ UNCHANGED <<fork, busy, facadeVars, told, holders, replaced>>

\* impl_ = the new object: the old one is released, and is destroyed here if
\* nothing else holds it.
AssignImpl(i) ==
    /\ At("assign") /\ run[i] = "new"
    /\ impl' = i
    /\ run' = [run EXCEPT ![i] = "off"]
    /\ replaced' = IF impl # None /\ run[impl] = "listening" THEN replaced \cup {impl} ELSE replaced
    /\ UNCHANGED holders
    /\ IF impl # None /\ ~Held(impl) THEN UserDestroys(impl) ELSE UNCHANGED <<treeVars, busy>>
    /\ Goto("link")
    /\ UNCHANGED <<fork, asked, local_addr, udp, told>>

\* this->Link(*impl_->GetOptions()).
LinkImpl ==
    /\ At("link")
    /\ Link(Facade, impl)
    /\ Goto("start")
    /\ UNCHANGED <<fork, asked, busy, facadeVars, implVars, replaced>>

\* impl_->goStart or goStartBeforeFork, and *local_addr_ = impl_->LocalAddr().
\* A UdpPoint starts its loop in both; a failure leaves its default address.
StartImpl ==
    /\ At("start")
    /\ \/ /\ run' = [run EXCEPT ![impl] = IF fork /\ ~udp[impl] THEN "bound" ELSE "listening"]
          /\ local_addr' = [local_addr EXCEPT !.port = IF @ = 0 THEN RandomPort ELSE @]
       \/ local_addr' = NoEndpoint /\ UNCHANGED run
    /\ Goto("idle")
    /\ UNCHANGED <<treeVars, fork, asked, busy, impl, udp, told, holders, replaced>>

\* goStartAfterFork, on a server that goStartBeforeFork has bound.
goStartAfterFork ==
    /\ At("idle") /\ impl # None /\ run[impl] = "bound"
    /\ run' = [run EXCEPT ![impl] = "listening"]
    /\ UNCHANGED <<treeVars, userVars, facadeVars, udp, told, holders, replaced>>

-----------------------------------------------------------------------------
(* Shutdown and the destructor *)

\* Mutant: the destructor of Server does not shut down.
ShutdownMutant(next) ==
    /\ At("idle")
    /\ Goto(next)
    /\ UNCHANGED <<treeVars, fork, asked, busy, facadeVars, implVars, replaced>>

\* Shutdown, called by the user (next = "idle") or by ~Server (next =
\* "release"). UdpPoint::Shutdown does nothing twice or before the start, and
\* waits for its loop.
Shutdown(next) ==
    /\ At("idle")
    /\ \/ impl = None /\ Goto(next) /\ UNCHANGED told
       \/ /\ impl # None /\ ~udp[impl]
          /\ told' = [told EXCEPT ![impl] = TRUE] /\ Goto(next)
       \/ /\ impl # None /\ udp[impl] /\ (run[impl] # "listening" \/ told[impl])
          /\ Goto(next) /\ UNCHANGED told
       \/ /\ impl # None /\ udp[impl] /\ run[impl] = "listening" /\ ~told[impl]
          /\ told' = [told EXCEPT ![impl] = TRUE]
          /\ Goto(IF next = "idle" THEN "wait" ELSE "wait_release")
    /\ UNCHANGED <<treeVars, fork, asked, busy, facadeVars, run, udp, holders, replaced>>

\* The end of UdpPoint's loop is seen on its channel.
WaitRecv ==
    /\ At("wait") \/ At("wait_release")
    /\ run[impl] = "stopped"
    /\ Goto(IF user = "wait" THEN "idle" ELSE "release")
    /\ UNCHANGED <<treeVars, fork, asked, busy, facadeVars, implVars, replaced>>

\* The members of Server are destroyed: impl_ is let go.
ReleaseImpl ==
    /\ At("release")
    /\ impl' = None
    /\ local_addr' = NoEndpoint
    /\ UNCHANGED implVars
    /\ IF impl # None /\ ~Held(impl) THEN UserDestroys(impl) ELSE UNCHANGED <<treeVars, busy>>
    /\ Goto("base")
    /\ UNCHANGED <<fork, asked, replaced>>

\* ~OptionsBase of the facade.
DestroyBase ==
    /\ At("base")
    /\ UserDestroys(Facade)
    /\ Goto("gone")
    /\ UNCHANGED <<fork, asked, facadeVars, implVars, replaced>>

-----------------------------------------------------------------------------
(* The option objects in the user's hands *)

\* A setter of Options<Drived>, which forwards to OptionsBase.
SetOption(o, k, v) ==
    /\ At("idle") /\ o \in {Facade, Group}
    /\ Set(o, k, v)
    /\ UNCHANGED <<userVars, facadeVars, implVars, replaced>>

LinkGroup ==
    /\ At("idle")
    /\ Link(Group, Facade)
    /\ UNCHANGED <<userVars, facadeVars, implVars, replaced>>

UnlinkGroup ==
    /\ At("idle") /\ parent[Facade] = Group
    /\ Unlink(Group, Facade)
    /\ UNCHANGED <<alive, opt, own, dtor, leaving, userVars, facadeVars, implVars, replaced>>

DestroyGroup ==
    /\ At("idle")
    /\ UserDestroys(Group)
    /\ UNCHANGED <<user, fork, asked, facadeVars, implVars, replaced>>

-----------------------------------------------------------------------------
(* Loops and sessions *)

\* The accept loop or DoRecv ends, once Shutdown was called, and lets go.
LoopEnds(i) ==
    /\ run[i] = "listening" /\ told[i]
    /\ run' = [run EXCEPT ![i] = "stopped"]
    /\ UNCHANGED <<impl, holders>>
    /\ IF Held(i) THEN UNCHANGED treeVars ELSE Destroy(i)
    /\ UNCHANGED <<userVars, local_addr, udp, told, replaced>>

SessionBegins(i) ==
    /\ run[i] = "listening" /\ holders[i] < MaxHolders
    /\ holders' = [holders EXCEPT ![i] = @ + 1]
    /\ UNCHANGED <<treeVars, userVars, facadeVars, run, udp, told, replaced>>

\* Mutant: OnSessionClose forgets sessions_.erase.
SessionEndsMutant(i) == holders[i] > 0 /\ UNCHANGED vars

\* A session ends and its holder_ is released, perhaps the last one.
SessionEnds(i) ==
    /\ holders[i] > 0
    /\ holders' = [holders EXCEPT ![i] = @ - 1]
    /\ UNCHANGED <<impl, run>>
    /\ IF Held(i) THEN UNCHANGED treeVars ELSE Destroy(i)
    /\ UNCHANGED <<userVars, local_addr, udp, told, replaced>>

-----------------------------------------------------------------------------

CallStep ==
    \/ Refuse \/ (\E i \in Impl : CreateServer(i) \/ AssignImpl(i)) \/ LinkImpl \/ StartImpl
    \/ WaitRecv \/ ReleaseImpl \/ DestroyBase

UserStep ==
    \/ \E w \in ReadableUrl : ReadUrl(w)
    \/ NewServer
    \/ \E w \in StartUrl, before \in BOOLEAN : goStart(w, before)
    \/ goStartAfterFork
    \/ \E next \in {"idle", "release"} : Shutdown(next)
    \/ \E o \in Object, k \in Key, v \in Value : SetOption(o, k, v)
    \/ LinkGroup \/ UnlinkGroup \/ DestroyGroup

Next ==
    \/ /\ Quiet
       /\ \/ UserStep \/ CallStep
          \/ \E i \in Impl : LoopEnds(i) \/ SessionBegins(i) \/ SessionEnds(i)
    \/ \E o \in Object : DtorStep(o) /\ UNCHANGED <<userVars, facadeVars, implVars, replaced>>

Spec == Init /\ [][Next]_vars

\* A call that was begun goes on, a loop and a session that are told to end do
\* (ShutdownCompletes of TcpServer, ShutdownReturns of UdpPoint), a destructor runs to its end.
Fairness ==
    /\ WF_vars(Quiet /\ CallStep)
    /\ \A i \in Impl : WF_vars(Quiet /\ LoopEnds(i))
    /\ \A i \in Impl : WF_vars(Quiet /\ told[i] /\ user = "gone" /\ SessionEnds(i))
    /\ \A o \in Object : WF_vars(DtorStep(o) /\ UNCHANGED <<userVars, facadeVars, implVars, replaced>>)

FairSpec == Spec /\ Fairness

-----------------------------------------------------------------------------
(* Properties *)

TypeOK ==
    /\ TreeType
    /\ user \in {"none", "idle", "parsed", "assign", "link", "start", "wait",
                 "wait_release", "release", "base", "gone"}
    /\ fork \in BOOLEAN /\ busy \in Object \cup {None}
    /\ asked.ec \in {"none", "ok", "url_parse_error", "dns_not_found"}
    /\ impl \in Impl \cup {None}
    /\ run \in [Impl -> {"unborn", "new", "off", "bound", "listening", "stopped"}]
    /\ udp \in [Impl -> BOOLEAN] /\ told \in [Impl -> BOOLEAN]
    /\ holders \in [Impl -> Nat] /\ replaced \subseteq Impl

\* A shared_ptr to a server or a running call on the facade keeps it alive: none
\* of them outlives what it uses. And the tree of options is one.
Lifetimes ==
    /\ \A i \in Impl : impl = i \/ run[i] \in {"new", "listening"} \/ holders[i] > 0
                           => i \in alive /\ dtor[i] = "no"
    /\ user \notin {"none", "gone"} => Facade \in alive /\ dtor[Facade] = "no"

Inv == TypeOK /\ TreeInv /\ Lifetimes

\* Whatever listens can be stopped through the facade, or has been told to
\* stop, also when the facade is gone. The exception is a server that was
\* running when a second goStart replaced it. (A server closes its acceptor_
\* before its destructor reaches ~OptionsBase.)
Stoppable ==
    \A i \in Impl \cap alive :
        run[i] \in {"bound", "listening"} /\ dtor[i] = "no" /\ ~told[i] =>
            impl = i \/ i \in replaced

\* When the facade is gone its servers are freed, whoever drops the last
\* reference, with the same exception.
ServersFreed == user = "gone" ~> alive \subseteq replaced \cup {Group}

\* from_string reads a URL as the user wrote it.
ReadsAsWritten ==
    asked.ec # "none" /\ Plain(asked.url) /\ Lookup[asked.url.host] # "none" =>
        asked.ec = "ok" /\ asked.ep = Meant(asked.url)

\* What to_string prints of an endpoint, from_string reads back, whether the
\* endpoint was read from a URL or is the address of a server.
RoundTrip ==
    \A ep \in {asked.ep, local_addr} :
        ~HasSep(ep.path) => from_string(to_string(ep)) = [ec |-> "ok", ep |-> ep]
=============================================================================
