---------------------------- MODULE ServerProofs ----------------------------
(***************************************************************************)
(* Proofs about Server, the tree of options and URLs, for any number of    *)
(* server objects, options, sessions and goStart calls. On any number of   *)
(* threads no server that is in use is destroyed, and whatever listens can *)
(* be stopped. With one thread no pointer of the tree dangles and options  *)
(* agree along the links; destructors on two threads do not commute        *)
(* (UnlinkAssert fails then), so this half assumes OneThread. Last, what   *)
(* from_string reads is what was written, and what to_string printed.      *)
(***************************************************************************)
EXTENDS Server, SequenceTheorems, WellFoundedInduction, TLAPS

-----------------------------------------------------------------------------
(* The inductive invariant *)

\* A server object that goStart has not started.
Early == {"unborn", "new", "off", "bound"}

\* What goStart knows of its new object at each of its steps: there is one, it
\* is not impl_ yet, then it is; and a server has sessions only once it listens.
StartInv ==
    /\ \A i \in Impl : run[i] = "new" => user = "assign"
    /\ \A i, j \in Impl : run[i] = "new" /\ run[j] = "new" => i = j
    /\ impl # None => run[impl] \notin {"unborn", "new"}
    /\ user \in {"link", "start"} => impl # None /\ run[impl] = "off"
    /\ \A i \in Impl : run[i] \in Early => holders[i] = 0

\* What ~Server knows of impl_ when it lets it go.
ReleaseInv ==
    /\ user \in {"wait", "wait_release"} => impl # None
    /\ user = "release" /\ impl # None => told[impl] \/ run[impl] # "listening"

ServerInv == Inv /\ StartInv /\ ReleaseInv /\ Stoppable /\ Agree

-----------------------------------------------------------------------------
(* The tree of options *)

Tree == TreeType /\ TreeInv /\ Agree

\* No destructor runs: what Quiet says on one thread.
Still == \A o \in Object : dtor[o] = "no"

\* A subtree holds its root, and another linked object with its parent.
LEMMA SubtreeClosed ==
  ASSUME TreeType, Linked, NEW o \in Object
  PROVE  /\ o \in Subtree(o)
         /\ \A y \in Object : y # o /\ parent[y] # None =>
                (y \in Subtree(o) <=> parent[y] \in Subtree(o))
<1> DEFINE S == Subtree(o)
<1>0. parent \in [Object -> Object \cup {None}] /\ lnks \in [Object -> SUBSET Object]
  BY DEF TreeType
<1>1. o \in S /\ S \subseteq Object
  BY DEF Subtree
<1>2. ASSUME NEW y \in Object, parent[y] # None, parent[y] \in S PROVE y \in S
  <2>1. y \in lnks[parent[y]]
    BY <1>0, <1>2 DEF Linked
  <2> SUFFICES ASSUME NEW T \in SUBSET Object, o \in T, Closed(T) PROVE y \in T
    BY DEF Subtree
  <2>2. parent[y] \in T
    BY <1>2 DEF Subtree
  <2> QED BY <2>1, <2>2 DEF Closed
<1>3. ASSUME NEW y \in Object, y # o, parent[y] # None, y \in S PROVE parent[y] \in S
  <2> SUFFICES ASSUME parent[y] \notin S PROVE FALSE
    OBVIOUS
  <2> DEFINE T == S \ {y}
  <2>1. T \in SUBSET Object /\ o \in T
    BY <1>1, <1>3
  <2>2. Closed(T)
    <3> SUFFICES ASSUME NEW a \in T, NEW c \in lnks[a] PROVE c \in T
      BY DEF Closed
    <3>1. a \in Object /\ a \in S /\ c \in Object /\ parent[c] = a
      BY <1>0, <1>1 DEF Linked
    <3>2. parent[c] # None
      BY <3>1, ObjectAssumption
    <3>3. c \in S
      BY <1>2, <3>1, <3>2
    <3>4. c # y
      BY <3>1
    <3> QED BY <3>3, <3>4
  <2>3. y \in T
    BY <1>3, <2>1, <2>2 DEF Subtree
  <2> QED BY <2>3
<1> QED BY <1>1, <1>2, <1>3

\* A constructor adds an object nobody points to.
LEMMA ConstructTree ==
  ASSUME Tree, NEW o \in Object, Construct(o)
  PROVE  Tree'
<1>1. TreeType'
  BY DEF Tree, TreeType, Construct
<1>2. TreeInv'
  BY DEF Tree, TreeInv, Linked, NoDangling, DtorInv, Construct
<1>3. Agree'
  BY DEF Tree, Agree, Construct
<1> QED BY <1>1, <1>2, <1>3 DEF Tree

\* Link: the subtree of o takes over the options of p, as a whole.
LEMMA LinkTree ==
  ASSUME Tree, Still, NEW p \in Object, NEW o \in Object, Link(p, o)
  PROVE  Tree'
<1>0. /\ parent \in [Object -> Object \cup {None}] /\ lnks \in [Object -> SUBSET Object]
      /\ opt \in [Object -> [Key -> Value]] /\ own \in [Object -> SUBSET Key]
  BY DEF Tree, TreeType
<1>1. /\ p \in alive /\ o \in alive /\ parent[o] = None /\ p \notin Subtree(o)
      /\ opt' = [x \in Object |-> IF x \in Subtree(o) THEN opt[p] ELSE opt[x]]
      /\ lnks' = [lnks EXCEPT ![p] = @ \cup {o}]
      /\ parent' = [parent EXCEPT ![o] = p]
      /\ own' = [x \in Object |-> IF x \in Subtree(o) THEN {} ELSE own[x]]
      /\ UNCHANGED <<alive, dtor, leaving>>
  BY DEF Link, Inherit
<1>2. TreeType'
  <2>1. opt' \in [Object -> [Key -> Value]] /\ own' \in [Object -> SUBSET Key]
    BY <1>0, <1>1
  <2>2. lnks' \in [Object -> SUBSET Object] /\ parent' \in [Object -> Object \cup {None}]
    BY <1>0, <1>1
  <2> QED BY <1>1, <2>1, <2>2 DEF Tree, TreeType
<1>3. Linked'
  BY <1>0, <1>1, ObjectAssumption DEF Tree, TreeInv, Linked
<1>4. NoDangling' /\ DtorInv'
  BY <1>0, <1>1 DEF Tree, TreeInv, NoDangling, DtorInv, Still
<1>5. Agree'
  <2> SUFFICES ASSUME NEW y \in Object, parent'[y] # None, NEW k \in Key, k \notin own'[y]
               PROVE  opt'[y][k] = opt'[parent'[y]][k]
    BY DEF Agree
  <2>1. /\ o \in Subtree(o)
        /\ y # o /\ parent[y] # None => (y \in Subtree(o) <=> parent[y] \in Subtree(o))
    BY SubtreeClosed DEF Tree, TreeInv
  <2>2. CASE y = o
    BY <1>0, <1>1, <2>1, <2>2
  <2>3. CASE y # o
    <3>1. parent'[y] = parent[y] /\ parent[y] \in Object
      BY <1>0, <1>1, <2>3
    <3>2. CASE y \in Subtree(o)
      BY <1>1, <2>1, <2>3, <3>1, <3>2
    <3>3. CASE y \notin Subtree(o)
      <4>1. opt'[y] = opt[y] /\ opt'[parent[y]] = opt[parent[y]] /\ own'[y] = own[y]
        BY <1>1, <2>1, <2>3, <3>1, <3>3
      <4> QED BY <3>1, <4>1 DEF Tree, Agree
    <3> QED BY <3>2, <3>3
  <2> QED BY <2>2, <2>3
<1> QED BY <1>2, <1>3, <1>4, <1>5 DEF Tree, TreeInv

\* A setter gives o and all below it the same value.
LEMMA SetTree ==
  ASSUME Tree, NEW o \in Object, NEW k \in Key, NEW v \in Value, Set(o, k, v)
  PROVE  Tree'
<1>0. /\ parent \in [Object -> Object \cup {None}]
      /\ opt \in [Object -> [Key -> Value]] /\ own \in [Object -> SUBSET Key]
  BY DEF Tree, TreeType
<1>1. /\ opt' = [x \in Object |-> IF x \in Subtree(o) THEN [opt[x] EXCEPT ![k] = v] ELSE opt[x]]
      /\ own' = [x \in Object |-> IF x = o THEN own[x] \cup {k}
                                  ELSE IF x \in Subtree(o) THEN own[x] \ {k} ELSE own[x]]
      /\ UNCHANGED <<alive, parent, lnks, dtor, leaving>>
  BY DEF Set
<1>2. TreeType'
  <2>1. opt' \in [Object -> [Key -> Value]]
    BY <1>0, <1>1
  <2>2. own' \in [Object -> SUBSET Key]
    BY <1>0, <1>1
  <2> QED BY <1>1, <2>1, <2>2 DEF Tree, TreeType
<1>3. TreeInv'
  BY <1>1 DEF Tree, TreeInv, Linked, NoDangling, DtorInv
<1>4. Agree'
  <2> SUFFICES ASSUME NEW y \in Object, parent[y] # None, NEW e \in Key, e \notin own'[y]
               PROVE  opt'[y][e] = opt'[parent[y]][e]
    BY <1>1 DEF Agree
  <2>1. /\ o \in Subtree(o)
        /\ y # o => (y \in Subtree(o) <=> parent[y] \in Subtree(o))
    BY SubtreeClosed DEF Tree, TreeInv
  <2>2. parent[y] \in Object
    BY <1>0
  <2>3. \A x \in Object : /\ e # k \/ x \notin Subtree(o) => opt'[x][e] = opt[x][e]
                          /\ e = k /\ x \in Subtree(o) => opt'[x][e] = v
    BY <1>0, <1>1
  <2>4. CASE e = k /\ y # o /\ y \in Subtree(o)
    BY <2>1, <2>2, <2>3, <2>4
  <2>5. CASE ~(e = k /\ y # o /\ y \in Subtree(o))
    <3>1. e \notin own[y] /\ ~(e = k /\ y = o)
      BY <1>0, <1>1, <2>5
    <3>2. opt[y][e] = opt[parent[y]][e]
      BY <3>1 DEF Tree, Agree
    <3> QED BY <2>1, <2>2, <2>3, <2>5, <3>1, <3>2
  <2> QED BY <2>4, <2>5
<1> QED BY <1>2, <1>3, <1>4 DEF Tree

\* Unlink(p, o), of a child by its parent, keeps the pointers paired.
LEMMA UnlinkTree ==
  ASSUME TreeType, Linked, NoDangling, Agree, NEW p \in Object, NEW o \in Object, parent[o] = p,
         Unlink(p, o), UNCHANGED <<alive, opt, own>>
  PROVE  /\ lnks' \in [Object -> SUBSET Object] /\ parent' \in [Object -> Object \cup {None}]
         /\ Linked' /\ NoDangling' /\ Agree'
         /\ \A x \in Object : parent'[x] = IF x = o THEN None ELSE parent[x]
<1>0. parent \in [Object -> Object \cup {None}] /\ lnks \in [Object -> SUBSET Object]
  BY DEF TreeType
<1>1. parent' = [parent EXCEPT ![o] = None] /\ lnks' = [lnks EXCEPT ![p] = @ \ {o}]
  BY DEF Unlink
<1>2. lnks' \in [Object -> SUBSET Object] /\ parent' \in [Object -> Object \cup {None}]
  BY <1>0, <1>1
<1>3. Linked'
  BY <1>0, <1>1, ObjectAssumption DEF Linked
<1>4. NoDangling'
  BY <1>0, <1>1 DEF NoDangling
<1>5. Agree'
  BY <1>0, <1>1 DEF Agree
<1> QED BY <1>0, <1>1, <1>2, <1>3, <1>4, <1>5

\* A destructor begins when no other runs.
LEMMA DestroyTree ==
  ASSUME Tree, Still, NEW o \in Object, Destroy(o)
  PROVE  Tree'
<1>0. /\ parent \in [Object -> Object \cup {None}]
      /\ dtor \in [Object -> {"no", "unlink", "children"}]
      /\ leaving \in [Object -> Object \cup {None}]
  BY DEF Tree, TreeType
<1>1. TreeType'
  BY <1>0 DEF Tree, TreeType, Destroy
<1>2. DtorInv'
  BY <1>0 DEF Destroy, Tree, TreeInv, DtorInv, Still
<1>3. Linked' /\ NoDangling' /\ Agree'
  BY DEF Tree, TreeInv, Linked, NoDangling, Agree, Destroy
<1> QED BY <1>1, <1>2, <1>3 DEF Tree, TreeInv

\* A destructor goes on: what it unlinks is what it found, and it frees an
\* object that nothing points to.
LEMMA DtorTree ==
  ASSUME Tree, NEW o \in Object, DtorStep(o)
  PROVE  Tree'
<1>0. /\ parent \in [Object -> Object \cup {None}] /\ lnks \in [Object -> SUBSET Object]
      /\ dtor \in [Object -> {"no", "unlink", "children"}]
      /\ leaving \in [Object -> Object \cup {None}]
      /\ opt \in [Object -> [Key -> Value]] /\ own \in [Object -> SUBSET Key]
  BY DEF Tree, TreeType
<1>1. CASE DtorUnlink(o)
  <2> DEFINE p == leaving[o]
  <2>1. p \in Object /\ parent[o] = p /\ dtor[o] = "unlink"
    BY <1>0, <1>1 DEF DtorUnlink, Tree, TreeInv, DtorInv
  <2>2. Unlink(p, o) /\ UNCHANGED <<alive, opt, own>>
    BY <1>1 DEF DtorUnlink
  <2>3. /\ lnks' \in [Object -> SUBSET Object] /\ parent' \in [Object -> Object \cup {None}]
        /\ Linked' /\ NoDangling' /\ Agree'
        /\ \A x \in Object : parent'[x] = IF x = o THEN None ELSE parent[x]
    BY <2>1, <2>2, UnlinkTree DEF Tree, TreeInv
  <2>4. /\ dtor' = [dtor EXCEPT ![o] = "children"] /\ leaving' = [leaving EXCEPT ![o] = None]
    BY <1>1 DEF DtorUnlink
  <2>5. TreeType'
    BY <1>0, <2>2, <2>3, <2>4 DEF Tree, TreeType
  <2>6. DtorInv'
    BY <1>0, <2>1, <2>2, <2>3, <2>4 DEF Tree, TreeInv, DtorInv
  <2> QED BY <2>3, <2>5, <2>6 DEF Tree, TreeInv
<1>2. CASE DtorChild(o)
  <2>1. PICK c \in lnks[o] : Unlink(o, c)
    BY <1>2 DEF DtorChild
  <2>2. c \in Object /\ parent[c] = o /\ dtor[o] = "children"
    BY <1>0, <1>2 DEF DtorChild, Tree, TreeInv, Linked
  <2>3. UNCHANGED <<alive, opt, own, dtor, leaving>>
    BY <1>2 DEF DtorChild
  <2>4. /\ lnks' \in [Object -> SUBSET Object] /\ parent' \in [Object -> Object \cup {None}]
        /\ Linked' /\ NoDangling' /\ Agree'
        /\ \A x \in Object : parent'[x] = IF x = c THEN None ELSE parent[x]
    BY <2>1, <2>2, <2>3, UnlinkTree DEF Tree, TreeInv
  <2>5. TreeType'
    BY <2>3, <2>4 DEF Tree, TreeType
  <2>6. DtorInv'
    BY <2>2, <2>3, <2>4 DEF Tree, TreeInv, DtorInv
  <2> QED BY <2>4, <2>5, <2>6 DEF Tree, TreeInv
<1>3. CASE DtorEnd(o)
  <2>1. /\ dtor[o] = "children" /\ lnks[o] = {} /\ parent[o] = None
        /\ alive' = alive \ {o} /\ dtor' = [dtor EXCEPT ![o] = "no"]
        /\ opt' = [opt EXCEPT ![o] = Default] /\ own' = [own EXCEPT ![o] = {}]
        /\ UNCHANGED <<parent, lnks, leaving>>
    BY <1>3 DEF DtorEnd, Tree, TreeInv, DtorInv
  <2>2. \A x \in Object : parent[x] # o
    BY <2>1 DEF Tree, TreeInv, Linked
  <2>3. TreeType'
    BY <1>0, <2>1, DefaultAssumption DEF Tree, TreeType
  <2>4. Linked' /\ NoDangling' /\ DtorInv'
    BY <1>0, <2>1, <2>2 DEF Tree, TreeInv, Linked, NoDangling, DtorInv
  <2>5. Agree'
    BY <1>0, <2>1, <2>2 DEF Tree, Agree
  <2> QED BY <2>3, <2>4, <2>5 DEF Tree, TreeInv
<1> QED BY <1>1, <1>2, <1>3 DEF DtorStep

-----------------------------------------------------------------------------
(* The facade and its servers *)

\* TypeOK without the tree.
FacadeType ==
    /\ user \in {"none", "idle", "parsed", "assign", "link", "start", "wait",
                 "wait_release", "release", "base", "gone"}
    /\ fork \in BOOLEAN /\ busy \in Object \cup {None}
    /\ asked.ec \in {"none", "ok", "url_parse_error", "dns_not_found"}
    /\ impl \in Impl \cup {None}
    /\ run \in [Impl -> {"unborn", "new", "off", "bound", "listening", "stopped"}]
    /\ udp \in [Impl -> BOOLEAN] /\ told \in [Impl -> BOOLEAN]
    /\ holders \in [Impl -> Nat] /\ replaced \subseteq Impl

FacadeInv == FacadeType /\ Lifetimes /\ StartInv /\ ReleaseInv /\ Stoppable

\* What the facade needs of the tree, and what is left of it when destructors run
\* on several threads: its types, and that only an existing object is destroyed.
TreeLife ==
    /\ TreeType
    /\ \A o \in Object : dtor[o] # "no" => o \in alive

\* The two halves of the invariant.
LEMMA Halves == ServerInv <=> Tree /\ FacadeInv
  BY DEF ServerInv, Inv, TypeOK, Tree, FacadeInv, FacadeType

\* The objects are apart from each other and from the null pointer.
LEMMA ObjectsApart ==
  /\ Facade \in Object /\ Group \in Object /\ Impl \subseteq Object
  /\ Facade \notin Impl /\ Group \notin Impl /\ Facade # Group /\ None \notin Impl
  BY ServerAssumption, ObjectAssumption

\* Every step is one of the tree, by one operation.
LEMMA TreeNext ==
  ASSUME OneThread, Tree, FacadeInv, [Next]_vars
  PROVE  Tree'
<1> USE ObjectsApart
<1>1. CASE UNCHANGED treeVars
  BY <1>1 DEF treeVars, Tree, TreeType, TreeInv, Linked, NoDangling, DtorInv, Agree
<1>2. CASE \E o \in Object : DtorStep(o)
  BY <1>2, DtorTree
<1>3. ASSUME Quiet, UserStep PROVE Tree'
  <2>0. Still
    BY <1>3 DEF Quiet, Still
  <2>1. CASE NewServer
    BY <2>1, ConstructTree DEF NewServer
  <2>2. ASSUME NEW o \in Object, NEW k \in Key, NEW v \in Value, SetOption(o, k, v) PROVE Tree'
    BY <2>2, SetTree DEF SetOption
  <2>3. CASE LinkGroup
    BY <2>0, <2>3, LinkTree DEF LinkGroup
  <2>4. CASE UnlinkGroup
    <3>1. /\ parent[Facade] = Group /\ Unlink(Group, Facade)
          /\ UNCHANGED <<alive, opt, own, dtor, leaving>>
      BY <2>4 DEF UnlinkGroup
    <3>2. /\ lnks' \in [Object -> SUBSET Object] /\ parent' \in [Object -> Object \cup {None}]
          /\ Linked' /\ NoDangling' /\ Agree'
      BY <3>1, UnlinkTree DEF Tree, TreeInv
    <3>3. TreeType' /\ DtorInv'
      BY <2>0, <3>1, <3>2 DEF Tree, TreeType, TreeInv, DtorInv, Still
    <3> QED BY <3>2, <3>3 DEF Tree, TreeInv
  <2>5. CASE DestroyGroup
    BY <2>0, <2>5, DestroyTree DEF DestroyGroup, UserDestroys
  <2>6. CASE \/ \E w \in ReadableUrl : ReadUrl(w)
             \/ \E w \in StartUrl, before \in BOOLEAN : goStart(w, before)
             \/ goStartAfterFork
             \/ \E next \in {"idle", "release"} : Shutdown(next)
    BY <1>1, <2>6 DEF ReadUrl, goStart, goStartAfterFork, Shutdown
  <2> QED BY <1>3, <2>1, <2>2, <2>3, <2>4, <2>5, <2>6 DEF UserStep
<1>4. ASSUME Quiet, CallStep PROVE Tree'
  <2>0. Still
    BY <1>4 DEF Quiet, Still
  <2>1. ASSUME NEW i \in Impl, CreateServer(i) PROVE Tree'
    BY <2>1, ConstructTree DEF CreateServer
  <2>2. CASE LinkImpl
    <3>1. impl \in Object
      BY <2>2 DEF LinkImpl, Link, Tree, TreeType
    <3> QED BY <2>0, <2>2, <3>1, LinkTree DEF LinkImpl
  <2>3. CASE (\E i \in Impl : AssignImpl(i)) \/ ReleaseImpl
    <3>1. UNCHANGED treeVars \/ (impl \in Object /\ Destroy(impl))
      BY <2>3 DEF AssignImpl, ReleaseImpl, UserDestroys, FacadeInv, FacadeType
    <3> QED BY <1>1, <2>0, <3>1, DestroyTree
  <2>4. CASE DestroyBase
    BY <2>0, <2>4, DestroyTree DEF DestroyBase, UserDestroys
  <2>5. CASE Refuse \/ StartImpl \/ WaitRecv
    BY <1>1, <2>5 DEF Refuse, StartImpl, WaitRecv
  <2> QED BY <1>4, <2>1, <2>2, <2>3, <2>4, <2>5 DEF CallStep
<1>5. ASSUME Quiet, NEW i \in Impl, LoopEnds(i) \/ SessionBegins(i) \/ SessionEnds(i) PROVE Tree'
  <2>0. Still
    BY <1>5 DEF Quiet, Still
  <2>1. UNCHANGED treeVars \/ Destroy(i)
    BY <1>5 DEF LoopEnds, SessionBegins, SessionEnds
  <2> QED BY <1>1, <2>0, <2>1, DestroyTree
<1>6. CASE UNCHANGED vars
  BY <1>1, <1>6 DEF vars
<1> QED BY <1>2, <1>3, <1>4, <1>5, <1>6 DEF Next

\* from_string returns one of three codes.
LEMMA ReadCode ==
  ASSUME NEW w
  PROVE  Read(w).ec \in {"ok", "url_parse_error", "dns_not_found"}
<1>1. ASSUME NEW s PROVE from_string(s).ec \in {"ok", "url_parse_error", "dns_not_found"}
  BY DEF from_string
<1> QED BY <1>1 DEF Read

\* Steps that leave the servers and their lifetimes alone.
LEMMA CalmStep ==
  ASSUME TreeLife, FacadeInv,
         \/ \E w \in ReadableUrl : ReadUrl(w)
         \/ \E w \in StartUrl, before \in BOOLEAN : goStart(w, before)
         \/ \E o \in Object, k \in Key, v \in Value : SetOption(o, k, v)
         \/ LinkGroup \/ UnlinkGroup \/ Refuse \/ LinkImpl \/ WaitRecv
  PROVE  FacadeInv'
<1>1. /\ UNCHANGED <<alive, dtor, busy, impl, run, udp, told, holders, replaced>>
      /\ \/ UNCHANGED user
         \/ user = "idle" /\ user' = "parsed"
         \/ user = "parsed" /\ user' = "idle"
         \/ user = "link" /\ user' = "start"
         \/ user = "wait" /\ user' = "idle"
         \/ user = "wait_release" /\ user' = "release" /\ run[impl] = "stopped"
      /\ fork' \in BOOLEAN
  BY DEF ReadUrl, goStart, SetOption, LinkGroup, UnlinkGroup, Refuse, LinkImpl, WaitRecv, Link, Set,
         Unlink, At, Goto, treeVars, userVars, facadeVars, implVars, FacadeInv, FacadeType
<1>2. asked'.ec \in {"none", "ok", "url_parse_error", "dns_not_found"}
  <2>1. UNCHANGED asked \/ asked' = NotAsked \/ \E w : asked' = Read(w)
    BY DEF ReadUrl, goStart, SetOption, LinkGroup, UnlinkGroup, Refuse, LinkImpl, WaitRecv, userVars
  <2> QED BY <2>1, ReadCode DEF NotAsked, FacadeInv, FacadeType
<1>3. FacadeType'
  BY <1>1, <1>2 DEF FacadeInv, FacadeType
<1>4. Lifetimes' /\ Stoppable'
  BY <1>1 DEF FacadeInv, Lifetimes, Stoppable
<1>5. StartInv' /\ ReleaseInv'
  BY <1>1 DEF FacadeInv, StartInv, ReleaseInv
<1> QED BY <1>3, <1>4, <1>5 DEF FacadeInv

\* Server::Server and CreateServer: a new object is alive and its destructor
\* does not run.
LEMMA BirthStep ==
  ASSUME TreeLife, FacadeInv, NewServer \/ \E i \in Impl : CreateServer(i)
  PROVE  FacadeInv'
<1> USE ObjectsApart
<1>1. CASE NewServer
  <2>1. /\ user = "none" /\ user' = "idle" /\ asked' = NotAsked
        /\ alive' = alive \cup {Facade} /\ Facade \notin alive
        /\ UNCHANGED <<dtor, fork, busy, impl, run, udp, told, holders, replaced>>
    BY <1>1 DEF NewServer, Construct, At, Goto, facadeVars, implVars
  <2>2. FacadeType'
    BY <2>1 DEF FacadeInv, FacadeType, NotAsked
  <2>3. Lifetimes'
    BY <2>1 DEF FacadeInv, Lifetimes, TreeLife
  <2>4. StartInv' /\ ReleaseInv' /\ Stoppable'
    BY <2>1 DEF FacadeInv, StartInv, ReleaseInv, Stoppable
  <2> QED BY <2>2, <2>3, <2>4 DEF FacadeInv
<1>2. ASSUME NEW i \in Impl, CreateServer(i) PROVE FacadeInv'
  <2>1. /\ user = "parsed" /\ user' = "assign" /\ asked' = NotAsked
        /\ run[i] = "unborn" /\ run' = [run EXCEPT ![i] = "new"]
        /\ udp' = [udp EXCEPT ![i] = IsUdp(local_addr)]
        /\ alive' = alive \cup {i} /\ i \notin alive
        /\ UNCHANGED <<dtor, fork, busy, impl, told, holders, replaced>>
    BY <1>2 DEF CreateServer, Construct, At, Goto, facadeVars
  <2>2. /\ run \in [Impl -> {"unborn", "new", "off", "bound", "listening", "stopped"}]
        /\ udp \in [Impl -> BOOLEAN] /\ IsUdp(local_addr) \in BOOLEAN /\ impl \in Impl \cup {None}
    BY DEF FacadeInv, FacadeType, IsUdp
  <2>3. FacadeType'
    <3>1. run' \in [Impl -> {"unborn", "new", "off", "bound", "listening", "stopped"}]
      BY <2>1, <2>2
    <3>2. udp' \in [Impl -> BOOLEAN]
      BY <2>1, <2>2
    <3> QED BY <2>1, <3>1, <3>2 DEF FacadeInv, FacadeType, NotAsked
  <2>4. Lifetimes'
    BY <2>1, <2>2 DEF FacadeInv, Lifetimes, TreeLife
  <2>5. StartInv'
    BY <2>1, <2>2 DEF FacadeInv, StartInv, Early
  <2>6. ReleaseInv'
    BY <2>1 DEF ReleaseInv
  <2>7. Stoppable'
    BY <2>1, <2>2 DEF FacadeInv, Stoppable
  <2> QED BY <2>3, <2>4, <2>5, <2>6, <2>7 DEF FacadeInv
<1> QED BY <1>1, <1>2

\* impl_ = the new object: the old one goes on only while something else holds
\* it, and is remembered if it still listens.
LEMMA AssignStep ==
  ASSUME TreeLife, FacadeInv, NEW i \in Impl, AssignImpl(i)
  PROVE  FacadeInv'
<1> USE ObjectsApart
<1>1. /\ user = "assign" /\ user' = "link" /\ run[i] = "new" /\ impl' = i
      /\ run' = [run EXCEPT ![i] = "off"]
      /\ replaced' = IF impl # None /\ run[impl] = "listening" THEN replaced \cup {impl} ELSE replaced
      /\ UNCHANGED <<fork, asked, udp, told, holders, alive>>
  BY DEF AssignImpl, At, Goto, UserDestroys, Destroy, treeVars
<1>2. /\ run \in [Impl -> {"unborn", "new", "off", "bound", "listening", "stopped"}]
      /\ holders \in [Impl -> Nat] /\ impl \in Impl \cup {None}
      /\ dtor \in [Object -> {"no", "unlink", "children"}]
  BY DEF FacadeInv, FacadeType, TreeLife, TreeType
<1>3. \/ UNCHANGED dtor /\ UNCHANGED busy /\ (impl # None => run[impl] = "listening" \/ holders[impl] > 0)
      \/ /\ impl # None /\ run[impl] # "listening" /\ ~(holders[impl] > 0)
         /\ busy' = impl /\ \A o \in Object : o # impl => dtor'[o] = dtor[o]
         /\ dtor'[impl] # "no"
  <2>1. impl # i
    BY <1>1, <1>2 DEF FacadeInv, StartInv
  <2>2. impl # None => (Held(impl) <=> run[impl] = "listening" \/ holders[impl] > 0)
    BY <1>1, <1>2, <2>1 DEF Held
  <2>3. CASE impl = None \/ Held(impl)
    BY <2>2, <2>3 DEF AssignImpl, treeVars
  <2>4. CASE impl # None /\ ~Held(impl)
    BY <1>2, <2>2, <2>4 DEF AssignImpl, UserDestroys, Destroy
  <2> QED BY <2>3, <2>4
<1>4. FacadeType'
  <2>1. run' \in [Impl -> {"unborn", "new", "off", "bound", "listening", "stopped"}]
    BY <1>1, <1>2
  <2>2. busy' \in Object \cup {None}
    BY <1>2, <1>3 DEF FacadeInv, FacadeType
  <2>3. replaced' \subseteq Impl
    BY <1>1, <1>2 DEF FacadeInv, FacadeType
  <2> QED BY <1>1, <2>1, <2>2, <2>3 DEF FacadeInv, FacadeType
<1>5. impl # i /\ \A j \in Impl : j # i => run'[j] = run[j] /\ run[j] # "new"
  BY <1>1, <1>2 DEF FacadeInv, StartInv
<1>6. Lifetimes'
  <2>1. \A j \in Impl : impl' = j \/ run'[j] \in {"new", "listening"} \/ holders'[j] > 0
                            => j \in alive' /\ dtor'[j] = "no"
    <3> SUFFICES ASSUME NEW j \in Impl, impl' = j \/ run'[j] \in {"new", "listening"} \/ holders'[j] > 0
                 PROVE  j \in alive' /\ dtor'[j] = "no"
      OBVIOUS
    <3>1. j = i \/ run[j] = "listening" \/ holders[j] > 0
      BY <1>1, <1>5
    <3>2. j \in alive /\ dtor[j] = "no"
      BY <1>1, <3>1 DEF FacadeInv, Lifetimes
    <3>3. dtor'[j] = dtor[j]
      BY <1>1, <1>3, <1>5, <3>1
    <3> QED BY <1>1, <3>2, <3>3
  <2>2. Facade \in alive' /\ dtor'[Facade] = "no"
    BY <1>1, <1>2, <1>3 DEF FacadeInv, Lifetimes
  <2> QED BY <2>1, <2>2 DEF Lifetimes
<1>7. StartInv'
  BY <1>1, <1>2, <1>5 DEF FacadeInv, StartInv, Early
<1>8. ReleaseInv'
  BY <1>1 DEF ReleaseInv
<1>9. Stoppable'
  <2> SUFFICES ASSUME NEW j \in Impl, j \in alive, run'[j] \in {"bound", "listening"},
                      dtor'[j] = "no", ~told[j]
               PROVE  impl' = j \/ j \in replaced'
    BY <1>1 DEF Stoppable
  <2>1. j # i /\ run[j] \in {"bound", "listening"}
    BY <1>1, <1>2
  <2>2. dtor[j] = "no"
    BY <1>3
  <2>3. impl = j \/ j \in replaced
    BY <2>1, <2>2 DEF FacadeInv, Stoppable
  <2>4. ASSUME impl = j PROVE run[j] = "listening"
    <3>1. run[j] = "bound" => holders[j] = 0
      BY DEF FacadeInv, StartInv, Early
    <3> QED BY <1>2, <1>3, <2>1, <2>4, <3>1
  <2> QED BY <1>1, <1>2, <2>3, <2>4
<1> QED BY <1>4, <1>6, <1>7, <1>8, <1>9 DEF FacadeInv

\* ~Server lets impl_ go: it has been told to stop, or it does not listen and is
\* destroyed with the facade.
LEMMA ReleaseStep ==
  ASSUME TreeLife, FacadeInv, ReleaseImpl
  PROVE  FacadeInv'
<1> USE ObjectsApart
<1>1. /\ user = "release" /\ user' = "base" /\ impl' = None
      /\ UNCHANGED <<fork, asked, run, udp, told, holders, alive, replaced>>
  BY DEF ReleaseImpl, At, Goto, UserDestroys, Destroy, treeVars, implVars
<1>2. /\ run \in [Impl -> {"unborn", "new", "off", "bound", "listening", "stopped"}]
      /\ holders \in [Impl -> Nat] /\ impl \in Impl \cup {None}
      /\ dtor \in [Object -> {"no", "unlink", "children"}]
  BY DEF FacadeInv, FacadeType, TreeLife, TreeType
<1>3. \/ UNCHANGED dtor /\ UNCHANGED busy /\ (impl # None => run[impl] = "listening" \/ holders[impl] > 0)
      \/ /\ impl # None /\ run[impl] # "listening" /\ ~(holders[impl] > 0)
         /\ busy' = impl /\ \A o \in Object : o # impl => dtor'[o] = dtor[o]
         /\ dtor'[impl] # "no"
  <2>1. impl # None => (Held(impl) <=> run[impl] = "listening" \/ holders[impl] > 0)
    BY <1>1 DEF Held
  <2>2. CASE impl = None \/ Held(impl)
    BY <2>1, <2>2 DEF ReleaseImpl, treeVars
  <2>3. CASE impl # None /\ ~Held(impl)
    BY <1>2, <2>1, <2>3 DEF ReleaseImpl, UserDestroys, Destroy
  <2> QED BY <2>2, <2>3
<1>4. FacadeType'
  <2>1. busy' \in Object \cup {None}
    BY <1>2, <1>3 DEF FacadeInv, FacadeType
  <2> QED BY <1>1, <2>1 DEF FacadeInv, FacadeType
<1>5. Lifetimes'
  <2>1. \A j \in Impl : run[j] # "new"
    BY <1>1 DEF FacadeInv, StartInv
  <2> QED BY <1>1, <1>2, <1>3, <2>1 DEF FacadeInv, Lifetimes
<1>6. StartInv' /\ ReleaseInv'
  BY <1>1 DEF FacadeInv, StartInv, ReleaseInv
<1>7. Stoppable'
  <2> SUFFICES ASSUME NEW j \in Impl, j \in alive, run[j] \in {"bound", "listening"},
                      dtor'[j] = "no", ~told[j]
               PROVE  j \in replaced
    BY <1>1 DEF Stoppable
  <2>1. dtor[j] = "no"
    BY <1>3
  <2>2. impl = j \/ j \in replaced
    BY <2>1 DEF FacadeInv, Stoppable
  <2>3. ASSUME impl = j PROVE FALSE
    <3>1. run[j] = "bound"
      BY <1>1, <2>3 DEF FacadeInv, ReleaseInv
    <3>2. holders[j] = 0
      BY <3>1 DEF FacadeInv, StartInv, Early
    <3> QED BY <1>3, <2>3, <3>1, <3>2
  <2> QED BY <2>2, <2>3
<1> QED BY <1>4, <1>5, <1>6, <1>7 DEF FacadeInv

\* impl_ is started: it is impl_, so the facade can stop it.
LEMMA RunStep ==
  ASSUME TreeLife, FacadeInv, StartImpl \/ goStartAfterFork
  PROVE  FacadeInv'
<1> USE ObjectsApart
<1>0. /\ run \in [Impl -> {"unborn", "new", "off", "bound", "listening", "stopped"}]
      /\ holders \in [Impl -> Nat] /\ impl \in Impl \cup {None}
  BY DEF FacadeInv, FacadeType
<1>1. /\ impl \in Impl /\ run[impl] \in {"off", "bound"} /\ user' = "idle"
      /\ user \in {"start", "idle"}
      /\ UNCHANGED run \/ \E to \in {"bound", "listening"} : run' = [run EXCEPT ![impl] = to]
      /\ UNCHANGED <<alive, dtor, fork, asked, busy, impl, udp, told, holders, replaced>>
  BY <1>0 DEF StartImpl, goStartAfterFork, At, Goto, treeVars, userVars, facadeVars, FacadeInv, StartInv
<1>2. run' \in [Impl -> {"unborn", "new", "off", "bound", "listening", "stopped"}]
  BY <1>0, <1>1
<1>3. FacadeType'
  BY <1>1, <1>2 DEF FacadeInv, FacadeType
<1>4. Lifetimes'
  BY <1>0, <1>1 DEF FacadeInv, Lifetimes
<1>5. StartInv' /\ ReleaseInv'
  BY <1>0, <1>1 DEF FacadeInv, StartInv, ReleaseInv, Early
<1>6. Stoppable'
  BY <1>0, <1>1 DEF FacadeInv, Stoppable
<1> QED BY <1>3, <1>4, <1>5, <1>6 DEF FacadeInv

\* Shutdown tells impl_ to stop, or finds that it need not.
LEMMA ShutdownStep ==
  ASSUME TreeLife, FacadeInv, NEW next \in {"idle", "release"}, Shutdown(next)
  PROVE  FacadeInv'
<1> USE ObjectsApart
<1>0. told \in [Impl -> BOOLEAN] /\ impl \in Impl \cup {None}
  BY DEF FacadeInv, FacadeType
<1>1. /\ user = "idle"
      /\ \/ impl = None /\ user' = next /\ UNCHANGED told
         \/ impl # None /\ told' = [told EXCEPT ![impl] = TRUE] /\ user' = next
         \/ /\ impl # None /\ (run[impl] # "listening" \/ told[impl])
            /\ user' = next /\ UNCHANGED told
         \/ /\ impl # None /\ told' = [told EXCEPT ![impl] = TRUE]
            /\ user' \in {"wait", "wait_release"}
      /\ UNCHANGED <<alive, dtor, fork, asked, busy, impl, run, udp, holders, replaced>>
  BY DEF Shutdown, At, Goto, treeVars, facadeVars
<1>2. told' \in [Impl -> BOOLEAN] /\ \A i \in Impl : told[i] => told'[i]
  BY <1>0, <1>1
<1>3. FacadeType'
  BY <1>1, <1>2 DEF FacadeInv, FacadeType
<1>4. Lifetimes'
  BY <1>1 DEF FacadeInv, Lifetimes
<1>5. StartInv'
  BY <1>1 DEF FacadeInv, StartInv
<1>6. ReleaseInv'
  BY <1>0, <1>1 DEF ReleaseInv
<1>7. Stoppable'
  BY <1>1, <1>2 DEF FacadeInv, Stoppable
<1> QED BY <1>3, <1>4, <1>5, <1>6, <1>7 DEF FacadeInv

\* The facade itself, or an object of the user's, begins to be destroyed.
LEMMA LeaveStep ==
  ASSUME TreeLife, FacadeInv, DestroyBase \/ DestroyGroup
  PROVE  FacadeInv'
<1> USE ObjectsApart
<1>0. dtor \in [Object -> {"no", "unlink", "children"}]
  BY DEF TreeLife, TreeType
<1>1. /\ UNCHANGED <<alive, fork, asked, impl, run, udp, told, holders, replaced>>
      /\ \A i \in Impl : dtor'[i] = dtor[i]
      /\ busy' \in {Facade, Group}
      /\ \/ user = "base" /\ user' = "gone"
         \/ UNCHANGED user /\ dtor'[Facade] = dtor[Facade]
  BY <1>0 DEF DestroyBase, DestroyGroup, UserDestroys, Destroy, At, Goto, facadeVars, implVars
<1>2. FacadeType'
  BY <1>1 DEF FacadeInv, FacadeType
<1>3. Lifetimes' /\ Stoppable'
  BY <1>1 DEF FacadeInv, Lifetimes, Stoppable
<1>4. StartInv' /\ ReleaseInv'
  BY <1>1 DEF FacadeInv, StartInv, ReleaseInv
<1> QED BY <1>2, <1>3, <1>4 DEF FacadeInv

\* A loop or a session begins or ends: it drops the last reference only to a
\* server that nothing else holds.
LEMMA HolderStep ==
  ASSUME TreeLife, FacadeInv, NEW i \in Impl, LoopEnds(i) \/ SessionBegins(i) \/ SessionEnds(i)
  PROVE  FacadeInv'
<1> USE ObjectsApart
<1>0. /\ run \in [Impl -> {"unborn", "new", "off", "bound", "listening", "stopped"}]
      /\ holders \in [Impl -> Nat] /\ impl \in Impl \cup {None}
      /\ dtor \in [Object -> {"no", "unlink", "children"}]
  BY DEF FacadeInv, FacadeType, TreeLife, TreeType
<1>1. /\ UNCHANGED <<alive, user, fork, asked, busy, impl, udp, told, replaced>>
      /\ \A o \in Object : o # i => dtor'[o] = dtor[o]
      /\ \/ run[i] = "listening" /\ run' = [run EXCEPT ![i] = "stopped"] /\ UNCHANGED holders
         \/ run[i] = "listening" /\ holders' = [holders EXCEPT ![i] = @ + 1] /\ UNCHANGED run
         \/ holders[i] > 0 /\ holders' = [holders EXCEPT ![i] = @ - 1] /\ UNCHANGED run
      /\ UNCHANGED dtor \/ (dtor'[i] # "no" /\ ~Held(i))
  <2>1. CASE LoopEnds(i)
    BY <1>0, <2>1 DEF LoopEnds, Destroy, treeVars, userVars
  <2>2. CASE SessionBegins(i)
    BY <2>2 DEF SessionBegins, treeVars, userVars, facadeVars
  <2>3. CASE SessionEnds(i)
    BY <1>0, <2>3 DEF SessionEnds, Destroy, treeVars, userVars
  <2> QED BY <2>1, <2>2, <2>3
<1>2. run[i] \notin Early
  BY <1>1, <1>0 DEF FacadeInv, StartInv, Early
<1>3. run' \in [Impl -> {"unborn", "new", "off", "bound", "listening", "stopped"}]
  BY <1>0, <1>1
<1>4. holders' \in [Impl -> Nat]
  BY <1>0, <1>1
<1>5. FacadeType'
  BY <1>1, <1>3, <1>4 DEF FacadeInv, FacadeType
<1>6. /\ \A j \in Impl : j # i => run'[j] = run[j] /\ holders'[j] = holders[j]
      /\ run'[i] \in {run[i], "stopped"}
  BY <1>0, <1>1
<1>7. Lifetimes'
  <2>1. i \in alive /\ dtor[i] = "no"
    BY <1>1 DEF FacadeInv, Lifetimes
  <2>2. ASSUME NEW j \in Impl, impl = j \/ run'[j] \in {"new", "listening"} \/ holders'[j] > 0
        PROVE  j \in alive /\ dtor'[j] = "no"
    <3>1. CASE j = i
      <4>1. Held(i)
        BY <1>1, <1>2, <1>6, <2>2, <3>1 DEF Held, Early
      <4> QED BY <1>1, <2>1, <3>1, <4>1
    <3>2. CASE j # i
      BY <1>1, <1>6, <2>2, <3>2 DEF FacadeInv, Lifetimes
    <3> QED BY <3>1, <3>2
  <2>3. user \notin {"none", "gone"} => Facade \in alive /\ dtor'[Facade] = "no"
    BY <1>1 DEF FacadeInv, Lifetimes
  <2> QED BY <1>1, <2>2, <2>3 DEF Lifetimes
<1>8. StartInv'
  BY <1>0, <1>1, <1>2, <1>6 DEF FacadeInv, StartInv, Early
<1>9. ReleaseInv'
  BY <1>0, <1>1, <1>6 DEF FacadeInv, ReleaseInv
<1>10. Stoppable'
  BY <1>0, <1>1, <1>6 DEF FacadeInv, Stoppable
<1> QED BY <1>5, <1>7, <1>8, <1>9, <1>10 DEF FacadeInv

\* A destructor goes on.
LEMMA DtorKeeps ==
  ASSUME TreeLife, FacadeInv, NEW o \in Object, DtorStep(o),
         UNCHANGED <<userVars, facadeVars, implVars, replaced>>
  PROVE  FacadeInv'
<1> USE ObjectsApart
<1>0. dtor \in [Object -> {"no", "unlink", "children"}]
  BY DEF TreeLife, TreeType
<1>1. UNCHANGED <<user, fork, asked, busy, impl, run, udp, told, holders, replaced>>
  BY DEF userVars, facadeVars, implVars
<1>2. /\ dtor[o] # "no" /\ (dtor'[o] # "no" \/ o \notin alive')
      /\ \A x \in Object : x # o => dtor'[x] = dtor[x] /\ (x \in alive' <=> x \in alive)
  BY <1>0 DEF DtorStep, DtorUnlink, DtorChild, DtorEnd
<1>3. FacadeType'
  BY <1>1 DEF FacadeInv, FacadeType
<1>4. Lifetimes'
  BY <1>1, <1>2 DEF FacadeInv, Lifetimes
<1>5. StartInv' /\ ReleaseInv'
  BY <1>1 DEF FacadeInv, StartInv, ReleaseInv
<1>6. Stoppable'
  BY <1>1, <1>2 DEF FacadeInv, Stoppable
<1> QED BY <1>3, <1>4, <1>5, <1>6 DEF FacadeInv

\* Every step keeps what the facade and its servers rely on, on any number of
\* threads: only the tree's pointers need OneThread.
LEMMA FacadeNext ==
  ASSUME TreeLife, FacadeInv, [Next]_vars
  PROVE  FacadeInv'
<1>1. CASE UNCHANGED vars
  BY <1>1 DEF vars, treeVars, userVars, facadeVars, implVars, FacadeInv, FacadeType, Lifetimes,
              StartInv, ReleaseInv, Stoppable
<1>2. ASSUME UserStep PROVE FacadeInv'
  BY <1>2, CalmStep, BirthStep, RunStep, ShutdownStep, LeaveStep DEF UserStep
<1>3. ASSUME CallStep PROVE FacadeInv'
  BY <1>3, CalmStep, BirthStep, AssignStep, RunStep, ReleaseStep, LeaveStep DEF CallStep
<1>4. ASSUME NEW i \in Impl, LoopEnds(i) \/ SessionBegins(i) \/ SessionEnds(i) PROVE FacadeInv'
  BY <1>4, HolderStep
<1>5. ASSUME NEW o \in Object, DtorStep(o), UNCHANGED <<userVars, facadeVars, implVars, replaced>>
      PROVE  FacadeInv'
  BY <1>5, DtorKeeps
<1> QED BY <1>1, <1>2, <1>3, <1>4, <1>5 DEF Next

\* The operations of the tree keep its types, and begin and end a destructor on
\* an object that exists.
LEMMA LifeOps ==
  ASSUME TreeLife,
         \/ \E o \in Object : Construct(o) \/ Destroy(o) \/ DtorStep(o)
         \/ \E p, o \in Object : Link(p, o)
         \/ \E o \in Object, k \in Key, v \in Value : Set(o, k, v)
         \/ Unlink(Group, Facade) /\ UNCHANGED <<alive, opt, own, dtor, leaving>>
  PROVE  TreeLife'
<1>0. /\ parent \in [Object -> Object \cup {None}] /\ lnks \in [Object -> SUBSET Object]
      /\ dtor \in [Object -> {"no", "unlink", "children"}]
      /\ leaving \in [Object -> Object \cup {None}]
      /\ opt \in [Object -> [Key -> Value]] /\ own \in [Object -> SUBSET Key]
      /\ alive \subseteq Object /\ \A o \in Object : dtor[o] # "no" => o \in alive
  BY DEF TreeLife, TreeType
<1>1. ASSUME NEW o \in Object, Construct(o) PROVE TreeLife'
  BY <1>1 DEF TreeLife, TreeType, Construct
<1>2. ASSUME NEW o \in Object, Destroy(o) PROVE TreeLife'
  <2>1. /\ o \in alive /\ parent[o] \in Object \cup {None}
        /\ \E at \in {"children", "unlink"} : dtor' = [dtor EXCEPT ![o] = at]
        /\ leaving' = [leaving EXCEPT ![o] = parent[o]]
        /\ UNCHANGED <<alive, opt, parent, lnks, own>>
    BY <1>0, <1>2 DEF Destroy
  <2>2. dtor' \in [Object -> {"no", "unlink", "children"}] /\ leaving' \in [Object -> Object \cup {None}]
    BY <1>0, <2>1
  <2> QED BY <1>0, <2>1, <2>2 DEF TreeLife, TreeType
<1>3. ASSUME NEW p, NEW o, Unlink(p, o)
      PROVE  parent' \in [Object -> Object \cup {None}] /\ lnks' \in [Object -> SUBSET Object]
  BY <1>0, <1>3 DEF Unlink
<1>4. ASSUME NEW o \in Object, DtorUnlink(o) \/ DtorChild(o) PROVE TreeLife'
  <2>1. /\ UNCHANGED <<alive, opt, own>> /\ dtor[o] # "no"
        /\ dtor' = dtor \/ dtor' = [dtor EXCEPT ![o] = "children"]
        /\ leaving' = leaving \/ leaving' = [leaving EXCEPT ![o] = None]
    BY <1>4 DEF DtorUnlink, DtorChild
  <2>2. parent' \in [Object -> Object \cup {None}] /\ lnks' \in [Object -> SUBSET Object]
    BY <1>3, <1>4 DEF DtorUnlink, DtorChild
  <2>3. dtor' \in [Object -> {"no", "unlink", "children"}] /\ leaving' \in [Object -> Object \cup {None}]
    BY <1>0, <2>1
  <2> QED BY <1>0, <2>1, <2>2, <2>3 DEF TreeLife, TreeType
<1>5. ASSUME NEW o \in Object, DtorEnd(o) PROVE TreeLife'
  <2>1. /\ alive' = alive \ {o} /\ dtor' = [dtor EXCEPT ![o] = "no"]
        /\ opt' = [opt EXCEPT ![o] = Default] /\ own' = [own EXCEPT ![o] = {}]
        /\ UNCHANGED <<parent, lnks, leaving>>
    BY <1>5 DEF DtorEnd
  <2>2. opt' \in [Object -> [Key -> Value]] /\ own' \in [Object -> SUBSET Key]
    BY <1>0, <2>1, DefaultAssumption
  <2>3. dtor' \in [Object -> {"no", "unlink", "children"}]
    BY <1>0, <2>1
  <2> QED BY <1>0, <2>1, <2>2, <2>3 DEF TreeLife, TreeType
<1>6. ASSUME NEW p \in Object, NEW o \in Object, Link(p, o) PROVE TreeLife'
  <2>1. opt' \in [Object -> [Key -> Value]] /\ own' \in [Object -> SUBSET Key]
    BY <1>0, <1>6 DEF Link, Inherit
  <2>2. parent' \in [Object -> Object \cup {None}] /\ lnks' \in [Object -> SUBSET Object]
    BY <1>0, <1>6 DEF Link
  <2> QED BY <1>0, <1>6, <2>1, <2>2 DEF TreeLife, TreeType, Link
<1>7. ASSUME NEW o \in Object, NEW k \in Key, NEW v \in Value, Set(o, k, v) PROVE TreeLife'
  <2>1. opt' \in [Object -> [Key -> Value]]
    BY <1>0, <1>7 DEF Set
  <2>2. own' \in [Object -> SUBSET Key]
    BY <1>0, <1>7 DEF Set
  <2> QED BY <1>0, <1>7, <2>1, <2>2 DEF TreeLife, TreeType, Set
<1>8. CASE Unlink(Group, Facade) /\ UNCHANGED <<alive, opt, own, dtor, leaving>>
  BY <1>0, <1>3, <1>8 DEF TreeLife, TreeType
<1> QED BY <1>1, <1>2, <1>4, <1>5, <1>6, <1>7, <1>8 DEF DtorStep

\* Every step is one of them, or leaves the tree alone.
LEMMA LifeNext ==
  ASSUME TreeLife, FacadeInv, [Next]_vars
  PROVE  TreeLife'
<1> USE ObjectsApart
<1>1. CASE UNCHANGED treeVars
  BY <1>1 DEF treeVars, TreeLife, TreeType
<1>2. CASE \E o \in Object : DtorStep(o)
  BY <1>2, LifeOps
<1>3. CASE UserStep
  <2>1. CASE NewServer
    BY <2>1, LifeOps DEF NewServer
  <2>2. CASE \E o \in Object, k \in Key, v \in Value : SetOption(o, k, v)
    BY <2>2, LifeOps DEF SetOption
  <2>3. CASE LinkGroup
    BY <2>3, LifeOps DEF LinkGroup
  <2>4. CASE UnlinkGroup
    BY <2>4, LifeOps DEF UnlinkGroup
  <2>5. CASE DestroyGroup
    BY <2>5, LifeOps DEF DestroyGroup, UserDestroys
  <2>6. CASE \/ \E w \in ReadableUrl : ReadUrl(w)
             \/ \E w \in StartUrl, before \in BOOLEAN : goStart(w, before)
             \/ goStartAfterFork
             \/ \E next \in {"idle", "release"} : Shutdown(next)
    BY <1>1, <2>6 DEF ReadUrl, goStart, goStartAfterFork, Shutdown
  <2> QED BY <1>3, <2>1, <2>2, <2>3, <2>4, <2>5, <2>6 DEF UserStep
<1>4. CASE CallStep
  <2>1. CASE \E i \in Impl : CreateServer(i)
    BY <2>1, LifeOps DEF CreateServer
  <2>2. CASE LinkImpl
    <3>1. impl \in Object
      BY <2>2 DEF LinkImpl, At, FacadeInv, FacadeType, StartInv
    <3> QED BY <2>2, <3>1, LifeOps DEF LinkImpl
  <2>3. CASE (\E i \in Impl : AssignImpl(i)) \/ ReleaseImpl
    <3>1. UNCHANGED treeVars \/ (impl \in Object /\ Destroy(impl))
      BY <2>3 DEF AssignImpl, ReleaseImpl, UserDestroys, FacadeInv, FacadeType
    <3> QED BY <1>1, <3>1, LifeOps
  <2>4. CASE DestroyBase
    BY <2>4, LifeOps DEF DestroyBase, UserDestroys
  <2>5. CASE Refuse \/ StartImpl \/ WaitRecv
    BY <1>1, <2>5 DEF Refuse, StartImpl, WaitRecv
  <2> QED BY <1>4, <2>1, <2>2, <2>3, <2>4, <2>5 DEF CallStep
<1>5. ASSUME NEW i \in Impl, LoopEnds(i) \/ SessionBegins(i) \/ SessionEnds(i) PROVE TreeLife'
  <2>1. UNCHANGED treeVars \/ Destroy(i)
    BY <1>5 DEF LoopEnds, SessionBegins, SessionEnds
  <2> QED BY <1>1, <2>1, LifeOps
<1>6. CASE UNCHANGED vars
  BY <1>1, <1>6 DEF vars
<1> QED BY <1>2, <1>3, <1>4, <1>5, <1>6 DEF Next

\* Every step on one thread keeps the invariant.
LEMMA ServerNext ==
  ASSUME OneThread, ServerInv, [Next]_vars
  PROVE  ServerInv'
<1>1. Tree /\ FacadeInv
  BY Halves
<1>2. TreeLife
  BY <1>1 DEF Tree, TreeInv, DtorInv, TreeLife
<1>3. Tree' /\ FacadeInv'
  BY <1>1, <1>2, TreeNext, FacadeNext
<1> QED BY <1>3 DEF ServerInv, Inv, TypeOK, Tree, FacadeInv, FacadeType

\* Before there is a Server there is one object of the user's.
LEMMA ServerInit == Init => ServerInv
<1> SUFFICES ASSUME Init PROVE Tree /\ FacadeInv
  BY Halves
<1> USE ObjectsApart DEF Init, OptionsInit
<1>1. TreeType
  BY DefaultAssumption DEF TreeType
<1>2. TreeInv
  BY ObjectAssumption DEF TreeInv, Linked, NoDangling, DtorInv
<1>3. Agree
  BY DEF Agree
<1>4. FacadeType
  BY DEF FacadeType, NotAsked
<1>5. Lifetimes /\ StartInv /\ ReleaseInv /\ Stoppable
  BY DEF Lifetimes, StartInv, ReleaseInv, Stoppable
<1> QED BY <1>1, <1>2, <1>3, <1>4, <1>5 DEF Tree, FacadeInv

-----------------------------------------------------------------------------
(* Theorems *)

\* On one thread, a Server and its objects keep the whole invariant.
THEOREM ServerInvariant == ASSUME OneThread PROVE Spec => []ServerInv
<1>1. ServerInv /\ [Next]_vars => ServerInv'
  BY ServerNext
<1> QED BY ServerInit, <1>1, PTL DEF Spec

\* No server is destroyed while impl_, its loop or a session refers to it, no
\* call on the facade outlives it, and no pointer of the option tree dangles.
THEOREM NothingDangles == ASSUME OneThread PROVE Spec => []Inv
<1>1. ServerInv => Inv
  BY DEF ServerInv
<1> QED BY ServerInvariant, <1>1, PTL

\* Options agree along every link, whatever was set, linked and destroyed in
\* between.
THEOREM OptionsAgree == ASSUME OneThread PROVE Spec => []Agree
<1>1. ServerInv => Agree
  BY DEF ServerInv
<1> QED BY ServerInvariant, <1>1, PTL

\* On any number of threads, the facade and its servers keep their part of it.
THEOREM FacadeInvariant == Spec => [](TreeLife /\ FacadeInv)
<1>1. Init => TreeLife /\ FacadeInv
  <2> SUFFICES ASSUME Init PROVE TreeLife /\ FacadeInv
    OBVIOUS
  <2>1. Tree /\ FacadeInv
    BY ServerInit, Halves
  <2> QED BY <2>1 DEF Tree, TreeInv, DtorInv, TreeLife
<1>2. TreeLife /\ FacadeInv /\ [Next]_vars => (TreeLife /\ FacadeInv)'
  BY LifeNext, FacadeNext
<1> QED BY <1>1, <1>2, PTL DEF Spec

\* On any number of threads, no server is destroyed while impl_, its loop or a
\* session refers to it, and no call on the facade outlives the facade.
THEOREM ServersOutliveUse == Spec => [](TypeOK /\ Lifetimes)
<1>1. TreeLife /\ FacadeInv => TypeOK /\ Lifetimes
  BY DEF TreeLife, FacadeInv, FacadeType, TypeOK
<1> QED BY FacadeInvariant, <1>1, PTL

\* On any number of threads, whatever listens is impl_, or has been told to stop,
\* or was listening when a second goStart replaced it.
THEOREM ListenersStoppable == Spec => []Stoppable
<1>1. FacadeInv => Stoppable
  BY DEF FacadeInv
<1> QED BY FacadeInvariant, <1>1, PTL

\* The assertion in Unlink holds on one thread, in both calls the destructor
\* makes; with destructors on several threads it does not.
THEOREM UnlinkOnOneThread == ASSUME OneThread PROVE Spec => []UnlinkAssert
<1>1. ServerInv => UnlinkAssert
  BY DEF ServerInv, Inv, TypeOK, TreeType, TreeInv, Linked, DtorInv, UnlinkAssert
<1> QED BY ServerInvariant, <1>1, PTL

-----------------------------------------------------------------------------
(* URLs: what from_string finds in what was written *)

\* What a URL is made of. Written out, since no backend knows that a literal is
\* a member of STRING.
Token == STRING \cup {Colon, Slash, "0.0.0.0", "none"} \cup Proto

UrlType == [scheme : Token, host : Token, port : Token, path : Seq(Token)]

\* Where the tokens of two parts are.
LEMMA TwoParts ==
  ASSUME NEW T, NEW s \in Seq(T), NEW t \in Seq(T)
  PROVE  /\ s \o t \in Seq(T) /\ Len(s \o t) = Len(s) + Len(t)
         /\ \A i \in 1..Len(s) : (s \o t)[i] = s[i]
         /\ \A i \in 1..Len(t) : (s \o t)[Len(s) + i] = t[i]
  OBVIOUS

\* The end of a sequence, from one of its places.
LEMMA FromAt ==
  ASSUME NEW T, NEW s \in Seq(T), NEW i \in 1..(Len(s) + 1)
  PROVE  /\ From(s, i) \in Seq(T) /\ Len(From(s, i)) = Len(s) - i + 1
         /\ \A j \in 1..(Len(s) - i + 1) : From(s, i)[j] = s[i + j - 1]
<1>1. Len(s) \in Nat /\ i \in Int /\ \A j \in i..Len(s) : s[j] \in T
  OBVIOUS
<1>2. /\ SubSeq(s, i, Len(s)) \in Seq(T)
      /\ Len(SubSeq(s, i, Len(s))) = IF i <= Len(s) THEN Len(s) - i + 1 ELSE 0
      /\ \A j \in 1..(Len(s) - i + 1) : SubSeq(s, i, Len(s))[j] = s[i + j - 1]
  BY <1>1, SubSeqProperties
<1> QED BY <1>1, <1>2 DEF From

\* The tokens of "://".
LEMMA SepTokens ==
  /\ Sep \in Seq(Token) /\ Len(Sep) = 3
  /\ Sep[1] = Colon /\ Sep[2] = Slash /\ Sep[3] = Slash
<1>1. Colon \in Token /\ Slash \in Token
  BY DEF Token
<1>2. ASSUME NEW T, NEW c \in T, NEW d \in T
      PROVE  /\ <<c, d, d>> \in Seq(T) /\ Len(<<c, d, d>>) = 3
             /\ <<c, d, d>>[1] = c /\ <<c, d, d>>[2] = d /\ <<c, d, d>>[3] = d
  OBVIOUS
<1> QED BY <1>1, <1>2 DEF Sep

\* "://" is at a place when its three tokens are.
LEMMA SepAt ==
  ASSUME NEW s \in Seq(Token), NEW k \in 3..Len(s)
  PROVE  SubSeq(s, k - 2, k) = Sep <=> s[k - 2] = Colon /\ s[k - 1] = Slash /\ s[k] = Slash
<1> DEFINE u == SubSeq(s, k - 2, k)
<1>1. /\ k \in Int /\ k - 2 \in Int /\ k - 2 <= k /\ k - (k - 2) + 1 = 3
      /\ \A j \in (k - 2)..k : s[j] \in Token
  OBVIOUS
<1>2. /\ u \in Seq(Token) /\ Len(u) = IF k - 2 <= k THEN k - (k - 2) + 1 ELSE 0
      /\ \A i \in 1..(k - (k - 2) + 1) : u[i] = s[(k - 2) + i - 1]
  BY <1>1, SubSeqProperties
<1> HIDE DEF u
<1>3. u \in Seq(Token) /\ Len(u) = 3
  BY <1>1, <1>2
<1>4. \A i \in 1..3 : u[i] = s[(k - 2) + i - 1]
  BY <1>1, <1>2
<1>5. u[1] = s[k - 2] /\ u[2] = s[k - 1] /\ u[3] = s[k]
  <2>1. u[1] = s[(k - 2) + 1 - 1] /\ u[2] = s[(k - 2) + 2 - 1] /\ u[3] = s[(k - 2) + 3 - 1]
    BY <1>4
  <2>2. (k - 2) + 1 - 1 = k - 2 /\ (k - 2) + 2 - 1 = k - 1 /\ (k - 2) + 3 - 1 = k
    BY <1>1
  <2> QED BY <2>1, <2>2
<1>6. Len(Sep) = 3 /\ Sep[1] = Colon /\ Sep[2] = Slash /\ Sep[3] = Slash /\ Sep \in Seq(Token)
  BY SepTokens
<1>7. ASSUME u[1] = Colon, u[2] = Slash, u[3] = Slash PROVE u = Sep
  <2>1. \A i \in 1..Len(u) : u[i] = Sep[i]
    BY <1>3, <1>6, <1>7
  <2> QED BY <1>3, <1>6, <2>1, SeqEqual
<1> QED BY <1>5, <1>6, <1>7 DEF u

\* Where the parts of a URL begin: the host after a scheme and "://", the path
\* after a colon and a port, each if there is one.
AfterScheme(w) == IF w.scheme = "none" THEN 0 ELSE 4
PortLen(w) == IF w.port = "none" THEN 0 ELSE 2

\* Where each token of a written URL is.
LEMMA WrittenAt ==
  ASSUME NEW w \in UrlType
  PROVE  LET s == Written(w)
             b == AfterScheme(w)
             q == PortLen(w)
         IN /\ s \in Seq(Token) /\ Len(s) = b + 1 + q + Len(w.path)
            /\ b = 4 => s[1] = w.scheme /\ s[2] = Colon /\ s[3] = Slash /\ s[4] = Slash
            /\ s[b + 1] = w.host
            /\ q = 2 => s[b + 2] = Colon /\ s[b + 3] = w.port
            /\ \A i \in 1..Len(w.path) : s[b + 1 + q + i] = w.path[i]
<1> DEFINE b == AfterScheme(w)
           q == PortLen(w)
           p == w.path
           A == IF w.scheme = "none" THEN << >> ELSE <<w.scheme>> \o Sep
           B == <<w.host>>
           C == IF w.port = "none" THEN << >> ELSE <<Colon, w.port>>
<1>0. /\ w.scheme \in Token /\ w.host \in Token /\ w.port \in Token /\ p \in Seq(Token)
      /\ Colon \in Token /\ Slash \in Token
  BY DEF UrlType, Token
<1> HIDE DEF Token, p
<1>1. /\ A \in Seq(Token) /\ Len(A) = b /\ b \in {0, 4}
      /\ b = 4 => A[1] = w.scheme /\ A[2] = Colon /\ A[3] = Slash /\ A[4] = Slash
  <2>1. CASE w.scheme = "none"
    BY <2>1 DEF AfterScheme
  <2>2. CASE w.scheme # "none"
    <3> DEFINE F == <<w.scheme>>
    <3>1. F \in Seq(Token) /\ Len(F) = 1 /\ F[1] = w.scheme
      BY <1>0
    <3>2. A = F \o Sep /\ b = 4
      BY <2>2 DEF AfterScheme
    <3> HIDE DEF F, A
    <3>3. /\ F \o Sep \in Seq(Token) /\ Len(F \o Sep) = Len(F) + Len(Sep)
          /\ \A i \in 1..Len(F) : (F \o Sep)[i] = F[i]
          /\ \A i \in 1..Len(Sep) : (F \o Sep)[Len(F) + i] = Sep[i]
      <4>1. F \in Seq(Token) /\ Sep \in Seq(Token)
        BY <3>1, SepTokens
      <4> QED BY ONLY <4>1, TwoParts
    <3>4. A \in Seq(Token) /\ Len(A) = 4 /\ A[1] = w.scheme
      BY <3>1, <3>2, <3>3, SepTokens
    <3>5. A[1 + 1] = Sep[1] /\ A[1 + 2] = Sep[2] /\ A[1 + 3] = Sep[3]
      BY <3>1, <3>2, <3>3, SepTokens
    <3> QED BY <3>2, <3>4, <3>5, SepTokens
  <2> QED BY <2>1, <2>2
<1>2. B \in Seq(Token) /\ Len(B) = 1 /\ B[1] = w.host
  BY <1>0
<1>3. /\ C \in Seq(Token) /\ Len(C) = q /\ q \in {0, 2}
      /\ q = 2 => C[1] = Colon /\ C[2] = w.port
  BY <1>0 DEF PortLen
<1>4. Written(w) = A \o B \o C \o p
  BY DEF Written, p
<1> HIDE DEF A, B, C, b, q
<1> DEFINE AB == A \o B
           ABC == AB \o C
           s == ABC \o p
<1>5. /\ AB \in Seq(Token) /\ Len(AB) = b + 1
      /\ \A i \in 1..b : AB[i] = A[i]
      /\ AB[b + 1] = w.host
  <2>1. /\ AB \in Seq(Token) /\ Len(AB) = Len(A) + Len(B)
        /\ \A i \in 1..Len(A) : AB[i] = A[i]
        /\ \A i \in 1..Len(B) : AB[Len(A) + i] = B[i]
    BY <1>1, <1>2, TwoParts
  <2> HIDE DEF AB
  <2> QED BY <1>1, <1>2, <2>1
<1> HIDE DEF AB
<1>6. /\ ABC \in Seq(Token) /\ Len(ABC) = b + 1 + q
      /\ \A i \in 1..(b + 1) : ABC[i] = AB[i]
      /\ \A i \in 1..q : ABC[b + 1 + i] = C[i]
  <2>1. /\ ABC \in Seq(Token) /\ Len(ABC) = Len(AB) + Len(C)
        /\ \A i \in 1..Len(AB) : ABC[i] = AB[i]
        /\ \A i \in 1..Len(C) : ABC[Len(AB) + i] = C[i]
    BY <1>3, <1>5, TwoParts
  <2> HIDE DEF ABC
  <2> QED BY <1>1, <1>3, <1>5, <2>1
<1> HIDE DEF ABC
<1>7. /\ s \in Seq(Token) /\ Len(s) = b + 1 + q + Len(p)
      /\ \A i \in 1..(b + 1 + q) : s[i] = ABC[i]
      /\ \A i \in 1..Len(p) : s[b + 1 + q + i] = p[i]
  <2>1. /\ s \in Seq(Token) /\ Len(s) = Len(ABC) + Len(p)
        /\ \A i \in 1..Len(ABC) : s[i] = ABC[i]
        /\ \A i \in 1..Len(p) : s[Len(ABC) + i] = p[i]
    <3>1. ABC \in Seq(Token) /\ p \in Seq(Token)
      BY <1>0, <1>6
    <3> QED BY ONLY <3>1, TwoParts DEF s
  <2> HIDE DEF s
  <2> QED BY <1>1, <1>3, <1>6, <2>1
<1>8. Written(w) = s
  BY <1>4 DEF AB, ABC
<1> HIDE DEF s
<1>9. b = 4 => s[1] = w.scheme /\ s[2] = Colon /\ s[3] = Slash /\ s[4] = Slash
  <2>1. \A i \in 1..b : s[i] = A[i]
    BY <1>1, <1>3, <1>5, <1>6, <1>7
  <2> QED BY <1>1, <2>1
<1>10. s[b + 1] = w.host
  BY <1>1, <1>3, <1>5, <1>6, <1>7
<1>11. q = 2 => s[b + 2] = Colon /\ s[b + 3] = w.port
  <2> SUFFICES ASSUME q = 2 PROVE s[b + 2] = Colon /\ s[b + 3] = w.port
    OBVIOUS
  <2>1. ABC[b + 1 + 1] = C[1] /\ ABC[b + 1 + 2] = C[2]
    <3>1. 1 \in 1..q /\ 2 \in 1..q /\ \A i \in 1..q : ABC[b + 1 + i] = C[i]
      BY <1>6
    <3> QED BY ONLY <3>1
  <2>2. b + 1 + 1 = b + 2 /\ b + 1 + 2 = b + 3 /\ b + 2 \in 1..(b + 1 + q) /\ b + 3 \in 1..(b + 1 + q)
    BY <1>1
  <2>3. s[b + 2] = ABC[b + 2] /\ s[b + 3] = ABC[b + 3]
    BY <1>7, <2>2
  <2> QED BY <1>3, <2>1, <2>2, <2>3
<1> QED BY <1>7, <1>8, <1>9, <1>10, <1>11 DEF b, q, p

\* After the host of a plain URL come its port and its path, if any.
LEMMA AfterHost ==
  ASSUME NEW w \in UrlType, Plain(w)
  PROVE  LET s == Written(w)
             rest == From(s, AfterScheme(w) + 2)
         IN /\ AfterPort(rest) = w.path
            /\ Port(rest) = Meant(w).port
            /\ HostPortPath(From(s, AfterScheme(w) + 1))
<1> DEFINE s == Written(w)
           b == AfterScheme(w)
           q == PortLen(w)
           p == w.path
           rest == From(s, b + 2)
<1>0. /\ s \in Seq(Token) /\ Len(s) = b + 1 + q + Len(p) /\ p \in Seq(Token) /\ Len(p) \in Nat
      /\ s[b + 1] = w.host
      /\ q = 2 => s[b + 2] = Colon /\ s[b + 3] = w.port
      /\ \A i \in 1..Len(p) : s[b + 1 + q + i] = p[i]
  <2>1. p \in Seq(Token)
    BY DEF UrlType
  <2>2. Len(p) \in Nat
    BY <2>1
  <2> QED BY <2>1, <2>2, WrittenAt
<1>1. b \in {0, 4} /\ q \in {0, 2} /\ (q = 2 <=> w.port # "none")
  BY DEF AfterScheme, PortLen
<1>2. /\ IsWord(w.host) /\ (p = << >> \/ StartsWith(p, Slash))
      /\ w.port # "none" => IsNum(w.port) /\ Digits[w.port] \in Nat /\ Digits[w.port] < U16
  BY LookupAssumption, DigitsAssumption DEF Plain, IsNum
<1> HIDE DEF s, b, q, p, Token
<1>3. /\ rest \in Seq(Token) /\ Len(rest) = q + Len(p)
      /\ \A j \in 1..(q + Len(p)) : rest[j] = s[b + 1 + j]
  <2>1. b + 2 \in 1..(Len(s) + 1) /\ Len(s) - (b + 2) + 1 = q + Len(p)
    BY <1>0, <1>1
  <2>2. /\ rest \in Seq(Token) /\ Len(rest) = Len(s) - (b + 2) + 1
        /\ \A j \in 1..(Len(s) - (b + 2) + 1) : rest[j] = s[(b + 2) + j - 1]
    BY <1>0, <2>1, FromAt
  <2>3. ASSUME NEW j \in 1..(q + Len(p)) PROVE rest[j] = s[b + 1 + j]
    <3>1. (b + 2) + j - 1 = b + 1 + j
      BY <1>0, <1>1
    <3>2. rest[j] = s[(b + 2) + j - 1]
      BY <2>1, <2>2
    <3> QED BY <3>1, <3>2
  <2> QED BY <2>1, <2>2, <2>3
<1> HIDE DEF rest
<1>4. ASSUME q = 2 PROVE AfterPort(rest) = p /\ Port(rest) = Meant(w).port
  <2>1. rest[1] = Colon /\ rest[2] = w.port /\ Len(rest) >= 2 /\ rest # << >>
    <3>1. 1 \in 1..(q + Len(p)) /\ 2 \in 1..(q + Len(p)) /\ b + 1 + 1 = b + 2 /\ b + 1 + 2 = b + 3
      BY <1>0, <1>1, <1>4
    <3>2. rest[1] = s[b + 1 + 1] /\ rest[2] = s[b + 1 + 2]
      BY <1>3, <3>1
    <3> QED BY <1>0, <1>3, <1>4, <3>1, <3>2
  <2>2. HasPort(rest)
    BY <1>1, <1>2, <1>4, <2>1 DEF HasPort, StartsWith
  <2>3. From(rest, 3) = p
    <3>1. 3 \in 1..(Len(rest) + 1) /\ Len(rest) - 3 + 1 = Len(p)
      BY <1>0, <1>3, <1>4
    <3>2. /\ From(rest, 3) \in Seq(Token) /\ Len(From(rest, 3)) = Len(rest) - 3 + 1
          /\ \A j \in 1..(Len(rest) - 3 + 1) : From(rest, 3)[j] = rest[3 + j - 1]
      BY <1>3, <3>1, FromAt
    <3>3. \A j \in 1..Len(p) : From(rest, 3)[j] = p[j]
      <4> SUFFICES ASSUME NEW j \in 1..Len(p) PROVE From(rest, 3)[j] = p[j]
        OBVIOUS
      <4>1. 3 + j - 1 = 2 + j /\ 2 + j \in 1..(q + Len(p)) /\ b + 1 + (2 + j) = b + 1 + q + j
        BY <1>0, <1>1, <1>4
      <4>2. From(rest, 3)[j] = rest[2 + j]
        BY <3>1, <3>2, <4>1
      <4>3. rest[2 + j] = s[b + 1 + (2 + j)]
        BY <1>3, <4>1
      <4> QED BY <1>0, <4>1, <4>2, <4>3
    <3> QED BY <1>0, <3>1, <3>2, <3>3, SeqEqual
  <2>4. Digits[w.port] % U16 = Digits[w.port]
    BY <1>1, <1>2, <1>4 DEF U16
  <2> QED BY <1>1, <1>4, <2>1, <2>2, <2>3, <2>4 DEF AfterPort, Port, Meant
<1>5. ASSUME q = 0 PROVE AfterPort(rest) = p /\ Port(rest) = Meant(w).port
  <2>1. rest = p
    <3>1. \A j \in 1..Len(p) : rest[j] = p[j]
      <4> SUFFICES ASSUME NEW j \in 1..Len(p) PROVE rest[j] = p[j]
        OBVIOUS
      <4>1. b + 1 + q + j = b + 1 + j /\ j \in 1..(q + Len(p))
        BY <1>0, <1>1, <1>5
      <4> QED BY <1>0, <1>3, <4>1
    <3>2. Len(rest) = Len(p)
      BY <1>0, <1>3, <1>5
    <3> QED BY <1>0, <1>3, <3>1, <3>2, SeqEqual
  <2>2. ~HasPort(p)
    BY <1>2 DEF HasPort, StartsWith, Colon, Slash
  <2> QED BY <1>1, <1>5, <2>1, <2>2 DEF AfterPort, Port, Meant
<1>6. AfterPort(rest) = p /\ Port(rest) = Meant(w).port
  BY <1>1, <1>4, <1>5
<1>7. HostPortPath(From(s, b + 1))
  <2> DEFINE r == From(s, b + 1)
  <2>1. b + 1 \in 1..(Len(s) + 1) /\ Len(s) - (b + 1) + 1 = 1 + q + Len(p) /\ 1 + q + Len(p) \in Nat \ {0}
    BY <1>0, <1>1
  <2>2. /\ r \in Seq(Token) /\ Len(r) = Len(s) - (b + 1) + 1
        /\ \A j \in 1..(Len(s) - (b + 1) + 1) : r[j] = s[(b + 1) + j - 1]
    BY <1>0, <2>1, FromAt
  <2> HIDE DEF r
  <2>3. /\ Len(r) = 1 + q + Len(p) /\ r # << >>
        /\ \A j \in 1..(1 + q + Len(p)) : r[j] = s[b + j]
    <3>1. ASSUME NEW j \in 1..(1 + q + Len(p)) PROVE r[j] = s[b + j]
      <4>1. (b + 1) + j - 1 = b + j
        BY <1>0, <1>1
      <4>2. r[j] = s[(b + 1) + j - 1]
        BY <2>1, <2>2
      <4> QED BY <4>1, <4>2
    <3>2. Len(r) = 1 + q + Len(p) /\ r # << >>
      BY <2>1, <2>2
    <3> QED BY <3>1, <3>2
  <2>4. r[1] = w.host
    <3>1. 1 \in 1..(1 + q + Len(p))
      BY <2>1
    <3> QED BY <1>0, <2>3, <3>1
  <2>5. Tail(r) = rest
    <3>1. /\ Tail(r) \in Seq(Token) /\ Len(Tail(r)) = Len(r) - 1
          /\ \A j \in 1..(Len(r) - 1) : Tail(r)[j] = r[j + 1]
      BY <2>2, <2>3
    <3>2. Len(Tail(r)) = q + Len(p) /\ Len(r) - 1 = q + Len(p)
      BY <1>0, <1>1, <2>3, <3>1
    <3>3. \A j \in 1..(q + Len(p)) : Tail(r)[j] = rest[j]
      <4> SUFFICES ASSUME NEW j \in 1..(q + Len(p)) PROVE Tail(r)[j] = rest[j]
        OBVIOUS
      <4>1. j + 1 \in 1..(1 + q + Len(p)) /\ b + (j + 1) = b + 1 + j
        BY <1>0, <1>1
      <4>2. Tail(r)[j] = r[j + 1] /\ r[j + 1] = s[b + (j + 1)]
        BY <2>3, <3>1, <3>2, <4>1
      <4> QED BY <1>3, <4>1, <4>2
    <3> QED BY <1>3, <3>1, <3>2, <3>3, SeqEqual
  <2> QED BY <1>2, <1>6, <2>3, <2>4, <2>5 DEF HostPortPath, r
<1> QED BY <1>6, <1>7 DEF s, b, p, rest

\* The greedy (.*) cannot go wrong in a plain URL: its only "://" is the one
\* after the scheme, so the host is found where it was written.
LEMMA HostFound ==
  ASSUME NEW w \in UrlType, Plain(w)
  PROVE  /\ HostAt(Written(w)) # {}
         /\ Host(Written(w)) = AfterScheme(w) + 1
<1> DEFINE s == Written(w)
           b == AfterScheme(w)
           q == PortLen(w)
           p == w.path
<1>0. /\ s \in Seq(Token) /\ Len(s) = b + 1 + q + Len(p) /\ p \in Seq(Token) /\ Len(p) \in Nat
      /\ b = 4 => s[1] = w.scheme /\ s[2] = Colon /\ s[3] = Slash /\ s[4] = Slash
      /\ s[b + 1] = w.host
      /\ q = 2 => s[b + 2] = Colon /\ s[b + 3] = w.port
      /\ \A i \in 1..Len(p) : s[b + 1 + q + i] = p[i]
  <2>1. p \in Seq(Token)
    BY DEF UrlType
  <2>2. Len(p) \in Nat
    BY <2>1
  <2> QED BY <2>1, <2>2, WrittenAt
<1>1. /\ b \in {0, 4} /\ q \in {0, 2} /\ (q = 2 <=> w.port # "none")
      /\ HostPortPath(From(s, b + 1))
  BY AfterHost DEF AfterScheme, PortLen
<1>2. /\ IsWord(w.scheme) /\ IsWord(w.host) /\ ~HasSep(p)
      /\ w.port # "none" => IsWord(w.port)
  BY LookupAssumption, DigitsAssumption DEF Plain, IsNum
<1> DEFINE Places == {1} \cup {k \in 4..Len(s) : SubSeq(s, k - 3, k - 1) = Sep}
<1>3. HostAt(s) = {i \in Places : HostPortPath(From(s, i))}
  BY DEF HostAt
<1> HIDE DEF s, b, q, p, Token
<1>4. ASSUME NEW k \in 4..Len(s)
      PROVE  SubSeq(s, k - 3, k - 1) = Sep <=> s[k - 3] = Colon /\ s[k - 2] = Slash /\ s[k - 1] = Slash
  <2>1. k - 1 \in 3..Len(s) /\ (k - 1) - 2 = k - 3 /\ (k - 1) - 1 = k - 2
    BY <1>0, <1>1
  <2>2. SubSeq(s, (k - 1) - 2, k - 1) = Sep <=> s[(k - 1) - 2] = Colon /\ s[(k - 1) - 1] = Slash /\ s[k - 1] = Slash
    BY <1>0, <2>1, SepAt
  <2> QED BY <2>1, <2>2
<1>5. b + 1 \in Places
  <2>1. CASE b = 0
    BY <2>1
  <2>2. CASE b = 4
    <3>1. 5 \in 4..Len(s) /\ 5 - 3 = 2 /\ 5 - 2 = 3 /\ 5 - 1 = 4 /\ b + 1 = 5
      BY <1>0, <1>1, <2>2
    <3>2. SubSeq(s, 5 - 3, 5 - 1) = Sep
      BY <1>0, <1>4, <2>2, <3>1
    <3> QED BY <3>1, <3>2
  <2> QED BY <1>1, <2>1, <2>2
<1>6. ASSUME NEW k \in 4..Len(s), SubSeq(s, k - 3, k - 1) = Sep
      PROVE  k <= b + 1
  <2> SUFFICES ASSUME k > b + 1 PROVE FALSE
    BY <1>1
  <2>1. s[k - 3] = Colon /\ s[k - 2] = Slash /\ s[k - 1] = Slash
    BY <1>4, <1>6
  <2>2. Colon # Slash /\ (\A t : IsWord(t) => t # Colon /\ t # Slash)
    BY DEF Colon, Slash, IsWord
  \* the colon is not among the scheme, "://" and the host
  <2>3. ~(k - 3 <= b + 1)
    <3>1. CASE k - 3 = b + 1
      BY <1>0, <1>2, <2>1, <2>2, <3>1
    <3>2. CASE k - 3 \in {3, 4} /\ b = 4
      BY <1>0, <2>1, <2>2, <3>2
    <3>3. k - 3 \in Int /\ k - 3 > b - 2
      BY <1>1
    <3> QED BY <1>1, <3>1, <3>2, <3>3
  \* nor between host and port
  <2>4. ~(k - 3 <= b + 1 + q)
    <3>1. CASE q = 2 /\ k - 3 = b + 2
      <4>1. k - 2 = b + 3
        BY <1>1, <3>1
      <4> QED BY <1>0, <1>1, <1>2, <2>1, <2>2, <3>1, <4>1
    <3>2. CASE q = 2 /\ k - 3 = b + 3
      BY <1>0, <1>1, <1>2, <2>1, <2>2, <3>2
    <3> QED BY <1>1, <2>3, <3>1, <3>2
  \* nor in the path
  <2> DEFINE j == k - 1 - (b + 1 + q)
  <2>5. /\ j \in 3..Len(p) /\ j - 2 \in 1..Len(p) /\ j - 1 \in 1..Len(p) /\ j \in 1..Len(p)
        /\ b + 1 + q + (j - 2) = k - 3 /\ b + 1 + q + (j - 1) = k - 2 /\ b + 1 + q + j = k - 1
    BY <1>0, <1>1, <2>4
  <2> HIDE DEF j
  <2>6. p[j - 2] = s[k - 3] /\ p[j - 1] = s[k - 2] /\ p[j] = s[k - 1]
    <3>1. p[j - 2] = s[b + 1 + q + (j - 2)] /\ p[j - 1] = s[b + 1 + q + (j - 1)] /\ p[j] = s[b + 1 + q + j]
      BY <1>0, <2>5
    <3> QED BY <2>5, <3>1
  <2>7. SubSeq(p, j - 2, j) = Sep
    BY <1>0, <2>1, <2>5, <2>6, SepAt
  <2> QED BY <1>2, <2>5, <2>7 DEF HasSep
<1>7. b + 1 \in HostAt(s) /\ \A k \in HostAt(s) : k <= b + 1 /\ k \in Int
  <2>1. b + 1 \in HostAt(s)
    BY <1>1, <1>3, <1>5
  <2>2. ASSUME NEW k \in HostAt(s) PROVE k <= b + 1 /\ k \in Int
    <3>1. CASE k = 1
      BY <1>1, <3>1
    <3>2. CASE k \in 4..Len(s) /\ SubSeq(s, k - 3, k - 1) = Sep
      BY <1>6, <3>2
    <3> QED BY <1>3, <3>1, <3>2
  <2> QED BY <2>1, <2>2
<1>8. Host(s) = b + 1
  <2>1. Host(s) \in HostAt(s) /\ \A k \in HostAt(s) : k <= Host(s)
    BY <1>7 DEF Host
  <2>2. Host(s) <= b + 1 /\ b + 1 <= Host(s) /\ Host(s) \in Int /\ b + 1 \in Int
    BY <1>1, <1>7, <2>1
  <2> QED BY <2>2
<1> QED BY <1>7, <1>8 DEF s, b

\* from_string finds in a plain URL what was meant by it.
LEMMA ReadBack ==
  ASSUME NEW w \in UrlType, Plain(w), Lookup[w.host] # "none"
  PROVE  from_string(Written(w)) = [ec |-> "ok", ep |-> Meant(w)]
<1> DEFINE s == Written(w)
           b == AfterScheme(w)
           rest == From(s, b + 2)
<1>1. HostAt(s) # {} /\ Host(s) = b + 1
  BY HostFound
<1>2. AfterPort(rest) = w.path /\ Port(rest) = Meant(w).port
  BY AfterHost
<1>3. /\ s \in Seq(Token) /\ Len(s) >= b + 1 /\ s[b + 1] = w.host
      /\ b = 4 => s[1] = w.scheme
  <2>1. w.path \in Seq(Token) /\ PortLen(w) \in Nat /\ b \in Nat
    BY DEF UrlType, PortLen, AfterScheme
  <2>2. Len(w.path) \in Nat
    BY <2>1
  <2> QED BY <2>1, <2>2, WrittenAt
<1>4. b \in {0, 4} /\ (b = 4 <=> w.scheme # "none")
  BY DEF AfterScheme
<1>5. str2proto(Scheme(s)) = Meant(w).proto
  <2>1. CASE b = 0
    <3>1. Scheme(s) = << >>
      BY <1>1, <2>1 DEF Scheme
    <3>2. Meant(w).proto = "unkown"
      BY <1>4, <2>1 DEF Meant, Proto
    <3> QED BY <3>1, <3>2 DEF str2proto
  <2>2. CASE b = 4
    <3> HIDE DEF s, Token
    <3>1. Scheme(s) = SubSeq(s, 1, 1)
      BY <1>1, <2>2 DEF Scheme
    <3>2. s[1] \in Token
      BY <1>3, <2>2
    <3>3. Len(SubSeq(s, 1, 1)) = 1 /\ SubSeq(s, 1, 1)[1] = s[1]
      <4>1. \A i \in 1..1 : s[i] \in Token
        BY <3>2
      <4>2. /\ Len(SubSeq(s, 1, 1)) = IF 1 <= 1 THEN 1 - 1 + 1 ELSE 0
            /\ \A i \in 1..(1 - 1 + 1) : SubSeq(s, 1, 1)[i] = s[1 + i - 1]
        BY <4>1, SubSeqProperties
      <4> QED BY <4>2
    <3> QED BY <1>3, <2>2, <3>1, <3>3 DEF str2proto, Meant
  <2> QED BY <1>4, <2>1, <2>2
<1>6. Resolve(w.host) = Meant(w).address /\ Resolve(w.host) # "none"
  BY DEF Resolve, Meant, Plain
<1>7. From(s, Host(s) + 1) = rest
  <2>1. (b + 1) + 1 = b + 2
    BY <1>4
  <2> QED BY <1>1, <2>1
<1>8. from_string(s) = [ec |-> "ok",
                        ep |-> [proto |-> Meant(w).proto, address |-> Meant(w).address,
                                port |-> Meant(w).port, path |-> w.path]]
  <2> HIDE DEF rest, s
  <2> QED BY <1>1, <1>2, <1>3, <1>5, <1>6, <1>7 DEF from_string
<1> QED BY <1>8 DEF Meant

\* A nonempty set of natural numbers has a least one.
LEMMA LeastNat ==
  ASSUME NEW S \in SUBSET Nat, S # {}
  PROVE  \E m \in S : \A k \in S : m <= k
<1> DEFINE R == OpToRel(<, Nat)
<1>1. IsWellFoundedOn(R, Nat)
  BY NatLessThanWellFounded
<1>2. \A x, y \in Nat : x < y => <<x, y>> \in R
  BY DEF OpToRel
<1> HIDE DEF R
<1>3. PICK x \in S : \A y \in S : ~ (<<y, x>> \in R)
  BY <1>1, WFMin
<1>4. \A k \in S : x <= k
  <2> TAKE k \in S
  <2>1. k \in Nat /\ x \in Nat /\ ~(k < x)
    BY <1>2, <1>3
  <2> QED BY <2>1
<1> QED BY <1>4

\* Among finitely many places there is a last one.
LEMMA LastPlace ==
  ASSUME NEW n \in Nat, NEW S \in SUBSET (1..n), S # {}
  PROVE  \E m \in S : \A k \in S : k <= m
<1> DEFINE T == {n - i : i \in S}
<1>1. \A i \in S : i \in 1..n /\ n - i \in Nat
  OBVIOUS
<1>2. T \in SUBSET Nat
  BY <1>1
<1>3. T # {}
  OBVIOUS
<1>4. PICK m \in T : \A k \in T : m <= k
  BY <1>2, <1>3, LeastNat
<1>5. PICK i \in S : m = n - i
  OBVIOUS
<1>6. \A k \in S : k <= i
  <2> TAKE k \in S
  <2>1. n - k \in T
    OBVIOUS
  <2>2. n - i <= n - k
    BY <1>4, <1>5, <2>1
  <2> QED BY <1>1, <2>2
<1> QED BY <1>6

\* The end of a sequence, one place further.
LEMMA TailFrom ==
  ASSUME NEW T, NEW s \in Seq(T), NEW i \in 1..Len(s)
  PROVE  From(s, i) # << >> /\ Tail(From(s, i)) = From(s, i + 1)
<1> DEFINE r == From(s, i)
           t == From(s, i + 1)
<1>0. Len(s) \in Nat /\ i \in Nat /\ i \in 1..(Len(s) + 1) /\ i + 1 \in 1..(Len(s) + 1)
  OBVIOUS
<1>1. /\ r \in Seq(T) /\ Len(r) = Len(s) - i + 1
      /\ \A j \in 1..(Len(s) - i + 1) : r[j] = s[i + j - 1]
  BY <1>0, FromAt
<1>2. /\ t \in Seq(T) /\ Len(t) = Len(s) - (i + 1) + 1
      /\ \A j \in 1..(Len(s) - (i + 1) + 1) : t[j] = s[(i + 1) + j - 1]
  BY <1>0, FromAt
<1> HIDE DEF r, t
<1>3. r # << >>
  BY <1>0, <1>1
<1>4. /\ Tail(r) \in Seq(T) /\ Len(Tail(r)) = Len(r) - 1
      /\ \A j \in 1..(Len(r) - 1) : Tail(r)[j] = r[j + 1]
  <2>1. r \in Seq(T) /\ r # << >>
    BY <1>1, <1>3
  <2> QED BY ONLY <2>1, HeadTailProperties
<1>5. Len(Tail(r)) = Len(t)
  <2>1. ASSUME NEW n \in Nat PROVE (n - i + 1) - 1 = n - (i + 1) + 1
    BY <1>0
  <2>2. (Len(s) - i + 1) - 1 = Len(s) - (i + 1) + 1
    BY <1>0, <2>1
  <2>3. Len(Tail(r)) = Len(r) - 1
    BY <1>4
  <2>4. Len(r) - 1 = (Len(s) - i + 1) - 1
    BY <1>1
  <2>5. Len(t) = Len(s) - (i + 1) + 1
    BY <1>2
  <2> QED BY <2>2, <2>3, <2>4, <2>5
<1>6. \A j \in 1..Len(t) : Tail(r)[j] = t[j]
  <2> SUFFICES ASSUME NEW j \in 1..Len(t) PROVE Tail(r)[j] = t[j]
    OBVIOUS
  <2>1. /\ j \in 1..(Len(r) - 1) /\ j + 1 \in 1..(Len(s) - i + 1) /\ j \in 1..(Len(s) - (i + 1) + 1)
        /\ i + (j + 1) - 1 = (i + 1) + j - 1
    BY <1>0, <1>1, <1>2
  <2>2. Tail(r)[j] = r[j + 1] /\ r[j + 1] = s[i + (j + 1) - 1] /\ t[j] = s[(i + 1) + j - 1]
    BY <1>1, <1>2, <1>4, <2>1
  <2> QED BY <2>1, <2>2
<1>7. Tail(r) = t
  BY <1>2, <1>4, <1>5, <1>6, SeqEqual
<1> QED BY <1>3, <1>7 DEF r, t

-----------------------------------------------------------------------------
(* Endpoints: what a program can hold *)

Endpoints ==
    [proto : Proto,
     address : {a \in DOMAIN Lookup : a # "none" /\ Lookup[a] = a},
     port : {n \in 0..(U16 - 1) : \E v \in DOMAIN Digits : Digits[v] = n},
     path : {p \in Seq(Token) : p = << >> \/ StartsWith(p, Slash)}]

\* The default endpoint is one.
LEMMA DefaultEndpoint == NoEndpoint \in Endpoints
<1>1. "unkown" \in Proto /\ << >> \in Seq(Token)
  BY DEF Proto
<1>2. "0.0.0.0" \in {a \in DOMAIN Lookup : a # "none" /\ Lookup[a] = a}
  BY LookupAssumption
<1>3. 0 \in {n \in 0..(U16 - 1) : \E v \in DOMAIN Digits : Digits[v] = n}
  BY DigitsAssumption DEF U16
<1> QED BY <1>1, <1>2, <1>3 DEF NoEndpoint, Endpoints

\* from_string makes one of any URL, well written or not.
LEMMA ReadsEndpoint ==
  ASSUME NEW s \in Seq(Token)
  PROVE  from_string(s).ep \in Endpoints
<1> DEFINE i == Host(s)
           rest == From(s, i + 1)
<1>0. Len(s) \in Nat
  OBVIOUS
<1>1. CASE HostAt(s) = {}
  BY <1>1, DefaultEndpoint DEF from_string
<1>2. CASE HostAt(s) # {} /\ Resolve(s[i]) = "none"
  BY <1>2, DefaultEndpoint DEF from_string
<1>3. CASE HostAt(s) # {} /\ Resolve(s[i]) # "none"
  <2> HIDE DEF Token
  <2>1. \A k \in HostAt(s) : k \in 1..Len(s) /\ HostPortPath(From(s, k))
    <3> SUFFICES ASSUME NEW k \in HostAt(s) PROVE k \in 1..Len(s) /\ HostPortPath(From(s, k))
      OBVIOUS
    <3>1. HostPortPath(From(s, k)) /\ (k = 1 \/ k \in 4..Len(s))
      BY DEF HostAt
    <3>2. From(s, k) # << >>
      BY <3>1 DEF HostPortPath
    <3>3. CASE k = 1
      <4>1. Len(s) # 0
        <5> SUFFICES ASSUME Len(s) = 0 PROVE FALSE
          OBVIOUS
        <5>1. From(s, 1) = << >>
          BY SubSeqEmpty DEF From
        <5> QED BY <3>2, <3>3, <5>1
      <4> QED BY <1>0, <3>1, <3>3, <4>1
    <3>4. CASE k \in 4..Len(s)
      BY <1>0, <3>1, <3>4
    <3> QED BY <3>1, <3>3, <3>4
  <2>2. HostAt(s) \in SUBSET (1..Len(s))
    BY <2>1
  <2>3. \E m \in HostAt(s) : \A k \in HostAt(s) : k <= m
    BY <1>0, <1>3, <2>2, LastPlace
  <2>4. i \in HostAt(s)
    BY <2>3 DEF Host
  <2> HIDE DEF i
  <2>5. i \in 1..Len(s) /\ i + 1 \in 1..(Len(s) + 1) /\ HostPortPath(From(s, i))
    BY <1>0, <2>1, <2>4
  <2>6. rest \in Seq(Token) /\ Tail(From(s, i)) = rest
    BY <1>0, <2>5, FromAt, TailFrom
  <2> HIDE DEF rest
  <2>7. AfterPort(rest) = << >> \/ StartsWith(AfterPort(rest), Slash)
    BY <2>5, <2>6 DEF HostPortPath
  <2>8. AfterPort(rest) \in Seq(Token)
    <3>1. CASE HasPort(rest)
      <4>1. 3 \in 1..(Len(rest) + 1)
        BY <2>6, <3>1 DEF HasPort
      <4> QED BY <2>6, <3>1, <4>1, FromAt DEF AfterPort
    <3>2. CASE ~HasPort(rest)
      BY <2>6, <3>2 DEF AfterPort
    <3> QED BY <3>1, <3>2
  <2>9. Port(rest) \in 0..(U16 - 1) /\ \E v \in DOMAIN Digits : Digits[v] = Port(rest)
    <3>1. CASE HasPort(rest)
      <4>1. rest[2] \in DOMAIN Digits
        BY <3>1 DEF HasPort, IsNum
      <4>2. Digits[rest[2]] \in Nat
        BY <4>1, DigitsAssumption
      <4>3. Port(rest) = Digits[rest[2]] % U16
        BY <3>1 DEF Port
      <4>4. Digits[rest[2]] % U16 \in 0..(U16 - 1)
        <5> DEFINE d == Digits[rest[2]]
        <5>1. d \in Nat
          BY <4>2
        <5> HIDE DEF d
        <5>2. U16 \in Nat /\ U16 > 0
          BY DEF U16
        <5>3. ASSUME NEW n \in Nat, NEW m \in Nat, m > 0 PROVE n % m \in 0..(m - 1)
          BY <5>3
        <5>4. d % U16 \in 0..(U16 - 1)
          BY <5>1, <5>2, <5>3
        <5> QED BY <5>4 DEF d
      <4> QED BY <4>1, <4>3, <4>4, DigitsAssumption
    <3>2. CASE ~HasPort(rest)
      BY <3>2, DigitsAssumption DEF Port, U16
    <3> QED BY <3>1, <3>2
  <2>10. str2proto(Scheme(s)) \in Proto
    BY DEF str2proto, Proto
  <2>11. Resolve(s[i]) \in {a \in DOMAIN Lookup : a # "none" /\ Lookup[a] = a}
    BY <1>3, LookupAssumption DEF Resolve
  <2>12. from_string(s).ep = [proto |-> str2proto(Scheme(s)), address |-> Resolve(s[i]),
                              port |-> Port(rest), path |-> AfterPort(rest)]
    BY <1>3 DEF from_string, i, rest
  <2> QED BY <2>7, <2>8, <2>9, <2>10, <2>11, <2>12 DEF Endpoints
<1> QED BY <1>1, <1>2, <1>3

\* The parts to_string writes an endpoint from.
Parts(ep) ==
    [scheme |-> IF ep.proto = "unkown" THEN "none" ELSE ep.proto,
     host |-> ep.address, port |-> Decimal(ep.port), path |-> ep.path]

\* What they are: a plain URL, if the path has no "://", that means the endpoint.
LEMMA PartsMean ==
  ASSUME NEW ep \in Endpoints, ~HasSep(ep.path)
  PROVE  /\ Parts(ep) \in UrlType /\ Plain(Parts(ep)) /\ Lookup[Parts(ep).host] # "none"
         /\ Meant(Parts(ep)) = ep
         /\ Parts(ep).port # "none"
         /\ Parts(ep).scheme = "none" <=> ep.proto = "unkown"
<1> DEFINE u == Parts(ep)
<1>1. /\ ep.proto \in Proto
      /\ ep.address \in DOMAIN Lookup /\ ep.address # "none" /\ Lookup[ep.address] = ep.address
      /\ ep.port \in 0..(U16 - 1) /\ \E v \in DOMAIN Digits : Digits[v] = ep.port
      /\ ep.path \in Seq(Token) /\ (ep.path = << >> \/ StartsWith(ep.path, Slash))
  BY DEF Endpoints
<1>2. Decimal(ep.port) \in DOMAIN Digits /\ Digits[Decimal(ep.port)] = ep.port
  BY <1>1 DEF Decimal
<1>3. /\ u.scheme = (IF ep.proto = "unkown" THEN "none" ELSE ep.proto)
      /\ u.host = ep.address /\ u.port = Decimal(ep.port) /\ u.path = ep.path
      /\ u = [scheme |-> u.scheme, host |-> u.host, port |-> u.port, path |-> u.path]
  BY DEF Parts
<1>4. u.scheme \in Token /\ IsWord(u.scheme) /\ (u.scheme = "none" <=> ep.proto = "unkown")
  BY <1>1, <1>3 DEF Proto, Token, IsWord, Colon, Slash
<1>5. u.host \in Token /\ u.port \in Token /\ u.port # "none"
  BY <1>1, <1>2, <1>3, LookupAssumption, DigitsAssumption DEF Token
<1>6. u \in UrlType
  BY <1>1, <1>3, <1>4, <1>5 DEF UrlType
<1>7. Plain(u)
  <2>1. Digits[u.port] = ep.port /\ IsNum(u.port)
    BY <1>2, <1>3 DEF IsNum
  <2>2. ep.port < U16
    <3>1. U16 \in Nat
      BY DEF U16
    <3> QED BY <1>1, <3>1
  <2> QED BY <1>1, <1>3, <1>4, <2>1, <2>2 DEF Plain
<1>8. Meant(u) = ep
  <2>1. (IF u.scheme \in Proto THEN u.scheme ELSE "unkown") = ep.proto
    BY <1>1, <1>3 DEF Proto
  <2>2. (IF u.port = "none" THEN 0 ELSE Digits[u.port]) = ep.port
    BY <1>2, <1>3, <1>5
  <2>3. Lookup[u.host] = ep.address
    BY <1>1, <1>3
  <2>4. ep = [proto |-> ep.proto, address |-> ep.address, port |-> ep.port, path |-> ep.path]
    BY DEF Endpoints
  <2> QED BY <1>3, <2>1, <2>2, <2>3, <2>4 DEF Meant
<1> QED BY <1>1, <1>3, <1>4, <1>5, <1>6, <1>7, <1>8

\* to_string writes them.
LEMMA Printed ==
  ASSUME NEW ep \in Endpoints, ~HasSep(ep.path)
  PROVE  to_string(ep) = Written(Parts(ep))
<1> DEFINE X == IF ep.proto = "unkown" THEN << >> ELSE <<ep.proto>> \o Sep
           h == ep.address
           d == Decimal(ep.port)
           B == <<h>>
           C == <<Colon, d>>
<1>1. /\ Parts(ep).port # "none"
      /\ Parts(ep).scheme = "none" <=> ep.proto = "unkown"
      /\ Parts(ep) \in UrlType
  BY PartsMean
<1>2. /\ Parts(ep).host = h /\ Parts(ep).port = d /\ Parts(ep).path = ep.path
      /\ ep.proto # "unkown" => Parts(ep).scheme = ep.proto
  BY DEF Parts
<1>3. ep.proto \in Token /\ h \in Token /\ d \in Token /\ Colon \in Token
  BY <1>1, <1>2 DEF UrlType, Token, Endpoints
<1>4. X \in Seq(Token)
  <2> HIDE DEF Token
  <2>1. CASE ep.proto = "unkown"
    BY <2>1
  <2>2. CASE ep.proto # "unkown"
    <3> DEFINE F == <<ep.proto>>
    <3>1. F \in Seq(Token) /\ Sep \in Seq(Token)
      BY <1>3, SepTokens
    <3> HIDE DEF F
    <3>2. F \o Sep \in Seq(Token)
      BY ONLY <3>1, TwoParts
    <3> QED BY <2>2, <3>2 DEF F
  <2> QED BY <2>1, <2>2
<1>5. ASSUME NEW T, NEW a \in T, NEW b \in T, NEW c \in T
      PROVE  <<a, b, c>> = <<a>> \o <<b, c>> /\ <<a>> \in Seq(T) /\ <<b, c>> \in Seq(T)
  OBVIOUS
<1>6. <<h, Colon, d>> = B \o C /\ B \in Seq(Token) /\ C \in Seq(Token)
  <2> HIDE DEF Token, h, d
  <2> QED BY <1>3, <1>5
<1>7. to_string(ep) = X \o <<h, Colon, d>> \o ep.path
  BY DEF to_string
<1>8. Written(Parts(ep)) = X \o B \o C \o ep.path
  <2> DEFINE u == Parts(ep)
  <2> HIDE DEF u
  <2>1. Written(u) = (IF u.scheme = "none" THEN << >> ELSE <<u.scheme>> \o Sep) \o <<u.host>>
                       \o (IF u.port = "none" THEN << >> ELSE <<Colon, u.port>>) \o u.path
    BY DEF Written
  <2>2. (IF u.scheme = "none" THEN << >> ELSE <<u.scheme>> \o Sep) = X
    <3>1. CASE ep.proto = "unkown"
      <4>1. u.scheme = "none"
        BY <1>1, <3>1 DEF u
      <4> QED BY <3>1, <4>1
    <3>2. CASE ep.proto # "unkown"
      <4>1. u.scheme # "none" /\ u.scheme = ep.proto
        BY <1>1, <1>2, <3>2 DEF u
      <4> QED BY <3>2, <4>1
    <3> QED BY <3>1, <3>2
  <2>3. (IF u.port = "none" THEN << >> ELSE <<Colon, u.port>>) = C /\ <<u.host>> = B
    <3>1. u.port = d /\ u.port # "none" /\ u.host = h
      BY <1>1, <1>2 DEF u
    <3> HIDE DEF d, h
    <3> QED BY <3>1
  <2>4. u.path = ep.path
    BY <1>2 DEF u
  <2> QED BY <2>1, <2>2, <2>3, <2>4 DEF u
<1> HIDE DEF X, B, C, h, d, Token
<1>9. X \o (B \o C) = (X \o B) \o C
  <2>1. X \in Seq(Token) /\ B \in Seq(Token) /\ C \in Seq(Token)
    BY <1>4, <1>6
  <2> QED BY ONLY <2>1, ConcatAssociative
<1> QED BY <1>6, <1>7, <1>8, <1>9

\* from_string reads an endpoint back from what to_string writes.
LEMMA PrintReadBack ==
  ASSUME NEW ep \in Endpoints, ~HasSep(ep.path)
  PROVE  from_string(to_string(ep)) = [ec |-> "ok", ep |-> ep]
  BY PartsMean, Printed, ReadBack

-----------------------------------------------------------------------------
(* What a program has read and where its server is *)

EpInv ==
    /\ asked.ec = "none" \/ \E w \in UrlType : asked = Read(w)
    /\ asked.ep \in Endpoints
    /\ local_addr \in Endpoints

\* A URL of the program's is one of tokens.
LEMMA UrlTokens == ASSUME NEW w \in StartUrl \cup ReadableUrl PROVE w \in UrlType
<1>1. w \in [scheme : STRING, host : STRING, port : STRING, path : Seq(STRING)]
  BY UrlAssumption
<1>2. \A t \in STRING : t \in Token
  BY DEF Token
<1> HIDE DEF Token
<1>3. w.path \in Seq(STRING)
  BY <1>1
<1>4. w.path \in Seq(Token)
  <2>1. ASSUME NEW S, NEW T, \A t \in S : t \in T, NEW s \in Seq(S) PROVE s \in Seq(T)
    BY <2>1
  <2> QED BY <1>2, <1>3, <2>1
<1> QED BY <1>1, <1>2, <1>4 DEF UrlType

\* What is read of one is an endpoint.
LEMMA ReadEndpoint == ASSUME NEW w \in UrlType PROVE Read(w).ep \in Endpoints
<1>1. Written(w) \in Seq(Token)
  BY WrittenAt
<1>2. Read(w).ep = from_string(Written(w)).ep
  BY DEF Read
<1> QED BY <1>1, <1>2, ReadsEndpoint

\* The steps that change what was read or where the server is.
LEMMA EpStep ==
  ASSUME [Next]_vars
  PROVE  /\ \/ asked' = asked \/ asked' = NotAsked
            \/ \E w \in StartUrl \cup ReadableUrl : asked' = Read(w)
         /\ \/ local_addr' = local_addr \/ local_addr' = NoEndpoint
            \/ \E w \in StartUrl : local_addr' = Read(w).ep
            \/ local_addr' = [local_addr EXCEPT !.port = IF @ = 0 THEN RandomPort ELSE @]
<1> USE DEF vars, userVars, facadeVars
<1>1. CASE UNCHANGED vars
  BY <1>1
<1>2. CASE UserStep
  BY <1>2 DEF UserStep, ReadUrl, NewServer, goStart, goStartAfterFork, Shutdown, SetOption, LinkGroup,
              UnlinkGroup, DestroyGroup
<1>3. CASE CallStep
  BY <1>3 DEF CallStep, Refuse, CreateServer, AssignImpl, LinkImpl, StartImpl, WaitRecv, ReleaseImpl,
              DestroyBase
<1>4. ASSUME NEW i \in Impl, LoopEnds(i) \/ SessionBegins(i) \/ SessionEnds(i)
      PROVE  asked' = asked /\ local_addr' = local_addr
  BY <1>4 DEF LoopEnds, SessionBegins, SessionEnds
<1>5. ASSUME NEW o \in Object, DtorStep(o), UNCHANGED <<userVars, facadeVars, implVars, replaced>>
      PROVE  asked' = asked /\ local_addr' = local_addr
  BY <1>5
<1> QED BY <1>1, <1>2, <1>3, <1>4, <1>5 DEF Next

\* The address that bind gives a server is an endpoint.
LEMMA BoundEndpoint ==
  ASSUME NEW ep \in Endpoints
  PROVE  [ep EXCEPT !.port = IF @ = 0 THEN RandomPort ELSE @] \in Endpoints
<1>1. RandomPort \in {n \in 0..(U16 - 1) : \E v \in DOMAIN Digits : Digits[v] = n}
  <2>1. U16 \in Nat
    BY DEF U16
  <2>2. RandomPort \in 0..(U16 - 1)
    BY <2>1, ServerAssumption
  <2>3. \E v \in DOMAIN Digits : Digits[v] = RandomPort
    BY ServerAssumption
  <2> QED BY <2>2, <2>3
<1> QED BY <1>1 DEF Endpoints

\* EpInv is inductive, on any number of threads.
LEMMA EpNext == EpInv /\ [Next]_vars => EpInv'
<1> SUFFICES ASSUME EpInv, [Next]_vars PROVE EpInv'
  OBVIOUS
<1>1. asked'.ec = "none" \/ (\E w \in UrlType : asked' = Read(w))
  <2>1. CASE asked' = asked
    BY <2>1 DEF EpInv
  <2>2. CASE asked' = NotAsked
    BY <2>2 DEF NotAsked
  <2>3. CASE \E w \in StartUrl \cup ReadableUrl : asked' = Read(w)
    BY <2>3, UrlTokens
  <2> QED BY <2>1, <2>2, <2>3, EpStep
<1>2. asked'.ep \in Endpoints
  <2>1. CASE asked' = asked
    BY <2>1 DEF EpInv
  <2>2. CASE asked' = NotAsked
    BY <2>2, DefaultEndpoint DEF NotAsked
  <2>3. CASE \E w \in StartUrl \cup ReadableUrl : asked' = Read(w)
    BY <2>3, UrlTokens, ReadEndpoint
  <2> QED BY <2>1, <2>2, <2>3, EpStep
<1>3. local_addr' \in Endpoints
  <2>1. ASSUME NEW w \in StartUrl PROVE Read(w).ep \in Endpoints
    BY UrlTokens, ReadEndpoint
  <2> QED BY EpStep, <2>1, DefaultEndpoint, BoundEndpoint DEF EpInv
<1> QED BY <1>1, <1>2, <1>3 DEF EpInv

\* Whatever a program has read and wherever its server is, it is an endpoint.
LEMMA EndpointsOnly == Spec => []EpInv
<1>1. Init => EpInv
  BY DefaultEndpoint DEF Init, EpInv, NotAsked
<1> QED BY <1>1, EpNext, PTL DEF Spec

\* from_string reads a URL as the user wrote it: any number of tokens in the
\* path, any names, numbers and ports.
THEOREM ReadsWhatIsMeant == Spec => []ReadsAsWritten
<1>1. EpInv => ReadsAsWritten
  <2> SUFFICES ASSUME EpInv, asked.ec # "none", Plain(asked.url), Lookup[asked.url.host] # "none"
               PROVE  asked.ec = "ok" /\ asked.ep = Meant(asked.url)
    BY DEF ReadsAsWritten
  <2>1. PICK w \in UrlType : asked = Read(w)
    BY DEF EpInv
  <2>2. asked.url = w /\ asked.ec = from_string(Written(w)).ec /\ asked.ep = from_string(Written(w)).ep
    BY <2>1 DEF Read
  <2> QED BY <2>2, ReadBack
<1> QED BY EndpointsOnly, <1>1, PTL

\* What to_string prints of an endpoint that was read from a URL or that a server
\* listens at, from_string reads back.
THEOREM PrintsWhatItReads == Spec => []RoundTrip
<1>1. EpInv => RoundTrip
  BY PrintReadBack DEF EpInv, RoundTrip
<1> QED BY EndpointsOnly, <1>1, PTL
=============================================================================
