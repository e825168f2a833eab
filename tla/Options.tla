------------------------------ MODULE Options ------------------------------
(***************************************************************************)
(* The tree of option objects of libgonet/option.h. A Server or Client     *)
(* links the object it makes; setters and Link carry options down the      *)
(* tree; a destructor takes its object out of it.                          *)
(*                                                                         *)
(* Each operation is one step, except the destructor: it tests parent_,    *)
(* calls Unlink on it and unlinks its children in steps of their own. On   *)
(* one thread nothing comes between them (OneThread): no coroutine yields  *)
(* in option.h.                                                            *)
(***************************************************************************)
CONSTANTS
    Object,     \* the option objects
    None,       \* the null pointer
    Key, Value, \* the options, and what they may be set to
    Default,    \* the value an option has in a new object
    OneThread   \* all objects are used and destroyed on one thread

ASSUME ObjectAssumption == None \notin Object
ASSUME DefaultAssumption == Default \in [Key -> Value]
ASSUME OneThreadAssumption == OneThread \in BOOLEAN

VARIABLES
    alive,        \* the objects that exist
    opt,          \* opt_
    parent, lnks, \* parent_, and lnks_ as a set: its order is never used
    own,          \* history: options set on the object itself since it was linked
    dtor,         \* where the object's destructor is, "no" if it does not run
    leaving       \* the parent whose Unlink a destructor is about to call

treeVars == <<alive, opt, parent, lnks, own, dtor, leaving>>

\* o and everything linked below it: the smallest set with o that is closed
\* under lnks_.
Closed(S) == \A a \in S : lnks[a] \subseteq S
Subtree(o) == {x \in Object : \A S \in SUBSET Object : o \in S /\ Closed(S) => x \in S}

\* No destructor runs, as far as the caller can tell.
Quiet == OneThread => \A o \in Object : dtor[o] = "no"

OptionsInit(existing) ==
    /\ alive = existing
    /\ opt = [o \in Object |-> Default]
    /\ parent = [o \in Object |-> None] /\ lnks = [o \in Object |-> {}]
    /\ own = [o \in Object |-> {}]
    /\ dtor = [o \in Object |-> "no"] /\ leaving = [o \in Object |-> None]

-----------------------------------------------------------------------------

\* A constructor: an object of its own, with the default options.
Construct(o) ==
    /\ o \notin alive
    /\ alive' = alive \cup {o}
    /\ UNCHANGED <<opt, parent, lnks, own, dtor, leaving>>

\* Mutant: OnLink does nothing.
InheritMutant(p, o) == [opt EXCEPT ![o] = opt[p]]

\* other.opt_ = this->opt_, and OnLink carries it on to all below.
Inherit(p, o) == [x \in Object |-> IF x \in Subtree(o) THEN opt[p] ELSE opt[x]]

\* p.Link(o). An object has one parent (the assertion in Link), and one that is
\* linked below itself would carry options round for ever.
Link(p, o) ==
    /\ {p, o} \subseteq alive /\ parent[o] = None /\ p \notin Subtree(o)
    /\ dtor[p] = "no" /\ dtor[o] = "no"
    /\ opt' = Inherit(p, o)
    /\ lnks' = [lnks EXCEPT ![p] = @ \cup {o}]
    /\ parent' = [parent EXCEPT ![o] = p]
    /\ own' = [x \in Object |-> IF x \in Subtree(o) THEN {} ELSE own[x]]
    /\ UNCHANGED <<alive, dtor, leaving>>

\* p.Unlink(o): the two pointers are forgotten, the options stay.
Unlink(p, o) ==
    /\ parent' = [parent EXCEPT ![o] = None]
    /\ lnks' = [lnks EXCEPT ![p] = @ \ {o}]

\* A setter of OptionsBase on o, for one option: o and all below get the value.
Set(o, k, v) ==
    /\ o \in alive /\ dtor[o] = "no"
    /\ opt' = [x \in Object |-> IF x \in Subtree(o) THEN [opt[x] EXCEPT ![k] = v] ELSE opt[x]]
    /\ own' = [x \in Object |-> IF x = o THEN own[x] \cup {k}
                                ELSE IF x \in Subtree(o) THEN own[x] \ {k} ELSE own[x]]
    /\ UNCHANGED <<alive, parent, lnks, dtor, leaving>>

-----------------------------------------------------------------------------
(* ~OptionsBase *)

\* The destructor begins: parent_ is tested.
Destroy(o) ==
    /\ o \in alive /\ dtor[o] = "no"
    /\ dtor' = [dtor EXCEPT ![o] = IF parent[o] = None THEN "children" ELSE "unlink"]
    /\ leaving' = [leaving EXCEPT ![o] = parent[o]]
    /\ UNCHANGED <<alive, opt, parent, lnks, own>>

\* parent_->Unlink(this).
DtorUnlink(o) ==
    /\ dtor[o] = "unlink"
    /\ Unlink(leaving[o], o)
    /\ dtor' = [dtor EXCEPT ![o] = "children"]
    /\ leaving' = [leaving EXCEPT ![o] = None]
    /\ UNCHANGED <<alive, opt, own>>

\* One turn of the loop over lnks_.
DtorChild(o) ==
    /\ dtor[o] = "children"
    /\ \E c \in lnks[o] : Unlink(o, c)
    /\ UNCHANGED <<alive, opt, own, dtor, leaving>>

\* The object is gone, and its options with it.
DtorEnd(o) ==
    /\ dtor[o] = "children" /\ lnks[o] = {}
    /\ alive' = alive \ {o}
    /\ dtor' = [dtor EXCEPT ![o] = "no"]
    /\ opt' = [opt EXCEPT ![o] = Default]
    /\ own' = [own EXCEPT ![o] = {}]
    /\ UNCHANGED <<parent, lnks, leaving>>

DtorStep(o) == DtorUnlink(o) \/ DtorChild(o) \/ DtorEnd(o)

-----------------------------------------------------------------------------
(* Properties *)

TreeType ==
    /\ alive \subseteq Object
    /\ opt \in [Object -> [Key -> Value]]
    /\ parent \in [Object -> Object \cup {None}]
    /\ lnks \in [Object -> SUBSET Object]
    /\ own \in [Object -> SUBSET Key]
    /\ dtor \in [Object -> {"no", "unlink", "children"}]
    /\ leaving \in [Object -> Object \cup {None}]

\* Parent and child know each other, and both exist: no pointer dangles.
Linked == \A p, o \in Object : o \in lnks[p] <=> parent[o] = p
NoDangling == \A o \in Object : parent[o] # None => o \in alive /\ parent[o] \in alive

\* On one thread, what a running destructor has read is still so.
DtorInv ==
    /\ \A o \in Object : dtor[o] # "no" => o \in alive
    /\ \A o \in Object : dtor[o] = "unlink" => leaving[o] # None /\ parent[o] = leaving[o]
    /\ \A o \in Object : dtor[o] = "children" => parent[o] = None
    /\ \A o, x \in Object : dtor[o] # "no" /\ dtor[x] # "no" => o = x

TreeInv == Linked /\ NoDangling /\ DtorInv

\* A linked object has its parent's options, except for those that were set on
\* the object itself since: whatever was set, linked and destroyed in between.
Agree ==
    \A o \in Object : parent[o] # None =>
        \A k \in Key \ own[o] : opt[o][k] = opt[parent[o]][k]

\* The assertion in Unlink, for both calls in the destructor: whoever is about
\* to be unlinked has the caller's object as its parent.
UnlinkAssert ==
    \A o \in Object :
        /\ dtor[o] = "unlink" => parent[o] = leaving[o]
        /\ dtor[o] = "children" => \A c \in lnks[o] : parent[c] = o
=============================================================================
