------------------------------ MODULE FatNode ------------------------------
(***************************************************************************)
(* The nodes of the fat model.  A node is a list of modifiers <<version,   *)
(* key, value>>; setting a key appends one.  A node that is full is        *)
(* replaced by a new revision of it that holds only the newest modifier of *)
(* each key.  Readers name the version they want.                          *)
(*                                                                         *)
(* A call that answers false without having changed anything is no action. *)
(***************************************************************************)
EXTENDS FatZone, SequencesExt

CONSTANTS
    Node,      \* FM_RT_NODE, a member of Types
    NodeLoad,  \* FM_NODE_LOAD: modifiers per node
    Keys,      \* the keys that are no reference, and references on strings
    Data,      \* the values that are no reference
    RefData,   \* BOUND: the references that are used as values
    Unset,     \* FM_DT_NONE
    Absent     \* of the promised store: no such node

ASSUME NodeAssumption ==
    /\ Node \in Types \ Sized
    /\ NodeLoad \in Nat \ {0}
    /\ RefData \subseteq Refs
    /\ Unset \notin Data /\ Unset \notin Refs /\ Data \cap Refs = {}

VARIABLES
    nodes,     \* the modifiers of the node at each reference, if there is one
    defect     \* history: the first thing the code did against its comments

vars == <<headVersion, currVersion, bsAddr, pages, knots, lastRefs, nodes, defect>>

Values == Data \cup RefData

Mod(ver, k, w) == [version |-> ver, key |-> k, value |-> w]

Mods == [version : Versions, key : Keys, value : Values \cup {Unset}]

Init ==
    /\ ZoneInit
    /\ nodes = [r \in Refs |-> <<>>]
    /\ defect = "none"

IsNode(r) == Allocated(r) /\ TypeOf(r) = Node

-----------------------------------------------------------------------------
(* Reading *)

(* _nodeFindMod, the outer loop: the first modifier that sets k, found
   before one that is too new. *)
FirstMod(ms, v, k, i) ==
    /\ ms[i].key = k /\ ms[i].value # Unset
    /\ \A j \in 1 .. i : ms[j].version <= v
    /\ \A j \in 1 .. i - 1 : ms[j].key = k => ms[j].value = Unset

(* The inner loop: from there on the last modifier of k before one that is
   too new.  It may unset the key. *)
FoundMod(ms, v, k, j) ==
    /\ ms[j].key = k
    /\ \E i \in 1 .. j :
         /\ FirstMod(ms, v, k, i)
         /\ \A m \in i .. j : ms[m].key = k => ms[m].version <= v
    /\ \A m \in j + 1 .. Len(ms) : ms[m].key = k =>
         \E l \in j + 1 .. m : ms[l].key = k /\ ms[l].version > v

FoundIn(ms, v, k) == {j \in 1 .. Len(ms) : FoundMod(ms, v, k, j)}

(* What the modifiers say of k in version v. *)
Stored(ms, v, k) ==
    IF FoundIn(ms, v, k) = {} THEN Unset
    ELSE ms[CHOOSE j \in FoundIn(ms, v, k) : TRUE].value

(* _nodeDeflate: the modifiers in force, one of each key that is set. *)
Deflated(ms, v) ==
    {m \in {ms[j] : j \in UNION {FoundIn(ms, v, k) : k \in Keys}} : m.value # Unset}

(* Mutant: the modifiers are left in any order. *)
SortedNot(S) == {s \in [1 .. Cardinality(S) -> S] : Range(s) = S}

(* _modSort: ordered by version; qsort leaves open in which order equal
   versions come. *)
Sorted(S) ==
    {s \in [1 .. Cardinality(S) -> S] :
        /\ Range(s) = S
        /\ \A i, j \in 1 .. Cardinality(S) : i < j => s[i].version <= s[j].version}

AtVersion(v) == IF v = VersionHead THEN headVersion ELSE v

(* The value as it was set: fm_nodeGet before it revises a reference. *)
Raw(r, v, k) ==
    LET n == Revise(r, v) IN
    IF v = VersionNone \/ n = BadRef THEN Unset
    ELSE Stored(nodes[n], AtVersion(v), k)

(* Mutant: a reference is read as it was set. *)
NodeGetAsSet(r, v, k) == Raw(r, v, k)

NodeGet(r, v, k) ==
    IF Raw(r, v, k) \in Refs THEN Revise(Raw(r, v, k), AtVersion(v))
    ELSE Raw(r, v, k)

-----------------------------------------------------------------------------
(* Writing *)

BeginTransaction == Begin /\ UNCHANGED <<nodes, defect>>

EndTransaction == End /\ UNCHANGED <<nodes, defect>>

NodeAlloc(new) ==
    /\ RefAlloc(Node, EditBSize[Node], new)
    /\ nodes' = [nodes EXCEPT ![new] = <<>>]
    /\ UNCHANGED defect

(* A reference as a value has to be valid, and not of this very node. *)
ValueAllowed(n, w) ==
    w \in Refs =>
        /\ Allocated(Revise(w, VersionHead))
        /\ Revise(w, VersionHead) # n

(* fm_nodeSet revises the reference it is given first: n is one of these. *)
Newest == {Revise(r, VersionHead) : r \in Refs}

Settable(n, w) ==
    /\ Transacting
    /\ IsNode(n)
    /\ ValueAllowed(n, w)
    /\ IsHead(n)

(* Mutant: the capacity is missed by one. *)
SetAppendOver(n, k, w) ==
    /\ Settable(n, w)
    /\ Len(nodes[n]) <= NodeLoad
    /\ nodes' = [nodes EXCEPT ![n] = Append(@, Mod(currVersion, k, w))]
    /\ UNCHANGED <<headVersion, currVersion, bsAddr, pages, knots, lastRefs, defect>>

SetAppend(n, k, w) ==
    /\ Settable(n, w)
    /\ Len(nodes[n]) < NodeLoad
    /\ nodes' = [nodes EXCEPT ![n] = Append(@, Mod(currVersion, k, w))]
    /\ UNCHANGED <<headVersion, currVersion, bsAddr, pages, knots, lastRefs, defect>>

(* The node n is full: what is in force goes to a new node. *)
Spilling(n, w) == Settable(n, w) /\ Len(nodes[n]) = NodeLoad

PlaceNew(new) ==
    /\ AllocPlace(Node, EditBSize[Node], new)
    /\ UNCHANGED <<headVersion, currVersion>>

Kept(n) == Deflated(nodes[n], currVersion)

Flat(n) == knots[n].version = currVersion

(* fm_refLink at the end of a spill.  A revision of the open transaction
   gets a successor of the same version: the assertion there fails. *)
LinkNew(n, new) ==
    knots' = Linked([knots EXCEPT ![new] = NewKnot], n, new)

(* Mutant: the full node is reduced as well. *)
SetSpillInPlace(n, k, w) ==
    /\ Spilling(n, w)
    /\ Cardinality(Kept(n)) < NodeLoad
    /\ \E new \in Refs, old \in Kept(n) :
         /\ old.key = k
         /\ PlaceNew(new)
         /\ \E s \in Sorted((Kept(n) \ {old}) \cup {Mod(currVersion, k, w)}) :
              nodes' = [nodes EXCEPT ![n] = s, ![new] = s]
         /\ LinkNew(n, new)
    /\ defect' = IF Flat(n) THEN "flat" ELSE defect

(* Mutant: only the version of the modifier is replaced. *)
SetSpillOldValue(n, k, w) ==
    /\ Spilling(n, w)
    /\ Cardinality(Kept(n)) < NodeLoad
    /\ \E new \in Refs, old \in Kept(n) :
         /\ old.key = k
         /\ PlaceNew(new)
         /\ \E s \in Sorted((Kept(n) \ {old}) \cup {Mod(currVersion, k, old.value)}) :
              nodes' = [nodes EXCEPT ![new] = s]
         /\ LinkNew(n, new)
    /\ defect' = IF Flat(n) THEN "flat" ELSE defect

(* The key is among those in force: its modifier is replaced. *)
SetSpillKnown(n, k, w) ==
    /\ Spilling(n, w)
    /\ Cardinality(Kept(n)) < NodeLoad
    /\ \E new \in Refs, old \in Kept(n) :
         /\ old.key = k
         /\ PlaceNew(new)
         /\ \E s \in Sorted((Kept(n) \ {old}) \cup {Mod(currVersion, k, w)}) :
              nodes' = [nodes EXCEPT ![new] = s]
         /\ LinkNew(n, new)
    /\ defect' = IF Flat(n) THEN "flat" ELSE defect

(* The key is new.  The modifier is written behind the others, but it is
   the count of the full node that goes up, beyond its capacity: what is
   counted there is no modifier, and only defect tells of it. *)
SetSpillNew(n, k, w) ==
    /\ Spilling(n, w)
    /\ Cardinality(Kept(n)) < NodeLoad
    /\ \A m \in Kept(n) : m.key # k
    /\ \E new \in Refs :
         /\ PlaceNew(new)
         /\ \E s \in Sorted(Kept(n)) : nodes' = [nodes EXCEPT ![new] = s]
         /\ LinkNew(n, new)
    /\ defect' = "overrun"

(* Too many unique keys: the new node is given back. *)
SetTooMany(n, w) ==
    /\ Spilling(n, w)
    /\ Cardinality(Kept(n)) = NodeLoad
    /\ \E new \in Refs : PlaceNew(new)
    /\ UNCHANGED <<knots, nodes, defect>>

(* fm_nodeDuplicate.  Asked for the head it takes the newest revision, one
   of the open transaction too, and reads it as of the last version. *)
NodeDuplicate(r, v) ==
    /\ Transacting
    /\ v # VersionNone
    /\ \E n \in {Revise(r, v)} :
         /\ IsNode(n)
         /\ \E new \in Refs :
              /\ RefAlloc(Node, EditBSize[Node], new)
              /\ \E copy \in Sorted(Deflated(nodes[n], AtVersion(v))) :
                   nodes' = [nodes EXCEPT ![new] = copy]
         /\ defect' = IF v = VersionHead /\ Flat(n) THEN "early" ELSE defect

Set(n, k, w) == SetAppend(n, k, w) \/ SetSpillKnown(n, k, w) \/ SetSpillNew(n, k, w)

Next ==
    \/ BeginTransaction
    \/ EndTransaction
    \/ \E new \in Refs : NodeAlloc(new)
    \/ \E n \in Newest, w \in Values \cup {Unset} :
         \/ \E k \in Keys : Set(n, k, w)
         \/ SetTooMany(n, w)
    \/ \E r \in Refs, v \in (1 .. currVersion) \cup {VersionHead} : NodeDuplicate(r, v)

Spec == Init /\ [][Next]_vars

-----------------------------------------------------------------------------
(* Properties *)

(* Nodes hold at most NodeLoad modifiers, but for the count that an overrun
   raises. *)
TypeOK ==
    /\ ZoneTypeOK
    /\ nodes \in [Refs -> Seq(Mods)]
    /\ \A r \in Refs : Len(nodes[r]) <= NodeLoad
    /\ defect \in {"none", "flat", "overrun", "early"}

(* _nodeCheck: the versions of a node's modifiers do not decrease, so a
   reader may stop at the first that is too new. *)
ModsInOrder ==
    \A r \in Refs : \A i, j \in 1 .. Len(nodes[r]) :
        i < j => nodes[r][i].version <= nodes[r][j].version

ASSUME AbsentAssumption == Absent \notin [Keys -> Values \cup {Unset}]

IsRoot(r) == Allocated(r) /\ knots[r].prev = BadRef

Latest == IF Transacting THEN currVersion ELSE headVersion

(* A node may be named by any of its revisions: whichever a caller kept, it
   reads the same in every version up to the open one. *)
AnyRevision ==
    defect = "none" =>
    \A r \in Refs : Allocated(r) /\ knots[r].next # BadRef =>
        \A v \in 1 .. Latest, k \in Keys : Raw(r, v, k) = Raw(knots[r].next, v, k)

(* fm_nodeGet: a reference that is read leads to an element in use, which is
   the newest revision of what was set that the version asked for may see. *)
ReferencesResolve ==
    defect = "none" =>
    \A r \in Refs, v \in 1 .. Latest, k \in Keys :
        Allocated(r) /\ Raw(r, v, k) \in Refs =>
            /\ Allocated(NodeGet(r, v, k))
            /\ NodeGet(r, v, k) \in Lineage(Raw(r, v, k))
            /\ knots[NodeGet(r, v, k)].version <= v
            /\ \A s \in Lineage(Raw(r, v, k)) :
                 knots[s].version <= v => knots[s].version <= knots[NodeGet(r, v, k)].version

Contents(r, v) ==
    IF IsRoot(r) /\ knots[r].version <= v THEN [k \in Keys |-> Raw(r, v, k)]
    ELSE Absent

Store == INSTANCE VersionedStore WITH
    Nodes <- Refs,
    open  <- Transacting,
    live  <- [r \in Refs |-> Contents(r, Latest)],
    past  <- [v \in 1 .. headVersion |-> [r \in Refs |-> Contents(r, v)]]

(* Up to the first defect the nodes are a versioned store: a set changes one
   key of one node, and what was committed never changes, spills included. *)
Versioned ==
    /\ Store!StoreInit
    /\ [][defect' = "none" => Store!StoreNext \/ UNCHANGED Store!storeVars]_vars

(* fm_nodeSet, appended or spilled: asked for the open version by the
   revision that was set, the key has the value that was just set and every
   other key the one it had. *)
SetIsSeen ==
    [][\A n \in Newest, k \in Keys, w \in Values \cup {Unset} :
          Set(n, k, w) /\ defect' = "none" =>
             \A l \in Keys :
                Raw(n, currVersion, l)' = IF l = k THEN w ELSE Raw(n, currVersion, l)]_vars

(* fm_core.cpp:1134, "if not => append the new kvp": a key that was set
   reads as set. *)
SetIsRead ==
    [][\A n \in Newest, k \in Keys, w \in Values \cup {Unset} :
          Set(n, k, w) /\ ~Flat(n) => Raw(n, currVersion, k)' = w]_vars

(* For the configurations: nothing is explored behind a defect. *)
Unspoiled == defect = "none"
=============================================================================
