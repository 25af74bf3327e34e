--------------------------- MODULE FatNodeProofs ---------------------------
(***************************************************************************)
(* The nodes of the fat model for any number of keys, values, nodes and    *)
(* modifiers per node: no node outgrows its element, and the modifiers of  *)
(* each stay ordered by version, whatever is set, spilled and duplicated.  *)
(* A node keeps what it was set to at every version it was published in:   *)
(* its map implements the abstract store of VersionedStore.                *)
(***************************************************************************)
EXTENDS FatNode, FatZoneProofs, FiniteSetTheorems

(* What a list of modifiers is when versions up to v were ever opened. *)
Orderly(ms, v) ==
    /\ ms \in Seq(Mods)
    /\ Len(ms) <= NodeLoad
    /\ \A i \in 1 .. Len(ms) : ms[i].version <= v
    /\ \A i, j \in 1 .. Len(ms) : i < j => ms[i].version <= ms[j].version

(* The order of the lists is not inductive by itself: what is appended has
   the version of the transaction, so nothing may be of a later one. *)
NodeInv ==
    /\ ZoneInv
    /\ nodes \in [Refs -> Seq(Mods)]
    /\ \A r \in Refs : Orderly(nodes[r], Latest)
    /\ defect \in {"none", "flat", "overrun", "early"}

-----------------------------------------------------------------------------
(* Lists of modifiers *)

LEMMA ModsTyped ==
    ASSUME NEW m \in Mods
    PROVE  m.version \in Nat
BY SizesAssumption DEF Mods, Versions, VersionNone, SizesAssumption

LEMMA LaterIsOrderly ==
    ASSUME NEW ms, NEW v \in Nat, NEW w \in Nat, Orderly(ms, v), v <= w
    PROVE  Orderly(ms, w)
<1>1. \A i \in 1 .. Len(ms) : ms[i].version \in Nat
  BY ModsTyped, ElementOfSeq DEF Orderly
<1> QED
  BY <1>1 DEF Orderly

LEMMA EmptyIsOrderly ==
    ASSUME NEW v
    PROVE  Orderly(<<>>, v)
<1>1. <<>> \in Seq(Mods) /\ Len(<<>>) = 0
  BY EmptySeq
<1>2. NodeLoad \in Nat
  BY NodeAssumption DEF NodeAssumption
<1> QED
  BY <1>1, <1>2 DEF Orderly

LEMMA AppendedIsOrderly ==
    ASSUME NEW v \in Nat, NEW ms, Orderly(ms, v), Len(ms) < NodeLoad,
           NEW m \in Mods, m.version = v
    PROVE  Orderly(Append(ms, m), v)
<1> DEFINE s == Append(ms, m)
<1>1. ms \in Seq(Mods) /\ Len(ms) \in Nat /\ NodeLoad \in Nat
  BY LenProperties, NodeAssumption DEF Orderly, NodeAssumption
<1>2. /\ s \in Seq(Mods) /\ Len(s) = Len(ms) + 1
      /\ \A i \in 1 .. Len(ms) : s[i] = ms[i]
      /\ s[Len(ms) + 1] = m
  BY <1>1, AppendProperties
<1> HIDE DEF s
<1>3. \A i \in 1 .. Len(s) : s[i].version <= v
  BY <1>1, <1>2 DEF Orderly
<1>4. ASSUME NEW i \in 1 .. Len(s), NEW j \in 1 .. Len(s), i < j
      PROVE  s[i].version <= s[j].version
  <2>1. i \in 1 .. Len(ms)
    BY <1>1, <1>2, <1>4
  <2>2. CASE j = Len(ms) + 1
    BY <1>2, <1>3, <2>2
  <2>3. CASE j # Len(ms) + 1
    <3>1. j \in 1 .. Len(ms)
      BY <1>1, <1>2, <2>3
    <3> QED
      BY <1>2, <1>4, <2>1, <3>1 DEF Orderly
  <2> QED
    BY <2>2, <2>3
<1>5. Len(s) <= NodeLoad
  BY <1>1, <1>2
<1> QED
  BY <1>2, <1>3, <1>4, <1>5 DEF Orderly, s

(* A sorted list of a set of modifiers that fit into a node. *)
LEMMA SortedIsOrderly ==
    ASSUME NEW v, NEW S, S \subseteq Mods, IsFiniteSet(S), Cardinality(S) <= NodeLoad,
           \A m \in S : m.version <= v, NEW s \in Sorted(S)
    PROVE  Orderly(s, v)
<1>1. Cardinality(S) \in Nat
  BY FS_CardinalityType
<1>2. s \in [1 .. Cardinality(S) -> S]
  BY DEF Sorted
<1>3. s \in Seq(Mods) /\ Len(s) = Cardinality(S)
  BY <1>1, <1>2
<1>4. \A i \in 1 .. Len(s) : s[i] \in S
  BY <1>2, <1>3
<1> QED
  BY <1>3, <1>4 DEF Sorted, Orderly

(* What is in force in a list is no more than the list. *)
LEMMA DeflatedFits ==
    ASSUME NEW v, NEW u, NEW ms, Orderly(ms, v)
    PROVE  /\ Deflated(ms, u) \subseteq Mods
           /\ IsFiniteSet(Deflated(ms, u))
           /\ Cardinality(Deflated(ms, u)) \in Nat
           /\ Cardinality(Deflated(ms, u)) <= NodeLoad
           /\ \A m \in Deflated(ms, u) : m.version <= v
<1> DEFINE R == {ms[j] : j \in 1 .. Len(ms)}
<1>1. ms \in Seq(Mods) /\ Len(ms) \in Nat /\ Len(ms) <= NodeLoad /\ NodeLoad \in Nat
  BY LenProperties, NodeAssumption DEF Orderly, NodeAssumption
<1>2. Deflated(ms, u) \subseteq R
  BY DEF Deflated, FoundIn
<1>3. R \subseteq Mods /\ \A m \in R : m.version <= v
  BY <1>1, ElementOfSeq DEF Orderly
<1>4. IsFiniteSet(R) /\ Cardinality(R) \in Nat /\ Cardinality(R) <= Len(ms)
  <2>1. [j \in 1 .. Len(ms) |-> ms[j]] \in Surjection(1 .. Len(ms), R)
    BY DEF Surjection
  <2>2. IsFiniteSet(1 .. Len(ms)) /\ Cardinality(1 .. Len(ms)) = Len(ms)
    <3> DEFINE n == Len(ms)
    <3>0. n \in Int /\ 1 \in Int
      BY <1>1
    <3> HIDE DEF n
    <3>1. /\ IsFiniteSet(1 .. n)
          /\ Cardinality(1 .. n) = IF 1 > n THEN 0 ELSE n - 1 + 1
      BY <3>0, FS_Interval
    <3>2. (IF 1 > n THEN 0 ELSE n - 1 + 1) = n
      BY <1>1 DEF n
    <3> QED
      BY <3>1, <3>2 DEF n
  <2> QED
    BY <2>1, <2>2, FS_Surjection, FS_CardinalityType
<1>5. /\ IsFiniteSet(Deflated(ms, u))
      /\ Cardinality(Deflated(ms, u)) <= Cardinality(R)
      /\ Cardinality(Deflated(ms, u)) \in Nat
  BY <1>2, <1>4, FS_Subset, FS_CardinalityType
<1> HIDE DEF R
<1> QED
  BY <1>1, <1>2, <1>3, <1>4, <1>5

(* One of the modifiers in force is replaced. *)
LEMMA ReplacedFits ==
    ASSUME NEW S, IsFiniteSet(S), Cardinality(S) <= NodeLoad, NEW old \in S, NEW m
    PROVE  /\ IsFiniteSet((S \ {old}) \cup {m})
           /\ Cardinality((S \ {old}) \cup {m}) <= NodeLoad
<1>1. Cardinality(S) \in Nat /\ NodeLoad \in Nat
  BY FS_CardinalityType, NodeAssumption DEF NodeAssumption
<1>2. IsFiniteSet(S \ {old}) /\ Cardinality(S \ {old}) = Cardinality(S) - 1
  BY FS_RemoveElement
<1>3. IsFiniteSet((S \ {old}) \cup {m})
      /\ Cardinality((S \ {old}) \cup {m}) \in {Cardinality(S) - 1, Cardinality(S)}
  BY <1>1, <1>2, FS_AddElement
<1> QED
  BY <1>1, <1>3

-----------------------------------------------------------------------------
(* Steps *)

LEMMA LatestTyped ==
    ASSUME ZoneTypeOK
    PROVE  /\ headVersion \in Nat /\ currVersion \in Nat /\ Latest \in Nat
           /\ Transacting => Latest = currVersion /\ currVersion = headVersion + 1
<1>1. headVersion \in Nat /\ currVersion \in Nat
  BY SizesAssumption DEF ZoneTypeOK, Versions, VersionNone, SizesAssumption
<1> QED
  BY <1>1 DEF Latest, Transacting, ZoneTypeOK

LEMMA ModTyped ==
    ASSUME ZoneTypeOK, NEW k \in Keys, NEW w \in Values \cup {Unset}
    PROVE  /\ Mod(currVersion, k, w) \in Mods
           /\ Mod(currVersion, k, w).version = currVersion
BY DEF Mod, Mods, ZoneTypeOK

LEMMA NodeSizes ==
    Node \in Types /\ EditBSize[Node] \in SizesOf(Node) /\ EditBSize[Node] \in Nat
BY NodeAssumption, SizesAssumption DEF NodeAssumption, SizesAssumption, SizesOf

(* The versions of the zone stay, and one node gets other modifiers. *)
LEMMA OneNodeChanges ==
    ASSUME NodeInv, ZoneInv', UNCHANGED <<headVersion, currVersion>>,
           NEW r \in Refs, NEW ms, Orderly(ms, Latest), nodes' = [nodes EXCEPT ![r] = ms],
           defect' \in {"none", "flat", "overrun", "early"}
    PROVE  NodeInv'
<1>1. Latest' = Latest
  BY DEF Latest, Transacting
<1>2. ms \in Seq(Mods)
  BY DEF Orderly
<1>3. nodes' \in [Refs -> Seq(Mods)] /\ \A q \in Refs : nodes'[q] \in {nodes[q], ms}
  BY <1>2 DEF NodeInv
<1>4. \A q \in Refs : Orderly(nodes'[q], Latest)
  BY <1>3 DEF NodeInv
<1> QED
  BY <1>1, <1>3, <1>4 DEF NodeInv

(* What a spill does to the knots. *)
LEMMA SpillKeepsZone ==
    ASSUME ZoneInv, NEW n \in Refs, NEW new \in Refs, PlaceNew(new), LinkNew(n, new)
    PROVE  ZoneInv'
<1> DEFINE kn == [knots EXCEPT ![new] = NewKnot]
<1>1. ZoneTypeOK /\ knots \in [Refs -> Knots]
  BY DEF ZoneInv, ZoneTypeOK
<1>2. kn \in [Refs -> Knots] /\ \A s \in Refs : s # new => kn[s] = knots[s]
  BY <1>1, NewKnotTyped
<1>3. knots' = Linked(kn, n, new)
  BY DEF LinkNew
<1> HIDE DEF kn
<1>4. knots' \in [Refs -> Knots] /\ \A s \in Refs : s # new => knots'[s].version = knots[s].version
  BY <1>2, <1>3, LinkedKnots
<1> QED
  BY <1>4, NodeSizes, PlacingKeepsInv DEF PlaceNew

LEMMA NodeInitInv == Init => NodeInv
<1> SUFFICES ASSUME Init PROVE NodeInv
  OBVIOUS
<1>1. ZoneInv
  BY ZoneInitInv DEF Init
<1>2. <<>> \in Seq(Mods) /\ \A r \in Refs : Orderly(<<>>, Latest)
  BY EmptySeq, EmptyIsOrderly
<1> QED
  BY <1>1, <1>2 DEF Init, NodeInv

LEMMA SetStep ==
    ASSUME NodeInv, NEW n, NEW k \in Keys, NEW w \in Values \cup {Unset}, Set(n, k, w)
    PROVE  NodeInv'
<1> DEFINE mod == Mod(currVersion, k, w)
<1>1. /\ ZoneInv /\ ZoneTypeOK /\ nodes \in [Refs -> Seq(Mods)]
      /\ defect \in {"none", "flat", "overrun", "early"}
  BY DEF NodeInv, ZoneInv
<1>2. Settable(n, w)
  BY DEF Set, SetAppend, SetSpillKnown, SetSpillNew, Spilling
<1>3. n \in Refs /\ Transacting
  BY <1>2 DEF Settable, IsNode, Allocated
<1>4. Latest \in Nat /\ Latest = currVersion
  BY <1>1, <1>3, LatestTyped
<1>5. mod \in Mods /\ mod.version = Latest
  BY <1>1, <1>4, ModTyped
<1>6. Orderly(nodes[n], Latest)
  BY <1>3 DEF NodeInv
<1>7. /\ Kept(n) \subseteq Mods /\ IsFiniteSet(Kept(n))
      /\ Cardinality(Kept(n)) <= NodeLoad
      /\ \A m \in Kept(n) : m.version <= Latest
  BY <1>6, DeflatedFits DEF Kept
<1> HIDE DEF mod
<1>8. CASE SetAppend(n, k, w)
  <2>1. /\ Len(nodes[n]) < NodeLoad
        /\ nodes' = [nodes EXCEPT ![n] = Append(nodes[n], mod)]
        /\ UNCHANGED zoneVars /\ defect' = defect
    BY <1>8 DEF SetAppend, zoneVars, mod
  <2>2. ZoneInv'
    BY <1>1, <2>1, ZoneStep
  <2>3. Orderly(Append(nodes[n], mod), Latest)
    BY <1>4, <1>5, <1>6, <2>1, AppendedIsOrderly
  <2> QED
    BY <1>1, <1>3, <2>1, <2>2, <2>3, OneNodeChanges DEF zoneVars
<1>9. CASE SetSpillKnown(n, k, w)
  <2>1. PICK new \in Refs, old \in Kept(n) :
          /\ PlaceNew(new) /\ LinkNew(n, new)
          /\ \E s \in Sorted((Kept(n) \ {old}) \cup {mod}) :
               nodes' = [nodes EXCEPT ![new] = s]
    BY <1>9 DEF SetSpillKnown, mod
  <2>2. PICK s \in Sorted((Kept(n) \ {old}) \cup {mod}) : nodes' = [nodes EXCEPT ![new] = s]
    BY <2>1
  <2>3. /\ IsFiniteSet((Kept(n) \ {old}) \cup {mod})
        /\ Cardinality((Kept(n) \ {old}) \cup {mod}) <= NodeLoad
    BY <1>7, ReplacedFits
  <2>4. /\ (Kept(n) \ {old}) \cup {mod} \subseteq Mods
        /\ \A m \in (Kept(n) \ {old}) \cup {mod} : m.version <= Latest
    BY <1>4, <1>5, <1>7
  <2>5. Orderly(s, Latest)
    BY <2>3, <2>4, SortedIsOrderly
  <2>6. ZoneInv'
    BY <1>1, <1>3, <2>1, SpillKeepsZone
  <2>7. UNCHANGED <<headVersion, currVersion>> /\ defect' \in {defect, "flat"}
    BY <1>9, <2>1 DEF SetSpillKnown, PlaceNew
  <2> QED
    BY <1>1, <2>2, <2>5, <2>6, <2>7, OneNodeChanges
<1>10. CASE SetSpillNew(n, k, w)
  <2>1. PICK new \in Refs :
          /\ PlaceNew(new) /\ LinkNew(n, new)
          /\ \E s \in Sorted(Kept(n)) : nodes' = [nodes EXCEPT ![new] = s]
    BY <1>10 DEF SetSpillNew
  <2>2. PICK s \in Sorted(Kept(n)) : nodes' = [nodes EXCEPT ![new] = s]
    BY <2>1
  <2>3. Orderly(s, Latest)
    BY <1>7, SortedIsOrderly
  <2>4. ZoneInv'
    BY <1>1, <1>3, <2>1, SpillKeepsZone
  <2>5. UNCHANGED <<headVersion, currVersion>> /\ defect' = "overrun"
    BY <1>10, <2>1 DEF SetSpillNew, PlaceNew
  <2> QED
    BY <2>2, <2>3, <2>4, <2>5, OneNodeChanges
<1> QED
  BY <1>8, <1>9, <1>10 DEF Set

LEMMA NodeStep == NodeInv /\ [Next]_vars => NodeInv'
<1> SUFFICES ASSUME NodeInv, [Next]_vars PROVE NodeInv'
  OBVIOUS
<1>1. /\ ZoneInv /\ ZoneTypeOK /\ nodes \in [Refs -> Seq(Mods)]
      /\ defect \in {"none", "flat", "overrun", "early"}
  BY DEF NodeInv, ZoneInv
<1>2. headVersion \in Nat /\ currVersion \in Nat /\ Latest \in Nat
  BY <1>1, LatestTyped
<1>3. ASSUME UNCHANGED <<nodes, defect>>, ZoneInv', Latest' \in Nat, Latest <= Latest'
      PROVE  NodeInv'
  <2>1. \A r \in Refs : Orderly(nodes[r], Latest')
    BY <1>2, <1>3, LaterIsOrderly DEF NodeInv
  <2> QED
    BY <1>1, <1>3, <2>1 DEF NodeInv
<1>4. CASE UNCHANGED vars
  <2>1. UNCHANGED zoneVars /\ UNCHANGED <<nodes, defect>>
    BY <1>4 DEF vars, zoneVars
  <2>2. ZoneInv' /\ Latest' = Latest
    BY <1>1, <2>1, ZoneStep DEF zoneVars, Latest, Transacting
  <2> QED
    BY <1>2, <1>3, <2>1, <2>2
<1>5. CASE BeginTransaction
  <2>1. Begin /\ UNCHANGED <<nodes, defect>>
    BY <1>5 DEF BeginTransaction
  <2>2. ZoneInv'
    BY <1>1, <2>1, ZoneStep DEF ZoneCall
  <2>3. Latest' = headVersion + 1 /\ Latest = headVersion
    BY <1>2, <2>1 DEF Begin, Latest, Transacting, VersionNone
  <2> QED
    BY <1>2, <1>3, <2>1, <2>2, <2>3
<1>6. CASE EndTransaction
  <2>1. End /\ UNCHANGED <<nodes, defect>>
    BY <1>6 DEF EndTransaction
  <2>2. ZoneInv'
    BY <1>1, <2>1, ZoneStep DEF ZoneCall
  <2>3. Latest' = currVersion /\ Latest = currVersion
    BY <1>2, <2>1 DEF End, Latest, Transacting, VersionNone
  <2> QED
    BY <1>2, <1>3, <2>1, <2>2, <2>3
<1>7. ASSUME NEW new \in Refs, NodeAlloc(new) PROVE NodeInv'
  <2>1. /\ RefAlloc(Node, EditBSize[Node], new)
        /\ nodes' = [nodes EXCEPT ![new] = <<>>] /\ defect' = defect
    BY <1>7 DEF NodeAlloc
  <2>2. ZoneInv'
    BY <1>1, <2>1, NodeSizes, ZoneStep DEF ZoneCall
  <2>3. UNCHANGED <<headVersion, currVersion>>
    BY <2>1 DEF RefAlloc
  <2> QED
    BY <1>1, <2>1, <2>2, <2>3, EmptyIsOrderly, OneNodeChanges
<1>8. ASSUME NEW n, NEW w, SetTooMany(n, w) PROVE NodeInv'
  <2>1. PICK new \in Refs : PlaceNew(new)
    BY <1>8 DEF SetTooMany
  <2>2. UNCHANGED <<knots, nodes, defect>> /\ knots \in [Refs -> Knots]
    BY <1>1, <1>8 DEF SetTooMany, ZoneTypeOK
  <2>3. ZoneInv'
    BY <1>1, <2>1, <2>2, NodeSizes, PlacingKeepsInv DEF PlaceNew
  <2>4. Latest' = Latest
    BY <2>1 DEF PlaceNew, Latest, Transacting
  <2> QED
    BY <1>2, <1>3, <2>2, <2>3, <2>4
<1>9. ASSUME NEW r \in Refs, NEW v, NodeDuplicate(r, v) PROVE NodeInv'
  <2>1. PICK n \in {Revise(r, v)} :
          /\ IsNode(n)
          /\ \E new \in Refs :
               /\ RefAlloc(Node, EditBSize[Node], new)
               /\ \E copy \in Sorted(Deflated(nodes[n], AtVersion(v))) :
                    nodes' = [nodes EXCEPT ![new] = copy]
          /\ defect' \in {defect, "early"}
    BY <1>9 DEF NodeDuplicate
  <2>2. PICK new \in Refs :
          /\ RefAlloc(Node, EditBSize[Node], new)
          /\ \E copy \in Sorted(Deflated(nodes[n], AtVersion(v))) :
               nodes' = [nodes EXCEPT ![new] = copy]
    BY <2>1
  <2>3. PICK copy \in Sorted(Deflated(nodes[n], AtVersion(v))) :
          nodes' = [nodes EXCEPT ![new] = copy]
    BY <2>2
  <2>4. Orderly(nodes[n], Latest)
    BY <2>1 DEF NodeInv, IsNode, Allocated
  <2>5. Orderly(copy, Latest)
    BY <2>4, DeflatedFits, SortedIsOrderly
  <2>6. ZoneInv'
    BY <1>1, <2>2, NodeSizes, ZoneStep DEF ZoneCall
  <2>7. UNCHANGED <<headVersion, currVersion>>
    BY <2>2 DEF RefAlloc
  <2> QED
    BY <1>1, <2>1, <2>3, <2>5, <2>6, <2>7, OneNodeChanges
<1> QED
  BY <1>4, <1>5, <1>6, <1>7, <1>8, <1>9, SetStep DEF Next

LEMMA NodeInvHolds == Spec => []NodeInv
BY NodeInitInv, NodeStep, PTL DEF Spec

-----------------------------------------------------------------------------
(* Theorems *)

(* fm_nodeSet and fm_nodeDuplicate never give a node more modifiers than an
   fm_editNode has room for, however often and in whatever order nodes are
   set, spilled and copied: but for the one that the count of a full node
   goes up by when defect is overrun. *)
THEOREM NodeTypeCorrect == Spec => []TypeOK
<1>1. NodeInv => TypeOK
  BY DEF NodeInv, TypeOK, ZoneInv, Orderly
<1> QED
  BY <1>1, NodeInvHolds, PTL

(* _nodeCheck always holds: the versions of a node's modifiers never
   decrease, so a lookup may stop at the first that is too new. *)
THEOREM NodesOrdered == Spec => []ModsInOrder
<1>1. NodeInv => ModsInOrder
  BY DEF NodeInv, ModsInOrder, Orderly
<1> QED
  BY <1>1, NodeInvHolds, PTL

-----------------------------------------------------------------------------
(* What readers find *)

(* The references among the values of a list lead to elements in use, which
   are not newer than the modifier that names them. *)
Resolving(ms) ==
    \A j \in 1 .. Len(ms) : ms[j].value \in Refs =>
        Allocated(ms[j].value) /\ knots[ms[j].value].version <= ms[j].version

(* Up to the first defect: the revisions of a node are in order and are one
   list, and what nodes name is there. *)
ReadersInv ==
    /\ RevisionIntegrity /\ Listed
    /\ \A r \in Refs : knots[r].version <= Latest
    /\ \A r \in Refs : Resolving(nodes[r])

LEMMA LatestTypedNext == ZoneTypeOK' => (Latest \in Nat)'
<1>1. ZoneTypeOK => Latest \in Nat
  BY LatestTyped
<1> QED
  BY <1>1, PTL

(* What is found is of the list, and not newer than the version asked for. *)
LEMMA FoundIs ==
    ASSUME NEW u, NEW ms, Orderly(ms, u), NEW v, NEW k, NEW j \in FoundIn(ms, v, k)
    PROVE  j \in 1 .. Len(ms) /\ ms[j].key = k /\ ms[j].version <= v
<1>1. j \in 1 .. Len(ms) /\ FoundMod(ms, v, k, j)
  BY DEF FoundIn
<1>2. Len(ms) \in Nat /\ j \in Nat
  BY <1>1, LenProperties DEF Orderly
<1>3. ms[j].key = k
  BY <1>1 DEF FoundMod
<1>4. PICK i \in 1 .. j : \A m \in i .. j : ms[m].key = k => ms[m].version <= v
  BY <1>1 DEF FoundMod
<1>5. j \in i .. j
  BY <1>2, <1>4
<1> QED
  BY <1>1, <1>3, <1>4, <1>5

(* What is in use stays in use. *)
LEMMA ResolvingStays ==
    ASSUME NEW ms, Resolving(ms),
           \A s \in Refs : Allocated(s) =>
               Allocated(s)' /\ knots'[s].version = knots[s].version
    PROVE  Resolving(ms)'
BY DEF Resolving

(* A list made of the modifiers of another one, and of one more that is
   allowed. *)
LEMMA SortedResolves ==
    ASSUME NEW ms, Resolving(ms), NEW S, IsFiniteSet(S), NEW s \in Sorted(S),
           \A m \in S : \/ \E j \in 1 .. Len(ms) : m = ms[j]
                        \/ m.value \in Refs =>
                             Allocated(m.value) /\ knots[m.value].version <= m.version
    PROVE  Resolving(s)
<1>1. Cardinality(S) \in Nat
  BY FS_CardinalityType
<1>2. s \in [1 .. Cardinality(S) -> S]
  BY DEF Sorted
<1>3. Len(s) = Cardinality(S)
  BY <1>1, <1>2
<1>4. \A i \in 1 .. Len(s) : s[i] \in S
  BY <1>2, <1>3
<1>5. SUFFICES ASSUME NEW i \in 1 .. Len(s), s[i].value \in Refs
               PROVE  Allocated(s[i].value) /\ knots[s[i].value].version <= s[i].version
  BY DEF Resolving
<1>6. PICK m \in S : s[i] = m
  BY <1>4
<1>7. CASE \E j \in 1 .. Len(ms) : m = ms[j]
  BY <1>5, <1>6, <1>7 DEF Resolving
<1>8. CASE m.value \in Refs =>
             Allocated(m.value) /\ knots[m.value].version <= m.version
  BY <1>5, <1>6, <1>8
<1> QED
  BY <1>7, <1>8

LEMMA DeflatedOf ==
    ASSUME NEW ms, NEW v, NEW m \in Deflated(ms, v)
    PROVE  \E j \in 1 .. Len(ms) : m = ms[j]
BY DEF Deflated, FoundIn

(* One node gets other modifiers, and no other a knot of another version. *)
LEMMA OneNodeReads ==
    ASSUME ReadersInv, NodeInv, RevisionIntegrity', Listed',
           UNCHANGED <<headVersion, currVersion>>, NEW r \in Refs, NEW ms,
           nodes' = [nodes EXCEPT ![r] = ms],
           \A s \in Refs : Allocated(s) =>
               Allocated(s)' /\ knots'[s].version = knots[s].version,
           \A s \in Refs : knots'[s].version \in {knots[s].version, Latest},
           Resolving(ms)
    PROVE  ReadersInv'
<1>1. Latest' = Latest /\ Latest \in Nat
  BY LatestTyped DEF Latest, Transacting, NodeInv, ZoneInv
<1>2. nodes'[r] = ms /\ \A s \in Refs : s # r => nodes'[s] = nodes[s]
  BY DEF NodeInv
<1>3. \A s \in Refs : knots'[s].version <= Latest'
  BY <1>1 DEF ReadersInv
<1>4. ASSUME NEW s \in Refs PROVE Resolving(nodes[s])'
  <2>1. PICK l : l = nodes'[s]
    OBVIOUS
  <2>2. Resolving(l)
    BY <1>2, <2>1 DEF ReadersInv
  <2>3. \A j \in 1 .. Len(l) : l[j].value \in Refs =>
          Allocated(l[j].value)' /\ knots'[l[j].value].version <= l[j].version
    BY <2>2 DEF Resolving
  <2> QED
    BY <2>1, <2>3 DEF Resolving
<1> QED
  BY <1>3, <1>4 DEF ReadersInv

(* Nothing happens to knots and nodes. *)
LEMMA SameReads ==
    ASSUME ReadersInv, NodeInv, UNCHANGED <<knots, pages, nodes>>,
           Latest' \in Nat, Latest <= Latest'
    PROVE  ReadersInv'
<1>1. RevisionIntegrity' /\ Listed' /\ \A r \in Refs : Resolving(nodes[r])'
  BY DEF ReadersInv, RevisionIntegrity, Listed, InList, Allocated, PageOf, Resolving
<1>2. \A r \in Refs : knots[r].version \in Nat /\ knots[r].version <= Latest
  BY KnotTyped DEF ReadersInv, NodeInv
<1>3. Latest \in Nat
  BY LatestTyped DEF NodeInv, ZoneInv
<1>4. \A r \in Refs : knots[r].version <= Latest'
  BY <1>2, <1>3
<1> QED
  BY <1>1, <1>4 DEF ReadersInv

LEMMA EmptyResolves == Resolving(<<>>)
<1>1. PICK e : e = <<>>
  OBVIOUS
<1>2. 1 .. Len(e) = {}
  BY <1>1, EmptySeq
<1> QED
  BY <1>1, <1>2 DEF Resolving

LEMMA ReadersInit == Init => ReadersInv
<1> SUFFICES ASSUME Init PROVE ReadersInv
  OBVIOUS
<1>1. /\ knots = [r \in Refs |-> FreeKnot] /\ nodes = [r \in Refs |-> <<>>]
      /\ headVersion = VersionNone /\ currVersion = VersionNone
  BY DEF Init, ZoneInit
<1>2. /\ \A r \in Refs : knots[r].version = VersionNone /\ nodes[r] = <<>>
      /\ Latest = VersionNone
  BY <1>1 DEF FreeKnot, Latest, Transacting
<1>3. RevisionIntegrity /\ Listed
  BY <1>2 DEF RevisionIntegrity, Listed, Allocated
<1>4. VersionNone <= VersionNone
  BY DEF VersionNone
<1> QED
  BY <1>2, <1>3, <1>4, EmptyResolves DEF ReadersInv

(* What is set may be read: a reference among the values leads to what is in
   use. *)
LEMMA SettableIs ==
    ASSUME NodeInv, ReadersInv, NEW n, NEW w, Settable(n, w)
    PROVE  /\ n \in Refs /\ Allocated(n) /\ IsHead(n) /\ ZoneInv /\ ZoneTypeOK
           /\ Latest = currVersion /\ currVersion \in Nat
           /\ Orderly(nodes[n], currVersion)
           /\ knots[n].version \in Nat /\ knots[n].version <= currVersion
           /\ w \in Refs => Allocated(w) /\ knots[w].version <= currVersion
<1>1. /\ n \in Refs /\ Allocated(n) /\ IsHead(n) /\ Transacting /\ ZoneInv /\ ZoneTypeOK
  BY DEF Settable, IsNode, Allocated, NodeInv, ZoneInv
<1>2. Latest = currVersion /\ currVersion \in Nat
  BY <1>1, LatestTyped
<1>3. w \in Refs => Allocated(w)
  <2>1. w \in Refs => Allocated(Revise(w, VersionHead))
    BY DEF Settable, ValueAllowed
  <2>2. ~Allocated(w) => Revise(w, VersionHead) = BadRef
    BY DEF Revise
  <2>3. ~Allocated(BadRef)
    BY BadIsNone DEF Allocated
  <2> QED
    BY <2>1, <2>2, <2>3
<1> QED
  BY <1>1, <1>2, <1>3, KnotTyped DEF ReadersInv, NodeInv

LEMMA SetReads ==
    ASSUME NodeInv, ReadersInv, NEW n, NEW k \in Keys, NEW w \in Values \cup {Unset},
           Set(n, k, w), defect = "none", defect' = "none"
    PROVE  ReadersInv'
<1> DEFINE mod == Mod(currVersion, k, w)
<1>1. Settable(n, w)
  BY DEF Set, SetAppend, SetSpillKnown, SetSpillNew, Spilling
<1>2. /\ n \in Refs /\ Allocated(n) /\ IsHead(n) /\ ZoneInv /\ ZoneTypeOK
      /\ Latest = currVersion /\ currVersion \in Nat
      /\ Orderly(nodes[n], currVersion)
      /\ knots[n].version \in Nat /\ knots[n].version <= currVersion
      /\ w \in Refs => Allocated(w) /\ knots[w].version <= currVersion
  BY <1>1, SettableIs
<1>3. RevisionIntegrity /\ Listed /\ Resolving(nodes[n])
  BY <1>2 DEF ReadersInv
<1>4. mod.version = currVersion /\ mod.value = w /\ mod \in Mods
  BY <1>2, ModTyped DEF Mod
<1> HIDE DEF mod
<1>5. CASE SetAppend(n, k, w)
  <2>1. /\ Len(nodes[n]) < NodeLoad
        /\ nodes' = [nodes EXCEPT ![n] = Append(nodes[n], mod)]
        /\ UNCHANGED zoneVars
    BY <1>5 DEF SetAppend, zoneVars, mod
  <2>2. PICK ms : ms = Append(nodes[n], mod)
    OBVIOUS
  <2>3. nodes[n] \in Seq(Mods) /\ Len(nodes[n]) \in Nat
    BY <1>2, LenProperties DEF Orderly
  <2>4. /\ Len(ms) = Len(nodes[n]) + 1
        /\ \A j \in 1 .. Len(nodes[n]) : ms[j] = nodes[n][j]
        /\ ms[Len(nodes[n]) + 1] = mod
    BY <1>4, <2>2, <2>3, AppendProperties
  <2>5. \A j \in 1 .. Len(ms) : j \in 1 .. Len(nodes[n]) \/ j = Len(nodes[n]) + 1
    BY <2>3, <2>4
  <2>6. Resolving(ms)
    BY <1>2, <1>3, <1>4, <2>4, <2>5 DEF Resolving
  <2>7. RevisionIntegrity' /\ Listed'
    BY <1>3, <2>1 DEF zoneVars, RevisionIntegrity, Listed, InList, Allocated, PageOf
  <2>8. /\ knots' = knots /\ UNCHANGED <<headVersion, currVersion>>
        /\ \A s \in Refs : Allocated(s)' <=> Allocated(s)
    BY <2>1 DEF zoneVars, Allocated, PageOf
  <2>9. nodes' = [nodes EXCEPT ![n] = ms]
    BY <2>1, <2>2
  <2> QED
    BY <1>2, <2>6, <2>7, <2>8, <2>9, OneNodeReads
<1>6. CASE SetSpillKnown(n, k, w)
  <2>1. PICK new \in Refs, old \in Kept(n) :
          /\ PlaceNew(new) /\ LinkNew(n, new)
          /\ \E s \in Sorted((Kept(n) \ {old}) \cup {mod}) :
               nodes' = [nodes EXCEPT ![new] = s]
    BY <1>6 DEF SetSpillKnown, mod
  <2>2. PICK s \in Sorted((Kept(n) \ {old}) \cup {mod}) : nodes' = [nodes EXCEPT ![new] = s]
    BY <2>1
  <2>3. ~Flat(n)
    BY <1>6 DEF SetSpillKnown
  <2>4. IsFiniteSet((Kept(n) \ {old}) \cup {mod})
    BY <1>2, DeflatedFits, ReplacedFits DEF Kept
  <2>5. Resolving(s)
    <3>1. ASSUME NEW m \in (Kept(n) \ {old}) \cup {mod}
          PROVE  \/ \E j \in 1 .. Len(nodes[n]) : m = nodes[n][j]
                 \/ m.value \in Refs =>
                      Allocated(m.value) /\ knots[m.value].version <= m.version
      <4>1. CASE m = mod
        BY <1>2, <1>4, <4>1
      <4>2. CASE m # mod
        BY <4>2, DeflatedOf DEF Kept
      <4> QED
        BY <4>1, <4>2
    <3> QED
      BY <1>3, <2>4, <3>1, SortedResolves
  <2>6. /\ AllocPlace(Node, EditBSize[Node], new) /\ PlacedNext(n, new)
        /\ UNCHANGED <<headVersion, currVersion>>
    BY <2>1 DEF PlaceNew, LinkNew, PlacedNext
  <2>7. knots[n].version < currVersion
    BY <1>2, <2>3 DEF Flat
  <2>8. RevisionIntegrity' /\ Listed'
    BY <1>2, <1>3, <2>6, <2>7, NodeSizes, PlacedNextListed
  <2>9. /\ \A q \in Refs : q # new => knots'[q].version = knots[q].version
        /\ knots'[new].version = currVersion
        /\ \A q \in Refs : Allocated(q)' <=> Allocated(q) \/ q = new
    BY <1>2, <2>6, NodeSizes, PlacedNextKnots
  <2>10. ~Allocated(new)
    BY <1>2, <2>6, NodeSizes, AllocFindsFree
  <2> QED
    BY <1>2, <2>2, <2>5, <2>6, <2>8, <2>9, <2>10, OneNodeReads
<1>7. CASE SetSpillNew(n, k, w)
  BY <1>7 DEF SetSpillNew
<1> QED
  BY <1>5, <1>6, <1>7 DEF Set

(* An element without a revision comes into use. *)
LEMMA AllocReads ==
    ASSUME NodeInv, ReadersInv, NEW new \in Refs, RefAlloc(Node, EditBSize[Node], new),
           NEW s, nodes' = [nodes EXCEPT ![new] = s], Resolving(s)
    PROVE  ReadersInv'
<1>1. /\ AllocPlace(Node, EditBSize[Node], new) /\ Placed(new)
      /\ UNCHANGED <<headVersion, currVersion>>
  BY DEF RefAlloc, Placed
<1>2. ZoneInv /\ ZoneTypeOK /\ Transacting
  BY <1>1 DEF NodeInv, ZoneInv, AllocPlace
<1>3. currVersion \in Nat /\ Latest = currVersion
  BY <1>2, LatestTyped
<1>4. RevisionIntegrity' /\ Listed'
  BY <1>1, <1>2, NodeSizes, PlacedListed DEF ReadersInv
<1>5. /\ \A q \in Refs : q # new => knots'[q] = knots[q]
      /\ knots'[new].version = currVersion
      /\ \A q \in Refs : Allocated(q)' <=> Allocated(q) \/ q = new
  BY <1>1, <1>2, NodeSizes, PlacedKnots
<1>6. ~Allocated(new)
  BY <1>1, <1>2, NodeSizes, AllocFindsFree
<1> QED
  BY <1>1, <1>3, <1>4, <1>5, <1>6, OneNodeReads

LEMMA ReadersStep ==
    ASSUME NodeInv, NodeInv', defect = "none" => ReadersInv, [Next]_vars
    PROVE  (defect = "none" => ReadersInv)'
<1>1. SUFFICES ASSUME defect' = "none" PROVE ReadersInv'
  OBVIOUS
<1>2. defect = "none"
  BY <1>1 DEF Next, vars, BeginTransaction, EndTransaction, NodeAlloc, Set, SetAppend,
              SetSpillKnown, SetSpillNew, SetTooMany, NodeDuplicate
<1>3. /\ ReadersInv /\ ZoneInv /\ ZoneTypeOK /\ Latest \in Nat /\ Latest' \in Nat
      /\ headVersion \in Nat /\ currVersion \in Nat
  <2>1. ZoneTypeOK /\ ZoneTypeOK'
    BY DEF NodeInv, ZoneInv
  <2> QED
    BY <1>2, <2>1, LatestTyped, LatestTypedNext DEF NodeInv, ZoneInv
<1>4. CASE UNCHANGED vars
  <2>1. UNCHANGED <<knots, pages, nodes>> /\ Latest' = Latest
    BY <1>4 DEF vars, Latest, Transacting
  <2> QED
    BY <1>3, <2>1, SameReads
<1>5. CASE BeginTransaction
  <2>1. UNCHANGED <<knots, pages, nodes>> /\ Latest' = headVersion + 1 /\ Latest = headVersion
    BY <1>3, <1>5 DEF BeginTransaction, Begin, Latest, Transacting, VersionNone
  <2> QED
    BY <1>3, <2>1, SameReads
<1>6. CASE EndTransaction
  <2>1. UNCHANGED <<knots, pages, nodes>> /\ Latest' = currVersion /\ Latest = currVersion
    BY <1>3, <1>6 DEF EndTransaction, End, Latest, Transacting, VersionNone
  <2> QED
    BY <1>3, <2>1, SameReads
<1>7. ASSUME NEW new \in Refs, NodeAlloc(new) PROVE ReadersInv'
  BY <1>3, <1>7, EmptyResolves, AllocReads DEF NodeAlloc
<1>8. ASSUME NEW n, NEW w, SetTooMany(n, w) PROVE ReadersInv'
  <2>1. PICK new \in Refs : PlaceNew(new)
    BY <1>8 DEF SetTooMany
  <2>2. UNCHANGED <<knots, nodes>>
    BY <1>8 DEF SetTooMany
  <2>3. AllocPlace(Node, EditBSize[Node], new) /\ UNCHANGED <<headVersion, currVersion>>
    BY <2>1 DEF PlaceNew
  <2>4. RevisionIntegrity' /\ Listed'
    BY <1>3, <2>2, <2>3, NodeSizes, PlacedListed DEF ReadersInv
  <2>5. /\ Latest' = Latest /\ \A s \in Refs : Allocated(s)' <=> Allocated(s)
    BY <1>3, <2>2, <2>3, NodeSizes, PlacedKnots DEF Latest, Transacting
  <2>6. \A r \in Refs : Resolving(nodes[r])'
    BY <1>3, <2>2, <2>5 DEF ReadersInv, Resolving
  <2> QED
    BY <1>3, <2>2, <2>4, <2>5, <2>6 DEF ReadersInv
<1>9. ASSUME NEW r \in Refs, NEW v, NodeDuplicate(r, v) PROVE ReadersInv'
  <2>1. PICK n \in {Revise(r, v)} :
          /\ IsNode(n)
          /\ \E new \in Refs :
               /\ RefAlloc(Node, EditBSize[Node], new)
               /\ \E copy \in Sorted(Deflated(nodes[n], AtVersion(v))) :
                    nodes' = [nodes EXCEPT ![new] = copy]
    BY <1>9 DEF NodeDuplicate
  <2>2. PICK new \in Refs :
          /\ RefAlloc(Node, EditBSize[Node], new)
          /\ \E copy \in Sorted(Deflated(nodes[n], AtVersion(v))) :
               nodes' = [nodes EXCEPT ![new] = copy]
    BY <2>1
  <2>3. PICK copy \in Sorted(Deflated(nodes[n], AtVersion(v))) :
          nodes' = [nodes EXCEPT ![new] = copy]
    BY <2>2
  <2>4. n \in Refs /\ Orderly(nodes[n], Latest) /\ Resolving(nodes[n])
    BY <1>3, <2>1 DEF NodeInv, IsNode, Allocated, ReadersInv
  <2>5. IsFiniteSet(Deflated(nodes[n], AtVersion(v)))
    BY <2>4, DeflatedFits
  <2>6. Resolving(copy)
    BY <2>4, <2>5, DeflatedOf, SortedResolves
  <2> QED
    BY <1>3, <2>2, <2>3, <2>6, AllocReads
<1>10. ASSUME NEW n, NEW k \in Keys, NEW w \in Values \cup {Unset}, Set(n, k, w)
       PROVE  ReadersInv'
  BY <1>1, <1>2, <1>3, <1>10, SetReads
<1> QED
  BY <1>4, <1>5, <1>6, <1>7, <1>8, <1>9, <1>10 DEF Next

LEMMA ReadersHold == Spec => [](NodeInv /\ (defect = "none" => ReadersInv))
<1>1. Init => NodeInv /\ (defect = "none" => ReadersInv)
  BY NodeInitInv, ReadersInit
<1>2. NodeInv /\ (defect = "none" => ReadersInv) /\ [Next]_vars
        => NodeInv' /\ (defect = "none" => ReadersInv)'
  BY NodeStep, ReadersStep
<1> QED
  BY <1>1, <1>2, PTL DEF Spec

(* fm_nodeGet may be given any revision of a node: whichever it is, until the
   first defect, it reads the same in every version up to the open one. *)
THEOREM RevisionsAgree == Spec => []AnyRevision
<1>1. NodeInv /\ (defect = "none" => ReadersInv) => AnyRevision
  <2> SUFFICES ASSUME NodeInv, ReadersInv, NEW r \in Refs, Allocated(r),
                      knots[r].next # BadRef, NEW v \in 1 .. Latest, NEW k \in Keys
               PROVE  Raw(r, v, k) = Raw(knots[r].next, v, k)
    BY DEF AnyRevision
  <2>1. ZoneInv /\ RevisionIntegrity /\ InList(r)
    BY DEF NodeInv, ReadersInv, Listed
  <2>2. PICK n : n = knots[r].next
    OBVIOUS
  <2>3. n \in Refs /\ knots[n].prev = r
    BY <2>1, <2>2, KnotTyped DEF InList
  <2>4. v \in Int
    BY LatestTyped DEF NodeInv, ZoneInv
  <2>5. Revise(r, v) = Revise(n, v)
    BY <2>1, <2>2, <2>3, <2>4, NeighboursRevise
  <2> QED
    BY <2>2, <2>5 DEF Raw
<1> QED
  BY <1>1, ReadersHold, PTL

(* fm_nodeGet never comes to nothing by a reference that is a value, nor to a
   revision that another one supersedes: until the first defect what the
   reference leads to is in use, a revision of what was set, not newer than
   the version that is read, and the newest of those. *)
THEOREM ReferencesLead == Spec => []ReferencesResolve
<1>1. NodeInv /\ (defect = "none" => ReadersInv) => ReferencesResolve
  <2> SUFFICES ASSUME NodeInv, ReadersInv, NEW r \in Refs, NEW v \in 1 .. Latest,
                      NEW k \in Keys, Allocated(r), Raw(r, v, k) \in Refs
               PROVE  /\ Allocated(NodeGet(r, v, k))
                      /\ NodeGet(r, v, k) \in Lineage(Raw(r, v, k))
                      /\ knots[NodeGet(r, v, k)].version <= v
                      /\ \A s \in Lineage(Raw(r, v, k)) : knots[s].version <= v =>
                           knots[s].version <= knots[NodeGet(r, v, k)].version
    BY DEF ReferencesResolve
  <2>1. ZoneInv /\ ZoneTypeOK /\ RevisionIntegrity
    BY DEF NodeInv, ReadersInv, ZoneInv
  <2>2. v \in Int /\ v # VersionHead /\ v \in 1 .. VersionHead
    <3>1. Latest \in Nat /\ VersionHead \in Nat /\ Latest < VersionHead
      BY <2>1, LatestTyped, SizesAssumption
      DEF ZoneTypeOK, Versions, VersionNone, Latest, SizesAssumption
    <3> QED
      BY <3>1
  <2>3. AtVersion(v) = v
    BY <2>2 DEF AtVersion
  <2>4. PICK n : n = Revise(r, v)
    OBVIOUS
  <2>5. Unset \notin Refs
    BY NodeAssumption DEF NodeAssumption
  <2>6. n # BadRef /\ Raw(r, v, k) = Stored(nodes[n], v, k)
    BY <2>3, <2>4, <2>5 DEF Raw
  <2>7. Allocated(n) /\ n \in Refs
    BY <2>1, <2>2, <2>4, <2>6, ReviseFinds DEF Allocated
  <2>8. PICK j \in FoundIn(nodes[n], v, k) : Raw(r, v, k) = nodes[n][j].value
    BY <2>5, <2>6 DEF Stored
  <2>9. Orderly(nodes[n], Latest) /\ Resolving(nodes[n])
    BY <2>7 DEF NodeInv, ReadersInv
  <2>10. j \in 1 .. Len(nodes[n]) /\ nodes[n][j].version <= v
    BY <2>9, FoundIs
  <2>11. PICK w : w = Raw(r, v, k)
    OBVIOUS
  <2>12. w \in Refs /\ Allocated(w) /\ knots[w].version <= nodes[n][j].version
    BY <2>8, <2>9, <2>10, <2>11 DEF Resolving
  <2>13. nodes[n][j].version \in Nat /\ knots[w].version \in Nat
    BY <2>1, <2>9, <2>10, <2>12, ModsTyped, ElementOfSeq, KnotTyped DEF Orderly
  <2>14. knots[w].version <= v
    BY <2>2, <2>10, <2>12, <2>13
  <2>15. NodeGet(r, v, k) = Revise(w, v)
    BY <2>3, <2>11, <2>12 DEF NodeGet
  <2>16. w \in Lineage(w)
    BY <2>12 DEF Lineage
  <2>17. InList(w) /\ ReviseExact
    BY <2>1, <2>12, ExactInLists, ListedInv DEF ReadersInv, Listed
  <2>18. /\ Revise(w, v) \in Lineage(w) /\ knots[Revise(w, v)].version <= v
         /\ \A s \in Lineage(w) : knots[s].version <= v =>
              knots[s].version <= knots[Revise(w, v)].version
    BY <2>2, <2>12, <2>14, <2>16, <2>17 DEF ReviseExact
  <2>19. Allocated(Revise(w, v))
    BY <2>1, <2>2, <2>12, <2>14, ReviseFinds
  <2> QED
    BY <2>11, <2>15, <2>18, <2>19
<1> QED
  BY <1>1, ReadersHold, PTL

-----------------------------------------------------------------------------
(* What a list tells *)

(* The modifiers of k up to version v, of which the last one counts. *)
Of(ms, v, k) == {j \in 1 .. Len(ms) : ms[j].key = k /\ ms[j].version <= v}

Told(ms, v, k) == IF Of(ms, v, k) = {} THEN Unset ELSE ms[Max(Of(ms, v, k))].value

LEMMA OrderlyFields ==
    ASSUME NEW u, NEW ms, Orderly(ms, u)
    PROVE  /\ ms \in Seq(Mods) /\ Len(ms) \in Nat
           /\ \A j \in 1 .. Len(ms) :
                /\ ms[j] \in Mods /\ ms[j].version \in Nat /\ ms[j].key \in Keys
                /\ ms[j].value \in Values \cup {Unset}
<1>1. ms \in Seq(Mods) /\ Len(ms) \in Nat
  BY LenProperties DEF Orderly
<1>2. \A j \in 1 .. Len(ms) : ms[j] \in Mods
  BY <1>1, ElementOfSeq
<1> QED
  BY <1>1, <1>2, ModsTyped DEF Mods

LEMMA OfIs ==
    ASSUME NEW u, NEW ms, Orderly(ms, u), NEW v, NEW k
    PROVE  /\ Of(ms, v, k) \in SUBSET (1 .. Len(ms))
           /\ Of(ms, v, k) # {} =>
                /\ Max(Of(ms, v, k)) \in Of(ms, v, k)
                /\ \A j \in Of(ms, v, k) : j <= Max(Of(ms, v, k))
<1>1. Of(ms, v, k) \in SUBSET (1 .. Len(ms)) /\ Len(ms) \in Nat
  BY OrderlyFields DEF Of
<1> QED
  BY <1>1, MaxLast

LEMMA ToldTyped ==
    ASSUME NEW u, NEW ms, Orderly(ms, u), NEW v, NEW k
    PROVE  Told(ms, v, k) \in Values \cup {Unset}
BY OfIs, OrderlyFields DEF Told

(* The search of _nodeFindMod, which stops at the first modifier that is too
   new, comes to the last of the key, unless all of them unset it. *)
LEMMA FoundIsLast ==
    ASSUME NEW u, NEW ms, Orderly(ms, u), NEW v \in Int, NEW k
    PROVE  \/ FoundIn(ms, v, k) = {} /\ Told(ms, v, k) = Unset
           \/ /\ Of(ms, v, k) # {} /\ FoundIn(ms, v, k) = {Max(Of(ms, v, k))}
              /\ Told(ms, v, k) = ms[Max(Of(ms, v, k))].value
<1> DEFINE D == Of(ms, v, k)
           S == {j \in D : ms[j].value # Unset}
           x == Max(D)
<1>1. /\ Len(ms) \in Nat /\ \A j \in 1 .. Len(ms) : ms[j].version \in Nat
      /\ \A i, j \in 1 .. Len(ms) : i < j => ms[i].version <= ms[j].version
  BY OrderlyFields DEF Orderly
<1>2. /\ \A j : j \in D <=> j \in 1 .. Len(ms) /\ ms[j].key = k /\ ms[j].version <= v
      /\ D \in SUBSET (1 .. Len(ms))
      /\ D # {} => x \in D /\ \A j \in D : j <= x
  BY OfIs DEF Of
<1>3. Told(ms, v, k) = IF D = {} THEN Unset ELSE ms[x].value
  BY DEF Told
<1> HIDE DEF D, x
<1>4. CASE S = {}
  <2>1. ASSUME NEW j \in FoundIn(ms, v, k) PROVE FALSE
    <3>1. j \in 1 .. Len(ms) /\ FoundMod(ms, v, k, j)
      BY <2>1 DEF FoundIn
    <3>2. PICK i \in 1 .. j : FirstMod(ms, v, k, i)
      BY <3>1 DEF FoundMod
    <3>3. /\ i \in 1 .. Len(ms) /\ i \in 1 .. i /\ ms[i].key = k /\ ms[i].value # Unset
          /\ \A l \in 1 .. i : ms[l].version <= v
      BY <1>1, <3>1, <3>2 DEF FirstMod
    <3> QED
      BY <1>2, <1>4, <3>3
  <2>2. Told(ms, v, k) = Unset
    BY <1>2, <1>3, <1>4
  <2> QED
    BY <2>1, <2>2
<1>5. CASE S # {}
  <2>1. S \in SUBSET Nat /\ D # {} /\ x \in D
    BY <1>2, <1>5
  <2>2. PICK i \in S : \A j \in S : i <= j
    BY <1>5, <2>1, NatMin
  <2>3. /\ i \in D /\ i \in 1 .. Len(ms) /\ x \in 1 .. Len(ms) /\ i <= x
        /\ ms[i].key = k /\ ms[i].value # Unset /\ ms[i].version <= v
        /\ ms[x].key = k /\ ms[x].version <= v
    BY <1>2, <2>1, <2>2
  <2>4. \A j \in 1 .. x : j \in 1 .. Len(ms) /\ ms[j].version <= v
    <3> SUFFICES ASSUME NEW j \in 1 .. x PROVE j \in 1 .. Len(ms) /\ ms[j].version <= v
      OBVIOUS
    <3>1. j \in 1 .. Len(ms) /\ (j = x \/ j < x)
      BY <1>1, <2>3
    <3>2. ms[j].version \in Nat /\ ms[x].version \in Nat
      BY <1>1, <2>3, <3>1
    <3>3. ms[j].version <= ms[x].version
      BY <1>1, <2>3, <3>1, <3>2
    <3> QED
      BY <2>3, <3>1, <3>2, <3>3
  <2>5. FirstMod(ms, v, k, i)
    <3>1. \A j \in 1 .. i : j \in 1 .. x
      BY <2>3
    <3>2. ASSUME NEW j \in 1 .. i - 1, ms[j].key = k PROVE ms[j].value = Unset
      <4>1. j \in 1 .. x /\ j < i
        BY <2>3
      <4>2. j \in D
        BY <1>2, <2>4, <3>2, <4>1
      <4> QED
        BY <2>2, <2>3, <4>1, <4>2
    <3> QED
      BY <2>3, <2>4, <3>1, <3>2 DEF FirstMod
  <2>6. ASSUME NEW m \in x + 1 .. Len(ms), ms[m].key = k PROVE ms[m].version > v
    <3>1. m \in 1 .. Len(ms) /\ ~(m <= x)
      BY <2>3
    <3>2. m \notin D /\ ms[m].version \in Nat
      BY <1>1, <1>2, <2>1, <3>1
    <3> QED
      BY <1>2, <2>6, <3>1, <3>2
  <2>7. FoundMod(ms, v, k, x)
    <3>1. i \in 1 .. x /\ \A m \in i .. x : m \in 1 .. x
      BY <2>3
    <3>2. \A m \in x + 1 .. Len(ms) : ms[m].key = k =>
            \E l \in x + 1 .. m : ms[l].key = k /\ ms[l].version > v
      <4> SUFFICES ASSUME NEW m \in x + 1 .. Len(ms), ms[m].key = k
                   PROVE  \E l \in x + 1 .. m : ms[l].key = k /\ ms[l].version > v
        OBVIOUS
      <4>1. m \in x + 1 .. m
        BY <2>3
      <4> QED
        BY <2>6, <4>1
    <3> QED
      BY <2>3, <2>4, <2>5, <3>1, <3>2 DEF FoundMod
  <2>8. ASSUME NEW j \in FoundIn(ms, v, k) PROVE j = x
    <3>1. j \in 1 .. Len(ms) /\ ms[j].key = k /\ ms[j].version <= v
      BY FoundIs
    <3>2. j <= x
      BY <1>2, <2>1, <3>1
    <3>3. CASE j < x
      <4>1. x \in j + 1 .. Len(ms)
        BY <2>3, <3>1, <3>3
      <4>2. FoundMod(ms, v, k, j)
        BY DEF FoundIn
      <4>3. PICK l \in j + 1 .. x : ms[l].key = k /\ ms[l].version > v
        BY <2>3, <4>1, <4>2 DEF FoundMod
      <4>4. l \in 1 .. x
        BY <2>3, <3>1
      <4>5. ms[l].version <= v /\ ms[l].version \in Nat
        BY <1>1, <2>4, <4>4
      <4> QED
        BY <4>3, <4>5
    <3> QED
      BY <2>3, <3>1, <3>2, <3>3
  <2>9. x \in FoundIn(ms, v, k)
    BY <2>3, <2>7 DEF FoundIn
  <2>10. FoundIn(ms, v, k) = {x}
    BY <2>8, <2>9
  <2> QED
    BY <1>3, <2>1, <2>10 DEF D, x
<1> QED
  BY <1>4, <1>5

LEMMA StoredIsTold ==
    ASSUME NEW u, NEW ms, Orderly(ms, u), NEW v \in Int, NEW k
    PROVE  Stored(ms, v, k) = Told(ms, v, k)
<1>1. CASE FoundIn(ms, v, k) = {}
  <2>1. Told(ms, v, k) = Unset
    BY <1>1, FoundIsLast
  <2> QED
    BY <1>1, <2>1 DEF Stored
<1>2. CASE FoundIn(ms, v, k) # {}
  <2>1. PICK x : FoundIn(ms, v, k) = {x} /\ Told(ms, v, k) = ms[x].value
    BY <1>2, FoundIsLast
  <2>2. (CHOOSE j \in FoundIn(ms, v, k) : TRUE) = x
    BY <2>1
  <2> QED
    BY <1>2, <2>1, <2>2 DEF Stored
<1> QED
  BY <1>1, <1>2

(* What is in force: of each key that is set the one modifier that counts. *)
LEMMA DeflatedTells ==
    ASSUME NEW u, NEW ms, Orderly(ms, u), NEW v \in Int
    PROVE  /\ \A m, o \in Deflated(ms, v) : m.key = o.key => m = o
           /\ \A m \in Deflated(ms, v) :
                m.key \in Keys /\ m.version <= v /\ m.value = Told(ms, v, m.key)
           /\ \A k \in Keys : (\A m \in Deflated(ms, v) : m.key # k) =>
                Told(ms, v, k) = Unset
<1> DEFINE T(k) == ms[Max(Of(ms, v, k))]
<1>1. ASSUME NEW m \in Deflated(ms, v)
      PROVE  /\ m.key \in Keys /\ m.version <= v /\ m.value = Told(ms, v, m.key)
             /\ m = T(m.key)
  <2>1. PICK k \in Keys : \E j \in FoundIn(ms, v, k) : m = ms[j]
    BY DEF Deflated
  <2>2. PICK j \in FoundIn(ms, v, k) : m = ms[j]
    BY <2>1
  <2>3. Told(ms, v, k) = ms[j].value /\ j = Max(Of(ms, v, k))
    BY <2>2, FoundIsLast
  <2>4. ms[j].key = k /\ ms[j].version <= v
    BY <2>2, FoundIs
  <2> QED
    BY <2>2, <2>3, <2>4
<1>2. ASSUME NEW k \in Keys, Told(ms, v, k) # Unset
      PROVE  \E m \in Deflated(ms, v) : m.key = k
  <2>1. PICK j \in FoundIn(ms, v, k) : Told(ms, v, k) = ms[j].value
    BY <1>2, FoundIsLast
  <2>2. ms[j] \in Deflated(ms, v)
    BY <1>2, <2>1 DEF Deflated
  <2>3. ms[j].key = k
    BY <2>1, FoundIs
  <2> QED
    BY <2>2, <2>3
<1> HIDE DEF T
<1>3. ASSUME NEW m \in Deflated(ms, v), NEW o \in Deflated(ms, v), m.key = o.key
      PROVE  m = o
  BY <1>1, <1>3
<1> QED
  BY <1>1, <1>2, <1>3

(* What a list tells that is made of a set with one modifier of each key. *)
LEMMA SortedTells ==
    ASSUME NEW v \in Int, NEW S, S \subseteq Mods, IsFiniteSet(S), NEW s \in Sorted(S),
           Orderly(s, v), \A m, o \in S : m.key = o.key => m = o,
           \A m \in S : m.version <= v
    PROVE  /\ \A m \in S : Told(s, v, m.key) = m.value
           /\ \A k : (\A m \in S : m.key # k) => Told(s, v, k) = Unset
<1>1. Cardinality(S) \in Nat
  BY FS_CardinalityType
<1>2. s \in [1 .. Cardinality(S) -> S] /\ Range(s) = S
  BY DEF Sorted
<1>3. Len(s) = Cardinality(S) /\ DOMAIN s = 1 .. Len(s)
  BY <1>1, <1>2
<1>4. \A i \in 1 .. Len(s) : s[i] \in S
  BY <1>2, <1>3
<1>5. ASSUME NEW m \in S PROVE Told(s, v, m.key) = m.value
  <2>1. PICK j \in 1 .. Len(s) : s[j] = m
    BY <1>2, <1>3 DEF Range
  <2>2. j \in Of(s, v, m.key)
    BY <2>1 DEF Of
  <2>3. Max(Of(s, v, m.key)) \in Of(s, v, m.key)
    BY <2>2, OfIs
  <2>4. /\ Max(Of(s, v, m.key)) \in 1 .. Len(s)
        /\ s[Max(Of(s, v, m.key))].key = m.key
    BY <2>3 DEF Of
  <2>5. s[Max(Of(s, v, m.key))] = m
    BY <1>4, <2>4
  <2> QED
    BY <2>2, <2>5 DEF Told
<1>6. ASSUME NEW k, \A m \in S : m.key # k PROVE Told(s, v, k) = Unset
  <2>1. Of(s, v, k) = {}
    BY <1>4, <1>6 DEF Of
  <2> QED
    BY <2>1 DEF Told
<1> QED
  BY <1>5, <1>6

(* One modifier more tells its key's value from its version on. *)
LEMMA AppendedTells ==
    ASSUME NEW u, NEW ms, Orderly(ms, u), NEW m \in Mods, NEW v \in Nat,
           v <= m.version, NEW k
    PROVE  Told(Append(ms, m), v, k) =
             IF v = m.version /\ k = m.key THEN m.value ELSE Told(ms, v, k)
<1> DEFINE s == Append(ms, m)
           n == Len(ms)
<1>1. ms \in Seq(Mods) /\ n \in Nat /\ m.version \in Nat
  BY OrderlyFields, ModsTyped
<1>2. /\ s \in Seq(Mods) /\ Len(s) = n + 1 /\ s[n + 1] = m
      /\ \A i \in 1 .. n : s[i] = ms[i]
  BY <1>1, AppendProperties
<1>3. Of(ms, v, k) \in SUBSET (1 .. n)
  BY DEF Of
<1> HIDE DEF s, n
<1>4. CASE v = m.version /\ k = m.key
  <2>1. n + 1 \in Of(s, v, k) /\ Of(s, v, k) \in SUBSET (1 .. n + 1)
    BY <1>1, <1>2, <1>4 DEF Of
  <2>2. n + 1 \in Nat /\ Of(s, v, k) # {}
    BY <1>1, <2>1
  <2>3. /\ Max(Of(s, v, k)) \in Of(s, v, k)
        /\ \A j \in Of(s, v, k) : j <= Max(Of(s, v, k))
    BY <2>1, <2>2, MaxLast
  <2>4. Max(Of(s, v, k)) \in 1 .. n + 1 /\ n + 1 <= Max(Of(s, v, k))
    BY <2>1, <2>3
  <2>5. Max(Of(s, v, k)) = n + 1
    BY <1>1, <2>4
  <2> QED
    BY <1>2, <1>4, <2>2, <2>5 DEF Told, s
<1>5. CASE ~(v = m.version /\ k = m.key)
  <2>1. ~(s[n + 1].key = k /\ s[n + 1].version <= v)
    BY <1>1, <1>2, <1>5
  <2>2. \A j \in 1 .. n + 1 : j \in 1 .. n \/ j = n + 1
    BY <1>1
  <2>3. Of(s, v, k) = Of(ms, v, k)
    <3>1. Of(s, v, k) = {j \in 1 .. n : s[j].key = k /\ s[j].version <= v}
      <4>1. 1 .. n \subseteq 1 .. n + 1
        BY <1>1
      <4> QED
        BY <1>2, <2>1, <2>2, <4>1 DEF Of
    <3>2. Of(ms, v, k) = {j \in 1 .. n : ms[j].key = k /\ ms[j].version <= v}
      BY DEF Of, n
    <3> QED
      BY <1>2, <3>1, <3>2
  <2>4. Of(ms, v, k) # {} => Max(Of(ms, v, k)) \in 1 .. n
    BY OfIs DEF n
  <2> QED
    BY <1>2, <1>5, <2>3, <2>4 DEF Told, s
<1> QED
  BY <1>4, <1>5

LEMMA EmptyTells ==
    ASSUME NEW v, NEW k
    PROVE  Told(<<>>, v, k) = Unset
<1>1. Of(<<>>, v, k) = {}
  BY EmptySeq DEF Of
<1> QED
  BY <1>1 DEF Told

(* A spill tells what the full node told, but for the key that is set. *)
LEMMA SpillTells ==
    ASSUME NEW v \in Int, NEW ms, Orderly(ms, v), NEW old \in Deflated(ms, v),
           NEW mod \in Mods, mod.version = v, mod.key = old.key,
           NEW s \in Sorted((Deflated(ms, v) \ {old}) \cup {mod}), Orderly(s, v),
           NEW k \in Keys
    PROVE  Told(s, v, k) = IF k = mod.key THEN mod.value ELSE Told(ms, v, k)
<1> DEFINE D == Deflated(ms, v)
           S == (D \ {old}) \cup {mod}
<1>1. D \subseteq Mods /\ IsFiniteSet(D) /\ Cardinality(D) <= NodeLoad
  BY DeflatedFits
<1>2. /\ \A m, o \in D : m.key = o.key => m = o
      /\ \A m \in D : m.key \in Keys /\ m.version <= v /\ m.value = Told(ms, v, m.key)
      /\ \A l \in Keys : (\A m \in D : m.key # l) => Told(ms, v, l) = Unset
  BY DeflatedTells
<1>3. IsFiniteSet(S)
  BY <1>1, ReplacedFits
<1> HIDE DEF D
<1>4. /\ S \subseteq Mods /\ \A m \in S : m.version <= v
      /\ \A m, o \in S : m.key = o.key => m = o
  BY <1>1, <1>2 DEF D
<1> HIDE DEF S
<1>5. /\ \A m \in S : Told(s, v, m.key) = m.value
      /\ \A l : (\A m \in S : m.key # l) => Told(s, v, l) = Unset
  BY <1>3, <1>4, SortedTells DEF S, D
<1>6. CASE k = mod.key
  BY <1>5, <1>6 DEF S
<1>7. CASE k # mod.key /\ \E m \in D : m.key = k
  BY <1>2, <1>5, <1>7 DEF S
<1>8. CASE k # mod.key /\ \A m \in D : m.key # k
  BY <1>2, <1>5, <1>8 DEF S
<1> QED
  BY <1>6, <1>7, <1>8

(* A copy tells what was told in the version it is made of. *)
LEMMA CopyTells ==
    ASSUME NEW u \in Int, NEW ms, Orderly(ms, u), NEW v \in Int, v <= u,
           NEW s \in Sorted(Deflated(ms, v)), Orderly(s, u), NEW k \in Keys
    PROVE  Told(s, u, k) = Told(ms, v, k)
<1> DEFINE S == Deflated(ms, v)
<1>1. S \subseteq Mods /\ IsFiniteSet(S) /\ \A m \in S : m.version <= u
  BY DeflatedFits
<1>2. /\ \A m, o \in S : m.key = o.key => m = o
      /\ \A m \in S : m.value = Told(ms, v, m.key)
      /\ \A l \in Keys : (\A m \in S : m.key # l) => Told(ms, v, l) = Unset
  BY DeflatedTells
<1> HIDE DEF S
<1>3. /\ \A m \in S : Told(s, u, m.key) = m.value
      /\ \A l : (\A m \in S : m.key # l) => Told(s, u, l) = Unset
  BY <1>1, <1>2, SortedTells DEF S
<1> QED
  BY <1>2, <1>3

-----------------------------------------------------------------------------
(* The promised store *)

(* What a reader finds in version v, of any revision in use. *)
Reads(r, v, k) == Told(nodes[Revise(r, v)], v, k)

Held(r, v) ==
    IF IsRoot(r) /\ knots[r].version <= v THEN [k \in Keys |-> Reads(r, v, k)] ELSE Absent

StoreInv == NodeInv /\ ReadersInv

LEMMA StoreFacts ==
    ASSUME StoreInv
    PROVE  /\ ZoneInv /\ ZoneTypeOK /\ RevisionIntegrity /\ Listed
           /\ headVersion \in Nat /\ currVersion \in Nat /\ Latest \in Nat
           /\ headVersion <= Latest /\ Latest < VersionHead /\ VersionHead \in Nat
           /\ Transacting => Latest = currVersion /\ currVersion = headVersion + 1
           /\ ~Transacting => Latest = headVersion
           /\ \A r \in Refs : Orderly(nodes[r], Latest)
           /\ \A r \in Refs : knots[r].version \in Nat /\ knots[r].version <= Latest
           /\ \A r \in Refs : Allocated(r) => knots[r].version # 0
<1>1. /\ ZoneInv /\ ZoneTypeOK /\ RevisionIntegrity /\ Listed
      /\ \A r \in Refs : Orderly(nodes[r], Latest)
      /\ \A r \in Refs : knots[r].version <= Latest
  BY DEF StoreInv, NodeInv, ReadersInv, ZoneInv
<1>2. /\ headVersion \in Nat /\ currVersion \in Nat /\ Latest \in Nat
      /\ Transacting => Latest = currVersion /\ currVersion = headVersion + 1
  BY <1>1, LatestTyped
<1>3. Latest < VersionHead /\ VersionHead \in Nat
  BY <1>1, SizesAssumption
     DEF ZoneTypeOK, Versions, VersionNone, Latest, SizesAssumption
<1>4. ~Transacting => Latest = headVersion
  BY DEF Latest
<1> QED
  BY <1>1, <1>2, <1>3, <1>4, KnotTyped DEF Allocated, VersionNone

(* What _reviseRef comes to is a node with an ordered list. *)
LEMMA RevisedIs ==
    ASSUME StoreInv, NEW r \in Refs, Allocated(r), NEW v \in Int
    PROVE  /\ Revise(r, v) # BadRef =>
                /\ Revise(r, v) \in Refs /\ Allocated(Revise(r, v))
                /\ knots[Revise(r, v)].version <= v
                /\ Orderly(nodes[Revise(r, v)], Latest)
           /\ knots[r].version <= v => Revise(r, v) # BadRef
<1>1. Revise(r, v) # BadRef =>
        Allocated(Revise(r, v)) /\ knots[Revise(r, v)].version <= v
  BY StoreFacts, ReviseFinds
<1>2. knots[r].version <= v => Revise(r, v) # BadRef
  BY StoreFacts, ReviseFinds
<1> QED
  BY <1>1, <1>2, StoreFacts DEF Allocated

AllReads ==
    \A r \in Refs, v \in Nat, k \in Keys :
        Allocated(r) /\ v # VersionNone /\ v <= Latest /\ Revise(r, v) # BadRef
        => Raw(r, v, k) = Reads(r, v, k)

LEMMA ReadsNow == StoreInv => AllReads
<1> SUFFICES ASSUME StoreInv, NEW r \in Refs, NEW v \in Nat, NEW k \in Keys, Allocated(r),
                    v # VersionNone, v <= Latest, Revise(r, v) # BadRef
             PROVE  Raw(r, v, k) = Reads(r, v, k)
  BY DEF AllReads
<1>1. v \in Int /\ AtVersion(v) = v
  BY StoreFacts DEF AtVersion
<1>2. Orderly(nodes[Revise(r, v)], Latest)
  BY <1>1, RevisedIs
<1>3. Stored(nodes[Revise(r, v)], v, k) = Told(nodes[Revise(r, v)], v, k)
  BY <1>1, <1>2, StoredIsTold
<1> QED
  BY <1>1, <1>3 DEF Raw, Reads

LEMMA ReadsNext == StoreInv' => AllReads'
BY ReadsNow, PTL

AllHeld == \A r \in Refs, v \in Nat : v <= Latest => Contents(r, v) = Held(r, v)

LEMMA HeldNow == StoreInv => AllHeld
<1> SUFFICES ASSUME StoreInv, NEW r \in Refs, NEW v \in Nat, v <= Latest
             PROVE  Contents(r, v) = Held(r, v)
  BY DEF AllHeld
<1>1. CASE ~(IsRoot(r) /\ knots[r].version <= v)
  BY <1>1 DEF Contents, Held
<1>2. CASE IsRoot(r) /\ knots[r].version <= v
  <2>1. Allocated(r) /\ v \in Int /\ v # VersionNone
    BY <1>2, StoreFacts DEF IsRoot, VersionNone
  <2>2. Revise(r, v) # BadRef
    BY <1>2, <2>1, RevisedIs
  <2>3. \A k \in Keys : Raw(r, v, k) = Reads(r, v, k)
    BY <2>1, <2>2, ReadsNow DEF AllReads
  <2> QED
    BY <1>2, <2>3 DEF Contents, Held
<1> QED
  BY <1>1, <1>2

(* The contents of a node are keys with values. *)
LEMMA HeldTyped ==
    ASSUME StoreInv, NEW r \in Refs, IsRoot(r), NEW v \in Int, knots[r].version <= v
    PROVE  Held(r, v) \in [Keys -> Values \cup {Unset}] /\ Held(r, v) # Absent
<1>1. Allocated(r)
  BY DEF IsRoot
<1>2. Orderly(nodes[Revise(r, v)], Latest)
  BY <1>1, RevisedIs
<1>3. \A k \in Keys : Reads(r, v, k) \in Values \cup {Unset}
  BY <1>2, ToldTyped DEF Reads
<1>4. Held(r, v) = [k \in Keys |-> Reads(r, v, k)]
  BY DEF Held
<1> QED
  BY <1>3, <1>4, AbsentAssumption DEF AbsentAssumption

Snap(v) == [r \in Refs |-> Held(r, v)]

Live == [r \in Refs |-> Contents(r, Latest)]

Past == [v \in 1 .. headVersion |-> [r \in Refs |-> Contents(r, v)]]

(* The store as of a version that is named, so that it can be compared with
   itself a step later. *)
StoreIs ==
    /\ \A v \in Nat : v = Latest => Live = Snap(v)
    /\ \A h \in Nat : h = headVersion => Past = [v \in 1 .. h |-> Snap(v)]

LEMMA StoreNow == StoreInv => StoreIs
<1> SUFFICES ASSUME StoreInv PROVE StoreIs
  OBVIOUS
<1>1. AllHeld /\ Latest \in Nat /\ headVersion \in Nat /\ headVersion <= Latest
  BY HeldNow, StoreFacts
<1>2. ASSUME NEW v \in Nat, v = Latest PROVE Live = Snap(v)
  BY <1>1, <1>2 DEF Live, Snap, AllHeld
<1>3. ASSUME NEW h \in Nat, h = headVersion PROVE Past = [v \in 1 .. h |-> Snap(v)]
  <2>1. \A v \in 1 .. h : v \in Nat /\ v <= Latest
    BY <1>1, <1>3
  <2>2. \A v \in 1 .. h : [r \in Refs |-> Contents(r, v)] = Snap(v)
    BY <1>1, <2>1 DEF Snap, AllHeld
  <2> QED
    BY <1>3, <2>2 DEF Past
<1> QED
  BY <1>2, <1>3 DEF StoreIs

LEMMA StoreThen == StoreInv' => StoreIs'
BY StoreNow, PTL

(* No node reads otherwise, in any version there is. *)
LEMMA StoreStutters ==
    ASSUME StoreInv, StoreInv', UNCHANGED <<headVersion, currVersion>>,
           \A r \in Refs, v \in Nat : v <= Latest => Held(r, v)' = Held(r, v)
    PROVE  UNCHANGED Store!storeVars
<1>1. /\ StoreIs /\ StoreIs' /\ Latest \in Nat /\ headVersion \in Nat
      /\ headVersion <= Latest /\ Latest' = Latest
  BY StoreNow, StoreThen, StoreFacts DEF Latest, Transacting
<1>2. \A v \in Nat : v <= Latest => Snap(v)' = Snap(v)
  BY DEF Snap
<1>3. Live' = Live
  BY <1>1, <1>2 DEF StoreIs
<1>4. Past' = Past
  <2>1. PICK h \in Nat : h = headVersion
    BY <1>1
  <2>2. \A v \in 1 .. h : Snap(v)' = Snap(v)
    BY <1>1, <1>2, <2>1
  <2>3. Past = [v \in 1 .. h |-> Snap(v)] /\ Past' = [v \in 1 .. h |-> Snap(v)']
    BY <1>1, <2>1 DEF StoreIs
  <2> QED
    BY <2>2, <2>3
<1> QED
  BY <1>3, <1>4 DEF Store!storeVars, Live, Past, Transacting

(* One node is created, changed or copied, in a transaction and for it
   alone. *)
LEMMA OneChanges ==
    ASSUME StoreInv, StoreInv', UNCHANGED <<headVersion, currVersion>>, Transacting,
           NEW n \in Refs,
           \A r \in Refs, v \in Nat : r # n /\ v <= Latest => Held(r, v)' = Held(r, v),
           \A v \in Nat : v <= headVersion => Held(n, v)' = Held(n, v),
           NEW w \in Nat, w = Latest,
           \/ Store!Created(Held(n, w), Held(n, w)')
           \/ Store!Written(Held(n, w), Held(n, w)')
           \/ /\ Held(n, w) = Absent /\ Held(n, w)' # Absent
              /\ \E m \in Refs, u \in Nat :
                   (u = w \/ u \in 1 .. headVersion) /\ Held(n, w)' = Held(m, u)
    PROVE  Store!StoreNext
<1>1. /\ StoreIs /\ StoreIs' /\ headVersion \in Nat /\ Latest' = w
      /\ headVersion <= w /\ headVersion' = headVersion
  BY StoreNow, StoreThen, StoreFacts DEF Latest, Transacting
<1>2. PICK h \in Nat : h = headVersion
  BY <1>1
<1>3. ASSUME NEW v \in 1 .. h PROVE Snap(v)' = Snap(v)
  <2>1. v \in Nat /\ v <= headVersion /\ v <= Latest
    BY <1>1, <1>2
  <2>2. \A r \in Refs : Held(r, v)' = Held(r, v)
    BY <2>1
  <2> QED
    BY <2>2 DEF Snap
<1>4. Past = [v \in 1 .. h |-> Snap(v)] /\ Past' = Past
  <2>1. Past = [v \in 1 .. h |-> Snap(v)] /\ Past' = [v \in 1 .. h |-> Snap(v)']
    BY <1>1, <1>2 DEF StoreIs
  <2> QED
    BY <1>3, <2>1
<1>5. Live = Snap(w) /\ Live' = Snap(w)'
  BY <1>1 DEF StoreIs
<1>6. /\ Live[n] = Held(n, w) /\ Live'[n] = Held(n, w)'
      /\ Live' = [Live EXCEPT ![n] = Live'[n]]
  <2>1. \A r \in Refs : r # n => Held(r, w)' = Held(r, w)
    BY <1>1
  <2>2. /\ Live = [r \in Refs |-> Held(r, w)]
        /\ Live' = [r \in Refs |-> Held(r, w)']
    BY <1>5 DEF Snap
  <2> QED
    BY <2>1, <2>2
<1>7. \/ Store!Created(Live[n], Live'[n])
      \/ Store!Written(Live[n], Live'[n])
      \/ /\ Live[n] = Absent /\ Live'[n] # Absent
         /\ \E seen \in Store!Range(Past) \cup {Live}, m \in Refs : Live'[n] = seen[m]
  <2>1. ASSUME NEW m \in Refs, NEW u \in Nat, u = w \/ u \in 1 .. headVersion,
               Held(n, w)' = Held(m, u)
        PROVE  \E seen \in Store!Range(Past) \cup {Live}, o \in Refs : Live'[n] = seen[o]
    <3>1. Snap(u)[m] = Held(m, u)
      BY DEF Snap
    <3>2. CASE u = w
      BY <1>5, <1>6, <2>1, <3>1, <3>2
    <3>3. CASE u \in 1 .. headVersion
      <4>1. u \in DOMAIN Past /\ Past[u] = Snap(u)
        BY <1>2, <1>4, <3>3
      <4>2. Past[u] \in Store!Range(Past)
        BY <4>1 DEF Store!Range
      <4> QED
        BY <1>6, <2>1, <3>1, <4>1, <4>2
    <3> QED
      BY <2>1, <3>2, <3>3
  <2> QED
    BY <1>6, <2>1
<1>8. \E now \in {Live}, next \in {Live'}, m \in Refs :
         /\ next = [now EXCEPT ![m] = next[m]]
         /\ \/ Store!Created(now[m], next[m])
            \/ Store!Written(now[m], next[m])
            \/ Store!Copied(now[m], next[m])
  BY <1>6, <1>7 DEF Store!Copied, Live, Past
<1>9. Transacting /\ UNCHANGED <<Transacting, Past>>
  BY <1>4 DEF Transacting
<1>10. Store!Change
  BY <1>8, <1>9 DEF Store!Change, Live, Past
<1> QED
  BY <1>10 DEF Store!StoreNext

-----------------------------------------------------------------------------
(* What a set makes of the nodes *)

LEMMA SetHappens ==
    ASSUME StoreInv, NEW n, NEW k, NEW w, Set(n, k, w), defect' = "none"
    PROVE  /\ n \in Refs /\ Allocated(n) /\ IsHead(n) /\ Transacting
           /\ UNCHANGED <<headVersion, currVersion>>
           /\ Latest = currVersion /\ currVersion \in Nat
           /\ SetAppend(n, k, w) \/ SetSpillKnown(n, k, w)
<1>1. SetAppend(n, k, w) \/ SetSpillKnown(n, k, w)
  BY DEF Set, SetSpillNew
<1>2. Settable(n, w) /\ UNCHANGED <<headVersion, currVersion>>
  BY <1>1 DEF SetAppend, SetSpillKnown, Spilling, PlaceNew
<1>3. /\ n \in Refs /\ Allocated(n) /\ IsHead(n) /\ Transacting
  BY <1>2 DEF Settable, IsNode, Allocated
<1> QED
  BY <1>1, <1>2, <1>3, StoreFacts

(* Nothing but one key of the node that is set reads otherwise, and that only
   in the open version. *)
SetOnly(n, k, w) ==
    /\ \A r \in Refs : IsRoot(r)' <=> IsRoot(r)
    /\ \A r \in Refs : Allocated(r) => knots'[r].version = knots[r].version
    /\ \A r \in Refs, v \in Nat, l \in Keys :
         Allocated(r) /\ v <= currVersion /\ Revise(r, v) # BadRef =>
            /\ Allocated(r)' /\ Revise(r, v)' # BadRef
            /\ Reads(r, v, l)' =
                 IF v = currVersion /\ Revise(r, v) = n /\ l = k THEN w
                 ELSE Reads(r, v, l)

LEMMA AppendTells ==
    ASSUME StoreInv, StoreInv', NEW n, NEW k \in Keys, NEW w \in Values \cup {Unset},
           SetAppend(n, k, w), defect' = "none"
    PROVE  SetOnly(n, k, w)
<1> DEFINE mod == Mod(currVersion, k, w)
<1>1. /\ n \in Refs /\ UNCHANGED zoneVars
      /\ Latest = currVersion /\ currVersion \in Nat /\ Orderly(nodes[n], Latest)
      /\ nodes' = [nodes EXCEPT ![n] = Append(nodes[n], mod)]
  BY SetHappens, StoreFacts DEF Set, SetAppend, zoneVars
<1>2. mod \in Mods /\ mod.version = currVersion /\ mod.key = k /\ mod.value = w
  BY StoreFacts, ModTyped DEF Mod
<1> HIDE DEF mod
<1>3. knots' = knots /\ pages' = pages
  BY <1>1 DEF zoneVars
<1>4. \A r \in Refs : (Allocated(r)' <=> Allocated(r)) /\ (IsRoot(r)' <=> IsRoot(r))
  BY <1>3 DEF Allocated, PageOf, IsRoot
<1>5. \A q \in Refs : nodes'[q] = IF q = n THEN Append(nodes[n], mod) ELSE nodes[q]
  BY <1>1 DEF StoreInv, NodeInv
<1>6. ASSUME NEW r \in Refs, NEW v \in Nat, NEW l \in Keys, Allocated(r),
             v <= currVersion, Revise(r, v) # BadRef
      PROVE  /\ Revise(r, v)' # BadRef
             /\ Reads(r, v, l)' =
                  IF v = currVersion /\ Revise(r, v) = n /\ l = k THEN w
                  ELSE Reads(r, v, l)
  <2>1. PICK q : q = Revise(r, v)
    OBVIOUS
  <2>2. v \in Int /\ ZoneInv /\ ZoneInv' /\ RevisionIntegrity
    BY StoreFacts DEF StoreInv, NodeInv
  <2>3. \A s \in Refs : Allocated(s) => Allocated(s)' /\ knots'[s] = knots[s]
    BY <1>3, <1>4
  <2>4. Revise(r, v)' = q
    BY <1>6, <2>1, <2>2, <2>3, ReviseStays
  <2>5. q \in Refs /\ Reads(r, v, l) = Told(nodes[q], v, l)
    BY <1>6, <2>1, RevisedIs DEF Reads
  <2>6. Reads(r, v, l)' = Told(nodes'[q], v, l)
    BY <2>4 DEF Reads, Told, Of
  <2>7. q = n => Told(nodes'[q], v, l) =
          IF v = currVersion /\ l = k THEN w ELSE Told(nodes[q], v, l)
    BY <1>1, <1>2, <1>5, <1>6, <2>5, AppendedTells
  <2>8. q # n => nodes'[q] = nodes[q]
    BY <1>5, <2>5
  <2> QED
    BY <1>6, <2>1, <2>4, <2>5, <2>6, <2>7, <2>8
<1> QED
  BY <1>3, <1>4, <1>6 DEF SetOnly

LEMMA SpillReads ==
    ASSUME StoreInv, StoreInv', NEW n, NEW k \in Keys, NEW w \in Values \cup {Unset},
           SetSpillKnown(n, k, w), defect' = "none"
    PROVE  SetOnly(n, k, w)
<1> DEFINE mod == Mod(currVersion, k, w)
<1>1. /\ n \in Refs /\ Allocated(n) /\ IsHead(n) /\ ZoneInv /\ RevisionIntegrity
      /\ Latest = currVersion /\ currVersion \in Nat /\ Orderly(nodes[n], currVersion)
      /\ UNCHANGED <<headVersion, currVersion>>
      /\ \A s \in Refs : knots[s].version \in Nat /\ knots[s].version <= currVersion
  BY SetHappens, StoreFacts DEF Set
<1>2. mod \in Mods /\ mod.version = currVersion /\ mod.key = k /\ mod.value = w
  BY StoreFacts, ModTyped DEF Mod
<1>3. PICK new \in Refs, old \in Kept(n) :
        /\ old.key = k /\ PlaceNew(new) /\ LinkNew(n, new)
        /\ \E s \in Sorted((Kept(n) \ {old}) \cup {mod}) :
             nodes' = [nodes EXCEPT ![new] = s]
  BY DEF SetSpillKnown
<1> HIDE DEF mod
<1>4. PICK s \in Sorted((Kept(n) \ {old}) \cup {mod}) : nodes' = [nodes EXCEPT ![new] = s]
  BY <1>3
<1>5. \A q \in Refs : nodes'[q] = IF q = new THEN s ELSE nodes[q]
  BY <1>4 DEF StoreInv, NodeInv
<1>6. Orderly(s, currVersion)
  <2>1. Orderly(nodes'[new], Latest')
    <3>1. (\A r \in Refs : Orderly(nodes[r], Latest))'
      BY DEF StoreInv, NodeInv
    <3>2. PICK u : u = Latest'
      OBVIOUS
    <3>3. PICK l : l = nodes'[new]
      OBVIOUS
    <3>4. Orderly(l, u)
      BY <3>1, <3>2, <3>3 DEF Orderly
    <3> QED
      BY <3>2, <3>3, <3>4
  <2>2. Latest' = currVersion
    BY <1>1 DEF Latest, Transacting
  <2> QED
    BY <1>5, <2>1, <2>2
<1>7. \A l \in Keys : Told(s, currVersion, l) =
        IF l = k THEN w ELSE Told(nodes[n], currVersion, l)
  BY <1>1, <1>2, <1>3, <1>6, SpillTells DEF Kept
<1>8. /\ AllocPlace(Node, EditBSize[Node], new) /\ PlacedNext(n, new)
  BY <1>3 DEF PlaceNew, LinkNew, PlacedNext
<1>9. knots[n].version < currVersion
  <2>1. ~Flat(n)
    BY DEF SetSpillKnown
  <2> QED
    BY <1>1, <2>1 DEF Flat
<1>10. /\ n # new /\ n # BadRef
       /\ \A r \in Refs : Allocated(r)' <=> Allocated(r) \/ r = new
       /\ \A r \in Refs : r # new => knots'[r].version = knots[r].version
       /\ \A r \in Refs : r # new => knots'[r].prev = knots[r].prev
       /\ knots'[new].prev = n
  BY <1>1, <1>8, NodeSizes, PlacedNextKnots, BadIsNone
<1>11. ~Allocated(new)
  BY <1>1, <1>8, NodeSizes, AllocFindsFree
<1>12. \A r \in Refs : IsRoot(r)' <=> IsRoot(r)
  BY <1>10, <1>11 DEF IsRoot
<1>13. \A v \in Int, r \in Refs : Allocated(r) =>
         Revise(r, v)' = IF v >= currVersion /\ Revise(r, v) = n THEN new ELSE Revise(r, v)
  BY <1>1, <1>8, <1>9, NodeSizes, ReviseGrows
<1>14. ASSUME NEW r \in Refs, NEW v \in Nat, NEW l \in Keys, Allocated(r),
              v <= currVersion, Revise(r, v) # BadRef
       PROVE  /\ Revise(r, v)' # BadRef
              /\ Reads(r, v, l)' =
                   IF v = currVersion /\ Revise(r, v) = n /\ l = k THEN w
                   ELSE Reads(r, v, l)
  <2>1. PICK q : q = Revise(r, v)
    OBVIOUS
  <2>2. PICK p : p = IF v = currVersion /\ q = n THEN new ELSE q
    OBVIOUS
  <2>3. v \in Int /\ (v >= currVersion <=> v = currVersion)
    BY <1>1, <1>14
  <2>4. Revise(r, v)' = p
    BY <1>13, <1>14, <2>1, <2>2, <2>3
  <2>5. q \in Refs /\ Allocated(q) /\ q # new /\ Reads(r, v, l) = Told(nodes[q], v, l)
    BY <1>11, <1>14, <2>1, RevisedIs DEF Reads
  <2>6. Reads(r, v, l)' = Told(nodes'[p], v, l)
    BY <2>4 DEF Reads, Told, Of
  <2>7. CASE v = currVersion /\ q = n
    BY <1>5, <1>7, <2>1, <2>2, <2>4, <2>5, <2>6, <2>7, BadIsNone
  <2>8. CASE ~(v = currVersion /\ q = n)
    <3>1. p = q /\ nodes'[p] = nodes[q]
      BY <1>5, <2>2, <2>5, <2>8
    <3> QED
      BY <1>14, <2>1, <2>4, <2>5, <2>6, <2>8, <3>1
  <2> QED
    BY <2>7, <2>8
<1>15. \A r \in Refs : Allocated(r) => Allocated(r)' /\ knots'[r].version = knots[r].version
  BY <1>10, <1>11
<1> QED
  BY <1>12, <1>14, <1>15 DEF SetOnly

LEMMA SetTells ==
    ASSUME StoreInv, StoreInv', NEW n, NEW k \in Keys, NEW w \in Values \cup {Unset},
           Set(n, k, w), defect' = "none"
    PROVE  SetOnly(n, k, w)
BY SetHappens, AppendTells, SpillReads

-----------------------------------------------------------------------------
(* The steps of the code are steps of the store *)

(* A set writes one key of the one node that the revision belongs to. *)
LEMMA WrittenNow ==
    ASSUME StoreInv, StoreInv', NEW n, NEW k \in Keys, NEW w \in Values \cup {Unset},
           Set(n, k, w), defect' = "none"
    PROVE  Store!StoreNext
<1>1. /\ n \in Refs /\ Allocated(n) /\ IsHead(n) /\ Transacting
      /\ UNCHANGED <<headVersion, currVersion>>
      /\ Latest = currVersion /\ currVersion \in Nat
      /\ ZoneInv /\ RevisionIntegrity /\ Listed /\ headVersion < currVersion
      /\ knots[n].version <= currVersion /\ headVersion \in Nat
      /\ \A s \in Refs : knots[s].version \in Nat
  BY SetHappens, StoreFacts
<1>2. SetOnly(n, k, w)
  BY SetTells
<1>3. PICK c \in Nat : c = currVersion
  BY <1>1
<1>4. Revise(n, c) = n /\ n # BadRef
  BY <1>1, <1>3, HeadFindsItself, BadIsNone
<1>5. PICK r \in Refs : /\ IsFirst(r) /\ knots[r].version <= knots[n].version
                       /\ \A v \in Int : Revise(r, v) = Revise(n, v)
  BY <1>1, FirstExists
<1>6. IsRoot(r) /\ knots[r].version <= c /\ Allocated(r) /\ Revise(r, c) = n
  BY <1>1, <1>3, <1>4, <1>5 DEF IsRoot, IsFirst
<1>7. ASSUME NEW q \in Refs, NEW v \in Nat, v <= c, q # r \/ v # c
      PROVE  Held(q, v)' = Held(q, v)
  <2>1. CASE ~IsRoot(q)
    BY <1>2, <2>1 DEF SetOnly, Held
  <2>2. CASE IsRoot(q) /\ ~(knots[q].version <= v)
    <3>1. knots'[q].version = knots[q].version
      BY <1>2, <2>2 DEF SetOnly, IsRoot
    <3> QED
      BY <2>2, <3>1 DEF Held
  <2>3. CASE IsRoot(q) /\ knots[q].version <= v
    <3>1. Allocated(q) /\ knots'[q].version = knots[q].version /\ IsRoot(q)'
      BY <1>2, <2>3 DEF SetOnly, IsRoot
    <3>2. Revise(q, v) # BadRef
      BY <2>3, <3>1, RevisedIs
    <3>3. ~(v = c /\ Revise(q, v) = n)
      <4> SUFFICES ASSUME v = c, Revise(q, c) = n PROVE FALSE
        OBVIOUS
      <4>1. IsFirst(q)
        BY <2>3 DEF IsRoot, IsFirst
      <4> QED
        BY <1>1, <1>4, <1>5, <1>6, <1>7, <4>1, FirstIsOne
    <3>4. \A l \in Keys : Reads(q, v, l)' = Reads(q, v, l)
      BY <1>2, <1>3, <1>7, <3>1, <3>2, <3>3 DEF SetOnly
    <3> QED
      BY <2>3, <3>1, <3>4 DEF Held
  <2> QED
    BY <2>1, <2>2, <2>3
<1>8. Held(r, c)' = [Held(r, c) EXCEPT ![k] = w]
  <2>1. IsRoot(r)' /\ knots'[r].version = knots[r].version
    BY <1>2, <1>6 DEF SetOnly
  <2>2. \A l \in Keys : Reads(r, c, l)' = IF l = k THEN w ELSE Reads(r, c, l)
    <3>1. Revise(r, c) # BadRef
      BY <1>4, <1>6
    <3> QED
      BY <1>2, <1>3, <1>6, <3>1 DEF SetOnly
  <2>3. Held(r, c) = [l \in Keys |-> Reads(r, c, l)]
    BY <1>6 DEF Held
  <2>4. Held(r, c)' = [l \in Keys |-> Reads(r, c, l)']
    BY <1>6, <2>1 DEF Held
  <2> QED
    BY <2>2, <2>3, <2>4
<1>9. Held(r, c) # Absent /\ Held(r, c)' # Absent
  <2>1. Held(r, c) \in [Keys -> Values \cup {Unset}] /\ Held(r, c) # Absent
    BY <1>6, HeldTyped
  <2>2. [Held(r, c) EXCEPT ![k] = w] \in [Keys -> Values \cup {Unset}]
    BY <2>1
  <2>3. Held(r, c)' # Absent
    BY <1>8, <2>2, AbsentAssumption DEF AbsentAssumption
  <2> QED
    BY <2>1, <2>3
<1>10. Store!Written(Held(r, c), Held(r, c)')
  BY <1>8, <1>9 DEF Store!Written
<1>11. /\ \A q \in Refs, v \in Nat : q # r /\ v <= Latest => Held(q, v)' = Held(q, v)
       /\ \A v \in Nat : v <= headVersion => Held(r, v)' = Held(r, v)
  <2>1. \A v \in Nat : v <= headVersion => v <= c /\ v # c
    BY <1>1, <1>3
  <2> QED
    BY <1>1, <1>3, <1>7, <2>1
<1> QED
  BY <1>1, <1>3, <1>10, <1>11, OneChanges

LEMMA ReadsNewly ==
    ASSUME NEW r, NEW v, NEW k, NEW q, NEW ms, Revise(r, v)' = q, nodes'[q] = ms
    PROVE  Reads(r, v, k)' = Told(ms, v, k)
BY DEF Reads, Told, Of

(* An element that comes into use is a node of its own, from the open version
   on. *)
LEMMA PlacedReads ==
    ASSUME StoreInv, StoreInv', NEW new \in Refs, RefAlloc(Node, EditBSize[Node], new),
           NEW s, nodes' = [nodes EXCEPT ![new] = s]
    PROVE  /\ Transacting /\ UNCHANGED <<headVersion, currVersion>>
           /\ \A r \in Refs, v \in Nat : r # new /\ v <= Latest => Held(r, v)' = Held(r, v)
           /\ \A v \in Nat : v <= headVersion => Held(new, v)' = Held(new, v)
           /\ \A v \in Nat : v = Latest =>
                /\ Held(new, v) = Absent
                /\ Held(new, v)' = [k \in Keys |-> Told(s, v, k)]
<1>1. /\ AllocPlace(Node, EditBSize[Node], new) /\ Placed(new) /\ Transacting
      /\ UNCHANGED <<headVersion, currVersion>>
  BY DEF RefAlloc, Placed, AllocPlace
<1>2. /\ ZoneInv /\ ZoneInv' /\ RevisionIntegrity
      /\ Latest = currVersion /\ currVersion = headVersion + 1 /\ headVersion \in Nat
  BY <1>1, StoreFacts DEF StoreInv, NodeInv
<1>3. /\ \A r \in Refs : Allocated(r)' <=> Allocated(r) \/ r = new
      /\ \A r \in Refs : r # new => knots'[r] = knots[r]
      /\ knots'[new].version = currVersion
      /\ knots'[new].prev = BadRef /\ knots'[new].next = BadRef
  BY <1>1, <1>2, NodeSizes, PlacedKnots
<1>4. ~Allocated(new)
  BY <1>1, <1>2, NodeSizes, AllocFindsFree
<1>5. \A q \in Refs : nodes'[q] = IF q = new THEN s ELSE nodes[q]
  BY DEF StoreInv, NodeInv
<1>6. ASSUME NEW r \in Refs, NEW v \in Nat, r # new PROVE Held(r, v)' = Held(r, v)
  <2>1. knots'[r] = knots[r] /\ (IsRoot(r)' <=> IsRoot(r))
    BY <1>3, <1>6 DEF IsRoot
  <2>2. CASE ~(IsRoot(r) /\ knots[r].version <= v)
    BY <2>1, <2>2 DEF Held
  <2>3. CASE IsRoot(r) /\ knots[r].version <= v
    <3>1. Allocated(r) /\ v \in Int
      BY <2>3 DEF IsRoot
    <3>2. PICK q : q = Revise(r, v)
      OBVIOUS
    <3>3. q \in Refs /\ Allocated(q)
      BY <2>3, <3>1, <3>2, RevisedIs
    <3>4. Revise(r, v)' = q
      <4>1. \A t \in Refs : Allocated(t) => Allocated(t)' /\ knots'[t] = knots[t]
        BY <1>3, <1>4
      <4> QED
        BY <1>2, <3>1, <3>2, <4>1, ReviseStays
    <3>5. nodes'[q] = nodes[q]
      BY <1>4, <1>5, <3>3
    <3>6. \A k \in Keys : Reads(r, v, k)' = Reads(r, v, k)
      BY <3>2, <3>4, <3>5, ReadsNewly DEF Reads
    <3> QED
      BY <2>1, <2>3, <3>6 DEF Held
  <2> QED
    BY <2>2, <2>3
<1>7. ASSUME NEW v \in Nat PROVE Held(new, v) = Absent
  BY <1>4 DEF Held, IsRoot
<1>8. ASSUME NEW v \in Nat, v <= headVersion PROVE Held(new, v)' = Absent
  <2>1. ~(knots'[new].version <= v)
    BY <1>2, <1>3, <1>8
  <2> QED
    BY <2>1 DEF Held
<1>9. ASSUME NEW v \in Nat, v = Latest
      PROVE  Held(new, v)' = [k \in Keys |-> Told(s, v, k)]
  <2>1. IsRoot(new)' /\ knots'[new].version = v
    BY <1>2, <1>3, <1>9 DEF IsRoot
  <2>2. Revise(new, v)' = new
    <3>1. Allocated(new)' /\ ~(v > v) /\ ~(v < v)
      BY <1>3
    <3> QED
      BY <2>1, <3>1 DEF Revise
  <2>3. \A k \in Keys : Reads(new, v, k)' = Told(s, v, k)
    BY <1>5, <2>2, ReadsNewly
  <2>4. Held(new, v)' = [k \in Keys |-> Reads(new, v, k)']
    BY <2>1 DEF Held
  <2> QED
    BY <2>3, <2>4
<1> QED
  BY <1>1, <1>6, <1>7, <1>8, <1>9

LEMMA CreatedNow ==
    ASSUME StoreInv, StoreInv', NEW new \in Refs, NodeAlloc(new)
    PROVE  Store!StoreNext
<1>1. RefAlloc(Node, EditBSize[Node], new) /\ nodes' = [nodes EXCEPT ![new] = <<>>]
  BY DEF NodeAlloc
<1>2. PICK w \in Nat : w = Latest
  BY StoreFacts
<1>3. /\ Held(new, w) = Absent
      /\ Held(new, w)' = [k \in Keys |-> Told(<<>>, w, k)]
  BY <1>1, <1>2, PlacedReads
<1>4. Store!Created(Held(new, w), Held(new, w)')
  BY <1>3, EmptyTells DEF Store!Created, Store!Empty
<1> QED
  BY <1>1, <1>2, <1>4, PlacedReads, OneChanges

(* The node that is copied has been of the version it is read in. *)
LEMMA CopiedNow ==
    ASSUME StoreInv, StoreInv', NEW r \in Refs, NEW v \in (1 .. currVersion) \cup {VersionHead},
           NodeDuplicate(r, v), defect' = "none"
    PROVE  Store!StoreNext
<1>1. PICK n \in {Revise(r, v)} :
        /\ IsNode(n)
        /\ \E new \in Refs :
             /\ RefAlloc(Node, EditBSize[Node], new)
             /\ \E copy \in Sorted(Deflated(nodes[n], AtVersion(v))) :
                  nodes' = [nodes EXCEPT ![new] = copy]
        /\ ~(v = VersionHead /\ Flat(n))
  BY DEF NodeDuplicate
<1>2. PICK new \in Refs :
        /\ RefAlloc(Node, EditBSize[Node], new)
        /\ \E copy \in Sorted(Deflated(nodes[n], AtVersion(v))) :
             nodes' = [nodes EXCEPT ![new] = copy]
  BY <1>1
<1>3. PICK copy \in Sorted(Deflated(nodes[n], AtVersion(v))) :
        nodes' = [nodes EXCEPT ![new] = copy]
  BY <1>2
<1>4. PICK u : u = AtVersion(v)
  OBVIOUS
<1>5. PICK c \in Nat : c = Latest
  BY StoreFacts
<1>6. /\ Transacting /\ ZoneInv /\ RevisionIntegrity /\ Listed
      /\ currVersion = c /\ c = headVersion + 1 /\ headVersion \in Nat
      /\ c < VersionHead /\ VersionHead \in Nat
      /\ n = Revise(r, v) /\ n \in Refs /\ Allocated(n) /\ n # BadRef
      /\ \A s \in Refs : knots[s].version \in Nat /\ knots[s].version <= c
      /\ knots[n].version # 0 /\ Orderly(nodes[n], c) /\ v \in Int
  BY <1>1, <1>5, StoreFacts, BadIsNone DEF NodeDuplicate, IsNode, Allocated
<1>7. Allocated(r)
  BY <1>6 DEF Revise
<1>8. u \in Nat /\ u <= c /\ Revise(n, u) = n /\ knots[n].version <= u
  <2>1. CASE v = VersionHead
    <3>1. u = headVersion /\ IsHead(n)
      BY <1>4, <1>6, <1>7, <2>1, NewestIsHead DEF AtVersion
    <3>2. knots[n].version <= u
      BY <1>1, <1>6, <2>1, <3>1 DEF Flat
    <3>3. u \in Nat /\ u \in Int /\ u <= c
      BY <1>6, <3>1
    <3> QED
      BY <1>6, <3>1, <3>2, <3>3, HeadFindsItself
  <2>2. CASE v # VersionHead
    <3>1. u = v /\ v \in Nat /\ v <= c
      BY <1>4, <1>6, <2>2 DEF AtVersion
    <3>2. Revise(n, v) = n
      BY <1>6, <1>7, FoundAgain
    <3>3. knots[n].version <= v
      BY <1>6, <1>7, RevisedIs
    <3> QED
      BY <3>1, <3>2, <3>3
  <2> QED
    BY <2>1, <2>2
<1>9. PICK q \in Refs : /\ IsFirst(q) /\ knots[q].version <= knots[n].version
                       /\ \A x \in Int : Revise(q, x) = Revise(n, x)
  BY <1>6, FirstExists
<1>10. IsRoot(q) /\ knots[q].version <= u /\ Revise(q, u) = n
  BY <1>6, <1>8, <1>9 DEF IsRoot, IsFirst
<1>11. Held(q, u) = [k \in Keys |-> Told(nodes[n], u, k)]
  BY <1>10 DEF Held, Reads
<1>12. Orderly(copy, c)
  BY <1>3, <1>4, <1>6, DeflatedFits, SortedIsOrderly
<1>13. \A k \in Keys : Told(copy, c, k) = Told(nodes[n], u, k)
  <2>1. copy \in Sorted(Deflated(nodes[n], u)) /\ c \in Int /\ u \in Int
    BY <1>3, <1>4, <1>8
  <2> QED
    BY <1>6, <1>8, <1>12, <2>1, CopyTells
<1>14. /\ Held(new, c) = Absent
       /\ Held(new, c)' = [k \in Keys |-> Told(copy, c, k)]
  <2>1. \A x \in Nat : x = Latest =>
          /\ Held(new, x) = Absent
          /\ Held(new, x)' = [k \in Keys |-> Told(copy, x, k)]
    <3>1. RefAlloc(Node, EditBSize[Node], new)
      BY <1>2
    <3>2. nodes' = [nodes EXCEPT ![new] = copy]
      BY <1>3
    <3> QED
      BY <3>1, <3>2, PlacedReads
  <2> QED
    BY <1>5, <2>1
<1>15. Held(new, c)' = Held(q, u)
  BY <1>11, <1>13, <1>14
<1>16. Held(new, c)' # Absent
  <2>1. Held(q, u) # Absent
    BY <1>8, <1>10, HeldTyped
  <2> QED
    BY <1>15, <2>1
<1>17. u = c \/ u \in 1 .. headVersion
  BY <1>6, <1>8
<1>18. \E m \in Refs, x \in Nat : (x = c \/ x \in 1 .. headVersion) /\ Held(new, c)' = Held(m, x)
  BY <1>8, <1>15, <1>17
<1> QED
  BY <1>2, <1>3, <1>5, <1>14, <1>16, <1>18, PlacedReads, OneChanges

(* What is given back is as if it had never been given out. *)
LEMMA RefusedNow ==
    ASSUME StoreInv, StoreInv', NEW n, NEW w, SetTooMany(n, w)
    PROVE  UNCHANGED Store!storeVars
<1>1. PICK new \in Refs : PlaceNew(new)
  BY DEF SetTooMany
<1>2. /\ AllocPlace(Node, EditBSize[Node], new) /\ knots' = knots /\ nodes' = nodes
      /\ UNCHANGED <<headVersion, currVersion>>
  BY <1>1 DEF SetTooMany, PlaceNew
<1>3. ZoneInv /\ ZoneInv' /\ RevisionIntegrity
  BY StoreFacts DEF StoreInv, NodeInv
<1>4. \A s \in Refs : Allocated(s)' <=> Allocated(s)
  BY <1>2, <1>3, NodeSizes, PlacedKnots
<1>5. ASSUME NEW r \in Refs, NEW v \in Nat PROVE Held(r, v)' = Held(r, v)
  <2>1. IsRoot(r)' <=> IsRoot(r)
    BY <1>2, <1>4 DEF IsRoot
  <2>2. CASE ~IsRoot(r)
    BY <2>1, <2>2 DEF Held
  <2>3. CASE IsRoot(r)
    <3>1. Allocated(r) /\ v \in Int
      BY <2>3 DEF IsRoot
    <3>2. PICK q : q = Revise(r, v)
      OBVIOUS
    <3>3. Revise(r, v)' = q
      BY <1>2, <1>3, <1>4, <3>1, <3>2, ReviseStays
    <3>4. \A k \in Keys : Reads(r, v, k)' = Reads(r, v, k)
      BY <1>2, <3>2, <3>3, ReadsNewly DEF Reads
    <3> QED
      BY <1>2, <2>1, <2>3, <3>4 DEF Held
  <2> QED
    BY <2>2, <2>3
<1> QED
  BY <1>2, <1>5, StoreStutters

(* Nothing happens to knots and nodes. *)
LEMMA SameHeld ==
    ASSUME StoreInv, StoreInv', UNCHANGED <<knots, pages, nodes>>,
           NEW r \in Refs, NEW v \in Nat
    PROVE  Held(r, v)' = Held(r, v)
<1>1. \A s \in Refs : (Allocated(s)' <=> Allocated(s)) /\ (IsRoot(s)' <=> IsRoot(s))
  BY DEF Allocated, PageOf, IsRoot
<1>2. CASE ~IsRoot(r)
  BY <1>1, <1>2 DEF Held
<1>3. CASE IsRoot(r)
  <2>1. Allocated(r) /\ v \in Int /\ ZoneInv /\ ZoneInv' /\ RevisionIntegrity
    BY <1>3, StoreFacts DEF IsRoot, StoreInv, NodeInv
  <2>2. PICK q : q = Revise(r, v)
    OBVIOUS
  <2>3. Revise(r, v)' = q
    BY <1>1, <2>1, <2>2, ReviseStays
  <2>4. \A k \in Keys : Reads(r, v, k)' = Reads(r, v, k)
    BY <2>2, <2>3, ReadsNewly DEF Reads
  <2> QED
    BY <1>1, <1>3, <2>4 DEF Held
<1> QED
  BY <1>2, <1>3

(* Versions that nothing is newer than read alike. *)
LEMMA HeldLater ==
    ASSUME StoreInv, NEW r \in Refs, NEW v \in Nat, NEW w \in Nat, Latest <= v, v <= w
    PROVE  Held(r, v) = Held(r, w)
<1>1. /\ ZoneInv /\ RevisionIntegrity /\ Listed /\ Latest \in Nat
      /\ \A s \in Refs : knots[s].version \in Nat /\ knots[s].version <= Latest
  BY StoreFacts
<1>2. \A s \in Refs : knots[s].version <= v /\ knots[s].version <= w
  BY <1>1
<1>3. CASE ~IsRoot(r)
  BY <1>3 DEF Held
<1>4. CASE IsRoot(r)
  <2>1. Allocated(r) /\ v \in Int /\ w \in Int
    BY <1>4 DEF IsRoot
  <2>2. PICK q : q = Revise(r, v)
    OBVIOUS
  <2>3. q = Revise(r, w)
    BY <1>1, <1>2, <2>1, <2>2, NewestAgree
  <2>4. Orderly(nodes[q], Latest)
    BY <1>2, <2>1, <2>2, RevisedIs
  <2>5. \A j \in 1 .. Len(nodes[q]) : nodes[q][j].version <= v /\ nodes[q][j].version <= w
    <3>1. \A j \in 1 .. Len(nodes[q]) :
            nodes[q][j].version \in Nat /\ nodes[q][j].version <= Latest
      BY <2>4, OrderlyFields DEF Orderly
    <3> QED
      BY <1>1, <3>1
  <2>6. ASSUME NEW k PROVE Told(nodes[q], v, k) = Told(nodes[q], w, k)
    <3>1. Of(nodes[q], v, k) = Of(nodes[q], w, k)
      BY <2>5 DEF Of
    <3> QED
      BY <3>1 DEF Told
  <2>7. \A k \in Keys : Reads(r, v, k) = Reads(r, w, k)
    BY <2>2, <2>3, <2>6 DEF Reads
  <2> QED
    BY <1>2, <1>4, <2>7 DEF Held
<1> QED
  BY <1>3, <1>4

LEMMA BeginNow ==
    ASSUME StoreInv, StoreInv', BeginTransaction
    PROVE  Store!StoreNext
<1>1. PICK h \in Nat : h = headVersion
  BY StoreFacts
<1>2. /\ ~Transacting /\ Transacting' /\ Latest = h /\ Latest' = h + 1
      /\ headVersion' = h /\ UNCHANGED <<pages, knots, nodes>>
  BY <1>1 DEF BeginTransaction, Begin, Transacting, Latest, VersionNone
<1>3. StoreIs /\ StoreIs' /\ h + 1 \in Nat
  BY StoreNow, StoreThen
<1>4. \A v \in Nat : Snap(v)' = Snap(v)
  BY <1>2, SameHeld DEF Snap
<1>5. Past' = Past
  <2>1. Past = [v \in 1 .. h |-> Snap(v)] /\ Past' = [v \in 1 .. h |-> Snap(v)']
    BY <1>1, <1>2, <1>3 DEF StoreIs
  <2> QED
    BY <1>4, <2>1
<1>6. Snap(h + 1) = Snap(h)
  <2>1. h <= h /\ h <= h + 1
    OBVIOUS
  <2>2. \A r \in Refs : Held(r, h) = Held(r, h + 1)
    BY <1>2, <1>3, <2>1, HeldLater
  <2> QED
    BY <2>2 DEF Snap
<1>7. Live' = Live
  <2>1. Live = Snap(h)
    BY <1>2, <1>3 DEF StoreIs
  <2>2. Live' = Snap(h + 1)'
    BY <1>2, <1>3 DEF StoreIs
  <2> QED
    BY <1>3, <1>4, <1>6, <2>1, <2>2
<1> QED
  BY <1>2, <1>5, <1>7 DEF Store!StoreNext, Store!BeginVersion, Live, Past, Transacting

(* A list of one more. *)
LEMMA OneMore ==
    ASSUME NEW h \in Nat
    PROVE  [v \in 1 .. h + 1 |-> Snap(v)] = Append([v \in 1 .. h |-> Snap(v)], Snap(h + 1))
<1> DEFINE S == {Snap(v) : v \in Nat}
           s == [v \in 1 .. h |-> Snap(v)]
           t == [v \in 1 .. h + 1 |-> Snap(v)]
<1>1. s \in Seq(S) /\ Len(s) = h
  OBVIOUS
<1>2. t \in Seq(S) /\ Len(t) = h + 1
  OBVIOUS
<1>3. Snap(h + 1) \in S
  OBVIOUS
<1> HIDE DEF S
<1>4. /\ \A i \in 1 .. h : t[i] = s[i]
      /\ t[h + 1] = Snap(h + 1)
  OBVIOUS
<1> HIDE DEF s, t
<1>5. /\ Append(s, Snap(h + 1)) \in Seq(S) /\ Len(Append(s, Snap(h + 1))) = h + 1
      /\ \A i \in 1 .. h : Append(s, Snap(h + 1))[i] = s[i]
      /\ Append(s, Snap(h + 1))[h + 1] = Snap(h + 1)
  BY <1>1, <1>3, AppendProperties
<1>6. \A i \in 1 .. h + 1 : t[i] = Append(s, Snap(h + 1))[i]
  BY <1>4, <1>5
<1>7. t = Append(s, Snap(h + 1))
  BY <1>2, <1>5, <1>6, SeqEqual
<1> QED
  BY <1>7 DEF s, t

LEMMA EndNow ==
    ASSUME StoreInv, StoreInv', EndTransaction
    PROVE  Store!StoreNext
<1>1. PICK h \in Nat : h = headVersion
  BY StoreFacts
<1>2. /\ Transacting /\ ~Transacting' /\ Latest = h + 1 /\ Latest' = h + 1
      /\ headVersion' = h + 1 /\ UNCHANGED <<pages, knots, nodes>>
  <2>1. Transacting
    BY DEF EndTransaction, End
  <2>2. Latest = h + 1 /\ currVersion = h + 1
    BY <1>1, <2>1, StoreFacts
  <2> QED
    BY <1>1, <2>1, <2>2 DEF EndTransaction, End, Transacting, Latest
<1>3. StoreIs /\ StoreIs' /\ h + 1 \in Nat
  BY StoreNow, StoreThen
<1>4. \A v \in Nat : Snap(v)' = Snap(v)
  BY <1>2, SameHeld DEF Snap
<1>5. Live = Snap(h + 1) /\ Live' = Snap(h + 1)
  <2>1. Live = Snap(h + 1)
    BY <1>2, <1>3 DEF StoreIs
  <2>2. Live' = Snap(h + 1)'
    BY <1>2, <1>3 DEF StoreIs
  <2> QED
    BY <1>3, <1>4, <2>1, <2>2
<1>6. Past' = Append(Past, Live)
  <2>1. Past = [v \in 1 .. h |-> Snap(v)]
    BY <1>1, <1>3 DEF StoreIs
  <2>2. Past' = [v \in 1 .. h + 1 |-> Snap(v)']
    BY <1>2, <1>3 DEF StoreIs
  <2>3. Past' = [v \in 1 .. h + 1 |-> Snap(v)]
    BY <1>4, <2>2
  <2> QED
    BY <1>5, <2>1, <2>3, OneMore
<1> QED
  BY <1>2, <1>5, <1>6 DEF Store!StoreNext, Store!EndVersion, Live, Past, Transacting

LEMMA AbstractInit == Init => Store!StoreInit
<1> SUFFICES ASSUME Init PROVE Store!StoreInit
  OBVIOUS
<1>1. /\ headVersion = 0 /\ ~Transacting /\ \A r \in Refs : ~IsRoot(r)
  BY DEF Init, ZoneInit, IsRoot, Allocated, Transacting, FreeKnot, VersionNone
<1>2. Live = [r \in Refs |-> Absent]
  BY <1>1 DEF Live, Contents
<1>3. Past = <<>>
  BY <1>1 DEF Past
<1> QED
  BY <1>1, <1>2, <1>3 DEF Store!StoreInit, Live, Past, Transacting

LEMMA DefectsStay ==
    ASSUME [Next]_vars, defect' = "none"
    PROVE  defect = "none"
BY DEF Next, vars, BeginTransaction, EndTransaction, NodeAlloc, Set, SetAppend,
       SetSpillKnown, SetSpillNew, SetTooMany, NodeDuplicate

LEMMA AbstractStep ==
    ASSUME StoreInv, StoreInv', [Next]_vars, defect' = "none"
    PROVE  Store!StoreNext \/ UNCHANGED Store!storeVars
<1>1. CASE UNCHANGED vars
  <2>1. UNCHANGED <<headVersion, currVersion, knots, pages, nodes>>
    BY <1>1 DEF vars
  <2>2. \A r \in Refs, v \in Nat : v <= Latest => Held(r, v)' = Held(r, v)
    BY <2>1, SameHeld
  <2> QED
    BY <2>1, <2>2, StoreStutters
<1>2. CASE BeginTransaction
  BY <1>2, BeginNow
<1>3. CASE EndTransaction
  BY <1>3, EndNow
<1>4. ASSUME NEW new \in Refs, NodeAlloc(new) PROVE Store!StoreNext
  BY <1>4, CreatedNow
<1>5. ASSUME NEW n, NEW k \in Keys, NEW w \in Values \cup {Unset}, Set(n, k, w)
      PROVE  Store!StoreNext
  BY <1>5, WrittenNow
<1>6. ASSUME NEW n, NEW w, SetTooMany(n, w) PROVE UNCHANGED Store!storeVars
  BY <1>6, RefusedNow
<1>7. ASSUME NEW r \in Refs, NEW v \in (1 .. currVersion) \cup {VersionHead},
             NodeDuplicate(r, v)
      PROVE  Store!StoreNext
  BY <1>7, CopiedNow
<1> QED
  BY <1>1, <1>2, <1>3, <1>4, <1>5, <1>6, <1>7 DEF Next

LEMMA StoreHolds == Spec => [](defect = "none" => StoreInv)
BY ReadersHold, PTL DEF StoreInv

(* For any keys, values, nodes and modifiers per node: up to the first defect
   the nodes are the store that the fat model promises.  fm_nodeSet changes
   one key of one node as the open transaction sees it, whether it appends or
   replaces a full node by a revision, fm_end keeps what was seen as the next
   version, and no call changes what fm_nodeGet reads in a version that was
   kept. *)
THEOREM NodesAreVersioned == Spec => Versioned
<1>1. (defect = "none" => StoreInv) /\ (defect = "none" => StoreInv)' /\ [Next]_vars =>
        [defect' = "none" => Store!StoreNext \/ UNCHANGED Store!storeVars]_vars
  BY DefectsStay, AbstractStep
<1> QED
  BY <1>1, AbstractInit, StoreHolds, PTL DEF Spec, Versioned

(* A caller of fm_nodeSet that goes on with the revision it gave, a head,
   reads in the open version what it set, and of every other key what it
   read before, whether the node was full or not. *)
THEOREM SetsAreSeen == Spec => SetIsSeen
<1> DEFINE Seen ==
      \A n \in Newest, k \in Keys, w \in Values \cup {Unset} :
          Set(n, k, w) /\ defect' = "none" =>
             \A l \in Keys :
                Raw(n, currVersion, l)' = IF l = k THEN w ELSE Raw(n, currVersion, l)
<1>1. ASSUME StoreInv, StoreInv', NEW n, NEW k \in Keys, NEW w \in Values \cup {Unset},
             Set(n, k, w), defect' = "none", NEW l \in Keys
      PROVE  Raw(n, currVersion, l)' = IF l = k THEN w ELSE Raw(n, currVersion, l)
  <2>1. /\ n \in Refs /\ Allocated(n) /\ IsHead(n) /\ Transacting /\ ZoneInv
        /\ UNCHANGED <<headVersion, currVersion>> /\ knots[n].version <= currVersion
        /\ Latest = currVersion /\ currVersion \in Nat
    BY <1>1, SetHappens, StoreFacts
  <2>2. PICK c \in Nat : c = currVersion
    BY <2>1
  <2>3. c # VersionNone /\ c = Latest /\ c = Latest' /\ c = currVersion'
    BY <2>1, <2>2 DEF Transacting, Latest
  <2>4. Revise(n, c) = n /\ n # BadRef
    BY <2>1, <2>2, HeadFindsItself, BadIsNone
  <2>5. /\ Allocated(n)' /\ Revise(n, c)' # BadRef
        /\ Reads(n, c, l)' = IF l = k THEN w ELSE Reads(n, c, l)
    <3>1. SetOnly(n, k, w)
      BY <1>1, SetTells
    <3> QED
      BY <1>1, <2>1, <2>2, <2>4, <3>1 DEF SetOnly
  <2>6. Raw(n, c, l) = Reads(n, c, l)
    BY <1>1, <2>1, <2>2, <2>3, <2>4, ReadsNow DEF AllReads
  <2>7. Raw(n, c, l)' = Reads(n, c, l)'
    BY <1>1, <2>1, <2>3, <2>5, ReadsNext DEF AllReads
  <2>8. Raw(n, currVersion, l) = Raw(n, c, l) /\ Raw(n, currVersion, l)' = Raw(n, c, l)'
    BY <2>2, <2>3 DEF Raw
  <2> QED
    BY <2>5, <2>6, <2>7, <2>8
<1>2. (defect = "none" => StoreInv) /\ (defect = "none" => StoreInv)' /\ [Next]_vars
        => [Seen]_vars
  <2> SUFFICES ASSUME defect = "none" => StoreInv, (defect = "none" => StoreInv)', [Next]_vars
               PROVE  Seen
    OBVIOUS
  <2> SUFFICES ASSUME NEW n \in Newest, NEW k \in Keys, NEW w \in Values \cup {Unset},
                      Set(n, k, w), defect' = "none", NEW l \in Keys
               PROVE  Raw(n, currVersion, l)' = IF l = k THEN w ELSE Raw(n, currVersion, l)
    OBVIOUS
  <2>1. defect = "none"
    BY DefectsStay
  <2> QED
    BY <1>1, <2>1
<1> QED
  BY <1>2, StoreHolds, PTL DEF Spec, SetIsSeen
=============================================================================
