-------------------------- MODULE FatReaderProofs --------------------------
(***************************************************************************)
(* What a reader without a lock rests on, for nodes of any capacity and    *)
(* any number of revisions, versions, keys and values.                     *)
(***************************************************************************)
EXTENDS FatReader, FiniteSetTheorems, WellFoundedInduction, TLAPS

Knots == [version : Nat, prev : Revs \cup {BadRef}, next : Revs \cup {BadRef}]

(* The modifiers, whatever they are, are NodeLoad to a revision. *)
Typed ==
    /\ headVersion \in Nat /\ currVersion \in Nat
    /\ knots \in [Revs -> Knots]
    /\ cnt \in [Revs -> 0 .. NodeLoad]
    /\ DOMAIN mods = Revs
    /\ \A n \in Revs : DOMAIN mods[n] = 1 .. NodeLoad

(* The writer fills the modifier behind those that count, and what it is     *)
(* about to link comes next to what it links it to.                          *)
WriterAt ==
    /\ writer.pc = "fill" =>
          writer.node \in Revs /\ writer.at \in 1 .. NodeLoad
          /\ writer.at = cnt[writer.node] + 1
    /\ writer.pc \in {"link", "back"} =>
          writer.from \in Revs /\ writer.to \in Revs /\ writer.to = writer.from + 1

(* A revision leads to the next one or to none. *)
Chain == \A n \in Revs : knots[n].next \in {BadRef, n + 1}

ReaderInv == Typed /\ WriterAt /\ Chain

(* What comes after a revision that leads nowhere cannot be reached. *)
LEMMA NewUnseen ==
    ASSUME ReaderInv, NEW n \in Revs, IsHead(n), NEW new \in Revs, new = n + 1
    PROVE  new \notin Held
<1> USE ReaderAssumption DEF ReaderAssumption
<1>1. new # Root /\ new # BadRef
  BY DEF Root, Revs, BadRef
<1>2. ASSUME NEW m \in Revs PROVE knots[m].next # new
  <2>1. CASE m = n
    BY <1>1, <2>1 DEF IsHead
  <2>2. CASE m # n
    BY <1>1, <2>2 DEF ReaderInv, Chain, Revs
  <2> QED
    BY <2>1, <2>2
<1> QED
  BY <1>1, <1>2 DEF Held

(* The new modifier takes the place of one that was in force. *)
LEMMA ReducedFits ==
    ASSUME NEW n, NEW k, NEW w, NEW s \in Reduced(n, k, w)
    PROVE  Len(s) \in 0 .. NodeLoad
<1> USE ReaderAssumption DEF ReaderAssumption
<1> DEFINE m == Mod(currVersion, k, w)
<1>1. PICK old \in InForce(n) :
        Cardinality(InForce(n)) < NodeLoad /\ s \in Sorted((InForce(n) \ {old}) \cup {m})
  BY DEF Reduced
<1> DEFINE rest == InForce(n) \ {old}
<1>2. IsFiniteSet(InForce(n))
  <2> DEFINE f == [key \in Keys |-> Newest(Written(n), key)]
             T == {Newest(Written(n), key) : key \in Keys}
  <2>1. f \in Surjection(Keys, T)
    BY DEF Surjection
  <2>2. IsFiniteSet(T)
    BY <2>1, FS_Surjection
  <2> QED
    BY <2>2, FS_Subset DEF InForce
<1>3. IsFiniteSet(rest) /\ Cardinality(rest) = Cardinality(InForce(n)) - 1
  BY <1>1, <1>2, FS_RemoveElement
<1>4. Cardinality(InForce(n)) \in Nat /\ Cardinality(rest) \in Nat
  BY <1>2, <1>3, FS_CardinalityType
<1>5. Cardinality(rest \cup {m}) \in {Cardinality(rest), Cardinality(rest) + 1}
  BY <1>3, FS_AddElement
<1> HIDE DEF m, rest
<1>6. s \in [1 .. Cardinality(rest \cup {m}) -> rest \cup {m}]
  BY <1>1 DEF Sorted, rest
<1>7. Len(s) = Cardinality(rest \cup {m})
  BY <1>4, <1>5, <1>6
<1> QED
  BY <1>1, <1>3, <1>4, <1>5, <1>7

LEMMA InitReader == Init => ReaderInv
<1> SUFFICES ASSUME Init PROVE ReaderInv
  OBVIOUS
<1> USE ReaderAssumption DEF ReaderAssumption
<1>1. knots \in [Revs -> Knots]
  BY DEF Init, Knots, VersionNone, BadRef
<1>2. /\ headVersion \in Nat /\ currVersion \in Nat /\ cnt \in [Revs -> 0 .. NodeLoad]
      /\ DOMAIN mods = Revs /\ \A n \in Revs : DOMAIN mods[n] = 1 .. NodeLoad
  BY DEF Init, VersionNone
<1>3. writer.pc = "idle" /\ \A n \in Revs : knots[n].next = BadRef
  BY DEF Init
<1> QED
  BY <1>1, <1>2, <1>3 DEF ReaderInv, Typed, WriterAt, Chain

(* Every step keeps the invariant, and leaves what counts as it is. *)
Counted == \A n \in Held : \A j \in 1 .. cnt[n] : mods'[n][j] = mods[n][j]

LEMMA ReaderStep == ReaderInv /\ [Next]_vars => ReaderInv' /\ Counted
<1> SUFFICES ASSUME ReaderInv, [Next]_vars PROVE ReaderInv' /\ Counted
  OBVIOUS
<1> USE ReaderAssumption DEF ReaderAssumption
<1>1. Typed /\ WriterAt /\ Chain
  BY DEF ReaderInv
<1>2. Held \subseteq Revs /\ \A n \in Revs : cnt[n] \in 0 .. NodeLoad
  BY <1>1 DEF Held, Typed, Root, Revs, Knots
<1>3. ASSUME UNCHANGED <<memory, writer>> PROVE ReaderInv' /\ Counted
  BY <1>1, <1>3 DEF memory, ReaderInv, Typed, WriterAt, Chain, Counted
<1>4. CASE UNCHANGED vars
  BY <1>3, <1>4 DEF vars
<1>5. CASE Begin \/ EndHead \/ EndCurr
  <2>1. /\ UNCHANGED <<knots, mods, cnt>> /\ writer'.pc \notin {"fill", "link", "back"}
        /\ headVersion' \in Nat /\ currVersion' \in Nat
    BY <1>1, <1>5 DEF Begin, EndHead, EndCurr, Idle, Typed, VersionNone
  <2> QED
    BY <1>1, <2>1 DEF ReaderInv, Typed, WriterAt, Chain, Counted
<1>6. ASSUME NEW n \in Revs, NEW k, NEW w, Set(n, k, w) PROVE ReaderInv' /\ Counted
  <2>1. /\ UNCHANGED memory
        /\ writer'.pc = "fill" /\ writer'.node = n /\ writer'.at = cnt[n] + 1
        /\ cnt[n] < NodeLoad
    BY <1>6 DEF Set
  <2>2. WriterAt'
    BY <1>1, <2>1 DEF WriterAt, Typed, memory
  <2> QED
    BY <1>1, <2>1, <2>2 DEF memory, ReaderInv, Typed, Chain, Counted
<1>7. ASSUME NEW f \in Fields, StoreField(f) PROVE ReaderInv' /\ Counted
  <2>1. /\ writer.pc = "fill" /\ writer.node \in Revs /\ writer.at = cnt[writer.node] + 1
        /\ mods' = [mods EXCEPT ![writer.node][writer.at][f] = writer.mod[f]]
        /\ writer' = [writer EXCEPT !.left = @ \ {f}]
        /\ UNCHANGED <<headVersion, currVersion, knots, cnt>>
    BY <1>1, <1>7 DEF StoreField, WriterAt
  <2>2. /\ DOMAIN mods' = Revs /\ \A n \in Revs : DOMAIN mods'[n] = 1 .. NodeLoad
    BY <1>1, <2>1 DEF Typed
  <2>3. /\ writer'.pc = writer.pc /\ writer'.node = writer.node /\ writer'.at = writer.at
    BY <2>1
  <2>4. Counted
    <3> SUFFICES ASSUME NEW n \in Held, NEW j \in 1 .. cnt[n]
                 PROVE  mods'[n][j] = mods[n][j]
      BY DEF Counted
    <3>1. n \in Revs /\ j \in 1 .. NodeLoad /\ (n = writer.node => j # writer.at)
      BY <1>2, <2>1
    <3> QED
      BY <1>1, <2>1, <3>1 DEF Typed
  <2> QED
    BY <1>1, <2>1, <2>2, <2>3, <2>4 DEF ReaderInv, Typed, WriterAt, Chain
<1>8. CASE StoreCount
  <2>1. /\ writer.node \in Revs /\ writer.at \in 1 .. NodeLoad
        /\ cnt' = [cnt EXCEPT ![writer.node] = writer.at]
        /\ writer'.pc = "idle" /\ UNCHANGED <<headVersion, currVersion, knots, mods>>
    BY <1>1, <1>8 DEF StoreCount, WriterAt
  <2> QED
    BY <1>1, <2>1 DEF ReaderInv, Typed, WriterAt, Chain, Counted
<1>9. ASSUME NEW n \in Revs, NEW k, NEW w, Spill(n, k, w) PROVE ReaderInv' /\ Counted
  <2>1. PICK new \in Revs, s \in Reduced(n, k, w) :
          /\ new = n + 1
          /\ mods' = [mods EXCEPT ![new] = Padded(s)]
          /\ cnt' = [cnt EXCEPT ![new] = Len(s)]
          /\ knots' = [knots EXCEPT ![new].version = currVersion]
          /\ writer' = [pc |-> "link", from |-> n, to |-> new]
    BY <1>9 DEF Spill
  <2>2. IsHead(n) /\ UNCHANGED <<headVersion, currVersion>>
    BY <1>9 DEF Spill
  <2>3. new \notin Held
    BY <2>1, <2>2, NewUnseen
  <2>4. Len(s) \in 0 .. NodeLoad
    BY ReducedFits
  <2>5. /\ DOMAIN mods' = Revs /\ \A m \in Revs : DOMAIN mods'[m] = 1 .. NodeLoad
    BY <1>1, <2>1 DEF Typed, Padded
  <2>6. /\ knots' \in [Revs -> Knots] /\ \A m \in Revs : knots'[m].next = knots[m].next
    BY ZenonT(60), <1>1, <2>1 DEF Typed, Knots
  <2>7. writer'.pc = "link" /\ writer'.from = n /\ writer'.to = new
    BY <2>1
  <2>8. Counted
    BY <1>1, <1>2, <2>1, <2>3 DEF Counted, Typed
  <2>9. cnt' \in [Revs -> 0 .. NodeLoad]
    BY <1>1, <2>1, <2>4 DEF Typed
  <2> QED
    BY <1>1, <2>1, <2>2, <2>5, <2>6, <2>7, <2>8, <2>9
       DEF ReaderInv, Typed, WriterAt, Chain
<1>10. CASE LinkNext
  <2>1. /\ writer.pc = "link" /\ writer.from \in Revs /\ writer.to \in Revs
        /\ writer.to = writer.from + 1
        /\ knots' = [knots EXCEPT ![writer.from].next = writer.to]
        /\ writer' = [writer EXCEPT !.pc = "back"]
        /\ UNCHANGED <<headVersion, currVersion, mods, cnt>>
    BY <1>1, <1>10 DEF LinkNext, WriterAt
  <2>2. /\ knots' \in [Revs -> Knots]
        /\ \A m \in Revs : knots'[m].next =
              IF m = writer.from THEN writer.to ELSE knots[m].next
    BY ZenonT(60), <1>1, <2>1 DEF Typed, Knots
  <2>3. writer'.pc = "back" /\ writer'.from = writer.from /\ writer'.to = writer.to
    BY <2>1
  <2> QED
    BY <1>1, <2>1, <2>2, <2>3 DEF ReaderInv, Typed, WriterAt, Chain, Counted
<1>11. CASE LinkPrev
  <2>1. /\ writer.from \in Revs /\ writer.to \in Revs
        /\ knots' = [knots EXCEPT ![writer.to].prev = writer.from]
        /\ writer'.pc = "idle"
        /\ UNCHANGED <<headVersion, currVersion, mods, cnt>>
    BY <1>1, <1>11 DEF LinkPrev, WriterAt
  <2>2. /\ knots' \in [Revs -> Knots]
        /\ \A m \in Revs : knots'[m].next = knots[m].next
    BY ZenonT(60), <1>1, <2>1 DEF Typed, Knots
  <2> QED
    BY <1>1, <2>1, <2>2 DEF ReaderInv, Typed, WriterAt, Chain, Counted
<1>12. ASSUME NEW n, NEW v, NEW k, Get(n, v, k) PROVE ReaderInv' /\ Counted
  BY <1>3, <1>12 DEF Get
<1>13. CASE Reading
  BY <1>3, <1>13
     DEF Reading, ReviseDown, ReviseUp, LoadVersion, LoadCount, Scan, Return
<1> QED
  BY <1>4, <1>5, <1>6, <1>7, <1>8, <1>9, <1>10, <1>11, <1>12, <1>13 DEF Next, WriterNext

(* Whatever a thread can reach, and may be reading, stays what it is up to   *)
(* the count: fm_nodeSet stores only behind the count, and a new revision is *)
(* complete before anything leads to it (fm_core.cpp, fm_nodeSet).           *)
THEOREM CountedNeverChanges == Spec => CountedStays
<1>1. Init => ReaderInv
  BY InitReader
<1>2. ReaderInv /\ [Next]_vars => ReaderInv'
  BY ReaderStep
<1>3. ReaderInv /\ [Next]_vars =>
        [\A n \in Held : \A j \in 1 .. cnt[n] : mods'[n][j] = mods[n][j]]_vars
  BY ReaderStep DEF Counted
<1> QED
  BY <1>1, <1>2, <1>3, PTL DEF Spec, CountedStays

---------------------------------------------------------------------------
(* What holds of the revisions between the stores *)

Fresh == IF currVersion = VersionNone THEN headVersion ELSE currVersion
Exists(n) == knots[n].version # VersionNone

Modifiers == [version : Nat, key : Keys \cup {Unset}, value : Data \cup {Unset}]

(* The version that is written, and who may be writing it. *)
Versions ==
    /\ headVersion \in 1 .. MaxVersion
    /\ writer.pc \in {"idle", "fill", "link", "back", "close"}
    /\ currVersion \in {VersionNone, IF writer.pc = "close" THEN headVersion ELSE headVersion + 1}
    /\ Fresh <= MaxVersion
    /\ writer.pc # "idle" => currVersion # VersionNone

(* The revisions are numbered as they come, with rising versions. *)
Rising ==
    /\ knots[Root].version = 1
    /\ \A n \in Revs : knots[n].version <= Fresh
    /\ \A m, n \in Revs : m < n /\ Exists(n) =>
          Exists(m) /\ knots[m].version < knots[n].version

(* Each is linked to its neighbours, up to what the writer is about to link. *)
Linked ==
    /\ writer.pc \in {"link", "back"} =>
          /\ writer.to \in Revs /\ writer.to = writer.from + 1 /\ writer.from \in Revs
          /\ knots[writer.to].version = currVersion
          /\ \A n \in Revs : Exists(n) => n <= writer.to
    /\ \A n \in Revs : knots[n].next =
          IF n + 1 \in Revs /\ Exists(n + 1) /\ ~(writer.pc = "link" /\ writer.to = n + 1)
          THEN n + 1 ELSE BadRef
    /\ \A n \in Revs : knots[n].prev =
          IF n # Root /\ Exists(n) /\ ~(writer.pc \in {"link", "back"} /\ writer.to = n)
          THEN n - 1 ELSE BadRef

(* The modifiers that count are ordered by version, and the one that is being
   written holds what was stored of it. *)
Modified ==
    /\ mods \in [Revs -> [1 .. NodeLoad -> Modifiers]]
    /\ cnt \in [Revs -> 0 .. NodeLoad]
    /\ \A n \in Revs : Exists(n) => \A j \in 1 .. cnt[n] :
          /\ mods[n][j].version <= Fresh
          /\ \A i \in 1 .. j : mods[n][i].version <= mods[n][j].version
    /\ writer.pc = "fill" =>
          /\ writer.node \in Revs /\ Exists(writer.node)
          /\ writer.at \in 1 .. NodeLoad /\ writer.at = cnt[writer.node] + 1
          /\ writer.mod \in Modifiers /\ writer.mod.version = currVersion
          /\ \A f \in Fields \ writer.left : mods[writer.node][writer.at][f] = writer.mod[f]

(* What n says of key k at version v, by its first e modifiers. *)
Of(n, e, v, k) == {j \in 1 .. e : mods[n][j].key = k /\ mods[n][j].version <= v}
ValueAt(n, e, v, k) ==
    IF Of(n, e, v, k) = {} THEN Unset ELSE mods[n][Max(Of(n, e, v, k))].value

(* n is the revision that is in force at version v. *)
InForceAt(n, v) ==
    /\ n \in Revs /\ Exists(n) /\ knots[n].version <= v
    /\ \A m \in Revs : m > n /\ Exists(m) => v < knots[m].version

(* Each committed version is still there to be read. *)
Kept ==
    /\ past \in Seq([Keys -> Data \cup {Unset}]) /\ Len(past) = headVersion
    /\ \A h \in 1 .. headVersion : \A n \in Revs : InForceAt(n, h) =>
          \A k \in Keys : past[h][k] = ValueAt(n, cnt[n], h, k)

(* A read the promises are made for, and one that knows its version. *)
Sure == IF reader.asked = VersionHead THEN ~reader.torn ELSE reader.backed

Asking == reader.pc # "idle" =>
    /\ reader.pc \in {"down", "up", "version", "count", "scan", "done"}
    /\ reader.key \in Keys
    /\ reader.since \in 1 .. headVersion
    /\ reader.asked = VersionHead \/ reader.asked = reader.since
    /\ reader.pc # "done" /\ reader.asked # VersionHead => reader.version = reader.asked

(* The walk along the links: it has not come past the revision in force. *)
Walking == reader.pc # "idle" /\ Sure =>
    /\ reader.pc = "down" =>
          /\ reader.ref \in Revs /\ Exists(reader.ref) /\ Backed(reader.ref)
          /\ reader.asked # VersionHead
          /\ reader.version < knots[reader.ref].version
    /\ reader.pc = "up" /\ reader.asked # VersionHead =>
          reader.ref \in Revs /\ Exists(reader.ref) /\ knots[reader.ref].version <= reader.version
    /\ reader.pc = "version" /\ reader.asked # VersionHead => InForceAt(reader.ref, reader.version)
    /\ reader.pc \in {"up", "version"} /\ reader.asked = VersionHead =>
          /\ reader.version = VersionHead
          /\ reader.ref \in Held /\ \A m \in Held : ~OfOpen(m)
          /\ reader.pc = "version" => knots[reader.ref].next = BadRef

(* The look at the modifiers: what was found is what the first of them say. *)
Looking == reader.pc # "idle" /\ Sure =>
    /\ reader.pc \in {"count", "scan"} =>
          /\ reader.version \in reader.since .. headVersion
          /\ InForceAt(reader.ref, reader.version)
    /\ reader.pc = "scan" =>
          /\ reader.end \in 0 .. cnt[reader.ref] /\ reader.at \in 1 .. reader.end + 1
          /\ \A j \in reader.end + 1 .. cnt[reader.ref] :
                mods[reader.ref][j].version > reader.version
          /\ reader.value = ValueAt(reader.ref, reader.at - 1, reader.version, reader.key)
          /\ reader.found \in BOOLEAN
          /\ ~reader.found => reader.value = Unset
    /\ reader.pc = "done" =>
          \E h \in reader.since .. headVersion :
             /\ reader.value = past[h][reader.key]
             /\ reader.asked # VersionHead => h = reader.asked

WriterInv == Versions /\ Rising /\ Linked /\ Modified /\ Kept
ReadInv == WriterInv /\ Asking /\ Walking /\ Looking

---------------------------------------------------------------------------
(* Naturals and lists *)

(* Each set of naturals has a least member. *)
LEMMA NatMin == ASSUME NEW T \in SUBSET Nat, T # {} PROVE \E x \in T : \A y \in T : x <= y
<1> DEFINE R == OpToRel(<, Nat)
<1>1. IsWellFoundedOn(R, Nat)
  BY NatLessThanWellFounded
<1>2. \A a, b \in Nat : a < b => <<a, b>> \in R
  BY DEF OpToRel
<1> HIDE DEF R
<1>3. PICK x \in T : \A y \in T : ~(<<y, x>> \in R)
  BY <1>1, WFMin
<1>4. ASSUME NEW y \in T PROVE x <= y
  <2>1. x \in Nat /\ y \in Nat /\ ~(<<y, x>> \in R)
    BY <1>3
  <2>2. ~(y < x)
    BY <1>2, <2>1
  <2> QED
    BY <2>1, <2>2
<1> QED
  BY <1>4

(* A set of places in a list has a last one, which Max gives. *)
LEMMA MaxLast ==
    ASSUME NEW e \in Nat, NEW S \in SUBSET (1 .. e), S # {}
    PROVE  Max(S) \in S /\ \A y \in S : y <= Max(S)
<1> DEFINE T == {e - x : x \in S}
<1>1. T \in SUBSET Nat /\ T # {}
  <2>1. \A x \in S : x \in 1 .. e /\ e - x \in Nat
    OBVIOUS
  <2>2. T \subseteq Nat
    BY <2>1
  <2> QED
    BY <2>2
<1>2. PICK d \in T : \A t \in T : d <= t
  BY <1>1, NatMin
<1>3. PICK x \in S : d = e - x
  BY <1>2
<1>4. ASSUME NEW y \in S PROVE x >= y
  <2>1. d <= e - y
    BY <1>2
  <2> QED
    BY <1>3, <2>1
<1>5. \E z \in S : \A y \in S : z >= y
  BY <1>3, <1>4
<1>6. Max(S) \in S /\ \A y \in S : Max(S) >= y
  BY <1>5 DEF Max
<1>7. ASSUME NEW y \in S PROVE y <= Max(S)
  BY <1>6
<1> QED
  BY <1>6, <1>7

(* What there is to say of a key by no modifier, and by one more. *)
LEMMA ValueNone ==
    ASSUME NEW n, NEW v, NEW k PROVE ValueAt(n, 0, v, k) = Unset
<1>1. Of(n, 0, v, k) = {}
  BY DEF Of
<1> QED
  BY <1>1 DEF ValueAt

LEMMA ValueMore ==
    ASSUME NEW n, NEW e \in Nat, NEW v, NEW k
    PROVE  ValueAt(n, e + 1, v, k) =
              IF mods[n][e + 1].key = k /\ mods[n][e + 1].version <= v
              THEN mods[n][e + 1].value ELSE ValueAt(n, e, v, k)
<1>1. CASE mods[n][e + 1].key = k /\ mods[n][e + 1].version <= v
  <2>1. /\ e + 1 \in Nat /\ e + 1 \in Of(n, e + 1, v, k)
        /\ Of(n, e + 1, v, k) \in SUBSET (1 .. e + 1)
    BY <1>1 DEF Of
  <2>2. Max(Of(n, e + 1, v, k)) = e + 1
    <3>1. /\ Max(Of(n, e + 1, v, k)) \in Of(n, e + 1, v, k)
          /\ e + 1 <= Max(Of(n, e + 1, v, k))
      <4> HIDE DEF Of
      <4> QED
        BY <2>1, MaxLast
    <3> QED
      BY <2>1, <3>1
  <2> QED
    BY <1>1, <2>1, <2>2 DEF ValueAt
<1>2. CASE ~(mods[n][e + 1].key = k /\ mods[n][e + 1].version <= v)
  <2>1. Of(n, e + 1, v, k) = Of(n, e, v, k)
    BY <1>2 DEF Of
  <2> QED
    BY <1>2, <2>1 DEF ValueAt
<1> QED
  BY <1>1, <1>2

(* Modifiers that are too new say nothing. *)
LEMMA ValueSame ==
    ASSUME NEW n, NEW e \in Nat, NEW f \in Nat, e <= f, NEW v, NEW k,
           \A j \in e + 1 .. f : ~(mods[n][j].version <= v)
    PROVE  ValueAt(n, f, v, k) = ValueAt(n, e, v, k)
<1>1. Of(n, f, v, k) = Of(n, e, v, k)
  BY DEF Of
<1> QED
  BY <1>1 DEF ValueAt

(* The newest modifier is what the key has at the version that is written. *)
LEMMA NewestValue ==
    ASSUME NEW n \in Revs, NEW k, mods \in [Revs -> [1 .. NodeLoad -> Modifiers]],
           cnt \in [Revs -> 0 .. NodeLoad], NEW v,
           \A j \in 1 .. cnt[n] : mods[n][j].version <= v
    PROVE  /\ Newest(Written(n), k).value = ValueAt(n, cnt[n], v, k)
           /\ \/ Newest(Written(n), k) = ZeroMod
              \/ \E j \in 1 .. cnt[n] : Newest(Written(n), k) = mods[n][j]
<1> USE ReaderAssumption DEF ReaderAssumption
<1> DEFINE ms == Written(n)
           of == {j \in DOMAIN ms : ms[j].key = k}
<1>1. cnt[n] \in 0 .. NodeLoad /\ cnt[n] \in Nat
  OBVIOUS
<1>2. DOMAIN ms = 1 .. cnt[n] /\ \A j \in 1 .. cnt[n] : ms[j] = mods[n][j]
  BY <1>1 DEF Written
<1> HIDE DEF ms
<1>3. of = Of(n, cnt[n], v, k)
  BY <1>2 DEF Of
<1>4. Newest(ms, k) = IF of = {} THEN ZeroMod ELSE ms[Max(of)]
  BY DEF Newest
<1>5. CASE of = {}
  <2>1. Newest(ms, k).value = Unset
    BY <1>4, <1>5 DEF ZeroMod, Mod
  <2> QED
    BY <1>3, <1>4, <1>5, <2>1 DEF ValueAt, ms
<1>6. CASE of # {}
  <2>1. of \in SUBSET (1 .. cnt[n])
    BY <1>2
  <2> HIDE DEF of
  <2>2. Max(of) \in of
    BY <1>1, <1>6, <2>1, MaxLast
  <2>3. Max(of) \in 1 .. cnt[n]
    BY <2>1, <2>2
  <2> QED
    BY <1>2, <1>3, <1>4, <1>6, <2>3 DEF ValueAt, ms
<1> QED
  BY <1>5, <1>6

---------------------------------------------------------------------------
(* What a step beside a read does not change *)

(* What may be read stays what it was, and what is added is of the version *)
(* that is written.                                                        *)
Beside ==
    /\ headVersion <= headVersion' /\ headVersion' \in Nat
    /\ \A h \in 1 .. headVersion : past'[h] = past[h]
    /\ \A n \in Revs : Exists(n) =>
          /\ knots'[n].version = knots[n].version
          /\ Backed(n) => Backed(n)'
          /\ cnt[n] <= cnt'[n] /\ cnt'[n] \in 0 .. NodeLoad
          /\ \A j \in 1 .. cnt[n] : mods'[n][j] = mods[n][j]
          /\ \A j \in cnt[n] + 1 .. cnt'[n], h \in 1 .. headVersion :
                h < mods'[n][j].version /\ ~(mods'[n][j].version <= h)
    /\ \A n \in Revs : ~Exists(n) =>
          \/ knots'[n].version = VersionNone
          \/ \A h \in 1 .. headVersion : h < knots'[n].version /\ ~(knots'[n].version <= h)

LEMMA InForceBeside ==
    ASSUME Beside, NEW n, NEW h \in 1 .. headVersion
    PROVE  InForceAt(n, h)' <=> InForceAt(n, h)
<1>1. \A m \in Revs : /\ Exists(m) => knots'[m].version = knots[m].version /\ Exists(m)'
                      /\ ~Exists(m) /\ Exists(m)' =>
                            h < knots'[m].version /\ ~(knots'[m].version <= h)
  BY DEF Beside, Exists
<1>2. ASSUME InForceAt(n, h) PROVE InForceAt(n, h)'
  BY <1>1, <1>2 DEF InForceAt
<1>3. ASSUME InForceAt(n, h)' PROVE InForceAt(n, h)
  <2>1. n \in Revs /\ Exists(n)' /\ knots'[n].version <= h
        /\ \A m \in Revs : m > n /\ Exists(m)' => h < knots'[m].version
    BY <1>3 DEF InForceAt
  <2>2. Exists(n)
    BY <1>1, <2>1
  <2> QED
    BY <1>1, <2>1, <2>2 DEF InForceAt
<1> QED
  BY <1>2, <1>3

LEMMA ValueBeside ==
    ASSUME ReaderInv, Beside, NEW n \in Revs, Exists(n), NEW e \in 0 .. cnt[n], NEW v, NEW k
    PROVE  ValueAt(n, e, v, k)' = ValueAt(n, e, v, k)
<1>1. cnt[n] \in Nat /\ \A j \in 1 .. cnt[n] : mods'[n][j] = mods[n][j]
  BY DEF Beside, ReaderInv, Typed
<1>2. Of(n, e, v, k)' = Of(n, e, v, k)
  BY <1>1 DEF Of
<1>3. CASE Of(n, e, v, k) # {}
  <2> DEFINE S == Of(n, e, v, k)
  <2>1. S \in SUBSET (1 .. e) /\ e \in Nat /\ e <= cnt[n]
    BY <1>1 DEF Of
  <2>2. S # {}
    BY <1>3
  <2> HIDE DEF S
  <2>3. Max(S) \in 1 .. cnt[n]
    <3>1. Max(S) \in S
      BY <2>1, <2>2, MaxLast
    <3>2. Max(S) \in 1 .. e
      BY <2>1, <3>1
    <3>3. \A x \in 1 .. e : x \in 1 .. cnt[n]
      BY <1>1, <2>1
    <3> QED
      BY <3>2, <3>3
  <2>4. mods'[n][Max(S)] = mods[n][Max(S)]
    BY <1>1, <2>3
  <2> QED
    BY <1>2, <2>4 DEF ValueAt, S
<1> QED
  BY <1>2, <1>3 DEF ValueAt

(* What a revision says of a committed version does not change. *)
LEMMA CommittedBeside ==
    ASSUME ReaderInv, Beside, NEW n \in Revs, Exists(n), NEW h \in 1 .. headVersion, NEW k
    PROVE  ValueAt(n, cnt[n], h, k)' = ValueAt(n, cnt[n], h, k)
<1>1. cnt[n] \in Nat /\ cnt'[n] \in Nat /\ cnt[n] <= cnt'[n]
  BY DEF Beside, ReaderInv, Typed
<1>2. Of(n, cnt[n], h, k)' = Of(n, cnt[n], h, k)
  <2>1. \A j \in 1 .. cnt[n] : mods'[n][j] = mods[n][j]
    BY DEF Beside
  <2>2. \A j \in cnt[n] + 1 .. cnt'[n] : ~(mods'[n][j].version <= h)
    BY DEF Beside
  <2> QED
    BY <1>1, <2>1, <2>2 DEF Of
<1> DEFINE S == Of(n, cnt[n], h, k)
<1>3. CASE S # {}
  <2>1. S \in SUBSET (1 .. cnt[n]) /\ S # {}
    BY <1>1, <1>3 DEF Of
  <2> HIDE DEF S
  <2>2. Max(S) \in 1 .. cnt[n]
    BY <1>1, <2>1, MaxLast
  <2>3. mods'[n][Max(S)] = mods[n][Max(S)]
    BY <2>2 DEF Beside
  <2> QED
    BY <1>2, <2>3 DEF ValueAt, S
<1> QED
  BY <1>2, <1>3 DEF ValueAt

LEMMA KeptBeside ==
    ASSUME ReaderInv, Kept, Beside
    PROVE  \A h \in 1 .. headVersion : \A n \in Revs : InForceAt(n, h)' =>
              \A k \in Keys : past'[h][k] = ValueAt(n, cnt[n], h, k)'
<1> SUFFICES ASSUME NEW h \in 1 .. headVersion, NEW n \in Revs, InForceAt(n, h)', NEW k \in Keys
             PROVE  past'[h][k] = ValueAt(n, cnt[n], h, k)'
  OBVIOUS
<1>1. InForceAt(n, h) /\ Exists(n)
  BY InForceBeside DEF InForceAt
<1>2. past'[h] = past[h] /\ past[h][k] = ValueAt(n, cnt[n], h, k)
  BY <1>1 DEF Beside, Kept
<1> QED
  BY <1>1, <1>2, CommittedBeside

(* What can be reached is there. *)
LEMMA HeldExists == ASSUME ReaderInv, WriterInv, NEW n \in Held PROVE n \in Revs /\ Exists(n)
<1> USE ReaderAssumption DEF ReaderAssumption
<1>1. CASE n = Root
  BY <1>1 DEF WriterInv, Rising, Exists, VersionNone, Root, Revs
<1>2. CASE n # Root
  <2>1. PICK m \in Revs : n = knots[m].next /\ n # BadRef
    BY <1>2 DEF Held
  <2>2. n = m + 1 /\ m + 1 \in Revs /\ Exists(m + 1)
    BY <2>1 DEF WriterInv, Linked
  <2> QED
    BY <2>2
<1> QED
  BY <1>1, <1>2

LEMMA TornKeeps ==
    ASSUME NEW r
    PROVE  /\ Torn(r).pc = r.pc 
           /\ Torn(r).ref = r.ref /\ Torn(r).asked = r.asked /\ Torn(r).version = r.version
           /\ Torn(r).key = r.key /\ Torn(r).backed = r.backed /\ Torn(r).since = r.since
           /\ Torn(r).at = r.at /\ Torn(r).end = r.end
           /\ Torn(r).found = r.found /\ Torn(r).value = r.value
           /\ r.pc # "idle" => Torn(r).torn = (r.asked = VersionHead)
<1>1. CASE r.pc # "idle"
  BY <1>1 DEF Torn
<1>2. CASE r.pc = "idle"
  BY <1>2 DEF Torn
<1> QED
  BY <1>1, <1>2

(* A read goes on as before, unless it is one of the head and a new one was linked. *)
LEMMA ReadBeside ==
    ASSUME ReaderInv, WriterInv, Asking, Walking, Looking, Beside,
           \/ reader' = Torn(reader)
           \/ reader' = reader /\ \A n \in Revs : knots'[n].next = knots[n].next
    PROVE  Asking' /\ Walking' /\ Looking'
<1> USE ReaderAssumption DEF ReaderAssumption
<1>0. CASE reader'.pc = "idle"
  BY <1>0 DEF Asking, Walking, Looking
<1>1. CASE reader'.pc # "idle"
  <2>1. reader.pc # "idle" /\ reader'.pc = reader.pc
    BY <1>1, TornKeeps
  <2>2. /\ reader'.ref = reader.ref /\ reader'.asked = reader.asked
        /\ reader'.version = reader.version /\ reader'.key = reader.key
        /\ reader'.backed = reader.backed /\ reader'.since = reader.since
        /\ reader'.at = reader.at /\ reader'.end = reader.end
        /\ reader'.found = reader.found /\ reader'.value = reader.value
    <3>1. CASE reader' = reader
      BY <3>1
    <3>2. CASE reader' = Torn(reader)
      BY <3>2, TornKeeps
    <3> QED
      BY <3>1, <3>2
  <2>3. Sure' => /\ Sure
                 /\ reader.asked = VersionHead =>
                      reader' = reader /\ \A n \in Revs : knots'[n].next = knots[n].next
    <3>1. CASE reader' = reader /\ \A n \in Revs : knots'[n].next = knots[n].next
      BY <3>1 DEF Sure, VersionHead
    <3>2. CASE reader' = Torn(reader)
      <4>1. reader'.torn = (reader.asked = VersionHead)
        BY <2>1, <3>2, TornKeeps
      <4> QED
        BY <2>2, <4>1 DEF Sure, VersionHead
    <3> QED
      BY <3>1, <3>2
  <2>4. headVersion \in Nat /\ headVersion' \in Nat /\ headVersion <= headVersion'
        /\ 1 .. headVersion \subseteq 1 .. headVersion'
    BY DEF ReaderInv, Typed, Beside
  <2>5. Asking'
    <3>1. reader.since \in 1 .. headVersion'
      BY <2>1, <2>4 DEF Asking
    <3> QED
      BY <2>1, <2>2, <3>1 DEF Asking, VersionHead
  <2> USE <2>1, <2>2, <2>4
  <2>6. \A n \in Revs : Exists(n) => /\ knots'[n].version = knots[n].version /\ Exists(n)'
                                     /\ Backed(n) => Backed(n)'
    BY DEF Beside, Exists
  <2>7. \A h \in 1 .. headVersion, n \in Revs : InForceAt(n, h) => InForceAt(n, h)'
    BY InForceBeside
  <2>8. ASSUME Sure', reader.pc = "down" PROVE Walking'
    <3>1. /\ reader.ref \in Revs /\ Exists(reader.ref) /\ Backed(reader.ref)
          /\ reader.asked # VersionHead /\ reader.version < knots[reader.ref].version
      BY <2>3, <2>8 DEF Walking
    <3>2. /\ knots'[reader.ref].version = knots[reader.ref].version /\ Exists(reader.ref)'
          /\ Backed(reader.ref)'
      BY <2>6, <3>1 DEF Exists, Backed
    <3> QED
      BY <2>8, <3>1, <3>2 DEF Walking, Exists, Backed, VersionHead
  <2>9. ASSUME Sure', reader.pc \in {"up", "version"}, reader.asked # VersionHead PROVE Walking'
    <3>1. CASE reader.pc = "up"
      <4>1. reader.ref \in Revs /\ Exists(reader.ref) /\ knots[reader.ref].version <= reader.version
        BY <2>3, <2>9, <3>1 DEF Walking
      <4> QED
        BY <2>6, <2>9, <3>1, <4>1 DEF Walking, Exists, VersionHead
    <3>2. CASE reader.pc = "version"
      <4>1. InForceAt(reader.ref, reader.version) /\ reader.version = reader.since
        BY <2>3, <2>9, <3>2 DEF Walking, Asking
      <4>2. reader.version \in 1 .. headVersion /\ reader.ref \in Revs
        BY <2>9, <4>1 DEF Asking, InForceAt
      <4>3. \A m \in Revs, h \in 1 .. headVersion :
              InForceAt(m, h) => InForceAt(m, h)'
        BY <2>7
      <4>4. InForceAt(reader.ref, reader.version)'
        BY <4>1, <4>2, <4>3 DEF InForceAt, Exists
      <4> QED
        BY <2>9, <3>2, <4>4 DEF Walking, VersionHead
    <3> QED
      BY <2>9, <3>1, <3>2
  <2>10. ASSUME Sure', reader.pc \in {"up", "version"}, reader.asked = VersionHead PROVE Walking'
    <3>1. Sure /\ ~reader.torn /\ reader'.torn = reader.torn
      BY <2>3, <2>10 DEF Sure
    <3>2. /\ reader.version = VersionHead
          /\ reader.ref \in Held /\ \A m \in Held : ~OfOpen(m)
          /\ reader.pc = "version" => knots[reader.ref].next = BadRef
      BY <2>10, <3>1 DEF Walking
    <3>3. \A n \in Revs : knots'[n].next = knots[n].next
      BY <2>3, <2>10
    <3>4. Held' = Held
      BY <3>3 DEF Held
    <3>5. ASSUME NEW m \in Held PROVE ~OfOpen(m)'
      <4>1. m \in Revs /\ Exists(m)
        BY HeldExists
      <4>2. knots[m].version \in Nat /\ ~(knots[m].version > headVersion)
        BY <3>2, <4>1 DEF OfOpen, ReaderInv, Typed, Knots
      <4> QED
        BY <2>6, <4>1, <4>2 DEF OfOpen
    <3>6. reader.ref \in Revs
      BY <3>2, HeldExists
    <3> QED
      BY <2>10, <3>2, <3>3, <3>4, <3>5, <3>6 DEF Walking, VersionHead
  <2>11. Walking'
    <3>1. CASE ~Sure'
      BY <3>1 DEF Walking
    <3>2. CASE reader.pc \notin {"down", "up", "version"}
      BY <3>2 DEF Walking
    <3> QED
      BY <2>8, <2>9, <2>10, <3>1, <3>2
  <2>12. ASSUME Sure', reader.pc \in {"count", "scan"}
         PROVE  /\ reader.version \in reader.since .. headVersion
                /\ reader.version \in reader.since .. headVersion'
                /\ reader.version \in 1 .. headVersion
                /\ reader.ref \in Revs /\ Exists(reader.ref)
                /\ InForceAt(reader.ref, reader.version)'
    <3>1. reader.version \in reader.since .. headVersion /\ InForceAt(reader.ref, reader.version)
      BY <2>3, <2>12 DEF Looking
    <3>2. reader.since \in 1 .. headVersion
      BY DEF Asking
    <3>3. /\ reader.version \in reader.since .. headVersion' /\ reader.version \in 1 .. headVersion
          /\ reader.ref \in Revs /\ Exists(reader.ref)
      BY <3>1, <3>2 DEF InForceAt
    <3>4. \A m \in Revs, h \in 1 .. headVersion :
            InForceAt(m, h) => InForceAt(m, h)'
      BY <2>7
    <3>5. InForceAt(reader.ref, reader.version)'
      BY <3>1, <3>3, <3>4 DEF InForceAt, Exists
    <3> QED
      BY <3>1, <3>3, <3>5
  <2>13. ASSUME Sure', reader.pc = "count" PROVE Looking'
    BY <2>12, <2>13 DEF Looking, InForceAt, Exists
  <2>14. ASSUME Sure', reader.pc = "scan" PROVE Looking'
    <3> DEFINE r == reader.ref
               v == reader.version
    <3>1. /\ r \in Revs /\ Exists(r) /\ v \in 1 .. headVersion /\ InForceAt(r, v)'
          /\ v \in reader.since .. headVersion'
      BY <2>12, <2>14
    <3>2. /\ reader.end \in 0 .. cnt[r] /\ reader.at \in 1 .. reader.end + 1
          /\ \A j \in reader.end + 1 .. cnt[r] : mods[r][j].version > v
          /\ reader.value = ValueAt(r, reader.at - 1, v, reader.key)
          /\ reader.found \in BOOLEAN
          /\ ~reader.found => reader.value = Unset
      BY <2>3, <2>14 DEF Looking
    <3>3. /\ cnt[r] \in Nat /\ cnt'[r] \in Nat /\ cnt[r] <= cnt'[r]
          /\ \A j \in 1 .. cnt[r] : mods'[r][j] = mods[r][j]
          /\ \A j \in cnt[r] + 1 .. cnt'[r] : v < mods'[r][j].version
      <4>1. cnt[r] \in Nat
        BY <3>1 DEF ReaderInv, Typed
      <4> HIDE DEF r, v
      <4> QED
        BY <3>1, <4>1 DEF Beside
    <3>4. reader.end \in 0 .. cnt'[r] /\ reader.at - 1 \in 0 .. cnt[r]
      BY <3>2, <3>3
    <3>5. ASSUME NEW j \in reader.end + 1 .. cnt'[r] PROVE mods'[r][j].version > v
      <4>1. CASE j <= cnt[r]
        BY <3>2, <3>3, <3>4, <4>1
      <4>2. CASE ~(j <= cnt[r])
        <5>1. j \in cnt[r] + 1 .. cnt'[r]
          BY <3>2, <3>3, <4>2
        <5> QED
          BY <3>3, <5>1
      <4> QED
        BY <4>1, <4>2
    <3>6. \A m \in Revs : Exists(m) => \A e \in 0 .. cnt[m], w \in 1 .. headVersion, k \in Keys :
            ValueAt(m, e, w, k)' = ValueAt(m, e, w, k)
      BY ValueBeside
    <3>7. reader.value = ValueAt(r, reader.at - 1, v, reader.key)'
      <4>1. reader.key \in Keys
        BY DEF Asking
      <4>2. PICK m \in Revs, e \in 0 .. cnt[r], w \in 1 .. headVersion, k \in Keys :
              m = r /\ e = reader.at - 1 /\ w = v /\ k = reader.key
        BY <3>1, <3>4, <4>1
      <4>3. ValueAt(m, e, w, k)' = ValueAt(m, e, w, k)
        BY <3>1, <3>6, <4>2
      <4>4. reader.value = ValueAt(m, e, w, k)'
        BY <3>2, <4>2, <4>3
      <4>5. m = reader'.ref /\ e = reader'.at - 1 /\ w = reader'.version /\ k = reader'.key
        BY <4>2
      <4> QED
        BY <4>4, <4>5 DEF ValueAt, Of
    <3> QED
      BY <2>14, <3>1, <3>2, <3>4, <3>5, <3>7 DEF Looking, InForceAt, Exists, ValueAt, Of
  <2>15. ASSUME Sure', reader.pc = "done" PROVE Looking'
    <3>1. PICK h \in reader.since .. headVersion :
             /\ reader.value = past[h][reader.key]
             /\ reader.asked # VersionHead => h = reader.asked
      BY <2>3, <2>15 DEF Looking
    <3>2. reader.since \in 1 .. headVersion
      BY DEF Asking
    <3>3. h \in reader.since .. headVersion' /\ past'[h] = past[h]
      BY <3>2 DEF Beside
    <3> QED
      BY <2>15, <3>1, <3>3 DEF Looking, VersionHead
  <2>16. Looking'
    <3>1. CASE ~Sure'
      BY <3>1 DEF Looking
    <3>2. CASE reader.pc \notin {"count", "scan", "done"}
      BY <3>2 DEF Looking
    <3> QED
      BY <2>13, <2>14, <2>15, <3>1, <3>2
  <2> QED
    BY <2>5, <2>11, <2>16
<1> QED
  BY <1>0, <1>1

---------------------------------------------------------------------------
(* The writer *)

LEMMA WriterInit == Init => WriterInv
<1> SUFFICES ASSUME Init PROVE WriterInv
  OBVIOUS
<1> USE ReaderAssumption DEF ReaderAssumption
<1>1. /\ headVersion = 1 /\ currVersion = 0 /\ writer.pc = "idle"
      /\ \A n \in Revs : /\ knots[n].version = (IF n = Root THEN 1 ELSE 0)
                         /\ knots[n].prev = BadRef /\ knots[n].next = BadRef
      /\ mods = [n \in Revs |-> [j \in 1 .. NodeLoad |-> ZeroMod]]
      /\ cnt = [n \in Revs |-> 0]
      /\ past = <<Empty>>
  BY DEF Init, VersionNone
<1>2. \A n \in Revs : Exists(n) <=> n = Root
  BY <1>1 DEF Exists, VersionNone
<1>3. Versions
  BY <1>1 DEF Versions, Fresh, VersionNone
<1>4. Rising
  BY <1>1, <1>2 DEF Rising, Fresh, VersionNone, Root, Revs
<1>5. Linked
  BY <1>1, <1>2 DEF Linked, Root, Revs
<1>6. Modified
  <2>1. ZeroMod \in Modifiers
    BY DEF ZeroMod, Mod, Modifiers, VersionNone
  <2> QED
    BY <1>1, <2>1 DEF Modified
<1>7. Kept
  <2>1. past \in Seq([Keys -> Data \cup {Unset}]) /\ Len(past) = headVersion /\ past[1] = Empty
    BY <1>1 DEF Empty
  <2>2. ASSUME NEW n \in Revs, NEW k \in Keys PROVE past[1][k] = ValueAt(n, cnt[n], 1, k)
    BY <1>1, <2>1, ValueNone DEF Empty
  <2> QED
    BY <1>1, <2>1, <2>2 DEF Kept
<1> QED
  BY <1>3, <1>4, <1>5, <1>6, <1>7 DEF WriterInv

(* The steps that store nothing but versions. *)
Untouched == knots' = knots /\ mods' = mods /\ cnt' = cnt

LEMMA UntouchedBeside ==
    ASSUME ReaderInv, WriterInv, Untouched, headVersion' \in Nat, headVersion <= headVersion',
           \A h \in 1 .. headVersion : past'[h] = past[h]
    PROVE  Beside
<1>1. \A n \in Revs : cnt[n] \in 0 .. NodeLoad /\ cnt[n] \in Nat
  BY DEF ReaderInv, Typed
<1>2. \A n \in Revs : cnt[n] + 1 .. cnt[n] = {}
  BY <1>1
<1> QED
  BY <1>1, <1>2 DEF Beside, Untouched, Exists, Backed

LEMMA WriterFrame ==
    ASSUME ReaderInv, WriterInv, UNCHANGED <<memory, writer, past>>
    PROVE  WriterInv'
<1>1. /\ headVersion' = headVersion /\ currVersion' = currVersion /\ knots' = knots
      /\ mods' = mods /\ cnt' = cnt /\ writer' = writer /\ past' = past
  BY DEF memory
<1>2. Versions' /\ Rising' /\ Linked'
  BY <1>1 DEF WriterInv, Versions, Rising, Linked, Exists, Fresh
<1>3. Modified'
  BY <1>1 DEF WriterInv, Modified, Exists, Fresh
<1>4. Kept'
  <2>1. Untouched /\ headVersion' \in Nat /\ headVersion <= headVersion'
    BY <1>1 DEF Untouched, ReaderInv, Typed
  <2>2. Beside
    BY <1>1, <2>1, UntouchedBeside
  <2> QED
    BY <1>1, <2>2, KeptBeside DEF WriterInv, Kept
<1> QED
  BY <1>2, <1>3, <1>4 DEF WriterInv

LEMMA BeginStep ==
    ASSUME ReaderInv, WriterInv, Begin PROVE WriterInv' /\ Beside /\ reader' = reader
<1> USE ReaderAssumption DEF ReaderAssumption
<1>1. /\ writer.pc = "idle" /\ currVersion = 0 /\ headVersion < MaxVersion
      /\ currVersion' = headVersion + 1
      /\ UNCHANGED <<headVersion, knots, mods, cnt, writer, reader, past>>
      /\ headVersion \in 1 .. MaxVersion
  BY DEF Begin, Idle, VersionNone, WriterInv, Versions
<1>2. Fresh = headVersion /\ Fresh' = headVersion + 1
  BY <1>1 DEF Fresh, VersionNone
<1>3. \A n \in Revs : knots[n].version \in Nat /\ Exists(n)' = Exists(n)
  BY <1>1 DEF ReaderInv, Typed, Knots, Exists
<1>4. Versions'
  BY <1>1, <1>2 DEF Versions, VersionNone
<1>5. Rising'
  BY <1>1, <1>2, <1>3 DEF WriterInv, Rising
<1>6. Linked'
  BY <1>1, <1>3 DEF WriterInv, Linked
<1>7. Modified'
  <2>1. /\ mods \in [Revs -> [1 .. NodeLoad -> Modifiers]] /\ cnt \in [Revs -> 0 .. NodeLoad]
        /\ \A n \in Revs : Exists(n) => \A j \in 1 .. cnt[n] :
              /\ mods[n][j].version <= Fresh
              /\ \A i \in 1 .. j : mods[n][i].version <= mods[n][j].version
    BY DEF WriterInv, Modified
  <2>2. ASSUME NEW n \in Revs, Exists(n), NEW j \in 1 .. cnt[n]
        PROVE  mods[n][j].version <= Fresh'
    <3>1. mods[n][j].version \in Nat /\ mods[n][j].version <= headVersion
      BY <1>2, <2>1, <2>2 DEF Modifiers
    <3> QED
      BY <1>1, <1>2, <3>1
  <2> QED
    BY <1>1, <1>3, <2>1, <2>2 DEF Modified
<1>8. Beside
  <2>1. Untouched /\ headVersion' \in Nat /\ headVersion <= headVersion' /\ past' = past
    BY <1>1 DEF Untouched
  <2> QED
    BY <2>1, UntouchedBeside
<1>9. Kept'
  BY <1>1, <1>8, KeptBeside DEF WriterInv, Kept
<1> QED
  BY <1>1, <1>4, <1>5, <1>6, <1>7, <1>8, <1>9 DEF WriterInv

(* The revision that leads nowhere is the last one, when nothing is being linked. *)
LEMMA HeadIsLast ==
    ASSUME ReaderInv, WriterInv, NEW n \in Revs, IsHead(n), writer.pc # "link",
           NEW m \in Revs, Exists(m)
    PROVE  m <= n /\ (m # n => knots[m].version < knots[n].version)
<1>1. Exists(n) /\ knots[n].next = BadRef
  BY DEF IsHead, Exists
<1>2. ~(n + 1 \in Revs /\ Exists(n + 1))
  BY <1>1 DEF WriterInv, Linked, BadRef, Revs
<1>3. m <= n
  <2> SUFFICES ASSUME n < m PROVE FALSE
    BY DEF Revs
  <2>1. n + 1 \in Revs /\ (n + 1 < m \/ n + 1 = m)
    BY ReaderAssumption DEF Revs, ReaderAssumption
  <2> QED
    BY <1>2, <2>1 DEF WriterInv, Rising
<1>4. m # n => m < n
  BY <1>3 DEF Revs
<1> QED
  BY <1>1, <1>3, <1>4 DEF WriterInv, Rising

LEMMA EndHeadStep ==
    ASSUME ReaderInv, WriterInv, EndHead PROVE WriterInv' /\ Beside /\ reader' = reader
<1> USE ReaderAssumption DEF ReaderAssumption
<1>1. /\ writer.pc = "idle" /\ currVersion # 0
      /\ headVersion' = currVersion /\ writer'.pc = "close"
      /\ UNCHANGED <<currVersion, knots, mods, cnt, reader>>
      /\ headVersion \in 1 .. MaxVersion /\ currVersion = headVersion + 1
      /\ headVersion + 1 <= MaxVersion
  BY DEF EndHead, Idle, VersionNone, WriterInv, Versions, Fresh
<1>2. PICK n \in Revs : IsHead(n) /\ past' = Append(past, Live(n))
  BY DEF EndHead
<1>3. Fresh = headVersion + 1 /\ Fresh' = headVersion + 1
  BY <1>1 DEF Fresh, VersionNone
<1>4. \A m \in Revs : knots[m].version \in Nat /\ Exists(m)' = Exists(m)
  BY <1>1 DEF ReaderInv, Typed, Knots, Exists
<1>5. Versions'
  BY <1>1, <1>3 DEF Versions, VersionNone
<1>6. Rising'
  BY <1>1, <1>3, <1>4 DEF WriterInv, Rising
<1>7. Linked'
  BY <1>1, <1>4 DEF WriterInv, Linked
<1>8. Modified'
  BY <1>1, <1>3, <1>4 DEF WriterInv, Modified
<1>9. Live(n) \in [Keys -> Data \cup {Unset}]
      /\ \A k \in Keys : Live(n)[k] = ValueAt(n, cnt[n], headVersion + 1, k)
  <2>1. /\ mods \in [Revs -> [1 .. NodeLoad -> Modifiers]] /\ cnt \in [Revs -> 0 .. NodeLoad]
        /\ \A j \in 1 .. cnt[n] : mods[n][j].version <= headVersion + 1
    BY <1>2, <1>3 DEF WriterInv, Modified, Exists, IsHead
  <2>2. ASSUME NEW k \in Keys
        PROVE  /\ Newest(Written(n), k).value = ValueAt(n, cnt[n], headVersion + 1, k)
               /\ Newest(Written(n), k).value \in Data \cup {Unset}
    <3>1. /\ Newest(Written(n), k).value = ValueAt(n, cnt[n], headVersion + 1, k)
          /\ \/ Newest(Written(n), k) = ZeroMod
             \/ \E j \in 1 .. cnt[n] : Newest(Written(n), k) = mods[n][j]
      BY <2>1, NewestValue
    <3>2. ZeroMod.value \in Data \cup {Unset}
      BY DEF ZeroMod, Mod
    <3>3. \A j \in 1 .. cnt[n] : mods[n][j].value \in Data \cup {Unset}
      <4>1. \A j \in 1 .. cnt[n] : mods[n][j] \in Modifiers
        BY <2>1
      <4> QED
        BY <4>1 DEF Modifiers
    <3> QED
      BY <3>1, <3>2, <3>3
  <2> QED
    BY <2>2 DEF Live
<1>10. /\ past \in Seq([Keys -> Data \cup {Unset}]) /\ Len(past) = headVersion
       /\ headVersion \in Nat
  BY <1>1 DEF WriterInv, Kept
<1>11. /\ past' \in Seq([Keys -> Data \cup {Unset}]) /\ Len(past') = headVersion + 1
       /\ past'[headVersion + 1] = Live(n)
       /\ \A h \in 1 .. headVersion : past'[h] = past[h]
  BY <1>2, <1>9, <1>10
<1>12. Beside
  <2>1. Untouched /\ headVersion' \in Nat /\ headVersion <= headVersion'
    BY <1>1 DEF Untouched
  <2> QED
    BY <1>11, <2>1, UntouchedBeside
<1>13. Kept'
  <2>1. ASSUME NEW h \in 1 .. headVersion', NEW m \in Revs, InForceAt(m, h)', NEW k \in Keys
        PROVE  past'[h][k] = ValueAt(m, cnt[m], h, k)'
    <3>1. CASE h \in 1 .. headVersion
      BY <1>12, <2>1, <3>1, KeptBeside DEF WriterInv
    <3>2. CASE h = headVersion + 1
      <4>1. Exists(m) /\ \A i \in Revs : i > m /\ Exists(i) => h < knots[i].version
        BY <1>1, <1>4, <2>1 DEF InForceAt
      <4>2. knots[n].version <= h /\ Exists(n)
        BY <1>2, <1>3, <3>2 DEF WriterInv, Rising, IsHead, Exists
      <4>3. m = n
        <5>1. m <= n
          BY <1>1, <1>2, <4>1, HeadIsLast
        <5>2. knots[n].version \in Nat /\ h \in Nat
          BY <1>4, <1>10, <3>2
        <5>3. ~(h < knots[n].version)
          BY <4>2, <5>2
        <5> QED
          BY <4>1, <4>2, <5>1, <5>3 DEF Revs
      <4>4. ValueAt(n, cnt[n], h, k)' = ValueAt(n, cnt[n], h, k)
        BY <1>1 DEF ValueAt, Of
      <4> QED
        BY <1>9, <1>11, <3>2, <4>3, <4>4
    <3> QED
      BY <1>1, <1>10, <3>1, <3>2
  <2> QED
    BY <1>1, <1>11, <2>1 DEF Kept
<1> QED
  BY <1>1, <1>5, <1>6, <1>7, <1>8, <1>12, <1>13 DEF WriterInv

LEMMA EndCurrStep ==
    ASSUME ReaderInv, WriterInv, EndCurr PROVE WriterInv' /\ Beside /\ reader' = reader
<1>1. /\ writer.pc = "close" /\ currVersion' = 0 /\ writer'.pc = "idle"
      /\ UNCHANGED <<headVersion, knots, mods, cnt, reader, past>>
      /\ headVersion \in 1 .. MaxVersion /\ currVersion = headVersion
  BY DEF EndCurr, VersionNone, WriterInv, Versions
<1>2. Fresh = headVersion /\ Fresh' = headVersion
  BY <1>1 DEF Fresh, VersionNone
<1>3. \A n \in Revs : Exists(n)' = Exists(n)
  BY <1>1 DEF Exists
<1>4. Versions'
  BY <1>1, <1>2 DEF WriterInv, Versions, VersionNone
<1>5. Rising' /\ Linked' /\ Modified'
  BY <1>1, <1>2, <1>3 DEF WriterInv, Rising, Linked, Modified
<1>6. Beside
  <2>1. Untouched /\ headVersion' \in Nat /\ headVersion <= headVersion' /\ past' = past
    BY <1>1 DEF Untouched
  <2> QED
    BY <2>1, UntouchedBeside
<1>7. Kept'
  BY <1>1, <1>6, KeptBeside DEF WriterInv, Kept
<1> QED
  BY <1>1, <1>4, <1>5, <1>6, <1>7 DEF WriterInv

LEMMA SetStep ==
    ASSUME ReaderInv, WriterInv, NEW n \in Revs, NEW s \in Writes, Set(n, s[1], s[2])
    PROVE  WriterInv' /\ Beside /\ reader' = reader
<1> USE ReaderAssumption DEF ReaderAssumption
<1>1. /\ writer.pc = "idle" /\ currVersion # 0
      /\ IsHead(n) /\ cnt[n] < NodeLoad
      /\ writer' = [pc |-> "fill", node |-> n, at |-> cnt[n] + 1,
                    mod |-> Mod(currVersion, s[1], s[2]), left |-> Fields]
      /\ UNCHANGED <<headVersion, currVersion, knots, mods, cnt, reader, past>>
  BY DEF Set, Idle, VersionNone, memory
<1>2. /\ headVersion \in 1 .. MaxVersion /\ currVersion = headVersion + 1
      /\ cnt[n] \in 0 .. NodeLoad /\ Fresh' = Fresh
  BY <1>1 DEF WriterInv, Versions, VersionNone, ReaderInv, Typed, Fresh
<1>3. \A m \in Revs : Exists(m)' = Exists(m)
  BY <1>1 DEF Exists
<1>4. Versions' /\ Rising' /\ Linked'
  BY <1>1, <1>2, <1>3 DEF WriterInv, Versions, Rising, Linked, VersionNone
<1>5. Modified'
  <2>1. Mod(currVersion, s[1], s[2]) \in Modifiers
    BY <1>2 DEF Mod, Modifiers
  <2>2. writer'.mod.version = currVersion
    BY <1>1 DEF Mod
  <2>3. writer'.node = n /\ writer'.at = cnt[n] + 1 /\ writer'.left = Fields
        /\ writer'.mod = Mod(currVersion, s[1], s[2])
    BY <1>1
  <2>4. cnt[n] + 1 \in 1 .. NodeLoad /\ Exists(n)
    BY <1>1, <1>2 DEF IsHead, Exists
  <2> QED
    BY <1>1, <1>2, <1>3, <2>1, <2>2, <2>3, <2>4 DEF WriterInv, Modified
<1>6. Beside
  <2>1. Untouched /\ headVersion' \in Nat /\ headVersion <= headVersion' /\ past' = past
    BY <1>1, <1>2 DEF Untouched
  <2> QED
    BY <2>1, UntouchedBeside
<1>7. Kept'
  BY <1>1, <1>6, KeptBeside DEF WriterInv, Kept
<1> QED
  BY <1>1, <1>4, <1>5, <1>6, <1>7 DEF WriterInv

LEMMA StoreFieldStep ==
    ASSUME ReaderInv, WriterInv, NEW f \in Fields, StoreField(f)
    PROVE  WriterInv' /\ Beside /\ reader' = reader
<1> USE ReaderAssumption DEF ReaderAssumption
<1> DEFINE n == writer.node
           j == writer.at
<1>1. /\ writer.pc = "fill" /\ f \in writer.left
      /\ mods' = [mods EXCEPT ![n][j][f] = writer.mod[f]]
      /\ writer' = [writer EXCEPT !.left = @ \ {f}]
      /\ UNCHANGED <<headVersion, currVersion, knots, cnt, reader, past>>
  BY DEF StoreField
<1>2. /\ n \in Revs /\ Exists(n) /\ j \in 1 .. NodeLoad /\ j = cnt[n] + 1
      /\ writer.mod \in Modifiers /\ writer.mod.version = currVersion
      /\ \A g \in Fields \ writer.left : mods[n][j][g] = writer.mod[g]
      /\ mods \in [Revs -> [1 .. NodeLoad -> Modifiers]]
      /\ cnt \in [Revs -> 0 .. NodeLoad]
      /\ \A m \in Revs : Exists(m) => \A i \in 1 .. cnt[m] :
            /\ mods[m][i].version <= Fresh
            /\ \A h \in 1 .. i : mods[m][h].version <= mods[m][i].version
  BY <1>1 DEF WriterInv, Modified
<1>3. /\ writer'.pc = "fill" /\ writer'.node = n /\ writer'.at = j
      /\ writer'.mod = writer.mod /\ writer'.left = writer.left \ {f}
  BY <1>1
<1>4. Fresh' = Fresh /\ \A m \in Revs : Exists(m)' = Exists(m)
  BY <1>1 DEF Fresh, Exists
<1> HIDE DEF n, j
<1>5. Versions' /\ Rising' /\ Linked'
  BY <1>1, <1>3, <1>4 DEF WriterInv, Versions, Rising, Linked, VersionNone
<1> DEFINE m1 == [mods[n][j] EXCEPT ![f] = writer.mod[f]]
<1>6. m1 \in Modifiers /\ m1[f] = writer.mod[f]
      /\ \A g \in Fields \ {f} : m1[g] = mods[n][j][g]
  <2>1. mods[n][j] \in Modifiers
    BY <1>2
  <2>2. CASE f = "version"
    BY <1>2, <2>1, <2>2 DEF Modifiers, Fields
  <2>3. CASE f = "key"
    BY <1>2, <2>1, <2>3 DEF Modifiers, Fields
  <2>4. CASE f = "value"
    BY <1>2, <2>1, <2>4 DEF Modifiers, Fields
  <2> QED
    BY <2>2, <2>3, <2>4 DEF Fields
<1>7. mods' = [mods EXCEPT ![n] = [mods[n] EXCEPT ![j] = m1]]
  BY <1>1, <1>2 DEF n, j
<1> HIDE DEF m1
<1>8. mods' \in [Revs -> [1 .. NodeLoad -> Modifiers]]
  BY <1>2, <1>6, <1>7
<1>9. mods'[n][j] = m1
      /\ \A m \in Revs, i \in 1 .. NodeLoad : (m # n \/ i # j) => mods'[m][i] = mods[m][i]
  BY <1>2, <1>7
<1>10. \A m \in Revs : cnt[m] \in Nat /\ \A i \in 1 .. cnt[m] :
         i \in 1 .. NodeLoad /\ (m # n \/ i # j) /\ mods'[m][i] = mods[m][i]
  <2> TAKE m \in Revs
  <2>1. cnt[m] \in 0 .. NodeLoad
    BY <1>2
  <2> QED
    BY <1>2, <1>9, <2>1
<1>11. Modified'
  <2>1. \A m \in Revs : Exists(m) => \A i \in 1 .. cnt[m] :
            /\ mods'[m][i].version <= Fresh
            /\ \A h \in 1 .. i : mods'[m][h].version <= mods'[m][i].version
    <3> SUFFICES ASSUME NEW m \in Revs, Exists(m), NEW i \in 1 .. cnt[m]
                 PROVE  /\ mods'[m][i].version <= Fresh
                        /\ \A h \in 1 .. i : mods'[m][h].version <= mods'[m][i].version
      OBVIOUS
    <3>1. \A h \in 1 .. i : h \in 1 .. cnt[m]
      BY <1>10
    <3> QED
      BY <1>2, <1>10, <3>1
  <2>2. \A g \in Fields \ writer'.left : mods'[n][j][g] = writer.mod[g]
    BY <1>2, <1>3, <1>6, <1>9
  <2> QED
    BY <1>1, <1>2, <1>3, <1>4, <1>8, <2>1, <2>2 DEF Modified
<1>12. Beside
  <2>1. headVersion \in Nat
    BY DEF ReaderInv, Typed
  <2>2. \A m \in Revs : cnt[m] + 1 .. cnt[m] = {}
    BY <1>10
  <2> QED
    BY <1>1, <1>2, <1>4, <1>10, <2>1, <2>2 DEF Beside, Backed, Exists
<1>13. Kept'
  BY <1>1, <1>12, KeptBeside DEF WriterInv, Kept
<1> QED
  BY <1>1, <1>5, <1>11, <1>12, <1>13 DEF WriterInv

LEMMA StoreCountStep ==
    ASSUME ReaderInv, WriterInv, StoreCount
    PROVE  WriterInv' /\ Beside /\ reader' = reader
<1> USE ReaderAssumption DEF ReaderAssumption
<1> DEFINE n == writer.node
           j == writer.at
<1>1. /\ writer.pc = "fill" /\ writer.left = {}
      /\ cnt' = [cnt EXCEPT ![n] = j]
      /\ writer'.pc = "idle"
      /\ UNCHANGED <<headVersion, currVersion, knots, mods, reader, past>>
  BY DEF StoreCount
<1>2. /\ n \in Revs /\ Exists(n) /\ j \in 1 .. NodeLoad /\ j = cnt[n] + 1
      /\ writer.mod.version = currVersion
      /\ mods[n][j].version = writer.mod.version
      /\ mods \in [Revs -> [1 .. NodeLoad -> Modifiers]]
      /\ cnt \in [Revs -> 0 .. NodeLoad]
      /\ \A m \in Revs : Exists(m) => \A i \in 1 .. cnt[m] :
            /\ mods[m][i].version <= Fresh
            /\ \A h \in 1 .. i : mods[m][h].version <= mods[m][i].version
  BY <1>1 DEF WriterInv, Modified, Fields
<1>3. /\ headVersion \in 1 .. MaxVersion /\ currVersion = headVersion + 1 /\ Fresh = currVersion
  BY <1>1 DEF WriterInv, Versions, Fresh, VersionNone
<1>4. Fresh' = Fresh /\ \A m \in Revs : Exists(m)' = Exists(m)
  BY <1>1 DEF Fresh, Exists
<1> HIDE DEF n, j
<1>5. Versions' /\ Rising' /\ Linked'
  BY <1>1, <1>3, <1>4 DEF WriterInv, Versions, Rising, Linked, VersionNone
<1>6. /\ cnt' \in [Revs -> 0 .. NodeLoad] /\ cnt'[n] = j
      /\ \A m \in Revs : m # n => cnt'[m] = cnt[m]
      /\ \A m \in Revs : cnt[m] \in 0 .. NodeLoad /\ cnt[m] \in Nat
  BY <1>1, <1>2
<1>7. ASSUME NEW m \in Revs, Exists(m), NEW i \in 1 .. cnt'[m]
      PROVE  /\ mods[m][i].version <= Fresh
             /\ \A h \in 1 .. i : mods[m][h].version <= mods[m][i].version
  <2>1. CASE m # n \/ i # j
    <3>1. i \in 1 .. cnt[m]
      BY <1>2, <1>6, <1>7, <2>1
    <3> QED
      BY <1>2, <1>7, <3>1
  <2>2. CASE m = n /\ i = j
    <3>1. mods[m][i].version = currVersion
      BY <1>2, <2>2
    <3>2. \A h \in 1 .. cnt[n] : mods[n][h].version <= currVersion
      BY <1>2, <1>3
    <3>3. \A h \in 1 .. i : h = i \/ h \in 1 .. cnt[n]
      BY <1>2, <1>6, <2>2
    <3> QED
      BY <1>3, <2>2, <3>1, <3>2, <3>3
  <2> QED
    BY <2>1, <2>2
<1>8. Modified'
  BY <1>1, <1>2, <1>4, <1>6, <1>7 DEF Modified
<1>9. Beside
  <2>1. ASSUME NEW m \in Revs, NEW i \in cnt[m] + 1 .. cnt'[m], NEW h \in 1 .. headVersion
        PROVE  h < mods[m][i].version /\ ~(mods[m][i].version <= h)
    <3>1. m = n /\ i = j
      BY <1>2, <1>6, <2>1
    <3> QED
      BY <1>2, <1>3, <3>1
  <2>2. \A m \in Revs : cnt[m] <= cnt'[m] /\ cnt'[m] \in 0 .. NodeLoad
    BY <1>2, <1>6
  <2> QED
    BY <1>1, <1>3, <1>4, <2>1, <2>2 DEF Beside, Exists, Backed
<1>10. Kept'
  BY <1>1, <1>9, KeptBeside DEF WriterInv, Kept
<1> QED
  BY <1>1, <1>5, <1>8, <1>9, <1>10 DEF WriterInv

LEMMA LinkNextStep ==
    ASSUME ReaderInv, WriterInv, LinkNext
    PROVE  WriterInv' /\ Beside /\ reader' = Torn(reader)
<1> USE ReaderAssumption DEF ReaderAssumption
<1>1. /\ writer.pc = "link"
      /\ knots' = [knots EXCEPT ![writer.from].next = writer.to]
      /\ writer' = [writer EXCEPT !.pc = "back"]
      /\ reader' = Torn(reader)
      /\ UNCHANGED <<headVersion, currVersion, mods, cnt, past>>
  BY DEF LinkNext
<1>2. /\ writer.to \in Revs /\ writer.to = writer.from + 1 /\ writer.from \in Revs
      /\ knots[writer.to].version = currVersion
      /\ \A n \in Revs : Exists(n) => n <= writer.to
  BY <1>1 DEF WriterInv, Linked
<1>3. writer'.pc = "back" /\ writer'.to = writer.to /\ writer'.from = writer.from
  BY <1>1
<1>4. knots \in [Revs -> Knots]
  BY DEF ReaderInv, Typed
<1>5. /\ \A n \in Revs : n # writer.from => knots'[n] = knots[n]
      /\ \A n \in Revs : knots'[n].version = knots[n].version /\ knots'[n].prev = knots[n].prev
      /\ knots'[writer.from].next = writer.to
  BY ZenonT(60), <1>1, <1>2, <1>4 DEF Knots
<1>6. Fresh' = Fresh /\ \A m \in Revs : Exists(m)' = Exists(m) /\ Backed(m)' = Backed(m)
  BY <1>1, <1>5 DEF Fresh, Exists, Backed
<1>7. Versions' /\ Rising'
  BY <1>1, <1>3, <1>5, <1>6 DEF WriterInv, Versions, Rising, VersionNone
<1>8. headVersion \in 1 .. MaxVersion /\ currVersion # 0
  BY <1>1 DEF WriterInv, Versions, VersionNone
<1>9. Linked'
  <2>1. Exists(writer.to)
    BY <1>2, <1>8 DEF Exists, VersionNone
  <2>2. \A n \in Revs : knots'[n].next =
          IF n + 1 \in Revs /\ Exists(n + 1) THEN n + 1 ELSE BadRef
    <3> TAKE n \in Revs
    <3>1. CASE n = writer.from
      BY <1>2, <1>5, <2>1, <3>1
    <3>2. CASE n # writer.from
      <4>1. writer.to # n + 1
        BY <1>2, <3>2 DEF Revs
      <4> QED
        BY <1>5, <3>2, <4>1 DEF WriterInv, Linked
    <3> QED
      BY <3>1, <3>2
  <2> QED
    BY <1>1, <1>2, <1>3, <1>5, <1>6, <2>2 DEF WriterInv, Linked
<1>10. Modified'
  BY <1>1, <1>3, <1>6 DEF WriterInv, Modified
<1>11. Beside
  <2>1. \A m \in Revs : cnt[m] \in 0 .. NodeLoad /\ cnt[m] \in Nat
    BY DEF ReaderInv, Typed
  <2>2. \A m \in Revs : cnt[m] + 1 .. cnt[m] = {}
    BY <2>1
  <2> QED
    BY <1>1, <1>5, <1>6, <1>8, <2>1, <2>2 DEF Beside, Exists
<1>12. Kept'
  BY <1>1, <1>11, KeptBeside DEF WriterInv, Kept
<1> QED
  BY <1>1, <1>7, <1>9, <1>10, <1>11, <1>12 DEF WriterInv

LEMMA LinkPrevStep ==
    ASSUME ReaderInv, WriterInv, LinkPrev
    PROVE  /\ WriterInv' /\ Beside /\ reader' = reader
           /\ \A n \in Revs : knots'[n].next = knots[n].next
<1> USE ReaderAssumption DEF ReaderAssumption
<1>1. /\ writer.pc = "back"
      /\ knots' = [knots EXCEPT ![writer.to].prev = writer.from]
      /\ writer'.pc = "idle"
      /\ UNCHANGED <<headVersion, currVersion, mods, cnt, reader, past>>
  BY DEF LinkPrev
<1>2. /\ writer.to \in Revs /\ writer.to = writer.from + 1 /\ writer.from \in Revs
      /\ knots[writer.to].version = currVersion
  BY <1>1 DEF WriterInv, Linked
<1>3. knots \in [Revs -> Knots]
  BY DEF ReaderInv, Typed
<1>4. /\ \A n \in Revs : n # writer.to => knots'[n] = knots[n]
      /\ \A n \in Revs : knots'[n].version = knots[n].version /\ knots'[n].next = knots[n].next
      /\ knots'[writer.to].prev = writer.from
  BY ZenonT(60), <1>1, <1>2, <1>3 DEF Knots
<1>5. Fresh' = Fresh /\ \A m \in Revs : Exists(m)' = Exists(m) /\ (Backed(m) => Backed(m)')
  <2>1. writer.from # BadRef
    BY <1>2 DEF Revs, BadRef
  <2> QED
    BY <1>1, <1>4, <2>1 DEF Fresh, Exists, Backed
<1>6. headVersion \in 1 .. MaxVersion /\ currVersion # 0
  BY <1>1 DEF WriterInv, Versions, VersionNone
<1>7. Versions' /\ Rising'
  BY <1>1, <1>4, <1>5 DEF WriterInv, Versions, Rising, VersionNone
<1>8. Linked'
  <2>1. Exists(writer.to) /\ writer.to # Root /\ writer.from = writer.to - 1
    BY <1>2, <1>6 DEF Exists, VersionNone, Root, Revs
  <2>2. \A n \in Revs : knots'[n].prev = IF n # Root /\ Exists(n) THEN n - 1 ELSE BadRef
    <3> TAKE n \in Revs
    <3>1. CASE n = writer.to
      BY <1>4, <2>1, <3>1
    <3>2. CASE n # writer.to
      BY <1>4, <3>2 DEF WriterInv, Linked
    <3> QED
      BY <3>1, <3>2
  <2>3. \A n \in Revs : knots'[n].next =
          IF n + 1 \in Revs /\ Exists(n + 1) THEN n + 1 ELSE BadRef
    BY <1>1, <1>4 DEF WriterInv, Linked
  <2>4. \A n \in Revs : n + 1 \in Revs => Exists(n + 1)' = Exists(n + 1)
    BY <1>5
  <2> QED
    BY <1>1, <1>5, <2>2, <2>3, <2>4 DEF Linked
<1>9. Modified'
  BY <1>1, <1>5 DEF WriterInv, Modified
<1>10. Beside
  <2>1. \A m \in Revs : cnt[m] \in 0 .. NodeLoad /\ cnt[m] \in Nat
    BY DEF ReaderInv, Typed
  <2>2. \A m \in Revs : cnt[m] + 1 .. cnt[m] = {}
    BY <2>1
  <2> QED
    BY <1>1, <1>4, <1>5, <1>6, <2>1, <2>2 DEF Beside, Exists
<1>11. Kept'
  BY <1>1, <1>10, KeptBeside DEF WriterInv, Kept
<1> QED
  BY <1>1, <1>4, <1>7, <1>8, <1>9, <1>10, <1>11 DEF WriterInv

(* The copy of a full node holds modifiers in the order of their versions, none
   of them later than what is written. *)
LEMMA ReducedOrdered ==
    ASSUME ReaderInv, Modified, currVersion # VersionNone, NEW n \in Revs, Exists(n),
           NEW k \in Keys, NEW w \in Data \cup {Unset}, NEW s \in Reduced(n, k, w)
    PROVE  /\ Len(s) \in 0 .. NodeLoad /\ DOMAIN s = 1 .. Len(s)
           /\ \A j \in 1 .. Len(s) : /\ s[j] \in Modifiers /\ s[j].version <= currVersion
                                     /\ \A i \in 1 .. j : s[i].version <= s[j].version
<1> USE ReaderAssumption DEF ReaderAssumption
<1> DEFINE new == Mod(currVersion, k, w)
<1>1. PICK old \in InForce(n) : s \in Sorted((InForce(n) \ {old}) \cup {new})
  BY DEF Reduced
<1> DEFINE S == (InForce(n) \ {old}) \cup {new}
<1>2. /\ mods \in [Revs -> [1 .. NodeLoad -> Modifiers]] /\ cnt \in [Revs -> 0 .. NodeLoad]
      /\ Fresh = currVersion /\ currVersion \in Nat
      /\ \A j \in 1 .. cnt[n] : mods[n][j].version <= Fresh
  BY DEF Modified, ReaderInv, Typed, Fresh
<1>3. ASSUME NEW m \in InForce(n) PROVE m \in Modifiers /\ m.version <= currVersion
  <2>1. PICK key \in Keys : m = Newest(Written(n), key) /\ m.value # Unset
    BY DEF InForce
  <2>2. \/ m = ZeroMod
        \/ \E j \in 1 .. cnt[n] : m = mods[n][j]
    BY <1>2, <2>1, NewestValue
  <2>3. m # ZeroMod
    BY <2>1 DEF ZeroMod, Mod
  <2>4. PICK j \in 1 .. cnt[n] : m = mods[n][j]
    BY <2>2, <2>3
  <2>5. cnt[n] \in 0 .. NodeLoad
    BY <1>2
  <2>6. j \in 1 .. NodeLoad
    BY <2>5
  <2> QED
    BY <1>2, <2>4, <2>6
<1>4. new \in Modifiers /\ new.version = currVersion
  BY <1>2 DEF Mod, Modifiers
<1>5. \A m \in S : m \in Modifiers /\ m.version <= currVersion
  BY <1>2, <1>3, <1>4
<1>6. Len(s) \in 0 .. NodeLoad
  BY ReducedFits
<1> HIDE DEF S, new
<1>7. /\ s \in [1 .. Cardinality(S) -> S]
      /\ \A i, j \in DOMAIN s : i < j => s[i].version <= s[j].version
  BY <1>1 DEF Sorted, S
<1>8. DOMAIN s = 1 .. Len(s)
  <2>1. DOMAIN s = 1 .. Cardinality(S)
    BY <1>7
  <2>2. IsFiniteSet(S)
    <3>1. s \in Surjection(1 .. Cardinality(S), S)
      BY <1>1, <1>7 DEF Sorted, S, Surjection, Range
    <3>2. IsFiniteSet(InForce(n))
      <4> DEFINE T == {Newest(Written(n), key) : key \in Keys}
      <4>1. [key \in Keys |-> Newest(Written(n), key)] \in Surjection(Keys, T)
        BY DEF Surjection
      <4>2. IsFiniteSet(T)
        BY <4>1, FS_Surjection
      <4> QED
        BY <4>2, FS_Subset DEF InForce
    <3> QED
      BY <3>2, FS_Subset, FS_AddElement DEF S
  <2>3. Cardinality(S) \in Nat
    BY <2>2, FS_CardinalityType
  <2>4. Len(s) = Cardinality(S)
    BY <1>7, <2>3
  <2> QED
    BY <2>1, <2>4
<1>9. ASSUME NEW j \in 1 .. Len(s)
      PROVE  /\ s[j] \in Modifiers /\ s[j].version <= currVersion
             /\ \A i \in 1 .. j : s[i].version <= s[j].version
  <2>1. s[j] \in S
    BY <1>7, <1>8
  <2>2. s[j] \in Modifiers /\ s[j].version \in Nat /\ s[j].version <= currVersion
    BY <1>5, <2>1 DEF Modifiers
  <2>3. ASSUME NEW i \in 1 .. j PROVE s[i].version <= s[j].version
    <3>1. CASE i = j
      BY <2>2, <3>1
    <3>2. CASE i # j
      BY <1>6, <1>7, <1>8, <3>2
    <3> QED
      BY <3>1, <3>2
  <2> QED
    BY <2>2, <2>3
<1> QED
  BY <1>6, <1>8, <1>9

LEMMA SpillStep ==
    ASSUME ReaderInv, WriterInv, NEW n \in Revs, NEW s \in Writes, Spill(n, s[1], s[2])
    PROVE  /\ WriterInv' /\ Beside /\ reader' = reader
           /\ \A m \in Revs : knots'[m].next = knots[m].next
<1> USE ReaderAssumption DEF ReaderAssumption
<1>1. PICK new \in Revs, r \in Reduced(n, s[1], s[2]) :
         /\ new = n + 1
         /\ mods' = [mods EXCEPT ![new] = Padded(r)]
         /\ cnt' = [cnt EXCEPT ![new] = Len(r)]
         /\ knots' = [knots EXCEPT ![new].version = currVersion]
         /\ writer' = [pc |-> "link", from |-> n, to |-> new]
  BY DEF Spill
<1>2. /\ writer.pc = "idle" /\ currVersion # 0 /\ IsHead(n)
      /\ knots[n].version < currVersion
      /\ UNCHANGED <<headVersion, currVersion, reader, past>>
      /\ headVersion \in 1 .. MaxVersion /\ currVersion = headVersion + 1
      /\ Fresh = currVersion /\ Fresh' = currVersion
  BY DEF Spill, Idle, WriterInv, Versions, VersionNone, Fresh
<1>3. writer'.pc = "link" /\ writer'.from = n /\ writer'.to = new
  BY <1>1
<1>4. knots \in [Revs -> Knots] /\ cnt \in [Revs -> 0 .. NodeLoad] /\ Exists(n)
  BY <1>2 DEF ReaderInv, Typed, IsHead, Exists
<1>5. \A m \in Revs : Exists(m) => m <= n /\ knots[m].version <= knots[n].version
  <2>1. ASSUME NEW m \in Revs, Exists(m) PROVE m <= n /\ knots[m].version <= knots[n].version
    <3>1. m <= n /\ (m # n => knots[m].version < knots[n].version)
      BY <1>2, <2>1, HeadIsLast
    <3>2. knots[m].version \in Nat /\ knots[n].version \in Nat
      BY <1>4 DEF Knots
    <3> QED
      BY <3>1, <3>2
  <2> QED
    BY <2>1
<1>6. ~Exists(new) /\ new # Root /\ new # n
  BY <1>1, <1>5 DEF Revs, Root
<1>7. /\ \A m \in Revs : m # new => knots'[m] = knots[m]
      /\ \A m \in Revs : knots'[m].next = knots[m].next /\ knots'[m].prev = knots[m].prev
      /\ knots'[new].version = currVersion
  BY ZenonT(60), <1>1, <1>4 DEF Knots
<1>8. \A m \in Revs : Exists(m)' = (Exists(m) \/ m = new)
  BY <1>2, <1>7 DEF Exists, VersionNone
<1>9. Versions'
  BY <1>2, <1>3 DEF WriterInv, Versions, VersionNone
<1>10. Rising'
  <2>1. knots'[Root].version = 1 /\ Root \in Revs
    BY <1>6, <1>7 DEF WriterInv, Rising, Root, Revs
  <2>2. \A m \in Revs : knots'[m].version <= currVersion
    BY <1>2, <1>7 DEF WriterInv, Rising
  <2>3. ASSUME NEW l \in Revs, NEW m \in Revs, l < m, Exists(m) \/ m = new
        PROVE  (Exists(l) \/ l = new) /\ knots'[l].version < knots'[m].version
    <3>1. CASE m # new
      <4>1. Exists(l) /\ knots[l].version < knots[m].version
        BY <2>3, <3>1 DEF WriterInv, Rising
      <4>2. l # new
        BY <1>6, <4>1
      <4> QED
        BY <1>7, <3>1, <4>1, <4>2
    <3>2. CASE m = new
      <4>1. l # new /\ (l = n \/ l < n)
        BY <1>1, <2>3, <3>2 DEF Revs
      <4>2. Exists(l)
        BY <1>4, <4>1 DEF WriterInv, Rising
      <4>3. knots[l].version \in Nat /\ knots[n].version \in Nat /\ knots[l].version <= knots[n].version
        BY <1>4, <1>5, <4>2 DEF Knots
      <4> QED
        BY <1>2, <1>7, <3>2, <4>1, <4>2, <4>3
    <3> QED
      BY <3>1, <3>2
  <2> QED
    BY <1>2, <1>8, <2>1, <2>2, <2>3 DEF Rising
<1>11. Linked'
  <2>1. /\ \A m \in Revs : knots[m].next =
              IF m + 1 \in Revs /\ Exists(m + 1) THEN m + 1 ELSE BadRef
        /\ \A m \in Revs : knots[m].prev = IF m # Root /\ Exists(m) THEN m - 1 ELSE BadRef
    BY <1>2 DEF WriterInv, Linked
  <2>2. \A m \in Revs : knots'[m].next =
          IF m + 1 \in Revs /\ (Exists(m + 1) \/ m + 1 = new) /\ ~(new = m + 1)
          THEN m + 1 ELSE BadRef
    BY <1>6, <1>7, <2>1
  <2>3. \A m \in Revs : knots'[m].prev =
          IF m # Root /\ (Exists(m) \/ m = new) /\ ~(new = m) THEN m - 1 ELSE BadRef
    BY <1>6, <1>7, <2>1
  <2>4. \A m \in Revs : Exists(m) \/ m = new => m <= new
    BY <1>1, <1>5 DEF Revs
  <2>5. \A m \in Revs : m + 1 \in Revs => Exists(m + 1)' = (Exists(m + 1) \/ m + 1 = new)
    BY <1>8
  <2>6. /\ writer'.to \in Revs /\ writer'.to = writer'.from + 1 /\ writer'.from \in Revs
        /\ knots'[writer'.to].version = currVersion'
        /\ \A m \in Revs : Exists(m)' => m <= writer'.to
    BY <1>1, <1>2, <1>3, <1>7, <1>8, <2>4
  <2>7. \A m \in Revs : knots'[m].next =
          IF m + 1 \in Revs /\ Exists(m + 1)' /\ ~(writer'.pc = "link" /\ writer'.to = m + 1)
          THEN m + 1 ELSE BadRef
    BY <1>3, <2>2, <2>5
  <2>8. \A m \in Revs : knots'[m].prev =
          IF m # Root /\ Exists(m)' /\ ~(writer'.pc \in {"link", "back"} /\ writer'.to = m)
          THEN m - 1 ELSE BadRef
    BY <1>3, <1>8, <2>3
  <2> QED
    BY <2>6, <2>7, <2>8 DEF Linked
<1>12. /\ Len(r) \in 0 .. NodeLoad /\ DOMAIN r = 1 .. Len(r)
       /\ \A j \in 1 .. Len(r) : /\ r[j] \in Modifiers /\ r[j].version <= currVersion
                                 /\ \A i \in 1 .. j : r[i].version <= r[j].version
  <2>1. s[1] \in Keys /\ s[2] \in Data \cup {Unset} /\ currVersion # VersionNone
    BY <1>2 DEF VersionNone
  <2> QED
    BY <1>4, <2>1, ReducedOrdered DEF WriterInv
<1>13. /\ mods \in [Revs -> [1 .. NodeLoad -> Modifiers]]
       /\ \A m \in Revs : Exists(m) => \A j \in 1 .. cnt[m] :
            /\ mods[m][j].version <= Fresh
            /\ \A i \in 1 .. j : mods[m][i].version <= mods[m][j].version
  BY DEF WriterInv, Modified
<1>14. /\ mods' \in [Revs -> [1 .. NodeLoad -> Modifiers]]
       /\ \A m \in Revs : m # new => mods'[m] = mods[m]
       /\ \A j \in 1 .. Len(r) : mods'[new][j] = r[j]
  <2>1. ZeroMod \in Modifiers
    BY DEF ZeroMod, Mod, Modifiers, VersionNone
  <2>2. Padded(r) \in [1 .. NodeLoad -> Modifiers] /\ \A j \in 1 .. Len(r) : Padded(r)[j] = r[j]
    BY <1>12, <2>1 DEF Padded
  <2> QED
    BY <1>1, <1>13, <2>2
<1>15. /\ cnt' \in [Revs -> 0 .. NodeLoad] /\ cnt'[new] = Len(r)
       /\ \A m \in Revs : m # new => cnt'[m] = cnt[m]
  BY <1>1, <1>4, <1>12
<1>16. Modified'
  <2>1. ASSUME NEW m \in Revs, Exists(m) \/ m = new, NEW j \in 1 .. cnt'[m]
        PROVE  /\ mods'[m][j].version <= currVersion
               /\ \A i \in 1 .. j : mods'[m][i].version <= mods'[m][j].version
    <3>1. CASE m # new
      BY <1>2, <1>13, <1>14, <1>15, <2>1, <3>1
    <3>2. CASE m = new
      <4>1. \A i \in 1 .. j : i \in 1 .. Len(r)
        BY <1>12, <1>15, <3>2
      <4> QED
        BY <1>12, <1>14, <1>15, <3>2, <4>1
    <3> QED
      BY <3>1, <3>2
  <2> QED
    BY <1>2, <1>3, <1>8, <1>14, <1>15, <2>1 DEF Modified
<1>17. Beside
  <2>1. ASSUME NEW m \in Revs, Exists(m)
        PROVE  /\ knots'[m].version = knots[m].version /\ (Backed(m) => Backed(m)')
               /\ cnt'[m] = cnt[m] /\ mods'[m] = mods[m] /\ cnt[m] \in 0 .. NodeLoad
               /\ cnt[m] + 1 .. cnt[m] = {}
    <3>1. m # new /\ cnt[m] \in 0 .. NodeLoad
      BY <1>4, <1>6, <2>1
    <3> QED
      BY <1>7, <1>14, <1>15, <3>1 DEF Backed
  <2>2. ASSUME NEW m \in Revs, ~Exists(m)
        PROVE  \/ knots'[m].version = VersionNone
               \/ \A h \in 1 .. headVersion : h < knots'[m].version /\ ~(knots'[m].version <= h)
    <3>1. CASE m = new
      BY <1>2, <1>7, <3>1
    <3>2. CASE m # new
      BY <1>7, <2>2, <3>2 DEF Exists
    <3> QED
      BY <3>1, <3>2
  <2> HIDE DEF Exists
  <2> QED
    BY <1>2, <2>1, <2>2 DEF Beside
<1>18. Kept'
  BY <1>2, <1>17, KeptBeside DEF WriterInv, Kept
<1> QED
  BY <1>2, <1>7, <1>9, <1>10, <1>11, <1>16, <1>17, <1>18 DEF WriterInv

---------------------------------------------------------------------------
(* The reader's steps *)

LEMMA GetStep ==
    ASSUME ReaderInv, WriterInv, NEW n \in Held,
           NEW v \in (1 .. headVersion) \cup {VersionHead}, NEW k \in ReadKeys, Get(n, v, k)
    PROVE  Asking' /\ Walking' /\ Looking'
<1> USE ReaderAssumption DEF ReaderAssumption
<1>1. /\ UNCHANGED <<headVersion, currVersion, knots, mods, cnt, writer, past>>
      /\ reader'.pc = (IF knots[n].version > v THEN "down"
                       ELSE IF knots[n].version < v THEN "up" ELSE "version")
      /\ reader'.ref = n /\ reader'.asked = v /\ reader'.version = v /\ reader'.key = k
      /\ reader'.backed = (v = VersionHead \/ Backed(n))
      /\ reader'.since = (IF v = VersionHead THEN headVersion ELSE v)
      /\ reader'.torn = (v = VersionHead /\ \E m \in Held : OfOpen(m))
  BY DEF Get, memory
<1>2. headVersion \in 1 .. MaxVersion /\ Fresh <= MaxVersion
  BY DEF WriterInv, Versions
<1>3. n \in Revs /\ Exists(n) /\ knots[n].version \in Nat /\ knots[n].version <= MaxVersion
  <2>1. n \in Revs /\ Exists(n)
    BY HeldExists
  <2>2. knots[n].version \in Nat /\ knots[n].version <= Fresh /\ Fresh \in Nat
    BY <2>1 DEF WriterInv, Rising, ReaderInv, Typed, Knots, Fresh
  <2> QED
    BY <1>2, <2>1, <2>2
<1>4. k \in Keys /\ VersionHead = MaxVersion + 1
  BY DEF VersionHead
<1>5. Asking'
  BY <1>1, <1>2, <1>4 DEF Asking, VersionHead
<1>6. CASE v = VersionHead
  <2>1. reader'.pc = "up" /\ (Sure' => \A m \in Held : ~OfOpen(m))
    <3>1. reader'.asked = VersionHead /\ (~reader'.torn => \A m \in Held : ~OfOpen(m))
      BY <1>1, <1>6
    <3>2. Sure' => ~reader'.torn
      BY <3>1 DEF Sure, VersionHead
    <3>3. reader'.pc = "up"
      BY <1>1, <1>2, <1>3, <1>4, <1>6
    <3> QED
      BY <3>1, <3>2, <3>3
  <2>2. Held' = Held /\ \A m \in Held : OfOpen(m)' = OfOpen(m)
    BY <1>1 DEF Held, OfOpen
  <2> QED
    BY <1>1, <1>5, <1>6, <2>1, <2>2 DEF Walking, Looking, VersionHead
<1>7. CASE v \in 1 .. headVersion
  <2>1. v # VersionHead /\ Sure' = Backed(n) /\ Backed(n)' = Backed(n) /\ Exists(n)'
    BY <1>1, <1>2, <1>3, <1>4, <1>7 DEF Sure, VersionHead, Backed, Exists
  <2>2. ASSUME knots[n].version = v PROVE InForceAt(n, v)'
    BY <1>1, <1>3, <1>7, <2>2 DEF InForceAt, Exists, WriterInv, Rising
  <2>3. Walking'
    <3>1. CASE knots[n].version > v
      BY <1>1, <1>3, <2>1, <3>1 DEF Walking, VersionHead, Exists, Backed
    <3>2. CASE knots[n].version < v
      BY <1>1, <1>3, <1>7, <2>1, <3>2 DEF Walking, VersionHead, Exists
    <3>3. CASE knots[n].version = v
      <4>1. reader'.pc = "version"
        BY <1>1, <1>7, <3>3
      <4>2. InForceAt(reader.ref, reader.version)'
        BY <1>1, <2>2, <3>3 DEF InForceAt, Exists
      <4> QED
        BY <1>1, <2>1, <4>1, <4>2 DEF Walking, VersionHead
    <3> QED
      BY <1>3, <1>7, <3>1, <3>2, <3>3
  <2>4. Looking'
    BY <1>1 DEF Looking
  <2> QED
    BY <1>5, <2>3, <2>4
<1> QED
  BY <1>6, <1>7

(* What a read of a version is done with once its answer is known. *)
LEMMA AnswerDone ==
    ASSUME ReaderInv, WriterInv, Asking, reader.pc # "idle", NEW w, Answer(w),
           UNCHANGED <<memory, writer, past>>,
           Sure => \E h \in reader.since .. headVersion :
                      /\ w = past[h][reader.key]
                      /\ reader.asked # VersionHead => h = reader.asked
    PROVE  Asking' /\ Walking' /\ Looking'
<1>1. /\ reader'.pc = "done" /\ reader'.value = w /\ reader'.key = reader.key
      /\ reader'.asked = reader.asked /\ reader'.since = reader.since
      /\ reader'.backed = reader.backed /\ reader'.torn = reader.torn
      /\ headVersion' = headVersion /\ past' = past
  BY DEF Answer, memory
<1>2. Sure' = Sure
  BY <1>1 DEF Sure, VersionHead
<1>3. Asking'
  BY <1>1 DEF Asking, VersionHead
<1> QED
  BY <1>1, <1>2, <1>3 DEF Walking, Looking, VersionHead

(* No revision comes after one that does not lead to it yet, but one that is
   of the open transaction. *)
LEMMA NothingBehind ==
    ASSUME ReaderInv, WriterInv, NEW n \in Revs, Exists(n), knots[n].next = BadRef,
           NEW m \in Revs, m > n, Exists(m)
    PROVE  headVersion < knots[m].version
<1> USE ReaderAssumption DEF ReaderAssumption
<1>1. n + 1 \in Revs /\ (n + 1 < m \/ n + 1 = m)
  BY DEF Revs
<1>2. Exists(n + 1)
  BY <1>1 DEF WriterInv, Rising
<1>3. writer.pc = "link" /\ writer.to = n + 1
  BY <1>1, <1>2 DEF WriterInv, Linked, BadRef, Revs
<1>4. /\ knots[n + 1].version = currVersion /\ m <= n + 1
      /\ currVersion = headVersion + 1 /\ headVersion \in Nat
  BY <1>3 DEF WriterInv, Linked, Versions, VersionNone
<1> QED
  BY <1>1, <1>4 DEF Revs

LEMMA ReviseDownStep ==
    ASSUME ReaderInv, WriterInv, Asking, Walking, Looking, ReviseDown
    PROVE  Asking' /\ Walking' /\ Looking'
<1> USE ReaderAssumption DEF ReaderAssumption
<1> DEFINE p == knots[reader.ref].prev
<1>1. /\ reader.pc = "down" /\ UNCHANGED <<memory, writer, past>>
      /\ IF p = BadRef THEN Answer(Unset)
         ELSE reader' = [reader EXCEPT !.ref = p,
                 !.pc = IF knots[p].version <= reader.version THEN "version" ELSE @]
  BY DEF ReviseDown
<1>2. /\ headVersion' = headVersion /\ knots' = knots /\ mods' = mods /\ cnt' = cnt
  BY <1>1 DEF memory
<1>3. Sure => /\ reader.ref \in Revs /\ reader.ref # Root /\ Exists(reader.ref)
              /\ reader.asked # VersionHead
              /\ reader.version < knots[reader.ref].version
              /\ reader.version \in 1 .. headVersion
              /\ p = reader.ref - 1 /\ p # BadRef
  <2> SUFFICES ASSUME Sure
               PROVE  /\ reader.ref \in Revs /\ reader.ref # Root /\ Exists(reader.ref)
                      /\ reader.asked # VersionHead
                      /\ reader.version < knots[reader.ref].version
                      /\ reader.version \in 1 .. headVersion
                      /\ p = reader.ref - 1 /\ p # BadRef
    OBVIOUS
  <2>1. /\ reader.ref \in Revs /\ Exists(reader.ref) /\ Backed(reader.ref)
        /\ reader.asked # VersionHead
        /\ reader.version < knots[reader.ref].version
    BY <1>1 DEF Walking
  <2>2. reader.version \in 1 .. headVersion
    BY <1>1, <2>1 DEF Asking
  <2>3. reader.ref # Root
    <3>1. knots[Root].version = 1
      BY DEF WriterInv, Rising
    <3> QED
      BY <2>1, <2>2, <3>1
  <2> QED
    BY <2>1, <2>2, <2>3 DEF Backed, WriterInv, Linked
<1>4. CASE p = BadRef
  <2>1. ~Sure /\ Answer(Unset)
    BY <1>1, <1>3, <1>4
  <2> QED
    BY <1>1, <2>1, AnswerDone
<1>5. CASE p # BadRef
  <2>1. /\ reader'.ref = p /\ reader'.asked = reader.asked
        /\ reader'.version = reader.version /\ reader'.key = reader.key
        /\ reader'.backed = reader.backed /\ reader'.since = reader.since
        /\ reader'.torn = reader.torn
        /\ reader'.pc = IF knots[p].version <= reader.version THEN "version" ELSE "down"
    <3>1. reader' = [reader EXCEPT !.ref = p,
                 !.pc = IF knots[p].version <= reader.version THEN "version" ELSE @]
      BY <1>1, <1>5
    <3> QED
      BY <1>1, <3>1
  <2>2. Sure' = Sure
    BY <2>1 DEF Sure, VersionHead
  <2>3. Asking'
    BY <1>1, <1>2, <2>1 DEF Asking, VersionHead
  <2>4. Looking'
    BY <2>1 DEF Looking
  <2>5. ASSUME Sure PROVE Walking'
    <3>0. PICK q \in Revs : q = p
      BY <1>3, <2>5 DEF Revs, Root
    <3> HIDE DEF p
    <3>1. q < reader.ref /\ Exists(q) /\ q + 1 = reader.ref
      BY <1>3, <2>5, <3>0 DEF Revs, WriterInv, Rising
    <3>2. /\ \A m \in Revs : knots[m].version \in Nat
          /\ headVersion \in Nat /\ reader.version \in 1 .. headVersion
      BY <1>3, <2>5 DEF ReaderInv, Typed, Knots
    <3>3. CASE knots[q].version <= reader.version
      <4>1. InForceAt(q, reader.version)
        <5>1. ASSUME NEW m \in Revs, m > q, Exists(m) PROVE reader.version < knots[m].version
          <6>1. m = reader.ref \/ reader.ref < m
            BY <3>1, <5>1 DEF Revs
          <6>2. CASE m = reader.ref
            BY <1>3, <2>5, <6>2
          <6>3. CASE reader.ref < m
            <7>1. knots[reader.ref].version < knots[m].version
              BY <1>3, <2>5, <5>1, <6>3 DEF WriterInv, Rising
            <7> QED
              BY <1>3, <2>5, <3>2, <7>1
          <6> QED
            BY <6>1, <6>2, <6>3
        <5> QED
          BY <3>1, <3>3, <5>1 DEF InForceAt
      <4>2. InForceAt(reader.ref, reader.version)'
        BY <1>2, <2>1, <3>0, <4>1 DEF InForceAt, Exists
      <4> QED
        BY <1>3, <2>1, <2>5, <3>0, <3>3, <4>2 DEF Walking, VersionHead
    <3>4. CASE ~(knots[q].version <= reader.version)
      <4>1. reader.version < knots[q].version
        BY <3>1, <3>2, <3>4
      <4>2. Backed(q)
        <5>1. CASE q = Root
          BY <5>1 DEF Backed
        <5>2. CASE q # Root
          <6>1. ~(writer.pc \in {"link", "back"} /\ writer.to = q)
            BY <1>3, <2>5, <3>1 DEF WriterInv, Linked, Revs
          <6>2. knots[q].prev = q - 1
            BY <3>1, <5>2, <6>1 DEF WriterInv, Linked
          <6> QED
            BY <3>1, <5>2, <6>2 DEF Backed, BadRef, Revs, Root
        <5> QED
          BY <5>1, <5>2
      <4>3. reader'.pc = "down" /\ Exists(q)' /\ Backed(q)' /\ knots'[q].version = knots[q].version
        BY <1>2, <2>1, <3>0, <3>1, <3>4, <4>2 DEF Exists, Backed
      <4> QED
        BY <1>3, <2>1, <2>5, <3>0, <3>1, <4>1, <4>3 DEF Walking, VersionHead, Exists, Backed
    <3> QED
      BY <3>3, <3>4
  <2>6. Walking'
    BY <2>2, <2>5 DEF Walking
  <2> QED
    BY <2>3, <2>4, <2>6
<1> QED
  BY <1>4, <1>5

LEMMA ReviseUpStep ==
    ASSUME ReaderInv, WriterInv, Asking, Walking, Looking, ReviseUp
    PROVE  Asking' /\ Walking' /\ Looking'
<1> USE ReaderAssumption DEF ReaderAssumption
<1> DEFINE r == reader.ref
           n == knots[r].next
           v == reader.version
<1>1. /\ reader.pc = "up" /\ UNCHANGED <<memory, writer, past>>
      /\ reader' = IF n = BadRef \/ knots[n].version > v
                   THEN [reader EXCEPT !.pc = "version"]
                   ELSE [reader EXCEPT !.ref = n]
  BY DEF ReviseUp
<1>2. /\ headVersion' = headVersion /\ knots' = knots /\ mods' = mods /\ cnt' = cnt
  BY <1>1 DEF memory
<1>3. /\ reader'.asked = reader.asked /\ reader'.version = reader.version
      /\ reader'.key = reader.key /\ reader'.backed = reader.backed
      /\ reader'.since = reader.since /\ reader'.torn = reader.torn
     
      /\ \/ reader'.pc = "version" /\ reader'.ref = r /\ (n = BadRef \/ knots[n].version > v)
         \/ reader'.pc = "up" /\ reader'.ref = n /\ n # BadRef /\ ~(knots[n].version > v)
  <2>1. CASE n = BadRef \/ knots[n].version > v
    <3>1. reader' = [reader EXCEPT !.pc = "version"]
      BY <1>1, <2>1
    <3> QED
      BY <2>1, <3>1
  <2>2. CASE ~(n = BadRef \/ knots[n].version > v)
    <3>1. reader' = [reader EXCEPT !.ref = n]
      BY <1>1, <2>2
    <3> QED
      BY <1>1, <2>2, <3>1
  <2> QED
    BY <2>1, <2>2
<1>4. Sure' = Sure
  BY <1>3 DEF Sure, VersionHead
<1>5. Asking'
  BY <1>1, <1>2, <1>3 DEF Asking, VersionHead
<1>6. Looking'
  BY <1>3 DEF Looking
<1> HIDE DEF r, n, v
<1>7. \A m \in Revs : knots[m].version \in Nat /\ knots[m].version <= MaxVersion
  <2>1. Fresh \in Nat /\ Fresh <= MaxVersion
    BY DEF WriterInv, Versions, ReaderInv, Typed, Fresh
  <2>2. \A m \in Revs : knots[m].version \in Nat /\ knots[m].version <= Fresh
    BY DEF WriterInv, Rising, ReaderInv, Typed, Knots
  <2> QED
    BY <2>1, <2>2
<1>8. ASSUME NEW m \in Revs, knots[m].next # BadRef
      PROVE  knots[m].next = m + 1 /\ m + 1 \in Revs /\ Exists(m + 1)
  BY <1>8 DEF WriterInv, Linked
<1>9. ASSUME Sure, reader.asked # VersionHead PROVE Walking'
  <2>1. /\ r \in Revs /\ Exists(r) /\ knots[r].version <= v /\ v \in 1 .. headVersion
    BY <1>1, <1>9 DEF Walking, Asking, r, v
  <2>2. headVersion \in Nat
    BY DEF ReaderInv, Typed
  <2>3. CASE reader'.pc = "version"
    <3>1. reader'.ref = r /\ (n = BadRef \/ knots[n].version > v)
      BY <1>3, <2>3
    <3>2. ASSUME NEW m \in Revs, m > r, Exists(m) PROVE v < knots[m].version
      <4>1. CASE n = BadRef
        <5>1. headVersion < knots[m].version
          BY <2>1, <3>2, <4>1, NothingBehind DEF n
        <5> QED
          BY <1>7, <2>1, <2>2, <5>1
      <4>2. CASE n # BadRef
        <5>1. n = r + 1 /\ n \in Revs /\ Exists(n) /\ knots[n].version > v
          BY <1>8, <2>1, <3>1, <4>2 DEF n
        <5>2. n = m \/ n < m
          BY <2>1, <3>2, <5>1 DEF Revs
        <5>3. n < m => knots[n].version < knots[m].version
          BY <3>2, <5>1 DEF WriterInv, Rising
        <5>4. knots[n].version \in Nat /\ knots[m].version \in Nat
          BY <1>7, <5>1
        <5> QED
          BY <2>1, <5>1, <5>2, <5>3, <5>4
      <4> QED
        BY <4>1, <4>2
    <3>3. InForceAt(r, v)
      BY <2>1, <3>2 DEF InForceAt
    <3>4. InForceAt(reader.ref, reader.version)'
      BY <1>2, <1>3, <3>1, <3>3 DEF InForceAt, Exists, v
    <3> QED
      BY <1>3, <1>9, <2>3, <3>4 DEF Walking, VersionHead
  <2>4. CASE reader'.pc = "up"
    <3>1. reader'.ref = n /\ n # BadRef /\ ~(knots[n].version > v)
      BY <1>3, <2>4
    <3>2. n \in Revs /\ Exists(n)
      BY <1>8, <2>1, <3>1 DEF n
    <3>3. knots[n].version <= v
      BY <1>7, <2>1, <3>1, <3>2
    <3> QED
      BY <1>2, <1>3, <1>9, <2>4, <3>1, <3>2, <3>3 DEF Walking, VersionHead, Exists, v
  <2> QED
    BY <1>3, <2>3, <2>4
<1>10. ASSUME Sure, reader.asked = VersionHead PROVE Walking'
  <2>1. /\ v = VersionHead /\ r \in Held /\ \A m \in Held : ~OfOpen(m)
    BY <1>1, <1>10 DEF Walking, r, v
  <2>2. r \in Revs
    BY <2>1, HeldExists
  <2>3. Held' = Held /\ \A m \in Held : OfOpen(m)' = OfOpen(m)
    BY <1>2 DEF Held, OfOpen
  <2>4. CASE reader'.pc = "version"
    <3>1. reader'.ref = r /\ (n = BadRef \/ knots[n].version > v)
      BY <1>3, <2>4
    <3>2. n = BadRef
      <4> SUFFICES ASSUME n # BadRef PROVE FALSE
        OBVIOUS
      <4>1. n \in Revs
        BY <1>8, <2>2 DEF n
      <4> QED
        BY <1>7, <2>1, <3>1, <4>1 DEF VersionHead
    <3> QED
      BY <1>2, <1>3, <1>10, <2>1, <2>3, <2>4, <3>1, <3>2 DEF Walking, VersionHead, v, n
  <2>5. CASE reader'.pc = "up"
    <3>1. reader'.ref = n /\ n # BadRef
      BY <1>3, <2>5
    <3>2. n \in Held
      BY <2>2, <3>1 DEF Held, n
    <3> QED
      BY <1>3, <1>10, <2>1, <2>3, <2>5, <3>1, <3>2 DEF Walking, VersionHead, v
  <2> QED
    BY <1>3, <2>4, <2>5
<1>11. Walking'
  <2>1. CASE Sure
    BY <1>9, <1>10, <2>1
  <2>2. CASE ~Sure
    BY <1>4, <2>2 DEF Walking
  <2> QED
    BY <2>1, <2>2
<1> QED
  BY <1>5, <1>6, <1>11

LEMMA LoadVersionStep ==
    ASSUME ReaderInv, WriterInv, Asking, Walking, Looking, LoadVersion
    PROVE  Asking' /\ Walking' /\ Looking'
<1> USE ReaderAssumption DEF ReaderAssumption
<1> DEFINE r == reader.ref
           v == IF reader.version = VersionHead THEN headVersion ELSE reader.version
<1>1. /\ reader.pc = "version" /\ UNCHANGED <<memory, writer, past>>
      /\ reader' = [reader EXCEPT !.pc = "count", !.version = v]
  BY DEF LoadVersion
<1>2. /\ headVersion' = headVersion /\ knots' = knots /\ mods' = mods /\ cnt' = cnt
  BY <1>1 DEF memory
<1>3. /\ reader'.pc = "count" /\ reader'.ref = r /\ reader'.version = v
      /\ reader'.asked = reader.asked /\ reader'.key = reader.key
      /\ reader'.backed = reader.backed /\ reader'.since = reader.since
      /\ reader'.torn = reader.torn
  BY <1>1
<1>4. Sure' = Sure
  BY <1>3 DEF Sure, VersionHead
<1>5. headVersion \in 1 .. MaxVersion /\ VersionHead = MaxVersion + 1
      /\ reader.since \in 1 .. headVersion
  BY <1>1 DEF WriterInv, Versions, VersionHead, Asking
<1>6. ASSUME reader.asked # VersionHead PROVE v = reader.version /\ v = reader.asked /\ v = reader.since
  BY <1>1, <1>5, <1>6 DEF Asking
<1>7. Asking'
  BY <1>1, <1>2, <1>3, <1>6 DEF Asking, VersionHead
<1>8. Walking'
  BY <1>3 DEF Walking
<1>9. ASSUME Sure PROVE v \in reader.since .. headVersion /\ InForceAt(r, v)
  <2>1. CASE reader.asked # VersionHead
    BY <1>1, <1>5, <1>6, <1>9, <2>1 DEF Walking
  <2>2. CASE reader.asked = VersionHead
    <3>1. /\ reader.version = VersionHead /\ knots[r].next = BadRef
          /\ r \in Held /\ ~OfOpen(r)
      BY <1>1, <1>9, <2>2 DEF Walking
    <3>2. v = headVersion
      BY <3>1
    <3> HIDE DEF v, r
    <3>3. r \in Revs /\ Exists(r)
      BY <3>1, HeldExists
    <3>4. knots[r].version <= headVersion
      BY <1>5, <3>1, <3>3 DEF OfOpen, ReaderInv, Typed, Knots
    <3>5. \A m \in Revs : m > r /\ Exists(m) => headVersion < knots[m].version
      BY <3>1, <3>3, NothingBehind
    <3>6. InForceAt(r, headVersion)
      BY <3>3, <3>4, <3>5 DEF InForceAt
    <3> QED
      BY <1>5, <3>2, <3>6
  <2> QED
    BY <2>1, <2>2
<1> HIDE DEF r, v
<1>10. Looking'
  <2>1. InForceAt(r, v) => InForceAt(reader.ref, reader.version)'
    BY <1>2, <1>3 DEF InForceAt, Exists
  <2> QED
    BY <1>2, <1>3, <1>4, <1>9, <2>1 DEF Looking
<1> QED
  BY <1>7, <1>8, <1>10

LEMMA LoadCountStep ==
    ASSUME ReaderInv, WriterInv, Asking, Walking, Looking, LoadCount
    PROVE  Asking' /\ Walking' /\ Looking'
<1> USE ReaderAssumption DEF ReaderAssumption
<1>1. reader.pc = "count" /\ UNCHANGED <<memory, writer, past>>
  BY DEF LoadCount
<1>2. /\ headVersion' = headVersion /\ knots' = knots /\ mods' = mods /\ cnt' = cnt
  BY <1>1 DEF memory
<1>6. /\ reader'.pc = "scan" /\ reader'.ref = reader.ref
      /\ reader'.version = reader.version /\ reader'.asked = reader.asked
      /\ reader'.key = reader.key /\ reader'.backed = reader.backed
      /\ reader'.since = reader.since /\ reader'.torn = reader.torn
      /\ reader'.at = 1 /\ reader'.end = cnt[reader.ref]
      /\ reader'.found = FALSE /\ reader'.value = Unset
  BY DEF LoadCount
<1>7. Sure' = Sure
  BY <1>6 DEF Sure, VersionHead
<1>8. Asking'
  BY <1>1, <1>2, <1>6 DEF Asking, VersionHead
<1>9. Walking'
  BY <1>6 DEF Walking
<1>10. ASSUME Sure PROVE Looking'
  <2>1. reader.version \in reader.since .. headVersion /\ InForceAt(reader.ref, reader.version)
    BY <1>1, <1>10 DEF Looking
  <2>2. InForceAt(reader.ref, reader.version)'
    BY <1>2, <1>6, <2>1 DEF InForceAt, Exists
  <2>3. cnt[reader.ref] \in Nat
    BY <2>1 DEF InForceAt, ReaderInv, Typed
  <2>4. Unset = ValueAt(reader.ref, reader.at - 1, reader.version, reader.key)'
    <3>1. Of(reader.ref, reader.at - 1, reader.version, reader.key)' = {}
      BY <1>6 DEF Of
    <3> QED
      BY <3>1 DEF ValueAt
  <2>5. /\ reader'.end \in 0 .. cnt'[reader'.ref] /\ reader'.at \in 1 .. reader'.end + 1
        /\ \A j \in reader'.end + 1 .. cnt'[reader'.ref] :
              mods'[reader'.ref][j].version > reader'.version
    <3>1. reader'.end + 1 .. cnt[reader.ref] = {}
      BY <1>6, <2>3
    <3> QED
      BY <1>2, <1>6, <2>3, <3>1
  <2>6. reader'.version \in reader'.since .. headVersion'
    BY <1>2, <1>6, <2>1
  <2> QED
    BY <1>6, <2>2, <2>4, <2>5, <2>6 DEF Looking
<1>11. Looking'
  BY <1>7, <1>10 DEF Looking
<1> QED
  BY <1>8, <1>9, <1>11

(* What the two loops of _nodeFindMod find: the last of the modifiers of the
   key that are not too new. *)
LEMMA ScanStep ==
    ASSUME ReaderInv, WriterInv, Asking, Walking, Looking, Scan
    PROVE  Asking' /\ Walking' /\ Looking'
<1> USE ReaderAssumption DEF ReaderAssumption
<1> DEFINE m == mods[reader.ref][reader.at]
           new == m.version > reader.version
           about == m.key = reader.key
<1>1. /\ reader.pc = "scan" /\ UNCHANGED <<memory, writer, past>>
      /\ \/ reader.at > reader.end /\ Answer(reader.value)
         \/ ~(reader.at > reader.end) /\ new /\ (~reader.found \/ about) /\ Answer(reader.value)
         \/ /\ ~(reader.at > reader.end) /\ ~(new /\ (~reader.found \/ about))
            /\ about /\ (reader.found \/ m.value # Unset)
            /\ reader' = [reader EXCEPT !.at = @ + 1, !.found = TRUE, !.value = m.value]
         \/ /\ ~(reader.at > reader.end) /\ ~(new /\ (~reader.found \/ about))
            /\ ~(about /\ (reader.found \/ m.value # Unset))
            /\ reader' = [reader EXCEPT !.at = @ + 1]
  BY DEF Scan
<1>2. /\ headVersion' = headVersion /\ knots' = knots /\ mods' = mods /\ cnt' = cnt
  BY <1>1 DEF memory
<1>3. reader.key \in Keys /\ reader.since \in 1 .. headVersion
      /\ (reader.asked # VersionHead => reader.version = reader.asked /\ reader.asked = reader.since)
  BY <1>1 DEF Asking
<1>4. ASSUME Sure
      PROVE  /\ reader.version \in reader.since .. headVersion
             /\ InForceAt(reader.ref, reader.version) /\ reader.ref \in Revs /\ Exists(reader.ref)
             /\ reader.end \in 0 .. cnt[reader.ref] /\ reader.at \in 1 .. reader.end + 1
             /\ \A j \in reader.end + 1 .. cnt[reader.ref] :
                   mods[reader.ref][j].version > reader.version
             /\ reader.value = ValueAt(reader.ref, reader.at - 1, reader.version, reader.key)
             /\ reader.found \in BOOLEAN
             /\ ~reader.found => reader.value = Unset
             /\ cnt[reader.ref] \in 0 .. NodeLoad /\ cnt[reader.ref] \in Nat
             /\ \A j \in 1 .. NodeLoad : mods[reader.ref][j].version \in Nat
             /\ \A j \in 1 .. cnt[reader.ref] : \A i \in 1 .. j :
                   mods[reader.ref][i].version <= mods[reader.ref][j].version
  <2>1. /\ reader.version \in reader.since .. headVersion
        /\ InForceAt(reader.ref, reader.version)
        /\ reader.end \in 0 .. cnt[reader.ref] /\ reader.at \in 1 .. reader.end + 1
        /\ \A j \in reader.end + 1 .. cnt[reader.ref] :
              mods[reader.ref][j].version > reader.version
        /\ reader.value = ValueAt(reader.ref, reader.at - 1, reader.version, reader.key)
        /\ reader.found \in BOOLEAN
        /\ ~reader.found => reader.value = Unset
    BY <1>1, <1>4 DEF Looking
  <2>2. reader.ref \in Revs /\ Exists(reader.ref)
    BY <2>1 DEF InForceAt
  <2>3. /\ mods[reader.ref] \in [1 .. NodeLoad -> Modifiers] /\ cnt[reader.ref] \in 0 .. NodeLoad
        /\ \A j \in 1 .. cnt[reader.ref] : \A i \in 1 .. j :
              mods[reader.ref][i].version <= mods[reader.ref][j].version
    BY <2>2 DEF WriterInv, Modified
  <2>4. \A j \in 1 .. NodeLoad : mods[reader.ref][j].version \in Nat
    BY <2>3 DEF Modifiers
  <2>5. cnt[reader.ref] \in Nat
    BY <2>3
  <2> QED
    BY Zenon, <2>1, <2>2, <2>3, <2>4, <2>5
(* the answer, once nothing that is left counts for the version *)
<1>5. ASSUME Answer(reader.value),
             Sure => \A j \in reader.at .. cnt[reader.ref] :
                        mods[reader.ref][j].version > reader.version
      PROVE  Asking' /\ Walking' /\ Looking'
  <2>1. ASSUME Sure
        PROVE  \E h \in reader.since .. headVersion :
                  /\ reader.value = past[h][reader.key]
                  /\ reader.asked # VersionHead => h = reader.asked
    <3> DEFINE r == reader.ref
               v == reader.version
               k == reader.key
    <3>1. /\ v \in reader.since .. headVersion /\ v \in 1 .. headVersion /\ InForceAt(r, v)
          /\ r \in Revs /\ reader.at - 1 \in Nat /\ reader.at - 1 <= cnt[r] /\ cnt[r] \in Nat
          /\ reader.value = ValueAt(r, reader.at - 1, v, k)
      BY <1>3, <1>4, <2>1
    <3>2. \A j \in (reader.at - 1) + 1 .. cnt[r] : ~(mods[r][j].version <= v)
      <4> TAKE j \in (reader.at - 1) + 1 .. cnt[r]
      <4>1. j \in reader.at .. cnt[r] /\ j \in 1 .. NodeLoad
        BY <1>4, <2>1, <3>1
      <4>2. mods[r][j].version > v /\ mods[r][j].version \in Nat
        BY <1>4, <1>5, <2>1, <4>1
      <4> QED
        BY <3>1, <4>2
    <3> HIDE DEF r, v, k
    <3>3. ValueAt(r, cnt[r], v, k) = ValueAt(r, reader.at - 1, v, k)
      BY <3>1, <3>2, ValueSame
    <3>4. past[v][k] = ValueAt(r, cnt[r], v, k)
      BY <1>3, <3>1 DEF WriterInv, Kept, k
    <3> QED
      BY <1>3, <3>1, <3>3, <3>4 DEF v, k
  <2> QED
    BY <1>1, <1>5, <2>1, AnswerDone
(* the next modifier *)
<1>6. ASSUME ~(reader.at > reader.end),
             /\ reader'.pc = "scan" /\ reader'.ref = reader.ref /\ reader'.version = reader.version
             /\ reader'.asked = reader.asked /\ reader'.key = reader.key
             /\ reader'.backed = reader.backed /\ reader'.since = reader.since
             /\ reader'.torn = reader.torn
             /\ reader'.at = reader.at + 1 /\ reader'.end = reader.end,
             Sure => /\ reader'.value = IF about /\ ~new THEN m.value ELSE reader.value
                     /\ reader'.found \in BOOLEAN
                     /\ ~reader'.found => reader'.value = Unset
      PROVE  Asking' /\ Walking' /\ Looking'
  <2>1. Sure' = Sure
    BY <1>6 DEF Sure, VersionHead
  <2>2. Asking'
    BY <1>1, <1>2, <1>6 DEF Asking, VersionHead
  <2>3. Walking'
    BY <1>6 DEF Walking
  <2>4. ASSUME Sure PROVE Looking'
    <3>1. /\ reader.at \in 1 .. reader.end /\ reader.end \in 0 .. cnt[reader.ref]
          /\ cnt[reader.ref] \in 0 .. NodeLoad
      BY <1>4, <1>6, <2>4
    <3>2. reader.at \in 1 .. NodeLoad /\ reader.at - 1 \in Nat /\ reader.at = (reader.at - 1) + 1
          /\ (reader.at + 1) - 1 = reader.at /\ reader.at + 1 \in 1 .. reader.end + 1
      BY <3>1
    <3>3. m.version \in Nat /\ reader.version \in Nat /\ (new <=> ~(m.version <= reader.version))
      BY <1>3, <1>4, <2>4, <3>2
    <3>4. ValueAt(reader.ref, reader.at, reader.version, reader.key) =
             IF about /\ ~new THEN m.value ELSE reader.value
      <4>1. ValueAt(reader.ref, (reader.at - 1) + 1, reader.version, reader.key) =
               IF /\ mods[reader.ref][(reader.at - 1) + 1].key = reader.key
                  /\ mods[reader.ref][(reader.at - 1) + 1].version <= reader.version
               THEN mods[reader.ref][(reader.at - 1) + 1].value
               ELSE ValueAt(reader.ref, reader.at - 1, reader.version, reader.key)
        BY <3>2, ValueMore
      <4> QED
        BY <1>4, <2>4, <3>2, <3>3, <4>1
    <3>5. reader'.value = ValueAt(reader.ref, reader.at - 1, reader.version, reader.key)'
      <4>1. reader'.value = ValueAt(reader.ref, reader.at, reader.version, reader.key)
        BY <1>6, <2>4, <3>4
      <4> QED
        BY <1>2, <1>6, <3>2, <4>1 DEF ValueAt, Of
    <3>6. InForceAt(reader.ref, reader.version)'
      BY <1>2, <1>4, <1>6, <2>4 DEF InForceAt, Exists
    <3> QED
      BY <1>2, <1>4, <1>6, <2>4, <3>1, <3>2, <3>5, <3>6 DEF Looking
  <2>5. Looking'
    BY <2>1, <2>4 DEF Looking
  <2> QED
    BY <2>2, <2>3, <2>5
<1>7. CASE reader.at > reader.end /\ Answer(reader.value)
  <2>1. ASSUME Sure, NEW j \in reader.at .. cnt[reader.ref]
        PROVE  mods[reader.ref][j].version > reader.version
    <3>1. j \in reader.end + 1 .. cnt[reader.ref]
      BY <1>4, <1>7, <2>1
    <3> QED
      BY <1>4, <2>1, <3>1
  <2> QED
    BY <1>5, <1>7, <2>1
<1>8. CASE ~(reader.at > reader.end) /\ new /\ (~reader.found \/ about) /\ Answer(reader.value)
  <2>1. ASSUME Sure, NEW j \in reader.at .. cnt[reader.ref]
        PROVE  mods[reader.ref][j].version > reader.version
    <3>1. /\ j \in 1 .. cnt[reader.ref] /\ j \in 1 .. NodeLoad
          /\ reader.at \in 1 .. j /\ reader.at \in 1 .. NodeLoad
      BY <1>4, <2>1
    <3>2. m.version <= mods[reader.ref][j].version
      BY <1>4, <2>1, <3>1
    <3>3. m.version \in Nat /\ mods[reader.ref][j].version \in Nat /\ reader.version \in Nat
      BY <1>3, <1>4, <2>1, <3>1
    <3> QED
      BY <1>8, <3>2, <3>3
  <2> QED
    BY <1>5, <1>8, <2>1
<1>9. CASE /\ ~(reader.at > reader.end) /\ ~(new /\ (~reader.found \/ about))
           /\ about /\ (reader.found \/ m.value # Unset)
           /\ reader' = [reader EXCEPT !.at = @ + 1, !.found = TRUE, !.value = m.value]
  <2>1. /\ reader'.pc = "scan" /\ reader'.ref = reader.ref /\ reader'.version = reader.version
        /\ reader'.asked = reader.asked /\ reader'.key = reader.key
        /\ reader'.backed = reader.backed /\ reader'.since = reader.since
        /\ reader'.torn = reader.torn
        /\ reader'.at = reader.at + 1 /\ reader'.end = reader.end
    BY <1>1, <1>9
  <2>2. ~new
    BY <1>9
  <2> QED
    BY <1>6, <1>9, <2>1, <2>2
<1>10. CASE /\ ~(reader.at > reader.end) /\ ~(new /\ (~reader.found \/ about))
            /\ ~(about /\ (reader.found \/ m.value # Unset))
            /\ reader' = [reader EXCEPT !.at = @ + 1]
  <2>1. /\ reader'.pc = "scan" /\ reader'.ref = reader.ref /\ reader'.version = reader.version
        /\ reader'.asked = reader.asked /\ reader'.key = reader.key
        /\ reader'.backed = reader.backed /\ reader'.since = reader.since
        /\ reader'.torn = reader.torn
        /\ reader'.at = reader.at + 1 /\ reader'.end = reader.end
        /\ reader'.value = reader.value /\ reader'.found = reader.found
    BY <1>1, <1>10
  <2>2. ASSUME Sure
        PROVE  /\ reader'.value = IF about /\ ~new THEN m.value ELSE reader.value
               /\ reader'.found \in BOOLEAN
               /\ ~reader'.found => reader'.value = Unset
    <3>1. reader.found \in BOOLEAN /\ (~reader.found => reader.value = Unset)
      BY <1>4, <2>2
    <3>2. about => ~reader.found /\ m.value = Unset
      BY <1>10, <3>1
    <3> QED
      BY <2>1, <3>1, <3>2
  <2> QED
    BY <1>6, <1>10, <2>1, <2>2
<1> QED
  BY <1>1, <1>7, <1>8, <1>9, <1>10

---------------------------------------------------------------------------
(* What follows for every behaviour *)

LEMMA ReadInit == Init => ReadInv
<1>1. ASSUME Init PROVE reader.pc = "idle"
  BY <1>1 DEF Init
<1> QED
  BY <1>1, WriterInit DEF ReadInv, Asking, Walking, Looking

LEMMA ReadStep == ReaderInv /\ ReadInv /\ [Next]_vars => ReadInv'
<1> SUFFICES ASSUME ReaderInv, WriterInv, Asking, Walking, Looking, [Next]_vars
             PROVE  WriterInv' /\ Asking' /\ Walking' /\ Looking'
  BY DEF ReadInv
<1>1. ASSUME WriterInv', Beside, reader' = reader,
             \A n \in Revs : knots'[n].next = knots[n].next
      PROVE  WriterInv' /\ Asking' /\ Walking' /\ Looking'
  BY <1>1, ReadBeside
<1>2. CASE UNCHANGED vars
  <2>1. UNCHANGED <<memory, writer, past>> /\ reader' = reader
    BY <1>2 DEF vars
  <2>2. /\ headVersion' = headVersion /\ knots' = knots /\ mods' = mods /\ cnt' = cnt
        /\ past' = past
    BY <2>1 DEF memory
  <2>3. Beside
    BY <2>2, UntouchedBeside DEF Untouched, ReaderInv, Typed
  <2> QED
    BY <1>1, <2>1, <2>2, <2>3, WriterFrame
<1>3. CASE Begin
  BY <1>1, <1>3, BeginStep DEF Begin
<1>4. CASE EndHead
  BY <1>1, <1>4, EndHeadStep DEF EndHead
<1>5. CASE EndCurr
  BY <1>1, <1>5, EndCurrStep DEF EndCurr
<1>6. ASSUME NEW n \in Revs, NEW s \in Writes, Set(n, s[1], s[2])
      PROVE  WriterInv' /\ Asking' /\ Walking' /\ Looking'
  <2>1. knots' = knots
    BY <1>6 DEF Set, memory
  <2> QED
    BY <1>1, <1>6, <2>1, SetStep
<1>7. ASSUME NEW n \in Revs, NEW s \in Writes, Spill(n, s[1], s[2])
      PROVE  WriterInv' /\ Asking' /\ Walking' /\ Looking'
  BY <1>1, <1>7, SpillStep
<1>8. ASSUME NEW f \in Fields, StoreField(f)
      PROVE  WriterInv' /\ Asking' /\ Walking' /\ Looking'
  <2>1. knots' = knots
    BY <1>8 DEF StoreField
  <2> QED
    BY <1>1, <1>8, <2>1, StoreFieldStep
<1>9. CASE StoreCount
  <2>1. knots' = knots
    BY <1>9 DEF StoreCount
  <2> QED
    BY <1>1, <1>9, <2>1, StoreCountStep
<1>10. CASE LinkNext
  BY <1>10, LinkNextStep, ReadBeside
<1>11. CASE LinkPrev
  BY <1>1, <1>11, LinkPrevStep
<1>12. ASSUME NEW n \in Held, NEW v \in (1 .. headVersion) \cup {VersionHead},
              NEW k \in ReadKeys, Get(n, v, k)
       PROVE  WriterInv' /\ Asking' /\ Walking' /\ Looking'
  BY <1>12, GetStep, WriterFrame DEF Get
<1>13. CASE Reading
  <2>1. UNCHANGED <<memory, writer, past>>
    BY <1>13 DEF Reading, ReviseDown, ReviseUp, LoadVersion, LoadCount, Scan, Return
  <2>2. CASE Return
    <3>1. reader'.pc = "idle"
      BY <2>2 DEF Return
    <3> QED
      BY <2>1, <3>1, WriterFrame DEF Asking, Walking, Looking
  <2> QED
    BY <1>13, <2>1, <2>2, WriterFrame, ReviseDownStep, ReviseUpStep, LoadVersionStep,
       LoadCountStep, ScanStep DEF Reading
<1> QED
  BY <1>2, <1>3, <1>4, <1>5, <1>6, <1>7, <1>8, <1>9, <1>10, <1>11, <1>12, <1>13
     DEF Next, WriterNext

LEMMA ReadAlways == Spec => [](ReaderInv /\ ReadInv)
<1>1. Init => ReaderInv /\ ReadInv
  BY InitReader, ReadInit
<1>2. ReaderInv /\ ReadInv /\ [Next]_vars => (ReaderInv /\ ReadInv)'
  BY ReaderStep, ReadStep
<1> QED
  BY <1>1, <1>2, PTL DEF Spec

(* A read of a version gives what was committed at it, although fm_nodeGet
   takes no lock and fm_nodeSet stores field by field beside it
   (fm_core.cpp, _reviseRef and _nodeFindMod). *)
THEOREM CommittedIsRead == Spec => []CommittedRead
<1>1. ReadInv => CommittedRead
  BY DEF ReadInv, Looking, Sure, CommittedRead
<1> QED
  BY ReadAlways, <1>1, PTL

(* A read of the head gives what was committed at one of the versions that were
   the head meanwhile, unless a revision of a transaction in progress is linked
   before it ends. *)
THEOREM HeadIsRead == Spec => []HeadRead
<1>1. ReadInv => HeadRead
  BY DEF ReadInv, Looking, Sure, HeadRead
<1> QED
  BY ReadAlways, <1>1, PTL
=============================================================================
