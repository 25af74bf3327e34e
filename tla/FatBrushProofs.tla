--------------------------- MODULE FatBrushProofs ---------------------------
(***************************************************************************)
(* The brushes of the fat model for any number of ids, faces, brushes and  *)
(* modifiers per brush, on ints of any width: what their masks name, and   *)
(* that they implement the abstract store of VersionedStore.               *)
(***************************************************************************)
EXTENDS FatBrush, FatZoneProofs, FiniteSetTheorems

Defects == {"none", "flat", "mask", "early", "width"}

(* What a list of modifiers is when versions up to v were ever opened. *)
Orderly(ms, v) ==
    /\ ms \in Seq(Mods)
    /\ Len(ms) <= BrushLoad
    /\ \A i \in 1 .. Len(ms) : ms[i].version <= v
    /\ \A i, j \in 1 .. Len(ms) : i < j => ms[i].version <= ms[j].version

(* No mask names what is not there yet, or two modifiers of one id: of any
   modifier, not only of those that a version finds. *)
Masked(ms) ==
    \A i \in 1 .. Len(ms) :
        /\ ms[i].effective \subseteq 1 .. Len(ms)
        /\ \A j, k \in ms[i].effective : ms[j].id = ms[k].id => j = k

BrushInv ==
    /\ ZoneInv
    /\ brushes \in [Refs -> Seq(Mods)]
    /\ \A r \in Refs : Orderly(brushes[r], Latest) /\ Masked(brushes[r])
    /\ defect \in Defects

-----------------------------------------------------------------------------
(* Masks and lists *)

LEMMA LoadTyped == BrushLoad \in Nat /\ IntBits \in Nat /\ BrushLoad <= IntBits
BY BrushAssumption DEF BrushAssumption

LEMMA ModsFields ==
    ASSUME NEW m \in Mods
    PROVE  /\ m.version \in Versions /\ m.version \in Nat /\ m.id \in Ids
           /\ m.face \in Faces \cup {NoFace} /\ m.effective \subseteq Positions
BY SizesAssumption DEF Mods, Versions, VersionNone, SizesAssumption

LEMMA ListFields ==
    ASSUME NEW v, NEW ms, Orderly(ms, v)
    PROVE  /\ ms \in Seq(Mods) /\ Len(ms) \in Nat /\ Len(ms) <= BrushLoad
           /\ ms \in [1 .. Len(ms) -> Mods]
           /\ \A i \in 1 .. Len(ms) : ms[i] \in Mods /\ ms[i].version \in Nat
<1>1. ms \in Seq(Mods) /\ Len(ms) \in Nat /\ Len(ms) <= BrushLoad
  BY LenProperties DEF Orderly
<1>2. \A i \in 1 .. Len(ms) : ms[i] \in Mods
  BY <1>1, ElementOfSeq
<1> QED
  BY <1>1, <1>2, ModsFields, LenProperties

LEMMA ModTyped ==
    ASSUME NEW v \in Versions, NEW i \in Ids, NEW f \in Faces \cup {NoFace},
           NEW mask \in SUBSET Positions
    PROVE  /\ Mod(v, i, f, mask) \in Mods
           /\ Mod(v, i, f, mask).version = v /\ Mod(v, i, f, mask).id = i
           /\ Mod(v, i, f, mask).face = f /\ Mod(v, i, f, mask).effective = mask
BY DEF Mod, Mods

(* A mask has an order: increasing, of all its positions. *)
LEMMA OrderExists ==
    ASSUME NEW e \in Nat, NEW S \in SUBSET (1 .. e)
    PROVE  /\ IsFiniteSet(S) /\ Cardinality(S) \in Nat
           /\ \E o \in [1 .. Cardinality(S) -> S] :
                \A i, j \in 1 .. Cardinality(S) : i < j => o[i] < o[j]
<1> DEFINE Ordered(T) == \E o \in [1 .. Cardinality(T) -> T] :
                            \A i, j \in 1 .. Cardinality(T) : i < j => o[i] < o[j]
           Wrong == {n \in Nat : \E T \in SUBSET (1 .. n) : ~Ordered(T)}
<1>1. \A n \in Nat : \A T \in SUBSET (1 .. n) : IsFiniteSet(T) /\ Cardinality(T) \in Nat
  <2> SUFFICES ASSUME NEW n \in Nat, NEW T \in SUBSET (1 .. n)
               PROVE  IsFiniteSet(T) /\ Cardinality(T) \in Nat
    OBVIOUS
  <2>1. n \in Int /\ 1 \in Int
    OBVIOUS
  <2>2. IsFiniteSet(1 .. n)
    BY <2>1, FS_Interval
  <2> QED
    BY <2>2, FS_Subset, FS_CardinalityType
<1>2. Wrong = {}
  <2> SUFFICES ASSUME Wrong # {} PROVE FALSE
    OBVIOUS
  <2>1. PICK n \in Wrong : \A m \in Wrong : n <= m
    <3>1. Wrong \in SUBSET Nat
      OBVIOUS
    <3> HIDE DEF Wrong
    <3> QED
      BY <3>1, NatMin
  <2>2. n \in Nat /\ \E T \in SUBSET (1 .. n) : ~Ordered(T)
    BY <2>1
  <2>3. PICK T \in SUBSET (1 .. n) : ~Ordered(T)
    BY <2>2
  <2>4. IsFiniteSet(T) /\ Cardinality(T) \in Nat
    BY <1>1, <2>2
  <2>5. CASE T = {}
    <3>1. Cardinality(T) = 0
      BY <2>5, FS_EmptySet
    <3> DEFINE c == Cardinality(T)
    <3> HIDE DEF c
    <3>2. 1 .. c = {}
      BY <3>1 DEF c
    <3>3. [i \in 1 .. c |-> i] \in [1 .. c -> T]
      BY <3>2
    <3> QED
      BY <2>3, <3>2, <3>3 DEF c
  <2>6. CASE T # {} /\ n \notin T
    <3>1. n - 1 \in Nat /\ T \in SUBSET (1 .. n - 1)
      <4>1. PICK x \in T : TRUE
        BY <2>6
      <4>2. n - 1 \in Nat /\ \A y \in 1 .. n : y # n => y \in 1 .. n - 1
        BY <2>2, <4>1
      <4> QED
        BY <2>6, <4>2
    <3>2. n - 1 \in Wrong
      BY <2>3, <3>1
    <3> HIDE DEF Wrong
    <3>3. ~(n <= n - 1)
      BY <2>2
    <3> QED
      BY <2>1, <3>2, <3>3
  <2>7. CASE n \in T
    <3> DEFINE R == T \ {n}
               c == Cardinality(T)
    <3>0. n \in 1 .. n /\ n \in Nat
      BY <2>2, <2>7
    <3>1. n - 1 \in Nat /\ R \in SUBSET (1 .. n - 1)
      <4>1. n - 1 \in Nat /\ \A x \in 1 .. n : x # n => x \in 1 .. n - 1
        BY <3>0
      <4> QED
        BY <4>1
    <3>2. Cardinality(R) = c - 1 /\ c \in Nat /\ c # 0
      BY <2>4, <2>7, FS_RemoveElement, FS_EmptySet
    <3>3. Ordered(R)
      <4>1. n - 1 \notin Wrong
        <5> HIDE DEF Wrong
        <5>1. ~(n <= n - 1)
          BY <2>2
        <5> QED
          BY <2>1, <5>1
      <4> QED
        BY <3>1, <4>1
    <3>4. PICK o \in [1 .. c - 1 -> R] : \A i, j \in 1 .. c - 1 : i < j => o[i] < o[j]
      BY <3>2, <3>3
    <3> HIDE DEF c
    <3> DEFINE p == [i \in 1 .. c |-> IF i = c THEN n ELSE o[i]]
    <3>5. \A i \in 1 .. c : i = c \/ i \in 1 .. c - 1
      BY <3>2
    <3>6. p \in [1 .. c -> T]
      BY <2>7, <3>4, <3>5
    <3>7. ASSUME NEW i \in 1 .. c, NEW j \in 1 .. c, i < j PROVE p[i] < p[j]
      <4>1. i \in 1 .. c - 1 /\ p[i] = o[i] /\ o[i] \in R
        BY <3>2, <3>4, <3>7
      <4>2. CASE j = c
        <5>1. o[i] \in 1 .. n - 1
          BY <3>1, <4>1
        <5> QED
          BY <2>2, <4>1, <4>2, <5>1
      <4>3. CASE j # c
        BY <3>4, <3>5, <3>7, <4>1, <4>3
      <4> QED
        BY <4>2, <4>3
    <3> HIDE DEF p
    <3> QED
      BY <2>3, <3>6, <3>7 DEF c
  <2> QED
    BY <2>5, <2>6, <2>7
<1> QED
  BY <1>1, <1>2

LEMMA OrderIsGiven ==
    ASSUME NEW e \in Nat, NEW S \in SUBSET (1 .. e)
    PROVE  /\ InOrder(S) \in [1 .. Cardinality(S) -> S] /\ Cardinality(S) \in Nat
           /\ \A i, j \in 1 .. Cardinality(S) : i < j => InOrder(S)[i] < InOrder(S)[j]
           /\ Cardinality(S) <= e
           /\ \A i, j \in 1 .. Cardinality(S) : InOrder(S)[i] = InOrder(S)[j] => i = j
           /\ \A x \in S : \E i \in 1 .. Cardinality(S) : InOrder(S)[i] = x
<1> DEFINE o == InOrder(S)
           c == Cardinality(S)
<1>1. /\ IsFiniteSet(S) /\ c \in Nat
      /\ o \in [1 .. c -> S] /\ \A i, j \in 1 .. c : i < j => o[i] < o[j]
  BY OrderExists DEF InOrder
<1>2. IsFiniteSet(1 .. e) /\ Cardinality(1 .. e) = e
  <2>1. e \in Int /\ 1 \in Int
    OBVIOUS
  <2>2. IsFiniteSet(1 .. e) /\ Cardinality(1 .. e) = IF 1 > e THEN 0 ELSE e - 1 + 1
    BY <2>1, FS_Interval
  <2> QED
    BY <2>2
<1>3. c <= e
  BY <1>2, FS_Subset
<1>4. IsFiniteSet(1 .. c) /\ Cardinality(1 .. c) = c
  <2> HIDE DEF c
  <2>1. c \in Int /\ 1 \in Int
    BY <1>1
  <2>2. IsFiniteSet(1 .. c) /\ Cardinality(1 .. c) = IF 1 > c THEN 0 ELSE c - 1 + 1
    BY <2>1, FS_Interval
  <2> QED
    BY <1>1, <2>2
<1> HIDE DEF o, c
<1>5. ASSUME NEW i \in 1 .. c, NEW j \in 1 .. c, o[i] = o[j] PROVE i = j
  <2>1. o[i] \in 1 .. e /\ o[j] \in 1 .. e
    BY <1>1
  <2>2. ~(i < j) /\ ~(j < i)
    BY <1>1, <1>5, <2>1
  <2> QED
    BY <1>1, <2>2
<1>6. o \in Injection(1 .. c, S)
  BY <1>1, <1>5 DEF Injection, IsInjective
<1>7. o \in Surjection(1 .. c, S)
  BY <1>1, <1>4, <1>6, FS_Injection DEF c
<1>8. \A x \in S : \E i \in 1 .. c : o[i] = x
  BY <1>7 DEF Surjection
<1> QED
  BY <1>1, <1>3, <1>5, <1>8 DEF o, c

(* The mask that a version finds: the one of the last modifier that is not
   newer, which names what is there. *)
LEMMA MaskFound ==
    ASSUME NEW u, NEW ms, Orderly(ms, u), Masked(ms), NEW v
    PROVE  /\ InForce(ms, v) \in SUBSET (1 .. Len(ms))
           /\ \A j, k \in InForce(ms, v) : ms[j].id = ms[k].id => j = k
           /\ FoundMod(ms, v) # {} =>
                /\ Max(FoundMod(ms, v)) \in FoundMod(ms, v)
                /\ \A j \in FoundMod(ms, v) : j <= Max(FoundMod(ms, v))
                /\ InForce(ms, v) = ms[Max(FoundMod(ms, v))].effective
           /\ FoundMod(ms, v) = {} => InForce(ms, v) = {}
<1> DEFINE found == FoundMod(ms, v)
           e == Len(ms)
<1>1. e \in Nat /\ found \in SUBSET (1 .. e)
  BY ListFields DEF FoundMod
<1>2. InForce(ms, v) = IF found = {} THEN {} ELSE ms[Max(found)].effective
  BY DEF InForce
<1> HIDE DEF found, e
<1>3. CASE found = {}
  BY <1>2, <1>3 DEF found
<1>4. CASE found # {}
  <2>1. Max(found) \in found /\ \A j \in found : j <= Max(found)
    BY <1>1, <1>4, MaxLast
  <2>2. Max(found) \in 1 .. Len(ms)
    BY <1>1, <2>1 DEF e
  <2> QED
    BY <1>2, <1>4, <2>1, <2>2 DEF found, Masked
<1> QED
  BY <1>3, <1>4

(* The face that has an id is in force, and none or one. *)
LEMMA FaceFound ==
    ASSUME NEW u, NEW ms, Orderly(ms, u), Masked(ms), NEW i, NEW v
    PROVE  FaceIndex(ms, i, v) = {j \in InForce(ms, v) : ms[j].id = i}
<1>1. /\ InForce(ms, v) \in SUBSET (1 .. Len(ms))
      /\ \A j, k \in InForce(ms, v) : ms[j].id = ms[k].id => j = k
  BY MaskFound
<1>2. \A j \in 1 .. Len(ms) : j <= j
  BY ListFields
<1> QED
  BY <1>1, <1>2 DEF FaceIndex

LEMMA EmptyIsGood ==
    ASSUME NEW v
    PROVE  Orderly(<<>>, v) /\ Masked(<<>>)
<1>1. <<>> \in Seq(Mods) /\ Len(<<>>) = 0
  BY EmptySeq
<1> QED
  BY <1>1, LoadTyped DEF Orderly, Masked

LEMMA LaterIsGood ==
    ASSUME NEW ms, NEW v \in Nat, NEW w \in Nat, Orderly(ms, v), v <= w
    PROVE  Orderly(ms, w)
<1>1. \A i \in 1 .. Len(ms) : ms[i].version \in Nat
  BY ListFields
<1> QED
  BY <1>1 DEF Orderly

(* What fm_brushSet puts behind the modifiers of a brush: the face set, with
   the mask that was in force, renewed. *)
Renewed(ms, i, f) ==
    (InForce(ms, VersionHead) \ FaceIndex(ms, i, VersionHead))
        \cup (IF f = NoFace THEN {} ELSE {Len(ms) + 1})

LEMMA ExtendedIs ==
    ASSUME currVersion \in Versions, NEW ms, Orderly(ms, currVersion), Masked(ms),
           Len(ms) < BrushLoad, NEW i \in Ids, NEW f \in Faces \cup {NoFace},
           NEW s, s = Extended(ms, i, f)
    PROVE  \/ FaceIndex(ms, i, VersionHead) = {} /\ f = NoFace /\ s = ms
           \/ /\ s \in Seq(Mods) /\ Len(s) = Len(ms) + 1
              /\ \A j \in 1 .. Len(ms) : s[j] = ms[j]
              /\ s[Len(ms) + 1].version = currVersion /\ s[Len(ms) + 1].id = i
              /\ s[Len(ms) + 1].face = f
              /\ s[Len(ms) + 1].effective = Renewed(ms, i, f)
<1> DEFINE before == FaceIndex(ms, i, VersionHead)
           mask == Renewed(ms, i, f)
           m == Mod(currVersion, i, f, mask)
<1>1. s = IF before = {} /\ f = NoFace THEN ms ELSE Append(ms, m)
  BY DEF Extended, Renewed
<1>2. ms \in Seq(Mods) /\ Len(ms) \in Nat /\ BrushLoad \in Nat
  BY ListFields, LoadTyped
<1>3. mask \in SUBSET Positions
  <2>1. InForce(ms, VersionHead) \in SUBSET (1 .. Len(ms))
    BY MaskFound
  <2>2. Len(ms) + 1 \in Positions /\ 1 .. Len(ms) \subseteq Positions
    BY <1>2 DEF Positions
  <2> QED
    BY <2>1, <2>2 DEF Renewed
<1> HIDE DEF mask
<1>4. m \in Mods /\ m.version = currVersion /\ m.id = i /\ m.face = f /\ m.effective = mask
  BY <1>3, ModTyped
<1> HIDE DEF before, m
<1>5. /\ Append(ms, m) \in Seq(Mods) /\ Len(Append(ms, m)) = Len(ms) + 1
      /\ \A j \in 1 .. Len(ms) : Append(ms, m)[j] = ms[j]
      /\ Append(ms, m)[Len(ms) + 1] = m
  BY <1>2, <1>4, AppendProperties
<1>6. CASE before = {} /\ f = NoFace
  BY <1>1, <1>6 DEF before
<1>7. CASE ~(before = {} /\ f = NoFace)
  BY <1>1, <1>4, <1>5, <1>7 DEF mask
<1> QED
  BY <1>6, <1>7

LEMMA ExtendedIsGood ==
    ASSUME currVersion \in Versions, NEW ms, Orderly(ms, currVersion), Masked(ms),
           Len(ms) < BrushLoad, NEW i \in Ids, NEW f \in Faces \cup {NoFace}
    PROVE  Orderly(Extended(ms, i, f), currVersion) /\ Masked(Extended(ms, i, f))
<1> DEFINE before == FaceIndex(ms, i, VersionHead)
           mask == Renewed(ms, i, f)
<1>0. PICK s : s = Extended(ms, i, f)
  OBVIOUS
<1>1. \/ s = ms
      \/ /\ s \in Seq(Mods) /\ Len(s) = Len(ms) + 1
         /\ \A j \in 1 .. Len(ms) : s[j] = ms[j]
         /\ s[Len(ms) + 1].version = currVersion /\ s[Len(ms) + 1].id = i
         /\ s[Len(ms) + 1].effective = mask
  BY <1>0, ExtendedIs
<1>2. /\ ms \in Seq(Mods) /\ Len(ms) \in Nat /\ BrushLoad \in Nat
      /\ \A j \in 1 .. Len(ms) : ms[j].version \in Nat
  BY ListFields, LoadTyped
<1>3. currVersion \in Nat
  BY SizesAssumption DEF Versions, VersionNone, SizesAssumption
<1>4. /\ InForce(ms, VersionHead) \in SUBSET (1 .. Len(ms))
      /\ \A j, k \in InForce(ms, VersionHead) : ms[j].id = ms[k].id => j = k
      /\ before = {j \in InForce(ms, VersionHead) : ms[j].id = i}
  BY MaskFound, FaceFound
<1>5. /\ mask \subseteq 1 .. Len(ms) + 1
      /\ \A j \in mask : j = Len(ms) + 1 \/ (j \in 1 .. Len(ms) /\ ms[j].id # i)
      /\ \A j, k \in mask : j # Len(ms) + 1 /\ k # Len(ms) + 1 /\ ms[j].id = ms[k].id => j = k
  <2>1. Len(ms) + 1 \in 1 .. Len(ms) + 1 /\ 1 .. Len(ms) \subseteq 1 .. Len(ms) + 1
    BY <1>2
  <2>2. \A j \in mask : j = Len(ms) + 1 \/ (j \in InForce(ms, VersionHead) /\ j \notin before)
    BY DEF Renewed
  <2> HIDE DEF mask, before
  <2> QED
    BY <1>4, <2>1, <2>2
<1> HIDE DEF before, mask
<1>6. CASE s = ms
  BY <1>0, <1>6
<1>7. CASE /\ s \in Seq(Mods) /\ Len(s) = Len(ms) + 1
           /\ \A j \in 1 .. Len(ms) : s[j] = ms[j]
           /\ s[Len(ms) + 1].version = currVersion /\ s[Len(ms) + 1].id = i
           /\ s[Len(ms) + 1].effective = mask
  <2>1. \A j \in 1 .. Len(s) : j = Len(ms) + 1 \/ j \in 1 .. Len(ms)
    BY <1>2, <1>7
  <2>2. \A j \in 1 .. Len(s) : s[j].version <= currVersion
    BY <1>3, <1>7, <2>1 DEF Orderly
  <2>3. ASSUME NEW j \in 1 .. Len(s), NEW k \in 1 .. Len(s), j < k
        PROVE  s[j].version <= s[k].version
    <3>1. j \in 1 .. Len(ms)
      BY <1>2, <1>7, <2>3
    <3>2. CASE k = Len(ms) + 1
      BY <1>7, <2>2, <3>2
    <3>3. CASE k \in 1 .. Len(ms)
      BY <1>7, <2>3, <3>1, <3>3 DEF Orderly
    <3> QED
      BY <2>1, <3>2, <3>3
  <2>4. Len(s) <= BrushLoad
    BY <1>2, <1>7
  <2>5. Orderly(s, currVersion)
    BY <1>7, <2>2, <2>3, <2>4 DEF Orderly
  <2>6. ASSUME NEW j \in 1 .. Len(s)
        PROVE  /\ s[j].effective \subseteq 1 .. Len(s)
               /\ \A k, l \in s[j].effective : s[k].id = s[l].id => k = l
    <3>1. CASE j = Len(ms) + 1
      <4>1. s[j].effective = mask
        BY <1>7, <3>1
      <4>2. \A k \in mask : k = Len(ms) + 1 => s[k].id = i
        BY <1>7
      <4>3. \A k \in mask : k # Len(ms) + 1 =>
               k \in 1 .. Len(ms) /\ s[k].id = ms[k].id /\ s[k].id # i
        BY <1>5, <1>7
      <4>4. \A k, l \in mask : s[k].id = s[l].id => k = l
        BY <1>5, <4>2, <4>3
      <4> QED
        BY <1>5, <1>7, <4>1, <4>4
    <3>2. CASE j \in 1 .. Len(ms)
      <4>1. /\ s[j] = ms[j] /\ ms[j].effective \subseteq 1 .. Len(ms)
            /\ \A k, l \in ms[j].effective : ms[k].id = ms[l].id => k = l
        BY <1>7, <3>2 DEF Masked
      <4>2. \A k \in ms[j].effective : s[k] = ms[k]
        BY <1>7, <4>1
      <4>3. 1 .. Len(ms) \subseteq 1 .. Len(s)
        BY <1>2, <1>7
      <4> QED
        BY <4>1, <4>2, <4>3
    <3> QED
      BY <2>1, <3>1, <3>2
  <2> QED
    BY <1>0, <2>5, <2>6 DEF Masked
<1> QED
  BY <1>1, <1>6, <1>7

-----------------------------------------------------------------------------
(* Brushes that are written anew *)

(* What a brush that was written anew has: each id once, and masks that name
   what is there. *)
Unique(ms) ==
    /\ \A j, k \in 1 .. Len(ms) : ms[j].id = ms[k].id => j = k
    /\ \A j \in 1 .. Len(ms) : ms[j].effective \subseteq 1 .. Len(ms)

LEMMA UniqueIsMasked ==
    ASSUME NEW ms, Unique(ms)
    PROVE  Masked(ms)
BY DEF Unique, Masked

(* What is in force as of v, each modifier as it was but for the mask. *)
LEMMA DeflatedIs ==
    ASSUME NEW u, NEW ms, Orderly(ms, u), Masked(ms), NEW v, NEW flat \in Deflations(ms, v)
    PROVE  /\ Orderly(flat, u) /\ Unique(flat)
           /\ Len(flat) = Cardinality(InForce(ms, v)) /\ Len(flat) <= Len(ms)
           /\ \A n \in 1 .. Len(flat) : \E j \in InForce(ms, v) :
                /\ flat[n].version = ms[j].version /\ flat[n].id = ms[j].id
                /\ flat[n].face = ms[j].face
           /\ \A j \in InForce(ms, v) : \E n \in 1 .. Len(flat) :
                /\ flat[n].version = ms[j].version /\ flat[n].id = ms[j].id
                /\ flat[n].face = ms[j].face
           /\ \E mask \in LowBits(Len(flat)) :
                \A n \in 1 .. Len(flat) : flat[n].effective = mask
<1> DEFINE S == InForce(ms, v)
           o == InOrder(S)
           c == Cardinality(S)
<1>1. /\ Len(ms) \in Nat /\ Len(ms) <= BrushLoad /\ BrushLoad \in Nat
      /\ S \in SUBSET (1 .. Len(ms))
      /\ \A j, k \in S : ms[j].id = ms[k].id => j = k
  BY ListFields, MaskFound, LoadTyped
<1>2. \A j \in 1 .. Len(ms) : ms[j] \in Mods
  BY ListFields
<1>3. /\ o \in [1 .. c -> S] /\ c \in Nat /\ c <= Len(ms)
      /\ \A i, j \in 1 .. c : i < j => o[i] < o[j]
      /\ \A i, j \in 1 .. c : o[i] = o[j] => i = j
      /\ \A x \in S : \E i \in 1 .. c : o[i] = x
  <2> HIDE DEF S
  <2> QED
    BY <1>1, OrderIsGiven
<1>4. Len(o) = c
  <2> HIDE DEF o, c, S
  <2> QED
    BY <1>3
<1>5. PICK mask \in LowBits(Len(o)) :
        flat = [n \in 1 .. Len(o) |-> [ms[o[n]] EXCEPT !.effective = mask]]
  BY DEF Deflations
<1> HIDE DEF o, c, S
<1>6. mask \in {{}, 1 .. c}
  BY <1>4, <1>5 DEF LowBits
<1>7. mask \in SUBSET Positions /\ mask \subseteq 1 .. c
  BY <1>1, <1>3, <1>6 DEF Positions
<1>8. ASSUME NEW n \in 1 .. c
      PROVE  /\ o[n] \in S /\ o[n] \in 1 .. Len(ms)
             /\ flat[n] \in Mods /\ flat[n].effective = mask
             /\ flat[n].version = ms[o[n]].version /\ flat[n].id = ms[o[n]].id
             /\ flat[n].face = ms[o[n]].face
  <2>1. o[n] \in S /\ o[n] \in 1 .. Len(ms)
    BY <1>1, <1>3
  <2>2. flat[n] = [ms[o[n]] EXCEPT !.effective = mask]
    BY <1>4, <1>5
  <2>3. ms[o[n]] \in Mods
    BY <1>2, <2>1
  <2> QED
    BY <1>7, <2>1, <2>2, <2>3 DEF Mods
<1>9. flat \in Seq(Mods) /\ Len(flat) = c
  <2>1. flat \in [1 .. c -> Mods]
    <3>1. flat = [n \in 1 .. c |-> flat[n]]
      BY <1>4, <1>5
    <3> QED
      BY <1>8, <3>1
  <2> QED
    BY <1>3, <2>1
<1>10. ASSUME NEW i \in 1 .. c, NEW j \in 1 .. c, i < j
       PROVE  flat[i].version <= flat[j].version
  <2>1. o[i] < o[j] /\ o[i] \in 1 .. Len(ms) /\ o[j] \in 1 .. Len(ms)
    BY <1>3, <1>8, <1>10
  <2> QED
    BY <1>8, <2>1 DEF Orderly
<1>11. ASSUME NEW i \in 1 .. c, NEW j \in 1 .. c, flat[i].id = flat[j].id
       PROVE  i = j
  <2>1. o[i] = o[j]
    BY <1>1, <1>8, <1>11
  <2> QED
    BY <1>3, <2>1
<1>12. Orderly(flat, u)
  BY <1>1, <1>3, <1>8, <1>9, <1>10 DEF Orderly
<1>13. Unique(flat)
  BY <1>7, <1>8, <1>9, <1>11 DEF Unique
<1>14. ASSUME NEW n \in 1 .. Len(flat)
       PROVE  \E j \in S :
                /\ flat[n].version = ms[j].version /\ flat[n].id = ms[j].id
                /\ flat[n].face = ms[j].face
  BY <1>8, <1>9
<1>15. ASSUME NEW j \in S
       PROVE  \E n \in 1 .. Len(flat) :
                /\ flat[n].version = ms[j].version /\ flat[n].id = ms[j].id
                /\ flat[n].face = ms[j].face
  <2>1. PICK n \in 1 .. Len(flat) : o[n] = j
    BY <1>3, <1>9
  <2> QED
    BY <1>8, <1>9, <2>1
<1> QED
  BY <1>3, <1>4, <1>5, <1>8, <1>9, <1>12, <1>13, <1>14, <1>15 DEF S, c

(* A face is replaced in place. *)
LEMMA ReplacedIs ==
    ASSUME currVersion \in Versions, NEW ms, Orderly(ms, currVersion), Unique(ms),
           NEW j \in 1 .. Len(ms), NEW f \in Faces \cup {NoFace}
    PROVE  /\ Replaced(ms, j, f) \in Seq(Mods)
           /\ Len(Replaced(ms, j, f)) = Len(ms)
           /\ Unique(Replaced(ms, j, f))
           /\ \A k \in 1 .. Len(ms) : Replaced(ms, j, f)[k].version <= currVersion
           /\ \A k \in 1 .. Len(ms) : k # j => Replaced(ms, j, f)[k] = ms[k]
           /\ Replaced(ms, j, f)[j].version = currVersion
           /\ Replaced(ms, j, f)[j].id = ms[j].id
           /\ Replaced(ms, j, f)[j].face = f
           /\ f = NoFace => Replaced(ms, j, f)[j].effective = ms[j].effective \ {j}
           /\ f # NoFace => Replaced(ms, j, f)[j].effective = ms[j].effective
<1> DEFINE mask == IF f = NoFace THEN ms[j].effective \ {j} ELSE ms[j].effective
           m == Mod(currVersion, ms[j].id, f, mask)
<1>1. /\ ms \in Seq(Mods) /\ Len(ms) \in Nat /\ Len(ms) <= BrushLoad
      /\ ms \in [1 .. Len(ms) -> Mods]
  BY ListFields
<1>2. ms[j].id \in Ids /\ ms[j].effective \subseteq Positions
  BY <1>1, ModsFields
<1>3. mask \in SUBSET Positions /\ mask \subseteq 1 .. Len(ms)
  BY <1>2 DEF Unique
<1>4. PICK s : s = Replaced(ms, j, f)
  OBVIOUS
<1>5. s = [ms EXCEPT ![j] = m]
  BY <1>4 DEF Replaced
<1> HIDE DEF mask
<1>6. m \in Mods /\ m.version = currVersion /\ m.id = ms[j].id /\ m.face = f
      /\ m.effective = mask
  BY <1>2, <1>3, ModTyped
<1> HIDE DEF m
<1>7. /\ s \in [1 .. Len(ms) -> Mods] /\ s[j] = m
      /\ \A k \in 1 .. Len(ms) : k # j => s[k] = ms[k]
  BY <1>1, <1>5, <1>6
<1>8. s \in Seq(Mods) /\ Len(s) = Len(ms)
  BY <1>1, <1>7
<1>9. \A k \in 1 .. Len(s) : s[k].id = ms[k].id
  BY <1>6, <1>7, <1>8
<1>10. \A k \in 1 .. Len(s) : s[k].effective \subseteq 1 .. Len(s)
  BY <1>3, <1>6, <1>7, <1>8 DEF Unique
<1>11. Unique(s)
  BY <1>8, <1>9, <1>10 DEF Unique
<1>12. currVersion \in Nat
  BY SizesAssumption DEF Versions, VersionNone, SizesAssumption
<1>13. \A k \in 1 .. Len(s) : s[k].version <= currVersion
  BY <1>6, <1>7, <1>8, <1>12 DEF Orderly
<1> QED
  BY <1>6, <1>7, <1>8, <1>11, <1>13, <1>4 DEF mask

(* qsort loses no modifier and makes no second one. *)
Resorted(s, ms) ==
    /\ Len(s) = Len(ms)
    /\ \A k \in 1 .. Len(s) : \E j \in 1 .. Len(ms) : s[k] = ms[j]
    /\ \A j \in 1 .. Len(ms) : \E k \in 1 .. Len(s) : s[k] = ms[j]

LEMMA SortedIs ==
    ASSUME NEW u, NEW ms \in Seq(Mods), Len(ms) <= BrushLoad, Unique(ms),
           \A k \in 1 .. Len(ms) : ms[k].version <= u, NEW s \in Sorted(ms)
    PROVE  Orderly(s, u) /\ Unique(s) /\ Resorted(s, ms)
<1> DEFINE n == Len(ms)
           R == Range(ms)
<1>1. n \in Nat /\ ms \in [1 .. n -> Mods]
  BY LenProperties
<1>2. R = {ms[j] : j \in 1 .. n}
  BY <1>1 DEF Range
<1>3. s \in [1 .. n -> R] /\ Range(s) = R
      /\ \A i, j \in 1 .. n : i < j => s[i].version <= s[j].version
  BY DEF Sorted
<1> HIDE DEF n, R
<1>4. R \subseteq Mods
  BY <1>1, <1>2
<1>5. s \in Seq(Mods) /\ Len(s) = n
  <2>1. s \in [1 .. n -> Mods]
    BY <1>3, <1>4
  <2> QED
    BY <1>1, <2>1
<1>6. \A x \in R : \E k \in 1 .. n : s[k] = x
  <2>1. Range(s) = {s[k] : k \in 1 .. n}
    BY <1>3 DEF Range
  <2> QED
    BY <1>3, <2>1
<1>7. IsFiniteSet(1 .. n) /\ Cardinality(1 .. n) = n
  <2>1. n \in Int /\ 1 \in Int
    BY <1>1
  <2>2. IsFiniteSet(1 .. n) /\ Cardinality(1 .. n) = IF 1 > n THEN 0 ELSE n - 1 + 1
    BY <2>1, FS_Interval
  <2> QED
    BY <1>1, <2>2
<1>8. \A j, k \in 1 .. n : ms[j].id = ms[k].id => j = k
  BY DEF Unique, n
<1>9. ms \in Surjection(1 .. n, R) /\ ms \in Injection(1 .. n, R)
  <2>1. ms \in [1 .. n -> R]
    BY <1>1, <1>2
  <2> QED
    BY <1>2, <1>8, <2>1 DEF Surjection, Injection, IsInjective
<1>10. Cardinality(R) = n
  BY <1>7, <1>9, FS_Surjection
<1>11. s \in Surjection(1 .. n, R)
  BY <1>3, <1>6 DEF Surjection
<1>12. s \in Injection(1 .. n, R)
  BY <1>7, <1>10, <1>11, FS_Surjection
<1>13. \A j, k \in 1 .. n : s[j] = s[k] => j = k
  BY <1>12 DEF Injection, IsInjective
<1>14. \A k \in 1 .. n : \E j \in 1 .. n : s[k] = ms[j]
  BY <1>2, <1>3
<1>15. \A j \in 1 .. n : \E k \in 1 .. n : s[k] = ms[j]
  BY <1>2, <1>6
<1>16. ASSUME NEW j \in 1 .. n, NEW k \in 1 .. n, s[j].id = s[k].id
       PROVE  j = k
  <2>1. PICK a \in 1 .. n : s[j] = ms[a]
    BY <1>14
  <2>2. PICK b \in 1 .. n : s[k] = ms[b]
    BY <1>14
  <2>3. a = b
    BY <1>8, <1>16, <2>1, <2>2
  <2> QED
    BY <1>13, <2>1, <2>2, <2>3
<1>17. \A k \in 1 .. n : s[k].effective \subseteq 1 .. n /\ s[k].version <= u
  BY <1>14 DEF Unique, n
<1> QED
  BY <1>3, <1>5, <1>14, <1>15, <1>16, <1>17 DEF Orderly, Unique, Resorted, n

-----------------------------------------------------------------------------
(* Steps *)

LEMMA LatestTyped ==
    ASSUME ZoneTypeOK
    PROVE  /\ headVersion \in Nat /\ currVersion \in Nat /\ Latest \in Nat
           /\ currVersion \in Versions
           /\ Transacting => Latest = currVersion /\ currVersion = headVersion + 1
<1>1. headVersion \in Nat /\ currVersion \in Nat
  BY SizesAssumption DEF ZoneTypeOK, Versions, VersionNone, SizesAssumption
<1> QED
  BY <1>1 DEF Latest, Transacting, ZoneTypeOK

LEMMA LatestTypedNext == ZoneTypeOK' => (Latest \in Nat)'
<1>1. ZoneTypeOK => Latest \in Nat
  BY LatestTyped
<1> QED
  BY <1>1, PTL

LEMMA BrushSizes ==
    Brush \in Types /\ EditBSize[Brush] \in SizesOf(Brush) /\ EditBSize[Brush] \in Nat
BY BrushAssumption, SizesAssumption DEF BrushAssumption, SizesAssumption, SizesOf

(* The versions of the zone stay, and one brush gets other modifiers. *)
LEMMA OneBrushChanges ==
    ASSUME BrushInv, ZoneInv', UNCHANGED <<headVersion, currVersion>>,
           NEW r \in Refs, NEW ms, Orderly(ms, Latest), Masked(ms),
           brushes' = [brushes EXCEPT ![r] = ms], defect' \in Defects
    PROVE  BrushInv'
<1>1. Latest' = Latest
  BY DEF Latest, Transacting
<1>2. ms \in Seq(Mods)
  BY DEF Orderly
<1>3. brushes' \in [Refs -> Seq(Mods)] /\ \A q \in Refs : brushes'[q] \in {brushes[q], ms}
  BY <1>2 DEF BrushInv
<1>4. \A q \in Refs : Orderly(brushes'[q], Latest) /\ Masked(brushes'[q])
  BY <1>3 DEF BrushInv
<1> QED
  BY <1>1, <1>3, <1>4 DEF BrushInv

(* What a call that sets a face works on. *)
LEMMA SettableIs ==
    ASSUME BrushInv, NEW n, Settable(n)
    PROVE  /\ n \in Refs /\ Allocated(n) /\ ZoneInv /\ ZoneTypeOK
           /\ currVersion \in Versions /\ Latest = currVersion
           /\ currVersion \in Nat /\ currVersion # VersionNone
           /\ Orderly(brushes[n], currVersion) /\ Masked(brushes[n])
<1>1. n \in Refs /\ Allocated(n) /\ Transacting /\ ZoneInv /\ ZoneTypeOK
  BY DEF Settable, IsBrush, Allocated, BrushInv, ZoneInv
<1>2. Latest = currVersion /\ currVersion \in Versions /\ currVersion \in Nat
  BY <1>1, LatestTyped
<1> QED
  BY <1>1, <1>2 DEF BrushInv, Transacting

(* What a spill finds, and what it does to the zone. *)
LEMMA SpillIs ==
    ASSUME BrushInv, NEW n, NEW new \in Refs, Spilling(n, new)
    PROVE  /\ n \in Refs /\ Allocated(n) /\ ZoneInv
           /\ currVersion \in Versions /\ Latest = currVersion
           /\ Orderly(brushes[n], currVersion) /\ Masked(brushes[n])
           /\ AllocPlace(Brush, EditBSize[Brush], new)
           /\ UNCHANGED <<headVersion, currVersion>>
           /\ LinkNew(n, new) => ZoneInv'
<1>1. /\ Settable(n) /\ AllocPlace(Brush, EditBSize[Brush], new)
      /\ UNCHANGED <<headVersion, currVersion>>
  BY DEF Spilling
<1>2. /\ n \in Refs /\ Allocated(n) /\ ZoneInv
      /\ currVersion \in Versions /\ Latest = currVersion
      /\ Orderly(brushes[n], currVersion) /\ Masked(brushes[n])
  BY <1>1, SettableIs
<1>3. LinkNew(n, new) => ZoneInv'
  <2> SUFFICES ASSUME LinkNew(n, new) PROVE ZoneInv'
    OBVIOUS
  <2>1. PlacedNext(n, new)
    BY DEF LinkNew, PlacedNext
  <2> QED
    BY <1>1, <1>2, <2>1, BrushSizes, PlacedNextKnots
<1> QED
  BY <1>1, <1>2, <1>3

(* What a spill that replaces a face writes. *)
LEMMA ReplacingIs ==
    ASSUME BrushInv, NEW n, Settable(n), NEW flat \in Deflations(brushes[n], currVersion),
           NEW i, NEW j \in FaceIndex(flat, i, VersionHead), NEW f \in Faces \cup {NoFace},
           NEW s \in Sorted(Replaced(flat, j, f))
    PROVE  /\ Orderly(flat, currVersion) /\ Unique(flat) /\ j \in 1 .. Len(flat)
           /\ Orderly(s, currVersion) /\ Unique(s)
           /\ Resorted(s, Replaced(flat, j, f))
<1>1. /\ currVersion \in Versions
      /\ Orderly(brushes[n], currVersion) /\ Masked(brushes[n])
  BY SettableIs
<1>2. Orderly(flat, currVersion) /\ Unique(flat)
  BY <1>1, DeflatedIs
<1>3. Masked(flat)
  BY <1>2, UniqueIsMasked
<1>4. InForce(flat, VersionHead) \in SUBSET (1 .. Len(flat))
  BY <1>2, <1>3, MaskFound
<1>5. j \in 1 .. Len(flat)
  BY <1>2, <1>3, <1>4, FaceFound
<1>6. PICK ms : ms = Replaced(flat, j, f)
  OBVIOUS
<1>7. /\ ms \in Seq(Mods) /\ Len(ms) = Len(flat) /\ Unique(ms)
      /\ \A k \in 1 .. Len(ms) : ms[k].version <= currVersion
  BY <1>1, <1>2, <1>5, <1>6, ReplacedIs
<1>8. Len(ms) <= BrushLoad
  BY <1>2, <1>7, ListFields
<1>9. s \in Sorted(ms)
  BY <1>6
<1>10. Orderly(s, currVersion) /\ Unique(s) /\ Resorted(s, ms)
  BY <1>7, <1>8, <1>9, SortedIs
<1> QED
  BY <1>2, <1>5, <1>6, <1>10

LEMMA BrushInitInv == Init => BrushInv
<1> SUFFICES ASSUME Init PROVE BrushInv
  OBVIOUS
<1>1. ZoneInv
  BY ZoneInitInv DEF Init
<1>2. <<>> \in Seq(Mods) /\ \A r \in Refs : Orderly(<<>>, Latest) /\ Masked(<<>>)
  BY EmptySeq, EmptyIsGood
<1> QED
  BY <1>1, <1>2 DEF Init, BrushInv, Defects

LEMMA SetStep ==
    ASSUME BrushInv, NEW n, NEW i \in Ids, NEW f \in Faces \cup {NoFace}, Set(n, i, f)
    PROVE  BrushInv'
<1>1. defect \in Defects
  BY DEF BrushInv
<1>2. CASE SetAppend(n, i, f)
  <2>1. /\ Settable(n) /\ Len(brushes[n]) < BrushLoad
        /\ brushes' = [brushes EXCEPT ![n] = Extended(brushes[n], i, f)]
        /\ UNCHANGED zoneVars /\ defect' = defect
    BY <1>2 DEF SetAppend, zoneVars
  <2>2. /\ n \in Refs /\ ZoneInv /\ currVersion \in Versions /\ Latest = currVersion
        /\ Orderly(brushes[n], currVersion) /\ Masked(brushes[n])
    BY <2>1, SettableIs
  <2>3. ZoneInv'
    BY <2>1, <2>2, ZoneStep
  <2>4. Orderly(Extended(brushes[n], i, f), Latest) /\ Masked(Extended(brushes[n], i, f))
    BY <2>1, <2>2, ExtendedIsGood
  <2> QED
    BY <1>1, <2>1, <2>2, <2>3, <2>4, OneBrushChanges DEF zoneVars
<1>3. CASE SetSpillKnown(n, i, f)
  <2>1. PICK new \in Refs, flat \in Deflations(brushes[n], currVersion) :
          /\ Spilling(n, new) /\ LinkNew(n, new)
          /\ \E j \in FaceIndex(flat, i, VersionHead) :
               \E s \in Sorted(Replaced(flat, j, f)) :
                 /\ brushes' = [brushes EXCEPT ![new] = s]
                 /\ defect' \in {"flat", "mask", defect}
    BY <1>3 DEF SetSpillKnown
  <2>2. PICK j \in FaceIndex(flat, i, VersionHead) :
          \E s \in Sorted(Replaced(flat, j, f)) :
            /\ brushes' = [brushes EXCEPT ![new] = s]
            /\ defect' \in {"flat", "mask", defect}
    BY <2>1
  <2>3. PICK s \in Sorted(Replaced(flat, j, f)) :
          /\ brushes' = [brushes EXCEPT ![new] = s]
          /\ defect' \in {"flat", "mask", defect}
    BY <2>2
  <2>4. /\ ZoneInv' /\ UNCHANGED <<headVersion, currVersion>> /\ Latest = currVersion
    BY <2>1, SpillIs
  <2>5. Settable(n)
    BY <2>1 DEF Spilling
  <2>6. Orderly(s, currVersion) /\ Unique(s)
    BY <2>5, ReplacingIs
  <2>7. Orderly(s, Latest) /\ Masked(s)
    BY <2>4, <2>6, UniqueIsMasked
  <2>8. defect' \in Defects
    BY <1>1, <2>3 DEF Defects
  <2> QED
    BY <2>3, <2>4, <2>7, <2>8, OneBrushChanges
<1>4. CASE SetSpillNew(n, i, f)
  <2>1. PICK new \in Refs, flat \in Deflations(brushes[n], currVersion) :
          /\ Spilling(n, new) /\ LinkNew(n, new)
          /\ Len(flat) < BrushLoad
          /\ brushes' = [brushes EXCEPT ![new] = Extended(flat, i, f)]
          /\ defect' \in {"flat", defect}
    BY <1>4 DEF SetSpillNew
  <2>2. /\ ZoneInv' /\ UNCHANGED <<headVersion, currVersion>> /\ Latest = currVersion
        /\ currVersion \in Versions
        /\ Orderly(brushes[n], currVersion) /\ Masked(brushes[n])
    BY <2>1, SpillIs
  <2>3. Orderly(flat, currVersion) /\ Masked(flat)
    BY <2>2, DeflatedIs, UniqueIsMasked
  <2>4. Orderly(Extended(flat, i, f), Latest) /\ Masked(Extended(flat, i, f))
    BY <2>1, <2>2, <2>3, ExtendedIsGood
  <2>5. defect' \in Defects
    BY <1>1, <2>1 DEF Defects
  <2> QED
    BY <2>1, <2>2, <2>4, <2>5, OneBrushChanges
<1> QED
  BY <1>2, <1>3, <1>4 DEF Set

LEMMA BrushStep == BrushInv /\ [Next]_vars => BrushInv'
<1> SUFFICES ASSUME BrushInv, [Next]_vars PROVE BrushInv'
  OBVIOUS
<1>1. /\ ZoneInv /\ ZoneTypeOK /\ brushes \in [Refs -> Seq(Mods)]
      /\ defect \in Defects
  BY DEF BrushInv, ZoneInv
<1>2. headVersion \in Nat /\ currVersion \in Nat /\ Latest \in Nat
  BY <1>1, LatestTyped
<1>3. ASSUME UNCHANGED <<brushes, defect>>, ZoneInv', Latest' \in Nat, Latest <= Latest'
      PROVE  BrushInv'
  <2>1. \A r \in Refs : Orderly(brushes[r], Latest') /\ Masked(brushes[r])
    BY <1>2, <1>3, LaterIsGood DEF BrushInv
  <2> QED
    BY <1>1, <1>3, <2>1 DEF BrushInv
<1>4. CASE UNCHANGED vars
  <2>1. UNCHANGED zoneVars /\ UNCHANGED <<brushes, defect>>
    BY <1>4 DEF vars, zoneVars
  <2>2. ZoneInv' /\ Latest' = Latest
    BY <1>1, <2>1, ZoneStep DEF zoneVars, Latest, Transacting
  <2> QED
    BY <1>2, <1>3, <2>1, <2>2
<1>5. CASE BeginTransaction
  <2>1. Begin /\ UNCHANGED <<brushes, defect>>
    BY <1>5 DEF BeginTransaction
  <2>2. ZoneInv'
    BY <1>1, <2>1, ZoneStep DEF ZoneCall
  <2>3. Latest' = headVersion + 1 /\ Latest = headVersion
    BY <1>2, <2>1 DEF Begin, Latest, Transacting, VersionNone
  <2> QED
    BY <1>2, <1>3, <2>1, <2>2, <2>3
<1>6. CASE EndTransaction
  <2>1. End /\ UNCHANGED <<brushes, defect>>
    BY <1>6 DEF EndTransaction
  <2>2. ZoneInv'
    BY <1>1, <2>1, ZoneStep DEF ZoneCall
  <2>3. Latest' = currVersion /\ Latest = currVersion
    BY <1>2, <2>1 DEF End, Latest, Transacting, VersionNone
  <2> QED
    BY <1>2, <1>3, <2>1, <2>2, <2>3
<1>7. ASSUME NEW new \in Refs, BrushAlloc(new) PROVE BrushInv'
  <2>1. /\ RefAlloc(Brush, EditBSize[Brush], new)
        /\ brushes' = [brushes EXCEPT ![new] = <<>>] /\ defect' = defect
    BY <1>7 DEF BrushAlloc
  <2>2. ZoneInv'
    BY <1>1, <2>1, BrushSizes, ZoneStep DEF ZoneCall
  <2>3. UNCHANGED <<headVersion, currVersion>>
    BY <2>1 DEF RefAlloc
  <2> QED
    BY <1>1, <2>1, <2>2, <2>3, EmptyIsGood, OneBrushChanges
<1>8. ASSUME NEW n, SetTooMany(n) PROVE BrushInv'
  <2>1. PICK new \in Refs : Spilling(n, new)
    BY <1>8 DEF SetTooMany
  <2>2. UNCHANGED <<knots, brushes, defect>>
    BY <1>8 DEF SetTooMany
  <2>3. AllocPlace(Brush, EditBSize[Brush], new) /\ UNCHANGED <<headVersion, currVersion>>
    BY <2>1 DEF Spilling
  <2>4. ZoneInv'
    BY <1>1, <2>2, <2>3, BrushSizes, PlacedKnots
  <2>5. Latest' = Latest
    BY <2>3 DEF Latest, Transacting
  <2> QED
    BY <1>2, <1>3, <2>2, <2>4, <2>5
<1>9. ASSUME NEW r \in Refs, NEW v, BrushDuplicate(r, v) PROVE BrushInv'
  <2>1. PICK n \in {Revise(r, v)}, new \in Refs :
          /\ IsBrush(n)
          /\ RefAlloc(Brush, EditBSize[Brush], new)
          /\ \E copy \in Deflations(brushes[n], AtVersion(v)) :
               /\ brushes' = [brushes EXCEPT ![new] = copy]
               /\ defect' \in {"early", "width", defect}
    BY <1>9 DEF BrushDuplicate
  <2>2. PICK copy \in Deflations(brushes[n], AtVersion(v)) :
          /\ brushes' = [brushes EXCEPT ![new] = copy]
          /\ defect' \in {"early", "width", defect}
    BY <2>1
  <2>3. Orderly(brushes[n], Latest) /\ Masked(brushes[n])
    BY <2>1 DEF BrushInv, IsBrush, Allocated
  <2>4. Orderly(copy, Latest) /\ Masked(copy)
    BY <2>3, DeflatedIs, UniqueIsMasked
  <2>5. ZoneInv'
    BY <1>1, <2>1, BrushSizes, ZoneStep DEF ZoneCall
  <2>6. UNCHANGED <<headVersion, currVersion>>
    BY <2>1 DEF RefAlloc
  <2>7. defect' \in Defects
    BY <1>1, <2>2 DEF Defects
  <2> QED
    BY <2>2, <2>4, <2>5, <2>6, <2>7, OneBrushChanges
<1> QED
  BY <1>4, <1>5, <1>6, <1>7, <1>8, <1>9, SetStep DEF Next

LEMMA BrushInvHolds == Spec => []BrushInv
BY BrushInitInv, BrushStep, PTL DEF Spec

(* fm_brushSet and fm_brushDuplicate never give a brush more modifiers than
   an fm_editBrush has room for, or a modifier a mask of bits that are not
   there, however brushes are set, spilled and copied. *)
THEOREM BrushTypeCorrect == Spec => []TypeOK
<1>1. BrushInv => TypeOK
  BY DEF BrushInv, TypeOK, ZoneInv, Orderly, Defects
<1> QED
  BY <1>1, BrushInvHolds, PTL

(* _brushCheck always holds, behind every defect too: the versions of a
   brush's modifiers never decrease, so that _modFind may halve the list,
   and no mask that a version finds has two faces of one id. *)
THEOREM BrushesChecked == Spec => []BrushChecked
<1>1. BrushInv => BrushChecked
  <2> SUFFICES ASSUME BrushInv, NEW r \in Refs
               PROVE  /\ \A i, j \in 1 .. Len(brushes[r]) :
                           i < j => brushes[r][i].version <= brushes[r][j].version
                      /\ \A v \in Versions : \A j, k \in InForce(brushes[r], v) :
                           brushes[r][j].id = brushes[r][k].id => j = k
    BY DEF BrushChecked
  <2>1. Orderly(brushes[r], Latest) /\ Masked(brushes[r])
    BY DEF BrushInv
  <2> QED
    BY <2>1, MaskFound DEF Orderly
<1> QED
  BY <1>1, BrushInvHolds, PTL

-----------------------------------------------------------------------------
(* What masks name *)

(* What MasksReach says of the modifiers of a brush of version b. *)
Reaching(ms, b) ==
    \A v \in b .. VersionHead : \A j \in InForce(ms, v) :
        /\ j <= Len(ms)
        /\ ms[j].face # NoFace
        /\ ms[j].version <= v

(* Up to the first defect: the revisions of a brush are in order and are one
   list, which is what fm_brushDuplicate goes by. *)
ReachInv ==
    /\ RevisionIntegrity /\ Listed
    /\ \A r \in Refs : knots[r].version <= Latest
    /\ \A r \in Refs : Reaching(brushes[r], knots[r].version)

(* A brush that was written anew and only sets faces. *)
LEMMA FacesReach ==
    ASSUME NEW u \in Nat, NEW ms, Orderly(ms, u), Masked(ms),
           \A j \in 1 .. Len(ms) : ms[j].face # NoFace
    PROVE  Reaching(ms, u)
<1> SUFFICES ASSUME NEW v \in u .. VersionHead, NEW j \in InForce(ms, v)
             PROVE  j <= Len(ms) /\ ms[j].face # NoFace /\ ms[j].version <= v
  BY DEF Reaching
<1>1. j \in 1 .. Len(ms) /\ Len(ms) \in Nat
  BY MaskFound, ListFields
<1>2. ms[j].version <= u /\ ms[j].version \in Nat /\ v \in Int /\ u <= v
  <2>1. ms[j].version \in Nat /\ ms[j].version <= u
    BY <1>1, ListFields DEF Orderly
  <2>2. VersionHead \in Nat
    BY SizesAssumption DEF SizesAssumption
  <2> QED
    BY <2>1, <2>2
<1> QED
  BY <1>1, <1>2

(* The last modifier of all is the one that the open version and every later
   one find. *)
LEMMA LastIsFound ==
    ASSUME NEW u \in Nat, NEW ms, Orderly(ms, u), Masked(ms), ms # <<>>,
           NEW v \in Int, u <= v
    PROVE  Len(ms) \in 1 .. Len(ms) /\ InForce(ms, v) = ms[Len(ms)].effective
<1>1. /\ ms \in Seq(Mods) /\ Len(ms) \in Nat
      /\ \A j \in 1 .. Len(ms) : ms[j].version \in Nat /\ ms[j].version <= u
  BY ListFields DEF Orderly
<1>2. Len(ms) # 0
  BY <1>1, EmptySeq
<1>3. Len(ms) \in 1 .. Len(ms)
  BY <1>1, <1>2
<1>4. \A j \in 1 .. Len(ms) : ms[j].version <= v
  BY <1>1
<1>5. FoundMod(ms, v) = 1 .. Len(ms)
  BY <1>4 DEF FoundMod
<1>6. /\ Max(FoundMod(ms, v)) \in FoundMod(ms, v)
      /\ \A j \in FoundMod(ms, v) : j <= Max(FoundMod(ms, v))
      /\ InForce(ms, v) = ms[Max(FoundMod(ms, v))].effective
  BY <1>3, <1>5, MaskFound
<1>7. PICK m : m = Max(FoundMod(ms, v))
  OBVIOUS
<1>8. m \in 1 .. Len(ms) /\ Len(ms) <= m
  BY <1>3, <1>5, <1>6, <1>7
<1>9. m = Len(ms)
  BY <1>1, <1>8
<1> QED
  BY <1>3, <1>6, <1>7, <1>9

(* A modifier of the open version changes nothing for the versions before. *)
LEMMA BeforeExtended ==
    ASSUME currVersion \in Versions, NEW ms, Orderly(ms, currVersion), Masked(ms),
           Len(ms) < BrushLoad, NEW i \in Ids, NEW f \in Faces \cup {NoFace},
           NEW v \in Int, v < currVersion
    PROVE  InForce(Extended(ms, i, f), v) = InForce(ms, v)
<1>0. PICK s : s = Extended(ms, i, f)
  OBVIOUS
<1>1. \/ s = ms
      \/ /\ s \in Seq(Mods) /\ Len(s) = Len(ms) + 1
         /\ \A j \in 1 .. Len(ms) : s[j] = ms[j]
         /\ s[Len(ms) + 1].version = currVersion
         /\ s[Len(ms) + 1].face = f
         /\ s[Len(ms) + 1].effective = Renewed(ms, i, f)
  BY <1>0, ExtendedIs
<1>2. /\ Len(ms) \in Nat /\ \A j \in 1 .. Len(ms) : ms[j].version \in Nat
      /\ currVersion \in Nat
  BY ListFields, SizesAssumption DEF Versions, VersionNone, SizesAssumption
<1>3. CASE s = ms
  BY <1>3, <1>0
<1>4. CASE /\ Len(s) = Len(ms) + 1
           /\ \A j \in 1 .. Len(ms) : s[j] = ms[j]
           /\ s[Len(ms) + 1].version = currVersion
  <2>1. \A j \in 1 .. Len(s) : j \in 1 .. Len(ms) \/ j = Len(ms) + 1
    BY <1>2, <1>4
  <2>2. 1 .. Len(ms) \subseteq 1 .. Len(s)
    BY <1>2, <1>4
  <2>3. ~(s[Len(ms) + 1].version <= v)
    BY <1>2, <1>4
  <2>4. FoundMod(s, v) = FoundMod(ms, v)
    BY <1>4, <2>1, <2>2, <2>3 DEF FoundMod
  <2>5. CASE FoundMod(ms, v) = {}
    BY <2>4, <2>5, <1>0 DEF InForce
  <2>6. CASE FoundMod(ms, v) # {}
    <3>1. Max(FoundMod(ms, v)) \in 1 .. Len(ms)
      BY <2>6, MaskFound DEF FoundMod
    <3> QED
      BY <1>4, <2>4, <2>6, <3>1, <1>0 DEF InForce
  <2> QED
    BY <2>5, <2>6
<1> QED
  BY <1>1, <1>3, <1>4

LEMMA ExtendedReaches ==
    ASSUME currVersion \in Versions, NEW ms, Orderly(ms, currVersion), Masked(ms),
           Len(ms) < BrushLoad, NEW i \in Ids, NEW f \in Faces \cup {NoFace},
           NEW b \in Nat, b <= currVersion, Reaching(ms, b)
    PROVE  Reaching(Extended(ms, i, f), b)
<1>0. PICK s : s = Extended(ms, i, f)
  OBVIOUS
<1>10. \/ s = ms
      \/ /\ s \in Seq(Mods) /\ Len(s) = Len(ms) + 1
         /\ \A j \in 1 .. Len(ms) : s[j] = ms[j]
         /\ s[Len(ms) + 1].version = currVersion
         /\ s[Len(ms) + 1].face = f
         /\ s[Len(ms) + 1].effective = Renewed(ms, i, f)
  BY <1>0, ExtendedIs
<1>1. Orderly(s, currVersion) /\ Masked(s)
  BY <1>0, ExtendedIsGood
<1>2. /\ Len(ms) \in Nat /\ Len(s) \in Nat
      /\ \A j \in 1 .. Len(s) : s[j].version \in Nat /\ s[j].version <= currVersion
      /\ currVersion \in Nat /\ VersionHead \in Nat /\ currVersion <= VersionHead
  <2>1. \A j \in 1 .. Len(s) : s[j].version \in Nat
    BY <1>1, ListFields
  <2>2. currVersion \in Nat /\ VersionHead \in Nat /\ currVersion <= VersionHead
    BY SizesAssumption DEF Versions, VersionNone, SizesAssumption
  <2> QED
    BY <1>1, <2>1, <2>2, ListFields DEF Orderly
<1>3. SUFFICES ASSUME s # ms, NEW v \in b .. VersionHead, NEW j \in InForce(s, v)
               PROVE  j <= Len(s) /\ s[j].face # NoFace /\ s[j].version <= v
  BY <1>0 DEF Reaching
<1>4. j \in 1 .. Len(s) /\ v \in Int /\ b <= v /\ v <= VersionHead
  BY <1>1, <1>2, MaskFound
<1>5. CASE v < currVersion
  <2>1. InForce(s, v) = InForce(ms, v)
    BY <1>4, <1>5, BeforeExtended, <1>0
  <2>2. j <= Len(ms) /\ ms[j].face # NoFace /\ ms[j].version <= v
    BY <1>3, <2>1 DEF Reaching
  <2>3. s[j] = ms[j]
    BY <1>10, <1>2, <1>3, <1>4, <2>2
  <2> QED
    BY <1>2, <1>4, <2>2, <2>3
<1>6. CASE currVersion <= v
  <2>1. s # <<>>
    BY <1>2, <1>4, EmptySeq
  <2>2. InForce(s, v) = s[Len(s)].effective
    BY <1>1, <1>2, <1>4, <1>6, <2>1, LastIsFound
  <2>3. j \in Renewed(ms, i, f)
    BY <1>10, <1>3, <2>2
  <2>4. CASE j = Len(ms) + 1
    <3>1. Len(ms) + 1 \notin InForce(ms, VersionHead)
      <4>1. InForce(ms, VersionHead) \in SUBSET (1 .. Len(ms))
        BY MaskFound
      <4> QED
        BY <1>2, <4>1
    <3>2. f # NoFace
      BY <2>3, <2>4, <3>1 DEF Renewed
    <3> QED
      BY <1>10, <1>2, <1>3, <1>4, <1>6, <2>4, <3>2
  <2>5. CASE j # Len(ms) + 1
    <3>1. j \in InForce(ms, VersionHead)
      BY <2>3, <2>5 DEF Renewed
    <3>2. VersionHead \in b .. VersionHead
      BY <1>2
    <3>3. j <= Len(ms) /\ ms[j].face # NoFace
      BY <3>1, <3>2 DEF Reaching
    <3>4. s[j] = ms[j]
      BY <1>10, <1>2, <1>3, <1>4, <3>3
    <3> QED
      BY <1>2, <1>4, <1>6, <3>3, <3>4
  <2> QED
    BY <2>4, <2>5
<1> QED
  BY <1>2, <1>4, <1>5, <1>6

(* What is in force in a brush that reaches, and so what is copied of it,
   sets faces. *)
LEMMA DeflatedSets ==
    ASSUME NEW u, NEW ms, Orderly(ms, u), Masked(ms), NEW b \in Nat, Reaching(ms, b),
           NEW v \in b .. VersionHead, NEW flat \in Deflations(ms, v)
    PROVE  \A n \in 1 .. Len(flat) : flat[n].face # NoFace
<1>1. \A n \in 1 .. Len(flat) : \E j \in InForce(ms, v) : flat[n].face = ms[j].face
  BY DeflatedIs
<1>2. \A j \in InForce(ms, v) : ms[j].face # NoFace
  BY DEF Reaching
<1> QED
  BY <1>1, <1>2

(* A face of a brush that was written anew is replaced: by another, or, of
   the last modifier, by none, and nothing moves. *)
LEMMA ReplacedReaches ==
    ASSUME currVersion \in Versions, NEW flat, Orderly(flat, currVersion), Unique(flat),
           NEW j \in 1 .. Len(flat), NEW f \in Faces \cup {NoFace},
           \A k \in 1 .. Len(flat) : flat[k].face # NoFace,
           NEW s, Orderly(s, currVersion), Unique(s),
           Resorted(s, Replaced(flat, j, f)), ~MaskSpoiled(flat, s, j, f)
    PROVE  Reaching(s, currVersion)
<1> DEFINE ms == Replaced(flat, j, f)
<1>1. currVersion \in Nat /\ Len(s) \in Nat
  BY ListFields, SizesAssumption DEF Versions, VersionNone, SizesAssumption
<1>2. \A k \in 1 .. Len(flat) : k # j => ms[k] = flat[k]
  BY ReplacedIs
<1>3. ms[j].face = f
  BY ReplacedIs
<1>4. f = NoFace => ms[j].effective = flat[j].effective \ {j}
  BY ReplacedIs
<1>5. 1 .. Len(ms) = 1 .. Len(flat)
  BY ReplacedIs
<1>6. Masked(s)
  BY UniqueIsMasked
<1> HIDE DEF ms
<1>7. CASE f # NoFace
  <2>1. \A l \in 1 .. Len(ms) : ms[l].face # NoFace
    BY <1>2, <1>3, <1>5, <1>7
  <2>2. ASSUME NEW k \in 1 .. Len(s) PROVE s[k].face # NoFace
    <3>1. PICK l \in 1 .. Len(ms) : s[k] = ms[l]
      BY DEF ms, Resorted
    <3> QED
      BY <2>1, <3>1
  <2> QED
    BY <1>1, <1>6, <2>2, FacesReach
<1>8. CASE f = NoFace
  <2>1. s = ms /\ j = Len(flat)
    BY <1>8 DEF MaskSpoiled, ms
  <2>2. SUFFICES ASSUME NEW v \in currVersion .. VersionHead, NEW k \in InForce(s, v)
                 PROVE  k <= Len(s) /\ s[k].face # NoFace /\ s[k].version <= v
    BY DEF Reaching
  <2>3. v \in Int /\ currVersion <= v
    <3>1. VersionHead \in Nat
      BY SizesAssumption DEF SizesAssumption
    <3> QED
      BY <1>1, <3>1
  <2>4. k \in 1 .. Len(s) /\ k \in 1 .. Len(flat)
    BY <1>5, <1>6, <2>1, MaskFound
  <2>5. Len(s) = Len(flat)
    BY <2>1, ReplacedIs DEF ms
  <2>6. InForce(s, v) = s[Len(s)].effective
    <3>1. s # <<>>
      BY <2>4, EmptySeq
    <3> QED
      BY <1>1, <1>6, <2>3, <3>1, LastIsFound
  <2>7. k # j
    BY <1>4, <1>8, <2>1, <2>2, <2>5, <2>6
  <2>8. s[k] = flat[k]
    BY <1>2, <2>1, <2>4, <2>7
  <2>9. s[k].face # NoFace
    BY <2>4, <2>8
  <2>10. s[k].version \in Nat /\ s[k].version <= currVersion
    BY <2>4, ListFields DEF Orderly
  <2>11. s[k].version <= v
    BY <1>1, <2>3, <2>10
  <2>12. k <= Len(s)
    BY <1>1, <2>4
  <2> QED
    BY <2>9, <2>11, <2>12
<1> QED
  BY <1>7, <1>8

(* One brush gets other modifiers, and no other a knot of another version. *)
LEMMA OneBrushReaches ==
    ASSUME ReachInv, BrushInv, RevisionIntegrity', Listed',
           UNCHANGED <<headVersion, currVersion>>, NEW r \in Refs, NEW ms,
           brushes' = [brushes EXCEPT ![r] = ms],
           \A s \in Refs : s # r => knots'[s].version = knots[s].version,
           knots'[r].version <= Latest, Reaching(ms, knots'[r].version)
    PROVE  ReachInv'
<1>1. Latest' = Latest
  BY DEF Latest, Transacting
<1>2. brushes'[r] = ms /\ \A s \in Refs : s # r => brushes'[s] = brushes[s]
  BY DEF BrushInv
<1>3. \A s \in Refs : knots'[s].version <= Latest'
  BY <1>1 DEF ReachInv
<1>4. \A s \in Refs : Reaching(brushes'[s], knots'[s].version)
  BY <1>2 DEF ReachInv
<1> QED
  BY <1>3, <1>4 DEF ReachInv

(* Nothing happens to knots and brushes. *)
LEMMA SameReaches ==
    ASSUME ReachInv, BrushInv, UNCHANGED <<knots, pages, brushes>>,
           Latest' \in Nat, Latest <= Latest'
    PROVE  ReachInv'
<1>1. RevisionIntegrity' /\ Listed'
  BY DEF ReachInv, RevisionIntegrity, Listed, InList, Allocated, PageOf
<1>2. \A r \in Refs : knots[r].version \in Nat /\ knots[r].version <= Latest
  BY KnotTyped DEF ReachInv, BrushInv
<1>3. Latest \in Nat
  BY LatestTyped DEF BrushInv, ZoneInv
<1>4. \A r \in Refs : knots[r].version <= Latest'
  BY <1>2, <1>3
<1> QED
  BY <1>1, <1>4 DEF ReachInv

LEMMA ReachInit == Init => ReachInv
<1> SUFFICES ASSUME Init PROVE ReachInv
  OBVIOUS
<1>1. /\ knots = [r \in Refs |-> FreeKnot] /\ brushes = [r \in Refs |-> <<>>]
      /\ headVersion = VersionNone /\ currVersion = VersionNone
  BY DEF Init, ZoneInit
<1>2. /\ \A r \in Refs : knots[r].version = VersionNone /\ brushes[r] = <<>>
      /\ Latest = VersionNone
  BY <1>1 DEF FreeKnot, Latest, Transacting
<1>3. RevisionIntegrity /\ Listed
  BY <1>2 DEF RevisionIntegrity, Listed, Allocated
<1>4. \A j \in 1 .. Len(<<>>) : <<>>[j].face # NoFace
  <2>1. Len(<<>>) = 0
    BY EmptySeq
  <2> QED
    BY <2>1
<1>5. Reaching(<<>>, VersionNone)
  <2>1. VersionNone \in Nat
    BY DEF VersionNone
  <2>2. PICK e : e = <<>>
    OBVIOUS
  <2>3. Orderly(e, VersionNone) /\ Masked(e) /\ \A j \in 1 .. Len(e) : e[j].face # NoFace
    BY <2>2, <1>4, EmptyIsGood
  <2>4. Reaching(e, VersionNone)
    BY <2>1, <2>3, FacesReach
  <2> QED
    BY <2>2, <2>4
<1>6. VersionNone <= VersionNone
  BY DEF VersionNone
<1> QED
  BY <1>2, <1>3, <1>5, <1>6 DEF ReachInv

LEMMA SetReaches ==
    ASSUME BrushInv, ReachInv, NEW n \in Newest, NEW i \in Ids,
           NEW f \in Faces \cup {NoFace}, Set(n, i, f),
           defect = "none", defect' = "none"
    PROVE  ReachInv'
<1>1. Settable(n)
  BY DEF Set, SetAppend, SetSpillKnown, SetSpillNew, Spilling
<1>2. /\ n \in Refs /\ Allocated(n) /\ ZoneInv /\ ZoneTypeOK
      /\ currVersion \in Versions /\ Latest = currVersion /\ currVersion \in Nat
      /\ Orderly(brushes[n], currVersion) /\ Masked(brushes[n])
  BY <1>1, SettableIs
<1>3. /\ knots[n].version \in Nat /\ knots[n].version <= currVersion
      /\ Reaching(brushes[n], knots[n].version)
  BY <1>2, KnotTyped DEF ReachInv
<1>4. RevisionIntegrity /\ Listed /\ IsHead(n)
  <2>1. PICK r \in Refs : n = Revise(r, VersionHead)
    BY DEF Newest
  <2>2. Allocated(r)
    BY <1>2, <2>1, BadIsNone DEF Revise, Allocated
  <2> QED
    BY <1>2, <2>1, <2>2, NewestIsHead DEF ReachInv
<1>5. currVersion \in knots[n].version .. VersionHead
  <2>1. currVersion < VersionHead /\ VersionHead \in Nat
    BY <1>2, SizesAssumption DEF Versions, VersionNone, SizesAssumption
  <2> QED
    BY <1>2, <1>3, <2>1
<1>6. CASE SetAppend(n, i, f)
  <2>1. /\ Len(brushes[n]) < BrushLoad
        /\ brushes' = [brushes EXCEPT ![n] = Extended(brushes[n], i, f)]
        /\ UNCHANGED zoneVars
    BY <1>6 DEF SetAppend, zoneVars
  <2>2. Reaching(Extended(brushes[n], i, f), knots[n].version)
    BY <1>2, <1>3, <2>1, ExtendedReaches
  <2>3. RevisionIntegrity' /\ Listed'
    BY <1>4, <2>1 DEF zoneVars, RevisionIntegrity, Listed, InList, Allocated, PageOf
  <2>4. knots' = knots /\ UNCHANGED <<headVersion, currVersion>>
    BY <2>1 DEF zoneVars
  <2>5. PICK ms : ms = Extended(brushes[n], i, f)
    OBVIOUS
  <2>6. /\ brushes' = [brushes EXCEPT ![n] = ms]
        /\ Reaching(ms, knots'[n].version) /\ knots'[n].version <= Latest
    BY <1>2, <1>3, <2>1, <2>2, <2>4, <2>5
  <2> QED
    BY <1>2, <2>3, <2>4, <2>6, OneBrushReaches
<1>7. ASSUME NEW new \in Refs, Spilling(n, new), LinkNew(n, new), ~Flat(n), NEW s,
             brushes' = [brushes EXCEPT ![new] = s], Reaching(s, currVersion)
      PROVE  ReachInv'
  <2>1. /\ AllocPlace(Brush, EditBSize[Brush], new)
        /\ UNCHANGED <<headVersion, currVersion>> /\ PlacedNext(n, new)
    BY <1>7, SpillIs DEF LinkNew, PlacedNext
  <2>2. knots[n].version < currVersion
    BY <1>2, <1>3, <1>7 DEF Flat
  <2>3. RevisionIntegrity' /\ Listed'
    BY <1>2, <1>4, <2>1, <2>2, BrushSizes, PlacedNextListed
  <2>4. /\ \A q \in Refs : q # new => knots'[q].version = knots[q].version
        /\ knots'[new].version = currVersion
    BY <1>2, <2>1, BrushSizes, PlacedNextKnots
  <2>5. knots'[new].version <= Latest /\ Reaching(s, knots'[new].version)
    BY <1>2, <1>7, <2>4
  <2> QED
    BY <1>7, <2>1, <2>3, <2>4, <2>5, OneBrushReaches
<1>8. ASSUME NEW flat \in Deflations(brushes[n], currVersion)
      PROVE  /\ Orderly(flat, currVersion) /\ Unique(flat) /\ Masked(flat)
             /\ \A k \in 1 .. Len(flat) : flat[k].face # NoFace
             /\ Reaching(flat, currVersion)
  <2>1. Orderly(flat, currVersion) /\ Unique(flat)
    BY <1>2, DeflatedIs
  <2>2. \A k \in 1 .. Len(flat) : flat[k].face # NoFace
    BY <1>2, <1>3, <1>5, DeflatedSets
  <2>3. Masked(flat)
    BY <2>1, UniqueIsMasked
  <2> QED
    BY <1>2, <2>1, <2>2, <2>3, FacesReach
<1>9. CASE SetSpillKnown(n, i, f)
  <2>1. PICK new \in Refs, flat \in Deflations(brushes[n], currVersion) :
          /\ Spilling(n, new) /\ LinkNew(n, new)
          /\ \E j \in FaceIndex(flat, i, VersionHead) :
               \E s \in Sorted(Replaced(flat, j, f)) :
                 /\ brushes' = [brushes EXCEPT ![new] = s]
                 /\ ~Flat(n) /\ ~MaskSpoiled(flat, s, j, f)
    BY <1>9 DEF SetSpillKnown
  <2>2. PICK j \in FaceIndex(flat, i, VersionHead) :
          \E s \in Sorted(Replaced(flat, j, f)) :
            /\ brushes' = [brushes EXCEPT ![new] = s]
            /\ ~Flat(n) /\ ~MaskSpoiled(flat, s, j, f)
    BY <2>1
  <2>3. PICK s \in Sorted(Replaced(flat, j, f)) :
          /\ brushes' = [brushes EXCEPT ![new] = s]
          /\ ~Flat(n) /\ ~MaskSpoiled(flat, s, j, f)
    BY <2>2
  <2>4. /\ j \in 1 .. Len(flat) /\ Orderly(s, currVersion) /\ Unique(s)
        /\ Resorted(s, Replaced(flat, j, f))
    BY <1>1, ReplacingIs
  <2>5. Reaching(s, currVersion)
    BY <1>2, <1>8, <2>3, <2>4, ReplacedReaches
  <2> QED
    BY <1>7, <2>1, <2>3, <2>5
<1>10. CASE SetSpillNew(n, i, f)
  <2>1. PICK new \in Refs, flat \in Deflations(brushes[n], currVersion) :
          /\ Spilling(n, new) /\ LinkNew(n, new)
          /\ Len(flat) < BrushLoad
          /\ brushes' = [brushes EXCEPT ![new] = Extended(flat, i, f)]
          /\ ~Flat(n)
    BY <1>10 DEF SetSpillNew
  <2>2. /\ Orderly(flat, currVersion) /\ Masked(flat) /\ Reaching(flat, currVersion)
        /\ currVersion <= currVersion
    BY <1>2, <1>8
  <2>3. Reaching(Extended(flat, i, f), currVersion)
    BY <1>2, <2>1, <2>2, ExtendedReaches
  <2> QED
    BY <1>7, <2>1, <2>3
<1> QED
  BY <1>6, <1>9, <1>10 DEF Set

(* An element without a revision comes into use. *)
LEMMA AllocReaches ==
    ASSUME BrushInv, ReachInv, NEW new \in Refs, RefAlloc(Brush, EditBSize[Brush], new),
           NEW s, brushes' = [brushes EXCEPT ![new] = s], Reaching(s, currVersion)
    PROVE  ReachInv'
<1>1. /\ AllocPlace(Brush, EditBSize[Brush], new) /\ Placed(new)
      /\ UNCHANGED <<headVersion, currVersion>>
  BY DEF RefAlloc, Placed
<1>2. ZoneInv /\ ZoneTypeOK /\ Transacting
  BY <1>1 DEF BrushInv, ZoneInv, AllocPlace
<1>3. currVersion \in Nat /\ Latest = currVersion
  BY <1>2, LatestTyped
<1>4. RevisionIntegrity' /\ Listed'
  BY <1>1, <1>2, BrushSizes, PlacedListed DEF ReachInv
<1>5. /\ \A q \in Refs : q # new => knots'[q] = knots[q]
      /\ knots'[new].version = currVersion
  BY <1>1, <1>2, BrushSizes, PlacedKnots
<1>6. knots'[new].version <= Latest /\ Reaching(s, knots'[new].version)
  BY <1>3, <1>5
<1>7. \A q \in Refs : q # new => knots'[q].version = knots[q].version
  BY <1>5
<1> QED
  BY <1>1, <1>4, <1>6, <1>7, OneBrushReaches

LEMMA DuplicateReaches ==
    ASSUME BrushInv, ReachInv, NEW r \in Refs, NEW v \in (1 .. currVersion) \cup {VersionHead},
           BrushDuplicate(r, v), defect = "none", defect' = "none"
    PROVE  ReachInv'
<1>1. PICK n \in {Revise(r, v)}, new \in Refs :
        /\ IsBrush(n)
        /\ RefAlloc(Brush, EditBSize[Brush], new)
        /\ \E copy \in Deflations(brushes[n], AtVersion(v)) :
             /\ brushes' = [brushes EXCEPT ![new] = copy]
             /\ ~(v = VersionHead /\ Flat(n))
  <2>1. PICK n \in {Revise(r, v)} :
          /\ IsBrush(n)
          /\ \E new \in Refs :
               /\ RefAlloc(Brush, EditBSize[Brush], new)
               /\ \E copy \in Deflations(brushes[n], AtVersion(v)) :
                    /\ brushes' = [brushes EXCEPT ![new] = copy]
                    /\ defect' = IF v = VersionHead /\ Flat(n) THEN "early"
                                 ELSE IF Len(copy) = IntBits THEN "width" ELSE defect
    BY DEF BrushDuplicate
  <2>2. PICK new \in Refs :
          /\ RefAlloc(Brush, EditBSize[Brush], new)
          /\ \E copy \in Deflations(brushes[n], AtVersion(v)) :
               /\ brushes' = [brushes EXCEPT ![new] = copy]
               /\ ~(v = VersionHead /\ Flat(n))
    BY <2>1
  <2> QED
    BY <2>1, <2>2
<1>2. PICK copy \in Deflations(brushes[n], AtVersion(v)) :
        /\ brushes' = [brushes EXCEPT ![new] = copy]
        /\ ~(v = VersionHead /\ Flat(n))
  BY <1>1
<1>3. /\ ZoneInv /\ ZoneTypeOK /\ n \in Refs /\ Allocated(n) /\ n = Revise(r, v)
      /\ Transacting
  BY <1>1 DEF BrushInv, ZoneInv, IsBrush, Allocated, BrushDuplicate
<1>4. /\ headVersion \in Nat /\ currVersion \in Nat /\ currVersion \in Versions
      /\ Latest = currVersion /\ currVersion = headVersion + 1
  BY <1>3, LatestTyped
<1>5. VersionHead \in Nat /\ currVersion < VersionHead /\ v \in Int
  <2>1. VersionHead \in Nat /\ currVersion < VersionHead
    BY <1>4, SizesAssumption DEF Versions, VersionNone, SizesAssumption
  <2> QED
    BY <1>4, <2>1
<1>6. /\ knots[n].version \in Nat /\ knots[n].version <= currVersion
      /\ Orderly(brushes[n], currVersion) /\ Masked(brushes[n])
      /\ Reaching(brushes[n], knots[n].version)
  BY <1>3, <1>4, KnotTyped DEF ReachInv, BrushInv
<1>7. knots[n].version <= v
  <2>1. Allocated(r)
    BY <1>3, BadIsNone DEF Revise
  <2> QED
    BY <1>3, <1>5, <2>1, BadIsNone, ReviseFinds DEF ReachInv
<1>8. AtVersion(v) \in knots[n].version .. VersionHead
  <2>1. CASE v = VersionHead
    <3>1. knots[n].version # currVersion
      BY <1>2, <2>1 DEF Flat
    <3>2. knots[n].version <= headVersion /\ headVersion <= VersionHead
      BY <1>4, <1>5, <1>6, <3>1
    <3>3. AtVersion(v) = headVersion
      BY <2>1 DEF AtVersion
    <3> QED
      BY <1>4, <1>5, <1>6, <3>2, <3>3
  <2>2. CASE v # VersionHead
    <3>1. AtVersion(v) = v
      BY <2>2 DEF AtVersion
    <3>2. v <= currVersion
      BY <1>4, <2>2
    <3> QED
      BY <1>4, <1>5, <1>6, <1>7, <3>1, <3>2
  <2> QED
    BY <2>1, <2>2
<1>9. Orderly(copy, currVersion) /\ Unique(copy)
  BY <1>6, DeflatedIs
<1>10. \A k \in 1 .. Len(copy) : copy[k].face # NoFace
  BY <1>6, <1>8, DeflatedSets
<1>11. Masked(copy)
  BY <1>9, UniqueIsMasked
<1>12. Reaching(copy, currVersion)
  BY <1>4, <1>9, <1>10, <1>11, FacesReach
<1> QED
  BY <1>1, <1>2, <1>12, AllocReaches

LEMMA ReachStep ==
    ASSUME BrushInv, BrushInv', defect = "none" => ReachInv, [Next]_vars
    PROVE  (defect = "none" => ReachInv)'
<1>1. SUFFICES ASSUME defect' = "none" PROVE ReachInv'
  OBVIOUS
<1>2. defect = "none"
  BY <1>1 DEF Next, vars, BeginTransaction, EndTransaction, BrushAlloc, Set, SetAppend,
              SetSpillKnown, SetSpillNew, SetTooMany, BrushDuplicate
<1>3. /\ ReachInv /\ ZoneInv /\ ZoneTypeOK /\ Latest \in Nat /\ Latest' \in Nat
      /\ headVersion \in Nat /\ currVersion \in Nat
  <2>1. ZoneTypeOK /\ ZoneTypeOK'
    BY DEF BrushInv, ZoneInv
  <2> QED
    BY <1>2, <2>1, LatestTyped, LatestTypedNext DEF BrushInv, ZoneInv
<1>4. CASE UNCHANGED vars
  <2>1. UNCHANGED <<knots, pages, brushes>> /\ Latest' = Latest
    BY <1>4 DEF vars, Latest, Transacting
  <2> QED
    BY <1>3, <2>1, SameReaches
<1>5. CASE BeginTransaction
  <2>1. UNCHANGED <<knots, pages, brushes>> /\ Latest' = headVersion + 1 /\ Latest = headVersion
    BY <1>3, <1>5 DEF BeginTransaction, Begin, Latest, Transacting, VersionNone
  <2> QED
    BY <1>3, <2>1, SameReaches
<1>6. CASE EndTransaction
  <2>1. UNCHANGED <<knots, pages, brushes>> /\ Latest' = currVersion /\ Latest = currVersion
    BY <1>3, <1>6 DEF EndTransaction, End, Latest, Transacting, VersionNone
  <2> QED
    BY <1>3, <2>1, SameReaches
<1>7. ASSUME NEW new \in Refs, BrushAlloc(new) PROVE ReachInv'
  <2>1. /\ RefAlloc(Brush, EditBSize[Brush], new)
        /\ brushes' = [brushes EXCEPT ![new] = <<>>]
    BY <1>7 DEF BrushAlloc
  <2>2. Reaching(<<>>, currVersion)
    <3>1. Orderly(<<>>, currVersion) /\ Masked(<<>>) /\ Len(<<>>) = 0
      BY EmptyIsGood, EmptySeq
    <3>2. PICK e : e = <<>>
      OBVIOUS
    <3>3. Orderly(e, currVersion) /\ Masked(e) /\ 1 .. Len(e) = {}
      BY <3>1, <3>2
    <3>4. Reaching(e, currVersion)
      BY <1>3, <3>3, FacesReach
    <3> QED
      BY <3>2, <3>4
  <2> QED
    BY <1>3, <2>1, <2>2, AllocReaches
<1>8. ASSUME NEW n, SetTooMany(n) PROVE ReachInv'
  <2>1. PICK new \in Refs : Spilling(n, new)
    BY <1>8 DEF SetTooMany
  <2>2. UNCHANGED <<knots, brushes>>
    BY <1>8 DEF SetTooMany
  <2>3. AllocPlace(Brush, EditBSize[Brush], new) /\ UNCHANGED <<headVersion, currVersion>>
    BY <2>1 DEF Spilling
  <2>4. RevisionIntegrity' /\ Listed'
    BY <1>3, <2>2, <2>3, BrushSizes, PlacedListed DEF ReachInv
  <2>5. Latest' = Latest
    BY <2>3 DEF Latest, Transacting
  <2> QED
    BY <1>3, <2>2, <2>4, <2>5 DEF ReachInv
<1>9. ASSUME NEW r \in Refs, NEW v \in (1 .. currVersion) \cup {VersionHead},
             BrushDuplicate(r, v)
      PROVE  ReachInv'
  BY <1>1, <1>2, <1>3, <1>9, DuplicateReaches
<1>10. ASSUME NEW n \in Newest, NEW i \in Ids, NEW f \in Faces \cup {NoFace}, Set(n, i, f)
       PROVE  ReachInv'
  BY <1>1, <1>2, <1>3, <1>10, SetReaches
<1> QED
  BY <1>4, <1>5, <1>6, <1>7, <1>8, <1>9, <1>10 DEF Next

LEMMA ReachHolds == Spec => [](BrushInv /\ (defect = "none" => ReachInv))
<1>1. Init => BrushInv /\ (defect = "none" => ReachInv)
  BY BrushInitInv, ReachInit
<1>2. BrushInv /\ (defect = "none" => ReachInv) /\ [Next]_vars
        => BrushInv' /\ (defect = "none" => ReachInv)'
  BY BrushStep, ReachStep
<1> QED
  BY <1>1, <1>2, PTL DEF Spec

(* Up to the first of the defects, what a mask names is a modifier of the
   brush that sets a face and that was set by the version that finds the
   mask: what _brushFindFace and _brushDeflate go by when they read a mask
   bit by bit. *)
THEOREM MasksNameFaces == Spec => []MasksReach
<1>1. BrushInv /\ (defect = "none" => ReachInv) => MasksReach
  BY DEF ReachInv, MasksReach, Reaching
<1> QED
  BY <1>1, ReachHolds, PTL

-----------------------------------------------------------------------------
(* What a brush tells *)

(* The face of an id is the one in force that has it. *)
LEMMA StoredIs ==
    ASSUME NEW u, NEW ms, Orderly(ms, u), Masked(ms), NEW i, NEW v
    PROVE  /\ \A j \in InForce(ms, v) : ms[j].id = i => Stored(ms, i, v) = ms[j].face
           /\ (\A j \in InForce(ms, v) : ms[j].id # i) => Stored(ms, i, v) = NoFace
<1>1. /\ FaceIndex(ms, i, v) = {j \in InForce(ms, v) : ms[j].id = i}
      /\ \A j, k \in InForce(ms, v) : ms[j].id = ms[k].id => j = k
  BY FaceFound, MaskFound
<1>2. Stored(ms, i, v) = IF FaceIndex(ms, i, v) = {} THEN NoFace
                         ELSE ms[CHOOSE j \in FaceIndex(ms, i, v) : TRUE].face
  BY DEF Stored
<1>3. ASSUME NEW j \in InForce(ms, v), ms[j].id = i PROVE Stored(ms, i, v) = ms[j].face
  <2>1. FaceIndex(ms, i, v) = {j}
    BY <1>1, <1>3
  <2>2. (CHOOSE k \in {j} : TRUE) = j
    OBVIOUS
  <2> QED
    BY <1>2, <2>1, <2>2
<1>4. ASSUME \A j \in InForce(ms, v) : ms[j].id # i PROVE Stored(ms, i, v) = NoFace
  <2>1. FaceIndex(ms, i, v) = {}
    BY <1>1, <1>4
  <2> QED
    BY <1>2, <2>1
<1> QED
  BY <1>3, <1>4

LEMMA StoredTyped ==
    ASSUME NEW u, NEW ms, Orderly(ms, u), Masked(ms), NEW i, NEW v
    PROVE  Stored(ms, i, v) \in Faces \cup {NoFace}
<1>1. InForce(ms, v) \in SUBSET (1 .. Len(ms)) /\ \A j \in 1 .. Len(ms) : ms[j] \in Mods
  BY MaskFound, ListFields
<1>2. \A j \in InForce(ms, v) : ms[j].face \in Faces \cup {NoFace}
  BY <1>1, ModsFields
<1> QED
  BY <1>2, StoredIs

(* Two lists that have the same faces in force, wherever those are, tell the
   same of an id. *)
LEMMA SameStored ==
    ASSUME NEW u, NEW ms, Orderly(ms, u), Masked(ms), NEW v,
           NEW x, NEW s, Orderly(s, x), Masked(s), NEW w, NEW i,
           \A j \in InForce(ms, v) : ms[j].id = i =>
              \E k \in InForce(s, w) : s[k].id = i /\ s[k].face = ms[j].face,
           \A k \in InForce(s, w) : s[k].id = i => \E j \in InForce(ms, v) : ms[j].id = i
    PROVE  Stored(s, i, w) = Stored(ms, i, v)
<1>1. CASE \E j \in InForce(ms, v) : ms[j].id = i
  <2>1. PICK j \in InForce(ms, v) : ms[j].id = i
    BY <1>1
  <2>2. PICK k \in InForce(s, w) : s[k].id = i /\ s[k].face = ms[j].face
    BY <2>1
  <2>3. Stored(ms, i, v) = ms[j].face
    BY <2>1, StoredIs
  <2>4. Stored(s, i, w) = s[k].face
    BY <2>2, StoredIs
  <2> QED
    BY <2>2, <2>3, <2>4
<1>2. CASE ~\E j \in InForce(ms, v) : ms[j].id = i
  <2>1. Stored(ms, i, v) = NoFace
    BY <1>2, StoredIs
  <2>2. Stored(s, i, w) = NoFace
    BY <1>2, StoredIs
  <2> QED
    BY <2>1, <2>2
<1> QED
  BY <1>1, <1>2

LEMMA EmptyStores ==
    ASSUME NEW i, NEW v
    PROVE  Stored(<<>>, i, v) = NoFace
<1>1. InForce(<<>>, v) = {}
  BY EmptySeq DEF InForce, FoundMod
<1> QED
  BY <1>1, EmptyIsGood, StoredIs

(* Versions that nothing in a list is newer than find the same mask. *)
LEMMA LaterInForce ==
    ASSUME NEW u \in Nat, NEW ms, Orderly(ms, u), NEW v \in Int, NEW w \in Int, u <= v, u <= w
    PROVE  InForce(ms, v) = InForce(ms, w)
<1>1. \A j \in 1 .. Len(ms) : ms[j].version \in Nat /\ ms[j].version <= u
  BY ListFields DEF Orderly
<1>2. \A j \in 1 .. Len(ms) : ms[j].version <= v /\ ms[j].version <= w
  BY <1>1
<1>3. FoundMod(ms, v) = FoundMod(ms, w)
  BY <1>2 DEF FoundMod
<1> QED
  BY <1>3 DEF InForce

LEMMA LaterStored ==
    ASSUME NEW u \in Nat, NEW ms, Orderly(ms, u), NEW v \in Int, NEW w \in Int, u <= v, u <= w,
           NEW i
    PROVE  Stored(ms, i, v) = Stored(ms, i, w)
<1>1. InForce(ms, v) = InForce(ms, w)
  BY LaterInForce
<1>2. FaceIndex(ms, i, v) = FaceIndex(ms, i, w)
  BY <1>1 DEF FaceIndex
<1> QED
  BY <1>2 DEF Stored

(* What _brushDeflate writes has all of its modifiers in force, and each of
   its masks says so, unless they are as many as an int has bits. *)
LEMMA DeflatedInForce ==
    ASSUME NEW u \in Nat, NEW ms, Orderly(ms, u), Masked(ms), NEW v,
           NEW flat \in Deflations(ms, v), Len(flat) < IntBits, NEW w \in Int, u <= w
    PROVE  /\ \A n \in 1 .. Len(flat) : flat[n].effective = 1 .. Len(flat)
           /\ InForce(flat, w) = 1 .. Len(flat)
<1>1. Orderly(flat, u) /\ Unique(flat)
  BY DeflatedIs
<1>2. PICK mask \in LowBits(Len(flat)) : \A n \in 1 .. Len(flat) : flat[n].effective = mask
  BY DeflatedIs
<1>3. mask = 1 .. Len(flat)
  BY <1>2 DEF LowBits
<1>4. Masked(flat)
  BY <1>1, UniqueIsMasked
<1>5. CASE flat = <<>>
  <2>1. 1 .. Len(flat) = {}
    BY <1>5, EmptySeq
  <2>2. FoundMod(flat, w) = {}
    BY <2>1 DEF FoundMod
  <2> QED
    BY <2>1, <2>2 DEF InForce
<1>6. CASE flat # <<>>
  <2>1. Len(flat) \in 1 .. Len(flat) /\ InForce(flat, w) = flat[Len(flat)].effective
    BY <1>1, <1>4, <1>6, LastIsFound
  <2> QED
    BY <1>2, <1>3, <2>1
<1> QED
  BY <1>2, <1>3, <1>5, <1>6

(* A copy tells what was told in the version it is made of. *)
LEMMA DeflatedStores ==
    ASSUME NEW u \in Nat, NEW ms, Orderly(ms, u), Masked(ms), NEW v,
           NEW flat \in Deflations(ms, v), Len(flat) < IntBits, NEW w \in Int, u <= w, NEW i
    PROVE  Stored(flat, i, w) = Stored(ms, i, v)
<1>1. /\ Orderly(flat, u) /\ Unique(flat)
      /\ \A n \in 1 .. Len(flat) : \E j \in InForce(ms, v) :
           flat[n].id = ms[j].id /\ flat[n].face = ms[j].face
      /\ \A j \in InForce(ms, v) : \E n \in 1 .. Len(flat) :
           flat[n].id = ms[j].id /\ flat[n].face = ms[j].face
  BY DeflatedIs
<1>2. InForce(flat, w) = 1 .. Len(flat)
  BY DeflatedInForce
<1>3. Masked(flat)
  BY <1>1, UniqueIsMasked
<1>4. CASE \E j \in InForce(ms, v) : ms[j].id = i
  <2>1. PICK j \in InForce(ms, v) : ms[j].id = i
    BY <1>4
  <2>2. PICK n \in InForce(flat, w) : flat[n].id = i /\ flat[n].face = ms[j].face
    BY <1>1, <1>2, <2>1
  <2>3. Stored(ms, i, v) = ms[j].face
    BY <2>1, StoredIs
  <2>4. Stored(flat, i, w) = flat[n].face
    BY <1>1, <1>3, <2>2, StoredIs
  <2> QED
    BY <2>2, <2>3, <2>4
<1>5. CASE ~\E j \in InForce(ms, v) : ms[j].id = i
  <2>1. Stored(ms, i, v) = NoFace
    BY <1>5, StoredIs
  <2>2. \A n \in InForce(flat, w) : flat[n].id # i
    BY <1>1, <1>2, <1>5
  <2>3. Stored(flat, i, w) = NoFace
    BY <1>1, <1>3, <2>2, StoredIs
  <2> QED
    BY <2>1, <2>3
<1> QED
  BY <1>4, <1>5

(* One modifier more tells the face that is set, in the open version, and
   nothing else otherwise. *)
LEMMA ExtendedStores ==
    ASSUME currVersion \in Versions, NEW ms, Orderly(ms, currVersion), Masked(ms),
           Len(ms) < BrushLoad, NEW i \in Ids, NEW f \in Faces \cup {NoFace},
           NEW v \in Nat, v <= currVersion, NEW k
    PROVE  Stored(Extended(ms, i, f), k, v) =
             IF v = currVersion /\ k = i THEN f ELSE Stored(ms, k, v)
<1>0. PICK s : s = Extended(ms, i, f)
  OBVIOUS
<1>1. \/ FaceIndex(ms, i, VersionHead) = {} /\ f = NoFace /\ s = ms
      \/ /\ s \in Seq(Mods) /\ Len(s) = Len(ms) + 1
         /\ \A j \in 1 .. Len(ms) : s[j] = ms[j]
         /\ s[Len(ms) + 1].id = i /\ s[Len(ms) + 1].face = f
         /\ s[Len(ms) + 1].effective = Renewed(ms, i, f)
  BY <1>0, ExtendedIs
<1>2. /\ currVersion \in Nat /\ VersionHead \in Nat /\ currVersion <= VersionHead
      /\ currVersion \in Int /\ VersionHead \in Int /\ currVersion <= currVersion
  BY SizesAssumption DEF Versions, VersionNone, SizesAssumption
<1>3. Orderly(s, currVersion) /\ Masked(s) /\ Len(ms) \in Nat
  BY <1>0, ExtendedIsGood, ListFields
<1>4. InForce(ms, currVersion) = InForce(ms, VersionHead)
  BY <1>2, LaterInForce
<1>5. /\ InForce(ms, v) \in SUBSET (1 .. Len(ms))
      /\ InForce(ms, VersionHead) \in SUBSET (1 .. Len(ms))
      /\ FaceIndex(ms, i, VersionHead) = {j \in InForce(ms, VersionHead) : ms[j].id = i}
  BY MaskFound, FaceFound
<1>6. CASE v < currVersion
  <2>1. InForce(s, v) = InForce(ms, v)
    BY <1>0, <1>6, BeforeExtended
  <2>2. \A j \in InForce(ms, v) : s[j] = ms[j]
    BY <1>1, <1>5
  <2>3. Stored(s, k, v) = Stored(ms, k, v)
    BY <1>3, <2>1, <2>2, SameStored
  <2> QED
    BY <1>0, <1>2, <1>6, <2>3
<1>7. CASE v = currVersion /\ s = ms /\ f = NoFace /\ FaceIndex(ms, i, VersionHead) = {}
  <2>1. \A j \in InForce(ms, v) : ms[j].id # i
    BY <1>4, <1>5, <1>7
  <2>2. Stored(ms, i, v) = NoFace
    BY <2>1, StoredIs
  <2> QED
    BY <1>0, <1>7, <2>2
<1>8. CASE /\ v = currVersion
           /\ s \in Seq(Mods) /\ Len(s) = Len(ms) + 1
           /\ \A j \in 1 .. Len(ms) : s[j] = ms[j]
           /\ s[Len(ms) + 1].id = i /\ s[Len(ms) + 1].face = f
           /\ s[Len(ms) + 1].effective = Renewed(ms, i, f)
  <2>1. s # <<>>
    BY <1>3, <1>8, EmptySeq
  <2>2. InForce(s, v) = Renewed(ms, i, f)
    BY <1>2, <1>3, <1>8, <2>1, LastIsFound
  <2>3. /\ \A j \in Renewed(ms, i, f) :
             \/ j \in InForce(ms, v) /\ s[j] = ms[j] /\ ms[j].id # i
             \/ j = Len(ms) + 1 /\ f # NoFace
        /\ \A j \in InForce(ms, v) : ms[j].id # i => j \in Renewed(ms, i, f) /\ s[j] = ms[j]
        /\ f # NoFace => Len(ms) + 1 \in Renewed(ms, i, f)
    BY <1>4, <1>5, <1>8 DEF Renewed
  <2>4. CASE k = i /\ f = NoFace
    <3>1. \A j \in InForce(s, v) : s[j].id # i
      BY <2>2, <2>3, <2>4
    <3> QED
      BY <1>0, <1>3, <1>8, <2>4, <3>1, StoredIs
  <2>5. CASE k = i /\ f # NoFace
    <3>1. Len(ms) + 1 \in InForce(s, v)
      BY <2>2, <2>3, <2>5
    <3> QED
      BY <1>0, <1>3, <1>8, <2>5, <3>1, StoredIs
  <2>6. CASE k # i
    <3>1. \A j \in InForce(ms, v) : ms[j].id = k =>
            \E l \in InForce(s, v) : s[l].id = k /\ s[l].face = ms[j].face
      BY <2>2, <2>3, <2>6
    <3>2. \A l \in InForce(s, v) : s[l].id = k => \E j \in InForce(ms, v) : ms[j].id = k
      BY <1>8, <2>2, <2>3, <2>6
    <3>3. Stored(s, k, v) = Stored(ms, k, v)
      BY <1>3, <3>1, <3>2, SameStored
    <3> QED
      BY <1>0, <2>6, <3>3
  <2> QED
    BY <2>4, <2>5, <2>6
<1> QED
  BY <1>1, <1>2, <1>6, <1>7, <1>8

(* A face that is replaced in a brush that was written anew tells the new one,
   unless the sort has moved what the masks name. *)
LEMMA ReplacedStores ==
    ASSUME currVersion \in Versions, NEW flat, Orderly(flat, currVersion), Unique(flat),
           \A n \in 1 .. Len(flat) : flat[n].effective = 1 .. Len(flat),
           InForce(flat, currVersion) = 1 .. Len(flat),
           NEW j \in 1 .. Len(flat), NEW f \in Faces \cup {NoFace},
           NEW s, Orderly(s, currVersion), Unique(s),
           Resorted(s, Replaced(flat, j, f)), ~MaskSpoiled(flat, s, j, f), NEW k
    PROVE  Stored(s, k, currVersion) =
             IF k = flat[j].id THEN f ELSE Stored(flat, k, currVersion)
<1>0. PICK ms : ms = Replaced(flat, j, f)
  OBVIOUS
<1>1. /\ currVersion \in Nat /\ currVersion \in Int /\ currVersion <= currVersion
      /\ Len(flat) \in Nat /\ Len(s) \in Nat
  BY ListFields, SizesAssumption DEF Versions, VersionNone, SizesAssumption
<1>2. /\ Len(ms) = Len(flat)
      /\ \A n \in 1 .. Len(flat) : n # j => ms[n] = flat[n]
      /\ ms[j].id = flat[j].id /\ ms[j].face = f
      /\ f = NoFace => ms[j].effective = flat[j].effective \ {j}
      /\ f # NoFace => ms[j].effective = flat[j].effective
  BY <1>0, ReplacedIs
<1>3. /\ Len(s) = Len(flat)
      /\ \A n \in 1 .. Len(flat) : \E m \in 1 .. Len(flat) : s[n] = ms[m]
      /\ \A m \in 1 .. Len(flat) : \E n \in 1 .. Len(flat) : s[n] = ms[m]
  <2>1. Resorted(s, ms)
    BY <1>0
  <2>2. /\ Len(s) = Len(ms)
        /\ \A n \in 1 .. Len(s) : \E m \in 1 .. Len(ms) : s[n] = ms[m]
        /\ \A m \in 1 .. Len(ms) : \E n \in 1 .. Len(s) : s[n] = ms[m]
    BY <2>1 DEF Resorted
  <2>3. Len(s) = Len(flat) /\ Len(ms) = Len(flat)
    BY <1>2, <2>2
  <2> QED
    BY <2>2, <2>3
<1>4. Masked(s) /\ Masked(flat)
  BY UniqueIsMasked
<1>5. /\ \A n, m \in 1 .. Len(flat) : flat[n].id = flat[m].id => n = m
      /\ \A n, m \in 1 .. Len(flat) : s[n].id = s[m].id => n = m
  BY <1>3 DEF Unique
<1>6. s # <<>>
  BY <1>1, <1>3, EmptySeq
<1>7. Len(s) \in 1 .. Len(s) /\ InForce(s, currVersion) = s[Len(s)].effective
  BY <1>1, <1>4, <1>6, LastIsFound
<1>8. CASE f # NoFace
  <2>1. \A n \in 1 .. Len(flat) : ms[n].effective = 1 .. Len(flat)
    BY <1>2, <1>8
  <2>2. InForce(s, currVersion) = 1 .. Len(flat)
    <3>1. PICK e : e = Len(s)
      OBVIOUS
    <3>2. e \in 1 .. Len(flat) /\ InForce(s, currVersion) = s[e].effective
      BY <1>3, <1>7, <3>1
    <3>3. PICK m \in 1 .. Len(flat) : s[e] = ms[m]
      BY <1>3, <3>2
    <3> QED
      BY <2>1, <3>2, <3>3
  <2>3. CASE k = flat[j].id
    <3>1. PICK n \in 1 .. Len(flat) : s[n] = ms[j]
      BY <1>3
    <3>2. n \in InForce(s, currVersion) /\ s[n].id = k /\ s[n].face = f
      BY <1>2, <2>2, <2>3, <3>1
    <3> QED
      BY <1>4, <2>3, <3>2, StoredIs
  <2>4. CASE k # flat[j].id
    <3>1. ASSUME NEW m \in InForce(flat, currVersion), flat[m].id = k
          PROVE  \E n \in InForce(s, currVersion) : s[n].id = k /\ s[n].face = flat[m].face
      <4>1. m \in 1 .. Len(flat) /\ ms[m] = flat[m]
        BY <1>2, <2>4, <3>1
      <4>2. PICK n \in 1 .. Len(flat) : s[n] = ms[m]
        BY <1>3, <4>1
      <4> QED
        BY <2>2, <3>1, <4>1, <4>2
    <3>2. ASSUME NEW n \in InForce(s, currVersion), s[n].id = k
          PROVE  \E m \in InForce(flat, currVersion) : flat[m].id = k
      <4>1. PICK m \in 1 .. Len(flat) : s[n] = ms[m]
        BY <1>3, <2>2
      <4>2. m # j
        BY <1>2, <2>4, <3>2, <4>1
      <4> QED
        BY <1>2, <3>2, <4>1, <4>2
    <3>3. Stored(s, k, currVersion) = Stored(flat, k, currVersion)
      BY <1>4, <3>1, <3>2, SameStored
    <3> QED
      BY <2>4, <3>3
  <2> QED
    BY <2>3, <2>4
<1>9. CASE f = NoFace
  <2>1. s = ms /\ j = Len(flat)
    BY <1>0, <1>9 DEF MaskSpoiled
  <2>2. InForce(s, currVersion) = (1 .. Len(flat)) \ {j}
    BY <1>2, <1>7, <1>9, <2>1
  <2>3. \A n \in (1 .. Len(flat)) \ {j} : s[n] = flat[n] /\ flat[n].id # flat[j].id
    BY <1>2, <1>5, <2>1
  <2>4. CASE k = flat[j].id
    <3>1. \A n \in InForce(s, currVersion) : s[n].id # k
      BY <2>2, <2>3, <2>4
    <3> QED
      BY <1>4, <1>9, <2>4, <3>1, StoredIs
  <2>5. CASE k # flat[j].id
    <3>1. \A m \in InForce(flat, currVersion) : flat[m].id = k =>
            \E n \in InForce(s, currVersion) : s[n].id = k /\ s[n].face = flat[m].face
      BY <2>2, <2>3, <2>5
    <3>2. \A n \in InForce(s, currVersion) : s[n].id = k =>
            \E m \in InForce(flat, currVersion) : flat[m].id = k
      BY <2>2, <2>3
    <3>3. Stored(s, k, currVersion) = Stored(flat, k, currVersion)
      BY <1>4, <3>1, <3>2, SameStored
    <3> QED
      BY <2>5, <3>3
  <2> QED
    BY <2>4, <2>5
<1> QED
  BY <1>8, <1>9

-----------------------------------------------------------------------------
(* The promised store *)

(* What a reader finds in version v, of any revision in use. *)
Reads(r, v, k) == Stored(brushes[Revise(r, v)], k, v)

Held(r, v) ==
    IF IsRoot(r) /\ knots[r].version <= v THEN [k \in Ids |-> Reads(r, v, k)] ELSE Absent

(* What a list of modifiers shows in version v. *)
Shown(ms, v) == [k \in Ids |-> Stored(ms, k, v)]

StoreInv == BrushInv /\ ReachInv

LEMMA StoreFacts ==
    ASSUME StoreInv
    PROVE  /\ ZoneInv /\ ZoneTypeOK /\ RevisionIntegrity /\ Listed
           /\ headVersion \in Nat /\ currVersion \in Nat /\ Latest \in Nat
           /\ headVersion <= Latest /\ Latest < VersionHead /\ VersionHead \in Nat
           /\ Transacting => Latest = currVersion /\ currVersion = headVersion + 1
           /\ ~Transacting => Latest = headVersion
           /\ \A r \in Refs : Orderly(brushes[r], Latest) /\ Masked(brushes[r])
           /\ \A r \in Refs : knots[r].version \in Nat /\ knots[r].version <= Latest
           /\ \A r \in Refs : Allocated(r) => knots[r].version # 0
<1>1. /\ ZoneInv /\ ZoneTypeOK /\ RevisionIntegrity /\ Listed
      /\ \A r \in Refs : Orderly(brushes[r], Latest) /\ Masked(brushes[r])
      /\ \A r \in Refs : knots[r].version <= Latest
  BY DEF StoreInv, BrushInv, ReachInv, ZoneInv
<1>2. /\ headVersion \in Nat /\ currVersion \in Nat /\ Latest \in Nat
      /\ Transacting => Latest = currVersion /\ currVersion = headVersion + 1
  BY <1>1, LatestTyped
<1>3. Latest < VersionHead /\ VersionHead \in Nat
  BY <1>1, SizesAssumption
     DEF ZoneTypeOK, Versions, VersionNone, Latest, SizesAssumption
<1>4. ~Transacting => Latest = headVersion
  BY DEF Latest
<1> QED
  BY <1>1, <1>2, <1>3, <1>4, KnotTyped DEF Allocated, VersionNone

(* What _reviseRef comes to is a brush with an ordered list. *)
LEMMA RevisedIs ==
    ASSUME StoreInv, NEW r \in Refs, Allocated(r), NEW v \in Int
    PROVE  /\ Revise(r, v) # BadRef =>
                /\ Revise(r, v) \in Refs /\ Allocated(Revise(r, v))
                /\ knots[Revise(r, v)].version <= v
                /\ Orderly(brushes[Revise(r, v)], Latest) /\ Masked(brushes[Revise(r, v)])
           /\ knots[r].version <= v => Revise(r, v) # BadRef
<1>1. Revise(r, v) # BadRef =>
        Allocated(Revise(r, v)) /\ knots[Revise(r, v)].version <= v
  BY StoreFacts, ReviseFinds
<1>2. knots[r].version <= v => Revise(r, v) # BadRef
  BY StoreFacts, ReviseFinds
<1> QED
  BY <1>1, <1>2, StoreFacts DEF Allocated

LEMMA HeldIs ==
    ASSUME NEW r, NEW v
    PROVE  Contents(r, v) = Held(r, v)
BY DEF Contents, Held, Reads

(* The contents of a brush are ids with faces. *)
LEMMA HeldTyped ==
    ASSUME StoreInv, NEW r \in Refs, IsRoot(r), NEW v \in Int, knots[r].version <= v
    PROVE  Held(r, v) \in [Ids -> Faces \cup {NoFace}] /\ Held(r, v) # Absent
<1>1. Allocated(r)
  BY DEF IsRoot
<1>2. Orderly(brushes[Revise(r, v)], Latest) /\ Masked(brushes[Revise(r, v)])
  BY <1>1, RevisedIs
<1>3. \A k \in Ids : Reads(r, v, k) \in Faces \cup {NoFace}
  BY <1>2, StoredTyped DEF Reads
<1>4. Held(r, v) = [k \in Ids |-> Reads(r, v, k)]
  BY DEF Held
<1> QED
  BY <1>3, <1>4, AbsentAssumption DEF AbsentAssumption

Snap(v) == [r \in Refs |-> Held(r, v)]

Live == [r \in Refs |-> Contents(r, Latest)]

Past == [v \in 1 .. headVersion |-> [r \in Refs |-> Contents(r, v)]]

(* The store as of a version that is named, so that it can be compared with
   itself a step later. *)
StoreIs ==
    /\ \A v \in Nat : v = Latest => Live = Snap(v)
    /\ \A h \in Nat : h = headVersion => Past = [v \in 1 .. h |-> Snap(v)]

LEMMA StoreNow == StoreInv => StoreIs
<1>1. ASSUME NEW v \in Nat, v = Latest PROVE Live = Snap(v)
  BY <1>1, HeldIs DEF Live, Snap
<1>2. ASSUME NEW h \in Nat, h = headVersion PROVE Past = [v \in 1 .. h |-> Snap(v)]
  BY <1>2, HeldIs DEF Past, Snap
<1> QED
  BY <1>1, <1>2 DEF StoreIs

LEMMA StoreThen == StoreInv' => StoreIs'
BY StoreNow, PTL

(* No brush reads otherwise, in any version there is. *)
LEMMA StoreStutters ==
    ASSUME StoreInv, StoreInv', UNCHANGED <<headVersion, currVersion>>,
           \A r \in Refs, v \in Nat : v <= Latest => Held(r, v)' = Held(r, v)
    PROVE  UNCHANGED Store!storeVars
<1>1. /\ StoreIs /\ StoreIs' /\ Latest \in Nat /\ headVersion \in Nat
      /\ headVersion <= Latest /\ Latest' = Latest
  BY StoreNow, StoreThen, StoreFacts DEF Latest, Transacting
<1>2. \A v \in Nat : v <= Latest => Snap(v)' = Snap(v)
  BY DEF Snap
<1>3. Live' = Live
  BY <1>1, <1>2 DEF StoreIs
<1>4. Past' = Past
  <2>1. PICK h \in Nat : h = headVersion
    BY <1>1
  <2>2. \A v \in 1 .. h : Snap(v)' = Snap(v)
    BY <1>1, <1>2, <2>1
  <2>3. Past = [v \in 1 .. h |-> Snap(v)] /\ Past' = [v \in 1 .. h |-> Snap(v)']
    BY <1>1, <2>1 DEF StoreIs
  <2> QED
    BY <2>2, <2>3
<1> QED
  BY <1>3, <1>4 DEF Store!storeVars, Live, Past, Transacting

(* One brush is created, changed or copied, in a transaction and for it
   alone. *)
LEMMA OneChanges ==
    ASSUME StoreInv, StoreInv', UNCHANGED <<headVersion, currVersion>>, Transacting,
           NEW n \in Refs,
           \A r \in Refs, v \in Nat : r # n /\ v <= Latest => Held(r, v)' = Held(r, v),
           \A v \in Nat : v <= headVersion => Held(n, v)' = Held(n, v),
           NEW w \in Nat, w = Latest,
           \/ Store!Created(Held(n, w), Held(n, w)')
           \/ Store!Written(Held(n, w), Held(n, w)')
           \/ /\ Held(n, w) = Absent /\ Held(n, w)' # Absent
              /\ \E m \in Refs, u \in Nat :
                   (u = w \/ u \in 1 .. headVersion) /\ Held(n, w)' = Held(m, u)
    PROVE  Store!StoreNext
<1>1. /\ StoreIs /\ StoreIs' /\ headVersion \in Nat /\ Latest' = w
      /\ headVersion <= w /\ headVersion' = headVersion
  BY StoreNow, StoreThen, StoreFacts DEF Latest, Transacting
<1>2. PICK h \in Nat : h = headVersion
  BY <1>1
<1>3. ASSUME NEW v \in 1 .. h PROVE Snap(v)' = Snap(v)
  <2>1. v \in Nat /\ v <= headVersion /\ v <= Latest
    BY <1>1, <1>2
  <2>2. \A r \in Refs : Held(r, v)' = Held(r, v)
    BY <2>1
  <2> QED
    BY <2>2 DEF Snap
<1>4. Past = [v \in 1 .. h |-> Snap(v)] /\ Past' = Past
  <2>1. Past = [v \in 1 .. h |-> Snap(v)] /\ Past' = [v \in 1 .. h |-> Snap(v)']
    BY <1>1, <1>2 DEF StoreIs
  <2> QED
    BY <1>3, <2>1
<1>5. Live = Snap(w) /\ Live' = Snap(w)'
  BY <1>1 DEF StoreIs
<1>6. /\ Live[n] = Held(n, w) /\ Live'[n] = Held(n, w)'
      /\ Live' = [Live EXCEPT ![n] = Live'[n]]
  <2>1. \A r \in Refs : r # n => Held(r, w)' = Held(r, w)
    BY <1>1
  <2>2. /\ Live = [r \in Refs |-> Held(r, w)]
        /\ Live' = [r \in Refs |-> Held(r, w)']
    BY <1>5 DEF Snap
  <2> QED
    BY <2>1, <2>2
<1>7. \/ Store!Created(Live[n], Live'[n])
      \/ Store!Written(Live[n], Live'[n])
      \/ /\ Live[n] = Absent /\ Live'[n] # Absent
         /\ \E seen \in Store!Range(Past) \cup {Live}, m \in Refs : Live'[n] = seen[m]
  <2>1. ASSUME NEW m \in Refs, NEW u \in Nat, u = w \/ u \in 1 .. headVersion,
               Held(n, w)' = Held(m, u)
        PROVE  \E seen \in Store!Range(Past) \cup {Live}, o \in Refs : Live'[n] = seen[o]
    <3>1. Snap(u)[m] = Held(m, u)
      BY DEF Snap
    <3>2. CASE u = w
      BY <1>5, <1>6, <2>1, <3>1, <3>2
    <3>3. CASE u \in 1 .. headVersion
      <4>1. u \in DOMAIN Past /\ Past[u] = Snap(u)
        BY <1>2, <1>4, <3>3
      <4>2. Past[u] \in Store!Range(Past)
        BY <4>1 DEF Store!Range
      <4> QED
        BY <1>6, <2>1, <3>1, <4>1, <4>2
    <3> QED
      BY <2>1, <3>2, <3>3
  <2> QED
    BY <1>6, <2>1
<1>8. \E now \in {Live}, next \in {Live'}, m \in Refs :
         /\ next = [now EXCEPT ![m] = next[m]]
         /\ \/ Store!Created(now[m], next[m])
            \/ Store!Written(now[m], next[m])
            \/ Store!Copied(now[m], next[m])
  BY <1>6, <1>7 DEF Store!Copied, Live, Past
<1>9. Transacting /\ UNCHANGED <<Transacting, Past>>
  BY <1>4 DEF Transacting
<1>10. Store!Change
  BY <1>8, <1>9 DEF Store!Change, Live, Past
<1> QED
  BY <1>10 DEF Store!StoreNext

-----------------------------------------------------------------------------
(* What a set makes of the brushes *)

LEMMA SetHappens ==
    ASSUME StoreInv, NEW n \in Newest, NEW i, NEW f, Set(n, i, f)
    PROVE  /\ n \in Refs /\ Allocated(n) /\ IsHead(n) /\ Transacting
           /\ UNCHANGED <<headVersion, currVersion>>
           /\ Latest = currVersion /\ currVersion \in Nat /\ currVersion \in Versions
<1>1. Settable(n) /\ UNCHANGED <<headVersion, currVersion>>
  BY DEF Set, SetAppend, SetSpillKnown, SetSpillNew, Spilling
<1>2. /\ n \in Refs /\ Allocated(n) /\ Transacting
      /\ Latest = currVersion /\ currVersion \in Nat /\ currVersion \in Versions
  BY <1>1, SettableIs DEF Settable, StoreInv
<1>3. PICK r \in Refs : n = Revise(r, VersionHead)
  BY DEF Newest
<1>4. Allocated(r)
  BY <1>2, <1>3, BadIsNone DEF Revise, Allocated
<1>5. IsHead(n)
  BY <1>3, <1>4, StoreFacts, NewestIsHead
<1> QED
  BY <1>1, <1>2, <1>5

(* Nothing but one face of the brush that is set reads otherwise, and that
   only in the open version. *)
SetOnly(n, k, w) ==
    /\ \A r \in Refs : IsRoot(r)' <=> IsRoot(r)
    /\ \A r \in Refs : Allocated(r) => knots'[r].version = knots[r].version
    /\ \A r \in Refs, v \in Nat, l \in Ids :
         Allocated(r) /\ v <= currVersion /\ Revise(r, v) # BadRef =>
            /\ Allocated(r)' /\ Revise(r, v)' # BadRef
            /\ Reads(r, v, l)' =
                 IF v = currVersion /\ Revise(r, v) = n /\ l = k THEN w
                 ELSE Reads(r, v, l)

LEMMA ReadsNewly ==
    ASSUME NEW r, NEW v, NEW k, NEW q, NEW ms, Revise(r, v)' = q, brushes'[q] = ms
    PROVE  Reads(r, v, k)' = Stored(ms, k, v)
BY DEF Reads, Stored, FaceIndex, InForce, FoundMod

LEMMA AppendTells ==
    ASSUME StoreInv, StoreInv', NEW n \in Newest, NEW i \in Ids, NEW f \in Faces \cup {NoFace},
           Set(n, i, f), SetAppend(n, i, f)
    PROVE  SetOnly(n, i, f)
<1>1. /\ n \in Refs /\ UNCHANGED zoneVars /\ Len(brushes[n]) < BrushLoad
      /\ currVersion \in Versions /\ currVersion \in Nat
      /\ Orderly(brushes[n], currVersion) /\ Masked(brushes[n])
      /\ brushes' = [brushes EXCEPT ![n] = Extended(brushes[n], i, f)]
  BY SetHappens, StoreFacts DEF SetAppend, zoneVars
<1>2. PICK s : s = Extended(brushes[n], i, f)
  OBVIOUS
<1>3. knots' = knots /\ pages' = pages
  BY <1>1 DEF zoneVars
<1>4. \A r \in Refs : (Allocated(r)' <=> Allocated(r)) /\ (IsRoot(r)' <=> IsRoot(r))
  BY <1>3 DEF Allocated, PageOf, IsRoot
<1>5. \A q \in Refs : brushes'[q] = IF q = n THEN s ELSE brushes[q]
  BY <1>1, <1>2 DEF StoreInv, BrushInv
<1>6. ASSUME NEW r \in Refs, NEW v \in Nat, NEW l \in Ids, Allocated(r),
             v <= currVersion, Revise(r, v) # BadRef
      PROVE  /\ Revise(r, v)' # BadRef
             /\ Reads(r, v, l)' =
                  IF v = currVersion /\ Revise(r, v) = n /\ l = i THEN f
                  ELSE Reads(r, v, l)
  <2>1. PICK q : q = Revise(r, v)
    OBVIOUS
  <2>2. v \in Int /\ ZoneInv /\ ZoneInv' /\ RevisionIntegrity
    BY StoreFacts DEF StoreInv, BrushInv
  <2>3. \A s2 \in Refs : Allocated(s2) => Allocated(s2)' /\ knots'[s2] = knots[s2]
    BY <1>3, <1>4
  <2>4. Revise(r, v)' = q
    BY <1>6, <2>1, <2>2, <2>3, ReviseStays
  <2>5. q \in Refs /\ Reads(r, v, l) = Stored(brushes[q], l, v)
    BY <1>6, <2>1, <2>2, RevisedIs DEF Reads
  <2>6. CASE q = n
    <3>1. Reads(r, v, l)' = Stored(s, l, v)
      BY <1>5, <2>4, <2>5, <2>6, ReadsNewly
    <3>2. Stored(s, l, v) =
            IF v = currVersion /\ l = i THEN f ELSE Stored(brushes[n], l, v)
      BY <1>1, <1>2, <1>6, ExtendedStores
    <3> QED
      BY <1>6, <2>1, <2>4, <2>5, <2>6, <3>1, <3>2
  <2>7. CASE q # n
    <3>1. Reads(r, v, l)' = Stored(brushes[q], l, v)
      BY <1>5, <2>4, <2>5, <2>7, ReadsNewly
    <3> QED
      BY <1>6, <2>1, <2>4, <2>5, <2>7, <3>1
  <2> QED
    BY <2>6, <2>7
<1> QED
  BY <1>3, <1>4, <1>6 DEF SetOnly

(* A full brush is followed by one that tells in the open version what it
   told, but for the face that is set. *)
LEMMA SpillReads ==
    ASSUME StoreInv, StoreInv', NEW n \in Newest, NEW i \in Ids, NEW f, Set(n, i, f),
           NEW new \in Refs, Spilling(n, new), LinkNew(n, new), ~Flat(n), NEW s,
           brushes' = [brushes EXCEPT ![new] = s],
           \A k \in Ids : Stored(s, k, currVersion) =
              IF k = i THEN f ELSE Stored(brushes[n], k, currVersion)
    PROVE  SetOnly(n, i, f)
<1>1. /\ n \in Refs /\ Allocated(n) /\ IsHead(n) /\ ZoneInv /\ RevisionIntegrity
      /\ currVersion \in Nat /\ UNCHANGED <<headVersion, currVersion>>
      /\ \A q \in Refs : knots[q].version \in Nat /\ knots[q].version <= currVersion
  BY SetHappens, StoreFacts
<1>2. \A q \in Refs : brushes'[q] = IF q = new THEN s ELSE brushes[q]
  BY DEF StoreInv, BrushInv
<1>3. AllocPlace(Brush, EditBSize[Brush], new) /\ PlacedNext(n, new)
  BY DEF Spilling, LinkNew, PlacedNext
<1>4. knots[n].version < currVersion
  BY <1>1 DEF Flat
<1>5. /\ n # new /\ n # BadRef /\ new # BadRef
      /\ \A r \in Refs : Allocated(r)' <=> Allocated(r) \/ r = new
      /\ \A r \in Refs : r # new => knots'[r].version = knots[r].version
      /\ \A r \in Refs : r # new => knots'[r].prev = knots[r].prev
      /\ knots'[new].prev = n
  BY <1>1, <1>3, BrushSizes, PlacedNextKnots, BadIsNone
<1>6. ~Allocated(new)
  BY <1>1, <1>3, BrushSizes, AllocFindsFree
<1>7. \A r \in Refs : IsRoot(r)' <=> IsRoot(r)
  BY <1>5, <1>6 DEF IsRoot
<1>8. \A v \in Int, r \in Refs : Allocated(r) =>
        Revise(r, v)' = IF v >= currVersion /\ Revise(r, v) = n THEN new ELSE Revise(r, v)
  BY <1>1, <1>3, <1>4, BrushSizes, ReviseGrows
<1>9. ASSUME NEW r \in Refs, NEW v \in Nat, NEW l \in Ids, Allocated(r),
             v <= currVersion, Revise(r, v) # BadRef
      PROVE  /\ Revise(r, v)' # BadRef
             /\ Reads(r, v, l)' =
                  IF v = currVersion /\ Revise(r, v) = n /\ l = i THEN f
                  ELSE Reads(r, v, l)
  <2>1. PICK q : q = Revise(r, v)
    OBVIOUS
  <2>2. v \in Int /\ (v >= currVersion <=> v = currVersion)
    BY <1>1, <1>9
  <2>3. q \in Refs /\ Allocated(q) /\ q # new /\ Reads(r, v, l) = Stored(brushes[q], l, v)
    BY <1>6, <1>9, <2>1, <2>2, RevisedIs DEF Reads
  <2>4. CASE v = currVersion /\ q = n
    <3>1. Revise(r, v)' = new
      BY <1>8, <1>9, <2>1, <2>2, <2>4
    <3>2. Reads(r, v, l)' = Stored(s, l, v)
      BY <1>2, <3>1, ReadsNewly
    <3> QED
      BY <1>5, <2>1, <2>3, <2>4, <3>1, <3>2
  <2>5. CASE ~(v = currVersion /\ q = n)
    <3>1. Revise(r, v)' = q
      BY <1>8, <1>9, <2>1, <2>2, <2>5
    <3>2. Reads(r, v, l)' = Stored(brushes[q], l, v)
      BY <1>2, <2>3, <3>1, ReadsNewly
    <3> QED
      BY <1>9, <2>1, <2>3, <2>5, <3>1, <3>2
  <2> QED
    BY <2>4, <2>5
<1>10. \A r \in Refs : Allocated(r) => Allocated(r)' /\ knots'[r].version = knots[r].version
  BY <1>5, <1>6
<1> QED
  BY <1>7, <1>9, <1>10 DEF SetOnly

LEMMA SetTells ==
    ASSUME StoreInv, StoreInv', NEW n \in Newest, NEW i \in Ids, NEW f \in Faces \cup {NoFace},
           Set(n, i, f), defect' = "none"
    PROVE  SetOnly(n, i, f)
<1>1. /\ n \in Refs /\ currVersion \in Versions /\ currVersion \in Nat /\ currVersion \in Int
      /\ currVersion <= currVersion
      /\ Orderly(brushes[n], currVersion) /\ Masked(brushes[n])
      /\ VersionHead \in Nat /\ VersionHead \in Int /\ currVersion <= VersionHead
  BY SetHappens, StoreFacts
<1>2. Settable(n) /\ BrushInv
  BY DEF Set, SetAppend, SetSpillKnown, SetSpillNew, Spilling, StoreInv
<1>3. ASSUME NEW flat \in Deflations(brushes[n], currVersion), Len(flat) < BrushLoad
      PROVE  /\ Orderly(flat, currVersion) /\ Unique(flat) /\ Masked(flat)
             /\ \A j \in 1 .. Len(flat) : flat[j].effective = 1 .. Len(flat)
             /\ InForce(flat, currVersion) = 1 .. Len(flat)
             /\ InForce(flat, VersionHead) = 1 .. Len(flat)
             /\ \A k : Stored(flat, k, currVersion) = Stored(brushes[n], k, currVersion)
  <2>1. Orderly(flat, currVersion) /\ Unique(flat)
    BY <1>1, DeflatedIs
  <2>2. Masked(flat)
    BY <2>1, UniqueIsMasked
  <2>3. Len(flat) < IntBits
    BY <1>3, <2>1, LoadTyped, ListFields
  <2>4. /\ \A j \in 1 .. Len(flat) : flat[j].effective = 1 .. Len(flat)
        /\ InForce(flat, currVersion) = 1 .. Len(flat)
    BY <1>1, <2>3, DeflatedInForce
  <2>5. InForce(flat, VersionHead) = 1 .. Len(flat)
    BY <1>1, <2>3, DeflatedInForce
  <2>6. \A k : Stored(flat, k, currVersion) = Stored(brushes[n], k, currVersion)
    BY <1>1, <2>3, DeflatedStores
  <2> QED
    BY <2>1, <2>2, <2>4, <2>5, <2>6
<1>4. CASE SetAppend(n, i, f)
  BY <1>4, AppendTells
<1>5. CASE SetSpillKnown(n, i, f)
  <2>1. PICK new \in Refs, flat \in Deflations(brushes[n], currVersion) :
          /\ Spilling(n, new) /\ LinkNew(n, new) /\ Len(flat) < BrushLoad
          /\ \E j \in FaceIndex(flat, i, VersionHead) :
               \E s \in Sorted(Replaced(flat, j, f)) :
                 /\ brushes' = [brushes EXCEPT ![new] = s]
                 /\ ~Flat(n) /\ ~MaskSpoiled(flat, s, j, f)
    BY <1>5 DEF SetSpillKnown
  <2>2. PICK j \in FaceIndex(flat, i, VersionHead) :
          \E s \in Sorted(Replaced(flat, j, f)) :
            /\ brushes' = [brushes EXCEPT ![new] = s]
            /\ ~Flat(n) /\ ~MaskSpoiled(flat, s, j, f)
    BY <2>1
  <2>3. PICK s \in Sorted(Replaced(flat, j, f)) :
          /\ brushes' = [brushes EXCEPT ![new] = s]
          /\ ~Flat(n) /\ ~MaskSpoiled(flat, s, j, f)
    BY <2>2
  <2>4. /\ j \in 1 .. Len(flat) /\ Orderly(s, currVersion) /\ Unique(s)
        /\ Resorted(s, Replaced(flat, j, f))
    BY <1>2, ReplacingIs
  <2>5. flat[j].id = i
    BY <1>3, <2>1, FaceFound
  <2>6. \A k : Stored(s, k, currVersion) =
          IF k = flat[j].id THEN f ELSE Stored(flat, k, currVersion)
    BY <1>1, <1>3, <2>1, <2>3, <2>4, ReplacedStores
  <2>7. \A k : Stored(s, k, currVersion) =
          IF k = i THEN f ELSE Stored(brushes[n], k, currVersion)
    BY <1>3, <2>1, <2>5, <2>6
  <2> QED
    BY <2>1, <2>3, <2>7, SpillReads
<1>6. CASE SetSpillNew(n, i, f)
  <2>1. PICK new \in Refs, flat \in Deflations(brushes[n], currVersion) :
          /\ Spilling(n, new) /\ LinkNew(n, new) /\ Len(flat) < BrushLoad
          /\ brushes' = [brushes EXCEPT ![new] = Extended(flat, i, f)]
          /\ ~Flat(n)
    BY <1>6 DEF SetSpillNew
  <2>2. PICK s : s = Extended(flat, i, f)
    OBVIOUS
  <2>3. \A k : Stored(s, k, currVersion) =
          IF k = i THEN f ELSE Stored(flat, k, currVersion)
    BY <1>1, <1>3, <2>1, <2>2, ExtendedStores
  <2>4. \A k : Stored(s, k, currVersion) =
          IF k = i THEN f ELSE Stored(brushes[n], k, currVersion)
    BY <1>3, <2>1, <2>3
  <2> QED
    BY <2>1, <2>2, <2>4, SpillReads
<1> QED
  BY <1>4, <1>5, <1>6 DEF Set

-----------------------------------------------------------------------------
(* The steps of the code are steps of the store *)

(* A set writes one face of the one brush that the revision belongs to. *)
LEMMA WrittenNow ==
    ASSUME StoreInv, StoreInv', NEW n \in Newest, NEW k \in Ids,
           NEW w \in Faces \cup {NoFace}, Set(n, k, w), defect' = "none"
    PROVE  Store!StoreNext
<1>1. /\ n \in Refs /\ Allocated(n) /\ IsHead(n) /\ Transacting
      /\ UNCHANGED <<headVersion, currVersion>>
      /\ Latest = currVersion /\ currVersion \in Nat
      /\ ZoneInv /\ RevisionIntegrity /\ Listed /\ headVersion < currVersion
      /\ knots[n].version <= currVersion /\ headVersion \in Nat
      /\ \A s \in Refs : knots[s].version \in Nat
  BY SetHappens, StoreFacts
<1>2. SetOnly(n, k, w)
  BY SetTells
<1>3. PICK c \in Nat : c = currVersion
  BY <1>1
<1>4. Revise(n, c) = n /\ n # BadRef
  BY <1>1, <1>3, HeadFindsItself, BadIsNone
<1>5. PICK r \in Refs : /\ IsFirst(r) /\ knots[r].version <= knots[n].version
                       /\ \A v \in Int : Revise(r, v) = Revise(n, v)
  BY <1>1, FirstExists
<1>6. IsRoot(r) /\ knots[r].version <= c /\ Allocated(r) /\ Revise(r, c) = n
  BY <1>1, <1>3, <1>4, <1>5 DEF IsRoot, IsFirst
<1>7. ASSUME NEW q \in Refs, NEW v \in Nat, v <= c, q # r \/ v # c
      PROVE  Held(q, v)' = Held(q, v)
  <2>1. CASE ~IsRoot(q)
    BY <1>2, <2>1 DEF SetOnly, Held
  <2>2. CASE IsRoot(q) /\ ~(knots[q].version <= v)
    <3>1. knots'[q].version = knots[q].version
      BY <1>2, <2>2 DEF SetOnly, IsRoot
    <3> QED
      BY <2>2, <3>1 DEF Held
  <2>3. CASE IsRoot(q) /\ knots[q].version <= v
    <3>1. Allocated(q) /\ knots'[q].version = knots[q].version /\ IsRoot(q)'
      BY <1>2, <2>3 DEF SetOnly, IsRoot
    <3>2. Revise(q, v) # BadRef
      BY <2>3, <3>1, RevisedIs
    <3>3. ~(v = c /\ Revise(q, v) = n)
      <4> SUFFICES ASSUME v = c, Revise(q, c) = n PROVE FALSE
        OBVIOUS
      <4>1. IsFirst(q)
        BY <2>3 DEF IsRoot, IsFirst
      <4> QED
        BY <1>1, <1>4, <1>5, <1>6, <1>7, <4>1, FirstIsOne
    <3>4. \A l \in Ids : Reads(q, v, l)' = Reads(q, v, l)
      BY <1>2, <1>3, <1>7, <3>1, <3>2, <3>3 DEF SetOnly
    <3> QED
      BY <2>3, <3>1, <3>4 DEF Held
  <2> QED
    BY <2>1, <2>2, <2>3
<1>8. Held(r, c)' = [Held(r, c) EXCEPT ![k] = w]
  <2>1. IsRoot(r)' /\ knots'[r].version = knots[r].version
    BY <1>2, <1>6 DEF SetOnly
  <2>2. \A l \in Ids : Reads(r, c, l)' = IF l = k THEN w ELSE Reads(r, c, l)
    <3>1. Revise(r, c) # BadRef
      BY <1>4, <1>6
    <3> QED
      BY <1>2, <1>3, <1>6, <3>1 DEF SetOnly
  <2>3. Held(r, c) = [l \in Ids |-> Reads(r, c, l)]
    BY <1>6 DEF Held
  <2>4. Held(r, c)' = [l \in Ids |-> Reads(r, c, l)']
    BY <1>6, <2>1 DEF Held
  <2> QED
    BY <2>2, <2>3, <2>4
<1>9. Held(r, c) # Absent /\ Held(r, c)' # Absent
  <2>1. Held(r, c) \in [Ids -> Faces \cup {NoFace}] /\ Held(r, c) # Absent
    BY <1>6, HeldTyped
  <2>2. [Held(r, c) EXCEPT ![k] = w] \in [Ids -> Faces \cup {NoFace}]
    BY <2>1
  <2>3. Held(r, c)' # Absent
    BY <1>8, <2>2, AbsentAssumption DEF AbsentAssumption
  <2> QED
    BY <2>1, <2>3
<1>10. Store!Written(Held(r, c), Held(r, c)')
  BY <1>8, <1>9 DEF Store!Written
<1>11. /\ \A q \in Refs, v \in Nat : q # r /\ v <= Latest => Held(q, v)' = Held(q, v)
       /\ \A v \in Nat : v <= headVersion => Held(r, v)' = Held(r, v)
  <2>1. \A v \in Nat : v <= headVersion => v <= c /\ v # c
    BY <1>1, <1>3
  <2> QED
    BY <1>1, <1>3, <1>7, <2>1
<1> QED
  BY <1>1, <1>3, <1>10, <1>11, OneChanges

(* An element that comes into use is a brush of its own, from the open version
   on. *)
LEMMA PlacedReads ==
    ASSUME StoreInv, StoreInv', NEW new \in Refs, RefAlloc(Brush, EditBSize[Brush], new),
           NEW s, brushes' = [brushes EXCEPT ![new] = s]
    PROVE  /\ Transacting /\ UNCHANGED <<headVersion, currVersion>>
           /\ \A r \in Refs, v \in Nat : r # new /\ v <= Latest => Held(r, v)' = Held(r, v)
           /\ \A v \in Nat : v <= headVersion => Held(new, v)' = Held(new, v)
           /\ \A v \in Nat : v = Latest =>
                /\ Held(new, v) = Absent
                /\ Held(new, v)' = Shown(s, v)
<1>1. /\ AllocPlace(Brush, EditBSize[Brush], new) /\ Placed(new) /\ Transacting
      /\ UNCHANGED <<headVersion, currVersion>>
  BY DEF RefAlloc, Placed, AllocPlace
<1>2. /\ ZoneInv /\ ZoneInv' /\ RevisionIntegrity
      /\ Latest = currVersion /\ currVersion = headVersion + 1 /\ headVersion \in Nat
  BY <1>1, StoreFacts DEF StoreInv, BrushInv
<1>3. /\ \A r \in Refs : Allocated(r)' <=> Allocated(r) \/ r = new
      /\ \A r \in Refs : r # new => knots'[r] = knots[r]
      /\ knots'[new].version = currVersion
      /\ knots'[new].prev = BadRef /\ knots'[new].next = BadRef
  BY <1>1, <1>2, BrushSizes, PlacedKnots
<1>4. ~Allocated(new)
  BY <1>1, <1>2, BrushSizes, AllocFindsFree
<1>5. \A q \in Refs : brushes'[q] = IF q = new THEN s ELSE brushes[q]
  BY DEF StoreInv, BrushInv
<1>6. ASSUME NEW r \in Refs, NEW v \in Nat, r # new PROVE Held(r, v)' = Held(r, v)
  <2>1. knots'[r] = knots[r] /\ (IsRoot(r)' <=> IsRoot(r))
    BY <1>3, <1>6 DEF IsRoot
  <2>2. CASE ~(IsRoot(r) /\ knots[r].version <= v)
    BY <2>1, <2>2 DEF Held
  <2>3. CASE IsRoot(r) /\ knots[r].version <= v
    <3>1. Allocated(r) /\ v \in Int
      BY <2>3 DEF IsRoot
    <3>2. PICK q : q = Revise(r, v)
      OBVIOUS
    <3>3. q \in Refs /\ Allocated(q)
      BY <2>3, <3>1, <3>2, RevisedIs
    <3>4. Revise(r, v)' = q
      <4>1. \A t \in Refs : Allocated(t) => Allocated(t)' /\ knots'[t] = knots[t]
        BY <1>3, <1>4
      <4> QED
        BY <1>2, <3>1, <3>2, <4>1, ReviseStays
    <3>5. brushes'[q] = brushes[q]
      BY <1>4, <1>5, <3>3
    <3>6. \A k \in Ids : Reads(r, v, k)' = Reads(r, v, k)
      BY <3>2, <3>4, <3>5, ReadsNewly DEF Reads
    <3> QED
      BY <2>1, <2>3, <3>6 DEF Held
  <2> QED
    BY <2>2, <2>3
<1>7. ASSUME NEW v \in Nat PROVE Held(new, v) = Absent
  BY <1>4 DEF Held, IsRoot
<1>8. ASSUME NEW v \in Nat, v <= headVersion PROVE Held(new, v)' = Absent
  <2>1. ~(knots'[new].version <= v)
    BY <1>2, <1>3, <1>8
  <2> QED
    BY <2>1 DEF Held
<1>9. ASSUME NEW v \in Nat, v = Latest
      PROVE  Held(new, v)' = Shown(s, v)
  <2>1. IsRoot(new)' /\ knots'[new].version = v
    BY <1>2, <1>3, <1>9 DEF IsRoot
  <2>2. Revise(new, v)' = new
    <3>1. Allocated(new)' /\ ~(v > v) /\ ~(v < v)
      BY <1>3
    <3> QED
      BY <2>1, <3>1 DEF Revise
  <2>3. \A k \in Ids : Reads(new, v, k)' = Stored(s, k, v)
    BY <1>5, <2>2, ReadsNewly
  <2>4. Held(new, v)' = [k \in Ids |-> Reads(new, v, k)']
    BY <2>1 DEF Held
  <2> QED
    BY <2>3, <2>4 DEF Shown
<1> QED
  BY <1>1, <1>6, <1>7, <1>8, <1>9

LEMMA CreatedNow ==
    ASSUME StoreInv, StoreInv', NEW new \in Refs, BrushAlloc(new)
    PROVE  Store!StoreNext
<1>1. RefAlloc(Brush, EditBSize[Brush], new) /\ brushes' = [brushes EXCEPT ![new] = <<>>]
  BY DEF BrushAlloc
<1>2. PICK w \in Nat : w = Latest
  BY StoreFacts
<1>3. /\ Held(new, w) = Absent
      /\ Held(new, w)' = Shown(<<>>, w)
  BY <1>1, <1>2, PlacedReads
<1>4. Store!Created(Held(new, w), Held(new, w)')
  BY <1>3, EmptyStores DEF Store!Created, Store!Empty, Shown
<1> QED
  BY <1>1, <1>2, <1>4, PlacedReads, OneChanges

(* The brush that is copied has been of the version it is read in. *)
LEMMA CopiedNow ==
    ASSUME StoreInv, StoreInv', NEW r \in Refs, NEW v \in (1 .. currVersion) \cup {VersionHead},
           BrushDuplicate(r, v), defect' = "none"
    PROVE  Store!StoreNext
<1>1. PICK n \in {Revise(r, v)} :
        /\ IsBrush(n)
        /\ \E new \in Refs :
             /\ RefAlloc(Brush, EditBSize[Brush], new)
             /\ \E copy \in Deflations(brushes[n], AtVersion(v)) :
                  /\ brushes' = [brushes EXCEPT ![new] = copy]
                  /\ ~(v = VersionHead /\ Flat(n)) /\ Len(copy) # IntBits
  BY DEF BrushDuplicate
<1>2. PICK new \in Refs :
        /\ RefAlloc(Brush, EditBSize[Brush], new)
        /\ \E copy \in Deflations(brushes[n], AtVersion(v)) :
             /\ brushes' = [brushes EXCEPT ![new] = copy]
             /\ ~(v = VersionHead /\ Flat(n)) /\ Len(copy) # IntBits
  BY <1>1
<1>3. PICK copy \in Deflations(brushes[n], AtVersion(v)) :
        /\ brushes' = [brushes EXCEPT ![new] = copy]
        /\ ~(v = VersionHead /\ Flat(n)) /\ Len(copy) # IntBits
  BY <1>2
<1>4. PICK u : u = AtVersion(v)
  OBVIOUS
<1>5. PICK c \in Nat : c = Latest
  BY StoreFacts
<1>6. /\ Transacting /\ ZoneInv /\ RevisionIntegrity /\ Listed
      /\ currVersion = c /\ c = headVersion + 1 /\ headVersion \in Nat
      /\ c < VersionHead /\ VersionHead \in Nat
      /\ n = Revise(r, v) /\ n \in Refs /\ Allocated(n) /\ n # BadRef
      /\ \A s \in Refs : knots[s].version \in Nat /\ knots[s].version <= c
      /\ knots[n].version # 0 /\ Orderly(brushes[n], c) /\ Masked(brushes[n]) /\ v \in Int
  BY <1>1, <1>5, StoreFacts, BadIsNone DEF BrushDuplicate, IsBrush, Allocated
<1>7. Allocated(r)
  BY <1>6 DEF Revise
<1>8. u \in Nat /\ u <= c /\ Revise(n, u) = n /\ knots[n].version <= u
  <2>1. CASE v = VersionHead
    <3>1. u = headVersion /\ IsHead(n)
      BY <1>4, <1>6, <1>7, <2>1, NewestIsHead DEF AtVersion
    <3>2. knots[n].version <= u
      BY <1>3, <1>6, <2>1, <3>1 DEF Flat
    <3>3. u \in Nat /\ u \in Int /\ u <= c
      BY <1>6, <3>1
    <3> QED
      BY <1>6, <3>1, <3>2, <3>3, HeadFindsItself
  <2>2. CASE v # VersionHead
    <3>1. u = v /\ v \in Nat /\ v <= c
      BY <1>4, <1>6, <2>2 DEF AtVersion
    <3>2. Revise(n, v) = n
      BY <1>6, <1>7, FoundAgain
    <3>3. knots[n].version <= v
      BY <1>6, <1>7, RevisedIs
    <3> QED
      BY <3>1, <3>2, <3>3
  <2> QED
    BY <2>1, <2>2
<1>9. PICK q \in Refs : /\ IsFirst(q) /\ knots[q].version <= knots[n].version
                       /\ \A x \in Int : Revise(q, x) = Revise(n, x)
  BY <1>6, FirstExists
<1>10. IsRoot(q) /\ knots[q].version <= u /\ Revise(q, u) = n
  BY <1>6, <1>8, <1>9 DEF IsRoot, IsFirst
<1>11. Held(q, u) = Shown(brushes[n], u)
  BY <1>10 DEF Held, Reads, Shown
<1>12. copy \in Deflations(brushes[n], u) /\ Len(copy) < IntBits
  <2>1. copy \in Deflations(brushes[n], u)
    BY <1>3, <1>4
  <2>2. Len(copy) \in Nat /\ Len(copy) <= BrushLoad
    BY <1>6, <2>1, DeflatedIs, ListFields
  <2> QED
    BY <1>3, <2>1, <2>2, LoadTyped
<1>13. \A k \in Ids : Stored(copy, k, c) = Stored(brushes[n], k, u)
  <2>1. c \in Int /\ c <= c
    OBVIOUS
  <2> QED
    BY <1>6, <1>12, <2>1, DeflatedStores
<1>14. /\ Held(new, c) = Absent
       /\ Held(new, c)' = Shown(copy, c)
  <2>1. \A x \in Nat : x = Latest =>
          /\ Held(new, x) = Absent
          /\ Held(new, x)' = Shown(copy, x)
    <3>1. RefAlloc(Brush, EditBSize[Brush], new)
      BY <1>2
    <3>2. brushes' = [brushes EXCEPT ![new] = copy]
      BY <1>3
    <3> QED
      BY <3>1, <3>2, PlacedReads
  <2> QED
    BY <1>5, <2>1
<1>15. Held(new, c)' = Held(q, u)
  BY <1>11, <1>13, <1>14 DEF Shown
<1>16. Held(new, c)' # Absent
  <2>1. Held(q, u) # Absent
    BY <1>8, <1>10, HeldTyped
  <2> QED
    BY <1>15, <2>1
<1>17. u = c \/ u \in 1 .. headVersion
  BY <1>6, <1>8
<1>18. \E m \in Refs, x \in Nat : (x = c \/ x \in 1 .. headVersion) /\ Held(new, c)' = Held(m, x)
  BY <1>8, <1>15, <1>17
<1> QED
  BY <1>2, <1>3, <1>5, <1>14, <1>16, <1>18, PlacedReads, OneChanges

(* What is given back is as if it had never been given out. *)
LEMMA RefusedNow ==
    ASSUME StoreInv, StoreInv', NEW n, SetTooMany(n)
    PROVE  UNCHANGED Store!storeVars
<1>1. PICK new \in Refs : Spilling(n, new)
  BY DEF SetTooMany
<1>2. /\ AllocPlace(Brush, EditBSize[Brush], new) /\ knots' = knots /\ brushes' = brushes
      /\ UNCHANGED <<headVersion, currVersion>>
  BY <1>1 DEF SetTooMany, Spilling
<1>3. ZoneInv /\ ZoneInv' /\ RevisionIntegrity
  BY StoreFacts DEF StoreInv, BrushInv
<1>4. \A s \in Refs : Allocated(s)' <=> Allocated(s)
  BY <1>2, <1>3, BrushSizes, PlacedKnots
<1>5. ASSUME NEW r \in Refs, NEW v \in Nat PROVE Held(r, v)' = Held(r, v)
  <2>1. IsRoot(r)' <=> IsRoot(r)
    BY <1>2, <1>4 DEF IsRoot
  <2>2. CASE ~IsRoot(r)
    BY <2>1, <2>2 DEF Held
  <2>3. CASE IsRoot(r)
    <3>1. Allocated(r) /\ v \in Int
      BY <2>3 DEF IsRoot
    <3>2. PICK q : q = Revise(r, v)
      OBVIOUS
    <3>3. Revise(r, v)' = q
      BY <1>2, <1>3, <1>4, <3>1, <3>2, ReviseStays
    <3>4. \A k \in Ids : Reads(r, v, k)' = Reads(r, v, k)
      BY <1>2, <3>2, <3>3, ReadsNewly DEF Reads
    <3> QED
      BY <1>2, <2>1, <2>3, <3>4 DEF Held
  <2> QED
    BY <2>2, <2>3
<1> QED
  BY <1>2, <1>5, StoreStutters

(* Nothing happens to knots and brushes. *)
LEMMA SameHeld ==
    ASSUME StoreInv, StoreInv', UNCHANGED <<knots, pages, brushes>>,
           NEW r \in Refs, NEW v \in Nat
    PROVE  Held(r, v)' = Held(r, v)
<1>1. \A s \in Refs : (Allocated(s)' <=> Allocated(s)) /\ (IsRoot(s)' <=> IsRoot(s))
  BY DEF Allocated, PageOf, IsRoot
<1>2. CASE ~IsRoot(r)
  BY <1>1, <1>2 DEF Held
<1>3. CASE IsRoot(r)
  <2>1. Allocated(r) /\ v \in Int /\ ZoneInv /\ ZoneInv' /\ RevisionIntegrity
    BY <1>3, StoreFacts DEF IsRoot, StoreInv, BrushInv
  <2>2. PICK q : q = Revise(r, v)
    OBVIOUS
  <2>3. Revise(r, v)' = q
    BY <1>1, <2>1, <2>2, ReviseStays
  <2>4. \A k \in Ids : Reads(r, v, k)' = Reads(r, v, k)
    BY <2>2, <2>3, ReadsNewly DEF Reads
  <2> QED
    BY <1>1, <1>3, <2>4 DEF Held
<1> QED
  BY <1>2, <1>3

(* Versions that nothing is newer than read alike. *)
LEMMA HeldLater ==
    ASSUME StoreInv, NEW r \in Refs, NEW v \in Nat, NEW w \in Nat, Latest <= v, v <= w
    PROVE  Held(r, v) = Held(r, w)
<1>1. /\ ZoneInv /\ RevisionIntegrity /\ Listed /\ Latest \in Nat
      /\ \A s \in Refs : knots[s].version \in Nat /\ knots[s].version <= Latest
  BY StoreFacts
<1>2. \A s \in Refs : knots[s].version <= v /\ knots[s].version <= w
  BY <1>1
<1>3. CASE ~IsRoot(r)
  BY <1>3 DEF Held
<1>4. CASE IsRoot(r)
  <2>1. Allocated(r) /\ v \in Int /\ w \in Int
    BY <1>4 DEF IsRoot
  <2>2. PICK q : q = Revise(r, v)
    OBVIOUS
  <2>3. q = Revise(r, w)
    BY <1>1, <1>2, <2>1, <2>2, NewestAgree
  <2>4. Orderly(brushes[q], Latest)
    BY <1>2, <2>1, <2>2, RevisedIs
  <2>5. Latest <= w
    BY <1>1
  <2>6. \A k : Stored(brushes[q], k, v) = Stored(brushes[q], k, w)
    BY <1>1, <2>1, <2>4, <2>5, LaterStored
  <2>7. \A k \in Ids : Reads(r, v, k) = Reads(r, w, k)
    BY <2>2, <2>3, <2>6 DEF Reads
  <2> QED
    BY <1>2, <1>4, <2>7 DEF Held
<1> QED
  BY <1>3, <1>4

LEMMA BeginNow ==
    ASSUME StoreInv, StoreInv', BeginTransaction
    PROVE  Store!StoreNext
<1>1. PICK h \in Nat : h = headVersion
  BY StoreFacts
<1>2. /\ ~Transacting /\ Transacting' /\ Latest = h /\ Latest' = h + 1
      /\ headVersion' = h /\ UNCHANGED <<pages, knots, brushes>>
  BY <1>1 DEF BeginTransaction, Begin, Transacting, Latest, VersionNone
<1>3. StoreIs /\ StoreIs' /\ h + 1 \in Nat
  BY StoreNow, StoreThen
<1>4. \A v \in Nat : Snap(v)' = Snap(v)
  BY <1>2, SameHeld DEF Snap
<1>5. Past' = Past
  <2>1. Past = [v \in 1 .. h |-> Snap(v)] /\ Past' = [v \in 1 .. h |-> Snap(v)']
    BY <1>1, <1>2, <1>3 DEF StoreIs
  <2> QED
    BY <1>4, <2>1
<1>6. Snap(h + 1) = Snap(h)
  <2>1. h <= h /\ h <= h + 1
    OBVIOUS
  <2>2. \A r \in Refs : Held(r, h) = Held(r, h + 1)
    BY <1>2, <1>3, <2>1, HeldLater
  <2> QED
    BY <2>2 DEF Snap
<1>7. Live' = Live
  <2>1. Live = Snap(h)
    BY <1>2, <1>3 DEF StoreIs
  <2>2. Live' = Snap(h + 1)'
    BY <1>2, <1>3 DEF StoreIs
  <2> QED
    BY <1>3, <1>4, <1>6, <2>1, <2>2
<1> QED
  BY <1>2, <1>5, <1>7 DEF Store!StoreNext, Store!BeginVersion, Live, Past, Transacting

(* A list of one more. *)
LEMMA OneMore ==
    ASSUME NEW h \in Nat
    PROVE  [v \in 1 .. h + 1 |-> Snap(v)] = Append([v \in 1 .. h |-> Snap(v)], Snap(h + 1))
<1> DEFINE S == {Snap(v) : v \in Nat}
           s == [v \in 1 .. h |-> Snap(v)]
           t == [v \in 1 .. h + 1 |-> Snap(v)]
<1>1. s \in Seq(S) /\ Len(s) = h
  OBVIOUS
<1>2. t \in Seq(S) /\ Len(t) = h + 1
  OBVIOUS
<1>3. Snap(h + 1) \in S
  OBVIOUS
<1> HIDE DEF S
<1>4. /\ \A i \in 1 .. h : t[i] = s[i]
      /\ t[h + 1] = Snap(h + 1)
  OBVIOUS
<1> HIDE DEF s, t
<1>5. /\ Append(s, Snap(h + 1)) \in Seq(S) /\ Len(Append(s, Snap(h + 1))) = h + 1
      /\ \A i \in 1 .. h : Append(s, Snap(h + 1))[i] = s[i]
      /\ Append(s, Snap(h + 1))[h + 1] = Snap(h + 1)
  BY <1>1, <1>3, AppendProperties
<1>6. \A i \in 1 .. h + 1 : t[i] = Append(s, Snap(h + 1))[i]
  BY <1>4, <1>5
<1>7. t = Append(s, Snap(h + 1))
  BY <1>2, <1>5, <1>6, SeqEqual
<1> QED
  BY <1>7 DEF s, t

LEMMA EndNow ==
    ASSUME StoreInv, StoreInv', EndTransaction
    PROVE  Store!StoreNext
<1>1. PICK h \in Nat : h = headVersion
  BY StoreFacts
<1>2. /\ Transacting /\ ~Transacting' /\ Latest = h + 1 /\ Latest' = h + 1
      /\ headVersion' = h + 1 /\ UNCHANGED <<pages, knots, brushes>>
  <2>1. Transacting
    BY DEF EndTransaction, End
  <2>2. Latest = h + 1 /\ currVersion = h + 1
    BY <1>1, <2>1, StoreFacts
  <2> QED
    BY <1>1, <2>1, <2>2 DEF EndTransaction, End, Transacting, Latest
<1>3. StoreIs /\ StoreIs' /\ h + 1 \in Nat
  BY StoreNow, StoreThen
<1>4. \A v \in Nat : Snap(v)' = Snap(v)
  BY <1>2, SameHeld DEF Snap
<1>5. Live = Snap(h + 1) /\ Live' = Snap(h + 1)
  <2>1. Live = Snap(h + 1)
    BY <1>2, <1>3 DEF StoreIs
  <2>2. Live' = Snap(h + 1)'
    BY <1>2, <1>3 DEF StoreIs
  <2> QED
    BY <1>3, <1>4, <2>1, <2>2
<1>6. Past' = Append(Past, Live)
  <2>1. Past = [v \in 1 .. h |-> Snap(v)]
    BY <1>1, <1>3 DEF StoreIs
  <2>2. Past' = [v \in 1 .. h + 1 |-> Snap(v)']
    BY <1>2, <1>3 DEF StoreIs
  <2>3. Past' = [v \in 1 .. h + 1 |-> Snap(v)]
    BY <1>4, <2>2
  <2> QED
    BY <1>5, <2>1, <2>3, OneMore
<1> QED
  BY <1>2, <1>5, <1>6 DEF Store!StoreNext, Store!EndVersion, Live, Past, Transacting

LEMMA AbstractInit == Init => Store!StoreInit
<1> SUFFICES ASSUME Init PROVE Store!StoreInit
  OBVIOUS
<1>1. /\ headVersion = 0 /\ ~Transacting /\ \A r \in Refs : ~IsRoot(r)
  BY DEF Init, ZoneInit, IsRoot, Allocated, Transacting, FreeKnot, VersionNone
<1>2. Live = [r \in Refs |-> Absent]
  BY <1>1 DEF Live, Contents
<1>3. Past = <<>>
  BY <1>1 DEF Past
<1> QED
  BY <1>1, <1>2, <1>3 DEF Store!StoreInit, Live, Past, Transacting

LEMMA DefectsStay ==
    ASSUME [Next]_vars, defect' = "none"
    PROVE  defect = "none"
BY DEF Next, vars, BeginTransaction, EndTransaction, BrushAlloc, Set, SetAppend,
       SetSpillKnown, SetSpillNew, SetTooMany, BrushDuplicate

LEMMA AbstractStep ==
    ASSUME StoreInv, StoreInv', [Next]_vars, defect' = "none"
    PROVE  Store!StoreNext \/ UNCHANGED Store!storeVars
<1>1. CASE UNCHANGED vars
  <2>1. UNCHANGED <<headVersion, currVersion, knots, pages, brushes>>
    BY <1>1 DEF vars
  <2>2. \A r \in Refs, v \in Nat : v <= Latest => Held(r, v)' = Held(r, v)
    BY <2>1, SameHeld
  <2> QED
    BY <2>1, <2>2, StoreStutters
<1>2. CASE BeginTransaction
  BY <1>2, BeginNow
<1>3. CASE EndTransaction
  BY <1>3, EndNow
<1>4. ASSUME NEW new \in Refs, BrushAlloc(new) PROVE Store!StoreNext
  BY <1>4, CreatedNow
<1>5. ASSUME NEW n \in Newest, NEW k \in Ids, NEW w \in Faces \cup {NoFace}, Set(n, k, w)
      PROVE  Store!StoreNext
  BY <1>5, WrittenNow
<1>6. ASSUME NEW n, SetTooMany(n) PROVE UNCHANGED Store!storeVars
  BY <1>6, RefusedNow
<1>7. ASSUME NEW r \in Refs, NEW v \in (1 .. currVersion) \cup {VersionHead},
             BrushDuplicate(r, v)
      PROVE  Store!StoreNext
  BY <1>7, CopiedNow
<1> QED
  BY <1>1, <1>2, <1>3, <1>4, <1>5, <1>6, <1>7 DEF Next

LEMMA StoreHolds == Spec => [](defect = "none" => StoreInv)
BY ReachHolds, PTL DEF StoreInv

(* For any ids, faces, brushes and modifiers per brush: up to the first defect
   the brushes are the store that the fat model promises.  fm_brushSet changes
   one face of one brush as the open transaction sees it, whether it extends
   the brush or replaces a full one by a revision, fm_end keeps what was seen
   as the next version, and no call changes what fm_brushGet reads in a
   version that was kept. *)
THEOREM BrushesAreVersioned == Spec => Versioned
<1>1. (defect = "none" => StoreInv) /\ (defect = "none" => StoreInv)' /\ [Next]_vars =>
        [defect' = "none" => Store!StoreNext \/ UNCHANGED Store!storeVars]_vars
  BY DefectsStay, AbstractStep
<1> QED
  BY <1>1, AbstractInit, StoreHolds, PTL DEF Spec, Versioned

(* fm_brushGet of the revision that fm_brushSet went on with reads, as of the
   open version, the face that was set, and of every other id the face that
   it read before, whether the brush was full or not. *)
THEOREM SetsAreRead == Spec => SetIsRead
<1> DEFINE Read ==
      \A n \in Newest, i \in Ids, f \in Faces \cup {NoFace} :
          Set(n, i, f) /\ defect' = "none" =>
             \A k \in Ids :
                BrushGet(n, currVersion, k)' =
                    IF k = i THEN f ELSE BrushGet(n, currVersion, k)
<1>1. ASSUME StoreInv, StoreInv', NEW n \in Newest, NEW i \in Ids,
             NEW f \in Faces \cup {NoFace}, Set(n, i, f), defect' = "none", NEW k \in Ids
      PROVE  BrushGet(n, currVersion, k)' =
                 IF k = i THEN f ELSE BrushGet(n, currVersion, k)
  <2>1. /\ n \in Refs /\ Allocated(n) /\ IsHead(n) /\ Transacting /\ ZoneInv
        /\ UNCHANGED <<headVersion, currVersion>> /\ knots[n].version <= currVersion
        /\ Latest = currVersion /\ currVersion \in Nat /\ currVersion < VersionHead
    BY <1>1, SetHappens, StoreFacts
  <2>2. PICK c \in Nat : c = currVersion
    BY <2>1
  <2>3. c # VersionNone /\ c # VersionHead /\ c = currVersion' /\ c \in Int
    <3>1. c < VersionHead /\ VersionHead \in Nat
      BY <1>1, <2>1, <2>2, StoreFacts
    <3> QED
      BY <2>1, <2>2, <3>1 DEF Transacting
  <2>4. Revise(n, c) = n /\ n # BadRef
    BY <2>1, <2>2, <2>3, HeadFindsItself, BadIsNone
  <2>5. /\ Revise(n, c)' # BadRef
        /\ Reads(n, c, k)' = IF k = i THEN f ELSE Reads(n, c, k)
    <3>1. SetOnly(n, i, f)
      BY <1>1, SetTells
    <3> QED
      BY <1>1, <2>1, <2>2, <2>4, <3>1 DEF SetOnly
  <2>6. BrushGet(n, c, k) = Reads(n, c, k)
    BY <2>3, <2>4 DEF BrushGet, Reads, AtVersion
  <2>7. BrushGet(n, c, k)' = Reads(n, c, k)'
    BY <2>3, <2>5 DEF BrushGet, Reads, AtVersion
  <2>8. /\ BrushGet(n, currVersion, k) = BrushGet(n, c, k)
        /\ BrushGet(n, currVersion, k)' = BrushGet(n, c, k)'
    BY <2>2, <2>3 DEF BrushGet
  <2> QED
    BY <2>5, <2>6, <2>7, <2>8
<1>2. (defect = "none" => StoreInv) /\ (defect = "none" => StoreInv)' /\ [Next]_vars
        => [Read]_vars
  <2> SUFFICES ASSUME defect = "none" => StoreInv, (defect = "none" => StoreInv)', [Next]_vars
               PROVE  Read
    OBVIOUS
  <2> SUFFICES ASSUME NEW n \in Newest, NEW i \in Ids, NEW f \in Faces \cup {NoFace},
                      Set(n, i, f), defect' = "none", NEW k \in Ids
               PROVE  BrushGet(n, currVersion, k)' =
                          IF k = i THEN f ELSE BrushGet(n, currVersion, k)
    OBVIOUS
  <2>1. defect = "none"
    BY DefectsStay
  <2> QED
    BY <1>1, <2>1
<1> QED
  BY <1>2, StoreHolds, PTL DEF Spec, SetIsRead
=============================================================================
