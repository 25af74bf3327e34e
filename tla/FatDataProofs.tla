--------------------------- MODULE FatDataProofs ---------------------------
(***************************************************************************)
(* Arrays and strings in one zone, for any sizes, capacities, entries and  *)
(* texts: an array never outgrows the element it was given, whatever is    *)
(* allocated, given back and searched again, and its modifiers stay as the *)
(* code's own check wants them.                                            *)
(***************************************************************************)
EXTENDS FatData, FatZoneProofs

Arrays == [max : 0 .. MaxMods, stride : Strides \cup {0}, mods : Seq(ArrayMods)]

Fits(a, bsize) ==
    /\ Len(a.mods) <= a.max
    /\ ArrayElementBSize(a.max, a.stride) <= bsize \/ a = Blank

InVersions(ms, v) ==
    \A j \in 1 .. Len(ms) :
        ms[j].version <= v /\ (j > 1 => ms[j - 1].version <= ms[j].version)

InLast(ms) ==
    \A j \in 1 .. Len(ms) :
        (IF ms[j].index >= 0 THEN ms[j].index ELSE -ms[j].index - 1) <= ms[j].last

(* What is appended has the version of the transaction, so that no modifier  *)
(* may be of a later one.                                                    *)
DataInv ==
    /\ ZoneInv /\ ArrayTypeOK /\ StringTypeOK
    /\ \A r \in Refs : IsArray(r) => Fits(arrays[r], pages[PageOf(r)].editBSize)
    /\ \A r \in Refs : InVersions(arrays[r].mods, Latest)
    /\ defect = "none" => \A r \in Refs : InLast(arrays[r].mods)

-----------------------------------------------------------------------------
(* Arrays *)

LEMMA BlankTyped ==
    Blank \in Arrays /\ Blank.mods = <<>> /\ Len(Blank.mods) = 0 /\ Blank.max = 0
<1>1. <<>> \in Seq(ArrayMods) /\ Len(<<>>) = 0
  BY EmptySeq
<1>2. 0 \in 0 .. MaxMods
  BY ArrayAssumption DEF ArrayAssumption
<1> QED
  BY <1>1, <1>2 DEF Blank, Arrays

LEMMA ArraySized ==
    ASSUME NEW a \in Arrays
    PROVE  /\ a.max \in Nat /\ a.stride \in Nat /\ NeededBSize(a.max, a.stride) \in Nat
           /\ ArrayElementBSize(a.max, a.stride) \in Nat
           /\ ArrayElementBSize(a.max, a.stride) \in UInts
           /\ NeededBSize(a.max, a.stride) < UIntMod =>
                ArrayElementBSize(a.max, a.stride) = NeededBSize(a.max, a.stride)
<1>1. a.max \in 0 .. MaxMods /\ a.stride \in Strides \cup {0}
  BY DEF Arrays
<1>2. /\ MaxMods \in Nat /\ Strides \subseteq Nat
      /\ ArrayBSize \in Nat /\ ModBSize \in Nat
  BY ArrayAssumption DEF ArrayAssumption
<1>3. a.max \in Nat /\ a.stride \in Nat
  <2>1. a.max \in Nat
    BY <1>1, <1>2
  <2>2. a.stride \in Nat
    <3>1. CASE a.stride = 0
      BY <3>1
    <3>2. CASE a.stride \in Strides
      BY <1>2, <3>2
    <3> QED
      BY <1>1, <3>1, <3>2
  <2> QED
    BY <2>1, <2>2
<1>4. \A x, y \in Nat : x * y \in Nat
  OBVIOUS
<1>5. ModBSize * a.max \in Nat /\ a.stride * a.max \in Nat
  BY <1>2, <1>3, <1>4
<1>6. NeededBSize(a.max, a.stride) \in Nat
  BY <1>2, <1>5 DEF NeededBSize
<1> QED
  BY <1>3, <1>6, UIntOf DEF ArrayElementBSize

LEMMA UIntsAreNat == UInts \subseteq Nat
BY SizesAssumption DEF UInts, SizesAssumption

LEMMA VersionsAreNat == Versions \subseteq Nat
BY SizesAssumption DEF Versions, VersionNone, SizesAssumption

LEMMA LatestTyped ==
    ASSUME ZoneTypeOK
    PROVE  /\ headVersion \in Nat /\ currVersion \in Nat /\ Latest \in Nat
           /\ Transacting => Latest = currVersion /\ currVersion = headVersion + 1
<1>1. headVersion \in Nat /\ currVersion \in Nat
  BY VersionsAreNat DEF ZoneTypeOK
<1> QED
  BY <1>1 DEF Latest, Transacting, ZoneTypeOK

LEMMA LaterVersions ==
    ASSUME NEW ms \in Seq(ArrayMods), NEW v \in Nat, NEW w \in Nat, v <= w,
           InVersions(ms, v)
    PROVE  InVersions(ms, w)
<1>1. ASSUME NEW j \in 1 .. Len(ms) PROVE ms[j].version \in Nat
  <2>1. ms[j] \in ArrayMods
    BY ElementOfSeq
  <2> QED
    BY <2>1, VersionsAreNat DEF ArrayMods
<1> QED
  BY <1>1 DEF InVersions

LEMMA AppendedVersions ==
    ASSUME NEW ms \in Seq(ArrayMods), NEW v \in Nat, InVersions(ms, v),
           NEW m \in ArrayMods, m.version = v
    PROVE  InVersions(Append(ms, m), v)
<1> DEFINE s == Append(ms, m)
<1>1. /\ Len(ms) \in Nat /\ Len(s) = Len(ms) + 1
      /\ \A i \in 1 .. Len(ms) : s[i] = ms[i]
      /\ s[Len(ms) + 1] = m
  BY LenProperties, AppendProperties
<1> HIDE DEF s
<1>2. ASSUME NEW j \in 1 .. Len(s), j # Len(s)
      PROVE  s[j].version <= v /\ (j > 1 => s[j - 1].version <= s[j].version)
  <2>1. j \in 1 .. Len(ms) /\ (j > 1 => j - 1 \in 1 .. Len(ms))
    BY <1>1, <1>2
  <2> QED
    BY <1>1, <2>1 DEF InVersions
<1>3. s[Len(s)].version = v
  BY <1>1
<1>4. Len(s) > 1 => s[Len(s) - 1].version <= v
  <2>1. Len(s) > 1 => Len(s) - 1 \in 1 .. Len(ms) /\ Len(s) - 1 = Len(ms)
    BY <1>1
  <2> QED
    BY <1>1, <2>1 DEF InVersions
<1> QED
  BY <1>2, <1>3, <1>4 DEF InVersions, s

LEMMA AppendedLast ==
    ASSUME NEW ms \in Seq(ArrayMods), InLast(ms), NEW m \in ArrayMods,
           (IF m.index >= 0 THEN m.index ELSE -m.index - 1) <= m.last
    PROVE  InLast(Append(ms, m))
<1> DEFINE s == Append(ms, m)
<1>1. /\ Len(ms) \in Nat /\ Len(s) = Len(ms) + 1
      /\ \A i \in 1 .. Len(ms) : s[i] = ms[i]
      /\ s[Len(ms) + 1] = m
  BY LenProperties, AppendProperties
<1> HIDE DEF s
<1>2. ASSUME NEW j \in 1 .. Len(s)
      PROVE  (IF s[j].index >= 0 THEN s[j].index ELSE -s[j].index - 1) <= s[j].last
  <2>1. CASE j = Len(ms) + 1
    BY <1>1, <2>1
  <2>2. CASE j # Len(ms) + 1
    <3>1. j \in 1 .. Len(ms)
      BY <1>1, <2>2
    <3> QED
      BY <1>1, <3>1 DEF InLast
  <2> QED
    BY <2>1, <2>2
<1> QED
  BY <1>2 DEF InLast, s

LEMMA MaxOfTwo ==
    ASSUME NEW a \in Int, NEW b \in Int
    PROVE  Max({a, b}) \in {a, b} /\ Max({a, b}) >= a /\ Max({a, b}) >= b
<1>1. \E x \in {a, b} : \A y \in {a, b} : x >= y
  <2>1. CASE a >= b
    BY <2>1
  <2>2. CASE b >= a
    BY <2>2
  <2> QED
    BY <2>1, <2>2
<1> QED
  BY <1>1 DEF Max

(* An index up to MaxInt is kept as it is, and taken for nothing else when   *)
(* it is unset.                                                              *)
LEMMA CodesTyped ==
    ASSUME NEW i \in Indices
    PROVE  /\ i \in Nat /\ Signed(i) \in Ints /\ UnsetCode(i) \in Ints
           /\ ~Wide(i) => Signed(i) = i /\ UnsetCode(i) = -i - 1
BY ArrayAssumption DEF ArrayAssumption, Indices, Ints, Signed, UnsetCode, Wide

LEMMA LastSetTyped ==
    ASSUME NEW n \in Refs, ArrayTypeOK
    PROVE  LastSet(n) \in Indices
<1>1. arrays[n].mods \in Seq(ArrayMods)
  BY DEF ArrayTypeOK
<1>2. CASE arrays[n].mods = <<>>
  BY <1>2, ArrayAssumption DEF LastSet, Indices, ArrayAssumption
<1>3. CASE arrays[n].mods # <<>>
  <2> DEFINE ms == arrays[n].mods
  <2>1. Len(ms) \in 1 .. Len(ms)
    BY <1>1, <1>3, EmptySeq, LenProperties
  <2>2. ms[Len(ms)] \in ArrayMods
    BY <1>1, <2>1, ElementOfSeq
  <2> QED
    BY <1>3, <2>2 DEF LastSet, Last, ArrayMods
<1> QED
  BY <1>2, <1>3

-----------------------------------------------------------------------------
(* Steps *)

LEMMA DataInitInv == DataInit => DataInv
<1> SUFFICES ASSUME DataInit PROVE DataInv
  OBVIOUS
<1>1. ZoneInv
  BY ZoneInitInv DEF DataInit
<1>2. \A r \in Refs : arrays[r] = Blank
  BY DEF DataInit, ArrayInit
<1>3. arrays \in [Refs -> Arrays]
  BY BlankTyped DEF DataInit, ArrayInit
<1>4. \A r \in Refs : InVersions(arrays[r].mods, Latest) /\ InLast(arrays[r].mods)
  BY <1>2, BlankTyped DEF InVersions, InLast
<1>5. \A r \in Refs : ~IsArray(r)
  BY DEF DataInit, ZoneInit, IsArray, Allocated, FreeKnot
<1>6. StringTypeOK
  BY DEF DataInit, StringInit, StringTypeOK
<1> QED
  BY <1>1, <1>3, <1>4, <1>5, <1>6 DEF DataInv, ArrayTypeOK, Arrays, DataInit, ArrayInit

(* The versions of the zone stay, and one reference gets another array, or   *)
(* none does.                                                                *)
LEMMA OneArrayChanges ==
    ASSUME DataInv, ZoneInv', StringTypeOK', UNCHANGED <<headVersion, currVersion>>,
           NEW r \in Refs, NEW a \in Arrays, arrays' = [arrays EXCEPT ![r] = a],
           InVersions(a.mods, Latest), defect' \in {defect, "wide"},
           defect' = "none" => InLast(a.mods),
           \A q \in Refs : IsArray(q)' => Fits(arrays'[q], pages'[PageOf(q)].editBSize)
    PROVE  DataInv'
<1>1. Latest' = Latest
  BY DEF Latest, Transacting
<1>2. arrays' \in [Refs -> Arrays] /\ \A q \in Refs : arrays'[q] \in {arrays[q], a}
  BY DEF DataInv, ArrayTypeOK, Arrays
<1>3. \A q \in Refs : InVersions(arrays'[q].mods, Latest)
  BY <1>2 DEF DataInv
<1>4. defect' = "none" => \A q \in Refs : InLast(arrays'[q].mods)
  BY <1>2 DEF DataInv
<1>5. defect' \in {"none", "wide"}
  BY DEF DataInv, ArrayTypeOK
<1>6. \A q \in Refs : IsArray(q)' => Fits(arrays[q], pages[PageOf(q)].editBSize)'
  BY DEF Fits, PageOf, ArrayElementBSize, NeededBSize, Blank
<1> QED
  BY <1>1, <1>2, <1>3, <1>4, <1>5, <1>6 DEF DataInv, ArrayTypeOK, Arrays, PageOf

(* An element is placed: the others and their pages stay what they are. *)
LEMMA OthersPlaced ==
    ASSUME DataInv, NEW t \in Types, NEW size \in Nat, NEW new \in Refs,
           AllocPlace(t, size, new), NEW q \in Refs, q # new, knots'[q] = knots[q],
           IsArray(q)'
    PROVE  IsArray(q) /\ Fits(arrays[q], pages'[PageOf(q)].editBSize)
<1>1. /\ ZoneInv /\ Len(pages) \in Nat /\ PageOf(q) \in Nat \ {0}
  BY LenProperties, PageOfIsPositive DEF DataInv, ZoneInv, ZoneTypeOK
<1>2. knots[q].version # VersionNone /\ pages'[PageOf(q)].editType = Array
  BY DEF IsArray, Allocated, TypeOf, PageOf
<1>3. PageOf(q) <= Len(pages)
  BY <1>1, <1>2 DEF ZoneInv, BeyondUnused
<1>4. pages'[PageOf(q)] = pages[PageOf(q)]
  <2>1. \A i \in 1 .. Len(pages) : pages'[i] = pages[i]
    BY <1>1, AllocIsLargeEnough
  <2>2. PageOf(q) \in 1 .. Len(pages)
    BY <1>1, <1>3
  <2> QED
    BY <2>1, <2>2
<1>5. IsArray(q)
  BY <1>2, <1>3, <1>4 DEF IsArray, Allocated, TypeOf
<1> QED
  BY <1>4, <1>5 DEF DataInv

(* A modifier more in an array that has room. *)
LEMMA ExtendedKeepsInv ==
    ASSUME DataInv, NEW n \in Refs, IsArray(n), ~Full(n), Transacting,
           NEW index \in Ints, NEW last \in Indices, NEW w \in Data \cup {Unset},
           Extended(n, ArrayMod(index, last, w)), defect' \in {defect, "wide"},
           defect' = "none" => (IF index >= 0 THEN index ELSE -index - 1) <= last,
           UNCHANGED strings
    PROVE  DataInv'
<1> DEFINE m == ArrayMod(index, last, w)
           a == [arrays[n] EXCEPT !.mods = Append(@, m)]
<1>1. /\ ZoneInv /\ ZoneTypeOK /\ arrays[n] \in Arrays
      /\ Fits(arrays[n], pages[PageOf(n)].editBSize)
      /\ InVersions(arrays[n].mods, Latest) /\ Latest = currVersion /\ Latest \in Nat
  BY LatestTyped DEF DataInv, ZoneInv, ArrayTypeOK, Arrays
<1>2. /\ m \in ArrayMods /\ m.version = Latest /\ m.index = index /\ m.last = last
  BY <1>1 DEF ArrayMod, ArrayMods, ZoneTypeOK
<1> HIDE DEF m
<1>3. arrays[n].mods \in Seq(ArrayMods) /\ Len(arrays[n].mods) \in Nat
  BY <1>1, LenProperties DEF Arrays
<1>4. /\ Append(arrays[n].mods, m) \in Seq(ArrayMods)
      /\ Len(Append(arrays[n].mods, m)) = Len(arrays[n].mods) + 1
  BY <1>2, <1>3, AppendProperties
<1>5. /\ a \in Arrays /\ a.mods = Append(arrays[n].mods, m)
      /\ a.max = arrays[n].max /\ a.stride = arrays[n].stride
  BY <1>1, <1>4 DEF Arrays
<1>6. Len(arrays[n].mods) < arrays[n].max /\ arrays[n].max \in Nat
  BY <1>1, <1>3, ArrayAssumption DEF Full, Fits, Arrays, ArrayAssumption
<1>7. arrays[n] # Blank
  BY <1>3, <1>6, BlankTyped
<1>8. Fits(a, pages[PageOf(n)].editBSize)
  BY <1>1, <1>3, <1>4, <1>5, <1>6, <1>7 DEF Fits
<1>9. InVersions(a.mods, Latest)
  BY <1>1, <1>2, <1>3, <1>5, AppendedVersions
<1>10. defect' = "none" => InLast(a.mods)
  <2>1. defect' = "none" => InLast(arrays[n].mods)
    BY DEF DataInv
  <2> QED
    BY <1>2, <1>3, <1>5, <2>1, AppendedLast
<1>11. arrays' = [arrays EXCEPT ![n] = a] /\ UNCHANGED zoneVars
  BY DEF Extended, m
<1> HIDE DEF a
<1>12. ZoneInv' /\ StringTypeOK' /\ UNCHANGED <<headVersion, currVersion, pages>>
  BY <1>1, <1>11, ZoneStep DEF zoneVars, DataInv, StringTypeOK
<1>13. ASSUME NEW q \in Refs, IsArray(q)'
       PROVE  Fits(arrays'[q], pages'[PageOf(q)].editBSize)
  <2>1. IsArray(q) /\ UNCHANGED pages
    BY <1>11, <1>13 DEF IsArray, Allocated, TypeOf, PageOf, zoneVars
  <2>2. Fits(arrays[q], pages[PageOf(q)].editBSize)
    BY <2>1 DEF DataInv
  <2>3. arrays'[q] = IF q = n THEN a ELSE arrays[q]
    BY <1>11 DEF DataInv, ArrayTypeOK
  <2> QED
    BY <1>8, <2>1, <2>2, <2>3
<1> QED
  BY <1>5, <1>9, <1>10, <1>11, <1>12, <1>13, OneArrayChanges

(* An element is placed that is no array, or is an empty one. *)
LEMMA PlacedKeepsInv ==
    ASSUME DataInv, NEW t \in Types, NEW size \in Nat, NEW new \in Refs,
           RefAlloc(t, size, new), StringTypeOK', UNCHANGED defect,
           NEW a \in Arrays, a.mods = <<>>, arrays' = [arrays EXCEPT ![new] = a],
           t # Array \/ a = Blank \/
               (size \in UInts /\ ArrayElementBSize(a.max, a.stride) <= size)
    PROVE  DataInv'
<1>1. ZoneInv /\ ZoneTypeOK /\ knots \in [Refs -> Knots] /\ Len(a.mods) = 0
  BY EmptySeq DEF DataInv, ZoneInv, ZoneTypeOK
<1>2. /\ AllocPlace(t, size, new) /\ knots' = [knots EXCEPT ![new] = NewKnot]
      /\ UNCHANGED <<headVersion, currVersion>>
  BY DEF RefAlloc
<1>3. \A q \in Refs : q # new => knots'[q] = knots[q]
  BY <1>1, <1>2
<1>4. knots' \in [Refs -> Knots]
  BY <1>1, <1>2, NewKnotTyped
<1>5. ZoneInv'
  BY <1>1, <1>2, <1>3, <1>4, PlacingKeepsInv
<1>6. /\ pages'[PageOf(new)].editType = t
      /\ size \in UInts => pages'[PageOf(new)].editBSize >= size
  BY <1>1, <1>2, AllocIsLargeEnough
<1>7. ASSUME NEW q \in Refs, IsArray(q)'
      PROVE  Fits(arrays'[q], pages'[PageOf(q)].editBSize)
  <2>1. CASE q = new
    <3>1. arrays'[q] = a
      BY <2>1 DEF DataInv, ArrayTypeOK
    <3>2. t = Array
      BY <1>6, <1>7, <2>1 DEF IsArray, TypeOf, PageOf
    <3>3. a.max \in Nat /\ ArrayElementBSize(a.max, a.stride) \in Nat
      BY ArraySized
    <3>5. PageOf(new) \in 1 .. Len(pages') /\ pages' \in Seq(PageRecords)
      <4>1. PageOf(new) <= Len(pages') /\ pages' \in Seq(PageRecords)
        BY <1>1, <1>2, AllocFindsFree
      <4> QED
        BY <4>1, PageOfIsPositive, LenProperties
    <3>6. pages'[PageOf(new)].editBSize \in Nat
      <4>1. pages'[PageOf(new)] \in PageRecords
        BY <3>5, ElementOfSeq
      <4> QED
        BY <4>1, UIntsAreNat DEF PageRecords
    <3> QED
      BY <1>1, <1>6, <2>1, <3>1, <3>2, <3>3, <3>6 DEF Fits
  <2>2. CASE q # new
    <3>1. arrays'[q] = arrays[q]
      BY <2>2 DEF DataInv, ArrayTypeOK
    <3> QED
      BY <1>2, <1>3, <1>7, <2>2, <3>1, OthersPlaced
  <2> QED
    BY <2>1, <2>2
<1>8. InVersions(a.mods, Latest) /\ InLast(a.mods)
  BY <1>1 DEF InVersions, InLast
<1> QED
  BY <1>2, <1>5, <1>7, <1>8, OneArrayChanges

LEMMA ArrayStep ==
    ASSUME DataInv, ArrayNext, UNCHANGED strings
    PROVE  DataInv'
<1>1. /\ ZoneInv /\ ZoneTypeOK /\ Array \in Types /\ StringTypeOK'
      /\ arrays \in [Refs -> Arrays]
  BY ArrayAssumption, SizesAssumption
     DEF DataInv, ZoneInv, StringTypeOK, ArrayTypeOK, Arrays, ArrayAssumption, SizesAssumption
<1>2. \A n : IsArray(n) => n \in Refs
  BY DEF IsArray, Allocated
<1>3. ASSUME NEW n \in Refs, IsArray(n) PROVE pages[PageOf(n)].editBSize \in Nat
  <2>1. PageOf(n) \in 1 .. Len(pages) /\ pages \in Seq(PageRecords)
    BY <1>1, <1>3, PageOfIsPositive, LenProperties
       DEF IsArray, Allocated, ZoneTypeOK, PageRecords
  <2>2. pages[PageOf(n)] \in PageRecords
    BY <2>1, ElementOfSeq
  <2> QED
    BY <2>2, UIntsAreNat DEF PageRecords
<1>4. ASSUME NEW max \in 1 .. MaxMods, NEW stride \in Strides, NEW new \in Refs,
             ArrayAlloc(max, stride, new)
      PROVE  DataInv'
  <2> DEFINE a == [max |-> max, stride |-> stride, mods |-> <<>>]
  <2>1. a \in Arrays /\ a.mods = <<>> /\ a.max = max /\ a.stride = stride
    <3>1. <<>> \in Seq(ArrayMods) /\ max \in 0 .. MaxMods
      BY EmptySeq, ArrayAssumption DEF ArrayAssumption
    <3> QED
      BY <3>1 DEF Arrays
  <2>2. arrays' = [arrays EXCEPT ![new] = a]
    BY <1>4 DEF ArrayAlloc
  <2> HIDE DEF a
  <2>3. ArrayElementBSize(max, stride) \in Nat /\ ArrayElementBSize(max, stride) \in UInts
    BY <2>1, ArraySized
  <2>4. RefAlloc(Array, ArrayElementBSize(max, stride), new) /\ UNCHANGED defect
    BY <1>4 DEF ArrayAlloc
  <2>5. ArrayElementBSize(a.max, a.stride) <= ArrayElementBSize(max, stride)
    BY <2>1, <2>3
  <2> QED
    BY <1>1, <2>1, <2>2, <2>3, <2>4, <2>5, PlacedKeepsInv
<1>5. ASSUME NEW r \in Refs, NEW new \in Refs, NEW v, ArrayDuplicate(r, v, new)
      PROVE  DataInv'
  <2>1. PICK n \in {Revise(r, v)} :
          IsArray(n) /\ RefAlloc(Array, pages[PageOf(n)].editBSize, new)
    BY <1>5 DEF ArrayDuplicate
  <2>2. arrays' = [arrays EXCEPT ![new] = Blank] /\ UNCHANGED defect
    BY <1>5 DEF ArrayDuplicate
  <2>3. pages[PageOf(n)].editBSize \in Nat
    BY <1>2, <1>3, <2>1
  <2> QED
    BY <1>1, <2>1, <2>2, <2>3, BlankTyped, PlacedKeepsInv
<1>6. ASSUME NEW n, NEW i \in Indices, NEW w \in Data, ArraySet(n, i, w) PROVE DataInv'
  <2>1. /\ Transacting /\ IsArray(n) /\ ~Full(n) /\ n \in Refs
        /\ Extended(n, ArrayMod(Signed(i), Max({LastSet(n), i}), w))
        /\ defect' = IF Wide(i) THEN "wide" ELSE defect
    BY <1>2, <1>6 DEF ArraySet
  <2>2. LastSet(n) \in Indices
    BY <2>1, LastSetTyped DEF DataInv
  <2>3. Max({LastSet(n), i}) \in Indices /\ Max({LastSet(n), i}) >= i
    <3>1. LastSet(n) \in Int /\ i \in Int
      BY <2>2, CodesTyped
    <3> QED
      BY <2>2, <3>1, MaxOfTwo
  <2>4. defect' = "none" => ~Wide(i)
    BY <2>1
  <2>5. defect' = "none" => (IF Signed(i) >= 0 THEN Signed(i) ELSE -Signed(i) - 1)
                              <= Max({LastSet(n), i})
    BY <2>3, <2>4, CodesTyped
  <2>6. Signed(i) \in Ints /\ w \in Data \cup {Unset} /\ defect' \in {defect, "wide"}
    BY <2>1, CodesTyped
  <2> QED
    BY <2>1, <2>3, <2>5, <2>6, ExtendedKeepsInv
<1>7. ASSUME NEW n, NEW i \in Indices, ArrayUnset(n, i) PROVE DataInv'
  <2>1. /\ Transacting /\ IsArray(n) /\ ~Full(n) /\ n \in Refs /\ i <= LastSet(n)
        /\ Extended(n, ArrayMod(UnsetCode(i), LastSet(n), Unset))
        /\ defect' = IF Wide(i) THEN "wide" ELSE defect
    BY <1>2, <1>7 DEF ArrayUnset
  <2>2. LastSet(n) \in Indices
    BY <2>1, LastSetTyped DEF DataInv
  <2>3. defect' = "none" => ~Wide(i)
    BY <2>1
  <2>4. defect' = "none" => (IF UnsetCode(i) >= 0 THEN UnsetCode(i) ELSE -UnsetCode(i) - 1)
                              <= LastSet(n)
    BY <2>1, <2>3, CodesTyped
  <2>5. UnsetCode(i) \in Ints /\ defect' \in {defect, "wide"}
    BY <2>1, CodesTyped
  <2> QED
    BY <2>1, <2>2, <2>4, <2>5, ExtendedKeepsInv
<1>8. ASSUME NEW n, ArrayRefuse(n) PROVE DataInv'
  <2>1. PICK new \in Refs :
          /\ AllocPlace(Array, pages[PageOf(n)].editBSize, new)
          /\ knots' = [knots EXCEPT ![new] = FreeKnot]
    BY <1>8 DEF ArrayRefuse
  <2>2. /\ IsArray(n) /\ n \in Refs /\ UNCHANGED <<headVersion, currVersion, arrays, defect>>
        /\ pages[PageOf(n)].editBSize \in Nat
    BY <1>2, <1>3, <1>8 DEF ArrayRefuse
  <2>3. /\ knots' \in [Refs -> Knots] /\ knots'[new] = FreeKnot
        /\ \A q \in Refs : q # new => knots'[q] = knots[q]
    <3>1. FreeKnot \in Knots /\ knots \in [Refs -> Knots]
      BY <1>1, SizesAssumption
         DEF FreeKnot, Knots, Versions, VersionNone, ZoneTypeOK, SizesAssumption
    <3> QED
      BY <2>1, <3>1
  <2>4. ZoneInv'
    BY <1>1, <2>1, <2>2, <2>3, PlacingKeepsInv
  <2>5. ASSUME NEW q \in Refs, IsArray(q)'
        PROVE  Fits(arrays'[q], pages'[PageOf(q)].editBSize)
    <3>1. q # new
      BY <2>3, <2>5 DEF IsArray, Allocated, FreeKnot
    <3> QED
      BY <1>1, <2>1, <2>2, <2>3, <2>5, <3>1, OthersPlaced
  <2>6. arrays' = [arrays EXCEPT ![new] = arrays[new]] /\ arrays[new] \in Arrays
    BY <1>1, <2>2
  <2>7. InVersions(arrays[new].mods, Latest) /\ (defect = "none" => InLast(arrays[new].mods))
    BY DEF DataInv
  <2> QED
    BY <1>1, <2>2, <2>4, <2>5, <2>6, <2>7, OneArrayChanges
<1> QED
  BY <1>4, <1>5, <1>6, <1>7, <1>8 DEF ArrayNext

LEMMA DataStep == DataInv /\ [DataNext]_dataVars => DataInv'
<1> SUFFICES ASSUME DataInv, [DataNext]_dataVars PROVE DataInv'
  OBVIOUS
<1>1. /\ ZoneInv /\ ZoneTypeOK /\ ArrayTypeOK /\ StringTypeOK
      /\ arrays \in [Refs -> Arrays] /\ knots \in [Refs -> Knots]
      /\ headVersion \in Nat /\ currVersion \in Nat /\ Latest \in Nat
  BY LatestTyped DEF DataInv, ZoneInv, ZoneTypeOK, ArrayTypeOK, Arrays
(* The versions of the zone go on; elements, knots and pages stay. *)
<1>2. ASSUME ZoneInv', UNCHANGED <<arrays, defect, strings, knots, pages>>,
             Latest' \in Nat, Latest <= Latest'
      PROVE  DataInv'
  <2>1. ASSUME NEW r \in Refs PROVE InVersions(arrays[r].mods, Latest')
    <3>1. arrays[r].mods \in Seq(ArrayMods) /\ InVersions(arrays[r].mods, Latest)
      BY <1>1 DEF DataInv, ArrayTypeOK
    <3> QED
      BY <1>1, <1>2, <3>1, LaterVersions
  <2>2. \A r \in Refs : IsArray(r)' => Fits(arrays[r], pages[PageOf(r)].editBSize)'
    BY <1>2 DEF DataInv, IsArray, Allocated, TypeOf, PageOf, Fits, ArrayElementBSize, Blank
  <2>3. defect' = "none" => \A r \in Refs : InLast(arrays[r].mods)'
    BY <1>2 DEF DataInv, InLast
  <2> QED
    BY <1>1, <1>2, <2>1, <2>2, <2>3
       DEF DataInv, ArrayTypeOK, StringTypeOK, InVersions, PageOf
<1>3. CASE UNCHANGED dataVars
  <2>1. UNCHANGED zoneVars /\ UNCHANGED <<arrays, defect, strings, knots, pages>>
    BY <1>3 DEF dataVars, arrayVars, zoneVars
  <2>2. ZoneInv' /\ Latest' = Latest
    BY <1>1, <2>1, ZoneStep DEF zoneVars, Latest, Transacting
  <2> QED
    BY <1>1, <1>2, <2>1, <2>2
<1>4. CASE Begin /\ UNCHANGED <<arrayVars, strings>>
  <2>1. ZoneInv' /\ Latest' = headVersion + 1 /\ Latest = headVersion
    BY <1>1, <1>4, ZoneStep DEF ZoneCall, Begin, Latest, Transacting, VersionNone
  <2>2. UNCHANGED <<arrays, defect, strings, knots, pages>>
    BY <1>4 DEF Begin, arrayVars
  <2> QED
    BY <1>1, <1>2, <2>1, <2>2
<1>5. CASE End /\ UNCHANGED <<arrayVars, strings>>
  <2>1. ZoneInv' /\ Latest' = currVersion /\ Latest = currVersion
    BY <1>1, <1>5, ZoneStep DEF ZoneCall, End, Latest, Transacting, VersionNone
  <2>2. UNCHANGED <<arrays, defect, strings, knots, pages>>
    BY <1>5 DEF End, arrayVars
  <2> QED
    BY <1>1, <1>2, <2>1, <2>2
<1>6. CASE ArrayNext /\ UNCHANGED strings
  BY <1>6, ArrayStep
<1>7. ASSUME NEW x \in Texts, NEW new \in Refs, StringAlloc(x, new), UNCHANGED arrayVars
      PROVE  DataInv'
  <2> DEFINE t == ClassOf[x]
  <2>1. t \in Types /\ t # Array /\ EditBSize[t] \in Nat
    BY StringAssumption, ArrayAssumption, SizesAssumption
       DEF StringAssumption, ArrayAssumption, SizesAssumption
  <2>2. RefAlloc(t, EditBSize[t], new) /\ strings' = [strings EXCEPT ![new] = x]
    BY <1>7 DEF StringAlloc
  <2> HIDE DEF t
  <2>3. StringTypeOK'
    BY <1>1, <2>2 DEF StringTypeOK
  <2>4. ZoneInv'
    BY <1>1, <2>1, <2>2, NewKnotTyped, PlacingKeepsInv DEF RefAlloc
  <2>5. UNCHANGED <<headVersion, currVersion, arrays, defect>>
    BY <1>7, <2>2 DEF RefAlloc, arrayVars
  <2>6. ASSUME NEW q \in Refs, IsArray(q)'
        PROVE  Fits(arrays'[q], pages'[PageOf(q)].editBSize)
    <3>1. AllocPlace(t, EditBSize[t], new) /\ knots' = [knots EXCEPT ![new] = NewKnot]
      BY <2>2 DEF RefAlloc
    <3>2. pages'[PageOf(new)].editType = t
      BY <1>1, <2>1, <3>1, AllocIsLargeEnough
    <3>3. q # new
      BY <2>1, <2>6, <3>2 DEF IsArray, TypeOf, PageOf
    <3>4. knots'[q] = knots[q]
      BY <1>1, <3>1, <3>3
    <3> QED
      BY <2>1, <2>5, <2>6, <3>1, <3>3, <3>4, OthersPlaced
  <2>7. arrays' = [arrays EXCEPT ![new] = arrays[new]] /\ arrays[new] \in Arrays
    BY <1>1, <2>5
  <2>8. InVersions(arrays[new].mods, Latest) /\ (defect = "none" => InLast(arrays[new].mods))
    BY DEF DataInv
  <2> QED
    BY <2>3, <2>4, <2>5, <2>6, <2>7, <2>8, OneArrayChanges
<1>8. ASSUME NEW r \in Refs, ElementDealloc(r) PROVE DataInv'
  <2>1. /\ RefDealloc(r) /\ UNCHANGED defect
        /\ arrays' = [arrays EXCEPT ![r] = Blank]
        /\ strings' = [strings EXCEPT ![r] = NoText]
    BY <1>8 DEF ElementDealloc
  <2>2. /\ UNCHANGED <<headVersion, currVersion, pages>>
        /\ knots' = [knots EXCEPT ![r].version = VersionNone]
    BY <2>1 DEF RefDealloc
  <2>3. ZoneInv' /\ StringTypeOK'
    BY <1>1, <2>1, ZoneStep DEF ZoneCall, StringTypeOK
  <2>4. ASSUME NEW q \in Refs, IsArray(q)'
        PROVE  Fits(arrays'[q], pages'[PageOf(q)].editBSize)
    <3>1. knots'[r].version = VersionNone
      BY <1>1, <2>2 DEF Knots
    <3>2. q # r
      BY <2>4, <3>1 DEF IsArray, Allocated
    <3>3. knots'[q] = knots[q] /\ arrays'[q] = arrays[q]
      BY <1>1, <2>1, <2>2, <3>2
    <3>4. IsArray(q)
      BY <2>2, <2>4, <3>3 DEF IsArray, Allocated, TypeOf, PageOf
    <3> QED
      BY <2>2, <3>3, <3>4 DEF DataInv
  <2>5. InVersions(Blank.mods, Latest) /\ InLast(Blank.mods)
    BY BlankTyped DEF InVersions, InLast
  <2> QED
    BY <2>1, <2>2, <2>3, <2>4, <2>5, BlankTyped, OneArrayChanges
<1>9. ASSUME NEW r \in Refs, RefSetLastAlloc(r), UNCHANGED <<arrayVars, strings>>
      PROVE  DataInv'
  <2>1. ZoneInv' /\ UNCHANGED <<headVersion, currVersion, arrays, defect, strings, knots, pages>>
    BY <1>1, <1>9, ZoneStep DEF ZoneCall, RefSetLastAlloc, arrayVars
  <2>2. Latest' = Latest
    BY <2>1 DEF Latest, Transacting
  <2> QED
    BY <1>1, <1>2, <2>1, <2>2
<1> QED
  BY <1>3, <1>4, <1>5, <1>6, <1>7, <1>8, <1>9 DEF DataNext, StringNext

LEMMA DataInvHolds == DataSpec => []DataInv
BY DataInitInv, DataStep, PTL DEF DataSpec

-----------------------------------------------------------------------------
(* How far an array goes *)

(* No revision follows an array or a string: those that are full are refused *)
(* and nobody else links them.                                               *)
Unlinked == \A r \in Refs : knots[r].prev = BadRef /\ knots[r].next = BadRef

(* The last index of a modifier was set by it or by one before it, and none  *)
(* of these set a greater one.                                               *)
Exact(ms) ==
    \A j \in 1 .. Len(ms) :
        /\ ms[j].last \in 0 .. MaxInt
        /\ \A i \in 1 .. j : ms[i].index <= ms[j].last
        /\ \E i \in 1 .. j : ms[i].index = ms[j].last /\ ms[i].version <= ms[j].version

RangeInv ==
    /\ Unlinked
    /\ defect = "none" => \A r \in Refs : Exact(arrays[r].mods)

LEMMA AppendedExact ==
    ASSUME NEW ms \in Seq(ArrayMods), Exact(ms), NEW m \in ArrayMods,
           InVersions(ms, m.version), m.last \in 0 .. MaxInt, m.index <= m.last,
           Len(ms) = 0 => m.index = m.last,
           Len(ms) # 0 => /\ ms[Len(ms)].last <= m.last
                          /\ m.last \in {m.index, ms[Len(ms)].last}
    PROVE  Exact(Append(ms, m))
<1> DEFINE s == Append(ms, m)
           k == Len(ms)
<1>1. /\ k \in Nat /\ Len(s) = k + 1
      /\ \A i \in 1 .. k : s[i] = ms[i]
      /\ s[k + 1] = m
  BY LenProperties, AppendProperties
<1>2. \A i \in 1 .. k : ms[i].version \in Nat /\ ms[i].index \in Int /\ ms[i].last \in Int
  <2>1. \A i \in 1 .. k : ms[i] \in ArrayMods
    BY ElementOfSeq
  <2>2. Versions \subseteq Nat /\ Ints \subseteq Int /\ Indices \subseteq Int
    BY VersionsAreNat, ArrayAssumption DEF Ints, Indices, ArrayAssumption
  <2> QED
    BY <2>1, <2>2 DEF ArrayMods
<1>3. m.version \in Nat /\ m.index \in Int /\ m.last \in Int
  <2>1. m.version \in Nat
    BY VersionsAreNat DEF ArrayMods
  <2>2. m.index \in Int /\ m.last \in Int
    BY ArrayAssumption DEF Ints, Indices, ArrayAssumption, ArrayMods
  <2> QED
    BY <2>1, <2>2
<1>4. \A i \in 1 .. k : ms[i].version <= m.version
  BY DEF InVersions
<1>5. \A j \in 1 .. k :
        /\ ms[j].last \in 0 .. MaxInt
        /\ \A i \in 1 .. j : ms[i].index <= ms[j].last
        /\ \E i \in 1 .. j : ms[i].index = ms[j].last /\ ms[i].version <= ms[j].version
  BY DEF Exact
<1> HIDE DEF s, k
<1>6. ASSUME NEW j \in 1 .. Len(s), j # k + 1
      PROVE  /\ s[j].last \in 0 .. MaxInt
             /\ \A i \in 1 .. j : s[i].index <= s[j].last
             /\ \E i \in 1 .. j : s[i].index = s[j].last /\ s[i].version <= s[j].version
  <2>1. j \in 1 .. k /\ \A i \in 1 .. j : i \in 1 .. k
    BY <1>1, <1>6
  <2>2. PICK i \in 1 .. j : ms[i].index = ms[j].last /\ ms[i].version <= ms[j].version
    BY <1>5, <2>1
  <2> QED
    BY <1>1, <1>5, <2>1, <2>2
<1>7. \A i \in 1 .. k + 1 : s[i].index <= m.last
  <2>1. ASSUME NEW i \in 1 .. k PROVE ms[i].index <= m.last
    <3>1. k \in 1 .. k /\ i \in 1 .. k
      BY <1>1
    <3>2. ms[i].index <= ms[k].last /\ ms[k].last <= m.last
      BY <1>5, <3>1 DEF k
    <3> QED
      BY <1>2, <1>3, <3>1, <3>2
  <2> QED
    BY <1>1, <2>1
<1>8. \E i \in 1 .. k + 1 : s[i].index = m.last /\ s[i].version <= m.version
  <2>1. CASE m.last = m.index
    <3>1. k + 1 \in 1 .. k + 1 /\ s[k + 1].index = m.last /\ s[k + 1].version <= m.version
      BY <1>1, <1>3, <2>1
    <3> QED
      BY <3>1
  <2>2. CASE m.last # m.index
    <3>1. k \in 1 .. k /\ m.last = ms[k].last
      BY <1>1, <2>2 DEF k
    <3>2. PICK i \in 1 .. k : ms[i].index = ms[k].last
      BY <1>5, <3>1
    <3>3. i \in 1 .. k + 1 /\ s[i].index = m.last /\ s[i].version <= m.version
      BY <1>1, <1>4, <3>1, <3>2
    <3> QED
      BY <3>3
  <2> QED
    BY <2>1, <2>2
<1>9. ASSUME NEW j \in 1 .. Len(s)
      PROVE  /\ s[j].last \in 0 .. MaxInt
             /\ \A i \in 1 .. j : s[i].index <= s[j].last
             /\ \E i \in 1 .. j : s[i].index = s[j].last /\ s[i].version <= s[j].version
  <2>1. CASE j = k + 1
    BY <1>1, <1>7, <1>8, <2>1
  <2> QED
    BY <1>6, <2>1
<1> QED
  BY <1>9 DEF Exact, s

LEMMA EmptyExact == Exact(<<>>)
BY EmptySeq DEF Exact

LEMMA LastSetExact ==
    ASSUME ArrayTypeOK, NEW n \in Refs, Exact(arrays[n].mods)
    PROVE  LastSet(n) <= MaxInt
<1> DEFINE ms == arrays[n].mods
<1>1. ms \in Seq(ArrayMods) /\ MaxInt \in Nat
  BY ArrayAssumption DEF ArrayTypeOK, ArrayAssumption
<1>2. CASE ms = <<>>
  BY <1>1, <1>2 DEF LastSet
<1>3. CASE ms # <<>>
  <2>1. Len(ms) \in 1 .. Len(ms)
    BY <1>1, <1>3, EmptySeq, LenProperties
  <2>2. LastSet(n) = ms[Len(ms)].last
    BY <1>3 DEF LastSet, Last
  <2>3. ms[Len(ms)].last \in 0 .. MaxInt
    BY <2>1 DEF Exact
  <2> QED
    BY <1>1, <2>2, <2>3
<1> QED
  BY <1>2, <1>3

(* One array becomes another, if any does. *)
LEMMA OneExactChanges ==
    ASSUME DataInv, RangeInv, Unlinked', NEW r \in Refs, NEW a \in Arrays,
           arrays' = [arrays EXCEPT ![r] = a], defect' \in {defect, "wide"},
           defect' = "none" => Exact(a.mods)
    PROVE  RangeInv'
<1>1. \A q \in Refs : arrays'[q] = IF q = r THEN a ELSE arrays[q]
  BY DEF DataInv, ArrayTypeOK
<1>2. ASSUME defect' = "none", NEW q \in Refs PROVE Exact(arrays'[q].mods)
  BY <1>1, <1>2 DEF RangeInv
<1>3. \A q \in Refs : Exact(arrays'[q].mods) => Exact(arrays[q].mods)'
  BY DEF Exact
<1> QED
  BY <1>2, <1>3 DEF RangeInv

LEMMA ExtendedKeepsExact ==
    ASSUME DataInv, RangeInv, NEW n \in Refs, Transacting,
           NEW index \in Ints, NEW last \in Indices, NEW w \in Data \cup {Unset},
           Extended(n, ArrayMod(index, last, w)), defect' \in {defect, "wide"},
           defect' = "none" =>
               /\ last <= MaxInt /\ index <= last /\ LastSet(n) <= last
               /\ arrays[n].mods = <<>> => index = last
               /\ last \in {index, LastSet(n)}
    PROVE  RangeInv'
<1> DEFINE m == ArrayMod(index, last, w)
           ms == arrays[n].mods
           a == [arrays[n] EXCEPT !.mods = Append(ms, m)]
<1>1. /\ ZoneTypeOK /\ arrays[n] \in Arrays /\ ms \in Seq(ArrayMods)
      /\ InVersions(ms, Latest) /\ Latest = currVersion /\ Latest \in Nat
  BY LatestTyped DEF DataInv, ZoneInv, ArrayTypeOK, Arrays
<1>2. /\ m \in ArrayMods /\ m.version = Latest /\ m.index = index /\ m.last = last
  BY <1>1 DEF ArrayMod, ArrayMods, ZoneTypeOK
<1>3. arrays' = [arrays EXCEPT ![n] = a] /\ UNCHANGED zoneVars
  BY DEF Extended
<1> HIDE DEF m
<1>4. Append(ms, m) \in Seq(ArrayMods)
  BY <1>1, <1>2, AppendProperties
<1>5. a \in Arrays /\ a.mods = Append(ms, m)
  BY <1>1, <1>4 DEF Arrays
<1>6. last \in Nat /\ MaxInt \in Nat
  BY ArrayAssumption DEF Indices, ArrayAssumption
<1>7. Len(ms) # 0 => LastSet(n) = ms[Len(ms)].last
  BY EmptySeq DEF LastSet, Last
<1>8. Len(ms) = 0 => ms = <<>>
  BY <1>1, EmptySeq
<1> HIDE DEF ms
<1>9. ASSUME defect' = "none" PROVE Exact(Append(ms, m))
  <2>1. Exact(ms)
    BY <1>9 DEF RangeInv, ms
  <2>2. /\ m.last \in 0 .. MaxInt /\ m.index <= m.last
        /\ Len(ms) = 0 => m.index = m.last
        /\ Len(ms) # 0 => /\ ms[Len(ms)].last <= m.last
                          /\ m.last \in {m.index, ms[Len(ms)].last}
    BY <1>2, <1>6, <1>7, <1>8, <1>9 DEF ms
  <2>3. InVersions(ms, m.version)
    BY <1>1, <1>2
  <2> QED
    BY <1>1, <1>2, <2>1, <2>2, <2>3, AppendedExact
<1>10. Unlinked'
  BY <1>3 DEF RangeInv, Unlinked, zoneVars
<1> HIDE DEF a
<1> QED
  BY <1>3, <1>5, <1>9, <1>10, OneExactChanges

(* A reference that is given out or back has no revision. *)
LEMMA KnotsUnlinked ==
    ASSUME ZoneTypeOK, Unlinked, NEW r \in Refs,
           \/ UNCHANGED knots
           \/ knots' = [knots EXCEPT ![r] = NewKnot]
           \/ knots' = [knots EXCEPT ![r] = FreeKnot]
           \/ knots' = [knots EXCEPT ![r].version = VersionNone]
    PROVE  Unlinked'
<1>1. knots \in [Refs -> Knots] /\ \A q \in Refs : knots[q] \in Knots
  BY DEF ZoneTypeOK
<1>2. /\ NewKnot.prev = BadRef /\ NewKnot.next = BadRef
      /\ FreeKnot.prev = BadRef /\ FreeKnot.next = BadRef
  BY DEF NewKnot, FreeKnot
<1>3. CASE UNCHANGED knots
  BY <1>3 DEF Unlinked
<1>4. ASSUME NEW k, k.prev = BadRef, k.next = BadRef, knots' = [knots EXCEPT ![r] = k]
      PROVE  Unlinked'
  <2>1. \A q \in Refs : knots'[q] = IF q = r THEN k ELSE knots[q]
    BY <1>1, <1>4
  <2> QED
    BY <1>4, <2>1 DEF Unlinked
<1>5. CASE knots' = [knots EXCEPT ![r].version = VersionNone]
  <2> DEFINE k == [knots[r] EXCEPT !.version = VersionNone]
  <2>1. k.prev = BadRef /\ k.next = BadRef
    BY <1>1 DEF Unlinked, Knots
  <2>2. knots' = [knots EXCEPT ![r] = k]
    BY <1>5
  <2> HIDE DEF k
  <2> QED
    BY <1>4, <2>1, <2>2
<1> QED
  BY <1>2, <1>3, <1>4, <1>5

LEMMA RangeStep == DataInv /\ RangeInv /\ [DataNext]_dataVars => RangeInv'
<1> SUFFICES ASSUME DataInv, RangeInv, [DataNext]_dataVars PROVE RangeInv'
  OBVIOUS
<1>1. /\ ZoneTypeOK /\ ArrayTypeOK /\ Unlinked /\ arrays \in [Refs -> Arrays]
  BY DEF DataInv, ZoneInv, ArrayTypeOK, Arrays, RangeInv
<1>2. \A n : IsArray(n) => n \in Refs
  BY DEF IsArray, Allocated
(* Steps that leave the arrays and what is linked alone. *)
<1>3. ASSUME UNCHANGED <<arrays, defect>>, Unlinked' PROVE RangeInv'
  BY <1>3 DEF RangeInv, Exact
<1>4. ASSUME UNCHANGED <<arrays, defect, knots>> PROVE RangeInv'
  BY <1>1, <1>3, <1>4 DEF Unlinked
<1>5. CASE UNCHANGED dataVars
  BY <1>4, <1>5 DEF dataVars, arrayVars, zoneVars
<1>6. CASE (Begin \/ End) /\ UNCHANGED <<arrayVars, strings>>
  BY <1>4, <1>6 DEF Begin, End, arrayVars
<1>7. ASSUME NEW r \in Refs, RefSetLastAlloc(r), UNCHANGED <<arrayVars, strings>>
      PROVE  RangeInv'
  BY <1>4, <1>7 DEF RefSetLastAlloc, arrayVars
<1>8. ASSUME NEW x \in Texts, NEW new \in Refs, StringAlloc(x, new), UNCHANGED arrayVars
      PROVE  RangeInv'
  <2>1. Unlinked'
    BY <1>1, <1>8, KnotsUnlinked DEF StringAlloc, RefAlloc
  <2> QED
    BY <1>3, <1>8, <2>1 DEF arrayVars
<1>9. ASSUME NEW r \in Refs, ElementDealloc(r) PROVE RangeInv'
  <2>1. Unlinked'
    BY <1>1, <1>9, KnotsUnlinked DEF ElementDealloc, RefDealloc
  <2>2. arrays' = [arrays EXCEPT ![r] = Blank] /\ UNCHANGED defect
    BY <1>9 DEF ElementDealloc
  <2> QED
    BY <2>1, <2>2, BlankTyped, EmptyExact, OneExactChanges
<1>10. ASSUME NEW max \in 1 .. MaxMods, NEW stride \in Strides, NEW new \in Refs,
              ArrayAlloc(max, stride, new)
       PROVE  RangeInv'
  <2> DEFINE a == [max |-> max, stride |-> stride, mods |-> <<>>]
  <2>1. a \in Arrays /\ a.mods = <<>>
    <3>1. <<>> \in Seq(ArrayMods) /\ max \in 0 .. MaxMods
      BY EmptySeq, ArrayAssumption DEF ArrayAssumption
    <3> QED
      BY <3>1 DEF Arrays
  <2>2. arrays' = [arrays EXCEPT ![new] = a] /\ UNCHANGED defect
    BY <1>10 DEF ArrayAlloc
  <2> HIDE DEF a
  <2>3. Unlinked'
    BY <1>1, <1>10, KnotsUnlinked DEF ArrayAlloc, RefAlloc
  <2> QED
    BY <2>1, <2>2, <2>3, EmptyExact, OneExactChanges
<1>11. ASSUME NEW r \in Refs, NEW new \in Refs, NEW v, ArrayDuplicate(r, v, new)
       PROVE  RangeInv'
  <2>1. arrays' = [arrays EXCEPT ![new] = Blank] /\ UNCHANGED defect
        /\ knots' = [knots EXCEPT ![new] = NewKnot]
    BY <1>11 DEF ArrayDuplicate, RefAlloc
  <2>2. Unlinked'
    BY <1>1, <2>1, KnotsUnlinked
  <2> QED
    BY <2>1, <2>2, BlankTyped, EmptyExact, OneExactChanges
<1>12. ASSUME NEW n, NEW i \in Indices, NEW w \in Data, ArraySet(n, i, w) PROVE RangeInv'
  <2>1. /\ Transacting /\ n \in Refs
        /\ Extended(n, ArrayMod(Signed(i), Max({LastSet(n), i}), w))
        /\ defect' = IF Wide(i) THEN "wide" ELSE defect
    BY <1>2, <1>12 DEF ArraySet
  <2> DEFINE last == Max({LastSet(n), i})
  <2>2. LastSet(n) \in Indices /\ i \in Nat
    BY <1>1, <2>1, LastSetTyped, CodesTyped
  <2>3. last \in {LastSet(n), i} /\ last \in Indices /\ last >= i /\ last >= LastSet(n)
    <3>1. LastSet(n) \in Int /\ i \in Int
      <4>1. \A x \in Indices : x \in Int
        BY CodesTyped
      <4> QED
        BY <2>2, <4>1
    <3> QED
      BY <2>2, <3>1, MaxOfTwo
  <2> HIDE DEF last
  <2>4. ASSUME defect' = "none" PROVE Signed(i) = i /\ i <= MaxInt /\ LastSet(n) <= MaxInt
    <3>1. ~Wide(i) /\ defect = "none"
      BY <2>1, <2>4
    <3>2. Exact(arrays[n].mods)
      BY <2>1, <3>1 DEF RangeInv
    <3>3. i <= MaxInt
      BY <2>2, <3>1, ArrayAssumption DEF Wide, Signed, Indices, ArrayAssumption
    <3>4. LastSet(n) <= MaxInt
      BY <1>1, <2>1, <3>2, LastSetExact
    <3> QED
      BY <3>1, <3>3, <3>4, CodesTyped
  <2>5. arrays[n].mods = <<>> => LastSet(n) = 0
    BY DEF LastSet
  <2>6. defect' = "none" =>
          /\ last <= MaxInt /\ Signed(i) <= last /\ LastSet(n) <= last
          /\ arrays[n].mods = <<>> => Signed(i) = last
          /\ last \in {Signed(i), LastSet(n)}
    <3>1. LastSet(n) \in Nat /\ last \in Nat
      BY <2>2, <2>3, CodesTyped
    <3> QED
      BY <2>2, <2>3, <2>4, <2>5, <3>1
  <2>7. Signed(i) \in Ints /\ w \in Data \cup {Unset} /\ defect' \in {defect, "wide"}
    BY <2>1, CodesTyped
  <2>8. Extended(n, ArrayMod(Signed(i), last, w))
    BY <2>1 DEF last
  <2> QED
    BY <2>1, <2>3, <2>6, <2>7, <2>8, ExtendedKeepsExact
<1>13. ASSUME NEW n, NEW i \in Indices, ArrayUnset(n, i) PROVE RangeInv'
  <2>1. /\ Transacting /\ n \in Refs /\ arrays[n].mods # <<>>
        /\ Extended(n, ArrayMod(UnsetCode(i), LastSet(n), Unset))
        /\ defect' = IF Wide(i) THEN "wide" ELSE defect
    BY <1>2, <1>13 DEF ArrayUnset
  <2>2. LastSet(n) \in Indices /\ LastSet(n) \in Nat /\ i \in Nat
    BY <1>1, <2>1, LastSetTyped, CodesTyped
  <2>3. ASSUME defect' = "none" PROVE UnsetCode(i) <= LastSet(n) /\ LastSet(n) <= MaxInt
    <3>1. ~Wide(i) /\ defect = "none"
      BY <2>1, <2>3
    <3>2. Exact(arrays[n].mods)
      BY <2>1, <3>1 DEF RangeInv
    <3>3. UnsetCode(i) = -i - 1
      BY <3>1, CodesTyped
    <3> QED
      BY <1>1, <2>1, <2>2, <3>2, <3>3, LastSetExact
  <2>4. UnsetCode(i) \in Ints /\ defect' \in {defect, "wide"}
    BY <2>1, CodesTyped
  <2>5. defect' = "none" =>
          /\ LastSet(n) <= MaxInt /\ UnsetCode(i) <= LastSet(n) /\ LastSet(n) <= LastSet(n)
          /\ arrays[n].mods = <<>> => UnsetCode(i) = LastSet(n)
          /\ LastSet(n) \in {UnsetCode(i), LastSet(n)}
    BY <2>1, <2>2, <2>3
  <2> QED
    BY <2>1, <2>2, <2>4, <2>5, ExtendedKeepsExact
<1>14. ASSUME NEW n, ArrayRefuse(n) PROVE RangeInv'
  <2>1. PICK new \in Refs : knots' = [knots EXCEPT ![new] = FreeKnot]
    BY <1>14 DEF ArrayRefuse
  <2>2. Unlinked'
    BY <1>1, <2>1, KnotsUnlinked
  <2> QED
    BY <1>3, <1>14, <2>2 DEF ArrayRefuse
<1>15. ArrayNext => RangeInv'
  BY <1>10, <1>11, <1>12, <1>13, <1>14 DEF ArrayNext
<1> QED
  BY <1>5, <1>6, <1>7, <1>8, <1>9, <1>15 DEF DataNext, StringNext

LEMMA RangeInvHolds == DataSpec => []RangeInv
<1>1. DataInit => RangeInv
  <2>1. ASSUME DataInit, NEW r \in Refs PROVE arrays[r] = Blank /\ knots[r] = FreeKnot
    BY <2>1 DEF DataInit, ArrayInit, ZoneInit
  <2> QED
    BY <2>1, BlankTyped, EmptyExact DEF RangeInv, Unlinked, FreeKnot
<1> QED
  BY <1>1, RangeStep, DataInvHolds, PTL DEF DataSpec

(* Without revisions, a version finds the array itself from the one on that  *)
(* it was allocated in.                                                      *)
LEMMA FindsItself ==
    ASSUME ZoneInv, Unlinked, NEW r \in Refs, Allocated(r),
           NEW v \in knots[r].version .. VersionHead
    PROVE  Revise(r, v) = r /\ v # VersionNone
<1>1. knots[r].version \in Nat /\ knots[r].version # 0 /\ VersionHead \in Nat
  BY KnotTyped DEF Allocated, VersionNone
<1>2. ~(knots[r].version > v) /\ v # VersionNone
  BY <1>1 DEF VersionNone
<1>3. Upgraded(r, v) = r
  BY UpStep DEF Unlinked
<1> QED
  BY <1>2, <1>3 DEF Revise

LEMMA MaxIs ==
    ASSUME NEW S, NEW g \in S, g \in Int, \A y \in S : y \in Int /\ y <= g
    PROVE  Max(S) = g
<1>1. \E x \in S : \A y \in S : x >= y
  <2>1. \A y \in S : g >= y
    OBVIOUS
  <2> QED
    BY <2>1
<1>2. Max(S) \in S /\ \A y \in S : Max(S) >= y
  BY <1>1 DEF Max
<1>3. Max(S) >= g /\ Max(S) <= g /\ Max(S) \in Int
  BY <1>2
<1> QED
  BY <1>3

(* What the last modifier up to a version notes is the greatest index set by *)
(* then.                                                                     *)
LEMMA RangeOfSeen ==
    ASSUME NEW ms \in Seq(ArrayMods), Exact(ms), NEW w \in Int,
           NEW k \in UpTo(ms, w), \A j \in UpTo(ms, w) : j <= k
    PROVE  /\ ms[k].last \in 0 .. MaxInt
           /\ Max({0} \cup {m.index + 1 : m \in
                 {n \in Range(ms) : n.version <= w /\ n.index >= 0}}) = ms[k].last + 1
<1> DEFINE S == {0} \cup {m.index + 1 : m \in
                   {n \in Range(ms) : n.version <= w /\ n.index >= 0}}
           g == ms[k].last + 1
<1>1. /\ k \in 1 .. Len(ms) /\ ms[k].version <= w /\ DOMAIN ms = 1 .. Len(ms)
      /\ Len(ms) \in Nat
  BY LenProperties DEF UpTo
<1>2. \A i \in 1 .. Len(ms) : ms[i].version \in Nat /\ ms[i].index \in Int
  <2>1. \A i \in 1 .. Len(ms) : ms[i] \in ArrayMods
    BY ElementOfSeq
  <2>2. Versions \subseteq Nat /\ Ints \subseteq Int
    BY VersionsAreNat, ArrayAssumption DEF Ints, ArrayAssumption
  <2> QED
    BY <2>1, <2>2 DEF ArrayMods
<1>3. /\ ms[k].last \in 0 .. MaxInt /\ \A i \in 1 .. k : ms[i].index <= ms[k].last
  BY <1>1 DEF Exact
<1>4. PICK i \in 1 .. k : ms[i].index = ms[k].last /\ ms[i].version <= ms[k].version
  BY <1>1 DEF Exact
<1>5. /\ MaxInt \in Nat /\ ms[k].last \in Nat /\ g \in Nat /\ g >= 1
  <2>1. MaxInt \in Nat
    BY ArrayAssumption DEF ArrayAssumption
  <2> QED
    BY <1>3, <2>1
<1>6. g \in S
  <2>1. i \in 1 .. Len(ms)
    BY <1>1, <1>4
  <2>2. ms[i] \in Range(ms)
    BY <1>1, <2>1 DEF Range
  <2>3. ms[i].version <= w /\ ms[i].index >= 0 /\ ms[i].index + 1 = g
    <3>1. ms[i].version \in Int /\ ms[k].version \in Int
      BY <1>1, <1>2, <2>1
    <3>2. ms[i].version <= w
      BY <1>1, <1>4, <3>1
    <3> QED
      BY <1>4, <1>5, <3>2
  <2> QED
    BY <2>2, <2>3
<1>7. ASSUME NEW y \in S PROVE y \in Int /\ y <= g
  <2>1. CASE y = 0
    BY <1>5, <2>1
  <2>2. CASE y # 0
    <3>1. PICK m \in Range(ms) : m.version <= w /\ m.index >= 0 /\ y = m.index + 1
      BY <2>2
    <3>2. PICK j \in 1 .. Len(ms) : m = ms[j]
      BY <1>1, <3>1 DEF Range
    <3>3. j \in UpTo(ms, w)
      BY <3>1, <3>2 DEF UpTo
    <3>4. j \in 1 .. k
      BY <1>1, <3>2, <3>3
    <3>5. ms[j].index <= ms[k].last /\ ms[j].index \in Int
      BY <1>2, <1>3, <3>2, <3>4
    <3>6. ms[k].last \in Int /\ g = ms[k].last + 1
      BY <1>5
    <3>7. y = ms[j].index + 1
      BY <3>1, <3>2
    <3> HIDE DEF S, g
    <3> QED
      BY <3>5, <3>6, <3>7
  <2> QED
    BY <2>1, <2>2
<1> HIDE DEF S, g
<1>8. Max(S) = g
  BY <1>5, <1>6, <1>7, MaxIs
<1> QED
  BY <1>3, <1>8 DEF S, g

LEMMA NoneSeen ==
    ASSUME NEW ms \in Seq(ArrayMods), NEW w, UpTo(ms, w) = {}
    PROVE  Max({0} \cup {m.index + 1 : m \in
               {n \in Range(ms) : n.version <= w /\ n.index >= 0}}) = 0
<1> DEFINE T == {n \in Range(ms) : n.version <= w /\ n.index >= 0}
<1>1. T = {}
  <2>1. DOMAIN ms = 1 .. Len(ms)
    BY LenProperties
  <2> QED
    BY <2>1 DEF UpTo, Range
<1>2. {0} \cup {m.index + 1 : m \in T} = {0}
  BY <1>1
<1>3. Max({0}) = 0
  <2>1. 0 \in {0} /\ 0 \in Int /\ \A y \in {0} : y \in Int /\ y <= 0
    OBVIOUS
  <2> QED
    BY <2>1, MaxIs
<1> QED
  BY <1>2, <1>3

LEMMA NoWrap ==
    ASSUME NEW n \in Nat, NEW x \in 0 .. n
    PROVE  (x + 1) % (2 * (n + 1)) = x + 1
<1> DEFINE m == 2 * (n + 1)
           y == x + 1
<1>1. m \in Nat \ {0} /\ y \in Nat /\ y < m
  OBVIOUS
<1> HIDE DEF m, y
<1>2. y % m = y
  BY <1>1
<1> QED
  BY <1>2 DEF m, y

-----------------------------------------------------------------------------
(* Looking a text up *)

LEMMA BeforeNewPage ==
    ASSUME NEW r \in Refs, NEW n \in Nat, PageOf(r) <= n
    PROVE  r < n * PageLoad
<1> DEFINE p == PageLoad
           q == r \div p
           m == r % p
           d == n - 1 - q
<1>1. r \in Nat /\ p \in Nat \ {0}
  BY SizesAssumption DEF Refs, SizesAssumption
<1>2. q \in Nat /\ m \in Nat /\ m < p
  BY <1>1
<1>3. r = q * p + m
  BY <1>1
<1>4. d \in Nat
  BY <1>2 DEF PageOf
<1>5. n = q + d + 1
  BY <1>2, <1>4
<1> HIDE DEF d, m, q, p
<1>6. \A a, b, c \in Nat : (a + b + 1) * c = a * c + b * c + c
  OBVIOUS
<1>7. n * p = q * p + d * p + p
  BY <1>1, <1>2, <1>4, <1>5, <1>6
<1>8. \A a, b \in Nat : a * b \in Nat
  OBVIOUS
<1>9. q * p \in Nat /\ d * p \in Nat
  BY <1>1, <1>2, <1>4, <1>8
<1> QED
  BY <1>1, <1>2, <1>3, <1>7, <1>9 DEF p

(* The first of some references. *)
LEMMA FirstRef ==
    ASSUME NEW S \in SUBSET Refs, S # {}
    PROVE  Min(S) \in S /\ \A s \in S : Min(S) <= s
<1>1. S \in SUBSET Nat
  BY DEF Refs
<1>2. \E x \in S : \A y \in S : x <= y
  BY <1>1, NatMin
<1> QED
  BY <1>2 DEF Min

LEMMA FirstRefIs ==
    ASSUME NEW S \in SUBSET Refs, NEW r \in S, \A s \in S : s >= r
    PROVE  Min(S) = r
<1>1. Min(S) \in S /\ Min(S) <= r /\ Min(S) >= r
  BY FirstRef
<1>2. Min(S) \in Int /\ r \in Int
  <2>1. Refs \subseteq Int
    BY DEF Refs
  <2> QED
    BY <1>1, <2>1
<1> QED
  BY <1>1, <1>2

(* What was found is found as long as it stays and what becomes its twin     *)
(* lies behind it.                                                           *)
FoundKept(x, r) ==
    r = StringFind(x) /\ r <= lastRefs[ClassOf[x]] /\ Allocated(r)' => StringFind(x)' = r

LEMMA TwinsBehind ==
    ASSUME NEW x, NEW r \in Refs, r = StringFind(x),
           r \in Twins(x)', \A s \in Refs : s \in Twins(x)' => s \in Twins(x) \/ s >= r
    PROVE  StringFind(x)' = r
<1>1. Twins(x) # {} /\ Twins(x) \in SUBSET Refs
  BY BadIsNone DEF StringFind, Twins
<1>2. \A s \in Twins(x) : r <= s
  BY <1>1, FirstRef DEF StringFind
<1>3. Twins(x)' \in SUBSET Refs
  BY DEF Twins, Allocated, Refs
<1>4. \A s \in Refs : s >= r <=> r <= s
  BY DEF Refs
<1>5. \A s \in Twins(x)' : s >= r
  BY <1>2, <1>3, <1>4
<1>6. Min(Twins(x)') = r
  BY <1>3, <1>5, FirstRefIs
<1>7. StringFind(x)' = IF Twins(x)' = {} THEN BadRef ELSE Min(Twins(x)')
  BY DEF StringFind, BadRef, Min
<1> QED
  BY <1>6, <1>7

LEMMA FoundIsTwin ==
    ASSUME NEW x, NEW r \in Refs, r = StringFind(x)
    PROVE  r \in Twins(x)
<1>1. Twins(x) # {} /\ Twins(x) \in SUBSET Refs
  BY BadIsNone DEF StringFind, Twins
<1> QED
  BY <1>1, FirstRef DEF StringFind

(* Nothing is given out. *)
LEMMA NoneGivenOut ==
    ASSUME NEW x \in Texts, NEW r \in Refs,
           \A s \in Refs : Allocated(s)' =>
               Allocated(s) /\ TypeOf(s)' = TypeOf(s) /\ strings'[s] = strings[s]
    PROVE  FoundKept(x, r)
<1> SUFFICES ASSUME r = StringFind(x), Allocated(r)' PROVE StringFind(x)' = r
  BY DEF FoundKept
<1>1. r \in Twins(x)
  BY FoundIsTwin
<1>2. r \in Twins(x)' /\ \A s \in Refs : s \in Twins(x)' => s \in Twins(x)
  BY <1>1 DEF Twins
<1> QED
  BY <1>2, TwinsBehind

(* The search for a free element begins at the last one of the type, and a   *)
(* new page lies behind all others.                                          *)
LEMMA OneGivenOut ==
    ASSUME ZoneInv, NEW t \in Types, NEW size \in Nat, NEW new \in Refs,
           AllocPlace(t, size, new),
           \A s \in Refs : s # new => knots'[s] = knots[s] /\ strings'[s] = strings[s],
           NEW x \in Texts, NEW r \in Refs
    PROVE  FoundKept(x, r)
<1> SUFFICES ASSUME r = StringFind(x), r <= lastRefs[ClassOf[x]], Allocated(r)'
             PROVE  StringFind(x)' = r
  BY DEF FoundKept
<1>1. r \in Twins(x) /\ Allocated(r) /\ TypeOf(r) = ClassOf[x] /\ PageOf(r) <= Len(pages)
  BY FoundIsTwin DEF Twins, Allocated
<1>2. /\ ~Allocated(new) /\ Len(pages) \in Nat
      /\ pages'[PageOf(new)].editType = t
      /\ \A i \in 1 .. Len(pages) : pages'[i] = pages[i]
  BY AllocFindsFree, AllocIsLargeEnough, LenProperties DEF ZoneInv, ZoneTypeOK
<1>3. ASSUME NEW s \in Refs, s # new, Allocated(s) \/ Allocated(s)'
      PROVE  Allocated(s) /\ TypeOf(s)' = TypeOf(s)
  <2>1. knots[s].version # VersionNone /\ PageOf(s) \in Nat \ {0}
    BY <1>3, PageOfIsPositive DEF Allocated
  <2>2. PageOf(s) \in 1 .. Len(pages)
    BY <1>2, <2>1 DEF ZoneInv, BeyondUnused
  <2> QED
    BY <1>2, <2>1, <2>2 DEF Allocated, TypeOf, PageOf
<1>4. \A s \in Refs : s # new /\ s \in Twins(x)' => s \in Twins(x)
  BY <1>3 DEF Twins
<1>5. r # new
  BY <1>1, <1>2
<1>6. r \in Twins(x)'
  BY <1>1, <1>3, <1>5 DEF Twins
<1>7. ASSUME new \in Twins(x)' PROVE new >= r
  <2>1. t = ClassOf[x]
    BY <1>2, <1>7 DEF Twins, TypeOf, PageOf
  <2>2. CASE new \in FreeRefs(t, size)
    <3>1. new >= lastRefs[t] /\ lastRefs[t] \in Refs
      BY <2>2 DEF FreeRefs, ZoneInv, ZoneTypeOK
    <3> QED
      BY <2>1, <3>1 DEF Refs
  <2>3. CASE new = Len(pages) * PageLoad
    <3>1. r < Len(pages) * PageLoad
      BY <1>1, <1>2, BeforeNewPage
    <3> QED
      BY <2>3, <3>1 DEF Refs
  <2> QED
    BY <2>2, <2>3 DEF AllocPlace
<1> QED
  BY <1>4, <1>6, <1>7, TwinsBehind

LEMMA FoundStep ==
    ASSUME DataInv, [DataNext]_dataVars, NEW x \in Texts, NEW r \in Refs
    PROVE  FoundKept(x, r)
<1>1. /\ ZoneInv /\ knots \in [Refs -> Knots] /\ strings \in [Refs -> Texts \cup {NoText}]
      /\ Array \in Types
  BY ArrayAssumption, SizesAssumption
     DEF DataInv, ZoneInv, ZoneTypeOK, StringTypeOK, ArrayAssumption, SizesAssumption
<1>2. ASSUME UNCHANGED <<knots, pages, strings>> PROVE FoundKept(x, r)
  <2>1. \A s \in Refs : Allocated(s)' =>
          Allocated(s) /\ TypeOf(s)' = TypeOf(s) /\ strings'[s] = strings[s]
    BY <1>2 DEF Allocated, TypeOf, PageOf
  <2> QED
    BY <2>1, NoneGivenOut
<1>3. CASE UNCHANGED dataVars
  BY <1>2, <1>3 DEF dataVars, zoneVars
<1>4. CASE (Begin \/ End) /\ UNCHANGED <<arrayVars, strings>>
  BY <1>2, <1>4 DEF Begin, End
<1>5. ASSUME NEW q \in Refs, RefSetLastAlloc(q), UNCHANGED <<arrayVars, strings>>
      PROVE  FoundKept(x, r)
  BY <1>2, <1>5 DEF RefSetLastAlloc
<1>6. ASSUME NEW q \in Refs, ElementDealloc(q) PROVE FoundKept(x, r)
  <2>1. /\ knots' = [knots EXCEPT ![q].version = VersionNone] /\ UNCHANGED pages
        /\ strings' = [strings EXCEPT ![q] = NoText]
    BY <1>6 DEF ElementDealloc, RefDealloc
  <2>2. knots'[q].version = VersionNone /\ \A s \in Refs : s # q =>
          knots'[s] = knots[s] /\ strings'[s] = strings[s]
    BY <1>1, <2>1 DEF Knots
  <2>3. ASSUME NEW s \in Refs, Allocated(s)'
        PROVE  Allocated(s) /\ TypeOf(s)' = TypeOf(s) /\ strings'[s] = strings[s]
    <3>1. s # q
      BY <2>2, <2>3 DEF Allocated
    <3> QED
      BY <2>1, <2>2, <2>3, <3>1 DEF Allocated, TypeOf, PageOf
  <2> QED
    BY <2>3, NoneGivenOut
(* An element of type t is given out, or was but for its knot. *)
<1>7. ASSUME NEW t \in Types, NEW size \in Nat, NEW new \in Refs, AllocPlace(t, size, new),
             NEW k, knots' = [knots EXCEPT ![new] = k],
             UNCHANGED strings \/ \E y : strings' = [strings EXCEPT ![new] = y]
      PROVE  FoundKept(x, r)
  <2>1. \A s \in Refs : s # new => knots'[s] = knots[s] /\ strings'[s] = strings[s]
    BY <1>1, <1>7
  <2> QED
    BY <1>1, <1>7, <2>1, OneGivenOut
<1>8. ASSUME NEW y \in Texts, NEW new \in Refs, StringAlloc(y, new) PROVE FoundKept(x, r)
  <2>1. ClassOf[y] \in Types /\ EditBSize[ClassOf[y]] \in Nat
    BY StringAssumption, SizesAssumption DEF StringAssumption, SizesAssumption
  <2>2. /\ AllocPlace(ClassOf[y], EditBSize[ClassOf[y]], new)
        /\ knots' = [knots EXCEPT ![new] = NewKnot]
        /\ strings' = [strings EXCEPT ![new] = y]
    BY <1>8 DEF StringAlloc, RefAlloc
  <2> QED
    BY <1>7, <2>1, <2>2
<1>9. ASSUME NEW max \in 1 .. MaxMods, NEW stride \in Strides, NEW new \in Refs,
             ArrayAlloc(max, stride, new), UNCHANGED strings
      PROVE  FoundKept(x, r)
  <2>1. ArrayElementBSize(max, stride) \in Nat
    <3>1. max \in Nat /\ stride \in Nat /\ ArrayBSize \in Nat /\ ModBSize \in Nat
      BY ArrayAssumption DEF ArrayAssumption
    <3>2. \A a, b \in Nat : a * b \in Nat
      OBVIOUS
    <3>3. ModBSize * max \in Nat /\ stride * max \in Nat
      BY <3>1, <3>2
    <3> QED
      BY <3>1, <3>3, UIntOf DEF ArrayElementBSize, NeededBSize
  <2>2. /\ AllocPlace(Array, ArrayElementBSize(max, stride), new)
        /\ knots' = [knots EXCEPT ![new] = NewKnot]
    BY <1>9 DEF ArrayAlloc, RefAlloc
  <2> QED
    BY <1>1, <1>7, <1>9, <2>1, <2>2
<1>10. ASSUME NEW n, IsArray(n) PROVE n \in Refs /\ pages[PageOf(n)].editBSize \in Nat
  <2>1. n \in Refs /\ PageOf(n) <= Len(pages) /\ pages \in Seq(PageRecords)
    BY <1>1, <1>10 DEF IsArray, Allocated, ZoneInv, ZoneTypeOK, PageRecords
  <2>2. PageOf(n) \in 1 .. Len(pages)
    BY <2>1, PageOfIsPositive, LenProperties
  <2>3. pages[PageOf(n)] \in PageRecords
    BY <2>1, <2>2, ElementOfSeq
  <2> QED
    BY <2>1, <2>3, UIntsAreNat DEF PageRecords
<1>11. ASSUME NEW q, NEW new \in Refs, NEW v, ArrayDuplicate(q, v, new), UNCHANGED strings
       PROVE  FoundKept(x, r)
  <2>1. PICK n \in {Revise(q, v)} :
          IsArray(n) /\ RefAlloc(Array, pages[PageOf(n)].editBSize, new)
    BY <1>11 DEF ArrayDuplicate
  <2>2. pages[PageOf(n)].editBSize \in Nat
    BY <1>10, <2>1
  <2> QED
    BY <1>1, <1>7, <1>11, <2>1, <2>2 DEF RefAlloc
<1>12. ASSUME NEW n, NEW i, NEW w, ArraySet(n, i, w) \/ ArrayUnset(n, i), UNCHANGED strings
       PROVE  FoundKept(x, r)
  BY <1>2, <1>12 DEF ArraySet, ArrayUnset, Extended, zoneVars
<1>13. ASSUME NEW n, ArrayRefuse(n), UNCHANGED strings PROVE FoundKept(x, r)
  <2>1. PICK new \in Refs :
          /\ AllocPlace(Array, pages[PageOf(n)].editBSize, new)
          /\ knots' = [knots EXCEPT ![new] = FreeKnot]
    BY <1>13 DEF ArrayRefuse
  <2>2. pages[PageOf(n)].editBSize \in Nat
    BY <1>10, <1>13 DEF ArrayRefuse
  <2> QED
    BY <1>1, <1>7, <1>13, <2>1, <2>2
<1>14. ArrayNext /\ UNCHANGED strings => FoundKept(x, r)
  BY <1>9, <1>11, <1>12, <1>13 DEF ArrayNext
<1> QED
  BY <1>3, <1>4, <1>5, <1>6, <1>8, <1>14 DEF DataNext, StringNext

-----------------------------------------------------------------------------
(* The promised store *)

(* Nothing in the zone is newer than the version that is read last. *)
Dated == \A r \in Refs : knots[r].version <= Latest

(* What Contents gives, without the walk to a revision: there is none. *)
About(ms, v, i) == {j \in UpTo(ms, v) : ms[j].index \in {Signed(i), UnsetCode(i)}}

Value(ms, v, i) ==
    IF About(ms, v, i) = {} \/ i > ms[Max(UpTo(ms, v))].last THEN Unset
    ELSE IF ms[Max(About(ms, v, i))].index = Signed(i) THEN ms[Max(About(ms, v, i))].value
    ELSE Unset

Held(r, v) ==
    IF IsArray(r) /\ knots[r].version <= v THEN [i \in Indices |-> Value(arrays[r].mods, v, i)]
    ELSE Absent

AllHeld == \A r \in Refs, v \in Nat : v <= Latest => Contents(r, v) = Held(r, v)

LEMMA HeldNow == DataInv /\ Unlinked => AllHeld
<1> SUFFICES ASSUME DataInv, Unlinked, NEW r \in Refs, NEW v \in Nat, v <= Latest
             PROVE  Contents(r, v) = Held(r, v)
  BY DEF AllHeld
<1>1. CASE ~(IsArray(r) /\ knots[r].version <= v)
  BY <1>1 DEF Contents, Held
<1>2. CASE IsArray(r) /\ knots[r].version <= v
  <2> DEFINE ms == arrays[r].mods
  <2>1. v < VersionHead /\ VersionHead \in Nat /\ Latest \in Nat
    BY LatestTyped, SizesAssumption
       DEF DataInv, ZoneInv, ZoneTypeOK, Latest, Versions, SizesAssumption
  <2>2. v \in knots[r].version .. VersionHead
    BY <1>2, <2>1, KnotTyped DEF DataInv
  <2>3. Revise(r, v) = r /\ v # VersionNone /\ r # BadRef
    BY <1>2, <2>2, FindsItself, BadIsNone DEF DataInv, IsArray
  <2>4. AtVersion(v) = v
    BY <2>1 DEF AtVersion
  <2>5. Seen(r, v) = [j \in UpTo(ms, v) |-> ms[j]]
    BY <2>3, <2>4 DEF Seen
  <2>6. ASSUME NEW i \in Indices PROVE ArrayGet(r, v, i) = Value(ms, v, i)
    <3> DEFINE D == UpTo(ms, v)
               A == {j \in D : ms[j].index \in {Signed(i), UnsetCode(i)}}
    <3>1. DOMAIN Seen(r, v) = D /\ \A j \in D : Seen(r, v)[j] = ms[j]
      BY <2>5
    <3>2. {j \in DOMAIN Seen(r, v) : Seen(r, v)[j].index \in {Signed(i), UnsetCode(i)}} = A
      BY <3>1
    <3>3. D \in SUBSET (1 .. Len(ms)) /\ A \subseteq D /\ Len(ms) \in Nat
      BY LenProperties DEF UpTo, DataInv, ArrayTypeOK
    <3>4. A # {} => Max(A) \in D /\ Max(D) \in D
      BY <3>3, MaxLast
    <3>5. A = About(ms, v, i)
      BY DEF About
    <3> HIDE DEF D, A
    <3>6. ArrayGet(r, v, i) =
            IF A = {} \/ i > Seen(r, v)[Max(D)].last THEN Unset
            ELSE IF Seen(r, v)[Max(A)].index = Signed(i) THEN Seen(r, v)[Max(A)].value
            ELSE Unset
      BY <3>1, <3>2 DEF ArrayGet, LastOf
    <3>7. Value(ms, v, i) =
            IF A = {} \/ i > ms[Max(D)].last THEN Unset
            ELSE IF ms[Max(A)].index = Signed(i) THEN ms[Max(A)].value
            ELSE Unset
      BY <3>5 DEF Value, D
    <3> QED
      BY <3>1, <3>4, <3>6, <3>7
  <2> HIDE DEF ms
  <2>7. [i \in Indices |-> ArrayGet(r, v, i)] = [i \in Indices |-> Value(ms, v, i)]
    BY <2>6
  <2> QED
    BY <1>2, <2>7 DEF Contents, Held, ms
<1> QED
  BY <1>1, <1>2

LEMMA HeldNext == (DataInv /\ Unlinked)' => AllHeld'
BY HeldNow, PTL

-----------------------------------------------------------------------------
(* What a modifier more says of the open version, and of those before it. *)

LEMMA ValueKept ==
    ASSUME NEW ms \in Seq(ArrayMods), NEW m \in ArrayMods, NEW v \in Nat, v < m.version,
           NEW i \in Indices
    PROVE  Value(Append(ms, m), v, i) = Value(ms, v, i)
<1> DEFINE s == Append(ms, m)
           D == UpTo(ms, v)
           A == About(ms, v, i)
<1>1. /\ Len(ms) \in Nat /\ Len(s) = Len(ms) + 1
      /\ \A j \in 1 .. Len(ms) : s[j] = ms[j]
      /\ s[Len(ms) + 1] = m
  BY LenProperties, AppendProperties
<1>2. m.version \in Nat
  BY VersionsAreNat DEF ArrayMods
<1> HIDE DEF s
<1>3. UpTo(s, v) = D
  BY <1>1, <1>2 DEF UpTo
<1>4. D \in SUBSET (1 .. Len(ms)) /\ \A j \in D : s[j] = ms[j]
  BY <1>1 DEF UpTo
<1>5. About(s, v, i) = A
  BY <1>3, <1>4 DEF About
<1>6. A # {} => Max(A) \in D /\ Max(D) \in D
  <2>1. A \subseteq D
    BY DEF About
  <2> QED
    BY <1>1, <1>4, <2>1, MaxLast
<1> HIDE DEF D, A
<1>7. Value(s, v, i) = IF A = {} \/ i > s[Max(D)].last THEN Unset
                       ELSE IF s[Max(A)].index = Signed(i) THEN s[Max(A)].value
                       ELSE Unset
  BY <1>3, <1>5 DEF Value
<1>8. Value(ms, v, i) = IF A = {} \/ i > ms[Max(D)].last THEN Unset
                        ELSE IF ms[Max(A)].index = Signed(i) THEN ms[Max(A)].value
                        ELSE Unset
  BY DEF Value, D, A
<1> QED
  BY <1>4, <1>6, <1>7, <1>8 DEF s

(* In a list whose modifiers are all up to v, what is about i, and how far   *)
(* it goes.                                                                  *)
LEMMA AllSeen ==
    ASSUME NEW ms \in Seq(ArrayMods), NEW v \in Nat, InVersions(ms, v), NEW i \in Indices
    PROVE  /\ UpTo(ms, v) = 1 .. Len(ms)
           /\ About(ms, v, i) = {j \in 1 .. Len(ms) : ms[j].index \in {Signed(i), UnsetCode(i)}}
           /\ Len(ms) \in Nat
           /\ Len(ms) # 0 => Max(UpTo(ms, v)) = Len(ms)
           /\ Len(ms) = 0 => Value(ms, v, i) = Unset
<1>1. UpTo(ms, v) = 1 .. Len(ms) /\ Len(ms) \in Nat
  BY LenProperties DEF UpTo, InVersions
<1>2. About(ms, v, i) = {j \in 1 .. Len(ms) : ms[j].index \in {Signed(i), UnsetCode(i)}}
  BY <1>1 DEF About
<1>3. ASSUME Len(ms) # 0 PROVE Max(UpTo(ms, v)) = Len(ms)
  <2>1. Len(ms) \in 1 .. Len(ms) /\ \A j \in 1 .. Len(ms) : j \in Int /\ j <= Len(ms)
    BY <1>1, <1>3
  <2> QED
    BY <1>1, <2>1, MaxIs
<1>4. Len(ms) = 0 => Value(ms, v, i) = Unset
  BY <1>1, <1>2 DEF Value
<1> QED
  BY <1>1, <1>2, <1>3, <1>4

(* Beyond the last index of a list there is nothing about an index: an index *)
(* up to MaxInt that is reached later was never set.                         *)
LEMMA NoneBeyond ==
    ASSUME NEW ms \in Seq(ArrayMods), Exact(ms), InLast(ms), NEW i \in Indices, ~Wide(i),
           NEW j \in 1 .. Len(ms), ms[j].index \in {Signed(i), UnsetCode(i)}
    PROVE  i <= ms[Len(ms)].last
<1> DEFINE e == Len(ms)
<1>1. /\ Signed(i) = i /\ UnsetCode(i) = -i - 1 /\ i \in Nat
  BY CodesTyped
<1>2. e \in Nat /\ e \in 1 .. e /\ j \in 1 .. e
  BY LenProperties
<1>3. \A k \in 1 .. e : ms[k].index \in Int /\ ms[k].last \in Int
  <2>1. \A k \in 1 .. e : ms[k] \in ArrayMods
    BY ElementOfSeq
  <2>2. Ints \subseteq Int /\ Indices \subseteq Int
    BY ArrayAssumption DEF Ints, Indices, ArrayAssumption
  <2> QED
    BY <2>1, <2>2 DEF ArrayMods
<1>4. i <= ms[j].last
  <2>1. (IF ms[j].index >= 0 THEN ms[j].index ELSE -ms[j].index - 1) <= ms[j].last
    BY DEF InLast
  <2> QED
    BY <1>1, <2>1
<1>5. PICK k \in 1 .. j : ms[k].index = ms[j].last
  BY DEF Exact
<1>6. k \in 1 .. e
  BY <1>2
<1>7. ms[k].index <= ms[e].last
  BY <1>2, <1>6 DEF Exact
<1>8. ms[e].last \in Int /\ ms[k].index \in Int
  BY <1>2, <1>3, <1>6
<1> HIDE DEF e
<1>9. i <= ms[e].last
  BY <1>1, <1>4, <1>5, <1>7, <1>8
<1> QED
  BY <1>9 DEF e

(* A modifier of the open version changes the index it is about and no       *)
(* other: those that it brings into range were never set.                    *)
LEMMA ValueAppended ==
    ASSUME NEW ms \in Seq(ArrayMods), NEW m \in ArrayMods, InVersions(ms, m.version),
           Exact(ms), InLast(ms), Exact(Append(ms, m)), NEW i \in Indices, ~Wide(i),
           m.index \in {Signed(i), UnsetCode(i)}, i <= m.last,
           NEW k \in Indices
    PROVE  Value(Append(ms, m), m.version, k) =
             IF k = i THEN (IF m.index = Signed(i) THEN m.value ELSE Unset)
             ELSE Value(ms, m.version, k)
<1> DEFINE s == Append(ms, m)
           v == m.version
           e == Len(ms)
           A == About(ms, v, k)
           B == About(s, v, k)
<1>1. /\ e \in Nat /\ Len(s) = e + 1 /\ s \in Seq(ArrayMods)
      /\ \A j \in 1 .. e : s[j] = ms[j]
      /\ s[e + 1] = m
  BY LenProperties, AppendProperties
<1>2. v \in Nat
  BY VersionsAreNat DEF ArrayMods
<1>3. InVersions(s, v)
  BY <1>2, AppendedVersions
<1> HIDE DEF s, v
<1>4. /\ UpTo(s, v) = 1 .. Len(s) /\ Max(UpTo(s, v)) = e + 1
      /\ B = {j \in 1 .. e + 1 : s[j].index \in {Signed(k), UnsetCode(k)}}
  BY <1>1, <1>2, <1>3, AllSeen
<1>5. /\ A = {j \in 1 .. e : ms[j].index \in {Signed(k), UnsetCode(k)}}
      /\ e # 0 => Max(UpTo(ms, v)) = e
      /\ e = 0 => Value(ms, v, k) = Unset
  BY <1>2, AllSeen DEF v
<1>6. /\ Signed(i) = i /\ UnsetCode(i) = -i - 1 /\ i \in Nat /\ k \in Nat
      /\ ~Wide(k) => Signed(k) = k /\ UnsetCode(k) = -k - 1
  BY CodesTyped
<1>7. Value(s, v, k) = IF B = {} \/ k > m.last THEN Unset
                       ELSE IF s[Max(B)].index = Signed(k) THEN s[Max(B)].value
                       ELSE Unset
  BY <1>1, <1>4 DEF Value
<1>8. e # 0 => Value(ms, v, k) = IF A = {} \/ k > ms[e].last THEN Unset
                       ELSE IF ms[Max(A)].index = Signed(k) THEN ms[Max(A)].value
                       ELSE Unset
  BY <1>5 DEF Value
<1>9. m.last \in 0 .. MaxInt /\ MaxInt \in Nat /\ \A j \in 1 .. e : ms[j].last \in 0 .. MaxInt
  <2>1. e + 1 \in 1 .. Len(s)
    BY <1>1
  <2>2. s[e + 1].last \in 0 .. MaxInt
    BY <2>1 DEF Exact, s
  <2>3. \A j \in 1 .. e : ms[j].last \in 0 .. MaxInt
    BY DEF Exact
  <2> QED
    BY <1>1, <2>2, <2>3, ArrayAssumption DEF ArrayAssumption
<1> HIDE DEF A, B
<1>10. CASE k = i
  <2>1. e + 1 \in B /\ \A j \in B : j \in Int /\ j <= e + 1
    BY <1>1, <1>4, <1>10
  <2>2. Max(B) = e + 1
    BY <1>1, <2>1, MaxIs
  <2>3. ~(k > m.last)
    BY <1>6, <1>9, <1>10
  <2> QED
    BY <1>1, <1>7, <1>10, <2>1, <2>2, <2>3 DEF s, v
<1>11. CASE k # i /\ Wide(k)
  <2>1. k > MaxInt
    BY <1>6, <1>11, ArrayAssumption DEF Wide, Signed, ArrayAssumption
  <2>2. k > m.last /\ (e # 0 => k > ms[e].last)
    <3>1. e # 0 => e \in 1 .. e
      BY <1>1
    <3> QED
      BY <1>6, <1>9, <2>1, <3>1
  <2> QED
    BY <1>5, <1>7, <1>8, <1>11, <2>2 DEF s, v
<1>12. CASE k # i /\ ~Wide(k)
  <2>1. m.index \notin {Signed(k), UnsetCode(k)}
    BY <1>6, <1>12
  <2>2. B = A
    BY <1>1, <1>4, <1>5, <2>1
  <2>3. CASE A = {}
    BY <1>5, <1>7, <1>8, <1>12, <2>2, <2>3 DEF s, v
  <2>4. CASE A # {}
    <3>1. PICK j \in 1 .. e : ms[j].index \in {Signed(k), UnsetCode(k)}
      BY <1>5, <2>4
    <3>2. e # 0 /\ e \in 1 .. e
      BY <1>1, <3>1
    <3>3. k <= ms[e].last
      BY <1>12, <3>1, NoneBeyond
    <3>4. ms[e].last <= m.last
      <4>1. PICK x \in 1 .. e : ms[x].index = ms[e].last
        BY <3>2 DEF Exact
      <4>2. e + 1 \in 1 .. Len(s) /\ x \in 1 .. e + 1
        BY <1>1, <4>1
      <4>3. s[x].index <= s[e + 1].last
        BY <4>2 DEF Exact, s
      <4> QED
        BY <1>1, <4>1, <4>3
    <3>5. ~(k > m.last) /\ ~(k > ms[e].last)
      BY <1>6, <1>9, <3>2, <3>3, <3>4
    <3>6. Max(A) \in 1 .. e
      <4>1. A \in SUBSET (1 .. e)
        BY <1>5
      <4> QED
        BY <1>1, <2>4, <4>1, MaxLast
    <3> QED
      BY <1>1, <1>7, <1>8, <1>12, <2>2, <3>2, <3>5, <3>6 DEF s, v
  <2> QED
    BY <2>3, <2>4
<1> QED
  BY <1>10, <1>11, <1>12

-----------------------------------------------------------------------------
(* The store in every state, and what a step makes of it *)

StoreInv == DataInv /\ RangeInv /\ Dated

Snap(v) == [r \in Refs |-> Held(r, v)]

Live == [r \in Refs |-> Contents(r, Latest)]

Past == [v \in 1 .. headVersion |-> [r \in Refs |-> Contents(r, v)]]

(* The store as of a version that is named, so that it can be compared with  *)
(* itself a step later.                                                      *)
StoreIs ==
    /\ \A v \in Nat : v = Latest => Live = Snap(v)
    /\ \A h \in Nat : h = headVersion => Past = [v \in 1 .. h |-> Snap(v)]

LEMMA StoreNow == StoreInv => StoreIs
<1> SUFFICES ASSUME StoreInv PROVE StoreIs
  OBVIOUS
<1>1. AllHeld /\ Latest \in Nat /\ headVersion \in Nat /\ headVersion <= Latest
  <2>1. AllHeld /\ ZoneTypeOK
    BY HeldNow DEF StoreInv, RangeInv, DataInv, ZoneInv
  <2> QED
    BY <2>1, LatestTyped DEF Latest
<1>2. ASSUME NEW v \in Nat, v = Latest PROVE Live = Snap(v)
  BY <1>1, <1>2 DEF Live, Snap, AllHeld
<1>3. ASSUME NEW h \in Nat, h = headVersion PROVE Past = [v \in 1 .. h |-> Snap(v)]
  <2>1. \A v \in 1 .. h : v \in Nat /\ v <= Latest
    BY <1>1, <1>3
  <2>2. \A v \in 1 .. h : [r \in Refs |-> Contents(r, v)] = Snap(v)
    BY <1>1, <2>1 DEF Snap, AllHeld
  <2> QED
    BY <1>3, <2>2 DEF Past
<1> QED
  BY <1>2, <1>3 DEF StoreIs

LEMMA StoreThen == StoreInv' => StoreIs'
BY StoreNow, PTL

(* The array at r reads as before. *)
Same(r) ==
    /\ IsArray(r)' <=> IsArray(r)
    /\ IsArray(r) => knots'[r].version = knots[r].version /\ arrays'[r].mods = arrays[r].mods

LEMMA SameHeld ==
    ASSUME NEW r \in Refs, Same(r), NEW v
    PROVE  Held(r, v)' = Held(r, v)
<1>1. CASE IsArray(r)
  BY <1>1 DEF Same, Held
<1>2. CASE ~IsArray(r)
  BY <1>2 DEF Same, Held
<1> QED
  BY <1>1, <1>2

LEMMA AllSame ==
    ASSUME NEW v, \A r \in Refs : Same(r)
    PROVE  Snap(v)' = Snap(v)
<1>1. \A r \in Refs : Held(r, v)' = Held(r, v)
  BY SameHeld
<1> QED
  BY <1>1 DEF Snap

LEMMA StoreStutters ==
    ASSUME StoreInv, StoreInv', UNCHANGED <<headVersion, currVersion>>, \A r \in Refs : Same(r)
    PROVE  UNCHANGED Store!storeVars
<1>1. StoreIs /\ StoreIs' /\ Latest \in Nat /\ headVersion \in Nat /\ Latest' = Latest
  BY StoreNow, StoreThen, LatestTyped DEF StoreInv, DataInv, ZoneInv, Latest, Transacting
<1>2. \A v : Snap(v)' = Snap(v)
  BY AllSame
<1>3. Live' = Live
  BY <1>1, <1>2 DEF StoreIs
<1>4. Past' = Past
  BY <1>1, <1>2 DEF StoreIs
<1> QED
  BY <1>3, <1>4 DEF Store!storeVars, Live, Past, Transacting

(* One array is created or changed, in a transaction and for it alone. *)
LEMMA OneChanges ==
    ASSUME StoreInv, StoreInv', UNCHANGED <<headVersion, currVersion>>, Transacting,
           NEW n \in Refs, \A r \in Refs : r # n => Same(r),
           \A v \in 1 .. headVersion : Held(n, v)' = Held(n, v),
           NEW w, w = Latest,
           \/ Store!Created(Held(n, w), Held(n, w)')
           \/ Store!Written(Held(n, w), Held(n, w)')
    PROVE  Store!StoreNext
<1>1. /\ StoreIs /\ StoreIs' /\ w \in Nat /\ headVersion \in Nat /\ Latest' = w
      /\ headVersion' = headVersion
  BY StoreNow, StoreThen, LatestTyped DEF StoreInv, DataInv, ZoneInv, Latest, Transacting
<1>2. ASSUME NEW v \in 1 .. headVersion PROVE Snap(v)' = Snap(v)
  <2>1. \A r \in Refs : Held(r, v)' = Held(r, v)
    BY SameHeld
  <2> QED
    BY <2>1 DEF Snap
<1>3. Past' = Past
  BY <1>1, <1>2 DEF StoreIs
<1>4. Live = Snap(w) /\ Live' = Snap(w)'
  BY <1>1 DEF StoreIs
<1>5. /\ Live[n] = Held(n, w) /\ Live'[n] = Held(n, w)'
      /\ Live' = [Live EXCEPT ![n] = Live'[n]]
  <2>1. \A r \in Refs : r # n => Held(r, w)' = Held(r, w)
    BY SameHeld
  <2>2. /\ Live = [r \in Refs |-> Held(r, w)]
        /\ Live' = [r \in Refs |-> Held(r, w)']
    BY <1>4 DEF Snap
  <2> QED
    BY <2>1, <2>2
<1>6. Store!Created(Live[n], Live'[n]) \/ Store!Written(Live[n], Live'[n])
  BY <1>5
<1>7. \E now \in {Live}, next \in {Live'}, m \in Refs :
         /\ next = [now EXCEPT ![m] = next[m]]
         /\ \/ Store!Created(now[m], next[m])
            \/ Store!Written(now[m], next[m])
            \/ Store!Copied(now[m], next[m])
  BY <1>5, <1>6
<1>8. Transacting /\ UNCHANGED <<Transacting, Past>>
  BY <1>3 DEF Transacting
<1>9. Store!Change
  BY <1>7, <1>8 DEF Store!Change, Live, Past
<1> QED
  BY <1>9 DEF Store!StoreNext

-----------------------------------------------------------------------------
(* The steps of the code are steps of the store *)

LEMMA DatedStep == DataInv /\ Dated /\ [DataNext]_dataVars => Dated'
<1> SUFFICES ASSUME DataInv, Dated, [DataNext]_dataVars PROVE Dated'
  OBVIOUS
<1>1. /\ knots \in [Refs -> Knots] /\ headVersion \in Nat /\ currVersion \in Nat
      /\ Latest \in Nat
      /\ Transacting => Latest = currVersion /\ currVersion = headVersion + 1
  BY LatestTyped DEF DataInv, ZoneInv, ZoneTypeOK, Latest, Transacting
<1>2. \A r \in Refs : knots[r].version \in Nat
  BY KnotTyped DEF DataInv
<1>3. ASSUME UNCHANGED knots, Latest' \in Nat, Latest <= Latest' PROVE Dated'
  BY <1>1, <1>2, <1>3 DEF Dated
<1>4. ASSUME UNCHANGED <<knots, headVersion, currVersion>> PROVE Dated'
  BY <1>4 DEF Dated, Latest, Transacting
<1>5. ASSUME NEW r \in Refs, NEW k, k.version <= Latest, knots' = [knots EXCEPT ![r] = k],
             UNCHANGED <<headVersion, currVersion>>
      PROVE  Dated'
  <2>1. \A q \in Refs : knots'[q].version <= Latest
    BY <1>1, <1>5 DEF Dated
  <2> QED
    BY <1>5, <2>1 DEF Dated, Latest, Transacting
<1>6. CASE UNCHANGED dataVars
  BY <1>4, <1>6 DEF dataVars, zoneVars
<1>7. CASE Begin
  <2>1. Latest' = headVersion + 1 /\ Latest = headVersion /\ UNCHANGED knots
    BY <1>1, <1>7 DEF Begin, Latest, Transacting, VersionNone
  <2> QED
    BY <1>1, <1>3, <2>1
<1>8. CASE End
  <2>1. Latest' = currVersion /\ Latest = currVersion /\ UNCHANGED knots
    BY <1>1, <1>8 DEF End, Latest, Transacting, VersionNone
  <2> QED
    BY <1>1, <1>3, <2>1
<1>9. ASSUME NEW t, NEW size, NEW new \in Refs, RefAlloc(t, size, new) PROVE Dated'
  <2>1. knots' = [knots EXCEPT ![new] = NewKnot] /\ UNCHANGED <<headVersion, currVersion>>
        /\ NewKnot.version <= Latest
    BY <1>1, <1>9 DEF RefAlloc, AllocPlace, NewKnot, FreeKnot
  <2> QED
    BY <1>5, <2>1
<1>10. ASSUME NEW r \in Refs, ElementDealloc(r) PROVE Dated'
  <2> DEFINE k == [knots[r] EXCEPT !.version = VersionNone]
  <2>1. knots' = [knots EXCEPT ![r] = k] /\ UNCHANGED <<headVersion, currVersion>>
    BY <1>10 DEF ElementDealloc, RefDealloc
  <2>2. k.version <= Latest
    BY <1>1 DEF Knots, VersionNone
  <2> HIDE DEF k
  <2> QED
    BY <1>5, <2>1, <2>2
<1>11. ASSUME NEW n, ArrayRefuse(n) PROVE Dated'
  <2>1. PICK new \in Refs : knots' = [knots EXCEPT ![new] = FreeKnot]
    BY <1>11 DEF ArrayRefuse
  <2>2. FreeKnot.version <= Latest
    BY <1>1 DEF FreeKnot, VersionNone
  <2> QED
    BY <1>5, <1>11, <2>1, <2>2 DEF ArrayRefuse
<1>12. ASSUME NEW n, NEW i, NEW w, ArraySet(n, i, w) \/ ArrayUnset(n, i) PROVE Dated'
  BY <1>4, <1>12 DEF ArraySet, ArrayUnset, Extended, zoneVars
<1>13. ArrayNext => Dated'
  BY <1>9, <1>11, <1>12 DEF ArrayNext, ArrayAlloc, ArrayDuplicate
<1>14. StringNext => Dated'
  BY <1>9 DEF StringNext, StringAlloc
<1>15. ASSUME NEW r \in Refs, RefSetLastAlloc(r) PROVE Dated'
  BY <1>4, <1>15 DEF RefSetLastAlloc
<1> QED
  BY <1>6, <1>7, <1>8, <1>10, <1>13, <1>14, <1>15 DEF DataNext

LEMMA StoreInvHolds == DataSpec => []StoreInv
<1>1. DataInit => Dated
  BY DEF DataInit, ZoneInit, Dated, Latest, Transacting, FreeKnot, VersionNone
<1> QED
  BY <1>1, DatedStep, DataInvHolds, RangeInvHolds, PTL DEF DataSpec, StoreInv

(* Who is not given out stays what it is. *)
LEMMA OthersStay ==
    ASSUME ZoneInv, NEW t \in Types, NEW size \in Nat, NEW new \in Refs,
           AllocPlace(t, size, new), NEW r \in Refs, r # new, knots'[r] = knots[r]
    PROVE  IsArray(r)' <=> IsArray(r)
<1>1. /\ Len(pages) \in Nat /\ Len(pages') \in Nat /\ Len(pages) <= Len(pages')
      /\ \A i \in 1 .. Len(pages) : pages'[i] = pages[i]
  BY AllocFindsFree, AllocIsLargeEnough, LenProperties DEF ZoneInv, ZoneTypeOK
<1>2. PageOf(r) \in Nat \ {0}
  BY PageOfIsPositive
<1>3. knots[r].version # VersionNone => PageOf(r) \in 1 .. Len(pages)
  BY <1>1, <1>2 DEF ZoneInv, BeyondUnused
<1> QED
  BY <1>1, <1>2, <1>3 DEF IsArray, Allocated, TypeOf, PageOf

(* What an empty list holds. *)
LEMMA EmptyHeld ==
    ASSUME NEW v \in Nat
    PROVE  [i \in Indices |-> Value(<<>>, v, i)] = Store!Empty
<1>1. <<>> \in Seq(ArrayMods) /\ Len(<<>>) = 0
  BY EmptySeq
<1>2. InVersions(<<>>, v)
  BY <1>1 DEF InVersions
<1>3. \A i \in Indices : Value(<<>>, v, i) = Unset
  BY <1>1, <1>2, AllSeen
<1> QED
  BY <1>3 DEF Store!Empty

(* What is not there yet is of no version up to the head. *)
LEMMA CreatedNow ==
    ASSUME StoreInv, StoreInv', NEW size \in Nat, NEW new \in Refs,
           RefAlloc(Array, size, new), NEW a, a.mods = <<>>,
           arrays' = [arrays EXCEPT ![new] = a]
    PROVE  Store!StoreNext
<1>1. /\ ZoneInv /\ knots \in [Refs -> Knots] /\ Array \in Types
      /\ arrays \in [Refs -> Arrays] /\ Latest \in Nat /\ headVersion \in Nat
      /\ Latest = currVersion /\ headVersion < Latest /\ Transacting
  BY LatestTyped, ArrayAssumption, SizesAssumption
     DEF StoreInv, DataInv, ZoneInv, ZoneTypeOK, ArrayTypeOK, Arrays, ArrayAssumption,
         SizesAssumption, RefAlloc, AllocPlace
<1>2. /\ AllocPlace(Array, size, new) /\ knots' = [knots EXCEPT ![new] = NewKnot]
      /\ UNCHANGED <<headVersion, currVersion>>
  BY DEF RefAlloc
<1>3. ~IsArray(new) /\ IsArray(new)' /\ knots'[new].version = currVersion
      /\ arrays'[new].mods = <<>>
  <2>1. /\ ~Allocated(new) /\ pages'[PageOf(new)].editType = Array
        /\ PageOf(new) <= Len(pages')
    BY <1>1, <1>2, AllocFindsFree, AllocIsLargeEnough
  <2>2. knots'[new].version = currVersion /\ arrays'[new].mods = <<>>
    BY <1>1, <1>2 DEF NewKnot, FreeKnot
  <2> QED
    BY <1>1, <2>1, <2>2 DEF IsArray, Allocated, TypeOf, PageOf, Transacting
<1>4. ASSUME NEW r \in Refs, r # new PROVE Same(r)
  <2>1. knots'[r] = knots[r] /\ arrays'[r] = arrays[r]
    BY <1>1, <1>2, <1>4
  <2> QED
    BY <1>1, <1>2, <1>4, <2>1, OthersStay DEF Same
<1>5. ASSUME NEW v \in 1 .. headVersion PROVE Held(new, v)' = Held(new, v)
  <2>1. ~(knots'[new].version <= v)
    BY <1>1, <1>3
  <2> QED
    BY <1>3, <2>1 DEF Held
<1>6. PICK w \in Nat : w = Latest
  BY <1>1
<1>7. Held(new, w) = Absent /\ Held(new, w)' = Store!Empty
  <2>1. Held(new, w)' = [i \in Indices |-> Value(<<>>, w, i)]
    BY <1>1, <1>3, <1>6 DEF Held
  <2> QED
    BY <1>3, <2>1, EmptyHeld DEF Held
<1>8. Store!Created(Held(new, w), Held(new, w)')
  BY <1>7 DEF Store!Created
<1> QED
  BY <1>1, <1>2, <1>4, <1>5, <1>6, <1>8, OneChanges

(* Entries, or nothing. *)
LEMMA ValueTyped ==
    ASSUME NEW ms \in Seq(ArrayMods), NEW v, NEW i
    PROVE  Value(ms, v, i) \in Data \cup {Unset}
<1> DEFINE A == About(ms, v, i)
<1>1. A \in SUBSET (1 .. Len(ms)) /\ Len(ms) \in Nat
  BY LenProperties DEF About, UpTo
<1>2. ASSUME A # {} PROVE ms[Max(A)].value \in Data \cup {Unset}
  <2> HIDE DEF A
  <2>1. Max(A) \in 1 .. Len(ms)
    BY <1>1, <1>2, MaxLast
  <2>2. ms[Max(A)] \in ArrayMods
    BY <2>1, ElementOfSeq
  <2> QED
    BY <2>2 DEF ArrayMods
<1> QED
  BY <1>2 DEF Value

(* A modifier more is a write, of the open version only. *)
LEMMA WrittenNow ==
    ASSUME StoreInv, StoreInv', NEW n \in Refs, IsArray(n), Transacting,
           NEW i \in Indices, ~Wide(i), defect' = "none", defect = "none",
           NEW index \in {Signed(i), UnsetCode(i)}, NEW last \in Indices, i <= last,
           NEW x \in Data \cup {Unset}, Extended(n, ArrayMod(index, last, x))
    PROVE  Store!StoreNext
<1> DEFINE ms == arrays[n].mods
           m == ArrayMod(index, last, x)
           s == Append(ms, m)
           y == IF index = Signed(i) THEN x ELSE Unset
<1>1. /\ ZoneInv /\ ZoneTypeOK /\ arrays \in [Refs -> Arrays] /\ ms \in Seq(ArrayMods)
      /\ Latest \in Nat /\ headVersion \in Nat /\ Latest = currVersion
      /\ headVersion < Latest /\ InVersions(ms, Latest) /\ Exact(ms) /\ InLast(ms)
      /\ knots[n].version <= Latest
  BY LatestTyped
     DEF StoreInv, DataInv, RangeInv, Dated, ZoneInv, ArrayTypeOK, Arrays
<1>2. m \in ArrayMods /\ m.version = Latest /\ m.index = index /\ m.last = last /\ m.value = x
  BY <1>1, CodesTyped DEF ArrayMod, ArrayMods, ZoneTypeOK
<1>3. arrays' = [arrays EXCEPT ![n].mods = s] /\ UNCHANGED zoneVars
  BY DEF Extended
<1>4. UNCHANGED <<headVersion, currVersion, knots, pages>>
  BY <1>3 DEF zoneVars
<1> HIDE DEF ms, m, s
<1>5. \A r \in Refs : IsArray(r)' <=> IsArray(r)
  BY <1>4 DEF IsArray, Allocated, TypeOf, PageOf
<1>6. arrays'[n].mods = s /\ \A r \in Refs : r # n => arrays'[r] = arrays[r]
  BY <1>1, <1>3 DEF Arrays
<1>7. \A r \in Refs : r # n => Same(r)
  BY <1>4, <1>5, <1>6 DEF Same
<1>8. ASSUME NEW v \in 1 .. headVersion PROVE Held(n, v)' = Held(n, v)
  <2>1. v \in Nat /\ v < m.version
    BY <1>1, <1>2
  <2>2. \A k \in Indices : Value(s, v, k) = Value(ms, v, k)
    BY <1>1, <1>2, <2>1, ValueKept DEF s
  <2>3. [k \in Indices |-> Value(s, v, k)] = [k \in Indices |-> Value(ms, v, k)]
    BY <2>2
  <2> QED
    BY <1>4, <1>5, <1>6, <2>3 DEF Held, ms
<1>9. PICK w \in Nat : w = Latest
  BY <1>1
<1>10. Held(n, w) = [k \in Indices |-> Value(ms, w, k)]
  BY <1>1, <1>9 DEF Held, ms
<1>11. Held(n, w)' = [k \in Indices |-> Value(s, w, k)]
  BY <1>1, <1>4, <1>5, <1>6, <1>9 DEF Held
<1>12. s \in Seq(ArrayMods) /\ Exact(s)
  <2>1. s \in Seq(ArrayMods)
    BY <1>1, <1>2, AppendProperties DEF s
  <2>2. Exact(arrays[n].mods)'
    BY DEF StoreInv, RangeInv
  <2>3. Exact(s)
    BY <1>6, <2>2 DEF Exact
  <2> QED
    BY <2>1, <2>3
<1>13. \A k \in Indices : Value(s, w, k) = IF k = i THEN y ELSE Value(ms, w, k)
  BY <1>1, <1>2, <1>9, <1>12, ValueAppended DEF s
<1>14. y \in Data \cup {Unset}
  OBVIOUS
<1> HIDE DEF y
<1>15. Held(n, w)' = [Held(n, w) EXCEPT ![i] = y]
  BY <1>10, <1>11, <1>13
<1>16. Held(n, w) # Absent /\ Held(n, w)' # Absent
  <2>1. \A k \in Indices : Value(ms, w, k) \in Data \cup {Unset}
                           /\ Value(s, w, k) \in Data \cup {Unset}
    BY <1>1, <1>12, ValueTyped
  <2>2. /\ Held(n, w) \in [Indices -> Data \cup {Unset}]
        /\ Held(n, w)' \in [Indices -> Data \cup {Unset}]
    BY <1>10, <1>11, <2>1
  <2> QED
    BY <2>2, AbsentAssumption DEF AbsentAssumption
<1>17. Store!Written(Held(n, w), Held(n, w)')
  BY <1>14, <1>15, <1>16 DEF Store!Written
<1> QED
  BY <1>4, <1>7, <1>8, <1>9, <1>17, OneChanges

(* Versions that nothing is newer than read alike.                           *)
LEMMA HeldLater ==
    ASSUME StoreInv, NEW r \in Refs, NEW v \in Nat, NEW w \in Nat, Latest <= v, Latest <= w
    PROVE  Held(r, v) = Held(r, w)
<1>1. /\ Latest \in Nat /\ knots[r].version \in Nat /\ knots[r].version <= Latest
      /\ arrays[r].mods \in Seq(ArrayMods) /\ InVersions(arrays[r].mods, Latest)
  BY LatestTyped, KnotTyped DEF StoreInv, DataInv, ZoneInv, ArrayTypeOK, Dated
<1> DEFINE ms == arrays[r].mods
<1>2. InVersions(ms, v) /\ InVersions(ms, w)
  BY <1>1, LaterVersions
<1>3. ms \in Seq(ArrayMods)
  BY <1>1
<1> HIDE DEF ms
<1>4. ASSUME NEW i \in Indices PROVE Value(ms, v, i) = Value(ms, w, i)
  <2>1. UpTo(ms, v) = UpTo(ms, w) /\ About(ms, v, i) = About(ms, w, i)
    <3>1. UpTo(ms, v) = 1 .. Len(ms) /\ UpTo(ms, w) = 1 .. Len(ms)
      BY <1>2, <1>3, AllSeen
    <3> QED
      BY <3>1 DEF About
  <2> QED
    BY <2>1 DEF Value
<1>5. knots[r].version <= v /\ knots[r].version <= w
  BY <1>1
<1> QED
  BY <1>4, <1>5 DEF Held, ms

LEMMA BeginNow ==
    ASSUME StoreInv, StoreInv', Begin, UNCHANGED <<arrayVars, strings>>
    PROVE  Store!StoreNext
<1>1. PICK h \in Nat : h = headVersion
  BY LatestTyped DEF StoreInv, DataInv, ZoneInv
<1>2. /\ ~Transacting /\ Transacting' /\ Latest = h /\ Latest' = h + 1
      /\ headVersion' = h /\ UNCHANGED <<pages, knots, arrays>>
  BY <1>1 DEF Begin, Transacting, Latest, VersionNone, arrayVars
<1>3. StoreIs /\ StoreIs' /\ h + 1 \in Nat
  BY StoreNow, StoreThen
<1>4. \A r \in Refs : Same(r)
  BY <1>2 DEF Same, IsArray, Allocated, TypeOf, PageOf
<1>5. \A v : Snap(v)' = Snap(v)
  BY <1>4, AllSame
<1>6. Past' = Past
  BY <1>1, <1>2, <1>3, <1>5 DEF StoreIs
<1>7. Snap(h + 1) = Snap(h)
  <2>1. \A r \in Refs : Held(r, h + 1) = Held(r, h)
    BY <1>2, <1>3, HeldLater
  <2> QED
    BY <2>1 DEF Snap
<1>8. Live' = Live
  <2>1. Live = Snap(h)
    BY <1>2, <1>3 DEF StoreIs
  <2>2. Live' = Snap(h + 1)'
    BY <1>2, <1>3 DEF StoreIs
  <2> QED
    BY <1>5, <1>7, <2>1, <2>2
<1> QED
  BY <1>2, <1>6, <1>8 DEF Store!StoreNext, Store!BeginVersion, Live, Past, Transacting

(* A list of one more. *)
LEMMA OneMore ==
    ASSUME NEW h \in Nat
    PROVE  [v \in 1 .. h + 1 |-> Snap(v)] = Append([v \in 1 .. h |-> Snap(v)], Snap(h + 1))
<1> DEFINE S == {Snap(v) : v \in Nat}
           s == [v \in 1 .. h |-> Snap(v)]
           t == [v \in 1 .. h + 1 |-> Snap(v)]
<1>1. s \in Seq(S) /\ Len(s) = h
  OBVIOUS
<1>2. t \in Seq(S) /\ Len(t) = h + 1
  OBVIOUS
<1>3. Snap(h + 1) \in S
  OBVIOUS
<1> HIDE DEF S
<1>4. /\ \A i \in 1 .. h : t[i] = s[i]
      /\ t[h + 1] = Snap(h + 1)
  OBVIOUS
<1> HIDE DEF s, t
<1>5. /\ Append(s, Snap(h + 1)) \in Seq(S) /\ Len(Append(s, Snap(h + 1))) = h + 1
      /\ \A i \in 1 .. h : Append(s, Snap(h + 1))[i] = s[i]
      /\ Append(s, Snap(h + 1))[h + 1] = Snap(h + 1)
  BY <1>1, <1>3, AppendProperties
<1>6. \A i \in 1 .. h + 1 : t[i] = Append(s, Snap(h + 1))[i]
  BY <1>4, <1>5
<1>7. t = Append(s, Snap(h + 1))
  BY <1>2, <1>5, <1>6, SeqEqual
<1> QED
  BY <1>7 DEF s, t

LEMMA EndNow ==
    ASSUME StoreInv, StoreInv', End, UNCHANGED <<arrayVars, strings>>
    PROVE  Store!StoreNext
<1>1. PICK h \in Nat : h = headVersion
  BY LatestTyped DEF StoreInv, DataInv, ZoneInv
<1>2. /\ Transacting /\ ~Transacting' /\ Latest = h + 1 /\ Latest' = h + 1
      /\ headVersion' = h + 1 /\ UNCHANGED <<pages, knots, arrays>>
  <2>1. Latest = h + 1 /\ currVersion = h + 1
    BY <1>1, LatestTyped DEF StoreInv, DataInv, ZoneInv, End
  <2> QED
    BY <1>1, <2>1 DEF End, Transacting, Latest, arrayVars
<1>3. StoreIs /\ StoreIs' /\ h + 1 \in Nat
  BY StoreNow, StoreThen
<1>4. \A r \in Refs : Same(r)
  BY <1>2 DEF Same, IsArray, Allocated, TypeOf, PageOf
<1>5. \A v : Snap(v)' = Snap(v)
  BY <1>4, AllSame
<1>6. Live = Snap(h + 1) /\ Live' = Snap(h + 1)
  <2>1. Live = Snap(h + 1)
    BY <1>2, <1>3 DEF StoreIs
  <2>2. Live' = Snap(h + 1)'
    BY <1>2, <1>3 DEF StoreIs
  <2> QED
    BY <1>5, <2>1, <2>2
<1>7. Past' = Append(Past, Live)
  <2>1. Past = [v \in 1 .. h |-> Snap(v)]
    BY <1>1, <1>3 DEF StoreIs
  <2>2. Past' = [v \in 1 .. h + 1 |-> Snap(v)']
    BY <1>2, <1>3 DEF StoreIs
  <2>3. Past' = [v \in 1 .. h + 1 |-> Snap(v)]
    BY <1>5, <2>2
  <2> QED
    BY <1>6, <2>1, <2>3, OneMore
<1> QED
  BY <1>2, <1>6, <1>7 DEF Store!StoreNext, Store!EndVersion, Live, Past, Transacting

LEMMA AbstractStep ==
    ASSUME StoreInv, StoreInv', [DataNext]_dataVars, defect' = "none",
           \A r \in Refs : IsArray(r) => Allocated(r)'
    PROVE  Store!StoreNext \/ UNCHANGED Store!storeVars
<1>1. /\ ZoneInv /\ knots \in [Refs -> Knots] /\ arrays \in [Refs -> Arrays]
      /\ Array \in Types /\ ArrayTypeOK
  BY ArrayAssumption, SizesAssumption
     DEF StoreInv, DataInv, ZoneInv, ZoneTypeOK, ArrayTypeOK, Arrays, ArrayAssumption,
         SizesAssumption
<1>2. ASSUME UNCHANGED <<headVersion, currVersion, pages, knots, arrays>>
      PROVE  UNCHANGED Store!storeVars
  <2>1. \A r \in Refs : Same(r)
    BY <1>2 DEF Same, IsArray, Allocated, TypeOf, PageOf
  <2> QED
    BY <1>2, <2>1, StoreStutters
<1>3. CASE UNCHANGED dataVars
  BY <1>2, <1>3 DEF dataVars, zoneVars, arrayVars
<1>4. CASE Begin /\ UNCHANGED <<arrayVars, strings>>
  BY <1>4, BeginNow
<1>5. CASE End /\ UNCHANGED <<arrayVars, strings>>
  BY <1>5, EndNow
<1>6. ASSUME NEW r \in Refs, RefSetLastAlloc(r), UNCHANGED <<arrayVars, strings>>
      PROVE  UNCHANGED Store!storeVars
  BY <1>2, <1>6 DEF RefSetLastAlloc, arrayVars
<1>7. ASSUME NEW q \in Refs, ElementDealloc(q) PROVE UNCHANGED Store!storeVars
  <2>1. /\ Allocated(q) /\ knots' = [knots EXCEPT ![q].version = VersionNone]
        /\ UNCHANGED <<headVersion, currVersion, pages>>
        /\ arrays' = [arrays EXCEPT ![q] = Blank]
    BY <1>7 DEF ElementDealloc, RefDealloc
  <2>2. /\ knots'[q].version = VersionNone
        /\ \A r \in Refs : r # q => knots'[r] = knots[r] /\ arrays'[r] = arrays[r]
    BY <1>1, <2>1 DEF Knots
  <2>3. ~IsArray(q) /\ ~IsArray(q)'
    BY <2>1, <2>2 DEF IsArray, Allocated
  <2>4. \A r \in Refs : Same(r)
    BY <2>1, <2>2, <2>3 DEF Same, IsArray, Allocated, TypeOf, PageOf
  <2> QED
    BY <2>1, <2>4, StoreStutters
<1>8. ASSUME NEW x \in Texts, NEW new \in Refs, StringAlloc(x, new), UNCHANGED arrayVars
      PROVE  UNCHANGED Store!storeVars
  <2>1. /\ ClassOf[x] \in Types /\ ClassOf[x] # Array /\ EditBSize[ClassOf[x]] \in Nat
    BY StringAssumption, SizesAssumption, ArrayAssumption
       DEF StringAssumption, SizesAssumption, ArrayAssumption
  <2>2. /\ AllocPlace(ClassOf[x], EditBSize[ClassOf[x]], new)
        /\ knots' = [knots EXCEPT ![new] = NewKnot]
        /\ UNCHANGED <<headVersion, currVersion, arrays>>
    BY <1>8 DEF StringAlloc, RefAlloc, arrayVars
  <2>3. ~IsArray(new) /\ ~IsArray(new)'
    <3>1. ~Allocated(new) /\ pages'[PageOf(new)].editType = ClassOf[x]
      BY <1>1, <2>1, <2>2, AllocFindsFree, AllocIsLargeEnough
    <3> QED
      BY <2>1, <3>1 DEF IsArray, TypeOf, PageOf
  <2>4. ASSUME NEW r \in Refs, r # new PROVE Same(r)
    <3>1. knots'[r] = knots[r]
      BY <1>1, <2>2, <2>4
    <3> QED
      BY <1>1, <2>1, <2>2, <2>4, <3>1, OthersStay DEF Same
  <2>5. \A r \in Refs : Same(r)
    BY <2>3, <2>4 DEF Same
  <2> QED
    BY <2>2, <2>5, StoreStutters
<1>9. ASSUME NEW max \in 1 .. MaxMods, NEW stride \in Strides, NEW new \in Refs,
             ArrayAlloc(max, stride, new)
      PROVE  Store!StoreNext
  <2> DEFINE a == [max |-> max, stride |-> stride, mods |-> <<>>]
  <2>1. a \in Arrays /\ a.mods = <<>> /\ a.max = max /\ a.stride = stride
    <3>1. <<>> \in Seq(ArrayMods) /\ max \in 0 .. MaxMods
      BY EmptySeq, ArrayAssumption DEF ArrayAssumption
    <3> QED
      BY <3>1 DEF Arrays
  <2>2. arrays' = [arrays EXCEPT ![new] = a]
        /\ RefAlloc(Array, ArrayElementBSize(max, stride), new)
    BY <1>9 DEF ArrayAlloc
  <2> HIDE DEF a
  <2>3. ArrayElementBSize(max, stride) \in Nat
    BY <2>1, ArraySized
  <2> QED
    BY <2>1, <2>2, <2>3, CreatedNow
<1>10. ASSUME NEW n, IsArray(n) PROVE n \in Refs /\ pages[PageOf(n)].editBSize \in Nat
  <2>1. n \in Refs /\ PageOf(n) <= Len(pages) /\ pages \in Seq(PageRecords)
    BY <1>1, <1>10 DEF IsArray, Allocated, ZoneInv, ZoneTypeOK, PageRecords
  <2>2. PageOf(n) \in 1 .. Len(pages)
    BY <2>1, PageOfIsPositive, LenProperties
  <2>3. pages[PageOf(n)] \in PageRecords
    BY <2>1, <2>2, ElementOfSeq
  <2> QED
    BY <2>1, <2>3, UIntsAreNat DEF PageRecords
<1>11. ASSUME NEW q, NEW new \in Refs, NEW v, ArrayDuplicate(q, v, new)
       PROVE  Store!StoreNext
  <2>1. PICK n \in {Revise(q, v)} :
          IsArray(n) /\ RefAlloc(Array, pages[PageOf(n)].editBSize, new)
    BY <1>11 DEF ArrayDuplicate
  <2>2. pages[PageOf(n)].editBSize \in Nat
    BY <1>10, <2>1
  <2>3. arrays' = [arrays EXCEPT ![new] = Blank]
    BY <1>11 DEF ArrayDuplicate
  <2> QED
    BY <2>1, <2>2, <2>3, BlankTyped, CreatedNow
<1>12. ASSUME NEW n, NEW i \in Indices, NEW x \in Data, ArraySet(n, i, x)
       PROVE  Store!StoreNext
  <2>1. /\ Transacting /\ IsArray(n) /\ n \in Refs
        /\ Extended(n, ArrayMod(Signed(i), Max({LastSet(n), i}), x))
        /\ defect' = IF Wide(i) THEN "wide" ELSE defect
    BY <1>10, <1>12 DEF ArraySet
  <2>2. ~Wide(i) /\ defect = "none"
    BY <2>1
  <2>3. LastSet(n) \in Indices /\ LastSet(n) \in Int /\ i \in Int
    BY <1>1, <2>1, LastSetTyped, CodesTyped
  <2>4. Max({LastSet(n), i}) \in Indices /\ i <= Max({LastSet(n), i})
    BY <2>3, MaxOfTwo
  <2> QED
    BY <2>1, <2>2, <2>4, WrittenNow
<1>13. ASSUME NEW n, NEW i \in Indices, ArrayUnset(n, i)
       PROVE  Store!StoreNext
  <2>1. /\ Transacting /\ IsArray(n) /\ n \in Refs /\ i <= LastSet(n)
        /\ Extended(n, ArrayMod(UnsetCode(i), LastSet(n), Unset))
        /\ defect' = IF Wide(i) THEN "wide" ELSE defect
    BY <1>10, <1>13 DEF ArrayUnset
  <2>2. ~Wide(i) /\ defect = "none"
    BY <2>1
  <2>3. LastSet(n) \in Indices
    BY <1>1, <2>1, LastSetTyped
  <2> QED
    BY <2>1, <2>2, <2>3, WrittenNow
<1>14. ASSUME NEW n, ArrayRefuse(n) PROVE UNCHANGED Store!storeVars
  <2>1. PICK new \in Refs :
          /\ AllocPlace(Array, pages[PageOf(n)].editBSize, new)
          /\ knots' = [knots EXCEPT ![new] = FreeKnot]
    BY <1>14 DEF ArrayRefuse
  <2>2. /\ pages[PageOf(n)].editBSize \in Nat
        /\ UNCHANGED <<headVersion, currVersion, arrays>>
    BY <1>10, <1>14 DEF ArrayRefuse
  <2>3. ~IsArray(new) /\ ~IsArray(new)'
    <3>1. ~Allocated(new) /\ knots'[new].version = VersionNone
      BY <1>1, <2>1, <2>2, AllocFindsFree DEF FreeKnot
    <3> QED
      BY <3>1 DEF IsArray, Allocated
  <2>4. ASSUME NEW r \in Refs, r # new PROVE Same(r)
    <3>1. knots'[r] = knots[r]
      BY <1>1, <2>1, <2>4
    <3> QED
      BY <1>1, <2>1, <2>2, <2>4, <3>1, OthersStay DEF Same
  <2>5. \A r \in Refs : Same(r)
    BY <2>3, <2>4 DEF Same
  <2> QED
    BY <2>2, <2>5, StoreStutters
<1>15. ArrayNext => Store!StoreNext \/ UNCHANGED Store!storeVars
  BY <1>9, <1>11, <1>12, <1>13, <1>14 DEF ArrayNext
<1>16. StringNext /\ UNCHANGED arrayVars => UNCHANGED Store!storeVars
  BY <1>8 DEF StringNext
<1> QED
  BY <1>3, <1>4, <1>5, <1>6, <1>7, <1>15, <1>16 DEF DataNext

LEMMA AbstractInit == DataInit => Store!StoreInit
<1> SUFFICES ASSUME DataInit PROVE Store!StoreInit
  OBVIOUS
<1>1. /\ headVersion = 0 /\ ~Transacting /\ \A r \in Refs : ~IsArray(r)
  BY DEF DataInit, ZoneInit, IsArray, Allocated, Transacting, FreeKnot, VersionNone
<1>2. Live = [r \in Refs |-> Absent]
  BY <1>1 DEF Live, Contents
<1>3. Past = <<>>
  BY <1>1 DEF Past
<1> QED
  BY <1>1, <1>2, <1>3 DEF Store!StoreInit, Live, Past, Transacting

-----------------------------------------------------------------------------
(* Theorems *)

(* No call on arrays and strings leaves the zone, an array or a string in a  *)
(* state that is none, whatever the zone gives back and gives out again.     *)
THEOREM DataTypeCorrect == DataSpec => []TypeOK
<1>1. DataInv => TypeOK
  BY DEF DataInv, TypeOK, ZoneInv
<1> QED
  BY <1>1, DataInvHolds, PTL

(* An array lies within the element it was given, for any capacities and     *)
(* strides for which what it needs is a fm_uint: fm_refAlloc looks for       *)
(* elements that are large enough, and aligns those of a new page up.        *)
THEOREM ArraysKeepToElements == DataSpec => []ArraysFit
<1>1. DataInv => ArraysFit
  <2> SUFFICES ASSUME DataInv, NEW r \in Refs, IsArray(r)
               PROVE  /\ Len(arrays[r].mods) <= arrays[r].max
                      /\ arrays[r] = Blank \/ Overlong(arrays[r]) \/
                           NeededBSize(arrays[r].max, arrays[r].stride)
                             <= pages[PageOf(r)].editBSize
    BY DEF ArraysFit
  <2>1. arrays[r] \in Arrays /\ Fits(arrays[r], pages[PageOf(r)].editBSize)
    BY DEF DataInv, ArrayTypeOK, Arrays
  <2>2. NeededBSize(arrays[r].max, arrays[r].stride) \in Nat /\ UIntMod \in Nat
    BY <2>1, ArraySized, SizesAssumption DEF SizesAssumption
  <2> QED
    BY <2>1, <2>2, ArraySized DEF Fits, Overlong
<1> QED
  BY <1>1, DataInvHolds, PTL

(* _arrayCheck holds as long as indices are ints: versions do not decrease   *)
(* and no modifier is about an index beyond the last one.                    *)
THEOREM ArraysPassTheirCheck == DataSpec => []ArrayChecked
<1>1. DataInv => ArrayChecked
  BY DEF DataInv, ArrayChecked, InVersions, InLast
<1> QED
  BY <1>1, DataInvHolds, PTL

(* As long as indices are ints, fm_arrayRange of a version is one past the   *)
(* greatest index set by then, for any capacities, versions and entries: a   *)
(* reader that loops to it misses none, whatever was unset meanwhile.        *)
THEOREM RangesAreExact == DataSpec => []RangeExact
<1>1. DataInv /\ RangeInv => RangeExact
  <2> SUFFICES ASSUME DataInv, RangeInv, defect = "none", NEW r \in Refs, IsArray(r),
                      NEW v \in knots[r].version .. VersionHead
               PROVE  ArrayRange(r, v) =
                        Max({0} \cup {m.index + 1 : m \in
                          {n \in Range(arrays[r].mods) :
                             n.version <= AtVersion(v) /\ n.index >= 0}})
    BY DEF RangeExact
  <2> DEFINE ms == arrays[r].mods
             w == AtVersion(v)
             D == UpTo(ms, w)
  <2>1. /\ ms \in Seq(ArrayMods) /\ Exact(ms) /\ Len(ms) \in Nat /\ D \subseteq 1 .. Len(ms)
        /\ Allocated(r) /\ r # BadRef
    BY LenProperties, BadIsNone
       DEF DataInv, ArrayTypeOK, RangeInv, UpTo, IsArray
  <2>2. w \in Int /\ MaxInt \in Nat
    BY LatestTyped, KnotTyped, ArrayAssumption
       DEF AtVersion, DataInv, ZoneInv, ArrayAssumption
  <2>3. Seen(r, v) = [j \in D |-> ms[j]]
    BY <2>1, FindsItself DEF Seen, DataInv, RangeInv
  <2> HIDE DEF D, w, ms
  <2>4. CASE D = {}
    <3>1. ArrayRange(r, v) = 0
      BY <2>3, <2>4 DEF ArrayRange
    <3> QED
      BY <2>1, <2>4, <3>1, NoneSeen DEF D, w, ms
  <2>5. CASE D # {}
    <3> DEFINE k == Max(D)
    <3>1. k \in D /\ \A j \in D : j <= k
      BY <2>1, <2>5, MaxLast
    <3>2. LastOf(Seen(r, v)) = ms[k].last
      BY <2>3, <3>1 DEF LastOf
    <3>3. ArrayRange(r, v) = (ms[k].last + 1) % (2 * (MaxInt + 1))
      BY <2>3, <2>5, <3>2 DEF ArrayRange
    <3> HIDE DEF k
    <3>4. /\ ms[k].last \in 0 .. MaxInt
          /\ Max({0} \cup {m.index + 1 : m \in
                {n \in Range(ms) : n.version <= w /\ n.index >= 0}}) = ms[k].last + 1
      BY <2>1, <2>2, <3>1, RangeOfSeen DEF D
    <3>5. (ms[k].last + 1) % (2 * (MaxInt + 1)) = ms[k].last + 1
      BY <2>2, <3>4, NoWrap
    <3> QED
      BY <3>3, <3>4, <3>5 DEF ms, w
  <2> QED
    BY <2>4, <2>5
<1> QED
  BY <1>1, DataInvHolds, RangeInvHolds, PTL

(* For any sizes and texts: a text that fm_stringFind found at or before the *)
(* last reference given out for its type is found there as long as it is not *)
(* given back, whatever is allocated, refused and given back meanwhile.      *)
THEOREM FoundIsKept == DataSpec => FoundStays
<1>1. DataInv /\ [DataNext]_dataVars =>
        \A x \in Texts, r \in Refs : FoundKept(x, r)
  BY FoundStep
<1>2. DataInv /\ [DataNext]_dataVars =>
        [\A x \in Texts, r \in Refs :
           r = StringFind(x) /\ r <= lastRefs[ClassOf[x]] /\ Allocated(r)'
           => StringFind(x)' = r]_<<zoneVars, strings>>
  BY <1>1 DEF FoundKept
<1> QED
  BY <1>2, DataInvHolds, PTL DEF DataSpec, FoundStays

(* For any sizes, capacities, indices and entries: as long as no array is    *)
(* given back and indices are ints, arrays are the store that the fat model  *)
(* promises.  fm_arraySet and fm_arrayUnset change one entry as the open     *)
(* transaction sees it, fm_end keeps what it saw as the next version, and    *)
(* no call changes what fm_arrayGet reads in a version that was kept.        *)
THEOREM ArraysAreVersioned == DataSpec => Versioned
<1>1. StoreInv /\ StoreInv' /\ [DataNext]_dataVars =>
        [defect' = "none" /\ (\A r \in Refs : IsArray(r) => Allocated(r)')
         => Store!StoreNext \/ UNCHANGED Store!storeVars]_dataVars
  BY AbstractStep
<1> QED
  BY <1>1, AbstractInit, StoreInvHolds, PTL DEF DataSpec, Versioned
=============================================================================
