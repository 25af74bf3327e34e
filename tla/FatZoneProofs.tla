--------------------------- MODULE FatZoneProofs ---------------------------
(***************************************************************************)
(* The zone of the fat model for any types and sizes of their elements,    *)
(* pages and zones: whatever the calls and their order, the pages lie apart *)
(* inside the zone, an allocation gives out nothing that is in use, the    *)
(* revisions of an element stay in use and in order, and the search for    *)
(* one finds it.                                                           *)
(***************************************************************************)
EXTENDS FatZone, SequenceTheorems, WellFoundedInduction, TLAPS

PageRecords ==
    [editType : Types, editBSize : UInts, pgAddr : Nat, loAddr : Nat, hiAddr : Nat]

(* Knots of pages the directory does not hold yet are free: a page that is
   added brings no element into use. *)
BeyondUnused ==
    \A r \in Refs : PageOf(r) > Len(pages) => knots[r].version = VersionNone

ZoneInv == ZoneTypeOK /\ BeyondUnused

-----------------------------------------------------------------------------
(* Arithmetic of pages and addresses *)

(* Each set of naturals has a least member. *)
LEMMA NatMin == ASSUME NEW T \in SUBSET Nat, T # {} PROVE \E x \in T : \A y \in T : x <= y
<1> DEFINE R == OpToRel(<, Nat)
<1>1. IsWellFoundedOn(R, Nat)
  BY NatLessThanWellFounded
<1>2. \A a, b \in Nat : a < b => <<a, b>> \in R
  BY DEF OpToRel
<1> HIDE DEF R
<1>3. PICK x \in T : \A y \in T : ~(<<y, x>> \in R)
  BY <1>1, WFMin
<1>4. ASSUME NEW y \in T PROVE x <= y
  <2>1. x \in Nat /\ y \in Nat /\ ~(<<y, x>> \in R)
    BY <1>3
  <2>2. ~(y < x)
    BY <1>2, <2>1
  <2> QED
    BY <2>1, <2>2
<1> QED
  BY <1>4

(* A set of places in a list has a last one, which Max gives. *)
LEMMA MaxLast ==
    ASSUME NEW e \in Nat, NEW S \in SUBSET (1 .. e), S # {}
    PROVE  Max(S) \in S /\ \A y \in S : y <= Max(S)
<1> DEFINE T == {e - x : x \in S}
<1>1. T \in SUBSET Nat /\ T # {}
  <2>1. \A x \in S : x \in 1 .. e /\ e - x \in Nat
    OBVIOUS
  <2>2. T \subseteq Nat
    BY <2>1
  <2> QED
    BY <2>2
<1>2. PICK d \in T : \A t \in T : d <= t
  BY <1>1, NatMin
<1>3. PICK x \in S : d = e - x
  BY <1>2
<1>4. ASSUME NEW y \in S PROVE x >= y
  <2>1. d <= e - y
    BY <1>2
  <2> QED
    BY <1>3, <2>1
<1>5. \E z \in S : \A y \in S : z >= y
  BY <1>3, <1>4
<1>6. Max(S) \in S /\ \A y \in S : Max(S) >= y
  BY <1>5 DEF Max
<1>7. ASSUME NEW y \in S PROVE y <= Max(S)
  BY <1>6
<1> QED
  BY <1>6, <1>7

LEMMA AlignsUp ==
    ASSUME NEW a \in Nat, NEW n \in {8, 64}
    PROVE  AlignBytes(a, n) \in Nat /\ AlignBytes(a, n) >= a /\ AlignBytes(a, n) % n = 0
<1>1. CASE n = 8
  BY <1>1 DEF AlignBytes
<1>2. CASE n = 64
  BY <1>2 DEF AlignBytes
<1> QED
  BY <1>1, <1>2

LEMMA SizesAreSizes ==
    ASSUME NEW t \in Types, NEW size \in SizesOf(t)
    PROVE  size \in Nat /\ size \in UInts
BY SizesAssumption DEF SizesAssumption, SizesOf, UInts

(* What is left of a number in a fm_uint. *)
LEMMA UIntOf ==
    ASSUME NEW x \in Nat
    PROVE  /\ x % UIntMod \in UInts /\ x % UIntMod \in Nat
           /\ x < UIntMod => x % UIntMod = x
           /\ x = UIntMod => x % UIntMod = 0
<1>1. \A m \in Nat \ {0} : /\ x % m \in 0 .. m - 1
                            /\ x < m => x % m = x
                            /\ m % m = 0
  OBVIOUS
<1>2. UIntMod \in Nat \ {0}
  BY SizesAssumption DEF SizesAssumption
<1> QED
  BY <1>1, <1>2 DEF UInts

(* Elements are at least as large as the caller wants them, or too large to  *)
(* be told and 0.                                                            *)
LEMMA ElementsFit ==
    ASSUME NEW t \in Types, NEW size \in UInts
    PROVE  PageElementBSize(t, size) # 0 => PageElementBSize(t, size) >= size
<1>1. size \in Nat /\ size < UIntMod /\ UIntMod \in Nat /\ UIntMod % 8 = 0
  BY SizesAssumption DEF SizesAssumption, UInts
<1>2. AlignBytes(size, 8) \in Nat /\ AlignBytes(size, 8) >= size
  BY <1>1, AlignsUp
<1>3. AlignBytes(size, 8) <= UIntMod
  BY <1>1 DEF AlignBytes
<1>4. CASE t \in Sized
  BY <1>1, <1>2, <1>3, <1>4, UIntOf DEF PageElementBSize
<1>5. CASE t \notin Sized
  BY <1>1, <1>5, UIntOf DEF PageElementBSize
<1> QED
  BY <1>4, <1>5

(* ... and the bytes of all of a page are what they need, if a fm_uint tells *)
(* it.                                                                       *)
LEMMA AllElementsFit ==
    ASSUME NEW el \in UInts
    PROVE  /\ AllElementsBSize(el) \in Nat
           /\ el * PageLoad < UIntMod => AllElementsBSize(el) = PageLoad * el
<1>1. el \in Nat /\ PageLoad \in Nat
  BY SizesAssumption DEF SizesAssumption, UInts
<1>2. \A a, b \in Nat : a * b \in Nat /\ a * b = b * a
  OBVIOUS
<1>3. el * PageLoad \in Nat /\ el * PageLoad = PageLoad * el
  BY <1>1, <1>2
<1> QED
  BY <1>3, UIntOf DEF AllElementsBSize

(* The page fm_extend places: aligned, behind the last one, with room for
   its header and its elements. *)
LEMMA PlacedWell ==
    ASSUME NEW t \in Types, NEW size \in Nat, bsAddr \in Nat
    PROVE  LET p == PagePlaced(t, size) IN
           /\ p \in PageRecords
           /\ p.editType = t
           /\ p.pgAddr % 64 = 0 /\ p.loAddr % 64 = 0
           /\ p.pgAddr >= bsAddr
           /\ p.loAddr >= p.pgAddr + PageBSize
           /\ p.hiAddr >= p.loAddr
           /\ p.editBSize * PageLoad < UIntMod =>
                p.hiAddr >= p.loAddr + PageLoad * p.editBSize
<1> DEFINE pg == AlignBytes(bsAddr, 64)
           lo == AlignBytes(pg + PageBSize, 64)
           el == PageElementBSize(t, size)
           all == AllElementsBSize(el)
<1>1. pg \in Nat /\ pg >= bsAddr /\ pg % 64 = 0
  BY AlignsUp
<1>2. PageBSize \in Nat /\ pg + PageBSize \in Nat
  BY <1>1, SizesAssumption DEF SizesAssumption
<1>3. lo \in Nat /\ lo >= pg + PageBSize /\ lo % 64 = 0
  BY <1>2, AlignsUp
<1>4. PagePlaced(t, size) = [editType |-> t, editBSize |-> el, pgAddr |-> pg, loAddr |-> lo,
                             hiAddr |-> lo + all]
  BY DEF PagePlaced
<1>5. el \in UInts
  BY UIntOf, AlignsUp DEF PageElementBSize
<1>6. all \in Nat /\ (el * PageLoad < UIntMod => all = PageLoad * el)
  BY <1>5, AllElementsFit
<1>7. lo + all \in Nat /\ lo + all >= lo
  BY <1>3, <1>6
<1> HIDE DEF pg, lo, el, all
<1>8. el * PageLoad < UIntMod => lo + all >= lo + PageLoad * el
  <2> SUFFICES ASSUME el * PageLoad < UIntMod PROVE lo + all >= lo + PageLoad * el
    OBVIOUS
  <2>1. all = PageLoad * el
    BY <1>6
  <2>2. lo + all >= lo + all
    BY <1>3, <1>6
  <2> QED
    BY <2>1, <2>2
<1> QED
  BY <1>1, <1>2, <1>3, <1>4, <1>5, <1>7, <1>8 DEF PageRecords

LEMMA PageOfIsPositive ==
    ASSUME NEW r \in Refs
    PROVE  PageOf(r) \in Nat \ {0}
<1>1. r \in Nat /\ PageLoad \in Nat \ {0}
  BY SizesAssumption DEF Refs, SizesAssumption
<1>2. r \div PageLoad \in Nat
  BY <1>1
<1> QED
  BY <1>2 DEF PageOf

(* The first reference of the page behind the last one. *)
LEMMA FirstOfNewPage ==
    ASSUME NEW n \in Nat
    PROVE  PageOf(n * PageLoad) = n + 1
<1>1. \A p \in Nat \ {0} : (n * p) \div p = n
  OBVIOUS
<1> QED
  BY <1>1, SizesAssumption DEF PageOf, SizesAssumption

(* What adding a page does to the directory. *)
LEMMA DirectoryGrows ==
    ASSUME ZoneTypeOK, NEW t \in Types, NEW size \in Nat,
           CanExtend(t, size), AddPage(t, size)
    PROVE  /\ pages' \in Seq(PageRecords)
           /\ Len(pages') = Len(pages) + 1
           /\ Len(pages') <= DirectoryLoad
           /\ \A i \in 1 .. Len(pages) : pages'[i] = pages[i]
           /\ pages'[Len(pages) + 1] = PagePlaced(t, size)
           /\ bsAddr' \in Nat
<1>1. pages \in Seq(PageRecords) /\ Len(pages) <= DirectoryLoad
  BY DEF ZoneTypeOK, PageRecords
<1>2. bsAddr \in Nat
  BY DEF ZoneTypeOK
<1>3. PagePlaced(t, size) \in PageRecords
  BY <1>2, PlacedWell
<1>4. bsAddr' \in Nat
  BY <1>3 DEF AddPage, PageRecords
<1>5. Len(pages) \in Nat /\ DirectoryLoad \in Nat
  BY <1>1, LenProperties, SizesAssumption DEF SizesAssumption
<1>6. Len(pages) # DirectoryLoad
  BY DEF CanExtend
<1> QED
  BY <1>1, <1>3, <1>4, <1>5, <1>6, AppendProperties DEF AddPage
-----------------------------------------------------------------------------
(* Types *)

LEMMA ZoneInitInv == ZoneInit => ZoneInv
<1> SUFFICES ASSUME ZoneInit PROVE ZoneInv
  OBVIOUS
<1>1. VersionNone \in Versions /\ BadRef \in Refs \cup {BadRef}
  BY SizesAssumption DEF SizesAssumption, Versions, VersionNone
<1>2. pages \in Seq(PageRecords) /\ Len(pages) = 0
  BY EmptySeq DEF ZoneInit
<1>3. knots \in [Refs -> Knots]
  BY <1>1 DEF ZoneInit, FreeKnot, Knots
<1>4. bsAddr \in Nat /\ DirectoryLoad \in Nat
  BY SizesAssumption DEF SizesAssumption, ZoneInit
<1>5. ZoneTypeOK
  BY <1>1, <1>2, <1>3, <1>4 DEF ZoneTypeOK, ZoneInit, PageRecords
<1>6. BeyondUnused
  BY DEF BeyondUnused, ZoneInit, FreeKnot
<1> QED
  BY <1>5, <1>6 DEF ZoneInv

(* A page more, and the knots that were there as they were. *)
LEMMA GrowthKeepsInv ==
    ASSUME ZoneInv, NEW t \in Types, NEW size \in Nat,
           CanExtend(t, size), AddPage(t, size), knots' = knots
    PROVE  BeyondUnused'
<1>1. Len(pages) \in Nat /\ Len(pages') = Len(pages) + 1
  BY DirectoryGrows, LenProperties DEF ZoneInv, ZoneTypeOK
<1>2. ASSUME NEW r \in Refs, PageOf(r) > Len(pages') PROVE PageOf(r) > Len(pages)
  BY <1>1, <1>2, PageOfIsPositive
<1> QED
  BY <1>2 DEF BeyondUnused, ZoneInv, PageOf

(* fm_refAlloc gives out a free knot, in the old pages or in the one it
   adds, and notes it as the last one. *)
LEMMA AllocFindsFree ==
    ASSUME ZoneInv, NEW t \in Types, NEW size \in Nat, NEW r \in Refs,
           AllocPlace(t, size, r)
    PROVE  /\ ~Allocated(r) /\ knots[r].version = VersionNone
           /\ Transacting
           /\ pages' \in Seq(PageRecords) /\ Len(pages') <= DirectoryLoad
           /\ Len(pages) <= Len(pages') /\ PageOf(r) <= Len(pages')
           /\ bsAddr' \in Nat
           /\ lastRefs' = [lastRefs EXCEPT ![t] = r]
<1>1. Len(pages) \in Nat /\ pages \in Seq(PageRecords) /\ Len(pages) <= DirectoryLoad
      /\ bsAddr \in Nat
  BY LenProperties DEF ZoneInv, ZoneTypeOK, PageRecords
<1>2. CASE r \in FreeRefs(t, size) /\ UNCHANGED <<bsAddr, pages>>
  BY <1>1, <1>2 DEF AllocPlace, FreeRefs, Allocated
<1>3. CASE CanExtend(t, size) /\ AddPage(t, size) /\ r = Len(pages) * PageLoad
  <2>1. PageOf(r) = Len(pages) + 1
    BY <1>1, <1>3, FirstOfNewPage
  <2>2. PageOf(r) > Len(pages)
    BY <1>1, <2>1
  <2>3. knots[r].version = VersionNone
    BY <2>2 DEF ZoneInv, BeyondUnused
  <2>4. /\ pages' \in Seq(PageRecords) /\ Len(pages') = Len(pages) + 1
        /\ Len(pages') <= DirectoryLoad /\ bsAddr' \in Nat
    BY <1>3, DirectoryGrows DEF ZoneInv
  <2>5. Len(pages) <= Len(pages') /\ PageOf(r) <= Len(pages')
    BY <1>1, <2>1, <2>4
  <2> QED
    BY <2>3, <2>4, <2>5 DEF AllocPlace, Allocated
<1> QED
  BY <1>2, <1>3 DEF AllocPlace

(* ... in a page of its type whose elements are large enough, and no page
   changes. *)
LEMMA AllocIsLargeEnough ==
    ASSUME ZoneInv, NEW t \in Types, NEW size \in Nat, NEW r \in Refs,
           AllocPlace(t, size, r)
    PROVE  /\ pages'[PageOf(r)].editType = t
           /\ size \in UInts => pages'[PageOf(r)].editBSize >= size
           /\ \A i \in 1 .. Len(pages) : pages'[i] = pages[i]
<1>1. Len(pages) \in Nat
  BY LenProperties DEF ZoneInv, ZoneTypeOK
<1>2. CASE r \in FreeRefs(t, size) /\ UNCHANGED <<bsAddr, pages>>
  BY <1>2 DEF FreeRefs, TypeOf
<1>3. CASE CanExtend(t, size) /\ AddPage(t, size) /\ r = Len(pages) * PageLoad
  <2>1. PageOf(r) = Len(pages) + 1
    BY <1>1, <1>3, FirstOfNewPage
  <2>2. /\ pages'[Len(pages) + 1] = PagePlaced(t, size)
        /\ \A i \in 1 .. Len(pages) : pages'[i] = pages[i]
    BY <1>1, <1>3, DirectoryGrows DEF ZoneInv
  <2>3. PagePlaced(t, size).editType = t
        /\ PagePlaced(t, size).editBSize = PageElementBSize(t, size)
        /\ PageElementBSize(t, size) # 0
    BY <1>3 DEF PagePlaced, CanExtend
  <2> QED
    BY <2>1, <2>2, <2>3, ElementsFit
<1> QED
  BY <1>2, <1>3 DEF AllocPlace

LEMMA KnotsFieldwise ==
    ASSUME NEW k \in Knots
    PROVE  /\ k.version \in Versions
           /\ k.prev \in Refs \cup {BadRef}
           /\ k.next \in Refs \cup {BadRef}
           /\ k = [version |-> k.version, prev |-> k.prev, next |-> k.next]
BY DEF Knots

(* Linking two knots touches no version, and only links become references. *)
LEMMA LinkedKnots ==
    ASSUME NEW kn \in [Refs -> Knots], NEW a \in Refs, NEW b \in Refs
    PROVE  /\ Linked(kn, a, b) \in [Refs -> Knots]
           /\ \A r \in Refs : Linked(kn, a, b)[r].version = kn[r].version
           /\ Linked(kn, a, b)[a].next = b /\ Linked(kn, a, b)[b].prev = a
           /\ \A r \in Refs : r # a => Linked(kn, a, b)[r].next = kn[r].next
           /\ \A r \in Refs : r # b => Linked(kn, a, b)[r].prev = kn[r].prev
<1> DEFINE ka == [kn[a] EXCEPT !.next = b]
           k1 == [kn EXCEPT ![a] = ka]
           kb == [k1[b] EXCEPT !.prev = a]
<1>1. ka \in Knots /\ ka.next = b /\ ka.version = kn[a].version /\ ka.prev = kn[a].prev
  BY DEF Knots
<1>2. k1 \in [Refs -> Knots] /\ k1[a] = ka /\ \A r \in Refs : r # a => k1[r] = kn[r]
  BY <1>1
<1>3. /\ kb \in Knots /\ kb.prev = a
      /\ kb.version = k1[b].version /\ kb.next = k1[b].next
  BY <1>2 DEF Knots
<1>4. Linked(kn, a, b) = [k1 EXCEPT ![b] = kb]
  BY DEF Linked
<1> HIDE DEF ka, k1, kb
<1>5. /\ Linked(kn, a, b) \in [Refs -> Knots]
      /\ Linked(kn, a, b)[b] = kb
      /\ \A r \in Refs : r # b => Linked(kn, a, b)[r] = k1[r]
  BY <1>2, <1>3, <1>4
<1> QED
  BY <1>1, <1>2, <1>3, <1>5

LEMMA NewKnotTyped ==
    ASSUME ZoneTypeOK
    PROVE  NewKnot \in Knots
BY DEF NewKnot, FreeKnot, Knots, ZoneTypeOK

(* An element is placed, and the knots of no other change their versions:
   fm_refAlloc, and the calls of nodes, brushes and arrays that end it in
   their own way. *)
LEMMA PlacingKeepsInv ==
    ASSUME ZoneInv, NEW t \in Types, NEW size \in Nat, NEW r \in Refs,
           AllocPlace(t, size, r), UNCHANGED <<headVersion, currVersion>>,
           knots' \in [Refs -> Knots],
           \A s \in Refs : s # r => knots'[s].version = knots[s].version
    PROVE  ZoneInv'
<1>1. ZoneTypeOK /\ BeyondUnused
  BY DEF ZoneInv
<1>2. /\ Len(pages) <= Len(pages') /\ PageOf(r) <= Len(pages')
      /\ pages' \in Seq(PageRecords) /\ Len(pages') <= DirectoryLoad /\ bsAddr' \in Nat
      /\ lastRefs' = [lastRefs EXCEPT ![t] = r]
  BY AllocFindsFree
<1>3. lastRefs' \in [Types -> Refs \cup {BadRef}]
  BY <1>1, <1>2 DEF ZoneTypeOK
<1>4. Len(pages) \in Nat /\ Len(pages') \in Nat
  BY <1>1, <1>2, LenProperties DEF ZoneTypeOK
<1>5. ASSUME NEW s \in Refs, PageOf(s) > Len(pages') PROVE knots'[s].version = VersionNone
  <2>1. s # r /\ PageOf(s) > Len(pages)
    BY <1>2, <1>4, <1>5, PageOfIsPositive
  <2> QED
    BY <1>1, <2>1 DEF BeyondUnused
<1>6. BeyondUnused'
  BY <1>5 DEF BeyondUnused, PageOf
<1>7. ZoneTypeOK'
  BY <1>1, <1>2, <1>3 DEF ZoneTypeOK, PageRecords
<1> QED
  BY <1>6, <1>7 DEF ZoneInv

LEMMA ZoneStep == ZoneInv /\ [ZoneCall]_zoneVars => ZoneInv'
<1> SUFFICES ASSUME ZoneInv, [ZoneCall]_zoneVars PROVE ZoneInv'
  OBVIOUS
<1>1. ZoneTypeOK /\ BeyondUnused
  BY DEF ZoneInv
<1>2. pages \in Seq(PageRecords) /\ Len(pages) <= DirectoryLoad /\ bsAddr \in Nat
  BY <1>1 DEF ZoneTypeOK, PageRecords
(* The types when the versions of the zone stay, and the unused pages when
   knots are only given back. *)
<1>3. ASSUME UNCHANGED <<headVersion, currVersion>>,
             pages' \in Seq(PageRecords), Len(pages') <= DirectoryLoad, bsAddr' \in Nat,
             knots' \in [Refs -> Knots], lastRefs' \in [Types -> Refs \cup {BadRef}]
      PROVE  ZoneTypeOK'
  BY <1>1, <1>3 DEF ZoneTypeOK, PageRecords
<1>4. ASSUME knots' \in [Refs -> Knots], UNCHANGED pages,
             \A r \in Refs : knots'[r].version \in {knots[r].version, VersionNone}
      PROVE  BeyondUnused'
  BY <1>1, <1>4 DEF BeyondUnused, PageOf
<1>5. CASE UNCHANGED zoneVars
  BY <1>1, <1>5 DEF zoneVars, ZoneInv, ZoneTypeOK, BeyondUnused, PageOf
<1>6. CASE Begin
  <2>1. headVersion + 1 \in Versions
    BY <1>1, <1>6, SizesAssumption
       DEF Begin, ZoneTypeOK, Versions, VersionNone, SizesAssumption
  <2>2. ZoneTypeOK'
    BY <1>1, <1>6, <2>1 DEF Begin, ZoneTypeOK
  <2> QED
    BY <1>1, <1>6, <2>2 DEF Begin, BeyondUnused, PageOf, ZoneInv
<1>7. CASE End
  <2>1. VersionNone \in Versions
    BY SizesAssumption DEF SizesAssumption, Versions, VersionNone
  <2>2. ZoneTypeOK'
    BY <1>1, <1>7, <2>1 DEF End, ZoneTypeOK
  <2> QED
    BY <1>1, <1>7, <2>2 DEF End, BeyondUnused, PageOf, ZoneInv
<1>8. ASSUME NEW t \in Types, NEW size \in SizesOf(t), Extend(t, size) PROVE ZoneInv'
  <2>1. /\ CanExtend(t, size) /\ AddPage(t, size)
        /\ UNCHANGED <<headVersion, currVersion, knots, lastRefs>>
    BY <1>8 DEF Extend
  <2>2. knots \in [Refs -> Knots] /\ lastRefs \in [Types -> Refs \cup {BadRef}]
    BY <1>1 DEF ZoneTypeOK
  <2>3. pages' \in Seq(PageRecords) /\ Len(pages') <= DirectoryLoad /\ bsAddr' \in Nat
    BY <1>1, <2>1, DirectoryGrows, SizesAreSizes
  <2>4. BeyondUnused'
    BY <2>1, GrowthKeepsInv, SizesAreSizes
  <2> QED
    BY <1>3, <2>1, <2>2, <2>3, <2>4 DEF ZoneInv
<1>9. ASSUME NEW t \in Types, NEW size \in SizesOf(t), NEW r \in Refs,
             RefAlloc(t, size, r) PROVE ZoneInv'
  <2>1. /\ AllocPlace(t, size, r) /\ knots' = [knots EXCEPT ![r] = NewKnot]
        /\ UNCHANGED <<headVersion, currVersion>>
    BY <1>9 DEF RefAlloc
  <2>2. NewKnot \in Knots
    BY <1>1, NewKnotTyped
  <2>3. knots' \in [Refs -> Knots] /\ \A s \in Refs : s # r => knots'[s] = knots[s]
    BY <1>1, <2>1, <2>2 DEF ZoneTypeOK
  <2> QED
    BY <2>1, <2>3, PlacingKeepsInv, SizesAreSizes
<1>10. ASSUME NEW r \in Refs, RefDealloc(r) PROVE ZoneInv'
  <2>1. VersionNone \in Versions
    BY SizesAssumption DEF SizesAssumption, Versions, VersionNone
  <2>2. /\ knots' \in [Refs -> Knots]
        /\ \A s \in Refs : knots'[s].version \in {knots[s].version, VersionNone}
    BY <1>1, <1>10, <2>1 DEF RefDealloc, ZoneTypeOK, Knots
  <2>3. ZoneTypeOK'
    BY <1>1, <1>2, <1>3, <1>10, <2>2 DEF RefDealloc, ZoneTypeOK
  <2> QED
    BY <1>4, <1>10, <2>2, <2>3 DEF RefDealloc, ZoneInv
<1>11. ASSUME NEW r \in Refs, RefSetLastAlloc(r) PROVE ZoneInv'
  <2>1. knots \in [Refs -> Knots] /\ lastRefs' \in [Types -> Refs \cup {BadRef}]
    BY <1>1, <1>11 DEF RefSetLastAlloc, ZoneTypeOK
  <2>2. ZoneTypeOK'
    BY <1>2, <1>3, <1>11, <2>1 DEF RefSetLastAlloc
  <2> QED
    BY <1>1, <1>11, <2>2 DEF RefSetLastAlloc, ZoneInv, BeyondUnused, PageOf
<1>12. ASSUME NEW a \in Refs, NEW b \in Refs, knots' = Linked(knots, a, b),
              UNCHANGED <<headVersion, currVersion, bsAddr, pages, lastRefs>>
       PROVE  ZoneInv'
  <2>1. /\ knots' \in [Refs -> Knots]
        /\ \A s \in Refs : knots'[s].version = knots[s].version
    BY <1>1, <1>12, LinkedKnots DEF ZoneTypeOK
  <2>2. ZoneTypeOK'
    BY <1>1, <1>2, <1>3, <1>12, <2>1 DEF ZoneTypeOK
  <2> QED
    BY <1>4, <1>12, <2>1, <2>2 DEF ZoneInv
<1>13. ASSUME NEW r \in Refs, RefUnlink(r) PROVE ZoneInv'
  BY <1>12, <1>13 DEF RefUnlink
<1>14. ASSUME NEW from \in Refs, NEW to \in Refs, RefLink(from, to) PROVE ZoneInv'
  BY <1>12, <1>14 DEF RefLink
<1> QED
  BY <1>5, <1>6, <1>7, <1>8, <1>9, <1>10, <1>11, <1>13, <1>14 DEF ZoneCall

LEMMA ZoneInvHolds == ZoneSpec => []ZoneInv
<1>1. ZoneInv /\ [ZoneNext]_zoneVars => ZoneInv'
  BY ZoneStep DEF ZoneNext
<1> QED
  BY <1>1, ZoneInitInv, PTL DEF ZoneSpec

(* Versions count up by one, an open transaction is the one after the head,
   and pages, knots and references stay what the directory can hold. *)
THEOREM ZoneTypeCorrect == ZoneSpec => []ZoneTypeOK
<1>1. ZoneInv => ZoneTypeOK
  BY DEF ZoneInv
<1> QED
  BY <1>1, ZoneInvHolds, PTL
-----------------------------------------------------------------------------
(* Elements in use *)

LEMMA StepKeepsLive ==
    ASSUME ZoneInv, [ZoneCall]_zoneVars, NEW q \in Refs, Allocated(q)
    PROVE  knots'[q].version \in {knots[q].version, VersionNone}
<1>1. knots \in [Refs -> Knots]
  BY DEF ZoneInv, ZoneTypeOK
<1>2. CASE UNCHANGED knots
  BY <1>2
<1>3. ASSUME NEW t \in Types, NEW size \in SizesOf(t), NEW r \in Refs, RefAlloc(t, size, r)
      PROVE  knots'[q] = knots[q]
  <2>1. AllocPlace(t, size, r) /\ knots' = [knots EXCEPT ![r] = NewKnot]
    BY <1>3 DEF RefAlloc
  <2>2. q # r
    BY <2>1, AllocFindsFree, SizesAreSizes
  <2> QED
    BY <1>1, <2>1, <2>2
<1>4. ASSUME NEW r \in Refs, RefDealloc(r)
      PROVE  knots'[q].version \in {knots[q].version, VersionNone}
  BY <1>1, <1>4 DEF RefDealloc, Knots
<1>5. ASSUME NEW a \in Refs, NEW b \in Refs, knots' = Linked(knots, a, b)
      PROVE  knots'[q].version = knots[q].version
  BY <1>1, <1>5, LinkedKnots
<1>6. ASSUME NEW r \in Refs, RefUnlink(r)
      PROVE  knots'[q].version = knots[q].version
  BY <1>5, <1>6 DEF RefUnlink
<1>7. ASSUME NEW from \in Refs, NEW to \in Refs, RefLink(from, to)
      PROVE  knots'[q].version = knots[q].version
  BY <1>5, <1>7 DEF RefLink
<1>8. CASE Begin \/ End \/ (\E t \in Types : \E size \in SizesOf(t) : Extend(t, size))
           \/ (\E r \in Refs : RefSetLastAlloc(r)) \/ UNCHANGED zoneVars
  BY <1>2, <1>8 DEF Begin, End, Extend, RefSetLastAlloc, zoneVars
<1> QED
  BY <1>3, <1>4, <1>6, <1>7, <1>8 DEF ZoneCall

(* fm_refAlloc never gives out an element in use: until it is given back an
   element keeps the version it was allocated in. *)
THEOREM LiveElementsKept == ZoneSpec => LiveKept
<1>1. ZoneInv /\ [ZoneNext]_zoneVars =>
        [\A r \in Refs : Allocated(r) =>
            knots'[r].version \in {knots[r].version, VersionNone}]_zoneVars
  BY StepKeepsLive DEF ZoneNext
<1> QED
  BY <1>1, ZoneInvHolds, PTL DEF ZoneSpec, LiveKept

-----------------------------------------------------------------------------
(* Revisions *)

(* What RevisionIntegrity says of one element. *)
OrderedAt(r) ==
    /\ knots[r].prev # BadRef =>
         Allocated(knots[r].prev) /\ knots[knots[r].prev].version < knots[r].version
    /\ knots[r].next # BadRef =>
         Allocated(knots[r].next) /\ knots[knots[r].next].version > knots[r].version

(* Nothing happens to the knots: no element of another page comes into use. *)
LEMMA IntegrityUnderGrowth ==
    ASSUME ZoneInv, RevisionIntegrity, knots' = knots,
           Len(pages') \in Nat, Len(pages) <= Len(pages')
    PROVE  RevisionIntegrity'
<1>1. Len(pages) \in Nat
  BY LenProperties DEF ZoneInv, ZoneTypeOK
<1>2. ASSUME NEW r \in Refs PROVE Allocated(r)' <=> Allocated(r)
  <2>1. PageOf(r) \in Nat /\ PageOf(r)' = PageOf(r)
    BY PageOfIsPositive DEF PageOf
  <2>2. PageOf(r) > Len(pages) => knots[r].version = VersionNone
    BY DEF ZoneInv, BeyondUnused
  <2> QED
    BY <1>1, <2>1, <2>2 DEF Allocated
<1>3. BadRef' = BadRef /\ Refs' = Refs
  BY DEF BadRef, Refs
<1>4. knots \in [Refs -> Knots]
  BY DEF ZoneInv, ZoneTypeOK
<1>5. \A r \in Refs : knots[r].prev \in Refs \cup {BadRef} /\ knots[r].next \in Refs \cup {BadRef}
  BY <1>4, KnotsFieldwise
<1> QED
  BY <1>2, <1>3, <1>5 DEF RevisionIntegrity

LEMMA IntegrityStep ==
    ASSUME ZoneInv, RevisionIntegrity, [ZoneCall]_zoneVars
    PROVE  RevisionIntegrity'
<1>1. /\ knots \in [Refs -> Knots] /\ Len(pages) \in Nat
      /\ pages \in Seq(PageRecords)
  BY LenProperties DEF ZoneInv, ZoneTypeOK, PageRecords
<1>2. \A r \in Refs : /\ knots[r].version \in Int
                     /\ knots[r].prev \in Refs \cup {BadRef}
                     /\ knots[r].next \in Refs \cup {BadRef}
  BY <1>1, KnotsFieldwise, SizesAssumption DEF Versions, VersionNone, SizesAssumption
<1>3. BadRef \notin Refs
  BY DEF BadRef, Refs
<1>4. CASE UNCHANGED <<pages, knots>>
  BY <1>1, <1>4, IntegrityUnderGrowth
<1>5. ASSUME NEW t \in Types, NEW size \in SizesOf(t), Extend(t, size) PROVE RevisionIntegrity'
  <2>1. CanExtend(t, size) /\ AddPage(t, size) /\ knots' = knots
    BY <1>5 DEF Extend
  <2>2. Len(pages') = Len(pages) + 1
    BY <2>1, DirectoryGrows, SizesAreSizes DEF ZoneInv
  <2> QED
    BY <1>1, <2>1, <2>2, IntegrityUnderGrowth
<1>6. ASSUME NEW t \in Types, NEW size \in SizesOf(t), NEW r \in Refs,
             RefAlloc(t, size, r) PROVE RevisionIntegrity'
  <2>1. AllocPlace(t, size, r) /\ knots' = [knots EXCEPT ![r] = NewKnot]
    BY <1>6 DEF RefAlloc
  <2>2. /\ ~Allocated(r) /\ Len(pages) <= Len(pages')
        /\ pages' \in Seq(PageRecords)
    BY <2>1, AllocFindsFree, SizesAreSizes
  <2>3. Len(pages') \in Nat
    BY <2>2, LenProperties
  <2>4. /\ knots'[r].prev = BadRef /\ knots'[r].next = BadRef
        /\ \A s \in Refs : s # r => knots'[s] = knots[s]
    BY <1>1, <2>1 DEF NewKnot, FreeKnot
  (* Elements other than r are in use exactly when they were. *)
  <2>5. ASSUME NEW s \in Refs, s # r PROVE Allocated(s)' <=> Allocated(s)
    <3>1. PageOf(s) \in Nat /\ PageOf(s)' = PageOf(s)
      BY PageOfIsPositive DEF PageOf
    <3>2. PageOf(s) > Len(pages) => knots[s].version = VersionNone
      BY DEF ZoneInv, BeyondUnused
    <3> QED
      BY <1>1, <2>2, <2>3, <2>4, <2>5, <3>1, <3>2 DEF Allocated
  (* So r, which was not, is no link of theirs. *)
  <2>6. ASSUME NEW s \in Refs, s # r, Allocated(s)' PROVE OrderedAt(s)'
    <3>1. Allocated(s) /\ OrderedAt(s)
      BY <2>5, <2>6 DEF RevisionIntegrity, OrderedAt
    <3>2. knots[s].prev # r /\ knots[s].next # r
      BY <1>3, <2>2, <3>1 DEF OrderedAt
    <3> QED
      BY <1>2, <2>4, <2>5, <2>6, <3>1, <3>2 DEF OrderedAt
  <2>7. OrderedAt(r)'
    BY <2>4 DEF OrderedAt
  <2> QED
    BY <2>6, <2>7 DEF RevisionIntegrity, OrderedAt
<1>7. ASSUME NEW r \in Refs, RefDealloc(r) PROVE RevisionIntegrity'
  <2>1. /\ \A s \in Refs : Allocated(s) => r \notin {knots[s].prev, knots[s].next}
        /\ knots' = [knots EXCEPT ![r].version = VersionNone]
        /\ pages' = pages
    BY <1>7 DEF RefDealloc
  <2>2. /\ \A s \in Refs : s # r => knots'[s] = knots[s]
        /\ knots'[r].version = VersionNone
    BY <1>1, <2>1 DEF Knots
  <2>3. \A s \in Refs : Allocated(s)' => s # r
    BY <2>2 DEF Allocated
  <2>4. \A s \in Refs : s # r => (Allocated(s)' <=> Allocated(s))
    BY <2>1, <2>2 DEF Allocated, PageOf
  <2>5. ASSUME NEW s \in Refs, Allocated(s)' PROVE OrderedAt(s)'
    <3>1. s # r /\ Allocated(s) /\ OrderedAt(s)
      BY <2>3, <2>4, <2>5 DEF RevisionIntegrity, OrderedAt
    <3>2. knots[s].prev # r /\ knots[s].next # r
      BY <2>1, <3>1
    <3> QED
      BY <1>2, <2>2, <2>4, <3>1, <3>2 DEF OrderedAt
  <2> QED
    BY <2>5 DEF RevisionIntegrity, OrderedAt
(* Two elements in use, the older one linked to the newer one. *)
<1>8. ASSUME NEW a \in Refs, NEW b \in Refs, Allocated(a), Allocated(b),
             knots[a].version < knots[b].version,
             knots' = Linked(knots, a, b), pages' = pages
      PROVE  RevisionIntegrity'
  <2>1. /\ \A s \in Refs : knots'[s].version = knots[s].version
        /\ knots'[a].next = b /\ knots'[b].prev = a
        /\ \A s \in Refs : s # a => knots'[s].next = knots[s].next
        /\ \A s \in Refs : s # b => knots'[s].prev = knots[s].prev
    BY <1>1, <1>8, LinkedKnots
  <2>2. \A s \in Refs : Allocated(s)' <=> Allocated(s)
    BY <1>8, <2>1 DEF Allocated, PageOf
  <2>3. ASSUME NEW s \in Refs, Allocated(s)' PROVE OrderedAt(s)'
    <3>1. Allocated(s) /\ OrderedAt(s)
      BY <2>2, <2>3 DEF RevisionIntegrity, OrderedAt
    <3>2. (knots[s].prev # BadRef =>
             Allocated(knots[s].prev) /\ knots[knots[s].prev].version < knots[s].version)'
      <4>1. CASE s = b
        BY <1>8, <2>1, <2>2, <4>1
      <4>2. CASE s # b
        BY <1>2, <2>1, <2>2, <3>1, <4>2 DEF OrderedAt
      <4> QED
        BY <4>1, <4>2
    <3>3. (knots[s].next # BadRef =>
             Allocated(knots[s].next) /\ knots[knots[s].next].version > knots[s].version)'
      <4>1. CASE s = a
        BY <1>2, <1>8, <2>1, <2>2, <4>1
      <4>2. CASE s # a
        BY <1>2, <2>1, <2>2, <3>1, <4>2 DEF OrderedAt
      <4> QED
        BY <4>1, <4>2
    <3> QED
      BY <3>2, <3>3 DEF OrderedAt
  <2> QED
    BY <2>3 DEF RevisionIntegrity, OrderedAt
<1>9. ASSUME NEW from \in Refs, NEW to \in Refs, RefLink(from, to) PROVE RevisionIntegrity'
  BY <1>8, <1>9 DEF RefLink
<1>10. ASSUME NEW r \in Refs, RefUnlink(r) PROVE RevisionIntegrity'
  <2>1. PICK p \in Refs, n \in Refs :
            /\ Allocated(r) /\ knots[r].prev = p /\ knots[r].next = n
            /\ knots' = Linked(knots, p, n) /\ pages' = pages
    BY <1>10 DEF RefUnlink
  <2>2. OrderedAt(r)
    BY <2>1 DEF RevisionIntegrity, OrderedAt
  <2>3. /\ Allocated(p) /\ knots[p].version < knots[r].version
        /\ Allocated(n) /\ knots[r].version < knots[n].version
    BY <1>2, <1>3, <2>1, <2>2 DEF OrderedAt
  <2>4. knots[p].version < knots[n].version
    BY <1>2, <1>3, <2>3
  <2> QED
    BY <1>8, <2>1, <2>3, <2>4
<1>11. CASE Begin \/ End \/ (\E r \in Refs : RefSetLastAlloc(r)) \/ UNCHANGED zoneVars
  BY <1>4, <1>11 DEF Begin, End, RefSetLastAlloc, zoneVars
<1> QED
  BY <1>5, <1>6, <1>7, <1>9, <1>10, <1>11 DEF ZoneCall

(* The revisions an element in use leads to are in use, older on one side
   and newer on the other, after any sequence of calls: what
   _check_ref_revision_integrity asserts. *)
THEOREM LineagesOrdered == ZoneSpec => []RevisionIntegrity
<1>1. ZoneInit => RevisionIntegrity
  BY DEF ZoneInit, RevisionIntegrity, Allocated, FreeKnot
<1>2. ZoneInv /\ RevisionIntegrity /\ [ZoneNext]_zoneVars => RevisionIntegrity'
  BY IntegrityStep DEF ZoneNext
<1> QED
  BY <1>1, <1>2, ZoneInvHolds, PTL DEF ZoneSpec
-----------------------------------------------------------------------------
(* Pages *)

(* What PagesApart says of one page, and of where the next one goes. *)
ApartAt(i) ==
    /\ pages[i].pgAddr % 64 = 0 /\ pages[i].loAddr % 64 = 0
    /\ pages[i].pgAddr >= IF i = 1 THEN ZoneBSize ELSE pages[i - 1].hiAddr
    /\ pages[i].loAddr >= pages[i].pgAddr + PageBSize
    /\ pages[i].hiAddr >= pages[i].loAddr
    /\ Fitting(i) => pages[i].hiAddr >= pages[i].loAddr + PageLoad * pages[i].editBSize

NextPlace ==
    /\ bsAddr = IF pages = <<>> THEN ZoneBSize ELSE pages[Len(pages)].hiAddr
    /\ bsAddr <= HiAddr

PagesInv == (\A i \in 1 .. Len(pages) : ApartAt(i)) /\ NextPlace

LEMMA ApartStep ==
    ASSUME ZoneInv, PagesInv, NEW t \in Types, NEW size \in Nat,
           CanExtend(t, size), AddPage(t, size)
    PROVE  PagesInv'
<1>1. /\ pages \in Seq(PageRecords) /\ Len(pages) \in Nat /\ bsAddr \in Nat
      /\ (pages = <<>> <=> Len(pages) = 0)
  BY LenProperties, EmptySeq DEF ZoneInv, ZoneTypeOK, PageRecords
<1> DEFINE p == PagePlaced(t, size)
<1>2. /\ p \in PageRecords /\ p.editType = t
      /\ p.pgAddr % 64 = 0 /\ p.loAddr % 64 = 0 /\ p.pgAddr >= bsAddr
      /\ p.loAddr >= p.pgAddr + PageBSize
      /\ p.hiAddr >= p.loAddr
      /\ p.editBSize * PageLoad < UIntMod =>
           p.hiAddr >= p.loAddr + PageLoad * p.editBSize
  BY <1>1, PlacedWell
<1>3. /\ pages' \in Seq(PageRecords) /\ Len(pages') = Len(pages) + 1
      /\ \A i \in 1 .. Len(pages) : pages'[i] = pages[i]
      /\ pages'[Len(pages) + 1] = p
  BY DirectoryGrows DEF ZoneInv
<1>4. bsAddr' = p.hiAddr /\ p.hiAddr <= HiAddr
  BY DEF AddPage, CanExtend
<1> HIDE DEF p
<1>5. pages' # <<>>
  BY <1>1, <1>3, EmptySeq
<1>6. NextPlace'
  BY <1>3, <1>4, <1>5 DEF NextPlace
<1>7. ASSUME NEW i \in 1 .. Len(pages) PROVE ApartAt(i)'
  <2>1. ApartAt(i) /\ pages'[i] = pages[i]
    BY <1>3, <1>7 DEF PagesInv
  <2>2. i # 1 => pages'[i - 1] = pages[i - 1]
    BY <1>1, <1>3, <1>7
  <2> QED
    BY <2>1, <2>2 DEF ApartAt, Fitting
<1>8. ASSUME NEW n, n = Len(pages) + 1 PROVE ApartAt(n)'
  <2>1. bsAddr = IF n = 1 THEN ZoneBSize ELSE pages[n - 1].hiAddr
    BY <1>1, <1>8 DEF PagesInv, NextPlace
  <2>2. n # 1 => pages'[n - 1] = pages[n - 1]
    BY <1>1, <1>3, <1>8
  <2>3. p.pgAddr >= IF n = 1 THEN ZoneBSize ELSE pages'[n - 1].hiAddr
    BY <1>2, <2>1, <2>2
  <2>4. pages'[n] = p
    BY <1>3, <1>8
  <2> QED
    BY <1>2, <2>3, <2>4 DEF ApartAt, Fitting
<1>9. \A i \in 1 .. Len(pages') : i \in 1 .. Len(pages) \/ i = Len(pages) + 1
  BY <1>1, <1>3
<1> QED
  BY <1>6, <1>7, <1>8, <1>9 DEF PagesInv

LEMMA PagesStep ==
    ASSUME ZoneInv, PagesInv, [ZoneCall]_zoneVars
    PROVE  PagesInv'
<1>1. CASE UNCHANGED <<pages, bsAddr>>
  BY <1>1 DEF PagesInv, NextPlace, ApartAt, Fitting
<1>2. ASSUME NEW t \in Types, NEW size \in SizesOf(t), Extend(t, size) PROVE PagesInv'
  BY <1>2, ApartStep, SizesAreSizes DEF Extend
<1>3. ASSUME NEW t \in Types, NEW size \in SizesOf(t), NEW r \in Refs,
             RefAlloc(t, size, r) PROVE PagesInv'
  <2>1. UNCHANGED <<bsAddr, pages>> \/ (CanExtend(t, size) /\ AddPage(t, size))
    BY <1>3 DEF RefAlloc, AllocPlace
  <2> QED
    BY <1>1, <2>1, ApartStep, SizesAreSizes
<1>4. CASE \/ Begin \/ End \/ UNCHANGED zoneVars
           \/ \E r \in Refs : RefDealloc(r) \/ RefSetLastAlloc(r) \/ RefUnlink(r)
           \/ \E from, to \in Refs : RefLink(from, to)
  BY <1>1, <1>4
     DEF Begin, End, RefDealloc, RefSetLastAlloc, RefUnlink, RefLink, zoneVars
<1> QED
  BY <1>2, <1>3, <1>4 DEF ZoneCall

(* The pages of a zone overlap neither one another nor the zone's header nor
   its end, whatever sizes of a fm_uint callers give, and each page has room
   for its elements as long as their bytes together are a fm_uint: fm_extend
   aligns twice and tests only the end of the page, which it computes modulo
   2^32. *)
THEOREM PagesKeptApart == ZoneSpec => []PagesApart
<1>1. ZoneInit => PagesInv
  <2>1. ASSUME ZoneInit PROVE Len(pages) = 0
    BY <2>1 DEF ZoneInit
  <2> QED
    BY <2>1, SizesAssumption DEF ZoneInit, PagesInv, NextPlace, SizesAssumption
<1>2. ZoneInv /\ PagesInv /\ [ZoneNext]_zoneVars => PagesInv'
  BY PagesStep DEF ZoneNext
<1>3. PagesInv => PagesApart
  BY DEF PagesInv, PagesApart, ApartAt, NextPlace
<1> QED
  BY <1>1, <1>2, <1>3, ZoneInvHolds, PTL DEF ZoneSpec

-----------------------------------------------------------------------------
(* _reviseRef *)

(* A walk over S that ends at the members of stop with the value of out, and
   from the others goes on at to: what is visited from s, and what the walk
   comes to, if it ends. *)
Visited(S, stop, to, s) ==
    {q \in S : \A A \in SUBSET S :
        s \in A /\ (\A p \in A : p \in stop \/ to[p] \in A) => q \in A}

Ends(S, stop, out, to, s) == {out[q] : q \in Visited(S, stop, to, s) \cap stop}

WalkOf(S, stop, out, to) == [s \in S |-> CHOOSE x : x \in Ends(S, stop, out, to, s)]

(* There is a function of what walks come to: of those that do not end, too. *)
LEMMA WalkExists ==
    ASSUME NEW S, NEW stop, NEW out, NEW to,
           \A s \in S : s \in stop \/ to[s] \in S
    PROVE  /\ WalkOf(S, stop, out, to) = [s \in S |-> WalkOf(S, stop, out, to)[s]]
           /\ \A s \in S : WalkOf(S, stop, out, to)[s] =
                IF s \in stop THEN out[s] ELSE WalkOf(S, stop, out, to)[to[s]]
<1> DEFINE V(s) == Visited(S, stop, to, s)
           E(s) == Ends(S, stop, out, to, s)
           f == WalkOf(S, stop, out, to)
           Closed(A) == \A p \in A : p \in stop \/ to[p] \in A
<1>1. ASSUME NEW s \in S, s \in stop PROVE E(s) = {out[s]}
  <2>1. {s} \in SUBSET S /\ s \in {s} /\ Closed({s})
    BY <1>1
  <2>2. V(s) = {s}
    BY <2>1 DEF Visited
  <2> QED
    BY <1>1, <2>2 DEF Ends
<1>2. ASSUME NEW s \in S, s \notin stop PROVE E(s) = E(to[s])
  <2> DEFINE t == to[s]
  <2>1. t \in S
    BY <1>2
  <2>2. V(t) \subseteq V(s)
    <3> SUFFICES ASSUME NEW q \in V(t), NEW A \in SUBSET S, s \in A, Closed(A)
                 PROVE  q \in A
      BY DEF Visited
    <3>1. t \in A
      BY <1>2
    <3> QED
      BY <3>1 DEF Visited
  <2>3. V(s) \subseteq V(t) \cup {s}
    <3> SUFFICES ASSUME NEW q \in V(s), q # s, NEW A \in SUBSET S, t \in A, Closed(A)
                 PROVE  q \in A
      BY DEF Visited
    <3>1. A \cup {s} \in SUBSET S /\ s \in A \cup {s} /\ Closed(A \cup {s})
      OBVIOUS
    <3>2. q \in A \cup {s}
      BY <3>1 DEF Visited
    <3> QED
      BY <3>2
  <2> HIDE DEF t, V
  <2>4. V(s) \cap stop = V(t) \cap stop
    BY <1>2, <2>2, <2>3
  <2> QED
    BY <2>4 DEF t, V, Ends
<1>3. f = [s \in S |-> f[s]] /\ \A s \in S : f[s] = CHOOSE x : x \in E(s)
  BY DEF WalkOf
<1> SUFFICES ASSUME NEW s \in S
             PROVE  f[s] = IF s \in stop THEN out[s] ELSE f[to[s]]
  BY <1>3
<1> HIDE DEF E, f
<1>4. CASE s \in stop
  <2>1. E(s) = {out[s]}
    BY <1>1, <1>4
  <2> QED
    BY <1>3, <1>4, <2>1
<1>5. CASE s \notin stop
  <2>1. to[s] \in S /\ E(s) = E(to[s])
    BY <1>2, <1>5
  <2> QED
    BY <1>3, <1>5, <2>1
<1> QED
  BY <1>4, <1>5

(* One step of the walks of _reviseRef. *)
LEMMA DownStep ==
    ASSUME ZoneInv, NEW r \in Refs, NEW v
    PROVE  Downgraded(r, v) =
             IF knots[r].prev = BadRef \/ knots[knots[r].prev].version <= v
             THEN knots[r].prev ELSE Downgraded(knots[r].prev, v)
<1> DEFINE to == [s \in Refs |-> knots[s].prev]
           stop == {s \in Refs : to[s] = BadRef \/ knots[to[s]].version <= v}
           f == WalkOf(Refs, stop, to, to)
           D == CHOOSE h : h = [s \in Refs |-> LET p == knots[s].prev IN
                   IF p = BadRef \/ knots[p].version <= v THEN p ELSE h[p]]
<1>1. \A s \in Refs : knots[s].prev \in Refs \cup {BadRef}
  BY KnotsFieldwise DEF ZoneInv, ZoneTypeOK
<1>2. \A s \in Refs : s \in stop \/ to[s] \in Refs
  BY <1>1
<1>3. /\ f = [s \in Refs |-> f[s]]
      /\ \A s \in Refs : f[s] = IF s \in stop THEN to[s] ELSE f[to[s]]
  <2> HIDE DEF stop, to
  <2> QED
    BY <1>2, WalkExists
<1>4. f = [s \in Refs |-> LET p == knots[s].prev IN
              IF p = BadRef \/ knots[p].version <= v THEN p ELSE f[p]]
  <2> HIDE DEF f
  <2> DEFINE g(s) == LET p == knots[s].prev IN
                     IF p = BadRef \/ knots[p].version <= v THEN p ELSE f[p]
  <2>1. \A s \in Refs : f[s] = g(s)
    BY <1>3
  <2> HIDE DEF g
  <2>2. f = [s \in Refs |-> g(s)]
    BY <1>3, <2>1
  <2> QED
    BY <2>2 DEF g
<1>5. D = [s \in Refs |-> LET p == knots[s].prev IN
              IF p = BadRef \/ knots[p].version <= v THEN p ELSE D[p]]
  BY <1>4, Zenon
<1>6. \A s : Downgraded(s, v) = D[s]
  BY DEF Downgraded
<1> HIDE DEF D
<1> QED
  BY <1>5, <1>6

LEMMA UpStep ==
    ASSUME ZoneInv, NEW r \in Refs, NEW v
    PROVE  Upgraded(r, v) =
             IF knots[r].next = BadRef \/ knots[knots[r].next].version > v
             THEN r ELSE Upgraded(knots[r].next, v)
<1> DEFINE out == [s \in Refs |-> s]
           to == [s \in Refs |-> knots[s].next]
           stop == {s \in Refs : to[s] = BadRef \/ knots[to[s]].version > v}
           f == WalkOf(Refs, stop, out, to)
           U == CHOOSE h : h = [s \in Refs |-> LET n == knots[s].next IN
                   IF n = BadRef \/ knots[n].version > v THEN s ELSE h[n]]
<1>1. \A s \in Refs : knots[s].next \in Refs \cup {BadRef}
  BY KnotsFieldwise DEF ZoneInv, ZoneTypeOK
<1>2. \A s \in Refs : s \in stop \/ to[s] \in Refs
  BY <1>1
<1>3. /\ f = [s \in Refs |-> f[s]]
      /\ \A s \in Refs : f[s] = IF s \in stop THEN out[s] ELSE f[to[s]]
  <2> HIDE DEF stop, to, out
  <2> QED
    BY <1>2, WalkExists
<1>4. f = [s \in Refs |-> LET n == knots[s].next IN
              IF n = BadRef \/ knots[n].version > v THEN s ELSE f[n]]
  <2> HIDE DEF f
  <2> DEFINE g(s) == LET n == knots[s].next IN
                     IF n = BadRef \/ knots[n].version > v THEN s ELSE f[n]
  <2>1. \A s \in Refs : f[s] = g(s)
    BY <1>3
  <2> HIDE DEF g
  <2>2. f = [s \in Refs |-> g(s)]
    BY <1>3, <2>1
  <2> QED
    BY <2>2 DEF g
<1>5. U = [s \in Refs |-> LET n == knots[s].next IN
              IF n = BadRef \/ knots[n].version > v THEN s ELSE U[n]]
  BY <1>4, Zenon
<1>6. \A s : Upgraded(s, v) = U[s]
  BY DEF Upgraded
<1> HIDE DEF U
<1> QED
  BY <1>5, <1>6

LEMMA KnotTyped ==
    ASSUME ZoneInv, NEW r \in Refs
    PROVE  /\ knots[r].version \in Nat /\ knots[r].version < VersionHead
           /\ knots[r].prev \in Refs \cup {BadRef}
           /\ knots[r].next \in Refs \cup {BadRef}
           /\ VersionHead \in Nat
<1>1. knots[r] \in Knots
  BY DEF ZoneInv, ZoneTypeOK
<1>2. /\ knots[r].version \in Versions
      /\ knots[r].prev \in Refs \cup {BadRef}
      /\ knots[r].next \in Refs \cup {BadRef}
  BY <1>1, KnotsFieldwise
<1> QED
  BY <1>2, SizesAssumption DEF Versions, VersionNone, SizesAssumption

LEMMA BadIsNone == BadRef \notin Refs
BY DEF BadRef, Refs

(* Of some elements one is the oldest, and one the youngest. *)
LEMMA Oldest ==
    ASSUME ZoneInv, NEW S \in SUBSET Refs, S # {}
    PROVE  \E s \in S : \A q \in S : knots[s].version <= knots[q].version
<1> DEFINE T == {knots[s].version : s \in S}
<1>1. T \in SUBSET Nat /\ T # {}
  BY KnotTyped
<1>2. PICK x \in T : \A y \in T : x <= y
  BY <1>1, NatMin
<1>3. PICK s \in S : x = knots[s].version
  BY <1>2
<1> QED
  BY <1>2, <1>3

LEMMA Youngest ==
    ASSUME ZoneInv, NEW S \in SUBSET Refs, S # {}
    PROVE  \E s \in S : \A q \in S : knots[s].version >= knots[q].version
<1> DEFINE T == {VersionHead - knots[s].version : s \in S}
<1>1. \A s \in S : knots[s].version \in Nat /\ VersionHead - knots[s].version \in Nat
  BY KnotTyped
<1>2. T \in SUBSET Nat /\ T # {}
  BY <1>1
<1>3. PICK x \in T : \A y \in T : x <= y
  BY <1>2, NatMin
<1>4. PICK s \in S : x = VersionHead - knots[s].version
  BY <1>3
<1>5. \A q \in S : VersionHead - knots[s].version <= VersionHead - knots[q].version
  BY <1>3, <1>4
<1>6. VersionHead \in Nat
  BY SizesAssumption DEF SizesAssumption
<1> QED
  BY <1>1, <1>5, <1>6

LEMMA LineageGrows ==
    ASSUME NEW r \in Refs
    PROVE  /\ r \in Lineage(r)
           /\ \A s \in Refs : s \in {knots[r].prev, knots[r].next} =>
                Lineage(s) \subseteq Lineage(r)
<1>1. r \in Lineage(r)
  BY DEF Lineage
<1>2. ASSUME NEW s \in Refs, s \in {knots[r].prev, knots[r].next}, NEW q \in Lineage(s),
             NEW S \in SUBSET Refs, r \in S,
             \A p \in S : {knots[p].prev, knots[p].next} \ {BadRef} \subseteq S
      PROVE  q \in S
  <2>1. s \in S
    BY <1>2, BadIsNone
  <2> QED
    BY <1>2, <2>1 DEF Lineage
<1>3. ASSUME NEW s \in Refs, s \in {knots[r].prev, knots[r].next}, NEW q \in Lineage(s)
      PROVE  q \in Lineage(r)
  <2>1. q \in Refs
    BY <1>3 DEF Lineage
  <2> QED
    BY <1>2, <1>3, <2>1 DEF Lineage
<1> QED
  BY <1>1, <1>3

(* What the walk back comes to: none, or a revision that is old enough. *)
LEMMA DownFinds ==
    ASSUME ZoneInv, RevisionIntegrity, NEW v \in Int, NEW r \in Refs, Allocated(r)
    PROVE  \/ Downgraded(r, v) = BadRef
           \/ /\ Allocated(Downgraded(r, v)) /\ Downgraded(r, v) \in Lineage(r)
              /\ knots[Downgraded(r, v)].version <= v
<1> DEFINE D(s) == Downgraded(s, v)
           Good(s) == \/ D(s) = BadRef
                      \/ /\ Allocated(D(s)) /\ D(s) \in Lineage(s)
                         /\ knots[D(s)].version <= v
           Wrong == {s \in Refs : Allocated(s) /\ ~Good(s)}
<1> SUFFICES ASSUME Wrong # {} PROVE FALSE
  OBVIOUS
<1>1. PICK s \in Wrong : \A q \in Wrong : knots[s].version <= knots[q].version
  BY Oldest
<1> DEFINE p == knots[s].prev
<1>2. /\ p \in Refs \cup {BadRef} /\ s \in Refs /\ Allocated(s)
      /\ p # BadRef => Allocated(p) /\ knots[p].version < knots[s].version
  BY <1>1, KnotTyped DEF RevisionIntegrity
<1>3. D(s) = IF p = BadRef \/ knots[p].version <= v THEN p ELSE D(p)
  BY <1>2, DownStep
<1> HIDE DEF D
<1>4. CASE p = BadRef
  BY <1>1, <1>3, <1>4
<1>5. CASE p # BadRef /\ knots[p].version <= v
  <2>1. p \in Lineage(s)
    BY <1>2, <1>5, LineageGrows
  <2> QED
    BY <1>1, <1>2, <1>3, <1>5, <2>1
<1>6. CASE p # BadRef /\ ~(knots[p].version <= v)
  <2>1. p \in Refs /\ D(s) = D(p) /\ Lineage(p) \subseteq Lineage(s)
    BY <1>2, <1>3, <1>6, LineageGrows
  <2>2. knots[p].version \in Nat /\ knots[s].version \in Nat
    BY <1>2, <2>1, KnotTyped
  <2>3. p \notin Wrong
    BY <1>1, <1>2, <1>6, <2>2
  <2> QED
    BY <1>1, <1>2, <1>6, <2>1, <2>3
<1> QED
  BY <1>4, <1>5, <1>6

(* What the walk on comes to: a revision that is not newer than v. *)
LEMMA UpFinds ==
    ASSUME ZoneInv, RevisionIntegrity, NEW v \in Int, NEW r \in Refs, Allocated(r),
           knots[r].version <= v
    PROVE  /\ Allocated(Upgraded(r, v)) /\ Upgraded(r, v) \in Lineage(r)
           /\ knots[Upgraded(r, v)].version <= v
           /\ knots[Upgraded(r, v)].version >= knots[r].version
<1> DEFINE U(s) == Upgraded(s, v)
           Good(s) == /\ Allocated(U(s)) /\ U(s) \in Lineage(s)
                      /\ knots[U(s)].version <= v
                      /\ knots[U(s)].version >= knots[s].version
           Wrong == {s \in Refs : Allocated(s) /\ knots[s].version <= v /\ ~Good(s)}
<1> SUFFICES ASSUME Wrong # {} PROVE FALSE
  OBVIOUS
<1>1. PICK s \in Wrong : \A q \in Wrong : knots[s].version >= knots[q].version
  BY Youngest
<1> DEFINE n == knots[s].next
<1>2. /\ n \in Refs \cup {BadRef} /\ s \in Refs /\ Allocated(s)
      /\ knots[s].version \in Nat /\ knots[s].version <= v
      /\ n # BadRef => Allocated(n) /\ knots[n].version > knots[s].version
  BY <1>1, KnotTyped DEF RevisionIntegrity
<1>3. U(s) = IF n = BadRef \/ knots[n].version > v THEN s ELSE U(n)
  BY <1>2, UpStep
<1> HIDE DEF U
<1>4. CASE n = BadRef \/ knots[n].version > v
  BY <1>1, <1>2, <1>3, <1>4, LineageGrows
<1>5. CASE n # BadRef /\ ~(knots[n].version > v)
  <2>1. n \in Refs /\ U(s) = U(n) /\ Lineage(n) \subseteq Lineage(s)
    BY <1>2, <1>3, <1>5, LineageGrows
  <2>2. knots[n].version \in Nat
    BY <2>1, KnotTyped
  <2>3. n \notin Wrong /\ knots[n].version <= v
    BY <1>1, <1>2, <1>5, <2>2
  <2>4. Good(n)
    BY <1>2, <1>5, <2>1, <2>3
  <2>5. U(n) \in Refs
    BY <2>4 DEF Allocated
  <2>6. knots[U(n)].version \in Nat
    BY <2>5, KnotTyped
  <2> QED
    BY <1>1, <1>2, <1>5, <2>1, <2>2, <2>4, <2>6
<1> QED
  BY <1>4, <1>5

(* What _reviseRef comes to from any revision in use. *)
LEMMA ReviseFinds ==
    ASSUME ZoneInv, RevisionIntegrity, NEW v \in Int, NEW r \in Refs, Allocated(r)
    PROVE  /\ \/ Revise(r, v) = BadRef
              \/ /\ Allocated(Revise(r, v)) /\ Revise(r, v) \in Lineage(r)
                 /\ knots[Revise(r, v)].version <= v
           /\ knots[r].version <= v =>
                 /\ Revise(r, v) # BadRef
                 /\ knots[Revise(r, v)].version >= knots[r].version
<1>1. knots[r].version \in Nat
  BY KnotTyped
<1>2. CASE knots[r].version > v
  BY <1>1, <1>2, DownFinds DEF Revise
<1>3. CASE knots[r].version < v
  <2>1. Revise(r, v) = Upgraded(r, v)
    BY <1>1, <1>3 DEF Revise
  <2>2. /\ Allocated(Upgraded(r, v)) /\ Upgraded(r, v) \in Lineage(r)
        /\ knots[Upgraded(r, v)].version <= v
        /\ knots[Upgraded(r, v)].version >= knots[r].version
    BY <1>1, <1>3, UpFinds
  <2> QED
    BY <2>1, <2>2, BadIsNone DEF Allocated
<1>4. CASE knots[r].version = v
  BY <1>1, <1>4, LineageGrows, BadIsNone DEF Revise
<1> QED
  BY <1>1, <1>2, <1>3, <1>4

(* Two neighbours that lead to each other come to the same revision. *)
LEMMA NeighboursRevise ==
    ASSUME ZoneInv, RevisionIntegrity, NEW v \in Int, NEW r \in Refs, NEW n \in Refs,
           Allocated(r), knots[r].next = n, knots[n].prev = r
    PROVE  Revise(r, v) = Revise(n, v)
<1>1. /\ Allocated(n) /\ knots[r].version < knots[n].version
      /\ knots[r].version \in Nat /\ knots[n].version \in Nat
      /\ r # BadRef /\ n # BadRef
  BY KnotTyped, BadIsNone DEF RevisionIntegrity
<1>2. Downgraded(n, v) = IF knots[r].version <= v THEN r ELSE Downgraded(r, v)
  BY <1>1, DownStep
<1>3. Upgraded(r, v) = IF knots[n].version > v THEN r ELSE Upgraded(n, v)
  BY <1>1, UpStep
<1>4. CASE v < knots[n].version
  BY <1>1, <1>2, <1>3, <1>4 DEF Revise
<1>5. CASE v > knots[n].version
  BY <1>1, <1>3, <1>5 DEF Revise
<1>6. CASE v = knots[n].version
  <2> DEFINE m == knots[n].next
  <2>1. m = BadRef \/ knots[m].version > v
    BY <1>1, <1>6 DEF RevisionIntegrity
  <2>2. Upgraded(n, v) = n
    BY <2>1, UpStep
  <2> QED
    BY <1>1, <1>3, <1>6, <2>2 DEF Revise
<1> QED
  BY <1>1, <1>4, <1>5, <1>6

(* An element that fm_refUnlink took out of the list: it still leads to its
   neighbours, and neither leads back. *)
TakenOut(r) ==
    /\ knots[r].prev # BadRef /\ knots[knots[r].prev].next # r
    /\ knots[r].next # BadRef /\ knots[knots[r].next].prev # r

(* Both neighbours lead back to an element, or none: the walk back and the
   walk on see the same list. *)
ListInv == \A r \in Refs : Allocated(r) => InList(r) \/ TakenOut(r)

(* So what a member of the list leads to is a member. *)
LEMMA ListClosed ==
    ASSUME ZoneInv, RevisionIntegrity, ListInv, NEW r \in Refs, Allocated(r), InList(r),
           NEW s \in {knots[r].prev, knots[r].next} \ {BadRef}
    PROVE  s \in Refs /\ Allocated(s) /\ InList(s)
<1>1. s \in Refs /\ Allocated(s)
  BY KnotTyped DEF RevisionIntegrity
<1>2. r # BadRef
  BY BadIsNone
<1>3. InList(s) \/ TakenOut(s)
  BY <1>1 DEF ListInv
<1>4. ~TakenOut(s)
  BY <1>2 DEF InList, TakenOut
<1> QED
  BY <1>1, <1>3, <1>4

(* All of the list come to the same revision. *)
LEMMA ListRevises ==
    ASSUME ZoneInv, RevisionIntegrity, ListInv, NEW v \in Int, NEW r \in Refs,
           Allocated(r), InList(r), NEW s \in Lineage(r)
    PROVE  s \in Refs /\ Allocated(s) /\ Revise(s, v) = Revise(r, v)
<1> DEFINE S == {q \in Refs : Allocated(q) /\ InList(q) /\ Revise(q, v) = Revise(r, v)}
<1>1. ASSUME NEW q \in S, NEW p \in {knots[q].prev, knots[q].next} \ {BadRef} PROVE p \in S
  <2>1. p \in Refs /\ Allocated(p) /\ InList(p)
    BY <1>1, ListClosed
  <2>2. CASE p = knots[q].next
    <3>1. knots[p].prev = q
      BY <1>1, <2>2 DEF InList
    <3> QED
      BY <1>1, <2>1, <2>2, <3>1, NeighboursRevise
  <2>3. CASE p = knots[q].prev
    <3>1. knots[p].next = q
      BY <1>1, <2>3 DEF InList
    <3> QED
      BY <1>1, <2>1, <2>3, <3>1, NeighboursRevise
  <2> QED
    BY <1>1, <2>2, <2>3
<1>2. r \in S /\ S \in SUBSET Refs
  OBVIOUS
<1>3. s \in S
  <2> HIDE DEF S
  <2>1. \A q \in S : {knots[q].prev, knots[q].next} \ {BadRef} \subseteq S
    BY <1>1
  <2> QED
    BY <1>2, <2>1 DEF Lineage
<1> QED
  BY <1>3

LEMMA ListStep ==
    ASSUME ZoneInv, RevisionIntegrity, ListInv, [ZoneCall]_zoneVars
    PROVE  ListInv'
<1>1. knots \in [Refs -> Knots]
  BY DEF ZoneInv, ZoneTypeOK
<1> DEFINE ListAt(s) == InList(s) \/ TakenOut(s)
(* What is in use before, and the links of it and its neighbours stay. *)
<1>2. ASSUME NEW s \in Refs, Allocated(s), knots'[s].prev = knots[s].prev,
             knots'[s].next = knots[s].next,
             knots[s].prev # BadRef => (knots'[knots[s].prev].next = s <=> knots[knots[s].prev].next = s),
             knots[s].next # BadRef => (knots'[knots[s].next].prev = s <=> knots[knots[s].next].prev = s)
      PROVE  ListAt(s)'
  <2>1. ListAt(s)
    BY <1>2 DEF ListInv
  <2> QED
    BY <1>2, <2>1 DEF InList, TakenOut
(* Elements come into use only where one is allocated. *)
<1>3. ASSUME Len(pages') \in Nat, Len(pages) <= Len(pages'), NEW s \in Refs,
             knots'[s].version = knots[s].version, Allocated(s)'
      PROVE  Allocated(s)
  <2>1. PageOf(s) > Len(pages) => knots[s].version = VersionNone
    BY DEF ZoneInv, BeyondUnused
  <2>2. Len(pages) \in Nat /\ PageOf(s) \in Nat
    BY LenProperties, PageOfIsPositive DEF ZoneInv, ZoneTypeOK
  <2> QED
    BY <1>3, <2>1, <2>2 DEF Allocated
<1>4. ASSUME UNCHANGED knots, Len(pages') \in Nat, Len(pages) <= Len(pages') PROVE ListInv'
  <2>1. ASSUME NEW s \in Refs, Allocated(s)' PROVE ListAt(s)'
    <3>1. Allocated(s)
      BY <1>3, <1>4, <2>1
    <3> QED
      BY <1>2, <1>4, <3>1
  <2> QED
    BY <2>1 DEF ListInv
<1>5. Len(pages) \in Nat
  BY LenProperties DEF ZoneInv, ZoneTypeOK
<1>6. ASSUME NEW t \in Types, NEW size \in SizesOf(t), Extend(t, size) PROVE ListInv'
  <2>1. CanExtend(t, size) /\ AddPage(t, size) /\ knots' = knots
    BY <1>6 DEF Extend
  <2>2. Len(pages') = Len(pages) + 1
    BY <2>1, DirectoryGrows, SizesAreSizes DEF ZoneInv
  <2> QED
    BY <1>4, <1>5, <2>1, <2>2
<1>7. ASSUME NEW t \in Types, NEW size \in SizesOf(t), NEW r \in Refs,
             RefAlloc(t, size, r) PROVE ListInv'
  <2>1. AllocPlace(t, size, r) /\ knots' = [knots EXCEPT ![r] = NewKnot]
    BY <1>7 DEF RefAlloc
  <2>2. /\ ~Allocated(r) /\ Len(pages) <= Len(pages') /\ pages' \in Seq(PageRecords)
    BY <2>1, AllocFindsFree, SizesAreSizes
  <2>3. Len(pages') \in Nat
    BY <2>2, LenProperties
  <2>4. /\ knots'[r].prev = BadRef /\ knots'[r].next = BadRef
        /\ \A s \in Refs : s # r => knots'[s] = knots[s]
    BY <1>1, <2>1 DEF NewKnot, FreeKnot
  <2>5. ASSUME NEW s \in Refs, s # r, Allocated(s)' PROVE ListAt(s)'
    <3>1. Allocated(s)
      BY <1>3, <2>2, <2>3, <2>4, <2>5
    <3>2. /\ knots[s].prev # BadRef => knots[s].prev \in Refs \ {r}
          /\ knots[s].next # BadRef => knots[s].next \in Refs \ {r}
      BY <2>2, <3>1, KnotTyped DEF RevisionIntegrity
    <3> QED
      BY <1>2, <2>4, <2>5, <3>1, <3>2
  <2>6. ListAt(r)'
    BY <2>4 DEF InList
  <2> QED
    BY <2>5, <2>6 DEF ListInv
<1>8. ASSUME NEW r \in Refs, RefDealloc(r) PROVE ListInv'
  <2>1. knots' = [knots EXCEPT ![r].version = VersionNone] /\ pages' = pages
    BY <1>8 DEF RefDealloc
  <2>2. /\ \A s \in Refs : knots'[s].prev = knots[s].prev /\ knots'[s].next = knots[s].next
        /\ \A s \in Refs : s # r => knots'[s].version = knots[s].version
        /\ knots'[r].version = VersionNone
    BY <1>1, <2>1 DEF Knots
  <2>3. ASSUME NEW s \in Refs, Allocated(s)' PROVE ListAt(s)'
    <3>1. s # r
      BY <2>2, <2>3 DEF Allocated
    <3>2. Allocated(s)
      BY <1>3, <1>5, <2>1, <2>2, <2>3, <3>1
    <3> QED
      BY <1>2, <2>2, <3>2, KnotTyped
  <2> QED
    BY <2>3 DEF ListInv
<1>9. ASSUME NEW r \in Refs, RefSetLastAlloc(r) PROVE ListInv'
  BY <1>4, <1>5, <1>9 DEF RefSetLastAlloc
<1>10. ASSUME NEW from \in Refs, NEW to \in Refs, RefLink(from, to) PROVE ListInv'
  <2>1. /\ from # to /\ Allocated(from) /\ Allocated(to)
        /\ knots[from].next = BadRef /\ knots[to].prev = BadRef
        /\ knots[from].version < knots[to].version
        /\ knots' = Linked(knots, from, to) /\ pages' = pages
    BY <1>10 DEF RefLink, IsHead
  <2>2. /\ \A s \in Refs : knots'[s].version = knots[s].version
        /\ knots'[from].next = to /\ knots'[to].prev = from
        /\ \A s \in Refs : s # from => knots'[s].next = knots[s].next
        /\ \A s \in Refs : s # to => knots'[s].prev = knots[s].prev
    BY <1>1, <2>1, LinkedKnots
  <2>3. from # BadRef /\ to # BadRef
    BY BadIsNone
  <2>4. ASSUME NEW s \in Refs, Allocated(s)' PROVE ListAt(s)'
    <3>1. Allocated(s) /\ ListAt(s)
      BY <1>3, <1>5, <2>1, <2>2, <2>4 DEF ListInv
    <3>2. knots[s].prev \in Refs \cup {BadRef} /\ knots[s].next \in Refs \cup {BadRef}
      BY KnotTyped
    <3>3. CASE s = from
      <4>1. InList(s)
        BY <2>1, <3>1, <3>3 DEF TakenOut
      <4>2. knots[s].prev # BadRef => knots[s].prev # s
        BY <3>1, KnotTyped DEF RevisionIntegrity
      <4> QED
        BY <2>1, <2>2, <3>2, <3>3, <4>1, <4>2 DEF InList
    <3>4. CASE s = to
      <4>1. InList(s)
        BY <2>1, <3>1, <3>4 DEF TakenOut
      <4>2. knots[s].next # BadRef => knots[s].next # s
        BY <3>1, KnotTyped DEF RevisionIntegrity
      <4> QED
        BY <2>1, <2>2, <3>2, <3>4, <4>1, <4>2 DEF InList
    <3>5. CASE s # from /\ s # to
      <4>1. knots[s].prev # BadRef =>
              (knots'[knots[s].prev].next = s <=> knots[knots[s].prev].next = s)
        BY <2>1, <2>2, <2>3, <3>2, <3>5, BadIsNone
      <4>2. knots[s].next # BadRef =>
              (knots'[knots[s].next].prev = s <=> knots[knots[s].next].prev = s)
        BY <2>1, <2>2, <2>3, <3>2, <3>5, BadIsNone
      <4> QED
        BY <1>2, <2>2, <3>1, <3>5, <4>1, <4>2
    <3> QED
      BY <3>3, <3>4, <3>5
  <2> QED
    BY <2>4 DEF ListInv
<1>11. ASSUME NEW r \in Refs, RefUnlink(r) PROVE ListInv'
  <2>1. PICK p \in Refs, n \in Refs :
            /\ Allocated(r) /\ knots[r].prev = p /\ knots[r].next = n
            /\ knots[p].next = r /\ knots[n].prev = r
            /\ knots' = Linked(knots, p, n) /\ pages' = pages
    BY <1>11 DEF RefUnlink
  <2>2. /\ \A s \in Refs : knots'[s].version = knots[s].version
        /\ knots'[p].next = n /\ knots'[n].prev = p
        /\ \A s \in Refs : s # p => knots'[s].next = knots[s].next
        /\ \A s \in Refs : s # n => knots'[s].prev = knots[s].prev
    BY <1>1, <2>1, LinkedKnots
  <2>3. p # BadRef /\ n # BadRef /\ r # BadRef
    BY BadIsNone
  <2>4. /\ Allocated(p) /\ Allocated(n)
        /\ knots[p].version < knots[r].version /\ knots[r].version < knots[n].version
    BY <2>1, <2>3 DEF RevisionIntegrity
  <2>5. p # r /\ n # r /\ p # n
    BY <2>4, KnotTyped
  <2>6. ASSUME NEW s \in Refs, Allocated(s)' PROVE ListAt(s)'
    <3>1. Allocated(s) /\ ListAt(s)
      BY <1>3, <1>5, <2>1, <2>2, <2>6 DEF ListInv
    <3>2. knots[s].prev \in Refs \cup {BadRef} /\ knots[s].next \in Refs \cup {BadRef}
      BY KnotTyped
    <3>3. CASE s = r
      BY <2>1, <2>2, <2>3, <2>5, <3>3 DEF TakenOut
    <3>4. CASE s = p
      <4>1. InList(s)
        BY <2>1, <2>3, <3>1, <3>4 DEF TakenOut
      <4>2. knots[s].prev # BadRef => knots[s].prev # s
        BY <3>1, KnotTyped DEF RevisionIntegrity
      <4>3. knots'[s].prev = knots[s].prev /\ knots'[s].next = n
        BY <2>2, <2>5, <3>4
      <4> QED
        BY <2>2, <3>2, <3>4, <4>1, <4>2, <4>3 DEF InList
    <3>5. CASE s = n
      <4>1. InList(s)
        BY <2>1, <2>3, <3>1, <3>5 DEF TakenOut
      <4>2. knots[s].next # BadRef => knots[s].next # s
        BY <3>1, KnotTyped DEF RevisionIntegrity
      <4>3. knots'[s].next = knots[s].next /\ knots'[s].prev = p
        BY <2>2, <2>5, <3>5
      <4> QED
        BY <2>2, <3>2, <3>5, <4>1, <4>2, <4>3 DEF InList
    <3>6. CASE s # r /\ s # p /\ s # n
      <4>1. knots[s].prev # BadRef =>
              (knots'[knots[s].prev].next = s <=> knots[knots[s].prev].next = s)
        BY <2>1, <2>2, <3>2, <3>6
      <4>2. knots[s].next # BadRef =>
              (knots'[knots[s].next].prev = s <=> knots[knots[s].next].prev = s)
        BY <2>1, <2>2, <3>2, <3>6
      <4> QED
        BY <1>2, <2>2, <3>1, <3>6, <4>1, <4>2
    <3> QED
      BY <3>3, <3>4, <3>5, <3>6
  <2> QED
    BY <2>6 DEF ListInv
<1>12. CASE Begin \/ End \/ UNCHANGED zoneVars
  BY <1>4, <1>5, <1>12 DEF Begin, End, zoneVars
<1> QED
  BY <1>6, <1>7, <1>8, <1>9, <1>10, <1>11, <1>12 DEF ZoneCall

LEMMA ExactInLists ==
    ASSUME ZoneInv, RevisionIntegrity, ListInv
    PROVE  ReviseExact
<1> SUFFICES ASSUME NEW r \in Refs, Allocated(r), InList(r), NEW v \in 1 .. VersionHead
             PROVE  LET known == {s \in Lineage(r) : knots[s].version <= v} IN
                    IF known = {} THEN Revise(r, v) = BadRef
                    ELSE /\ Revise(r, v) \in known
                         /\ \A s \in known :
                              knots[s].version <= knots[Revise(r, v)].version
  BY DEF ReviseExact
<1> DEFINE known == {s \in Lineage(r) : knots[s].version <= v}
<1>1. v \in Int
  BY SizesAssumption DEF SizesAssumption
<1>2. \/ Revise(r, v) = BadRef
      \/ Revise(r, v) \in known
  BY <1>1, ReviseFinds
<1>3. ASSUME NEW s \in known
      PROVE  /\ Revise(r, v) # BadRef
             /\ knots[s].version <= knots[Revise(r, v)].version
  <2>1. s \in Refs /\ Allocated(s) /\ Revise(s, v) = Revise(r, v)
    BY <1>1, <1>3, ListRevises
  <2>2. knots[Revise(s, v)].version >= knots[s].version /\ Revise(s, v) # BadRef
    BY <1>1, <1>3, <2>1, ReviseFinds
  <2>3. Allocated(Revise(s, v))
    BY <1>1, <2>1, <2>2, ReviseFinds
  <2>4. knots[s].version \in Nat /\ knots[Revise(s, v)].version \in Nat
    BY <2>1, <2>3, KnotTyped DEF Allocated
  <2> QED
    BY <2>1, <2>2, <2>4
<1> QED
  BY <1>2, <1>3

(* _reviseRef finds the newest revision that is not newer than the version
   asked for, and none when the element is younger, from whichever revision
   the search starts: of elements with any number of revisions, linked and
   taken out in any order. *)
THEOREM RevisionsFound == ZoneSpec => []ReviseExact
<1>1. ZoneInit => RevisionIntegrity /\ ListInv
  BY DEF ZoneInit, RevisionIntegrity, ListInv, Allocated, FreeKnot
<1>2. ZoneInv /\ RevisionIntegrity /\ ListInv /\ [ZoneNext]_zoneVars
        => RevisionIntegrity' /\ ListInv'
  BY IntegrityStep, ListStep DEF ZoneNext
<1>3. ZoneInv /\ RevisionIntegrity /\ ListInv => ReviseExact
  BY ExactInLists
<1> QED
  BY <1>1, <1>2, <1>3, ZoneInvHolds, PTL DEF ZoneSpec

-----------------------------------------------------------------------------
(* Zones whose elements are only ever revised at the end, as those of nodes
   and brushes are: every element is in its list. *)

Listed == \A r \in Refs : Allocated(r) => InList(r)

LEMMA ListedInv == Listed => ListInv
BY DEF Listed, ListInv

(* A new element, with no revision yet or as the next one of n. *)
Placed(new) == knots' = [knots EXCEPT ![new] = NewKnot]

PlacedNext(n, new) == knots' = Linked([knots EXCEPT ![new] = NewKnot], n, new)

(* What becomes of the knots. *)
LEMMA PlacedKnots ==
    ASSUME ZoneInv, NEW t \in Types, NEW size \in Nat, NEW new \in Refs,
           AllocPlace(t, size, new), UNCHANGED <<headVersion, currVersion>>
    PROVE  /\ currVersion \in Nat /\ currVersion # VersionNone
           /\ knots' = knots => ZoneInv' /\ \A s \in Refs : Allocated(s)' <=> Allocated(s)
           /\ Placed(new) =>
                /\ ZoneInv'
                /\ \A s \in Refs : Allocated(s)' <=> Allocated(s) \/ s = new
                /\ \A s \in Refs : s # new => knots'[s] = knots[s]
                /\ knots'[new].version = currVersion
                /\ knots'[new].prev = BadRef /\ knots'[new].next = BadRef
<1>1. /\ ~Allocated(new) /\ knots[new].version = VersionNone /\ Transacting
      /\ pages' \in Seq(PageRecords) /\ Len(pages) <= Len(pages') /\ PageOf(new) <= Len(pages')
  BY AllocFindsFree
<1>2. /\ ZoneTypeOK /\ knots \in [Refs -> Knots] /\ currVersion \in Nat
      /\ Len(pages) \in Nat /\ Len(pages') \in Nat
  BY <1>1, LenProperties, SizesAssumption
     DEF ZoneInv, ZoneTypeOK, Versions, VersionNone, SizesAssumption
<1>3. currVersion # VersionNone
  BY <1>1 DEF Transacting
<1>4. ASSUME NEW s \in Refs, knots'[s].version = knots[s].version
      PROVE  Allocated(s)' <=> Allocated(s)
  <2>1. PageOf(s) \in Nat /\ PageOf(s)' = PageOf(s)
    BY PageOfIsPositive DEF PageOf
  <2>2. PageOf(s) > Len(pages) => knots[s].version = VersionNone
    BY DEF ZoneInv, BeyondUnused
  <2> QED
    BY <1>1, <1>2, <1>4, <2>1, <2>2 DEF Allocated
<1>5. CASE knots' = knots
  <2>1. ZoneInv'
    BY <1>2, <1>5, PlacingKeepsInv
  <2> QED
    BY <1>2, <1>3, <1>4, <1>5, <2>1, <1>1, NewKnotTyped DEF Placed, NewKnot, FreeKnot
<1>6. CASE Placed(new)
  <2>1. NewKnot \in Knots
    BY <1>2, NewKnotTyped
  <2>2. /\ knots' \in [Refs -> Knots] /\ knots'[new] = NewKnot
        /\ \A s \in Refs : s # new => knots'[s] = knots[s]
    BY <1>2, <1>6, <2>1 DEF Placed
  <2>3. /\ NewKnot.version = currVersion
        /\ NewKnot.prev = BadRef /\ NewKnot.next = BadRef
    BY DEF NewKnot, FreeKnot
  <2>4. ZoneInv'
    BY <2>2, PlacingKeepsInv
  <2>5. Allocated(new)'
    <3>1. PageOf(new)' = PageOf(new)
      BY DEF PageOf
    <3> QED
      BY <1>1, <1>3, <2>2, <2>3, <3>1 DEF Allocated
  <2> QED
    BY <1>1, <1>2, <1>3, <1>4, <1>6, <2>2, <2>3, <2>4, <2>5 DEF Placed
<1> QED
  BY <1>2, <1>3, <1>5, <1>6

LEMMA PlacedNextKnots ==
    ASSUME ZoneInv, NEW t \in Types, NEW size \in Nat, NEW new \in Refs,
           AllocPlace(t, size, new), UNCHANGED <<headVersion, currVersion>>,
           NEW n \in Refs, Allocated(n), PlacedNext(n, new)
    PROVE  /\ ZoneInv' /\ n # new
           /\ currVersion \in Nat /\ currVersion # VersionNone
           /\ \A s \in Refs : Allocated(s)' <=> Allocated(s) \/ s = new
           /\ \A s \in Refs : s # new /\ s # n => knots'[s] = knots[s]
           /\ \A s \in Refs : s # new => knots'[s].version = knots[s].version
           /\ \A s \in Refs : s # new => knots'[s].prev = knots[s].prev
           /\ \A s \in Refs : s # new /\ s # n => knots'[s].next = knots[s].next
           /\ knots'[n].next = new
           /\ knots'[new].version = currVersion
           /\ knots'[new].prev = n /\ knots'[new].next = BadRef
<1> DEFINE kn == [knots EXCEPT ![new] = NewKnot]
<1>1. /\ ~Allocated(new) /\ knots[new].version = VersionNone /\ Transacting
      /\ pages' \in Seq(PageRecords) /\ Len(pages) <= Len(pages') /\ PageOf(new) <= Len(pages')
  BY AllocFindsFree
<1>2. /\ ZoneTypeOK /\ knots \in [Refs -> Knots] /\ currVersion \in Nat
      /\ Len(pages) \in Nat /\ Len(pages') \in Nat /\ currVersion # VersionNone
  BY <1>1, LenProperties, SizesAssumption
     DEF ZoneInv, ZoneTypeOK, Versions, VersionNone, SizesAssumption, Transacting
<1>3. n # new
  BY <1>1
<1>4. NewKnot \in Knots
  BY <1>2, NewKnotTyped
<1>5. /\ kn \in [Refs -> Knots] /\ kn[new] = NewKnot
      /\ \A s \in Refs : s # new => kn[s] = knots[s]
  BY <1>2, <1>4
<1>6. /\ NewKnot.version = currVersion
      /\ NewKnot.prev = BadRef /\ NewKnot.next = BadRef
  BY DEF NewKnot, FreeKnot
<1>7. knots' = Linked(kn, n, new)
  BY DEF PlacedNext
<1> HIDE DEF kn
<1>8. /\ knots' \in [Refs -> Knots]
      /\ \A r \in Refs : knots'[r].version = kn[r].version
      /\ knots'[n].next = new /\ knots'[new].prev = n
      /\ \A r \in Refs : r # n => knots'[r].next = kn[r].next
      /\ \A r \in Refs : r # new => knots'[r].prev = kn[r].prev
  BY <1>5, <1>7, LinkedKnots
<1>9. ZoneInv'
  BY <1>5, <1>8, PlacingKeepsInv
<1>10. ASSUME NEW s \in Refs, s # new PROVE Allocated(s)' <=> Allocated(s)
  <2>1. PageOf(s) \in Nat /\ PageOf(s)' = PageOf(s)
    BY PageOfIsPositive DEF PageOf
  <2>2. PageOf(s) > Len(pages) => knots[s].version = VersionNone
    BY DEF ZoneInv, BeyondUnused
  <2>3. knots'[s].version = knots[s].version
    BY <1>5, <1>8, <1>10
  <2> QED
    BY <1>1, <1>2, <2>1, <2>2, <2>3 DEF Allocated
<1>11. Allocated(new)'
  <2>1. PageOf(new)' = PageOf(new) /\ knots'[new].version # VersionNone
    BY <1>2, <1>5, <1>6, <1>8 DEF PageOf
  <2> QED
    BY <1>1, <2>1 DEF Allocated
<1>12. ASSUME NEW s \in Refs, s # new, s # n PROVE knots'[s] = knots[s]
  <2>1. knots'[s] \in Knots /\ knots[s] \in Knots
    BY <1>2, <1>8
  <2> QED
    BY <1>5, <1>8, <1>12, <2>1, KnotsFieldwise
<1> QED
  BY <1>2, <1>3, <1>5, <1>6, <1>8, <1>9, <1>10, <1>11, <1>12

(* The lists stay lists. *)
LEMMA PlacedListed ==
    ASSUME ZoneInv, RevisionIntegrity, Listed, NEW t \in Types, NEW size \in Nat,
           NEW new \in Refs, AllocPlace(t, size, new), UNCHANGED <<headVersion, currVersion>>,
           knots' = knots \/ Placed(new)
    PROVE  RevisionIntegrity' /\ Listed'
<1>1. ~Allocated(new)
  BY AllocFindsFree
<1>2. /\ \A s \in Refs : Allocated(s) => knots'[s] = knots[s] /\ Allocated(s)'
      /\ \A s \in Refs : Allocated(s)' =>
            Allocated(s) \/ (knots'[s].prev = BadRef /\ knots'[s].next = BadRef)
  BY <1>1, PlacedKnots
<1>3. ASSUME NEW s \in Refs, Allocated(s)' PROVE OrderedAt(s)' /\ InList(s)'
  <2>1. CASE Allocated(s)
    <3>1. OrderedAt(s) /\ InList(s)
      BY <2>1 DEF RevisionIntegrity, OrderedAt, Listed
    <3>2. knots[s].prev \in Refs \cup {BadRef} /\ knots[s].next \in Refs \cup {BadRef}
      BY KnotTyped
    <3> QED
      BY <1>2, <2>1, <3>1, <3>2 DEF OrderedAt, InList
  <2>2. CASE ~Allocated(s)
    BY <1>2, <1>3, <2>2 DEF OrderedAt, InList
  <2> QED
    BY <2>1, <2>2
<1> QED
  BY <1>3 DEF RevisionIntegrity, OrderedAt, Listed

LEMMA PlacedNextListed ==
    ASSUME ZoneInv, RevisionIntegrity, NEW t \in Types, NEW size \in Nat,
           NEW new \in Refs, AllocPlace(t, size, new), UNCHANGED <<headVersion, currVersion>>,
           NEW n \in Refs, Allocated(n), PlacedNext(n, new), knots[n].version < currVersion
    PROVE  /\ RevisionIntegrity'
           /\ Listed /\ IsHead(n) => Listed'
<1>1. ~Allocated(new)
  BY AllocFindsFree
<1>2. /\ n # new /\ currVersion \in Nat
      /\ \A s \in Refs : Allocated(s)' <=> Allocated(s) \/ s = new
      /\ \A s \in Refs : s # new => knots'[s].version = knots[s].version
      /\ \A s \in Refs : s # new => knots'[s].prev = knots[s].prev
      /\ \A s \in Refs : s # new /\ s # n => knots'[s].next = knots[s].next
      /\ knots'[n].next = new
      /\ knots'[new].version = currVersion
      /\ knots'[new].prev = n /\ knots'[new].next = BadRef
  BY PlacedNextKnots
<1>3. new # BadRef /\ n # BadRef
  BY BadIsNone
<1>4. ASSUME NEW s \in Refs, Allocated(s)' PROVE OrderedAt(s)'
  <2>1. CASE s = new
    BY <1>2, <2>1 DEF OrderedAt
  <2>2. CASE s # new
    <3>1. Allocated(s) /\ OrderedAt(s)
      BY <1>2, <1>4, <2>2 DEF RevisionIntegrity, OrderedAt
    <3>2. /\ knots[s].prev # BadRef => knots[s].prev \in Refs /\ knots[s].prev # new
          /\ knots[s].next # BadRef => knots[s].next \in Refs /\ knots[s].next # new
      BY <1>1, <3>1 DEF OrderedAt, Allocated
    <3>3. CASE s = n
      BY <1>2, <2>2, <3>1, <3>2, <3>3 DEF OrderedAt
    <3>4. CASE s # n
      BY <1>2, <2>2, <3>1, <3>2, <3>4 DEF OrderedAt
    <3> QED
      BY <3>3, <3>4
  <2> QED
    BY <2>1, <2>2
<1>5. ASSUME Listed, IsHead(n), NEW s \in Refs, Allocated(s)' PROVE InList(s)'
  <2>1. CASE s = new
    BY <1>2, <2>1 DEF InList
  <2>2. CASE s # new
    <3>1. Allocated(s) /\ OrderedAt(s) /\ InList(s)
      BY <1>2, <1>5, <2>2 DEF RevisionIntegrity, OrderedAt, Listed
    <3>2. /\ knots[s].prev # BadRef => knots[s].prev \in Refs /\ knots[s].prev # new
          /\ knots[s].next # BadRef => knots[s].next \in Refs /\ knots[s].next # new
      BY <1>1, <3>1 DEF OrderedAt, Allocated
    <3>3. knots[s].prev # n
      BY <1>3, <1>5, <3>1, BadIsNone DEF InList, IsHead
    <3>4. CASE s = n
      BY <1>2, <1>5, <2>2, <3>1, <3>2, <3>3, <3>4 DEF InList
    <3>5. CASE s # n
      BY <1>2, <2>2, <3>1, <3>2, <3>3, <3>5 DEF InList
    <3> QED
      BY <3>4, <3>5
  <2> QED
    BY <2>1, <2>2
<1> QED
  BY <1>4, <1>5 DEF RevisionIntegrity, OrderedAt, Listed

(* A revision that is found by the newest version has none behind it. *)
LEMMA NewestIsHead ==
    ASSUME ZoneInv, RevisionIntegrity, NEW r \in Refs, Allocated(r)
    PROVE  /\ Allocated(Revise(r, VersionHead)) /\ IsHead(Revise(r, VersionHead))
           /\ IsHead(r) => Revise(r, VersionHead) = r
<1> DEFINE U(s) == Upgraded(s, VersionHead)
           Wrong == {s \in Refs : Allocated(s) /\ ~(Allocated(U(s)) /\ IsHead(U(s)))}
<1>1. ASSUME NEW s \in Refs, Allocated(s)
      PROVE  /\ Revise(s, VersionHead) = U(s)
             /\ U(s) = IF knots[s].next = BadRef THEN s ELSE U(knots[s].next)
             /\ knots[s].next # BadRef =>
                  /\ knots[s].next \in Refs /\ Allocated(knots[s].next)
                  /\ knots[knots[s].next].version > knots[s].version
  <2>1. knots[s].version \in Nat /\ knots[s].version < VersionHead /\ VersionHead \in Nat
    BY KnotTyped
  <2>2. knots[s].next # BadRef =>
          /\ knots[s].next \in Refs /\ Allocated(knots[s].next)
          /\ knots[knots[s].next].version > knots[s].version
    BY <1>1 DEF RevisionIntegrity, Allocated
  <2>3. knots[s].next # BadRef =>
          knots[knots[s].next].version \in Nat /\ knots[knots[s].next].version < VersionHead
    BY <2>2, KnotTyped
  <2>4. U(s) = IF knots[s].next = BadRef \/ knots[knots[s].next].version > VersionHead
               THEN s ELSE U(knots[s].next)
    BY UpStep
  <2>5. Revise(s, VersionHead) = U(s)
    BY <1>1, <2>1 DEF Revise
  <2> HIDE DEF U
  <2> QED
    BY <2>1, <2>2, <2>3, <2>4, <2>5
<1> HIDE DEF U
<1>2. Wrong = {}
  <2> SUFFICES ASSUME Wrong # {} PROVE FALSE
    OBVIOUS
  <2>1. PICK s \in Wrong : \A q \in Wrong : knots[s].version >= knots[q].version
    BY Youngest
  <2>2. CASE knots[s].next = BadRef
    BY <1>1, <2>1, <2>2 DEF IsHead
  <2>3. CASE knots[s].next # BadRef
    <3> DEFINE n == knots[s].next
    <3>1. n \in Refs /\ Allocated(n) /\ knots[n].version > knots[s].version /\ U(s) = U(n)
      BY <1>1, <2>1, <2>3
    <3>2. knots[n].version \in Nat /\ knots[s].version \in Nat
      BY <2>1, <3>1, KnotTyped
    <3> QED
      BY <2>1, <3>1, <3>2
  <2> QED
    BY <2>2, <2>3
<1> QED
  BY <1>1, <1>2 DEF IsHead

(* Lists have a beginning. *)
IsFirst(r) == Allocated(r) /\ knots[r].prev = BadRef

(* Every element in use has one that is no younger, in its own list. *)
LEMMA FirstExists ==
    ASSUME ZoneInv, RevisionIntegrity, Listed, NEW n \in Refs, Allocated(n)
    PROVE  \E r \in Refs :
             /\ IsFirst(r) /\ knots[r].version <= knots[n].version
             /\ \A v \in Int : Revise(r, v) = Revise(n, v)
<1>1. ListInv /\ InList(n)
  BY ListedInv DEF Listed
<1>2. /\ Lineage(n) \in SUBSET Refs /\ n \in Lineage(n)
      /\ \A s \in Lineage(n) : \A q \in Refs :
           q \in {knots[s].prev, knots[s].next} => q \in Lineage(n)
  <2>1. Lineage(n) \in SUBSET Refs /\ n \in Lineage(n)
    BY LineageGrows DEF Lineage
  <2>2. ASSUME NEW s \in Lineage(n), NEW q \in Refs, q \in {knots[s].prev, knots[s].next},
               NEW S \in SUBSET Refs, n \in S,
               \A p \in S : {knots[p].prev, knots[p].next} \ {BadRef} \subseteq S
        PROVE  q \in S
    <3>1. s \in S
      BY <2>2 DEF Lineage
    <3> QED
      BY <2>2, <3>1, BadIsNone
  <2> QED
    BY <2>1, <2>2 DEF Lineage
<1>3. PICK r \in Lineage(n) : \A q \in Lineage(n) : knots[r].version <= knots[q].version
  BY <1>2, Oldest
<1>4. \A v \in Int : r \in Refs /\ Allocated(r) /\ Revise(r, v) = Revise(n, v)
  BY <1>1, <1>3, ListRevises
<1>5. r \in Refs /\ Allocated(r)
  <2>1. 0 \in Int
    OBVIOUS
  <2> QED
    BY <1>4, <2>1
<1>6. knots[r].prev = BadRef
  <2> SUFFICES ASSUME knots[r].prev # BadRef PROVE FALSE
    OBVIOUS
  <2> DEFINE p == knots[r].prev
  <2>1. p \in Refs /\ knots[p].version < knots[r].version
    BY <1>5 DEF RevisionIntegrity, Allocated
  <2>2. p \in Lineage(n)
    BY <1>2, <1>3, <2>1
  <2>3. knots[p].version \in Nat /\ knots[r].version \in Nat
    BY <1>5, <2>1, KnotTyped
  <2> QED
    BY <1>3, <2>1, <2>2, <2>3
<1> QED
  BY <1>2, <1>3, <1>4, <1>5, <1>6 DEF IsFirst

(* Two first elements that have a revision in common are one. *)
LEMMA FirstIsOne ==
    ASSUME ZoneInv, RevisionIntegrity, Listed, NEW r \in Refs, NEW s \in Refs,
           IsFirst(r), IsFirst(s), NEW v \in Int,
           Revise(r, v) = Revise(s, v), Revise(r, v) # BadRef
    PROVE  r = s
<1>1. /\ ListInv /\ InList(r) /\ InList(s) /\ Allocated(r) /\ Allocated(s)
      /\ knots[r].prev = BadRef /\ knots[s].prev = BadRef
      /\ knots[r].version \in Nat /\ knots[s].version \in Nat
  BY ListedInv, KnotTyped DEF Listed, IsFirst
<1>2. PICK n : n = Revise(r, v)
  OBVIOUS
<1>3. n \in Lineage(r) /\ n \in Lineage(s)
  BY <1>1, <1>2, ReviseFinds
<1>4. \A u \in Int : Revise(r, u) = Revise(s, u)
  BY <1>1, <1>3, ListRevises
<1>5. ASSUME NEW p \in Refs, Allocated(p), knots[p].prev = BadRef, NEW u \in Int,
             knots[p].version > u
      PROVE  Revise(p, u) = BadRef
  BY <1>5, DownStep DEF Revise
<1>6. Revise(r, knots[r].version) = r /\ Revise(s, knots[s].version) = s
  BY <1>1 DEF Revise
<1>7. r # BadRef /\ s # BadRef
  BY BadIsNone
<1>8. ~(knots[s].version > knots[r].version) /\ ~(knots[r].version > knots[s].version)
  BY <1>1, <1>4, <1>5, <1>6, <1>7
<1>9. knots[s].version = knots[r].version
  BY <1>1, <1>8
<1> QED
  BY <1>1, <1>4, <1>6, <1>9

(* What is asked for as of its own version, or a later one without another
   revision by then, is found by itself. *)
LEMMA FoundAgain ==
    ASSUME ZoneInv, RevisionIntegrity, Listed, NEW r \in Refs, Allocated(r), NEW v \in Int,
           Revise(r, v) # BadRef
    PROVE  Revise(Revise(r, v), v) = Revise(r, v)
<1>1. ListInv /\ InList(r)
  BY ListedInv DEF Listed
<1>2. Revise(r, v) \in Lineage(r)
  BY ReviseFinds
<1> QED
  BY <1>1, <1>2, ListRevises

LEMMA HeadFindsItself ==
    ASSUME ZoneInv, NEW n \in Refs, Allocated(n), IsHead(n), NEW v \in Int,
           knots[n].version <= v
    PROVE  Revise(n, v) = n
<1>1. Upgraded(n, v) = n
  BY UpStep DEF IsHead
<1>2. knots[n].version \in Nat
  BY KnotTyped
<1> QED
  BY <1>1, <1>2 DEF Revise

(* Versions that nothing is newer than have the same revisions. *)
LEMMA NewestAgree ==
    ASSUME ZoneInv, RevisionIntegrity, Listed, NEW r \in Refs, Allocated(r),
           NEW v \in Int, NEW w \in Int, v <= w, \A s \in Refs : knots[s].version <= v
    PROVE  Revise(r, v) = Revise(r, w)
<1> DEFINE n == Revise(r, VersionHead)
<1>1. Allocated(n) /\ IsHead(n)
  BY NewestIsHead
<1>2. ListInv /\ InList(r) /\ VersionHead \in Int
  BY ListedInv, SizesAssumption DEF Listed, SizesAssumption
<1>3. n \in Refs /\ n # BadRef
  BY <1>1, BadIsNone DEF Allocated
<1>4. n \in Lineage(r)
  BY <1>2, <1>3, ReviseFinds
<1> HIDE DEF n
<1>5. Revise(n, v) = Revise(r, v) /\ Revise(n, w) = Revise(r, w)
  BY <1>2, <1>4, ListRevises
<1>6. knots[n].version \in Nat /\ knots[n].version <= v
  BY <1>3, KnotTyped
<1>7. knots[n].version <= w
  BY <1>6
<1> QED
  BY <1>1, <1>3, <1>5, <1>6, <1>7, HeadFindsItself

(* The steps of both walks, of this state and of the next one. *)
WalkSteps ==
    \A v : \A r \in Refs :
        /\ Downgraded(r, v) =
             IF knots[r].prev = BadRef \/ knots[knots[r].prev].version <= v
             THEN knots[r].prev ELSE Downgraded(knots[r].prev, v)
        /\ Upgraded(r, v) =
             IF knots[r].next = BadRef \/ knots[knots[r].next].version > v
             THEN r ELSE Upgraded(knots[r].next, v)

LEMMA Walks == ZoneInv => WalkSteps
BY DownStep, UpStep DEF WalkSteps

LEMMA WalksNext == ZoneInv' => WalkSteps'
BY Walks, PTL

(* Where nothing that was in use changes, the walks come to what they did. *)
LEMMA ReviseStays ==
    ASSUME ZoneInv, ZoneInv', RevisionIntegrity, NEW v \in Int,
           \A s \in Refs : Allocated(s) => Allocated(s)' /\ knots'[s] = knots[s],
           NEW r \in Refs, Allocated(r)
    PROVE  Revise(r, v)' = Revise(r, v)
<1> DEFINE D(s) == Downgraded(s, v)
           U(s) == Upgraded(s, v)
           DWrong == {s \in Refs : Allocated(s) /\ D(s)' # D(s)}
           UWrong == {s \in Refs : Allocated(s) /\ U(s)' # U(s)}
<1>1. ASSUME NEW s \in Refs, Allocated(s)
      PROVE  /\ D(s) = IF knots[s].prev = BadRef \/ knots[knots[s].prev].version <= v
                       THEN knots[s].prev ELSE D(knots[s].prev)
             /\ U(s) = IF knots[s].next = BadRef \/ knots[knots[s].next].version > v
                       THEN s ELSE U(knots[s].next)
  BY DownStep, UpStep
<1>2. ASSUME NEW s \in Refs, NEW p, NEW n, knots'[s].prev = p, knots'[s].next = n
      PROVE  /\ D(s)' = IF p = BadRef \/ knots'[p].version <= v THEN p ELSE D(p)'
             /\ U(s)' = IF n = BadRef \/ knots'[n].version > v THEN s ELSE U(n)'
  BY <1>2, WalksNext DEF WalkSteps
<1>3. ASSUME NEW s \in Refs, Allocated(s)
      PROVE  /\ knots[s].prev # BadRef =>
                  /\ knots[s].prev \in Refs /\ Allocated(knots[s].prev)
                  /\ knots[knots[s].prev].version < knots[s].version
             /\ knots[s].next # BadRef =>
                  /\ knots[s].next \in Refs /\ Allocated(knots[s].next)
                  /\ knots[knots[s].next].version > knots[s].version
  BY <1>3 DEF RevisionIntegrity, Allocated
<1> HIDE DEF D, U
<1>4. DWrong = {}
  <2> SUFFICES ASSUME DWrong # {} PROVE FALSE
    OBVIOUS
  <2>1. PICK s \in DWrong : \A q \in DWrong : knots[s].version <= knots[q].version
    BY Oldest
  <2>2. PICK p : p = knots[s].prev
    OBVIOUS
  <2>3. knots'[s].prev = p /\ s \in Refs /\ Allocated(s)
    BY <2>1, <2>2
  <2>4. CASE p = BadRef
    BY <1>1, <1>2, <2>1, <2>2, <2>3, <2>4
  <2>5. CASE p # BadRef
    <3>1. p \in Refs /\ Allocated(p) /\ knots[p].version < knots[s].version
          /\ knots'[p] = knots[p]
      BY <1>3, <2>2, <2>3, <2>5
    <3>2. knots[p].version \in Nat /\ knots[s].version \in Nat
      BY <2>3, <3>1, KnotTyped
    <3>3. D(p)' = D(p)
      BY <2>1, <3>1, <3>2
    <3> QED
      BY <1>1, <1>2, <2>1, <2>2, <2>3, <3>1, <3>3
  <2> QED
    BY <2>4, <2>5
<1>5. UWrong = {}
  <2> SUFFICES ASSUME UWrong # {} PROVE FALSE
    OBVIOUS
  <2>1. PICK s \in UWrong : \A q \in UWrong : knots[s].version >= knots[q].version
    BY Youngest
  <2>2. PICK n : n = knots[s].next
    OBVIOUS
  <2>3. knots'[s].next = n /\ s \in Refs /\ Allocated(s)
    BY <2>1, <2>2
  <2>4. CASE n = BadRef
    BY <1>1, <1>2, <2>1, <2>2, <2>3, <2>4
  <2>5. CASE n # BadRef
    <3>1. n \in Refs /\ Allocated(n) /\ knots[n].version > knots[s].version
          /\ knots'[n] = knots[n]
      BY <1>3, <2>2, <2>3, <2>5
    <3>2. knots[n].version \in Nat /\ knots[s].version \in Nat
      BY <2>3, <3>1, KnotTyped
    <3>3. U(n)' = U(n)
      BY <2>1, <3>1, <3>2
    <3> QED
      BY <1>1, <1>2, <2>1, <2>2, <2>3, <3>1, <3>3
  <2> QED
    BY <2>4, <2>5
<1> QED
  BY <1>4, <1>5 DEF Revise, D, U

(* Behind a head comes a revision of the open version: from then on the walks
   that came to that head come to it, and those of earlier versions where
   they did. *)
LEMMA ReviseGrows ==
    ASSUME ZoneInv, RevisionIntegrity, NEW t \in Types, NEW size \in Nat,
           NEW new \in Refs, AllocPlace(t, size, new), UNCHANGED <<headVersion, currVersion>>,
           NEW n \in Refs, Allocated(n), IsHead(n), PlacedNext(n, new),
           knots[n].version < currVersion,
           \A s \in Refs : knots[s].version <= currVersion,
           NEW v \in Int
    PROVE  /\ \A r \in Refs : Allocated(r) =>
                Revise(r, v)' = IF v >= currVersion /\ Revise(r, v) = n THEN new
                                ELSE Revise(r, v)
           /\ Revise(new, v)' = IF v >= currVersion THEN new ELSE Revise(n, v)
<1> DEFINE D(s) == Downgraded(s, v)
           U(s) == Upgraded(s, v)
           Grown(s) == IF v >= currVersion /\ U(s) = n THEN new ELSE U(s)
           DWrong == {s \in Refs : Allocated(s) /\ D(s)' # D(s)}
           UWrong == {s \in Refs : Allocated(s) /\ knots[s].version <= v /\ U(s)' # Grown(s)}
<1>0. ~Allocated(new)
  BY AllocFindsFree
<1>1. /\ n # new /\ currVersion \in Nat /\ ZoneInv'
      /\ \A s \in Refs : Allocated(s)' <=> Allocated(s) \/ s = new
      /\ \A s \in Refs : s # new => knots'[s].version = knots[s].version
      /\ \A s \in Refs : s # new => knots'[s].prev = knots[s].prev
      /\ \A s \in Refs : s # new /\ s # n => knots'[s].next = knots[s].next
      /\ knots'[n].next = new
      /\ knots'[new].version = currVersion
      /\ knots'[new].prev = n /\ knots'[new].next = BadRef
  BY PlacedNextKnots
<1>2. ASSUME NEW s \in Refs, Allocated(s)
      PROVE  /\ D(s) = IF knots[s].prev = BadRef \/ knots[knots[s].prev].version <= v
                       THEN knots[s].prev ELSE D(knots[s].prev)
             /\ U(s) = IF knots[s].next = BadRef \/ knots[knots[s].next].version > v
                       THEN s ELSE U(knots[s].next)
  BY DownStep, UpStep
<1>3. ASSUME NEW s \in Refs, NEW p, NEW q, knots'[s].prev = p, knots'[s].next = q
      PROVE  /\ D(s)' = IF p = BadRef \/ knots'[p].version <= v THEN p ELSE D(p)'
             /\ U(s)' = IF q = BadRef \/ knots'[q].version > v THEN s ELSE U(q)'
  BY <1>1, <1>3, WalksNext DEF WalkSteps
<1>4. ASSUME NEW s \in Refs, Allocated(s)
      PROVE  /\ s # new /\ knots[s].version \in Nat
             /\ knots[s].prev # BadRef =>
                  /\ knots[s].prev \in Refs /\ Allocated(knots[s].prev)
                  /\ knots[knots[s].prev].version < knots[s].version
                  /\ knots[knots[s].prev].version \in Nat
             /\ knots[s].next # BadRef =>
                  /\ knots[s].next \in Refs /\ Allocated(knots[s].next)
                  /\ knots[knots[s].next].version > knots[s].version
                  /\ knots[knots[s].next].version \in Nat
  <2>1. /\ knots[s].prev # BadRef =>
             /\ knots[s].prev \in Refs /\ Allocated(knots[s].prev)
             /\ knots[knots[s].prev].version < knots[s].version
        /\ knots[s].next # BadRef =>
             /\ knots[s].next \in Refs /\ Allocated(knots[s].next)
             /\ knots[knots[s].next].version > knots[s].version
    BY <1>4 DEF RevisionIntegrity, Allocated
  <2> QED
    BY <1>0, <1>4, <2>1, KnotTyped
<1>5. new # BadRef /\ n # BadRef /\ knots[n].next = BadRef
  BY BadIsNone DEF IsHead
<1> HIDE DEF D, U
<1>6. DWrong = {}
  <2> SUFFICES ASSUME DWrong # {} PROVE FALSE
    OBVIOUS
  <2>1. PICK s \in DWrong : \A q \in DWrong : knots[s].version <= knots[q].version
    BY Oldest
  <2>2. PICK p : p = knots[s].prev
    OBVIOUS
  <2>3. s \in Refs /\ Allocated(s) /\ s # new
    BY <1>4, <2>1
  <2>4. PICK q : q = knots'[s].next
    OBVIOUS
  <2>5. knots'[s].prev = p
    BY <1>1, <2>2, <2>3
  <2>6. D(s)' = IF p = BadRef \/ knots'[p].version <= v THEN p ELSE D(p)'
    BY <1>3, <2>3, <2>4, <2>5
  <2>7. CASE p = BadRef
    BY <1>2, <2>1, <2>2, <2>3, <2>6, <2>7
  <2>8. CASE p # BadRef
    <3>1. p \in Refs /\ Allocated(p) /\ knots[p].version < knots[s].version
          /\ knots[p].version \in Nat /\ knots[s].version \in Nat
      BY <1>4, <2>2, <2>3, <2>8
    <3>2. knots'[p].version = knots[p].version
      BY <1>1, <1>4, <3>1
    <3>3. D(p)' = D(p)
      BY <2>1, <3>1
    <3> QED
      BY <1>2, <2>1, <2>2, <2>3, <2>6, <3>2, <3>3
  <2> QED
    BY <2>7, <2>8
<1>7. U(n) = n
  BY <1>2, <1>5
<1>8. v >= currVersion => U(new)' = new
  BY <1>1, <1>3
<1>9. UWrong = {}
  <2> SUFFICES ASSUME UWrong # {} PROVE FALSE
    OBVIOUS
  <2>1. PICK s \in UWrong : \A q \in UWrong : knots[s].version >= knots[q].version
    BY Youngest
  <2>2. s \in Refs /\ Allocated(s) /\ s # new /\ knots[s].version \in Nat
        /\ knots[s].version <= v
    BY <1>4, <2>1
  <2>3. PICK p : p = knots'[s].prev
    OBVIOUS
  <2>4. CASE s = n
    <3>1. U(n)' = IF new = BadRef \/ knots'[new].version > v THEN n ELSE U(new)'
      BY <1>1, <1>3
    <3>2. U(n)' = IF v >= currVersion THEN new ELSE n
      BY <1>1, <1>5, <1>8, <3>1
    <3> QED
      BY <1>7, <2>1, <2>4, <3>2
  <2>5. CASE s # n
    <3>1. PICK q : q = knots[s].next
      OBVIOUS
    <3>2. knots'[s].next = q
      BY <1>1, <2>2, <2>5, <3>1
    <3>3. U(s)' = IF q = BadRef \/ knots'[q].version > v THEN s ELSE U(q)'
      BY <1>3, <2>2, <2>3, <3>2
    <3>4. U(s) = IF q = BadRef \/ knots[q].version > v THEN s ELSE U(q)
      BY <1>2, <2>2, <3>1
    <3>5. CASE q = BadRef
      BY <2>1, <2>5, <3>3, <3>4, <3>5
    <3>6. CASE q # BadRef
      <4>1. q \in Refs /\ Allocated(q) /\ knots[q].version > knots[s].version
            /\ knots[q].version \in Nat
        BY <1>4, <2>2, <3>1, <3>6
      <4>2. knots'[q].version = knots[q].version
        BY <1>1, <1>4, <4>1
      <4>3. CASE knots[q].version > v
        BY <2>1, <2>5, <3>3, <3>4, <4>2, <4>3
      <4>4. CASE ~(knots[q].version > v)
        <5>1. U(q)' = Grown(q)
          BY <2>1, <2>2, <4>1, <4>4
        <5> QED
          BY <2>1, <3>3, <3>4, <3>6, <4>2, <4>4, <5>1
      <4> QED
        BY <4>3, <4>4
    <3> QED
      BY <3>5, <3>6
  <2> QED
    BY <2>4, <2>5
<1>10. knots[n].version \in Nat
  BY <1>4
<1>11. ASSUME NEW r \in Refs, Allocated(r)
       PROVE  Revise(r, v)' = IF v >= currVersion /\ Revise(r, v) = n THEN new
                              ELSE Revise(r, v)
  <2>1. r # new /\ knots[r].version \in Nat /\ knots[r].version <= currVersion
        /\ knots'[r].version = knots[r].version /\ Allocated(r)'
    BY <1>1, <1>4, <1>11
  <2>2. CASE knots[r].version > v
    <3>1. D(r)' = D(r) /\ ~(v >= currVersion)
      BY <1>1, <1>6, <1>11, <2>1, <2>2
    <3>2. Revise(r, v) = D(r) /\ Revise(r, v)' = D(r)'
      BY <1>11, <2>1, <2>2 DEF Revise, D
    <3> QED
      BY <3>1, <3>2
  <2>3. CASE knots[r].version < v
    <3>1. U(r)' = Grown(r)
      BY <1>9, <1>11, <2>1, <2>3
    <3>2. Revise(r, v) = U(r) /\ Revise(r, v)' = U(r)'
      BY <1>11, <2>1, <2>3 DEF Revise, U
    <3> QED
      BY <3>1, <3>2
  <2>4. CASE knots[r].version = v
    <3>1. Revise(r, v) = r /\ Revise(r, v)' = r
      BY <1>11, <2>1, <2>4 DEF Revise
    <3>2. ~(v >= currVersion /\ r = n)
      BY <1>1, <1>10, <2>1, <2>4
    <3> QED
      BY <3>1, <3>2
  <2> QED
    BY <2>1, <2>2, <2>3, <2>4
<1>12. Revise(new, v)' = IF v >= currVersion THEN new ELSE Revise(n, v)
  <2>1. Allocated(new)' /\ knots'[new].version = currVersion
    BY <1>1
  <2>2. CASE v >= currVersion
    <3>1. Revise(new, v)' = new \/ Revise(new, v)' = U(new)'
      BY <1>1, <2>1, <2>2 DEF Revise, U
    <3> QED
      BY <1>8, <2>2, <3>1
  <2>3. CASE ~(v >= currVersion)
    <3>1. Revise(new, v)' = D(new)'
      BY <1>1, <2>1, <2>3 DEF Revise, D
    <3>2. D(new)' = IF n = BadRef \/ knots'[n].version <= v THEN n ELSE D(n)'
      BY <1>1, <1>3
    <3>3. D(n)' = D(n) /\ knots'[n].version = knots[n].version
      BY <1>1, <1>6
    <3>4. D(new)' = IF knots[n].version <= v THEN n ELSE D(n)
      BY <1>5, <3>2, <3>3
    <3>5. Revise(n, v) = IF knots[n].version <= v THEN n ELSE D(n)
      BY <1>7, <1>10 DEF Revise, D, U
    <3> QED
      BY <2>3, <3>1, <3>4, <3>5
  <2> QED
    BY <2>2, <2>3
<1> QED
  BY <1>11, <1>12
=============================================================================
