------------------------------ MODULE FatZone ------------------------------
(***************************************************************************)
(* The zone of the fat model: one block of memory that holds pages of      *)
(* elements of one type each, the versions of the model (transactions) and *)
(* the references.  A reference names a knot of a page; the knot holds the *)
(* version its element was allocated in and the references of the previous *)
(* and the next revision of that element.                                  *)
(*                                                                         *)
(* Addresses are offsets from loAddr.  fm_assert is compiled out, as in a  *)
(* release build; an assertion the caller has to satisfy is a guard.       *)
(***************************************************************************)
EXTENDS Integers, Sequences, FiniteSetsExt

CONSTANTS
    Types,         \* fm_refType
    Sized,         \* the types whose callers give the size: FM_RT_ARRAY
    EditBSize,     \* what an element of a type occupies; of a type in Sized,
                   \* what fm_isFull counts for one
    Extras,        \* BOUND: the sizes callers give
    UIntMod,       \* 2^32: a fm_uint is below it
    PageLoad,      \* FM_PAGE_LOAD: elements per page
    DirectoryLoad, \* FM_DIRECTORY_LOAD: pages per zone
    PageBSize,     \* sizeof(fm_page)
    ZoneBSize,     \* sizeof(fm_zone)
    HiAddr,        \* the end of the zone
    VersionHead    \* FM_VERSION_HEAD, ~0: above every version ever opened

ASSUME SizesAssumption ==
    /\ UIntMod \in Nat \ {0} /\ UIntMod % 8 = 0
    /\ EditBSize \in [Types -> 1 .. UIntMod - 1]
    /\ \A t \in Types \ Sized : EditBSize[t] * PageLoad < UIntMod
    /\ Sized \subseteq Types /\ Extras \subseteq 1 .. UIntMod - 1
    /\ PageLoad \in Nat \ {0} /\ DirectoryLoad \in Nat \ {0}
    /\ PageBSize \in Nat \ {0} /\ ZoneBSize \in Nat \ {0}
    /\ HiAddr \in Nat /\ HiAddr > ZoneBSize
    /\ VersionHead \in Nat \ {0}

VARIABLES
    headVersion,   \* the last version committed
    currVersion,   \* the version of the open transaction, or VersionNone
    bsAddr,        \* where the next page goes
    pages,         \* directory.pages
    knots,         \* the knots of every page the directory has room for
    lastRefs       \* directory.lastRefs: the last reference given per type

zoneVars == <<headVersion, currVersion, bsAddr, pages, knots, lastRefs>>

VersionNone == 0
Versions    == VersionNone .. VersionHead - 1
BadRef      == -1
Refs        == 0 .. DirectoryLoad * PageLoad - 1

FreeKnot == [version |-> VersionNone, prev |-> BadRef, next |-> BadRef]

PageOf(r) == (r \div PageLoad) + 1

Allocated(r) ==
    /\ r \in Refs
    /\ PageOf(r) <= Len(pages)
    /\ knots[r].version # VersionNone

TypeOf(r) == pages[PageOf(r)].editType

IsHead(r) == knots[r].next = BadRef

Transacting == currVersion # VersionNone

(* The memory of the zone is zeroed: no page, so no knot in use. *)
ZoneInit ==
    /\ headVersion = VersionNone
    /\ currVersion = VersionNone
    /\ bsAddr = ZoneBSize
    /\ pages = <<>>
    /\ knots = [r \in Refs |-> FreeKnot]
    /\ lastRefs = [t \in Types |-> BadRef]

-----------------------------------------------------------------------------
(* Pages *)

AlignBytes(a, n) == ((a + n - 1) \div n) * n

SizesOf(t) == IF t \in Sized THEN Extras ELSE {EditBSize[t]}

UInts == 0 .. UIntMod - 1

(* Of the elements of a page of type t that is to hold elements of size: a
   fm_uint, 0 when rounding up goes beyond it. *)
PageElementBSize(t, size) ==
    (IF t \in Sized THEN AlignBytes(size, 8) ELSE size) % UIntMod

(* editBSize * FM_PAGE_LOAD is a fm_uint as well. *)
AllElementsBSize(el) == (el * PageLoad) % UIntMod

(* Mutant: Elements start right behind the page, without the second alignment, and
   the next page is counted from the page's own address. *)
PagePlacedShort(t, size) ==
    LET pg == AlignBytes(bsAddr, 64)
        lo == AlignBytes(pg + PageBSize, 64)
        el == PageElementBSize(t, size)
    IN  [editType |-> t, editBSize |-> el, pgAddr |-> pg, loAddr |-> lo,
         hiAddr |-> pg + AllElementsBSize(el)]

PagePlaced(t, size) ==
    LET pg == AlignBytes(bsAddr, 64)
        lo == AlignBytes(pg + PageBSize, 64)
        el == PageElementBSize(t, size)
    IN  [editType |-> t, editBSize |-> el, pgAddr |-> pg, loAddr |-> lo,
         hiAddr |-> lo + AllElementsBSize(el)]

CanExtend(t, size) ==
    /\ Len(pages) # DirectoryLoad
    /\ PageElementBSize(t, size) # 0
    /\ PagePlaced(t, size).hiAddr <= HiAddr

AddPage(t, size) ==
    /\ pages' = Append(pages, PagePlaced(t, size))
    /\ bsAddr' = PagePlaced(t, size).hiAddr

(* fm_extend is the caller's as well, with or without a transaction. *)
Extend(t, size) ==
    /\ CanExtend(t, size)
    /\ AddPage(t, size)
    /\ UNCHANGED <<headVersion, currVersion, knots, lastRefs>>

(* One page of each type, the padding in front of pages and elements not
   counted. *)
MinimalSize ==
    MapThenSumSet(LAMBDA t : PageBSize + EditBSize[t] * PageLoad, Types)

(* Mutant: The directory's limit is tested only when it is reached. *)
IsFullLate ==
    \/ HiAddr <= MinimalSize
    \/ HiAddr - bsAddr <= MinimalSize
    \/ Len(pages) > DirectoryLoad

IsFull ==
    \/ HiAddr <= MinimalSize
    \/ HiAddr - bsAddr <= MinimalSize
    \/ Len(pages) > DirectoryLoad - Cardinality(Types)

-----------------------------------------------------------------------------
(* Transactions *)

(* BOUND: versions stay below VersionHead; the code counts on to 2^32 - 1. *)
Begin ==
    /\ ~Transacting
    /\ ~IsFull
    /\ headVersion + 1 < VersionHead
    /\ currVersion' = headVersion + 1
    /\ UNCHANGED <<headVersion, bsAddr, pages, knots, lastRefs>>

(* Mutant: the transaction is not closed. *)
EndStillOpen ==
    /\ Transacting
    /\ headVersion' = currVersion
    /\ UNCHANGED <<currVersion, bsAddr, pages, knots, lastRefs>>

End ==
    /\ Transacting
    /\ headVersion' = currVersion
    /\ currVersion' = VersionNone
    /\ UNCHANGED <<bsAddr, pages, knots, lastRefs>>

-----------------------------------------------------------------------------
(* References *)

(* Mutant: The search takes the reference it starts from without looking at it. *)
FreeRefsUntested(t, size) ==
    {r \in Refs :
        /\ lastRefs[t] # BadRef /\ r >= lastRefs[t]
        /\ PageOf(r) <= Len(pages) /\ TypeOf(r) = t
        /\ pages[PageOf(r)].editBSize >= size
        /\ knots[r].version = VersionNone \/ r = lastRefs[t]}

(* Mutant: Any page of the type is taken, whatever the size of its elements. *)
FreeRefsTooSmall(t, size) ==
    {r \in Refs :
        /\ lastRefs[t] # BadRef /\ r >= lastRefs[t]
        /\ PageOf(r) <= Len(pages) /\ TypeOf(r) = t
        /\ knots[r].version = VersionNone}

(* Mutant: The search starts at the first page. *)
FreeRefsAnywhere(t, size) ==
    {r \in Refs :
        /\ PageOf(r) <= Len(pages) /\ TypeOf(r) = t
        /\ pages[PageOf(r)].editBSize >= size
        /\ knots[r].version = VersionNone}

(* _findFreeRefFrom: the search starts at the last reference of the type
   and never looks behind it. *)
FreeRefs(t, size) ==
    {r \in Refs :
        /\ lastRefs[t] # BadRef /\ r >= lastRefs[t]
        /\ PageOf(r) <= Len(pages) /\ TypeOf(r) = t
        /\ pages[PageOf(r)].editBSize >= size
        /\ knots[r].version = VersionNone}

(* fm_refAlloc up to the knot: where the element goes, and the page that is
   added when no knot is free. *)
AllocPlace(t, size, r) ==
    /\ Transacting /\ size # 0
    /\ \/ /\ r \in FreeRefs(t, size)
          /\ \A s \in FreeRefs(t, size) : r <= s
          /\ UNCHANGED <<bsAddr, pages>>
       \/ /\ FreeRefs(t, size) = {}
          /\ CanExtend(t, size)
          /\ AddPage(t, size)
          /\ r = Len(pages) * PageLoad
    /\ lastRefs' = [lastRefs EXCEPT ![t] = r]

NewKnot == [FreeKnot EXCEPT !.version = currVersion]

RefAlloc(t, size, r) ==
    /\ AllocPlace(t, size, r)
    /\ knots' = [knots EXCEPT ![r] = NewKnot]
    /\ UNCHANGED <<headVersion, currVersion>>

(* The knot's links and those that lead to it stay: a caller gives back
   only what no other revision leads to. *)
RefDealloc(r) ==
    /\ Allocated(r)
    /\ \A s \in Refs : Allocated(s) => r \notin {knots[s].prev, knots[s].next}
    /\ knots' = [knots EXCEPT ![r].version = VersionNone]
    /\ UNCHANGED <<headVersion, currVersion, bsAddr, pages, lastRefs>>

RefSetLastAlloc(r) ==
    /\ Allocated(r)
    /\ lastRefs' = [lastRefs EXCEPT ![TypeOf(r)] = r]
    /\ UNCHANGED <<headVersion, currVersion, bsAddr, pages, knots>>

Linked(kn, from, to) == [kn EXCEPT ![from].next = to, ![to].prev = from]

(* Mutant: The versions of the two elements are not compared. *)
RefLinkUnordered(from, to) ==
    /\ Transacting
    /\ from # to
    /\ Allocated(from) /\ Allocated(to)
    /\ TypeOf(from) = TypeOf(to)
    /\ IsHead(from) /\ IsHead(to) /\ knots[to].prev = BadRef
    /\ knots' = Linked(knots, from, to)
    /\ UNCHANGED <<headVersion, currVersion, bsAddr, pages, lastRefs>>

RefLink(from, to) ==
    /\ Transacting
    /\ from # to
    /\ Allocated(from) /\ Allocated(to)
    /\ TypeOf(from) = TypeOf(to)
    /\ IsHead(from) /\ IsHead(to) /\ knots[to].prev = BadRef
    /\ knots[from].version < knots[to].version
    /\ knots' = Linked(knots, from, to)
    /\ UNCHANGED <<headVersion, currVersion, bsAddr, pages, lastRefs>>

(* Both ends have to exist: _getKnot asserts on FM_BAD_REF before the code
   tests the pointer.  The links of inref itself stay as they are. *)
RefUnlink(r) ==
    /\ Transacting
    /\ Allocated(r)
    /\ \E p, n \in Refs :
         /\ knots[r].prev = p /\ knots[r].next = n
         /\ knots[p].next = r /\ knots[n].prev = r
         /\ knots' = Linked(knots, p, n)
    /\ UNCHANGED <<headVersion, currVersion, bsAddr, pages, lastRefs>>

-----------------------------------------------------------------------------
(* _reviseRef: the revision of r that was the newest in version v. *)

(* Mutant: a revision of the very version asked for is passed over. *)
DowngradedTooFar(r, v) ==
    LET down[s \in Refs] ==
          LET p == knots[s].prev IN
          IF p = BadRef \/ knots[p].version < v THEN p ELSE down[p]
    IN  down[r]

Downgraded(r, v) ==
    LET down[s \in Refs] ==
          LET p == knots[s].prev IN
          IF p = BadRef \/ knots[p].version <= v THEN p ELSE down[p]
    IN  down[r]

(* Mutant: The next revision is followed without comparing its version. *)
UpgradedBlindly(r, v) ==
    LET up[s \in Refs] ==
          LET n == knots[s].next IN IF n = BadRef THEN s ELSE up[n]
    IN  up[r]

Upgraded(r, v) ==
    LET up[s \in Refs] ==
          LET n == knots[s].next IN
          IF n = BadRef \/ knots[n].version > v THEN s ELSE up[n]
    IN  up[r]

Revise(r, v) ==
    IF ~Allocated(r) THEN BadRef
    ELSE IF knots[r].version > v THEN Downgraded(r, v)
    ELSE IF knots[r].version < v THEN Upgraded(r, v)
    ELSE r

-----------------------------------------------------------------------------
(* The elements of page i need no more bytes than a fm_uint can tell. *)
Fitting(i) == pages[i].editBSize * PageLoad < UIntMod

(* BOUND: on a page that does not, elements lie beyond its end, where the next
   page or nothing may be.  What they overwrite is not modelled: nothing
   happens any more. *)
AllFitting == \A i \in 1 .. Len(pages) : Fitting(i)

ZoneCall ==
    \/ Begin
    \/ End
    \/ \E t \in Types : \E size \in SizesOf(t) :
         Extend(t, size) \/ \E r \in Refs : RefAlloc(t, size, r)
    \/ \E r \in Refs : RefDealloc(r) \/ RefSetLastAlloc(r) \/ RefUnlink(r)
    \/ \E from, to \in Refs : RefLink(from, to)

ZoneNext == AllFitting /\ ZoneCall

ZoneSpec == ZoneInit /\ [][ZoneNext]_zoneVars

-----------------------------------------------------------------------------
(* Properties *)

Knots == [version : Versions, prev : Refs \cup {BadRef}, next : Refs \cup {BadRef}]

(* Versions count up, an open transaction is the one after the head, and
   references, knots and pages are what the directory can hold. *)
ZoneTypeOK ==
    /\ headVersion \in Versions
    /\ currVersion \in {VersionNone, headVersion + 1}
    /\ currVersion \in Versions
    /\ bsAddr \in Nat
    /\ pages \in Seq([editType : Types, editBSize : UInts, pgAddr : Nat, loAddr : Nat,
                     hiAddr : Nat])
    /\ Len(pages) <= DirectoryLoad
    /\ knots \in [Refs -> Knots]
    /\ lastRefs \in [Types -> Refs \cup {BadRef}]

(* fm_extend: pages lie behind one another inside the zone, aligned, each
   with room for its header and, as long as what they need is a fm_uint, its
   elements; the next one goes behind.  The last may end where the zone does,
   although _checkZone asserts bsAddr < hiAddr. *)
PagesApart ==
    /\ \A i \in 1 .. Len(pages) :
         /\ pages[i].pgAddr % 64 = 0 /\ pages[i].loAddr % 64 = 0
         /\ pages[i].pgAddr >= IF i = 1 THEN ZoneBSize ELSE pages[i - 1].hiAddr
         /\ pages[i].loAddr >= pages[i].pgAddr + PageBSize
         /\ pages[i].hiAddr >= pages[i].loAddr
         /\ Fitting(i) => pages[i].hiAddr >= pages[i].loAddr + PageLoad * pages[i].editBSize
    /\ pages # <<>> => bsAddr = pages[Len(pages)].hiAddr
    /\ bsAddr <= HiAddr

(* What _check_ref_revision_integrity asks of every element in use: the
   revisions it leads to are in use, older on one side, newer on the other. *)
RevisionIntegrity ==
    \A r \in Refs : Allocated(r) =>
        /\ knots[r].prev # BadRef =>
             Allocated(knots[r].prev) /\ knots[knots[r].prev].version < knots[r].version
        /\ knots[r].next # BadRef =>
             Allocated(knots[r].next) /\ knots[knots[r].next].version > knots[r].version

(* The elements that r's links lead to, however far. *)
Lineage(r) ==
    {s \in Refs : \A S \in SUBSET Refs :
        /\ r \in S
        /\ \A q \in S : {knots[q].prev, knots[q].next} \ {BadRef} \subseteq S
        => s \in S}

(* Nothing was taken out of the list here by fm_refUnlink: the neighbours
   lead back. *)
InList(r) ==
    /\ knots[r].prev # BadRef => knots[knots[r].prev].next = r
    /\ knots[r].next # BadRef => knots[knots[r].next].prev = r

(* _reviseRef finds the newest revision that is not newer than the version
   asked for, from whichever revision the search starts, and none when the
   element is younger. *)
ReviseExact ==
    \A r \in Refs : Allocated(r) /\ InList(r) =>
        \A v \in 1 .. VersionHead :
            LET known == {s \in Lineage(r) : knots[s].version <= v} IN
            IF known = {} THEN Revise(r, v) = BadRef
            ELSE /\ Revise(r, v) \in known
                 /\ \A s \in known : knots[s].version <= knots[Revise(r, v)].version

(* fm_refAlloc never gives out an element that is in use: as long as it is
   not given back it keeps its version. *)
LiveKept ==
    [][\A r \in Refs : Allocated(r) =>
          knots'[r].version \in {knots[r].version, VersionNone}]_zoneVars

(* A transaction that is let begin can add a page of any one type, of arrays
   up to the size counted for one: the reason for fm_isFull's reserve. *)
BeginHasRoom ==
    [][Begin => \A t \in Types : \A size \in SizesOf(t) :
          size <= EditBSize[t] => CanExtend(t, size)]_zoneVars
=============================================================================
