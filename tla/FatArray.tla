------------------------------ MODULE FatArray ------------------------------
(***************************************************************************)
(* The arrays of the fat model.  An array is a list of modifiers, each of  *)
(* which sets or unsets one index and notes the greatest index set so far. *)
(* Its capacity is given with its allocation, and so is its element's size *)
(* in the zone.  An array that is full is meant to be reduced into a new   *)
(* element, but a reduction never keeps anything.                          *)
(*                                                                         *)
(* An element that is not in use holds Blank: fm_refAlloc zeroes what it   *)
(* gives out, so what was there before is never read.  A call that answers *)
(* false without having changed anything is no action.                     *)
(***************************************************************************)
EXTENDS FatZone, SequencesExt

CONSTANTS
    Array,       \* FM_RT_ARRAY, a member of Sized
    ArrayBSize,  \* sizeof(fm_editArray)
    ModBSize,    \* sizeof(fm_arrayMod)
    Strides,     \* what one entry occupies, by the type of the array
    MaxMods,     \* BOUND: the greatest capacity a caller asks for
    MaxInt,      \* the greatest int; an index goes up to twice that and one
    Data,        \* the entries
    Unset        \* no entry

ASSUME ArrayAssumption ==
    /\ Array \in Sized
    /\ ArrayBSize \in Nat \ {0} /\ ModBSize \in Nat \ {0}
    /\ Strides \subseteq Nat \ {0} /\ MaxMods \in Nat \ {0}
    /\ MaxInt \in Nat
    /\ Unset \notin Data

VARIABLES
    arrays,   \* the array at each reference, if there is one
    defect    \* history: the first thing the code did against its comments

arrayVars == <<arrays, defect>>

Indices == 0 .. 2 * MaxInt + 1

Ints == -MaxInt - 1 .. MaxInt

ArrayMods == [version : Versions, index : Ints, last : Indices, value : Data \cup {Unset}]

Blank == [max |-> 0, stride |-> 0, mods |-> <<>>]

IsArray(r) == Allocated(r) /\ TypeOf(r) = Array

ArrayInit ==
    /\ arrays = [r \in Refs |-> Blank]
    /\ defect = "none"

-----------------------------------------------------------------------------
(* What a modifier says: an index that it sets, kept as an int, or
   - int(index) - 1 for one that it unsets. *)

(* Mutant: the index is kept as it is. *)
SignedNot(i) == i

Signed(i) == IF i <= MaxInt THEN i ELSE i - 2 * (MaxInt + 1)

UnsetCode(i) == -Signed(i) - 1

(* The indices whose int is no index: the code takes what they are kept as
   for the unsetting of another one. *)
Wide(i) == Signed(i) < 0

(* Mutant: the search goes on over newer modifiers. *)
UpToAny(ms, v) == 1 .. Len(ms)

(* _modFind halves the list for the last of these. *)
UpTo(ms, v) == {j \in 1 .. Len(ms) : ms[j].version <= v}

AtVersion(v) == IF v = VersionHead THEN headVersion ELSE v

(* The modifiers that a reader of version v looks at. *)
Seen(r, v) ==
    LET n == Revise(r, v)
        ms == IF n = BadRef THEN <<>> ELSE arrays[n].mods
    IN  [j \in (IF v = VersionNone THEN {} ELSE UpTo(ms, AtVersion(v))) |-> ms[j]]

LastOf(ms) == ms[Max(DOMAIN ms)].last

(* fm_arrayRange *)
ArrayRange(r, v) ==
    LET ms == Seen(r, v)
    IN  IF DOMAIN ms = {} THEN 0 ELSE (LastOf(ms) + 1) % (2 * (MaxInt + 1))

(* fm_arrayGet: the last modifier that sets or unsets i decides. *)
ArrayGet(r, v, i) ==
    LET ms == Seen(r, v)
        about == {j \in DOMAIN ms : ms[j].index \in {Signed(i), UnsetCode(i)}}
    IN  IF about = {} \/ i > LastOf(ms) THEN Unset
        ELSE LET m == ms[Max(about)]
             IN  IF m.index = Signed(i) THEN m.value ELSE Unset

-----------------------------------------------------------------------------
(* Writing *)

NeededBSize(max, stride) == ArrayBSize + ModBSize * max + stride * max

(* fm_arrayAlloc keeps what is needed in a fm_uint. *)
ArrayElementBSize(max, stride) == NeededBSize(max, stride) % UIntMod

ArrayAlloc(max, stride, new) ==
    /\ RefAlloc(Array, ArrayElementBSize(max, stride), new)
    /\ arrays' = [arrays EXCEPT ![new] = [max |-> max, stride |-> stride, mods |-> <<>>]]
    /\ UNCHANGED defect

(* fm_arrayDuplicate.  _arrayDeflate is given the capacity and the places of
   the new array before they are set, so it copies nothing and the new array
   keeps room for nothing. *)
ArrayDuplicate(r, v, new) ==
    /\ v # VersionNone
    /\ \E n \in {Revise(r, v)} :
         /\ IsArray(n)
         /\ RefAlloc(Array, pages[PageOf(n)].editBSize, new)
    /\ arrays' = [arrays EXCEPT ![new] = Blank]
    /\ UNCHANGED defect

Full(n) == Len(arrays[n].mods) = arrays[n].max

(* fm_arraySet and fm_arrayUnset revise the reference they are given first:
   n is one of these. *)
Newest == {Revise(r, VersionHead) : r \in Refs}

ArrayMod(i, last, w) == [version |-> currVersion, index |-> i, last |-> last, value |-> w]

Extended(n, mod) ==
    /\ arrays' = [arrays EXCEPT ![n].mods = Append(@, mod)]
    /\ UNCHANGED zoneVars

LastSet(n) == IF arrays[n].mods = <<>> THEN 0 ELSE Last(arrays[n].mods).last

(* Mutant: the last index is that of this modifier. *)
ArraySetLastOnly(n, i, w) ==
    /\ Transacting /\ IsArray(n) /\ ~Full(n)
    /\ Extended(n, ArrayMod(Signed(i), i, w))
    /\ defect' = IF Wide(i) THEN "wide" ELSE defect

(* The entry is written, then the count goes up.  No index is refused. *)
ArraySet(n, i, w) ==
    /\ Transacting /\ IsArray(n) /\ ~Full(n)
    /\ Extended(n, ArrayMod(Signed(i), Max({LastSet(n), i}), w))
    /\ defect' = IF Wide(i) THEN "wide" ELSE defect

(* Mutant: an index that was never reached is unset as well. *)
ArrayUnsetAny(n, i) ==
    /\ Transacting /\ IsArray(n) /\ ~Full(n)
    /\ arrays[n].mods # <<>>
    /\ Extended(n, ArrayMod(UnsetCode(i), LastSet(n), Unset))
    /\ defect' = IF Wide(i) THEN "wide" ELSE defect

ArrayUnset(n, i) ==
    /\ Transacting /\ IsArray(n) /\ ~Full(n)
    /\ arrays[n].mods # <<>> /\ i <= LastSet(n)
    /\ Extended(n, ArrayMod(UnsetCode(i), LastSet(n), Unset))
    /\ defect' = IF Wide(i) THEN "wide" ELSE defect

(* Setting or unsetting in a full array: its duplicate has room for nothing
   and is given back.  A page may have been added for it. *)
ArrayRefuse(n) ==
    /\ IsArray(n) /\ Full(n)
    /\ \E new \in Refs :
         /\ AllocPlace(Array, pages[PageOf(n)].editBSize, new)
         /\ knots' = [knots EXCEPT ![new] = FreeKnot]
    /\ UNCHANGED <<headVersion, currVersion, arrays, defect>>

(* The element of an array was made for less than the array needs. *)
Overlong(a) == a # Blank /\ NeededBSize(a.max, a.stride) >= UIntMod

ArrayNext ==
    \/ \E max \in 1 .. MaxMods, stride \in Strides, new \in Refs :
         ArrayAlloc(max, stride, new)
    \/ \E r, new \in Refs, v \in (1 .. currVersion) \cup {VersionHead} :
         ArrayDuplicate(r, v, new)
    \/ \E n \in Newest :
         \/ \E i \in Indices : ArrayUnset(n, i) \/ \E w \in Data : ArraySet(n, i, w)
         \/ ArrayRefuse(n)

-----------------------------------------------------------------------------
(* Properties *)

ArrayTypeOK ==
    /\ arrays \in [Refs -> [max : 0 .. MaxMods, stride : Strides \cup {0},
                            mods : Seq(ArrayMods)]]
    /\ defect \in {"none", "wide"}

(* An array's modifiers and entries lie within the element it was given, as
   long as what they need is a fm_uint: the search for a free element and the
   size of a new page see to it. *)
ArraysFit ==
    \A r \in Refs : IsArray(r) =>
        LET a == arrays[r] IN
        /\ Len(a.mods) <= a.max
        /\ a = Blank \/ Overlong(a) \/
           NeededBSize(a.max, a.stride) <= pages[PageOf(r)].editBSize

(* _arrayCheck: versions do not decrease, and no modifier is about an index
   beyond the last one. *)
ArrayChecked ==
    defect = "none" =>
    \A r \in Refs : \A j \in 1 .. Len(arrays[r].mods) :
        LET m == arrays[r].mods[j] IN
        /\ j > 1 => arrays[r].mods[j - 1].version <= m.version
        /\ (IF m.index >= 0 THEN m.index ELSE -m.index - 1) <= m.last

(* fm_arrayRange in a version is one past the greatest index set by then,
   whatever was unset: a reader that loops to it misses no entry. *)
RangeExact ==
    defect = "none" =>
    \A r \in Refs : IsArray(r) => \A v \in knots[r].version .. VersionHead :
        ArrayRange(r, v) =
            Max({0} \cup {m.index + 1 : m \in
                {n \in Range(arrays[r].mods) : n.version <= AtVersion(v) /\ n.index >= 0}})
=============================================================================
