------------------------------ MODULE FatBrush ------------------------------
(***************************************************************************)
(* The brushes of the fat model.  A brush is a list of modifiers; each     *)
(* sets a face under an id and carries a mask: the positions of the        *)
(* modifiers that are in force as of this one.  A brush that is full is    *)
(* replaced by a new revision of it that holds only what is in force.      *)
(*                                                                         *)
(* A mask is a set of positions, and positions count from 1.  A call that  *)
(* answers false without having changed anything is no action.             *)
(***************************************************************************)
EXTENDS FatZone, SequencesExt

CONSTANTS
    Brush,      \* FM_RT_BRUSH, a member of Types
    BrushLoad,  \* FM_BRUSH_LOAD: modifiers per brush
    IntBits,    \* the width of an int
    Ids,        \* BOUND: the ids of faces that are used
    Faces,      \* the faces; two are only ever told apart
    NoFace,     \* the face whose plane has no direction: it unsets
    Absent      \* of the promised store: no such brush

ASSUME BrushAssumption ==
    /\ Brush \in Types \ Sized
    /\ BrushLoad \in Nat \ {0}
    /\ IntBits \in Nat /\ BrushLoad <= IntBits
    /\ NoFace \notin Faces

VARIABLES
    brushes,   \* the modifiers of the brush at each reference, if there is one
    defect     \* history: the first thing the code did against its comments

vars == <<headVersion, currVersion, bsAddr, pages, knots, lastRefs, brushes, defect>>

Positions == 1 .. BrushLoad

Mod(v, i, f, mask) == [version |-> v, id |-> i, face |-> f, effective |-> mask]

Mods == [version : Versions, id : Ids, face : Faces \cup {NoFace},
         effective : SUBSET Positions]

Init ==
    /\ ZoneInit
    /\ brushes = [r \in Refs |-> <<>>]
    /\ defect = "none"

IsBrush(r) == Allocated(r) /\ TypeOf(r) = Brush

-----------------------------------------------------------------------------
(* Reading *)

(* Mutant: the search stops short of the version it is asked for. *)
FoundModBefore(ms, v) == {j \in 1 .. Len(ms) : ms[j].version < v}

(* _modFind halves the list, which is ordered by version, for the highest of
   these. *)
FoundMod(ms, v) == {j \in 1 .. Len(ms) : ms[j].version <= v}

(* The mask of version v. *)
InForce(ms, v) ==
    LET found == FoundMod(ms, v)
    IN  IF found = {} THEN {} ELSE ms[Max(found)].effective

(* _brushFindFace: the lowest position in force that has the id. *)
FaceIndex(ms, i, v) ==
    LET faces == {j \in InForce(ms, v) : ms[j].id = i}
    IN  {j \in faces : \A k \in faces : j <= k}

Stored(ms, i, v) ==
    LET index == FaceIndex(ms, i, v)
    IN  IF index = {} THEN NoFace ELSE ms[CHOOSE j \in index : TRUE].face

AtVersion(v) == IF v = VersionHead THEN headVersion ELSE v

(* fm_brushGet *)
BrushGet(r, v, i) ==
    LET n == Revise(r, v) IN
    IF v = VersionNone \/ n = BadRef THEN NoFace
    ELSE Stored(brushes[n], i, AtVersion(v))

(* (1 << cnt) - 1 in an int: with as many faces as an int has bits the shift
   is undefined, and comes out as no bit or as all of them. *)
LowBits(n) == IF n < IntBits THEN {1 .. n} ELSE {{}, 1 .. n}

(* The positions in a mask, from the first to the last. *)
InOrder(S) ==
    CHOOSE order \in [1 .. Cardinality(S) -> S] :
        \A i, j \in 1 .. Cardinality(S) : i < j => order[i] < order[j]

(* _brushDeflate into another brush: what is in force, each modifier with
   the mask of all. *)
Deflations(ms, v) ==
    LET order == InOrder(InForce(ms, v))
    IN  {[n \in 1 .. Len(order) |-> [ms[order[n]] EXCEPT !.effective = mask]] :
            mask \in LowBits(Len(order))}

Sorted(ms) ==
    {s \in [1 .. Len(ms) -> Range(ms)] :
        /\ Range(s) = Range(ms)
        /\ \A i, j \in 1 .. Len(ms) : i < j => s[i].version <= s[j].version}
-----------------------------------------------------------------------------
(* Writing *)

BeginTransaction == Begin /\ UNCHANGED <<brushes, defect>>

EndTransaction == End /\ UNCHANGED <<brushes, defect>>

BrushAlloc(new) ==
    /\ RefAlloc(Brush, EditBSize[Brush], new)
    /\ brushes' = [brushes EXCEPT ![new] = <<>>]
    /\ UNCHANGED defect

(* Mutant: the reference is taken as it is given. *)
NewestAsGiven == Refs

(* fm_brushSet revises the reference it is given first: n is one of these. *)
Newest == {Revise(r, VersionHead) : r \in Refs}

Settable(n) == Transacting /\ IsBrush(n)

(* Mutant: the face that is replaced stays in force. *)
ExtendedTwice(ms, i, f) ==
    LET before == FaceIndex(ms, i, VersionHead)
        mask   == IF f = NoFace THEN InForce(ms, VersionHead) \ before
                  ELSE InForce(ms, VersionHead) \cup {Len(ms) + 1}
    IN  IF before = {} /\ f = NoFace THEN ms ELSE Append(ms, Mod(currVersion, i, f, mask))

(* A modifier more: the face that had the id is out of force, the new one,
   unless it unsets, is in.  What is not set is not unset. *)
Extended(ms, i, f) ==
    LET before == FaceIndex(ms, i, VersionHead)
        mask   == (InForce(ms, VersionHead) \ before)
                      \cup (IF f = NoFace THEN {} ELSE {Len(ms) + 1})
    IN  IF before = {} /\ f = NoFace THEN ms ELSE Append(ms, Mod(currVersion, i, f, mask))

(* Mutant: the capacity is missed by one. *)
SetAppendOver(n, i, f) ==
    /\ Settable(n)
    /\ Len(brushes[n]) <= BrushLoad
    /\ brushes' = [brushes EXCEPT ![n] = Extended(@, i, f)]
    /\ UNCHANGED <<headVersion, currVersion, bsAddr, pages, knots, lastRefs, defect>>

SetAppend(n, i, f) ==
    /\ Settable(n)
    /\ Len(brushes[n]) < BrushLoad
    /\ brushes' = [brushes EXCEPT ![n] = Extended(@, i, f)]
    /\ UNCHANGED <<headVersion, currVersion, bsAddr, pages, knots, lastRefs, defect>>

(* The brush n is full: what is in force goes to a new brush. *)
Spilling(n, new) ==
    /\ Settable(n)
    /\ Len(brushes[n]) = BrushLoad
    /\ AllocPlace(Brush, EditBSize[Brush], new)
    /\ UNCHANGED <<headVersion, currVersion>>

Flat(n) == knots[n].version = currVersion

LinkNew(n, new) ==
    knots' = Linked([knots EXCEPT ![new] = NewKnot], n, new)

(* A face in force is replaced in place, before the modifiers are sorted. *)
Replaced(ms, j, f) ==
    [ms EXCEPT ![j] = Mod(currVersion, ms[j].id, f,
                          IF f = NoFace THEN ms[j].effective \ {j} ELSE ms[j].effective)]

(* The masks name positions: they are right behind the sort if none moved,
   and only the last one counts. *)
MaskSpoiled(ms, s, j, f) == f = NoFace /\ (s # Replaced(ms, j, f) \/ j # Len(ms))

(* The face is among those in force: it is replaced. *)
SetSpillKnown(n, i, f) ==
    \E new \in Refs :
        /\ Spilling(n, new)
        /\ \E flat \in Deflations(brushes[n], currVersion) :
             /\ Len(flat) < BrushLoad
             /\ \E j \in FaceIndex(flat, i, VersionHead) :
                \E s \in Sorted(Replaced(flat, j, f)) :
                  /\ brushes' = [brushes EXCEPT ![new] = s]
                  /\ defect' = IF Flat(n) THEN "flat"
                               ELSE IF MaskSpoiled(flat, s, j, f) THEN "mask"
                               ELSE defect
        /\ LinkNew(n, new)

(* The face is new, or none is unset: the new brush is extended. *)
SetSpillNew(n, i, f) ==
    \E new \in Refs :
        /\ Spilling(n, new)
        /\ \E flat \in Deflations(brushes[n], currVersion) :
             /\ Len(flat) < BrushLoad
             /\ FaceIndex(flat, i, VersionHead) = {}
             /\ brushes' = [brushes EXCEPT ![new] = Extended(flat, i, f)]
        /\ LinkNew(n, new)
        /\ defect' = IF Flat(n) THEN "flat" ELSE defect

(* Every modifier is in force: the new brush is given back. *)
SetTooMany(n) ==
    /\ \E new \in Refs : Spilling(n, new)
    /\ Cardinality(InForce(brushes[n], currVersion)) = BrushLoad
    /\ UNCHANGED <<knots, brushes, defect>>

Set(n, i, f) == SetAppend(n, i, f) \/ SetSpillKnown(n, i, f) \/ SetSpillNew(n, i, f)

(* fm_brushDuplicate.  Asked for the head it takes the newest revision, one
   of the open transaction too, and reads it as of the last version. *)
BrushDuplicate(r, v) ==
    /\ Transacting
    /\ v # VersionNone
    /\ \E n \in {Revise(r, v)} :
         /\ IsBrush(n)
         /\ \E new \in Refs :
              /\ RefAlloc(Brush, EditBSize[Brush], new)
              /\ \E copy \in Deflations(brushes[n], AtVersion(v)) :
                   /\ brushes' = [brushes EXCEPT ![new] = copy]
                   /\ defect' = IF v = VersionHead /\ Flat(n) THEN "early"
                                ELSE IF Len(copy) = IntBits THEN "width"
                                ELSE defect

Next ==
    \/ BeginTransaction
    \/ EndTransaction
    \/ \E new \in Refs : BrushAlloc(new)
    \/ \E n \in Newest :
         \/ \E i \in Ids, f \in Faces \cup {NoFace} : Set(n, i, f)
         \/ SetTooMany(n)
    \/ \E r \in Refs, v \in (1 .. currVersion) \cup {VersionHead} : BrushDuplicate(r, v)

Spec == Init /\ [][Next]_vars

-----------------------------------------------------------------------------
(* Properties *)

(* Brushes hold at most BrushLoad modifiers. *)
TypeOK ==
    /\ ZoneTypeOK
    /\ brushes \in [Refs -> Seq(Mods)]
    /\ \A r \in Refs : Len(brushes[r]) <= BrushLoad
    /\ defect \in {"none", "flat", "mask", "early", "width"}

(* _brushCheck: versions do not decrease, so that a search may halve the
   list, and no version has two faces of one id in force. *)
BrushChecked ==
    \A r \in Refs :
        /\ \A i, j \in 1 .. Len(brushes[r]) :
             i < j => brushes[r][i].version <= brushes[r][j].version
        /\ \A v \in Versions : \A j, k \in InForce(brushes[r], v) :
             brushes[r][j].id = brushes[r][k].id => j = k

(* The masks name modifiers that are there and that set a face, and of a
   version only what was set by then. *)
MasksReach ==
    defect = "none" =>
    \A r \in Refs : \A v \in knots[r].version .. VersionHead :
        \A j \in InForce(brushes[r], v) :
            /\ j <= Len(brushes[r])
            /\ brushes[r][j].face # NoFace
            /\ brushes[r][j].version <= v

ASSUME AbsentAssumption == Absent \notin [Ids -> Faces \cup {NoFace}]

IsRoot(r) == Allocated(r) /\ knots[r].prev = BadRef

Latest == IF Transacting THEN currVersion ELSE headVersion

Contents(r, v) ==
    IF IsRoot(r) /\ knots[r].version <= v
    THEN LET n == Revise(r, v) IN [i \in Ids |-> Stored(brushes[n], i, v)]
    ELSE Absent

Store == INSTANCE VersionedStore WITH
    Nodes  <- Refs,
    Keys   <- Ids,
    Values <- Faces,
    Unset  <- NoFace,
    open   <- Transacting,
    live   <- [r \in Refs |-> Contents(r, Latest)],
    past   <- [v \in 1 .. headVersion |-> [r \in Refs |-> Contents(r, v)]]

(* Up to the first defect the brushes are a versioned store of faces by id:
   a set changes one face of one brush, and what was committed never
   changes, spills included. *)
Versioned ==
    /\ Store!StoreInit
    /\ [][defect' = "none" => Store!StoreNext \/ UNCHANGED Store!storeVars]_vars

(* fm_brushSet: read by the reference that was revised to, as of the open
   version, a set changes the face it sets and no other, whether the brush
   is extended or spilled. *)
SetIsRead ==
    [][\A n \in Newest, i \in Ids, f \in Faces \cup {NoFace} :
          Set(n, i, f) /\ defect' = "none" =>
             \A k \in Ids :
                BrushGet(n, currVersion, k)' =
                    IF k = i THEN f ELSE BrushGet(n, currVersion, k)]_vars

(* For the configurations: nothing is explored behind a defect. *)
Unspoiled == defect = "none"
=============================================================================
