------------------------------ MODULE FatData ------------------------------
(***************************************************************************)
(* Arrays and strings in one zone: they share its pages, its versions and  *)
(* the search for a free element, and a caller may give elements back and  *)
(* set the search back.                                                    *)
(***************************************************************************)
EXTENDS FatArray, FatString

CONSTANT Absent    \* of the promised store: no such array

dataVars == <<zoneVars, arrayVars, strings>>

DataInit == ZoneInit /\ ArrayInit /\ StringInit

ElementDealloc(r) ==
    /\ RefDealloc(r)
    /\ arrays' = [arrays EXCEPT ![r] = Blank]
    /\ strings' = [strings EXCEPT ![r] = NoText]
    /\ UNCHANGED defect

(* BOUND: what an array overwrites that is longer than its element is not
   modelled, nor what lies beyond the end of a page: nothing happens any more. *)
Contained == AllFitting /\ \A r \in Refs : ~Overlong(arrays[r])

DataNext ==
    /\ Contained
    /\ \/ Begin /\ UNCHANGED <<arrayVars, strings>>
       \/ End /\ UNCHANGED <<arrayVars, strings>>
       \/ ArrayNext /\ UNCHANGED strings
       \/ StringNext /\ UNCHANGED arrayVars
       \/ \E r \in Refs :
            \/ ElementDealloc(r)
            \/ RefSetLastAlloc(r) /\ UNCHANGED <<arrayVars, strings>>

DataSpec == DataInit /\ [][DataNext]_dataVars

-----------------------------------------------------------------------------
(* Properties *)

TypeOK == ZoneTypeOK /\ ArrayTypeOK /\ StringTypeOK

ASSUME AbsentAssumption == Absent \notin [Indices -> Data \cup {Unset}]

Latest == IF Transacting THEN currVersion ELSE headVersion

Contents(r, v) ==
    IF IsArray(r) /\ knots[r].version <= v THEN [i \in Indices |-> ArrayGet(r, v, i)]
    ELSE Absent

Store == INSTANCE VersionedStore WITH
    Nodes  <- Refs,
    Keys   <- Indices,
    Values <- Data,
    open   <- Transacting,
    live   <- [r \in Refs |-> Contents(r, Latest)],
    past   <- [v \in 1 .. headVersion |-> [r \in Refs |-> Contents(r, v)]]

(* As long as none is given back and their indices are ints, the arrays are
   a versioned store: a set changes one entry of one array, and what was
   committed never changes, whatever is allocated, refused or looked up. *)
Versioned ==
    /\ Store!StoreInit
    /\ [][defect' = "none" /\ (\A r \in Refs : IsArray(r) => Allocated(r)')
          => Store!StoreNext \/ UNCHANGED Store!storeVars]_dataVars
=============================================================================
