------------------------------ MODULE MCBrush ------------------------------
(* Small instances of FatBrush: one type, pages of PageLoad brushes, with the
   brush of the 64-bit build scaled to BrushLoad modifiers. *)
EXTENDS FatBrush

CONSTANTS brush

(* sizeof(fm_editBrush) *)
BrushSize == [t \in Types |-> 8 + BrushLoad * 64]

CONSTANTS DeepMods, WideMods, OneFaceMods

Roots == {r \in Refs : IsRoot(r)}

Written == {m \in Refs \X Positions : m[2] <= Len(brushes[m[1]])}

FacesUsed == {<<brushes[m[1]][m[2]].id, brushes[m[1]][m[2]].face>> : m \in Written}

(* BOUND: one brush, whatever the number of its revisions, with up to DeepMods
   modifiers in all, or two with up to WideMods; one with up to OneFaceMods,
   enough to spill twice, when all set one id to one face.  Nothing is explored
   behind a defect. *)
Bounded ==
    /\ Unspoiled
    /\ \/ Cardinality(Roots) <= 1 /\ Cardinality(Written) <= DeepMods
       \/ Cardinality(Roots) = 2 /\ Cardinality(Written) <= WideMods
       \/ /\ Cardinality(Roots) = 1 /\ Cardinality(FacesUsed) <= 1
          /\ Cardinality(Written) <= OneFaceMods

(* Ids and faces are used alike: only whether two are the same is tested. *)
Symmetry == Permutations(Ids) \cup Permutations(Faces)
=============================================================================
