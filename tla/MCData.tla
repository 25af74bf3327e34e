------------------------------- MODULE MCData -------------------------------
(* A small instance of FatData: arrays of up to MaxMods modifiers and short
   strings, with the sizes of the 64-bit build and pages of PageLoad elements. *)
EXTENDS FatData

CONSTANTS sstring, array, lower, upper

(* sizeof(fm_editSString), and what fm_isFull counts for an array *)
TwoSizes == [t \in Types |-> IF t = sstring THEN 16 ELSE 56]

OneClass == [x \in Texts |-> sstring]

LowerCase == [x \in Texts |-> IF x = upper THEN lower ELSE x]

CONSTANTS DeepMods, WideMods

Used(t) == Cardinality({r \in Refs : Allocated(r) /\ TypeOf(r) = t})

Written == Cardinality({m \in Refs \X (1 .. MaxMods) : m[2] <= Len(arrays[m[1]].mods)})

(* BOUND: one array with up to DeepMods modifiers, or two with up to WideMods
   and a string, or two strings and an array; nothing is explored behind a
   defect. *)
Bounded ==
    /\ defect = "none"
    /\ \/ Used(array) <= 1 /\ Used(sstring) = 0 /\ Written <= DeepMods
       \/ Used(array) <= 2 /\ Used(sstring) = 0 /\ Written <= WideMods
       \/ Used(array) = 0 /\ Used(sstring) <= 2
       \/ Used(array) <= 1 /\ Used(sstring) <= 1 /\ Written = 0

(* Only whether two entries are the same is ever told. *)
Symmetry == Permutations(Data)
=============================================================================
