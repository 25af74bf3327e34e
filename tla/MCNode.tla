------------------------------ MODULE MCNode ------------------------------
(* Small instances of FatNode: one type, pages of PageLoad nodes, with the
   node of the 64-bit build scaled to NodeLoad modifiers. *)
EXTENDS FatNode

CONSTANTS node

(* sizeof(fm_editNode) *)
NodeSize == [t \in Types |-> 4 + NodeLoad * 20]

CONSTANTS DeepMods, WideMods, OneKeyMods

Roots == {r \in Refs : IsRoot(r)}

Written == {m \in Refs \X (1 .. NodeLoad) : m[2] <= Len(nodes[m[1]])}

KeysUsed == {nodes[m[1]][m[2]].key : m \in Written}

NotData == {m \in Written : nodes[m[1]][m[2]].value \notin Data}

(* BOUND: one node, whatever the number of its revisions, with up to DeepMods
   modifiers in all, or two with up to WideMods; up to OneKeyMods[n] modifiers
   of n nodes when all are of one key and all but one set data; of two nodes
   one then has nothing but a reference.  Nothing is explored behind a defect. *)
Bounded ==
    /\ Unspoiled
    /\ \/ Cardinality(Roots) <= 1 /\ Cardinality(Written) <= DeepMods
       \/ Cardinality(Roots) = 2 /\ Cardinality(Written) <= WideMods
       \/ /\ Cardinality(Roots) \in DOMAIN OneKeyMods
          /\ Cardinality(Written) <= OneKeyMods[Cardinality(Roots)]
          /\ Cardinality(KeysUsed) <= 1 /\ Cardinality(NotData) <= 1
          /\ Cardinality(Roots) = 2 => \E r \in Roots :
               IsHead(r) /\ \A m \in Written : m[1] = r => m[2] = 1 /\ m \in NotData

(* Two spills of one node, or one of a node that another one refers to. *)
SevenOrFive == <<7, 5>>

NoMore == <<>>

(* Keys and data are used alike: only whether two are the same is tested. *)
Symmetry == Permutations(Keys) \cup Permutations(Data)
=============================================================================
