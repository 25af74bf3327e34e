------------------------------ MODULE MCReader ------------------------------
(* A small instance of FatReader: one key that is set to a value, unset and
   read, and one that is only ever set. *)
EXTENDS FatReader

CONSTANTS k1, k2, a

ThreeWrites == {<<k1, a>>, <<k1, Unset>>, <<k2, a>>}
=============================================================================
