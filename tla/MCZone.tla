------------------------------ MODULE MCZone ------------------------------
(* A small instance of FatZone: short strings, and arrays of a size that is
   rounded up, with the sizes of the 64-bit build and pages of PageLoad
   elements.  HiAddr leaves the room IsFull asks for behind three pages of
   strings: both its limits, of bytes and of pages, are met. *)
EXTENDS FatZone

CONSTANTS sstring, array

(* sizeof(fm_editSString), and what fm_isFull counts for an array *)
TwoSizes == [t \in Types |-> IF t = sstring THEN 16 ELSE 4096]
=============================================================================
