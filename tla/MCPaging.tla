------------------------------ MODULE MCPaging ------------------------------
(* A small instance of PagingFile: two processes that share one file. *)
EXTENDS PagingFile, TLC

CONSTANTS p, q, f, a1, a2

Symmetry == Permutations(Processes) \cup Permutations(Addresses)
=============================================================================
