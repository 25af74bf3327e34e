------------------------------ MODULE MCRing ------------------------------
(* Small instances of RingMessenger: who the clients are and their ids. *)
EXTENDS RingProperties

CONSTANTS c1, c2, c3, c4

One   == {c1}
Two   == {c1, c2}
None  == {}
Three == {c1, c2, c3}
Four  == {c1, c2, c3, c4}

(* Distinct ids. *)
OwnIds == [c \in Clients |-> IF c = c1 THEN 1 ELSE IF c = c2 THEN 2 ELSE 3]

(* Two clients were given the same id. *)
SharedId == [c \in Clients |-> IF c = c1 THEN 1 ELSE IF c = c4 THEN 3 ELSE 2]

(* The promises end with the first overlap of two connects or the first lap
   of the head: nothing is explored behind it. *)
Unspoiled == ~raced /\ ~lapped
=============================================================================
