--------------------------- MODULE VersionedStore ---------------------------
(***************************************************************************)
(* What the fat model promises of its nodes: a node maps keys to values, a *)
(* transaction changes nodes, its end keeps their contents as the next     *)
(* version, and no version that was kept ever changes.                     *)
(***************************************************************************)
EXTENDS Sequences, Functions

CONSTANTS Nodes, Keys, Values, Unset, Absent

VARIABLES
    open,  \* is a transaction open?
    live,  \* what the transaction sees: the contents of each node, or Absent
    past   \* the contents as of the end of each version

storeVars == <<open, live, past>>

Empty  == [k \in Keys |-> Unset]

StoreInit ==
    /\ open = FALSE
    /\ live = [n \in Nodes |-> Absent]
    /\ past = <<>>

BeginVersion ==
    /\ ~open
    /\ open' = TRUE
    /\ UNCHANGED <<live, past>>

EndVersion ==
    /\ open
    /\ open' = FALSE
    /\ past' = Append(past, live)
    /\ UNCHANGED live

(* What a call may make of the contents the transaction sees: one node is
   created, has a key set or unset, or is a copy.  A copy is of any version,
   the open one included. *)
Created(before, after) == before = Absent /\ after = Empty

Written(before, after) ==
    /\ before # Absent /\ after # Absent
    /\ \E k \in Keys, v \in Values \cup {Unset} : after = [before EXCEPT ![k] = v]

Copied(before, after) ==
    /\ before = Absent /\ after # Absent
    /\ \E seen \in Range(past) \cup {live}, n \in Nodes : after = seen[n]

Change ==
    /\ open
    /\ UNCHANGED <<open, past>>
    /\ \E now \in {live}, next \in {live'}, n \in Nodes :
         /\ next = [now EXCEPT ![n] = next[n]]
         /\ \/ Created(now[n], next[n])
            \/ Written(now[n], next[n])
            \/ Copied(now[n], next[n])

StoreNext == BeginVersion \/ EndVersion \/ Change

StoreSpec == StoreInit /\ [][StoreNext]_storeVars
=============================================================================
