-------------------------- MODULE RingProperties --------------------------
(***************************************************************************)
(* What IPCRingMessenger promises, by its asserts, its comments and the    *)
(* use its test program makes of it.                                       *)
(***************************************************************************)
EXTENDS RingMessenger

Labels == {"init", "initMagic", "initUnlock", "idle",
           "connectLock", "connectCheck", "connectPick", "connectFail",
           "connectUnlock", "registerId", "registerSlot", "registerMask",
           "readHead", "cas", "moveHead", "fill", "publish", "abort", "aborting",
           "look", "clear", "recycle", "free", "load",
           "leaveLock", "leaveMask", "flush", "clearId", "clearSlot",
           "leaveUnlock", "crashed"}

TypeOK ==
    /\ magic \in BOOLEAN
    /\ lockStatus \in {"On", "Off"}
    /\ headSlot \in Slots
    /\ cliMask \in SUBSET Indices
    /\ clientId \in [Indices -> Nat]
    /\ clientSlot \in [Indices -> Pointer]
    /\ status \in [Slots -> Status]
    /\ slotMask \in [Slots -> SUBSET Indices]
    /\ dataCnt \in [Slots -> Pointer]
    /\ data \in [Slots -> Nat \X Nat]
    /\ id \in [Clients -> Nat]
    /\ ith \in [Clients -> Indices]
    /\ polled \in [Clients -> Pointer]
    /\ buffer \in [Clients -> Seq(Nat \X Nat)]
    /\ pc \in [Clients -> Labels]
    /\ cur \in [Clients -> Pointer]
    /\ callSlot \in [Clients -> Pointer]
    /\ stack \in [Clients -> Seq(Slots)]
    /\ leaving \in [Clients -> BOOLEAN]
    /\ head \in [Clients -> Pointer]
    /\ last \in [Clients -> Pointer]
    /\ left \in [Clients -> Nat]
    /\ tries \in [Clients -> Nat]
    /\ nmsg \in Nat
    /\ msg \in [Clients -> Nat]
    /\ got \in [Clients -> Nat]
    /\ aborted \in SUBSET Nat
    /\ lapped \in BOOLEAN
    /\ raced \in BOOLEAN

---------------------------------------------------------------------------
(* The lock *)

InPoll == {"look", "clear", "recycle", "free"}

(* A client between the acquire and the release of connect or disconnect;
   the flush of disconnect polls with the lock held. *)
Holds(c) ==
    \/ pc[c] \in {"initMagic", "initUnlock",
                  "connectCheck", "connectPick", "connectFail", "connectUnlock",
                  "leaveMask", "flush", "clearId", "clearSlot", "leaveUnlock"}
    \/ pc[c] \in InPoll /\ leaving[c]

(* lock() and unlock() keep the critical sections of init, connect and
   disconnect apart, although unlock() releases whoever holds the lock and
   the lock is taken before the magic number is there to be tested. *)
LockExclusive ==
    /\ \A c \in Clients : Holds(c) => lockStatus = "On"
    /\ \A c, d \in Clients : Holds(c) /\ Holds(d) => c = d

---------------------------------------------------------------------------
(* Registration *)

(* A client whose id is in the table and whose connect has returned. *)
Registered(c) ==
    /\ id[c] # NotId
    /\ pc[c] \notin {"connectUnlock", "registerId", "registerSlot",
                     "registerMask", "clearSlot", "crashed"}

(* As long as no two connects overlapped, the clients have distinct indices
   and ids, and each cell holds the id of its client, as the assert of
   disconnect expects. *)
RegistrationUnique ==
    ~raced =>
    /\ \A c \in Clients : Registered(c) => clientId[ith[c]] = id[c]
    /\ \A c, d \in Clients :
         Registered(c) /\ Registered(d) /\ c # d
             => ith[c] # ith[d] /\ id[c] # id[d]

(* As long as no two connects overlapped, a message is only ever addressed
   to indices that have a read position: connect stores the position before
   the bit, disconnect clears the bit before the position. *)
MaskHasReader ==
    ~raced => \A i \in cliMask : clientSlot[i] # NoSlot

---------------------------------------------------------------------------
(* Slots and messages.  The protocol keeps them as long as the head never
   came round to a slot still in use. *)

(* assert( head->status == SLOT_Writing ) in post: nobody touched the first
   slot of a message before it is published. *)
WritingUntilPosted ==
    ~lapped => \A c \in Clients : pc[c] = "publish" => status[head[c]] = "Writing"

(* The slot poll returned stays posted until its client polls again: the
   pointer handed out is never recycled under the caller. *)
PolledStaysPosted ==
    ~lapped =>
    \A c \in Clients :
        polled[c] # NoSlot /\ pc[c] \notin {"recycle", "free", "crashed"}
            => status[polled[c]] = "Posted"

(* loadBytes gives the parts of the polled message, all of them and in order. *)
WholeMessage ==
    ~lapped =>
    \A c \in Clients : pc[c] = "idle" /\ buffer[c] # <<>> =>
        \A k \in DOMAIN buffer[c] :
            buffer[c][k] = <<buffer[c][1][1], Len(buffer[c]) - k + 1>>

(* Each client is handed every message, its own included, exactly once and
   in the order the messages took their first slot; only a message given
   up for want of a slot is passed over. *)
InOrderOnce ==
    [][~lapped =>
        \A c \in Members : PollDeliver(c) =>
            /\ got'[c] > got[c]
            /\ (got[c] + 1) .. (got'[c] - 1) \subseteq aborted]_vars

(* A posted slot is recycled only when every member was handed its message. *)
RecycledAfterAll ==
    [][~lapped =>
        \A s \in Slots : status[s] = "Posted" /\ status'[s] # "Posted" =>
            \A c \in Members : got[c] >= data[s][1]]_vars

---------------------------------------------------------------------------
(* Progress *)

(* The last reader of a message of several slots frees them and steps from the
   first to the second: it stands on a free slot, behind which everything else
   is posted, until the head comes round. *)
Stranded(c) ==
    LET s == clientSlot[ith[c]] IN
    /\ status[s] = "Free"
    /\ \E p \in Slots : data[p] = <<data[s][1], data[s][2] + 1>>

(* While the members keep polling, each of them has again and again been
   handed all that is posted, messages of several slots included and past what
   was given up, unless the head comes round to a slot still in use or the
   member is left standing on such a part of a message it was the last to read. *)
Delivered ==
    \A c \in Members :
        []<>(lapped \/ Stranded(c) \/
             \A s \in Slots : status[s] = "Posted" => got[c] >= data[s][1])

(* "avoid infinite loop!" in poll: a started post or poll returns, also on a
   ring that is full of slots nobody will ever give back, be they posted,
   continued or aborted. *)
CallsReturn == \A c \in Clients : (pc[c] # "idle") ~> (pc[c] = "idle")

---------------------------------------------------------------------------
(* What the asserts and comments say without those provisos.  The code does
   not keep any of these. *)

(* assert( head->status == SLOT_Writing ) in post. *)
AssertHeadWriting == \A c \in Clients : pc[c] = "publish" => status[head[c]] = "Writing"

(* assert( b ) in poll, after the bit of the client was reset. *)
AssertBitWasSet == \A c \in Clients : pc[c] = "clear" => ith[c] \in slotMask[cur[c]]

(* assert( clientId[ inCli.ith ] == inCli.id ) at the start of disconnect. *)
AssertOwnCell == [][\A c \in Clients : Disconnect(c) => clientId[ith[c]] = id[c]]_vars

(* "prevents posts with this subscriber flag" in disconnect: once the bit is
   reset, no message is posted that waits for the leaving client. *)
NoPostForLeaver ==
    [][\A c, d \in Clients :
        PostPublish(d) /\ leaving[c] => ith[c] \notin slotMask[head[d]]]_vars

(* "nothing to read ..." in poll: a client that stops at a free slot has
   been handed every posted message. *)
NothingToRead ==
    [][\A c \in Clients :
        PollNothing(c) /\ status[cur[c]] = "Free" =>
            \A s \in Slots : status[s] = "Posted" => data[s][1] <= got[c]]_vars
=============================================================================
