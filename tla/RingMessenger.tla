--------------------------- MODULE RingMessenger ---------------------------
(***************************************************************************)
(* IPCRingMessenger (code/ipc/ipc_msg.cpp): a ring of slots in a memory    *)
(* shared by several processes.  A client posts a message into the slots   *)
(* at the head of the ring; every client walks the ring with a slot of its *)
(* own, and a slot is recycled by the client that clears the last bit of   *)
(* its mask.                                                               *)
(*                                                                         *)
(* One action is one access to the shared memory together with the private *)
(* work around it.  A client is one thread of one process.  The asserts of *)
(* the code are off, as in a release build: those that matter are stated   *)
(* as properties (RingProperties).                                         *)
(***************************************************************************)
EXTENDS Naturals, Sequences, FiniteSets

CONSTANTS
    Clients,    \* the Client structures, each used by one thread
    Server,     \* the client that calls init
    Members,    \* the clients connected before the behaviour starts
    Posters,    \* the clients that may post
    Leavers,    \* the clients that may disconnect
    Crashers,   \* the clients whose process may die at any step
    IdOf,       \* the inID each client registers with
    NumSlots,   \* slots between firstSlot and endSlot
    SubMax,     \* SUB_MAX
    TryCount,   \* the trycnt of rb_alloc_slot
    MaxParts,   \* bound: the slots one message may need
    MaxPosts,   \* bound: the messages that get a first slot
    NoSlot      \* nullptr

ASSUME RingAssumption ==
    /\ Server \in Clients
    /\ Members \subseteq Clients
    /\ Posters \subseteq Clients
    /\ Leavers \subseteq Clients
    /\ Crashers \subseteq Clients
    /\ Members # {} => Server \in Members
    /\ \A c, d \in Members : IdOf[c] = IdOf[d] => c = d
    /\ NumSlots \in Nat \ {0}
    /\ SubMax \in Nat \ {0}
    /\ TryCount \in Nat \ {0}
    /\ MaxParts \in Nat \ {0}
    /\ MaxPosts \in Nat
    /\ IdOf \in [Clients -> Nat \ {0}]
    /\ NoSlot \notin 0 .. NumSlots

Slots   == 0 .. (NumSlots - 1)
Indices == 0 .. (SubMax - 1)
NotId   == 0                     \* SUB_NOT_ID
Pointer == Slots \cup {NoSlot}
Status  == {"Free", "Writing", "Posted", "Continued", "Aborted"}

VARIABLES
    \* the shared structure
    magic, lockStatus, headSlot, cliMask, clientId, clientSlot,
    \* the slots: data is <<message, parts still to come with this one>>
    status, slotMask, dataCnt, data,
    \* the Client structures
    id, ith, polled, buffer,
    \* the locals of the call a client is in
    pc, cur, callSlot, stack, leaving, head, last, left, tries,
    \* history: the messages started, the one a client is posting, the last
    \* one delivered to each client, the ones given up, whether the head
    \* ever came round to a slot still in use, whether two
    \* registrations overlapped
    nmsg, msg, got, aborted, lapped, raced

shared   == <<magic, lockStatus, headSlot, cliMask, clientId, clientSlot>>
slots    == <<status, slotMask, dataCnt, data>>
clients  == <<id, ith, polled, buffer>>
walk     == <<cur, callSlot, stack>>
posting  == <<head, last, left, tries>>
history  == <<nmsg, msg, got, aborted, lapped, raced>>
vars == <<shared, slots, clients, pc, walk, leaving, posting, history>>

---------------------------------------------------------------------------
(* Definitions whose names end in a bug (AcquireUntested, ...) are variants of
   the one that follows them, used only to see a property fail. *)

(* s + 1, wrapped from endSlot to firstSlot. *)
Succ(s) == IF s + 1 = NumSlots THEN 0 ELSE s + 1

Goto(c, label) == pc' = [pc EXCEPT ![c] = label]
At(c, label)   == pc[c] = label

---------------------------------------------------------------------------
(* init: the region is cleared with the lock taken, then the magic number
   is published and the lock released. *)

InitRing(c) ==
    /\ At(c, "init")
    /\ magic' = FALSE
    /\ lockStatus' = "On"
    /\ headSlot' = 0
    /\ cliMask' = {0}
    /\ clientId' = [i \in Indices |-> IF i = 0 THEN IdOf[c] ELSE NotId]
    /\ clientSlot' = [i \in Indices |-> IF i = 0 THEN 0 ELSE NoSlot]
    /\ status' = [s \in Slots |-> "Free"]
    /\ slotMask' = [s \in Slots |-> {}]
    /\ dataCnt' = [s \in Slots |-> NoSlot]
    /\ data' = [s \in Slots |-> <<0, 0>>]
    /\ id' = [id EXCEPT ![c] = IdOf[c]]
    /\ ith' = [ith EXCEPT ![c] = 0]
    /\ polled' = [polled EXCEPT ![c] = NoSlot]
    /\ Goto(c, "initMagic")
    /\ UNCHANGED <<buffer, walk, leaving, posting, history>>

InitMagic(c) ==
    /\ At(c, "initMagic")
    /\ magic' = TRUE
    /\ Goto(c, "initUnlock")
    /\ UNCHANGED <<lockStatus, headSlot, cliMask, clientId, clientSlot, slots,
                   clients, walk, leaving, posting, history>>

InitUnlock(c) ==
    /\ At(c, "initUnlock")
    /\ lockStatus' = "Off"
    /\ Goto(c, "idle")
    /\ UNCHANGED <<magic, headSlot, cliMask, clientId, clientSlot, slots,
                   clients, walk, leaving, posting, history>>

---------------------------------------------------------------------------
(* lock() spins on tryLock(); unlock() stores LOCK_Off whoever calls it. *)

AcquireUntested(c, next) ==
    /\ lockStatus' = "On"
    /\ Goto(c, next)
    /\ UNCHANGED <<magic, headSlot, cliMask, clientId, clientSlot, slots,
                   clients, walk, leaving, posting, history>>

Acquire(c, next) ==
    /\ lockStatus = "Off"
    /\ lockStatus' = "On"
    /\ Goto(c, next)
    /\ UNCHANGED <<magic, headSlot, cliMask, clientId, clientSlot, slots,
                   clients, walk, leaving, posting, history>>

Release(c, next) ==
    /\ lockStatus' = "Off"
    /\ Goto(c, next)
    /\ UNCHANGED <<magic, headSlot, cliMask, clientId, clientSlot, slots,
                   clients, walk, leaving, posting, history>>

---------------------------------------------------------------------------
(* connect: an index is chosen under the lock and registered outside it.
   Cells of clientId are only ever taken outside the lock and given back
   under it, so one step per scan of the table loses no outcome. *)

(* The magic number is tested before the lock is taken. *)
Connect(c) ==
    /\ At(c, "idle") /\ id[c] = NotId
    /\ magic
    /\ Goto(c, "connectLock")
    /\ UNCHANGED <<shared, slots, clients, walk, leaving, posting, history>>

ConnectLock(c) == At(c, "connectLock") /\ Acquire(c, "connectCheck")

(* Clients that chose an index and have not put their id there yet. *)
Registering == {c \in Clients : pc[c] \in {"connectUnlock", "registerId"}}

ConnectKnown(c) ==
    /\ At(c, "connectCheck")
    /\ \E i \in Indices : clientId[i] = IdOf[c]
    /\ Goto(c, "connectFail")
    /\ UNCHANGED <<shared, slots, clients, walk, leaving, posting, history>>

ConnectCheck(c) ==
    /\ At(c, "connectCheck")
    /\ \A i \in Indices : clientId[i] # IdOf[c]
    /\ raced' = (raced \/ Registering # {})
    /\ Goto(c, "connectPick")
    /\ UNCHANGED <<shared, slots, clients, walk, leaving, posting,
                   nmsg, msg, got, aborted, lapped>>

FreeIndicesAny == Indices

FreeIndices == {i \in Indices : clientId[i] = NotId}

ConnectFull(c) ==
    /\ At(c, "connectPick")
    /\ FreeIndices = {}
    /\ Goto(c, "connectFail")
    /\ UNCHANGED <<shared, slots, clients, walk, leaving, posting, history>>

ConnectPick(c) ==
    /\ At(c, "connectPick")
    /\ \E i \in FreeIndices :
        /\ \A j \in FreeIndices : i <= j
        /\ id' = [id EXCEPT ![c] = IdOf[c]]
        /\ ith' = [ith EXCEPT ![c] = i]
    /\ polled' = [polled EXCEPT ![c] = NoSlot]
    /\ Goto(c, "connectUnlock")
    /\ UNCHANGED <<shared, slots, buffer, walk, leaving, posting, history>>

ConnectFail(c)   == At(c, "connectFail") /\ Release(c, "idle")
ConnectUnlock(c) == At(c, "connectUnlock") /\ Release(c, "registerId")

RegisterId(c) ==
    /\ At(c, "registerId")
    /\ clientId' = [clientId EXCEPT ![ith[c]] = id[c]]
    /\ Goto(c, "registerSlot")
    /\ UNCHANGED <<magic, lockStatus, headSlot, cliMask, clientSlot, slots,
                   clients, walk, leaving, posting, history>>

RegisterSlot(c) ==
    /\ At(c, "registerSlot")
    /\ clientSlot' = [clientSlot EXCEPT ![ith[c]] = headSlot]
    /\ got' = [got EXCEPT ![c] = 0]
    /\ Goto(c, "registerMask")
    /\ UNCHANGED <<magic, lockStatus, headSlot, cliMask, clientId, slots,
                   clients, walk, leaving, posting,
                   nmsg, msg, aborted, lapped, raced>>

RegisterMask(c) ==
    /\ At(c, "registerMask")
    /\ cliMask' = cliMask \cup {ith[c]}
    /\ Goto(c, "idle")
    /\ UNCHANGED <<magic, lockStatus, headSlot, clientId, clientSlot, slots,
                   clients, walk, leaving, posting, history>>

---------------------------------------------------------------------------
(* post: rb_alloc_slot until every part has a slot, then one exchange
   makes the first slot, and the chain behind it, readable. *)

Unstarted == {c \in Clients : pc[c] \in {"readHead", "cas"} /\ msg[c] = 0}

Post(c, n) ==
    /\ At(c, "idle") /\ id[c] # NotId
    /\ c \in Posters
    /\ nmsg + Cardinality(Unstarted) < MaxPosts
    /\ left' = [left EXCEPT ![c] = n]
    /\ tries' = [tries EXCEPT ![c] = TryCount]
    /\ Goto(c, "readHead")
    /\ UNCHANGED <<shared, slots, clients, walk, leaving, head, last, history>>

PostReadHead(c) ==
    /\ At(c, "readHead")
    /\ cur' = [cur EXCEPT ![c] = headSlot]
    /\ Goto(c, "cas")
    /\ UNCHANGED <<shared, slots, clients, callSlot, stack, leaving, posting,
                   history>>

(* A slot the head should not come round to yet: not given back, or free
   already with a client still standing on it. *)
InUse(s) == status[s] # "Free" \/ \E i \in Indices : clientSlot[i] = s

Take(c) ==
    /\ status' = [status EXCEPT ![cur[c]] = "Writing"]
    /\ nmsg' = IF msg[c] = 0 THEN nmsg + 1 ELSE nmsg
    /\ msg' = [msg EXCEPT ![c] = IF msg[c] = 0 THEN nmsg + 1 ELSE msg[c]]
    /\ lapped' = (lapped \/ InUse(Succ(cur[c])))
    /\ Goto(c, "moveHead")
    /\ UNCHANGED <<shared, slotMask, dataCnt, data, clients, walk, leaving,
                   posting, got, aborted, raced>>

PostTakeUnchecked(c) == At(c, "cas") /\ Take(c)

(* The interlocked Free -> Writing of rb_alloc_slot ... *)
PostTake(c) == At(c, "cas") /\ status[cur[c]] = "Free" /\ Take(c)

PostRetryUntested(c) ==
    /\ At(c, "cas") /\ status[cur[c]] # "Free"
    /\ tries' = [tries EXCEPT ![c] = @ - 1]
    /\ Goto(c, "readHead")
    /\ UNCHANGED <<shared, slots, clients, walk, leaving, head, last, left,
                   history>>

(* ... and its failure, trycnt times at most. *)
PostRetry(c) ==
    /\ At(c, "cas") /\ status[cur[c]] # "Free"
    /\ tries' = [tries EXCEPT ![c] = @ - 1]
    /\ Goto(c, IF tries[c] = 1 THEN "abort" ELSE "readHead")
    /\ UNCHANGED <<shared, slots, clients, walk, leaving, head, last, left,
                   history>>

PostMoveHead(c) ==
    /\ At(c, "moveHead")
    /\ headSlot' = Succ(cur[c])
    /\ Goto(c, "fill")
    /\ UNCHANGED <<magic, lockStatus, cliMask, clientId, clientSlot, slots,
                   clients, walk, leaving, posting, history>>

(* One part: the mask of the moment, its share of the data, and the next
   turn of the loop or its end. *)
Fill(c) ==
    LET s == cur[c] IN
    /\ slotMask' = [slotMask EXCEPT ![s] = cliMask]
    /\ data' = [data EXCEPT ![s] = <<msg[c], left[c]>>]
    /\ last' = [last EXCEPT ![c] = s]
    /\ left' = [left EXCEPT ![c] = @ - 1]
    /\ tries' = [tries EXCEPT ![c] = TryCount]
    /\ Goto(c, IF left[c] = 1 THEN "publish" ELSE "readHead")

PostFillFirst(c) ==
    /\ At(c, "fill") /\ last[c] = NoSlot
    /\ Fill(c)
    /\ dataCnt' = [dataCnt EXCEPT ![cur[c]] = NoSlot]
    /\ head' = [head EXCEPT ![c] = cur[c]]
    /\ UNCHANGED <<shared, status, clients, walk, leaving, history>>

PostFillUnchained(c) ==
    /\ At(c, "fill") /\ last[c] # NoSlot
    /\ Fill(c)
    /\ dataCnt' = [dataCnt EXCEPT ![cur[c]] = NoSlot]
    /\ status' = [status EXCEPT ![cur[c]] = "Continued"]
    /\ UNCHANGED <<shared, clients, walk, leaving, head, history>>

(* A further part hangs on the part before it. *)
PostFillNext(c) ==
    /\ At(c, "fill") /\ last[c] # NoSlot
    /\ Fill(c)
    /\ dataCnt' = [dataCnt EXCEPT ![cur[c]] = NoSlot, ![last[c]] = cur[c]]
    /\ status' = [status EXCEPT ![cur[c]] = "Continued"]
    /\ UNCHANGED <<shared, clients, walk, leaving, head, history>>

PostDone(c) ==
    /\ cur' = [cur EXCEPT ![c] = NoSlot]
    /\ head' = [head EXCEPT ![c] = NoSlot]
    /\ last' = [last EXCEPT ![c] = NoSlot]
    /\ left' = [left EXCEPT ![c] = 0]
    /\ tries' = [tries EXCEPT ![c] = 0]
    /\ msg' = [msg EXCEPT ![c] = 0]
    /\ Goto(c, "idle")

PostPublishForgotten(c) ==
    /\ At(c, "publish")
    /\ PostDone(c)
    /\ UNCHANGED <<shared, slots, clients, callSlot, stack,
                   leaving, nmsg, got, aborted, lapped, raced>>

PostPublish(c) ==
    /\ At(c, "publish")
    /\ status' = [status EXCEPT ![head[c]] = "Posted"]
    /\ PostDone(c)
    /\ UNCHANGED <<shared, slotMask, dataCnt, data, clients, callSlot, stack,
                   leaving, nmsg, got, aborted, lapped, raced>>

(* No slot for the next part: the parts written so far are given up. *)
PostFail(c) ==
    /\ At(c, "abort") /\ head[c] = NoSlot
    /\ PostDone(c)
    /\ UNCHANGED <<shared, slots, clients, callSlot, stack, leaving, nmsg, got,
                   aborted, lapped, raced>>

PostAbort(c) ==
    /\ At(c, "abort") /\ head[c] # NoSlot
    /\ stack' = [stack EXCEPT ![c] = <<head[c]>>]
    /\ Goto(c, "aborting")
    /\ UNCHANGED <<shared, slots, clients, cur, callSlot, leaving, posting,
                   history>>

---------------------------------------------------------------------------
(* The recursion of rb_dealloc_slot and rb_abort_slot: down the chain to
   its last slot, then back up, marking the slot and cutting the link to it.
   On a cyclic chain the recursion ends with the stack of the process. *)

Top(c) == stack[c][Len(stack[c])]

Descend(c) ==
    /\ pc[c] \in {"free", "aborting"}
    /\ dataCnt[Top(c)] # NoSlot
    /\ stack' = [stack EXCEPT ![c] = Append(@, dataCnt[Top(c)])]
    /\ Goto(c, IF Len(stack[c]) = NumSlots THEN "crashed" ELSE pc[c])
    /\ UNCHANGED <<shared, slots, clients, cur, callSlot, leaving, posting,
                   history>>

MarkTop(c, mark) ==
    /\ dataCnt[Top(c)] = NoSlot
    /\ status' = [status EXCEPT ![Top(c)] = mark]
    /\ stack' = [stack EXCEPT ![c] = SubSeq(@, 1, Len(@) - 1)]
    /\ dataCnt' = IF Len(stack[c]) = 1 THEN dataCnt
                  ELSE [dataCnt EXCEPT ![stack[c][Len(stack[c]) - 1]] = NoSlot]

AbortPart(c) ==
    /\ At(c, "aborting") /\ Len(stack[c]) > 1
    /\ MarkTop(c, "Aborted")
    /\ UNCHANGED <<shared, slotMask, data, clients, pc, cur, callSlot, leaving,
                   posting, history>>

AbortFirst(c) ==
    /\ At(c, "aborting") /\ Len(stack[c]) = 1
    /\ MarkTop(c, "Aborted")
    /\ PostDone(c)
    /\ aborted' = aborted \cup {msg[c]}
    /\ UNCHANGED <<shared, slotMask, data, clients, callSlot, leaving, nmsg,
                   got, lapped, raced>>

---------------------------------------------------------------------------
(* poll *)

(* poll returns, to its caller or to the flush loop of disconnect. *)
Return(c, found) ==
    /\ cur' = [cur EXCEPT ![c] = NoSlot]
    /\ callSlot' = [callSlot EXCEPT ![c] = NoSlot]
    /\ Goto(c, IF ~leaving[c] THEN "idle" ELSE IF found THEN "flush" ELSE "clearId")

Move(c) ==
    /\ clientSlot' = [clientSlot EXCEPT ![ith[c]] = Succ(cur[c])]
    /\ polled' = [polled EXCEPT ![c] = NoSlot]

LoopOn(c) ==
    /\ cur' = [cur EXCEPT ![c] = Succ(cur[c])]
    /\ Goto(c, "look")
    /\ UNCHANGED callSlot

AdvanceForever(c) == Move(c) /\ LoopOn(c)

AdvanceNowhere(c) == Return(c, FALSE) /\ UNCHANGED <<clientSlot, polled>>

(* The end of the loop body: one slot further, unless that closes the tour. *)
Advance(c) ==
    /\ Move(c)
    /\ \/ Succ(cur[c]) = callSlot[c] /\ Return(c, FALSE)
       \/ Succ(cur[c]) # callSlot[c] /\ LoopOn(c)

(* poll starts at the slot registered for its index; following a null
   pointer ends the process. *)
PollStart(c) ==
    LET s == clientSlot[ith[c]] IN
    /\ cur' = [cur EXCEPT ![c] = s]
    /\ callSlot' = [callSlot EXCEPT ![c] = s]
    /\ Goto(c, IF s = NoSlot THEN "crashed" ELSE "look")
    /\ UNCHANGED <<shared, slots, clients, stack, leaving, posting, history>>

Poll(c) == At(c, "idle") /\ id[c] # NotId /\ PollStart(c)

(* Nothing to read: the slot is free or still being written. *)
PollNothing(c) ==
    /\ At(c, "look") /\ status[cur[c]] \in {"Free", "Writing"}
    /\ Return(c, FALSE)
    /\ UNCHANGED <<shared, slots, clients, stack, leaving, posting, history>>

PollDeliverAgain(c) ==
    /\ At(c, "look") /\ status[cur[c]] = "Posted"
    /\ polled' = [polled EXCEPT ![c] = cur[c]]
    /\ got' = [got EXCEPT ![c] = data[cur[c]][1]]
    /\ Return(c, TRUE)
    /\ UNCHANGED <<shared, slots, id, ith, buffer, stack, leaving, posting,
                   nmsg, msg, aborted, lapped, raced>>

(* A posted slot not seen before is handed to the caller. *)
PollDeliver(c) ==
    /\ At(c, "look") /\ status[cur[c]] = "Posted" /\ polled[c] # cur[c]
    /\ polled' = [polled EXCEPT ![c] = cur[c]]
    /\ got' = [got EXCEPT ![c] = data[cur[c]][1]]
    /\ Return(c, TRUE)
    /\ UNCHANGED <<shared, slots, id, ith, buffer, stack, leaving, posting,
                   nmsg, msg, aborted, lapped, raced>>

PollSkip(c) ==
    /\ At(c, "look") /\ status[cur[c]] \in {"Continued", "Aborted"}
    /\ Advance(c)
    /\ UNCHANGED <<magic, lockStatus, headSlot, cliMask, clientId, slots, id,
                   ith, buffer, stack, leaving, posting, history>>

PollSeen(c) ==
    /\ At(c, "look") /\ status[cur[c]] = "Posted" /\ polled[c] = cur[c]
    /\ Goto(c, "clear")
    /\ UNCHANGED <<shared, slots, clients, walk, leaving, posting, history>>

(* The interlocked bit reset ... *)
PollClear(c) ==
    /\ At(c, "clear")
    /\ slotMask' = [slotMask EXCEPT ![cur[c]] = @ \ {ith[c]}]
    /\ Goto(c, "recycle")
    /\ UNCHANGED <<shared, status, dataCnt, data, clients, walk, leaving,
                   posting, history>>

(* ... and the separate read of the mask that decides who recycles. *)
PollKeep(c) ==
    /\ At(c, "recycle") /\ slotMask[cur[c]] # {}
    /\ Advance(c)
    /\ UNCHANGED <<magic, lockStatus, headSlot, cliMask, clientId, slots, id,
                   ith, buffer, stack, leaving, posting, history>>

PollRecycleEarly(c) ==
    /\ At(c, "recycle")
    /\ stack' = [stack EXCEPT ![c] = <<cur[c]>>]
    /\ Goto(c, "free")
    /\ UNCHANGED <<shared, slots, clients, cur, callSlot, leaving, posting,
                   history>>

PollRecycle(c) ==
    /\ At(c, "recycle") /\ slotMask[cur[c]] = {}
    /\ stack' = [stack EXCEPT ![c] = <<cur[c]>>]
    /\ Goto(c, "free")
    /\ UNCHANGED <<shared, slots, clients, cur, callSlot, leaving, posting,
                   history>>

PollFreePart(c) ==
    /\ At(c, "free") /\ Len(stack[c]) > 1
    /\ MarkTop(c, "Free")
    /\ UNCHANGED <<shared, slotMask, data, clients, pc, cur, callSlot, leaving,
                   posting, history>>

PollFreeFirst(c) ==
    /\ At(c, "free") /\ Len(stack[c]) = 1
    /\ MarkTop(c, "Free")
    /\ Advance(c)
    /\ UNCHANGED <<magic, lockStatus, headSlot, cliMask, clientId, slotMask,
                   data, id, ith, buffer, leaving, posting, history>>

---------------------------------------------------------------------------
(* loadBytes empties the buffer and copies the polled message part by part. *)
LoadBytes(c) ==
    /\ At(c, "idle") /\ polled[c] # NoSlot
    /\ buffer' = [buffer EXCEPT ![c] = <<>>]
    /\ cur' = [cur EXCEPT ![c] = polled[c]]
    /\ Goto(c, "load")
    /\ UNCHANGED <<shared, slots, id, ith, polled, callSlot, stack, leaving,
                   posting, history>>

LoadPart(c) ==
    /\ At(c, "load")
    /\ buffer' = [buffer EXCEPT ![c] = Append(@, data[cur[c]])]
    /\ cur' = [cur EXCEPT ![c] = dataCnt[cur[c]]]
    /\ Goto(c, IF dataCnt[cur[c]] = NoSlot THEN "idle"
               ELSE IF Len(buffer[c]) = NumSlots THEN "crashed" ELSE "load")
    /\ UNCHANGED <<shared, slots, id, ith, polled, callSlot, stack, leaving,
                   posting, history>>

(* clearBytes, and loadBytes with nothing polled. *)
ClearBytes(c) ==
    /\ At(c, "idle")
    /\ buffer[c] # <<>>
    /\ buffer' = [buffer EXCEPT ![c] = <<>>]
    /\ UNCHANGED <<shared, slots, id, ith, polled, pc, walk, leaving, posting,
                   history>>

---------------------------------------------------------------------------
(* disconnect *)

Disconnect(c) ==
    /\ At(c, "idle") /\ id[c] # NotId
    /\ c \in Leavers
    /\ Goto(c, "leaveLock")
    /\ UNCHANGED <<shared, slots, clients, walk, leaving, posting, history>>

DisconnectLock(c) == At(c, "leaveLock") /\ Acquire(c, "leaveMask")

DisconnectMaskKept(c) ==
    /\ At(c, "leaveMask")
    /\ leaving' = [leaving EXCEPT ![c] = TRUE]
    /\ Goto(c, "flush")
    /\ UNCHANGED <<shared, slots, clients, walk, posting, history>>

DisconnectMask(c) ==
    /\ At(c, "leaveMask")
    /\ cliMask' = cliMask \ {ith[c]}
    /\ leaving' = [leaving EXCEPT ![c] = TRUE]
    /\ Goto(c, "flush")
    /\ UNCHANGED <<magic, lockStatus, headSlot, clientId, clientSlot, slots,
                   clients, walk, posting, history>>

FlushPoll(c) == At(c, "flush") /\ PollStart(c)

DisconnectClearId(c) ==
    /\ At(c, "clearId")
    /\ clientId' = [clientId EXCEPT ![ith[c]] = NotId]
    /\ Goto(c, "clearSlot")
    /\ UNCHANGED <<magic, lockStatus, headSlot, cliMask, clientSlot, slots,
                   clients, walk, leaving, posting, history>>

DisconnectClearSlot(c) ==
    /\ At(c, "clearSlot")
    /\ clientSlot' = [clientSlot EXCEPT ![ith[c]] = NoSlot]
    /\ id' = [id EXCEPT ![c] = NotId]
    /\ ith' = [ith EXCEPT ![c] = 0]
    /\ polled' = [polled EXCEPT ![c] = NoSlot]
    /\ leaving' = [leaving EXCEPT ![c] = FALSE]
    /\ Goto(c, "leaveUnlock")
    /\ UNCHANGED <<magic, lockStatus, headSlot, cliMask, clientId, slots,
                   buffer, walk, posting, history>>

DisconnectUnlock(c) == At(c, "leaveUnlock") /\ Release(c, "idle")

---------------------------------------------------------------------------
(* The process of a client dies, wherever it is. *)
Crash(c) ==
    /\ c \in Crashers
    /\ pc[c] # "crashed"
    /\ Goto(c, "crashed")
    /\ UNCHANGED <<shared, slots, clients, walk, leaving, posting, history>>

---------------------------------------------------------------------------
Init ==
    /\ magic = (Members # {})
    /\ lockStatus = "Off"
    /\ headSlot = 0
    /\ ith \in [Clients -> Indices]
    /\ \A c \in Clients : c \notin Members \/ c = Server => ith[c] = 0
    /\ \A c, d \in Members : ith[c] = ith[d] => c = d
    /\ cliMask = {ith[c] : c \in Members}
    /\ clientId = [i \in Indices |->
            IF \E c \in Members : ith[c] = i
            THEN IdOf[CHOOSE c \in Members : ith[c] = i] ELSE NotId]
    /\ clientSlot = [i \in Indices |-> IF i \in cliMask THEN 0 ELSE NoSlot]
    /\ status = [s \in Slots |-> "Free"]
    /\ slotMask = [s \in Slots |-> {}]
    /\ dataCnt = [s \in Slots |-> NoSlot]
    /\ data = [s \in Slots |-> <<0, 0>>]
    /\ id = [c \in Clients |-> IF c \in Members THEN IdOf[c] ELSE NotId]
    /\ polled = [c \in Clients |-> NoSlot]
    /\ buffer = [c \in Clients |-> <<>>]
    /\ pc = [c \in Clients |->
            IF c = Server /\ c \notin Members THEN "init" ELSE "idle"]
    /\ cur = [c \in Clients |-> NoSlot]
    /\ callSlot = [c \in Clients |-> NoSlot]
    /\ stack = [c \in Clients |-> <<>>]
    /\ leaving = [c \in Clients |-> FALSE]
    /\ head = [c \in Clients |-> NoSlot]
    /\ last = [c \in Clients |-> NoSlot]
    /\ left = [c \in Clients |-> 0]
    /\ tries = [c \in Clients |-> 0]
    /\ nmsg = 0
    /\ msg = [c \in Clients |-> 0]
    /\ got = [c \in Clients |-> 0]
    /\ aborted = {}
    /\ lapped = FALSE
    /\ raced = FALSE

(* The steps inside a call a client has started. *)
Running(c) ==
    \/ InitRing(c) \/ InitMagic(c) \/ InitUnlock(c)
    \/ ConnectLock(c) \/ ConnectKnown(c) \/ ConnectCheck(c)
    \/ ConnectFull(c) \/ ConnectPick(c)
    \/ ConnectFail(c) \/ ConnectUnlock(c)
    \/ RegisterId(c) \/ RegisterSlot(c) \/ RegisterMask(c)
    \/ PostReadHead(c) \/ PostTake(c) \/ PostRetry(c) \/ PostMoveHead(c)
    \/ PostFillFirst(c) \/ PostFillNext(c) \/ PostPublish(c)
    \/ PostFail(c) \/ PostAbort(c) \/ AbortPart(c) \/ AbortFirst(c)
    \/ PollNothing(c) \/ PollDeliver(c) \/ PollSkip(c) \/ PollSeen(c)
    \/ PollClear(c) \/ PollKeep(c) \/ PollRecycle(c)
    \/ PollFreePart(c) \/ PollFreeFirst(c) \/ Descend(c) \/ LoadPart(c)
    \/ DisconnectLock(c) \/ DisconnectMask(c) \/ FlushPoll(c)
    \/ DisconnectClearId(c) \/ DisconnectClearSlot(c) \/ DisconnectUnlock(c)

(* The calls the program around the messenger makes. *)
Calling(c) ==
    \/ Connect(c)
    \/ \E n \in 1 .. MaxParts : Post(c, n)
    \/ Poll(c)
    \/ LoadBytes(c)
    \/ ClearBytes(c)
    \/ Disconnect(c)

Next == \E c \in Clients : Running(c) \/ Calling(c) \/ Crash(c)

Spec == Init /\ [][Next]_vars

(* A started call goes on, and every client keeps polling (each process of
   the test program polls in every turn of its loop). *)
FairSpec ==
    /\ Spec
    /\ \A c \in Clients : WF_vars(Running(c)) /\ SF_vars(Poll(c))
=============================================================================
