------------------------ MODULE RingMessageProofs ------------------------
(***************************************************************************)
(* The messages of IPCRingMessenger: as long as the head does not come     *)
(* round to a slot in use, each member of a closed group is handed every   *)
(* message once, in order and whole, and no slot is recycled under         *)
(* anybody.  For any number of clients, slots, parts and messages, with    *)
(* any client posting and any client dying at any step.                    *)
(*                                                                         *)
(* The argument measures where things lie on the ring as distances from    *)
(* the place of each reader: behind the head only the free part of the     *)
(* ring, before it the messages the reader still has to be handed, in      *)
(* their order, each with its parts behind its first slot.                 *)
(***************************************************************************)
EXTENDS RingProofs

(* The group of the theorems: every client is a member from the start and
   nobody leaves.  Any client may post, and any may die anywhere. *)
ClosedGroup == Members = Clients /\ Leavers = {}

GroupLabels == {"idle", "readHead", "cas", "moveHead", "fill", "publish", "abort",
                "aborting", "look", "clear", "recycle", "free", "load", "crashed"}

---------------------------------------------------------------------------
(* Distances along the ring *)

(* The steps from slot a forward to slot b. *)
Dist(a, b) == IF a <= b THEN b - a ELSE b - a + NumSlots

(* Where a client stands, and how far ahead of it a slot is. *)
Pos(c)      == clientSlot[ith[c]]
Ahead(c, s) == Dist(Pos(c), s)

(* A slot the client comes to before it comes to the head. *)
Before(c, s) == Ahead(c, s) < Ahead(c, headSlot)

(* The message of a slot, and the parts still to come with this one. *)
Msg(s)  == data[s][1]
Rest(s) == data[s][2]

(* The slot a poster has taken and not yet filled, and its first slot. *)
Taking(c) == pc[c] \in {"moveHead", "fill"}
Owns(c)   == msg[c] # 0 /\ (Taking(c) \/ head[c] = NoSlot)
First(c)  == IF head[c] # NoSlot THEN head[c] ELSE cur[c]

(* Message m starts in slot s, posted or still being written. *)
Starts(s, m) ==
    \/ status[s] = "Posted" /\ Msg(s) = m
    \/ \E c \in Clients : msg[c] = m /\ m # 0 /\ First(c) = s

(* The client stands on the message it was handed, its bit still set. *)
Standing(c) == polled[c] # NoSlot /\ pc[c] \notin {"recycle", "free", "crashed"}

(* A client still has to be handed m, or to walk off the slot it starts in. *)
Waits(c, m) == got[c] < m \/ (got[c] = m /\ polled[c] # NoSlot)

(* Somebody needs the parts of m. *)
Unread(m) == \E c \in Clients : got[c] < m \/ (got[c] = m /\ Standing(c))

---------------------------------------------------------------------------
(* What a client knows while it is inside a call *)

(* Its move of the head goes to a free slot nobody stands on. *)
Moving(c) == pc[c] = "moveHead" =>
    /\ cur[c] = headSlot
    /\ status[headSlot] = "Writing"
    /\ status[Succ(headSlot)] = "Free"
    /\ \A e \in Clients : Pos(e) # Succ(headSlot)

(* The head it read is the head, or that slot stays in use: it holds a
   message the client itself has not been handed, or one nobody recycles. *)
Trying(c) == pc[c] = "cas" =>
    \/ cur[c] = headSlot
    \/ /\ status[cur[c]] # "Free"
       /\ \/ got[c] < Msg(cur[c])
          \/ \A e \in Clients : ~Waits(e, Msg(cur[c]))

(* The slot it took is its own, and free of any message somebody needs. *)
Holding(c) == Owns(c) =>
    /\ cur[c] \in Slots
    /\ status[cur[c]] = "Writing"
    /\ dataCnt[cur[c]] = NoSlot
    /\ \A e \in Clients : ~Waits(e, Msg(cur[c])) /\ head[e] # cur[c]
    /\ \A e \in Clients \ {c} : Owns(e) => cur[e] # cur[c]
    /\ head[c] # NoSlot => \A e \in Clients : Ahead(e, head[c]) < Ahead(e, cur[c])
    /\ pc[c] = "fill" => \A e \in Clients : Before(e, cur[c])

(* The message it is writing. *)
Posting(c) ==
    /\ Taking(c) => msg[c] # 0
    /\ msg[c] # 0 => pc[c] \in {"readHead", "cas", "moveHead", "fill", "publish",
                                "abort", "aborting", "crashed"}
    /\ msg[c] # 0 /\ head[c] = NoSlot => pc[c] \in {"moveHead", "fill", "crashed"}
    /\ head[c] = NoSlot <=> last[c] = NoSlot
    /\ pc[c] = "publish" => left[c] = 0
    /\ head[c] # NoSlot =>
        /\ msg[c] # 0
        /\ status[head[c]] = "Writing"
        /\ Msg(head[c]) = msg[c]
        /\ slotMask[head[c]] = cliMask
        /\ Msg(last[c]) = msg[c] /\ Rest(last[c]) = left[c] + 1

(* The slot it was handed. *)
Polling(c) ==
    /\ pc[c] \in InPoll => cur[c] = Pos(c)
    /\ pc[c] \in {"clear", "recycle", "free"} => polled[c] # NoSlot
    /\ polled[c] # NoSlot =>
        /\ polled[c] = Pos(c)
        /\ Pos(c) # headSlot
        /\ got[c] > 0
        /\ Msg(Pos(c)) = got[c]
        /\ status[Pos(c)] \in {"Posted", "Free"}
        /\ \A s \in Slots : status[s] = "Posted" /\ Msg(s) = got[c] => s = Pos(c)
        /\ status[Pos(c)] = "Free" => ~Unread(got[c])
    /\ Standing(c) => status[Pos(c)] = "Posted" /\ ith[c] \in slotMask[Pos(c)]

(* The chain it recycles or aborts, as far as it went down. *)
Chain(c) == \A k \in 1 .. Len(stack[c]) :
    /\ Msg(stack[c][k]) = Msg(stack[c][1])
    /\ Rest(stack[c][k]) = Rest(stack[c][1]) + 1 - k

Unchaining(c) ==
    /\ pc[c] = "free" => Chain(c) /\ stack[c][1] = cur[c] /\ ~Unread(got[c])
    /\ pc[c] = "aborting" => Chain(c) /\ stack[c][1] = head[c] /\ head[c] # NoSlot

(* What it copied to its buffer. *)
Loading(c) ==
    /\ pc[c] = "load" =>
        /\ polled[c] # NoSlot
        /\ Msg(cur[c]) = got[c]
        /\ \A k \in 1 .. Len(buffer[c]) :
            buffer[c][k] = <<got[c], Rest(cur[c]) + Len(buffer[c]) - k + 1>>
    /\ pc[c] \notin {"load", "crashed"} =>
        \A k \in 1 .. Len(buffer[c]) :
            buffer[c][k] = <<buffer[c][1][1], Len(buffer[c]) - k + 1>>

Local(c) == /\ Moving(c) /\ Trying(c) /\ Holding(c) /\ Posting(c)
            /\ Polling(c) /\ Unchaining(c) /\ Loading(c)

---------------------------------------------------------------------------
(* What holds of the ring between the steps of all clients *)

Group ==
    /\ \A c \in Clients : /\ id[c] # NotId /\ ~leaving[c]
                          /\ pc[c] \in GroupLabels
                          /\ Pos(c) \in Slots
    /\ \A c, d \in Clients : ith[c] = ith[d] => c = d
    /\ cliMask = {ith[c] : c \in Clients}

HeadUsable == status[headSlot] \in {"Free", "Writing"}

(* A message being written is ahead of what any client was handed. *)
Numbered ==
    /\ \A c \in Clients : /\ got[c] <= nmsg /\ got[c] \notin aborted
                          /\ msg[c] <= nmsg /\ msg[c] \notin aborted
    /\ \A s \in Slots : Msg(s) <= nmsg
    /\ aborted \subseteq 1 .. nmsg
    /\ \A c, d \in Clients : msg[d] # 0 => got[c] < msg[d]
    /\ \A c, d \in Clients : msg[c] = msg[d] /\ msg[c] # 0 => c = d

PostedOnce ==
    /\ \A s \in Slots : status[s] = "Posted" =>
        /\ Msg(s) >= 1 /\ Msg(s) \notin aborted
        /\ \A c \in Clients : Msg(s) # msg[c]
    /\ \A s, t \in Slots :
        status[s] = "Posted" /\ status[t] = "Posted" /\ Msg(s) = Msg(t) => s = t

(* No two slots hold the same part of a message. *)
PartOnce ==
    /\ \A s, t \in Slots : Msg(s) = Msg(t) /\ Msg(s) # 0 /\ Rest(s) = Rest(t) => s = t
    /\ \A s \in Slots : Msg(s) # 0 => Rest(s) >= 1
    /\ \A s \in Slots, c \in Clients : Msg(s) = msg[c] /\ msg[c] # 0 => Rest(s) > left[c]

(* A message not yet handed to a client is addressed to it. *)
Addressed == \A s \in Slots, c \in Clients :
    status[s] = "Posted" /\ got[c] < Msg(s) => ith[c] \in slotMask[s]

(* The slots between a client and the head start the messages it still has
   to be handed, all that were not given up ... *)
Region == \A c \in Clients, s \in Slots, m \in 1 .. nmsg :
    Starts(s, m) =>
        (Ahead(c, s) <= Ahead(c, headSlot) <=> (got[c] < m \/ polled[c] = s))

(* ... in their order ... *)
InTurn == \A c \in Clients, s, t \in Slots, m, n \in 1 .. nmsg :
    Starts(s, m) /\ Starts(t, n) /\ m < n /\ Ahead(c, s) <= Ahead(c, headSlot)
        => Ahead(c, s) < Ahead(c, t)

Complete == \A c \in Clients : \A m \in 1 .. nmsg :
    got[c] < m => m \in aborted \/ \E s \in Slots : Starts(s, m)

(* ... and their further parts, each behind the first. *)
PartsAhead == \A c \in Clients, t \in Slots :
    Msg(t) # 0 /\ Msg(t) \notin aborted /\ Waits(c, Msg(t)) => Before(c, t)

PartsAfter == \A c \in Clients, s, t \in Slots :
    Msg(t) # 0 /\ Starts(s, Msg(t)) /\ got[c] < Msg(t) /\ t # s => Ahead(c, s) < Ahead(c, t)

(* No part is given back while somebody needs it, and an aborted one never. *)
PartsKept == \A t \in Slots :
    Msg(t) # 0 /\ (Unread(Msg(t)) \/ Msg(t) \in aborted) => status[t] # "Free"

(* A chain links the parts of one message, in their order. *)
Links == \A t \in Slots : dataCnt[t] # NoSlot =>
    /\ status[t] # "Free"
    /\ status[dataCnt[t]] \in {"Continued", "Aborted"}
    /\ Msg(t) # 0
    /\ Msg(dataCnt[t]) = Msg(t) /\ Rest(dataCnt[t]) = Rest(t) - 1

(* Nothing is missing from the chain of a message somebody needs. *)
Linked == \A t \in Slots :
    Msg(t) # 0 /\ Rest(t) > 1 /\ Unread(Msg(t)) /\ Msg(t) \notin aborted
      /\ (\A c \in Clients : msg[c] = Msg(t) => pc[c] \notin {"aborting", "crashed"})
        => dataCnt[t] # NoSlot \/ \E c \in Clients : msg[c] = Msg(t) /\ last[c] = t

Sound ==
    /\ HeadUsable /\ Numbered /\ PostedOnce /\ PartOnce /\ Addressed
    /\ Region /\ InTurn /\ Complete
    /\ PartsAhead /\ PartsAfter /\ PartsKept /\ Links /\ Linked
    /\ \A c \in Clients : Local(c)

MessageInv == Group /\ (~lapped => Sound)

---------------------------------------------------------------------------
(* Facts about distances *)

LEMMA DistRange ==
    ASSUME NEW a \in Slots, NEW b \in Slots
    PROVE  /\ Dist(a, b) \in Slots
           /\ Dist(a, b) = 0 <=> a = b
BY RingAssumption DEF RingAssumption, Slots, Dist

LEMMA DistSame ==
    ASSUME NEW a \in Slots, NEW b \in Slots, NEW c \in Slots, Dist(a, b) = Dist(a, c)
    PROVE  b = c
BY RingAssumption DEF RingAssumption, Slots, Dist

(* One step onward brings every slot nearer but the one left. *)
LEMMA DistOnward ==
    ASSUME NEW a \in Slots, NEW b \in Slots
    PROVE  /\ a # b => Dist(Succ(a), b) = Dist(a, b) - 1
           /\ Dist(Succ(a), a) = NumSlots - 1
BY RingAssumption DEF RingAssumption, Slots, Dist, Succ

LEMMA DistSucc ==
    ASSUME NEW a \in Slots, NEW b \in Slots, Succ(b) # a
    PROVE  Dist(a, Succ(b)) = Dist(a, b) + 1
BY RingAssumption DEF RingAssumption, Slots, Dist, Succ

LEMMA SuccInjective ==
    ASSUME NEW a \in Slots, NEW b \in Slots, Succ(a) = Succ(b)
    PROVE  a = b
BY RingAssumption DEF RingAssumption, Slots, Succ

---------------------------------------------------------------------------
(* What the invariant says of the slots in general *)

LEMMA Standpoints ==
    ASSUME TypeInv, Group, NEW c \in Clients
    PROVE  /\ headSlot \in Slots /\ Succ(headSlot) \in Slots
           /\ Pos(c) \in Slots
           /\ ith[c] \in Indices
           /\ \A s \in Slots : Ahead(c, s) \in Slots
           /\ \A s, t \in Slots : Ahead(c, s) = Ahead(c, t) => s = t
           /\ \A s \in Slots : Ahead(c, s) = 0 <=> s = Pos(c)
<1>1. Pos(c) \in Slots /\ headSlot \in Slots /\ ith[c] \in Indices
  BY DEF Group, TypeInv, TypeOK
<1> QED
  BY <1>1, SuccInSlots, DistRange, DistSame DEF Ahead

LEMMA NoSlotApart == NoSlot \notin Slots
BY RingAssumption DEF RingAssumption, Slots

LEMMA SlotNumbers ==
    ASSUME TypeInv
    PROVE  \A s \in Slots : Msg(s) \in Nat /\ Rest(s) \in Nat
BY DEF TypeInv, TypeOK, Msg, Rest

(* A message starts in a slot that is being written or posted ... *)
LEMMA StartsInUse ==
    ASSUME TypeInv, Sound, NEW s \in Slots, NEW m \in Nat, Starts(s, m)
    PROVE  /\ status[s] \in {"Writing", "Posted"}
           /\ status[s] = "Posted" => Msg(s) = m
           /\ m \in 1 .. nmsg /\ m \notin aborted
<1>1. CASE status[s] = "Posted" /\ Msg(s) = m
  BY <1>1 DEF Sound, PostedOnce, Numbered
<1>2. ASSUME NEW c \in Clients, msg[c] = m, m # 0, First(c) = s
      PROVE  status[s] = "Writing" /\ m \in 1 .. nmsg /\ m \notin aborted
  <2>1. status[s] = "Writing"
    BY <1>2 DEF Sound, Local, Holding, Posting, Owns, First
  <2> QED
    BY <1>2, <2>1 DEF Sound, Numbered
<1> QED
  BY <1>1, <1>2 DEF Starts

(* ... one message in one slot. *)
LEMMA StartsOnce ==
    ASSUME TypeInv, Sound, NEW s \in Slots, NEW t \in Slots, NEW m \in Nat, NEW n \in Nat,
           Starts(s, m), Starts(t, n)
    PROVE  m = n <=> s = t
<1>1. ASSUME NEW c \in Clients, msg[c] # 0
      PROVE  status[First(c)] = "Writing"
  BY <1>1 DEF Sound, Local, Holding, Posting, Owns, First
<1>2. ASSUME NEW c \in Clients, NEW d \in Clients, msg[c] # 0, msg[d] # 0, First(c) = First(d)
      PROVE  c = d
  <2>1. CASE head[c] # NoSlot /\ head[d] # NoSlot
    BY <1>2, <2>1 DEF Sound, Local, Posting, First, Numbered
  <2>2. CASE head[c] = NoSlot
    BY <1>2, <2>2 DEF Sound, Local, Holding, First, Owns
  <2>3. CASE head[d] = NoSlot
    BY <1>2, <2>3 DEF Sound, Local, Holding, First, Owns
  <2> QED
    BY <2>1, <2>2, <2>3
<1>3. m = n => s = t
  BY <1>1 DEF Sound, Starts, PostedOnce, Numbered
<1>4. s = t => m = n
  BY <1>1, <1>2 DEF Sound, Starts
<1> QED
  BY <1>3, <1>4

(* A step of one client that is felt by no other: it leaves the slots, the
   positions and the history alone. *)
Quiet(c) ==
    /\ UNCHANGED <<headSlot, cliMask, clientSlot, slots, id, ith, polled, leaving,
                   head, last, nmsg, msg, got, aborted>>
    /\ \A d \in Clients \ {c} :
        /\ pc'[d] = pc[d] /\ cur'[d] = cur[d] /\ left'[d] = left[d]
        /\ stack'[d] = stack[d] /\ buffer'[d] = buffer[d]
    /\ pc'[c] \in GroupLabels \ {"moveHead", "fill", "publish"}
    /\ pc[c] \in {"recycle", "free", "crashed"} => polled[c] = NoSlot \/ pc'[c] \in {"free", "crashed"}
    /\ pc'[c] \in InPoll => cur'[c] = Pos(c)
    /\ pc'[c] \in {"clear", "recycle", "free"} => polled[c] # NoSlot
    /\ msg[c] # 0 =>
        /\ left'[c] = left[c]
        /\ pc'[c] \in {"readHead", "cas", "abort", "aborting", "crashed"}
        /\ pc[c] \in {"aborting", "crashed"} => pc'[c] \in {"aborting", "crashed"}
        /\ head[c] = NoSlot => pc'[c] = "crashed" /\ cur'[c] = cur[c]

LEMMA QuietFrame ==
    ASSUME TypeInv, NEW c \in Clients, Quiet(c)
    PROVE  /\ \A e \in Clients : Pos(e)' = Pos(e)
           /\ \A e \in Clients : \A s : Ahead(e, s)' = Ahead(e, s)
           /\ \A e \in Clients : Ahead(e, headSlot)' = Ahead(e, headSlot)
           /\ \A e \in Clients : \A s : Before(e, s)' <=> Before(e, s)
           /\ \A s : Msg(s)' = Msg(s) /\ Rest(s)' = Rest(s)
           /\ \A e \in Clients, m \in Nat : Waits(e, m)' <=> Waits(e, m)
           /\ \A e \in Clients : Standing(e)' => Standing(e)
           /\ \A m \in Nat : Unread(m)' => Unread(m)
           /\ \A s \in Slots, m \in Nat : Starts(s, m)' <=> Starts(s, m)
           /\ \A e \in Clients : Owns(e)' => Owns(e) /\ cur'[e] = cur[e]
<1> USE DEF slots
<1>1. /\ \A e \in Clients : Pos(e)' = Pos(e)
      /\ \A e \in Clients : \A s : Ahead(e, s)' = Ahead(e, s)
      /\ \A e \in Clients : Ahead(e, headSlot)' = Ahead(e, headSlot)
      /\ \A e \in Clients : \A s : Before(e, s)' <=> Before(e, s)
  BY DEF Quiet, Pos, Ahead, Before
<1>2. /\ \A s : Msg(s)' = Msg(s) /\ Rest(s)' = Rest(s)
      /\ \A e \in Clients, m \in Nat : Waits(e, m)' <=> Waits(e, m)
  BY DEF Quiet, Msg, Rest, Waits
<1>3. \A e \in Clients : Standing(e)' => Standing(e)
  BY DEF Quiet, Standing
<1>4. \A m \in Nat : Unread(m)' => Unread(m)
  BY <1>3 DEF Quiet, Unread
<1>5. \A s \in Slots, m \in Nat : Starts(s, m)' <=> Starts(s, m)
  BY <1>2 DEF Quiet, Starts, First
<1>6. \A e \in Clients : Owns(e)' => Owns(e) /\ cur'[e] = cur[e]
  BY DEF Quiet, Owns, Taking
<1> QED
  BY <1>1, <1>2, <1>3, <1>4, <1>5, <1>6

LEMMA QuietStep ==
    ASSUME TypeInv, Group, Sound, NEW c \in Clients, Quiet(c),
           (Trying(c) /\ Unchaining(c) /\ Loading(c))'
    PROVE  Group' /\ Sound'
<1> USE QuietFrame DEF slots
<1>1. Group'
  BY DEF Quiet, Group
<1>2. (HeadUsable /\ Numbered /\ PostedOnce /\ PartOnce /\ Addressed)'
  BY DEF Quiet, Sound, HeadUsable, Numbered, PostedOnce, PartOnce, Addressed
<1>3. (Region /\ InTurn /\ Complete)'
  BY DEF Quiet, Sound, Region, InTurn, Complete
<1>4. (PartsAhead /\ PartsAfter /\ PartsKept)'
  BY SlotNumbers DEF Quiet, Sound, PartsAhead, PartsAfter, PartsKept
<1>5. Links'
  BY DEF Quiet, Sound, Links
<1>6. Linked'
  BY SlotNumbers DEF Quiet, Sound, Linked
<1>7. ASSUME NEW d \in Clients PROVE (Moving(d) /\ Holding(d) /\ Posting(d) /\ Polling(d))'
  <2>1. Local(d)
    BY DEF Sound
  <2>2. Moving(d)'
    BY <2>1 DEF Quiet, Local, Moving
  <2>3. Holding(d)'
    BY <2>1, SlotNumbers DEF Quiet, Local, Holding
  <2>4. Posting(d)'
    BY <2>1 DEF Quiet, Local, Posting, Taking
  <2>5. got[d] \in Nat
    BY DEF TypeInv, TypeOK
  <2>6. Polling(d)'
    BY <2>1, <2>5 DEF Quiet, Local, Polling, InPoll
  <2> QED
    BY <2>2, <2>3, <2>4, <2>6
<1>8. ASSUME NEW d \in Clients \ {c} PROVE (Trying(d) /\ Unchaining(d) /\ Loading(d))'
  <2>1. Local(d)
    BY DEF Sound
  <2>2. pc[d] = "cas" => cur[d] \in Slots
    BY DEF TypeInv, LocalsOK, Locals
  <2>3. Trying(d)'
    BY <2>1, <2>2, SlotNumbers DEF Quiet, Local, Trying
  <2>4. got[d] \in Nat
    BY DEF TypeInv, TypeOK
  <2>5. Unchaining(d)'
    BY <2>1, <2>4 DEF Quiet, Local, Unchaining, Chain
  <2>6. Loading(d)'
    BY <2>1 DEF Quiet, Local, Loading
  <2> QED
    BY <2>3, <2>5, <2>6
<1> QED
  BY <1>1, <1>2, <1>3, <1>4, <1>5, <1>6, <1>7, <1>8 DEF Sound, Local

---------------------------------------------------------------------------
(* The steps of a client that no other feels *)

(* Whoever finds the mask empty is the last: the message of the slot has been
   handed to everybody, and nobody stands on it any more. *)
LEMMA LastReader ==
    ASSUME TypeInv, Group, Sound, NEW c \in Clients, pc[c] = "recycle", slotMask[cur[c]] = {}
    PROVE  ~Unread(got[c])
<1>1. polled[c] # NoSlot /\ cur[c] = Pos(c) /\ Pos(c) \in Slots
  BY DEF Sound, Local, Polling, InPoll, Group
<1>2. /\ Msg(Pos(c)) = got[c]
      /\ status[Pos(c)] \in {"Posted", "Free"}
      /\ \A s \in Slots : status[s] = "Posted" /\ Msg(s) = got[c] => s = Pos(c)
      /\ status[Pos(c)] = "Free" => ~Unread(got[c])
  BY <1>1 DEF Sound, Local, Polling
<1>3. ASSUME status[Pos(c)] = "Posted", NEW e \in Clients, got[e] < got[c] PROVE FALSE
  BY <1>1, <1>2, <1>3 DEF Sound, Addressed
<1>4. ASSUME status[Pos(c)] = "Posted", NEW e \in Clients, got[e] = got[c], Standing(e) PROVE FALSE
  <2>1. status[Pos(e)] = "Posted" /\ ith[e] \in slotMask[Pos(e)] /\ Msg(Pos(e)) = got[c]
    BY <1>4 DEF Sound, Local, Polling, Standing
  <2>2. Pos(e) \in Slots
    BY DEF Group
  <2> QED
    BY <2>1, <2>2, <1>1, <1>2
<1> QED
  BY <1>2, <1>3, <1>4 DEF Unread

(* The last part of a message somebody needs has nothing behind it. *)
LEMMA LastPart ==
    ASSUME TypeInv, Sound, NEW c \in Clients, pc[c] = "load", dataCnt[cur[c]] = NoSlot
    PROVE  Rest(cur[c]) = 1
<1>1. polled[c] # NoSlot /\ Msg(cur[c]) = got[c] /\ got[c] > 0 /\ cur[c] \in Slots
  BY DEF Sound, Local, Polling, Loading, TypeInv, LocalsOK, Locals
<1>2. Unread(got[c])
  BY <1>1 DEF Unread, Standing
<1>3. got[c] \notin aborted /\ \A d \in Clients : msg[d] # got[c]
  <2>1. got[c] \in Nat
    BY DEF TypeInv, TypeOK
  <2> QED
    BY <1>1, <2>1 DEF Sound, Numbered
<1>4. Rest(cur[c]) \in Nat /\ Rest(cur[c]) >= 1
  BY <1>1, SlotNumbers DEF Sound, PartOnce
<1>5. ~(Rest(cur[c]) > 1)
  BY <1>1, <1>2, <1>3 DEF Sound, Linked
<1> QED
  BY <1>4, <1>5

QuietAction(c) ==
    \/ PostReadHead(c) \/ PostRetry(c) \/ PostFail(c) \/ PostAbort(c)
    \/ PollNothing(c) \/ PollSeen(c) \/ PollRecycle(c) \/ Descend(c) \/ LoadPart(c)
    \/ (\E n \in 1 .. MaxParts : Post(c, n))
    \/ Poll(c) \/ LoadBytes(c) \/ ClearBytes(c) \/ Crash(c)

LEMMA QuietActionStep ==
    ASSUME TypeInv, Group, Sound, NEW c \in Clients, QuietAction(c)
    PROVE  Group' /\ Sound'
<1> SUFFICES Quiet(c) /\ (Trying(c) /\ Unchaining(c) /\ Loading(c))'
  BY QuietStep
<1> USE DEF At, Goto, InPoll, shared, slots, clients, walk, posting, history
<1>a. Posting(c) /\ Polling(c) /\ Unchaining(c) /\ Loading(c) /\ Locals(c)
  BY DEF Sound, Local, TypeInv, LocalsOK
<1>b. /\ id[c] # NotId /\ ~leaving[c] /\ pc[c] \in GroupLabels
      /\ Pos(c) \in Slots /\ Pos(c) # NoSlot
      /\ pc \in [Clients -> Labels]
  <2>1. NoSlot \notin Slots
    BY RingAssumption DEF RingAssumption, Slots
  <2> QED
    BY <2>1 DEF Group, TypeInv, TypeOK
<1>c. ASSUME pc[c] \notin {"load", "crashed"}, buffer' = buffer, pc'[c] # "load"
      PROVE  Loading(c)'
  BY <1>a, <1>c DEF Loading
<1> USE DEF Labels, GroupLabels
<1>1. CASE PostReadHead(c)
  <2>1. Quiet(c)
    BY <1>a, <1>b, <1>1, SMTT(30) DEF PostReadHead, Quiet, Posting, Polling, TypeInv, TypeOK
  <2>2. Trying(c)'
    BY <1>a, <1>b, <1>1 DEF PostReadHead, Trying, TypeInv, TypeOK
  <2>3. Unchaining(c)'
    BY <1>a, <1>b, <1>1 DEF PostReadHead, Unchaining, TypeInv, TypeOK
  <2>4. Loading(c)'
    BY <1>b, <1>c, <1>1 DEF PostReadHead, TypeInv, TypeOK
  <2> QED
    BY <2>1, <2>2, <2>3, <2>4
<1>2. CASE PostRetry(c)
  <2>1. Quiet(c)
    BY <1>a, <1>b, <1>2, SMTT(30) DEF PostRetry, Quiet, Posting, Polling, TypeInv, TypeOK
  <2>2. Trying(c)'
    BY <1>a, <1>b, <1>2 DEF PostRetry, Trying, TypeInv, TypeOK
  <2>3. Unchaining(c)'
    BY <1>a, <1>b, <1>2 DEF PostRetry, Unchaining, TypeInv, TypeOK
  <2>4. Loading(c)'
    BY <1>b, <1>c, <1>2 DEF PostRetry, TypeInv, TypeOK
  <2> QED
    BY <2>1, <2>2, <2>3, <2>4
<1>3. CASE PostFail(c)
  <2>1. Quiet(c)
    BY <1>a, <1>b, <1>3, SMTT(30) DEF PostFail, PostDone, Quiet, Posting, Polling, TypeInv, TypeOK
  <2>2. Trying(c)'
    BY <1>a, <1>b, <1>3 DEF PostFail, PostDone, Trying, TypeInv, TypeOK
  <2>3. Unchaining(c)'
    BY <1>a, <1>b, <1>3 DEF PostFail, PostDone, Unchaining, TypeInv, TypeOK
  <2>4. Loading(c)'
    BY <1>b, <1>c, <1>3 DEF PostFail, PostDone, TypeInv, TypeOK
  <2> QED
    BY <2>1, <2>2, <2>3, <2>4
<1>4. CASE PostAbort(c)
  <2>1. Quiet(c)
    BY <1>a, <1>b, <1>4, SMTT(30) DEF PostAbort, Quiet, Posting, Polling, TypeInv, TypeOK
  <2>2. Trying(c)'
    BY <1>a, <1>b, <1>4 DEF PostAbort, Trying, TypeInv, TypeOK
  <2>3. Unchaining(c)'
    <3>1. stack'[c] = <<head[c]>> /\ head[c] # NoSlot /\ head[c] \in Slots /\ pc'[c] = "aborting"
      BY <1>4 DEF PostAbort, TypeInv, TypeOK, Pointer
    <3>2. Rest(head[c]) \in Nat
      BY <3>1, SlotNumbers
    <3> QED
      BY <1>4, <2>1, <3>1, <3>2, QuietFrame DEF PostAbort, Unchaining, Chain
  <2>4. Loading(c)'
    BY <1>b, <1>c, <1>4 DEF PostAbort, TypeInv, TypeOK
  <2> QED
    BY <2>1, <2>2, <2>3, <2>4
<1>5. CASE PollNothing(c)
  <2>1. Quiet(c)
    BY <1>a, <1>b, <1>5, SMTT(30) DEF PollNothing, Return, Quiet, Posting, Polling, TypeInv, TypeOK
  <2>2. Trying(c)'
    BY <1>a, <1>b, <1>5 DEF PollNothing, Return, Trying, TypeInv, TypeOK
  <2>3. Unchaining(c)'
    BY <1>a, <1>b, <1>5 DEF PollNothing, Return, Unchaining, TypeInv, TypeOK
  <2>4. Loading(c)'
    BY <1>b, <1>c, <1>5 DEF PollNothing, Return, TypeInv, TypeOK
  <2> QED
    BY <2>1, <2>2, <2>3, <2>4
<1>6. CASE PollSeen(c)
  <2>1. Quiet(c)
    BY <1>a, <1>b, <1>6, SMTT(30) DEF PollSeen, Quiet, Posting, Polling, TypeInv, TypeOK
  <2>2. Trying(c)'
    BY <1>a, <1>b, <1>6 DEF PollSeen, Trying, TypeInv, TypeOK
  <2>3. Unchaining(c)'
    BY <1>a, <1>b, <1>6 DEF PollSeen, Unchaining, TypeInv, TypeOK
  <2>4. Loading(c)'
    BY <1>b, <1>c, <1>6 DEF PollSeen, TypeInv, TypeOK
  <2> QED
    BY <2>1, <2>2, <2>3, <2>4
<1>7. CASE PollRecycle(c)
  <2>1. Quiet(c)
    BY <1>a, <1>b, <1>7, SMTT(30) DEF PollRecycle, Quiet, Posting, Polling, TypeInv, TypeOK
  <2>2. Trying(c)'
    BY <1>a, <1>b, <1>7 DEF PollRecycle, Trying, TypeInv, TypeOK
  <2>3. Unchaining(c)'
    <3>1. ~Unread(got[c]) /\ got[c] \in Nat
      BY <1>7, LastReader DEF PollRecycle, TypeInv, TypeOK
    <3>2. stack'[c] = <<cur[c]>> /\ pc'[c] = "free" /\ cur[c] \in Slots
      BY <1>a, <1>7 DEF PollRecycle, Locals, TypeInv, TypeOK
    <3>3. Rest(cur[c]) \in Nat
      BY <3>2, SlotNumbers
    <3> QED
      BY <1>7, <2>1, <3>1, <3>2, <3>3, QuietFrame DEF PollRecycle, Unchaining, Chain
  <2>4. Loading(c)'
    BY <1>b, <1>c, <1>7 DEF PollRecycle, TypeInv, TypeOK
  <2> QED
    BY <2>1, <2>2, <2>3, <2>4
<1>8. CASE Descend(c)
  <2>1. Quiet(c)
    BY <1>a, <1>b, <1>8, SMTT(30) DEF Descend, Top, Quiet, Posting, Polling, TypeInv, TypeOK
  <2>2. Trying(c)'
    BY <1>a, <1>b, <1>8 DEF Descend, Top, Trying, TypeInv, TypeOK
  <2>3. Unchaining(c)'
    <3> DEFINE q == stack[c]
               n == Len(q)
               t == dataCnt[q[n]]
    <3>1. Chain(c) /\ q \in Seq(Slots) /\ q # <<>> /\ t \in Slots
      <4>1. Chain(c) /\ q # <<>>
        BY <1>a, <1>8 DEF Descend, Unchaining, Locals
      <4>2. q \in Seq(Slots)
        BY DEF TypeInv, TypeOK
      <4>3. q[n] \in Slots
        BY <4>1, <4>2, PopStack
      <4>4. t \in Pointer /\ t # NoSlot
        BY <1>8, <4>3 DEF Descend, Top, TypeInv, TypeOK
      <4> QED
        BY <4>1, <4>2, <4>4 DEF Pointer
    <3>2. n \in Nat \ {0} /\ q[1] \in Slots /\ q[n] \in Slots
      BY <3>1, PopStack
    <3>3. Msg(t) = Msg(q[n]) /\ Rest(t) = Rest(q[n]) - 1 /\ Rest(q[1]) \in Nat
      BY <1>8, <3>2, SlotNumbers DEF Descend, Top, Sound, Links
    <3>4. stack'[c] = Append(q, t)
      BY <1>8 DEF Descend, Top, TypeInv, TypeOK
    <3>5. /\ Len(stack'[c]) = n + 1 /\ stack'[c][n + 1] = t
          /\ \A k \in 1 .. n : stack'[c][k] = q[k]
      BY <3>1, <3>4, AppendProperties
    <3>6. Chain(c)'
      <4> SUFFICES ASSUME NEW k \in 1 .. n + 1
                   PROVE  /\ Msg(stack[c][k])' = Msg(stack[c][1])'
                          /\ Rest(stack[c][k])' = Rest(stack[c][1])' + 1 - k
        BY <3>5 DEF Chain
      <4>1. stack'[c][1] = q[1]
        BY <3>2, <3>5
      <4>2. \A s : Msg(s)' = Msg(s) /\ Rest(s)' = Rest(s)
        BY <2>1, QuietFrame
      <4>3. CASE k \in 1 .. n
        <5>1. Msg(q[k]) = Msg(q[1]) /\ Rest(q[k]) = Rest(q[1]) + 1 - k
          BY <3>1, <4>3 DEF Chain
        <5> QED
          BY <3>5, <4>1, <4>2, <4>3, <5>1
      <4>4. CASE k = n + 1
        <5>1. Msg(q[n]) = Msg(q[1]) /\ Rest(q[n]) = Rest(q[1]) + 1 - n
          BY <3>1, <3>2 DEF Chain
        <5> QED
          BY <3>2, <3>3, <3>5, <4>1, <4>2, <4>4, <5>1
      <4> QED
        BY <3>2, <4>3, <4>4
    <3>7. got[c] \in Nat /\ stack'[c][1] = stack[c][1] /\ pc'[c] \in {pc[c], "crashed"}
      BY <1>8, <3>2, <3>5 DEF Descend, TypeInv, TypeOK
    <3> QED
      BY <1>a, <1>8, <2>1, <3>6, <3>7, QuietFrame DEF Descend, Unchaining
  <2>4. Loading(c)'
    BY <1>b, <1>c, <1>8 DEF Descend, Top, TypeInv, TypeOK
  <2> QED
    BY <2>1, <2>2, <2>3, <2>4
<1>9. CASE LoadPart(c)
  <2>1. Quiet(c)
    BY <1>a, <1>b, <1>9, SMTT(30) DEF LoadPart, Quiet, Posting, Polling, TypeInv, TypeOK
  <2>2. Trying(c)'
    BY <1>a, <1>b, <1>9 DEF LoadPart, Trying, TypeInv, TypeOK
  <2>3. Unchaining(c)'
    BY <1>a, <1>b, <1>9 DEF LoadPart, Unchaining, TypeInv, TypeOK
  <2>4. Loading(c)'
    <3> DEFINE b == buffer[c]
               n == Len(b)
               s == cur[c]
    <3>1. /\ polled[c] # NoSlot /\ Msg(s) = got[c] /\ s \in Slots
          /\ \A k \in 1 .. n : b[k] = <<got[c], Rest(s) + n - k + 1>>
          /\ b \in Seq(Nat \X Nat) /\ got[c] \in Nat
      BY <1>a, <1>9 DEF LoadPart, Loading, Locals, TypeInv, TypeOK
    <3>2. data[s] = <<Msg(s), Rest(s)>> /\ Rest(s) \in Nat /\ data[s] \in Nat \X Nat
      BY <3>1 DEF Msg, Rest, TypeInv, TypeOK
    <3>3. /\ buffer'[c] = Append(b, data[s]) /\ cur'[c] = dataCnt[s] /\ n \in Nat
      BY <1>9, <3>1 DEF LoadPart, TypeInv, TypeOK
    <3>4. /\ Len(buffer'[c]) = n + 1 /\ buffer'[c][n + 1] = data[s]
          /\ \A k \in 1 .. n : buffer'[c][k] = b[k]
      BY <3>1, <3>2, <3>3, AppendProperties
    <3>5. \A k \in 1 .. n + 1 : buffer'[c][k] = <<got[c], Rest(s) + (n + 1) - k>>
      <4> SUFFICES ASSUME NEW k \in 1 .. n + 1
                   PROVE  buffer'[c][k] = <<got[c], Rest(s) + (n + 1) - k>>
        OBVIOUS
      <4>1. CASE k \in 1 .. n
        <5>1. b[k] = <<got[c], Rest(s) + n - k + 1>> /\ buffer'[c][k] = b[k]
          BY <3>1, <3>4, <4>1
        <5>2. Rest(s) + n - k + 1 = Rest(s) + (n + 1) - k
          BY <3>2, <3>3
        <5> QED
          BY <5>1, <5>2
      <4>2. CASE k = n + 1
        BY <3>1, <3>2, <3>3, <3>4, <4>2
      <4> QED
        BY <3>3, <4>1, <4>2
    <3> HIDE DEF n, b, s
    <3>6. CASE dataCnt[s] = NoSlot
      <4>1. Rest(s) = 1 /\ pc'[c] = "idle"
        BY <1>9, <3>6, LastPart DEF LoadPart, TypeInv, TypeOK, s
      <4>2. buffer'[c][1][1] = got[c]
        BY <3>3, <3>5
      <4>3. \A k \in 1 .. n + 1 : Rest(s) + (n + 1) - k = (n + 1) - k + 1
        BY <3>3, <4>1
      <4>4. \A k \in 1 .. n + 1 : buffer'[c][k] = <<buffer'[c][1][1], (n + 1) - k + 1>>
        BY <3>5, <4>2, <4>3
      <4> QED
        BY <3>4, <4>1, <4>4 DEF Loading
    <3>7. CASE dataCnt[s] # NoSlot
      <4>1. Msg(dataCnt[s]) = Msg(s) /\ Rest(dataCnt[s]) = Rest(s) - 1
        BY <3>1, <3>7 DEF Sound, Links
      <4>2. pc'[c] \in {"load", "crashed"}
        BY <1>9, <3>7 DEF LoadPart, TypeInv, TypeOK, s
      <4>3. \A k \in 1 .. n + 1 :
              buffer'[c][k] = <<got[c], Rest(dataCnt[s]) + (n + 1) - k + 1>>
        <5>1. \A k \in 1 .. n + 1 :
                Rest(s) + (n + 1) - k = Rest(dataCnt[s]) + (n + 1) - k + 1
          BY <3>2, <3>3, <4>1
        <5> QED
          BY <3>5, <5>1
      <4>4. got' = got /\ polled' = polled /\ \A t : Msg(t)' = Msg(t) /\ Rest(t)' = Rest(t)
        BY <2>1, QuietFrame DEF Quiet
      <4> QED
        BY <3>1, <3>3, <3>4, <4>1, <4>2, <4>3, <4>4 DEF Loading
    <3> QED
      BY <3>6, <3>7
  <2> QED
    BY <2>1, <2>2, <2>3, <2>4
<1>10. CASE \E n \in 1 .. MaxParts : Post(c, n)
  <2>1. Quiet(c)
    BY <1>a, <1>b, <1>10, SMTT(30) DEF Post, Quiet, Posting, Polling, TypeInv, TypeOK
  <2>2. Trying(c)'
    BY <1>a, <1>b, <1>10 DEF Post, Trying, TypeInv, TypeOK
  <2>3. Unchaining(c)'
    BY <1>a, <1>b, <1>10 DEF Post, Unchaining, TypeInv, TypeOK
  <2>4. Loading(c)'
    BY <1>b, <1>c, <1>10 DEF Post, TypeInv, TypeOK
  <2> QED
    BY <2>1, <2>2, <2>3, <2>4
<1>11. CASE Poll(c)
  <2>1. Quiet(c)
    BY <1>a, <1>b, <1>11, SMTT(30) DEF Poll, PollStart, Quiet, Posting, Polling, TypeInv, TypeOK, Pos
  <2>2. Trying(c)'
    BY <1>a, <1>b, <1>11 DEF Poll, PollStart, Trying, TypeInv, TypeOK
  <2>3. Unchaining(c)'
    BY <1>a, <1>b, <1>11 DEF Poll, PollStart, Unchaining, TypeInv, TypeOK
  <2>4. Loading(c)'
    BY <1>b, <1>c, <1>11 DEF Poll, PollStart, TypeInv, TypeOK
  <2> QED
    BY <2>1, <2>2, <2>3, <2>4
<1>12. CASE LoadBytes(c)
  <2>1. Quiet(c)
    BY <1>a, <1>b, <1>12, SMTT(30) DEF LoadBytes, Quiet, Posting, Polling, TypeInv, TypeOK
  <2>2. Trying(c)'
    BY <1>a, <1>b, <1>12 DEF LoadBytes, Trying, TypeInv, TypeOK
  <2>3. Unchaining(c)'
    BY <1>a, <1>b, <1>12 DEF LoadBytes, Unchaining, TypeInv, TypeOK
  <2>4. Loading(c)'
    <3>1. buffer'[c] = <<>> /\ cur'[c] = polled[c] /\ polled[c] # NoSlot /\ pc'[c] = "load"
      BY <1>12 DEF LoadBytes, TypeInv, TypeOK
    <3>2. Msg(polled[c]) = got[c]
      BY <1>a, <3>1 DEF Polling
    <3> QED
      BY <2>1, <3>1, <3>2, QuietFrame DEF Loading, Quiet
  <2> QED
    BY <2>1, <2>2, <2>3, <2>4
<1>13. CASE ClearBytes(c)
  <2>1. Quiet(c)
    BY <1>a, <1>b, <1>13, SMTT(30) DEF ClearBytes, Quiet, Posting, Polling, TypeInv, TypeOK
  <2>2. Trying(c)'
    BY <1>a, <1>b, <1>13 DEF ClearBytes, Trying, TypeInv, TypeOK
  <2>3. Unchaining(c)'
    BY <1>a, <1>b, <1>13 DEF ClearBytes, Unchaining, TypeInv, TypeOK
  <2>4. Loading(c)'
    BY <1>13, <2>1 DEF ClearBytes, Loading, TypeInv, TypeOK
  <2> QED
    BY <2>1, <2>2, <2>3, <2>4
<1>14. CASE Crash(c)
  <2>1. Quiet(c)
    BY <1>a, <1>b, <1>14, SMTT(30) DEF Crash, Quiet, Posting, Polling, TypeInv, TypeOK
  <2>2. Trying(c)'
    BY <1>a, <1>b, <1>14 DEF Crash, Trying, TypeInv, TypeOK
  <2>3. Unchaining(c)'
    BY <1>a, <1>b, <1>14 DEF Crash, Unchaining, TypeInv, TypeOK
  <2>4. Loading(c)'
    BY <1>14, <2>1 DEF Crash, Loading, TypeInv, TypeOK
  <2> QED
    BY <2>1, <2>2, <2>3, <2>4
<1> QED
  BY <1>1, <1>2, <1>3, <1>4, <1>5, <1>6, <1>7, <1>8, <1>9, <1>10, <1>11, <1>12, <1>13, <1>14 DEF QuietAction

---------------------------------------------------------------------------
(* The head slot is taken *)

LEMMA TakeStep ==
    ASSUME TypeInv, Group, Sound, NEW c \in Clients, PostTake(c), ~lapped'
    PROVE  Group' /\ Sound'
<1> DEFINE h == headSlot
<1> USE DEF At, Goto
<1>1. /\ pc[c] = "cas" /\ status[cur[c]] = "Free"
      /\ status' = [status EXCEPT ![cur[c]] = "Writing"]
      /\ UNCHANGED <<headSlot, cliMask, clientSlot, slotMask, dataCnt, data, id, ith,
                     polled, buffer, cur, stack, leaving, head, last, left, got, aborted>>
      /\ nmsg' = IF msg[c] = 0 THEN nmsg + 1 ELSE nmsg
      /\ msg' = [msg EXCEPT ![c] = IF msg[c] = 0 THEN nmsg + 1 ELSE msg[c]]
      /\ pc' = [pc EXCEPT ![c] = "moveHead"]
      /\ ~InUse(Succ(cur[c]))
  BY DEF PostTake, Take, shared, clients, walk, posting
<1>2. cur[c] = h /\ h \in Slots /\ Succ(h) \in Slots
  BY <1>1, Standpoints DEF Sound, Local, Trying
<1>3. /\ status[Succ(h)] = "Free"
      /\ \A e \in Clients : Pos(e) # Succ(h)
      /\ Succ(h) # h
  <2>1. status[Succ(h)] = "Free" /\ \A e \in Clients : Pos(e) # Succ(h)
    BY <1>1, <1>2, Standpoints DEF InUse, Pos
  <2>2. Succ(h) = h => h = 0 /\ NumSlots = 1
    BY <1>2, RingAssumption DEF RingAssumption, Slots, Succ
  <2>3. Succ(h) = h => Slots = {h}
    BY <2>2 DEF Slots
  <2> QED
    BY <2>1, <2>3 DEF Group
<1>4. /\ \A e \in Clients : Pos(e)' = Pos(e)
      /\ \A e \in Clients : \A s : Ahead(e, s)' = Ahead(e, s)
      /\ \A e \in Clients : Ahead(e, headSlot)' = Ahead(e, headSlot)
      /\ \A e \in Clients : \A s : Before(e, s)' <=> Before(e, s)
      /\ \A s : Msg(s)' = Msg(s) /\ Rest(s)' = Rest(s)
      /\ \A e \in Clients, m \in Nat : Waits(e, m)' <=> Waits(e, m)
      /\ \A e \in Clients : Standing(e)' <=> Standing(e)
      /\ \A m \in Nat : Unread(m)' <=> Unread(m)
  <2>1. \A e \in Clients : Pos(e)' = Pos(e)
    BY <1>1 DEF Pos
  <2>2. /\ \A e \in Clients : \A s : Ahead(e, s)' = Ahead(e, s)
        /\ \A e \in Clients : Ahead(e, headSlot)' = Ahead(e, headSlot)
        /\ \A e \in Clients : \A s : Before(e, s)' <=> Before(e, s)
    BY <1>1, <2>1 DEF Ahead, Before
  <2>3. /\ \A s : Msg(s)' = Msg(s) /\ Rest(s)' = Rest(s)
        /\ \A e \in Clients, m \in Nat : Waits(e, m)' <=> Waits(e, m)
    BY <1>1 DEF Msg, Rest, Waits
  <2>4. \A e \in Clients : Standing(e)' <=> Standing(e)
    BY <1>1 DEF Standing, TypeInv, TypeOK
  <2>5. \A m \in Nat : Unread(m)' <=> Unread(m)
    BY <1>1, <2>4 DEF Unread
  <2> QED
    BY <2>1, <2>2, <2>3, <2>4, <2>5
<1>5. /\ msg[c] = 0 => head[c] = NoSlot /\ msg'[c] = nmsg + 1 /\ nmsg' = nmsg + 1
      /\ msg[c] # 0 => head[c] # NoSlot /\ msg'[c] = msg[c] /\ nmsg' = nmsg
      /\ \A d \in Clients \ {c} : msg'[d] = msg[d] /\ pc'[d] = pc[d]
      /\ pc'[c] = "moveHead"
  BY <1>1 DEF TypeInv, TypeOK, Sound, Local, Posting
<1>6. /\ status'[h] = "Writing"
      /\ \A s \in Slots \ {h} : status'[s] = status[s]
  BY <1>1, <1>2 DEF TypeInv, TypeOK
<1>7. \A s \in Slots, m \in Nat :
        Starts(s, m)' <=> Starts(s, m) \/ (s = h /\ msg[c] = 0 /\ m = nmsg + 1)
  <2> SUFFICES ASSUME NEW s \in Slots, NEW m \in Nat
               PROVE  Starts(s, m)' <=> Starts(s, m) \/ (s = h /\ msg[c] = 0 /\ m = nmsg + 1)
    OBVIOUS
  <2>1. status'[s] = "Posted" /\ Msg(s)' = m <=> status[s] = "Posted" /\ Msg(s) = m
    BY <1>1, <1>2, <1>4, <1>6
  <2>2. \A d \in Clients : First(d)' = First(d)
    BY <1>1 DEF First
  <2>3. CASE msg[c] = 0
    <3>1. First(c) = h
      BY <1>2, <1>5, <2>3 DEF First
    <3>2. nmsg \in Nat
      BY DEF TypeInv, TypeOK
    <3> QED
      BY <1>5, <2>1, <2>2, <2>3, <3>1, <3>2 DEF Starts
  <2>4. CASE msg[c] # 0
    BY <1>5, <2>1, <2>2, <2>4 DEF Starts
  <2> QED
    BY <2>3, <2>4
<1>8. \A e \in Clients : ~Waits(e, Msg(h))
  <2> SUFFICES ASSUME NEW e \in Clients, Waits(e, Msg(h)) PROVE FALSE
    OBVIOUS
  <2>1. Msg(h) # 0
    <3>1. Waits(e, 0) => got[e] = 0 /\ polled[e] # NoSlot
      <4>1. got[e] \in Nat
        BY DEF TypeInv, TypeOK
      <4> QED
        BY <4>1 DEF Waits
    <3> QED
      BY <3>1 DEF Sound, Local, Polling
  <2>2. Msg(h) \notin aborted
    BY <1>1, <1>2, <2>1 DEF Sound, PartsKept
  <2>3. Before(e, h)
    BY <1>2, <2>1, <2>2 DEF Sound, PartsAhead
  <2> QED
    BY <1>2, <2>3, Standpoints DEF Before, Slots
<1>9. Group'
  BY <1>1, <1>4 DEF Group, GroupLabels, TypeInv, TypeOK
<1>10. (HeadUsable /\ Numbered /\ PostedOnce /\ PartOnce /\ Addressed)'
  <2>1. nmsg \in Nat /\ \A e \in Clients : msg[e] \in Nat /\ got[e] \in Nat
    BY DEF TypeInv, TypeOK
  <2>2. Numbered'
    BY <1>1, <1>4, <1>5, <2>1, SlotNumbers DEF Sound, Numbered
  <2>3. PostedOnce'
    BY <1>1, <1>2, <1>4, <1>5, <1>6, <2>1, SlotNumbers DEF Sound, PostedOnce, Numbered
  <2>4. PartOnce'
    BY <1>1, <1>4, <1>5, <2>1, SlotNumbers DEF Sound, PartOnce, Numbered
  <2> QED
    BY <1>1, <1>2, <1>4, <1>6, <2>2, <2>3, <2>4 DEF Sound, HeadUsable, Addressed
<1>11. (Region /\ InTurn /\ Complete)'
  <2>1. nmsg \in Nat /\ \A e \in Clients : got[e] \in Nat /\ got[e] <= nmsg
    BY DEF TypeInv, TypeOK, Sound, Numbered
  <2>2. \A s \in Slots, m \in Nat : Starts(s, m) => m \in 1 .. nmsg /\ s # h
    BY <1>1, <1>2, StartsInUse
  <2>3. \A m \in Nat : m \in 1 .. nmsg' <=> m \in 1 .. nmsg \/ (msg[c] = 0 /\ m = nmsg + 1)
    BY <1>5, <2>1
  <2>4. Region'
    <3> SUFFICES ASSUME NEW e \in Clients, NEW s \in Slots, NEW m \in 1 .. nmsg', Starts(s, m)'
                 PROVE  Ahead(e, s) <= Ahead(e, h) <=> (got[e] < m \/ polled[e] = s)
      BY <1>1, <1>4 DEF Region
    <3>1. CASE Starts(s, m)
      BY <2>2, <3>1 DEF Sound, Region
    <3>2. CASE s = h /\ msg[c] = 0 /\ m = nmsg + 1
      <4>1. got[e] < m
        BY <2>1, <3>2
      <4>2. Ahead(e, h) <= Ahead(e, h)
        BY <1>2, Standpoints DEF Slots
      <4> QED
        BY <3>2, <4>1, <4>2
    <3> QED
      BY <1>7, <3>1, <3>2
  <2>5. InTurn'
    <3> SUFFICES ASSUME NEW e \in Clients, NEW s \in Slots, NEW t \in Slots,
                        NEW m \in 1 .. nmsg', NEW n \in 1 .. nmsg',
                        Starts(s, m)', Starts(t, n)', m < n, Ahead(e, s) <= Ahead(e, h)
                 PROVE  Ahead(e, s) < Ahead(e, t)
      BY <1>4 DEF InTurn
    <3>1. Starts(s, m) /\ s # h
      BY <1>7, <2>1, <2>2, <2>3
    <3>2. CASE Starts(t, n)
      BY <2>2, <3>1, <3>2 DEF Sound, InTurn
    <3>3. CASE t = h
      <4>1. /\ Ahead(e, s) \in Nat /\ Ahead(e, h) \in Nat
            /\ Ahead(e, s) # Ahead(e, h)
        BY <1>2, <3>1, Standpoints DEF Slots
      <4> QED
        BY <3>3, <4>1
    <3> QED
      BY <1>7, <3>2, <3>3
  <2>6. Complete'
    BY <1>1, <1>2, <1>7, <2>3 DEF Sound, Complete
  <2> QED
    BY <2>4, <2>5, <2>6
<1>12. (PartsAhead /\ PartsAfter /\ PartsKept)'
  <2>1. \A t \in Slots : Msg(t) \in Nat /\ Msg(t) <= nmsg
    BY SlotNumbers DEF Sound, Numbered
  <2>2. PartsAhead'
    BY <1>1, <1>4, <2>1 DEF Sound, PartsAhead
  <2>3. \A s, t \in Slots : Starts(s, Msg(t))' <=> Starts(s, Msg(t))
    <3>1. nmsg \in Nat
      BY DEF TypeInv, TypeOK
    <3>2. \A t \in Slots : Msg(t) # nmsg + 1
      BY <2>1, <3>1
    <3> QED
      BY <1>4, <1>7, <2>1, <3>2
  <2>4. PartsAfter'
    BY <1>1, <1>4, <2>1, <2>3 DEF Sound, PartsAfter
  <2>5. PartsKept'
    BY <1>1, <1>2, <1>4, <1>6, <2>1 DEF Sound, PartsKept
  <2> QED
    BY <2>2, <2>4, <2>5
<1>13. (Links /\ Linked)'
  <2>1. Links'
    <3> SUFFICES ASSUME NEW t \in Slots, dataCnt[t] # NoSlot
                 PROVE  /\ status'[t] # "Free"
                        /\ status'[dataCnt[t]] \in {"Continued", "Aborted"}
      BY <1>1, <1>4 DEF Sound, Links
    <3>1. /\ status[t] # "Free" /\ status[dataCnt[t]] \in {"Continued", "Aborted"}
          /\ dataCnt[t] \in Slots
      BY DEF Sound, Links, TypeInv, TypeOK, Pointer
    <3> QED
      BY <1>1, <1>2, <1>6, <3>1
  <2>2. Linked'
    <3> SUFFICES ASSUME NEW t \in Slots, Msg(t) # 0, Rest(t) > 1, Unread(Msg(t)), Msg(t) \notin aborted,
                        \A d \in Clients : msg'[d] = Msg(t) => pc'[d] \notin {"aborting", "crashed"}
                 PROVE  dataCnt[t] # NoSlot \/ \E d \in Clients : msg'[d] = Msg(t) /\ last[d] = t
      BY <1>1, <1>4, SlotNumbers DEF Linked
    <3>1. \A d \in Clients : msg[d] = Msg(t) => pc[d] \notin {"aborting", "crashed"}
      BY <1>1, <1>5
    <3>2. dataCnt[t] # NoSlot \/ \E d \in Clients : msg[d] = Msg(t) /\ last[d] = t
      BY <3>1 DEF Sound, Linked
    <3> QED
      BY <1>5, <3>2
  <2> QED
    BY <2>1, <2>2
<1>14. ASSUME NEW d \in Clients PROVE Local(d)'
  <2>1. Local(d) /\ Locals(d)
    BY DEF Sound, TypeInv, LocalsOK
  <2>2. Moving(d)'
    <3>1. d # c => pc[d] # "moveHead"
      BY <1>1, <1>2, <2>1 DEF Local, Moving
    <3> QED
      BY <1>1, <1>2, <1>3, <1>4, <1>5, <1>6, <3>1 DEF Moving
  <2>3. Trying(d)'
    <3>1. pc[d] = "cas" => cur[d] \in Slots
      BY <2>1 DEF Locals
    <3> QED
      BY <1>1, <1>4, <1>5, <1>6, <2>1, <3>1, SlotNumbers DEF Local, Trying
  <2>4. Holding(d)'
    <3>1. CASE d = c
      <4>1. dataCnt[h] = NoSlot
        BY <1>1, <1>2 DEF Sound, Links
      <4>2. \A e \in Clients : head[e] # h
        BY <1>1, <1>2, NoSlotApart DEF Sound, Local, Posting
      <4>3. \A e \in Clients \ {c} : Owns(e)' => cur[e] # h
        BY <1>1, <1>2, <1>5 DEF Sound, Local, Holding, Owns, Taking
      <4>4. ASSUME head[c] # NoSlot, NEW e \in Clients PROVE Ahead(e, head[c]) < Ahead(e, h)
        <5>1. /\ head[c] \in Slots /\ Msg(head[c]) = msg[c] /\ msg[c] # 0
              /\ msg[c] \notin aborted /\ got[e] < msg[c]
          BY <4>4 DEF Sound, Local, Posting, Numbered, TypeInv, TypeOK, Pointer
        <5> QED
          BY <5>1 DEF Sound, PartsAhead, Before, Waits
      <4> QED
        BY <1>1, <1>2, <1>4, <1>5, <1>6, <1>8, <3>1, <4>1, <4>2, <4>3, <4>4, SlotNumbers
           DEF Holding
    <3>2. CASE d # c
      <4>1. Owns(d)' => Owns(d) /\ cur[d] # h
        BY <1>1, <1>2, <1>5, <2>1, <3>2 DEF Owns, Taking, Local, Holding
      <4>2. Owns(c)' => cur[c] = h
        BY <1>2
      <4>3. \A e \in Clients \ {c} : Owns(e)' <=> Owns(e)
        BY <1>1, <1>5 DEF Owns, Taking
      <4> QED
        BY <1>1, <1>2, <1>4, <1>5, <1>6, <2>1, <3>2, <4>1, <4>2, <4>3, SlotNumbers
           DEF Local, Holding
    <3> QED
      BY <3>1, <3>2
  <2>5. Posting(d)'
    <3>1. head[d] # NoSlot => head[d] \in Slots /\ head[d] # h
      BY <1>1, <1>2, <2>1 DEF Local, Posting, TypeInv, TypeOK, Pointer
    <3>2. nmsg + 1 # 0
      BY DEF TypeInv, TypeOK
    <3> QED
      BY <1>1, <1>4, <1>5, <1>6, <2>1, <3>1, <3>2 DEF Local, Posting, Taking
  <2>6. Polling(d)'
    <3>1. Pos(d) \in Slots /\ (polled[d] # NoSlot => Pos(d) # h) /\ got[d] \in Nat
      BY <2>1, Standpoints DEF Local, Polling, TypeInv, TypeOK
    <3>2. polled[d] # NoSlot =>
            \A s \in Slots : status'[s] = "Posted" /\ Msg(s) = got[d] => s = Pos(d)
      BY <1>2, <1>6, <2>1 DEF Local, Polling
    <3>3. pc'[d] \in InPoll \cup {"clear", "recycle", "free"} => pc'[d] = pc[d]
      BY <1>5 DEF InPoll
    <3> QED
      BY <1>1, <1>2, <1>4, <1>6, <2>1, <3>1, <3>2, <3>3 DEF Local, Polling, Standing
  <2>7. Unchaining(d)'
    <3>1. got[d] \in Nat
      BY DEF TypeInv, TypeOK
    <3> QED
      BY <1>1, <1>4, <1>5, <2>1, <3>1 DEF Local, Unchaining, Chain
  <2>8. Loading(d)'
    BY <1>1, <1>4, <1>5, <2>1 DEF Local, Loading
  <2> QED
    BY <2>2, <2>3, <2>4, <2>5, <2>6, <2>7, <2>8 DEF Local
<1> QED
  BY <1>9, <1>10, <1>11, <1>12, <1>13, <1>14 DEF Sound

---------------------------------------------------------------------------
(* The head moves on *)

LEMMA MoveHeadStep ==
    ASSUME TypeInv, Group, Sound, NEW c \in Clients, PostMoveHead(c)
    PROVE  Group' /\ Sound'
<1> DEFINE h == headSlot
<1> USE DEF At, Goto
<1>1. /\ pc[c] = "moveHead" /\ headSlot' = Succ(cur[c])
      /\ UNCHANGED <<cliMask, clientSlot, slots, id, ith, polled, buffer, cur, stack,
                     leaving, head, last, left, nmsg, msg, got, aborted>>
      /\ pc' = [pc EXCEPT ![c] = "fill"]
  BY DEF PostMoveHead, slots, clients, walk, posting, history
<1> USE DEF slots
<1>2. /\ cur[c] = h /\ status[h] = "Writing"
      /\ h \in Slots /\ Succ(h) \in Slots
      /\ status[Succ(h)] = "Free"
      /\ \A e \in Clients : Pos(e) # Succ(h)
  BY <1>1, Standpoints DEF Sound, Local, Moving
<1>3. /\ \A e \in Clients : Pos(e)' = Pos(e)
      /\ \A e \in Clients : \A s : Ahead(e, s)' = Ahead(e, s)
      /\ \A s : Msg(s)' = Msg(s) /\ Rest(s)' = Rest(s)
      /\ \A e \in Clients, m \in Nat : Waits(e, m)' <=> Waits(e, m)
      /\ \A e \in Clients : Standing(e)' <=> Standing(e)
      /\ \A m \in Nat : Unread(m)' <=> Unread(m)
  <2>1. \A e \in Clients : Pos(e)' = Pos(e)
    BY <1>1 DEF Pos
  <2>2. \A e \in Clients : \A s : Ahead(e, s)' = Ahead(e, s)
    BY <1>1, <2>1 DEF Ahead
  <2>3. /\ \A s : Msg(s)' = Msg(s) /\ Rest(s)' = Rest(s)
        /\ \A e \in Clients, m \in Nat : Waits(e, m)' <=> Waits(e, m)
    BY <1>1 DEF Msg, Rest, Waits
  <2>4. \A e \in Clients : Standing(e)' <=> Standing(e)
    BY <1>1 DEF Standing, TypeInv, TypeOK
  <2>5. \A m \in Nat : Unread(m)' <=> Unread(m)
    BY <1>1, <2>4 DEF Unread
  <2> QED
    BY <2>1, <2>2, <2>3, <2>4, <2>5
<1>4. \A s \in Slots, m \in Nat : Starts(s, m)' <=> Starts(s, m)
  BY <1>1, <1>3 DEF Starts, First
<1>5. /\ pc'[c] = "fill"
      /\ \A d \in Clients \ {c} : pc'[d] = pc[d]
      /\ \A d \in Clients : Owns(d)' <=> Owns(d)
  BY <1>1 DEF TypeInv, TypeOK, Owns, Taking
<1>6. /\ \A e \in Clients : Ahead(e, Succ(h)) = Ahead(e, h) + 1
      /\ \A e \in Clients, s \in Slots : Before(e, s)' <=> Ahead(e, s) <= Ahead(e, h)
      /\ \A e \in Clients, s \in Slots : Before(e, s) => Before(e, s)'
  <2>1. ASSUME NEW e \in Clients PROVE Ahead(e, Succ(h)) = Ahead(e, h) + 1
    BY <1>2, DistSucc, Standpoints DEF Ahead
  <2>2. \A e \in Clients, s \in Slots : Ahead(e, s) \in Nat /\ Ahead(e, h) \in Nat
    BY <1>2, Standpoints DEF Slots
  <2>3. ASSUME NEW e \in Clients, NEW s \in Slots
        PROVE  Before(e, s)' <=> Ahead(e, s) < Ahead(e, Succ(h))
    <3>1. Ahead(e, headSlot)' = Ahead(e, Succ(h))
      BY <1>1, <1>2, <1>3
    <3> QED
      BY <1>3, <3>1 DEF Before
  <2> QED
    BY <2>1, <2>2, <2>3 DEF Before
<1>7. Group'
  BY <1>1, <1>3 DEF Group, GroupLabels, TypeInv, TypeOK
<1>8. (HeadUsable /\ Numbered /\ PostedOnce /\ PartOnce /\ Addressed)'
  BY <1>1, <1>2, <1>3 DEF Sound, HeadUsable, Numbered, PostedOnce, PartOnce, Addressed
<1>9. (Region /\ InTurn /\ Complete)'
  <2>1. ASSUME NEW e \in Clients, NEW s \in Slots, NEW m \in 1 .. nmsg, Starts(s, m)
        PROVE  (Ahead(e, s) <= Ahead(e, headSlot))' <=> Ahead(e, s) <= Ahead(e, h)
    <3>1. s # Succ(h)
      BY <1>2, <2>1, StartsInUse
    <3>2. Ahead(e, s) # Ahead(e, h) + 1
      BY <1>2, <1>6, <3>1, Standpoints
    <3>3. Ahead(e, s) \in Nat /\ Ahead(e, h) \in Nat
      BY <1>2, Standpoints DEF Slots
    <3>4. Ahead(e, headSlot)' = Ahead(e, h) + 1
      BY <1>1, <1>2, <1>3, <1>6
    <3> QED
      BY <1>3, <3>2, <3>3, <3>4
  <2>2. Region'
    BY <1>1, <1>3, <1>4, <2>1 DEF Sound, Region
  <2>3. InTurn'
    BY <1>1, <1>3, <1>4, <2>1 DEF Sound, InTurn
  <2>4. Complete'
    BY <1>1, <1>4 DEF Sound, Complete
  <2> QED
    BY <2>2, <2>3, <2>4
<1>10. (PartsAhead /\ PartsAfter /\ PartsKept)'
  BY <1>1, <1>3, <1>4, <1>6, SlotNumbers DEF Sound, PartsAhead, PartsAfter, PartsKept
<1>11. Links'
  BY <1>1, <1>3 DEF Sound, Links
<1>12. Linked'
  BY <1>1, <1>3, <1>5, SlotNumbers DEF Sound, Linked
<1>13. ASSUME NEW d \in Clients PROVE Local(d)'
  <2>1. Local(d) /\ Locals(d)
    BY DEF Sound, TypeInv, LocalsOK
  <2>2. Moving(d)'
    <3>1. ASSUME d # c, pc[d] = "moveHead" PROVE FALSE
      <4>1. Owns(c) /\ Owns(d) /\ cur[d] = cur[c]
        BY <1>1, <1>2, <2>1, <3>1 DEF Sound, Local, Moving, Posting, Owns, Taking
      <4> QED
        BY <3>1, <4>1 DEF Sound, Local, Holding
    <3> QED
      BY <1>5, <3>1 DEF Moving
  <2>3. Trying(d)'
    <3>1. pc[d] = "cas" => cur[d] \in Slots
      BY <2>1 DEF Locals
    <3>2. \A e \in Clients : ~Waits(e, Msg(h))
      BY <1>1, <1>2 DEF Sound, Local, Posting, Holding, Owns, Taking
    <3> QED
      BY <1>1, <1>2, <1>3, <1>5, <2>1, <3>1, <3>2, SlotNumbers DEF Local, Trying
  <2>4. Holding(d)'
    <3>1. pc'[d] = "fill" /\ cur[d] \in Slots => \A e \in Clients : Before(e, cur[d])'
      <4>1. CASE d = c
        <5>1. \A e \in Clients : Ahead(e, h) <= Ahead(e, h)
          BY <1>2, Standpoints DEF Slots
        <5> QED
          BY <1>1, <1>2, <1>6, <4>1, <5>1
      <4>2. CASE d # c
        BY <1>1, <1>5, <1>6, <2>1, <4>2 DEF Local, Holding, Posting, Owns, Taking
      <4> QED
        BY <4>1, <4>2
    <3> QED
      BY <1>1, <1>3, <1>5, <2>1, <3>1, SlotNumbers DEF Local, Holding
  <2>5. Posting(d)'
    BY <1>1, <1>3, <1>5, <2>1 DEF Local, Posting, Taking
  <2>6. Polling(d)'
    <3>1. got[d] \in Nat
      BY DEF TypeInv, TypeOK
    <3> QED
      BY <1>1, <1>2, <1>3, <1>5, <2>1, <3>1 DEF Local, Polling, InPoll
  <2>7. Unchaining(d)'
    <3>1. got[d] \in Nat
      BY DEF TypeInv, TypeOK
    <3> QED
      BY <1>1, <1>3, <1>5, <2>1, <3>1 DEF Local, Unchaining, Chain
  <2>8. Loading(d)'
    BY <1>1, <1>3, <1>5, <2>1 DEF Local, Loading
  <2> QED
    BY <2>2, <2>3, <2>4, <2>5, <2>6, <2>7, <2>8 DEF Local
<1> QED
  BY <1>7, <1>8, <1>9, <1>10, <1>11, <1>12, <1>13 DEF Sound

---------------------------------------------------------------------------
(* A part is written *)

LEMMA FillStep ==
    ASSUME TypeInv, Group, Sound, NEW c \in Clients, PostFillFirst(c) \/ PostFillNext(c)
    PROVE  Group' /\ Sound'
<1> DEFINE s == cur[c]
<1> USE DEF At, Goto
<1>1. /\ pc[c] = "fill"
      /\ UNCHANGED <<headSlot, cliMask, clientSlot, id, ith, polled, buffer, cur, stack,
                     leaving, nmsg, msg, got, aborted>>
      /\ slotMask' = [slotMask EXCEPT ![s] = cliMask]
      /\ data' = [data EXCEPT ![s] = <<msg[c], left[c]>>]
      /\ last' = [last EXCEPT ![c] = s]
      /\ left' = [left EXCEPT ![c] = @ - 1]
      /\ pc' = [pc EXCEPT ![c] = IF left[c] = 1 THEN "publish" ELSE "readHead"]
  BY DEF PostFillFirst, PostFillNext, Fill, shared, clients, walk, history
<1>2. /\ Local(c) /\ msg[c] # 0 /\ Owns(c)
      /\ s \in Slots /\ status[s] = "Writing" /\ dataCnt[s] = NoSlot
      /\ \A e \in Clients : ~Waits(e, Msg(s)) /\ head[e] # s /\ Before(e, s)
      /\ \A e \in Clients \ {c} : Owns(e) => cur[e] # s
      /\ head[c] = NoSlot <=> last[c] = NoSlot
      /\ left[c] \in Nat /\ left[c] > 0
  <2>1. Local(c) /\ msg[c] # 0 /\ Owns(c) /\ Locals(c)
    BY <1>1 DEF Sound, Local, Posting, Owns, Taking, TypeInv, LocalsOK
  <2> QED
    BY <1>1, <2>1 DEF Local, Holding, Posting, Locals, TypeInv, TypeOK
<1>3. last[c] = NoSlot =>
        /\ head' = [head EXCEPT ![c] = s] /\ status' = status /\ dataCnt' = dataCnt
  <2> HAVE last[c] = NoSlot
  <2>1. PostFillFirst(c)
    BY DEF PostFillNext
  <2>2. dataCnt' = [dataCnt EXCEPT ![s] = NoSlot]
    BY <2>1 DEF PostFillFirst
  <2> QED
    BY <1>2, <2>1, <2>2 DEF PostFillFirst, TypeInv, TypeOK
<1>4. last[c] # NoSlot =>
        /\ head' = head
        /\ status' = [status EXCEPT ![s] = "Continued"]
        /\ dataCnt' = [dataCnt EXCEPT ![last[c]] = s]
        /\ last[c] \in Slots /\ last[c] # s
        /\ Msg(last[c]) = msg[c] /\ Rest(last[c]) = left[c] + 1
  <2> HAVE last[c] # NoSlot
  <2>1. PostFillNext(c)
    BY DEF PostFillFirst
  <2>2. dataCnt' = [dataCnt EXCEPT ![s] = NoSlot, ![last[c]] = s]
    BY <2>1 DEF PostFillNext
  <2>3. /\ last[c] \in Slots /\ Msg(last[c]) = msg[c] /\ Rest(last[c]) = left[c] + 1
        /\ Waits(c, msg[c])
    BY <1>2 DEF Local, Posting, Sound, Numbered, Waits, TypeInv, TypeOK, Pointer
  <2>4. last[c] # s
    BY <1>2, <2>3
  <2> QED
    BY <1>2, <2>1, <2>2, <2>3, <2>4 DEF PostFillNext, TypeInv, TypeOK
<1>5. /\ \A e \in Clients : Pos(e)' = Pos(e)
      /\ \A e \in Clients : \A t : Ahead(e, t)' = Ahead(e, t)
      /\ \A e \in Clients : Ahead(e, headSlot)' = Ahead(e, headSlot)
      /\ \A e \in Clients : \A t : Before(e, t)' <=> Before(e, t)
      /\ \A e \in Clients, m \in Nat : Waits(e, m)' <=> Waits(e, m)
      /\ \A e \in Clients : Standing(e)' <=> Standing(e)
      /\ \A m \in Nat : Unread(m)' <=> Unread(m)
  <2>1. \A e \in Clients : Pos(e)' = Pos(e)
    BY <1>1 DEF Pos
  <2>2. /\ \A e \in Clients : \A t : Ahead(e, t)' = Ahead(e, t)
        /\ \A e \in Clients : Ahead(e, headSlot)' = Ahead(e, headSlot)
        /\ \A e \in Clients : \A t : Before(e, t)' <=> Before(e, t)
    BY <1>1, <2>1 DEF Ahead, Before
  <2>3. \A e \in Clients, m \in Nat : Waits(e, m)' <=> Waits(e, m)
    BY <1>1 DEF Waits
  <2>4. \A e \in Clients : Standing(e)' <=> Standing(e)
    BY <1>1 DEF Standing, TypeInv, TypeOK
  <2>5. \A m \in Nat : Unread(m)' <=> Unread(m)
    BY <1>1, <2>4 DEF Unread
  <2> QED
    BY <2>1, <2>2, <2>3, <2>4, <2>5
<1>6. /\ Msg(s)' = msg[c] /\ Rest(s)' = left[c]
      /\ \A t \in Slots \ {s} : Msg(t)' = Msg(t) /\ Rest(t)' = Rest(t)
      /\ slotMask'[s] = cliMask
      /\ \A t \in Slots \ {s} : slotMask'[t] = slotMask[t] /\ status'[t] = status[t]
      /\ status'[s] = IF last[c] = NoSlot THEN "Writing" ELSE "Continued"
      /\ head'[c] = IF last[c] = NoSlot THEN s ELSE head[c]
      /\ last'[c] = s /\ left'[c] = left[c] - 1
      /\ pc'[c] = IF left[c] = 1 THEN "publish" ELSE "readHead"
      /\ \A d \in Clients \ {c} :
          /\ pc'[d] = pc[d] /\ head'[d] = head[d] /\ last'[d] = last[d]
          /\ left'[d] = left[d]
  BY <1>1, <1>2, <1>3, <1>4 DEF Msg, Rest, TypeInv, TypeOK
<1>7. \A t \in Slots, m \in Nat : Starts(t, m)' <=> Starts(t, m)
  <2>1. \A d \in Clients : msg[d] # 0 => First(d)' = First(d)
    BY <1>1, <1>2, <1>6 DEF First
  <2>2. \A t \in Slots : status'[t] = "Posted" <=> status[t] = "Posted"
    BY <1>2, <1>6
  <2>3. \A t \in Slots : status[t] = "Posted" => Msg(t)' = Msg(t)
    BY <1>2, <1>6
  <2> QED
    BY <1>1, <2>1, <2>2, <2>3 DEF Starts
<1>8. Group'
  BY <1>1, <1>5 DEF Group, GroupLabels, TypeInv, TypeOK
<1>9. \A e \in Clients : got[e] < msg[c] /\ Waits(e, msg[c])
  BY <1>2 DEF Sound, Numbered, Waits
<1>10. (HeadUsable /\ Numbered /\ PostedOnce /\ PartOnce /\ Addressed)'
  <2>1. HeadUsable'
    <3>1. headSlot # s /\ headSlot \in Slots
      BY <1>2, Standpoints DEF Before, Slots
    <3> QED
      BY <1>1, <1>6, <3>1 DEF Sound, HeadUsable
  <2>2. Numbered'
    BY <1>1, <1>6 DEF Sound, Numbered
  <2>3. PostedOnce'
    BY <1>1, <1>2, <1>6 DEF Sound, PostedOnce
  <2>4. PartOnce'
    <3>1. \A t \in Slots : Msg(t) = msg[c] => Rest(t) > left[c]
      BY <1>2 DEF Sound, PartOnce
    <3>2. ASSUME NEW t \in Slots, NEW u \in Slots, Msg(t)' = Msg(u)', Msg(t)' # 0, Rest(t)' = Rest(u)'
          PROVE  t = u
      <4>1. CASE t = s /\ u # s
        BY <1>1, <1>2, <1>6, <3>1, <3>2, <4>1, SlotNumbers
      <4>2. CASE t # s /\ u = s
        BY <1>1, <1>2, <1>6, <3>1, <3>2, <4>2, SlotNumbers
      <4>3. CASE t # s /\ u # s
        BY <1>6, <3>2, <4>3 DEF Sound, PartOnce
      <4> QED
        BY <4>1, <4>2, <4>3
    <3>3. ASSUME NEW t \in Slots, Msg(t)' # 0 PROVE Rest(t)' >= 1
      <4>1. CASE t = s
        BY <1>1, <1>2, <1>6, <4>1
      <4>2. CASE t # s
        BY <1>6, <3>3, <4>2 DEF Sound, PartOnce
      <4> QED
        BY <4>1, <4>2
    <3>4. ASSUME NEW t \in Slots, NEW d \in Clients, Msg(t)' = msg[d], msg[d] # 0
          PROVE  Rest(t)' > left'[d]
      <4>1. CASE d = c
        <5>1. left'[d] = left[c] - 1 /\ left[c] \in Nat
          BY <1>2, <1>6, <4>1
        <5>2. CASE t = s
          BY <1>1, <1>6, <5>1, <5>2
        <5>3. CASE t # s
          BY <1>6, <3>1, <3>4, <4>1, <5>1, <5>3, SlotNumbers
        <5> QED
          BY <5>2, <5>3
      <4>2. CASE d # c
        <5>1. left'[d] = left[d] /\ msg[d] # msg[c]
          BY <1>2, <1>6, <3>4, <4>2 DEF Sound, Numbered
        <5>2. t # s
          BY <1>1, <1>6, <3>4, <5>1
        <5> QED
          BY <1>6, <3>4, <5>1, <5>2 DEF Sound, PartOnce
      <4> QED
        BY <4>1, <4>2
    <3> QED
      BY <1>1, <3>2, <3>3, <3>4 DEF PartOnce
  <2>5. Addressed'
    BY <1>1, <1>2, <1>6 DEF Sound, Addressed
  <2> QED
    BY <2>1, <2>2, <2>3, <2>4, <2>5
<1>11. (Region /\ InTurn /\ Complete)'
  BY <1>1, <1>5, <1>7 DEF Sound, Region, InTurn, Complete
<1>12. (PartsAhead /\ PartsAfter /\ PartsKept)'
  <2>1. PartsAhead'
    <3> SUFFICES ASSUME NEW e \in Clients, NEW t \in Slots, Msg(t)' # 0, Msg(t)' \notin aborted,
                        Waits(e, Msg(t))'
                 PROVE  Before(e, t)
      BY <1>1, <1>5 DEF PartsAhead
    <3> QED
      BY <1>2, <1>5, <1>6, SlotNumbers DEF Sound, PartsAhead
  <2>2. PartsAfter'
    <3> SUFFICES ASSUME NEW e \in Clients, NEW u \in Slots, NEW t \in Slots, Msg(t)' # 0,
                        Starts(u, Msg(t))', got[e] < Msg(t)', t # u
                 PROVE  Ahead(e, u) < Ahead(e, t)
      BY <1>1, <1>5 DEF PartsAfter
    <3>1. CASE t # s
      BY <1>6, <1>7, <3>1, SlotNumbers DEF Sound, PartsAfter
    <3>2. CASE t = s
      <4>1. msg[c] \in Nat /\ Starts(u, msg[c])
        <5>1. msg[c] \in Nat
          BY DEF TypeInv, TypeOK
        <5>2. Msg(t)' = msg[c]
          BY <1>1, <1>6, <3>2
        <5>3. Starts(u, msg[c])'
          BY <1>1, <5>2 DEF Starts
        <5> QED
          BY <1>1, <1>7, <5>1, <5>3
      <4>2. Starts(First(c), msg[c]) /\ First(c) \in Slots
        BY <1>2 DEF Starts, First, TypeInv, TypeOK, Pointer
      <4>3. u = First(c)
        BY <4>1, <4>2, StartsOnce
      <4> QED
        BY <1>2, <3>2, <4>3 DEF First, Local, Holding
    <3> QED
      BY <3>1, <3>2
  <2>3. PartsKept'
    BY <1>1, <1>2, <1>5, <1>6, SlotNumbers DEF Sound, PartsKept
  <2> QED
    BY <2>1, <2>2, <2>3
<1>13. Links'
  <2> SUFFICES ASSUME NEW t \in Slots, dataCnt'[t] # NoSlot
               PROVE  /\ status'[t] # "Free"
                      /\ status'[dataCnt'[t]] \in {"Continued", "Aborted"}
                      /\ Msg(t)' # 0
                      /\ Msg(dataCnt[t])' = Msg(t)' /\ Rest(dataCnt[t])' = Rest(t)' - 1
    BY DEF Links
  <2>1. CASE last[c] # NoSlot /\ t = last[c]
    <3>1. Unread(msg[c])
      BY <1>9 DEF Unread
    <3>2. status[t] # "Free"
      BY <1>2, <1>4, <2>1, <3>1 DEF Sound, PartsKept
    <3>3. dataCnt'[t] = s
      BY <1>4, <2>1 DEF TypeInv, TypeOK
    <3>4. t \in Slots \ {s} /\ status'[t] = status[t]
      BY <1>4, <1>6, <2>1
    <3>5. Msg(t)' = msg[c] /\ Rest(t)' = left[c] + 1
      BY <1>4, <1>6, <2>1, <3>4
    <3>6. Msg(dataCnt[t])' = msg[c] /\ Rest(dataCnt[t])' = left[c]
      BY <1>1, <1>6, <3>3
    <3> QED
      BY <1>2, <1>6, <2>1, <3>2, <3>3, <3>4, <3>5, <3>6
  <2>2. CASE dataCnt'[t] = dataCnt[t]
    <3> DEFINE u == dataCnt[t]
    <3>1. /\ status[t] # "Free" /\ status[u] \in {"Continued", "Aborted"} /\ Msg(t) # 0
          /\ Msg(u) = Msg(t) /\ Rest(u) = Rest(t) - 1
          /\ u \in Slots
      BY <2>2 DEF Sound, Links, TypeInv, TypeOK, Pointer
    <3>2. t # s /\ u # s
      BY <1>2, <2>2, <3>1
    <3> QED
      BY <1>6, <2>2, <3>1, <3>2
  <2> QED
    BY <1>3, <1>4, <2>1, <2>2 DEF TypeInv, TypeOK
<1>14. Linked'
  <2> SUFFICES ASSUME NEW t \in Slots, Msg(t)' # 0, Rest(t)' > 1, Unread(Msg(t))', Msg(t)' \notin aborted,
                      \A d \in Clients : msg[d] = Msg(t)' => pc'[d] \notin {"aborting", "crashed"}
               PROVE  dataCnt'[t] # NoSlot \/ \E d \in Clients : msg[d] = Msg(t)' /\ last'[d] = t
    BY <1>1 DEF Linked
  <2>1. CASE t = s
    BY <1>1, <1>2, <1>6, <2>1
  <2>2. CASE t # s
    <3>1. Msg(t)' = Msg(t) /\ Rest(t)' = Rest(t) /\ Msg(t) \in Nat
      BY <1>6, <2>2, SlotNumbers
    <3>2. \A d \in Clients : msg[d] = Msg(t) => pc[d] \notin {"aborting", "crashed"}
      BY <1>1, <1>6, <3>1
    <3>3. dataCnt[t] # NoSlot \/ \E d \in Clients : msg[d] = Msg(t) /\ last[d] = t
      BY <1>5, <3>1, <3>2 DEF Sound, Linked
    <3>4. CASE dataCnt[t] # NoSlot
      BY <1>2, <1>3, <1>4, <3>4, NoSlotApart DEF TypeInv, TypeOK
    <3>5. CASE last[c] = t
      BY <1>2, <1>4, <3>5, NoSlotApart DEF TypeInv, TypeOK
    <3>6. ASSUME NEW d \in Clients \ {c}, msg[d] = Msg(t), last[d] = t
          PROVE  \E e \in Clients : msg[e] = Msg(t)' /\ last'[e] = t
      BY <1>6, <3>1, <3>6
    <3> QED
      BY <3>3, <3>4, <3>5, <3>6
  <2> QED
    BY <2>1, <2>2
<1>15. ASSUME NEW d \in Clients PROVE Local(d)'
  <2>1. Local(d) /\ Locals(d)
    BY DEF Sound, TypeInv, LocalsOK
  <2>2. Moving(d)'
    <3>1. pc'[d] = "moveHead" => d # c /\ pc[d] = "moveHead"
      BY <1>6
    <3>2. Succ(headSlot) \in Slots /\ headSlot \in Slots
      BY Standpoints
    <3>3. headSlot # s
      BY <1>2, <3>2, Standpoints DEF Before, Slots
    <3> QED
      BY <1>1, <1>2, <1>5, <1>6, <2>1, <3>1, <3>2, <3>3 DEF Local, Moving
  <2>3. Trying(d)'
    <3>1. pc'[d] = "cas" => d # c /\ pc[d] = "cas" /\ cur[d] \in Slots
      BY <1>6, <2>1 DEF Locals
    <3>2. status'[s] # "Free" /\ got[d] < Msg(s)'
      BY <1>6, <1>9
    <3> QED
      BY <1>1, <1>5, <1>6, <2>1, <3>1, <3>2, SlotNumbers DEF Local, Trying
  <2>4. Holding(d)'
    <3>1. Owns(d)' => d # c /\ Owns(d)
      BY <1>1, <1>2, <1>6, NoSlotApart DEF Owns, Taking
    <3>2. \A e \in Clients : Owns(e)' => Owns(e)
      BY <1>1, <1>2, <1>6, NoSlotApart DEF Owns, Taking
    <3> SUFFICES ASSUME Owns(d)' PROVE Holding(d)'
      BY DEF Holding
    <3>3. /\ d # c /\ cur[d] \in Slots \ {s} /\ status[cur[d]] = "Writing"
          /\ dataCnt[cur[d]] = NoSlot
          /\ \A e \in Clients : ~Waits(e, Msg(cur[d])) /\ head[e] # cur[d]
          /\ \A e \in Clients \ {d} : Owns(e) => cur[e] # cur[d]
          /\ head[d] # NoSlot => \A e \in Clients : Ahead(e, head[d]) < Ahead(e, cur[d])
          /\ pc[d] = "fill" => \A e \in Clients : Before(e, cur[d])
      BY <1>2, <2>1, <3>1 DEF Local, Holding
    <3>4. last[c] # NoSlot => last[c] # cur[d]
      BY <1>4, <1>9, <3>3
    <3>5. dataCnt'[cur[d]] = NoSlot
      BY <1>3, <1>4, <3>3, <3>4 DEF TypeInv, TypeOK
    <3>6. \A e \in Clients : head'[e] # cur[d]
      BY <1>6, <3>3
    <3> QED
      BY <1>1, <1>5, <1>6, <3>2, <3>3, <3>5, <3>6, SlotNumbers DEF Holding
  <2>5. Posting(d)'
    <3>1. CASE d = c
      <4>1. head'[c] # NoSlot /\ s # NoSlot
        BY <1>2, <1>6, NoSlotApart
      <4>2. /\ head'[c] \in Slots /\ status'[head'[c]] = "Writing"
            /\ Msg(head[c])' = msg[c] /\ slotMask'[head'[c]] = cliMask
        <5>1. CASE last[c] = NoSlot
          BY <1>1, <1>2, <1>6, <5>1
        <5>2. CASE last[c] # NoSlot
          <6>1. /\ head[c] \in Slots \ {s} /\ status[head[c]] = "Writing"
                /\ Msg(head[c]) = msg[c] /\ slotMask[head[c]] = cliMask
            BY <1>2, <5>2 DEF Local, Posting, TypeInv, TypeOK, Pointer
          <6>2. head'[c] = head[c]
            BY <1>6, <5>2
          <6> QED
            BY <1>1, <1>6, <6>1, <6>2
        <5> QED
          BY <5>1, <5>2
      <4>3. Rest(s)' = left'[c] + 1
        BY <1>2, <1>6
      <4>4. left[c] = 1 => left'[c] = 0
        BY <1>6
      <4> QED
        BY <1>1, <1>2, <1>6, <3>1, <4>1, <4>2, <4>3, <4>4 DEF Posting, Taking
    <3>2. CASE d # c
      <4>1. head[d] # NoSlot => /\ head[d] \in Slots \ {s} /\ last[d] \in Slots
                                /\ Waits(c, msg[d])
        BY <1>2, <2>1 DEF Local, Posting, Sound, Numbered, Waits, TypeInv, TypeOK, Pointer
      <4>2. head[d] # NoSlot => last[d] # s
        BY <1>2, <2>1, <4>1 DEF Local, Posting
      <4> QED
        BY <1>1, <1>6, <2>1, <3>2, <4>1, <4>2 DEF Local, Posting, Taking
    <3> QED
      BY <3>1, <3>2
  <2>6. Polling(d)'
    <3>1. got[d] \in Nat /\ Pos(d) \in Slots
      BY Standpoints DEF TypeInv, TypeOK
    <3>2. polled[d] # NoSlot => Pos(d) # s
      BY <1>2, <2>1 DEF Local, Polling
    <3>3. ASSUME polled[d] # NoSlot, NEW t \in Slots, status'[t] = "Posted", Msg(t)' = got[d]
          PROVE  t = Pos(d)
      BY <1>2, <1>6, <2>1, <3>3 DEF Local, Polling
    <3>4. pc'[d] \in InPoll \cup {"clear", "recycle", "free"} => pc'[d] = pc[d]
      BY <1>6 DEF InPoll
    <3>5. polled[d] # NoSlot => status'[Pos(d)] = status[Pos(d)] /\ Msg(Pos(d))' = Msg(Pos(d))
                                /\ slotMask'[Pos(d)] = slotMask[Pos(d)]
      BY <1>5, <1>6, <3>1, <3>2
    <3>6. Standing(d) => polled[d] # NoSlot
      BY DEF Standing
    <3> QED
      BY <1>1, <1>5, <2>1, <3>1, <3>3, <3>4, <3>5, <3>6 DEF Local, Polling, InPoll
  <2>7. Unchaining(d)'
    <3>1. got[d] \in Nat
      BY DEF TypeInv, TypeOK
    <3>2. pc'[d] \in {"free", "aborting"} => d # c /\ pc[d] = pc'[d] /\ head'[d] = head[d]
      BY <1>6
    <3>3. ASSUME pc[d] \in {"free", "aborting"}, NEW k \in 1 .. Len(stack[d])
          PROVE  stack[d][k] \in Slots /\ stack[d][k] # s
      <4>1. stack[d] \in Seq(Slots) /\ stack[d] # <<>>
        BY <2>1, <3>3 DEF Locals, TypeInv, TypeOK
      <4>2. stack[d][k] \in Slots /\ Msg(stack[d][k]) = Msg(stack[d][1])
        BY <2>1, <3>3, <4>1 DEF Local, Unchaining, Chain
      <4>3. CASE pc[d] = "free"
        <5>1. Msg(stack[d][k]) = got[d] /\ polled[d] # NoSlot
          BY <2>1, <4>2, <4>3 DEF Local, Unchaining, Polling, InPoll
        <5> QED
          BY <1>2, <4>2, <5>1 DEF Waits
      <4>4. CASE pc[d] = "aborting"
        <5>1. Msg(stack[d][k]) = msg[d] /\ Waits(c, msg[d])
          BY <2>1, <4>2, <4>4 DEF Local, Unchaining, Posting, Sound, Numbered, Waits
        <5> QED
          BY <1>2, <4>2, <5>1
      <4> QED
        BY <3>3, <4>3, <4>4
    <3>4. ASSUME pc[d] \in {"free", "aborting"}, Chain(d) PROVE Chain(d)'
      <4>1. Len(stack[d]) \in Nat \ {0}
        BY <2>1, <3>4, PopStack DEF Locals, TypeInv, TypeOK
      <4> QED
        BY <1>1, <1>6, <3>3, <3>4, <4>1 DEF Chain
    <3> QED
      BY <1>1, <1>5, <2>1, <3>1, <3>2, <3>4 DEF Local, Unchaining
  <2>8. Loading(d)'
    <3>1. pc'[d] \notin {"load", "crashed"} => pc[d] \notin {"load", "crashed"}
      BY <1>1, <1>6
    <3>2. pc'[d] = "load" => pc[d] = "load"
      BY <1>6
    <3>3. ASSUME pc[d] = "load" PROVE cur[d] \in Slots /\ cur[d] # s
      BY <1>2, <2>1, <3>3 DEF Local, Loading, Locals, Waits
    <3> QED
      BY <1>1, <1>6, <2>1, <3>1, <3>2, <3>3 DEF Local, Loading
  <2> QED
    BY <2>2, <2>3, <2>4, <2>5, <2>6, <2>7, <2>8 DEF Local
<1> QED
  BY <1>8, <1>10, <1>11, <1>12, <1>13, <1>14, <1>15 DEF Sound

---------------------------------------------------------------------------
(* A message is published, or its first slot given up *)

LEMMA EndStep ==
    ASSUME TypeInv, Group, Sound, NEW c \in Clients, PostPublish(c) \/ AbortFirst(c)
    PROVE  Group' /\ Sound'
<1> USE DEF At, Goto
<1>1. PICK a \in Slots, m \in Nat, x \in {"Posted", "Aborted"} :
        /\ head[c] = a /\ msg[c] = m
        /\ pc[c] \in {"publish", "aborting"}
        /\ x = "Posted" => pc[c] = "publish" /\ left[c] = 0
        /\ UNCHANGED <<headSlot, cliMask, clientSlot, slotMask, dataCnt, data, id, ith,
                       polled, buffer, leaving, nmsg, got>>
        /\ status' = [status EXCEPT ![a] = x]
        /\ aborted' = IF x = "Posted" THEN aborted ELSE aborted \cup {m}
        /\ PostDone(c)
        /\ \A d \in Clients \ {c} : stack'[d] = stack[d]
  <2>1. CASE PostPublish(c)
    <3>1. head[c] \in Slots /\ left[c] = 0 /\ msg[c] \in Nat
      BY <2>1 DEF PostPublish, TypeInv, TypeOK, LocalsOK, Locals, Sound, Local, Posting
    <3> QED
      BY <2>1, <3>1 DEF PostPublish, shared, clients
  <2>2. CASE AbortFirst(c)
    <3>1. Top(c) = head[c] /\ head[c] \in Slots /\ msg[c] \in Nat
      BY <2>2 DEF AbortFirst, Top, Sound, Local, Unchaining, TypeInv, TypeOK, Pointer
    <3> QED
      BY <2>2, <3>1 DEF AbortFirst, MarkTop, shared, clients, TypeInv, TypeOK
  <2> QED
    BY <2>1, <2>2
<1>2. /\ Local(c) /\ m # 0 /\ m \in 1 .. nmsg /\ m \notin aborted
      /\ status[a] = "Writing" /\ Msg(a) = m /\ slotMask[a] = cliMask
      /\ Msg(last[c]) = m /\ Rest(last[c]) = left[c] + 1
      /\ \A e \in Clients : got[e] < m /\ Waits(e, m) /\ Before(e, a)
      /\ Unread(m)
  <2>1. /\ Local(c) /\ m # 0 /\ m \in 1 .. nmsg /\ m \notin aborted
        /\ status[a] = "Writing" /\ Msg(a) = m /\ slotMask[a] = cliMask
        /\ Msg(last[c]) = m /\ Rest(last[c]) = left[c] + 1
    BY <1>1, NoSlotApart DEF Sound, Local, Posting, Numbered, TypeInv, TypeOK
  <2>2. \A e \in Clients : got[e] < m
    BY <1>1, <2>1 DEF Sound, Numbered
  <2>3. \A e \in Clients : Waits(e, m)
    BY <2>2 DEF Waits
  <2>4. \A e \in Clients : Before(e, a)
    BY <2>1, <2>3 DEF Sound, PartsAhead
  <2>5. Unread(m)
    BY <2>2 DEF Unread
  <2> QED
    BY <2>1, <2>2, <2>3, <2>4, <2>5
<1>3. /\ \A e \in Clients : Pos(e)' = Pos(e)
      /\ \A e \in Clients : \A s : Ahead(e, s)' = Ahead(e, s)
      /\ \A e \in Clients : Ahead(e, headSlot)' = Ahead(e, headSlot)
      /\ \A e \in Clients : \A s : Before(e, s)' <=> Before(e, s)
      /\ \A s : Msg(s)' = Msg(s) /\ Rest(s)' = Rest(s)
      /\ \A e \in Clients, n \in Nat : Waits(e, n)' <=> Waits(e, n)
      /\ \A e \in Clients : Standing(e)' <=> Standing(e)
      /\ \A n \in Nat : Unread(n)' <=> Unread(n)
  <2>1. \A e \in Clients : Pos(e)' = Pos(e)
    BY <1>1 DEF Pos
  <2>2. /\ \A e \in Clients : \A s : Ahead(e, s)' = Ahead(e, s)
        /\ \A e \in Clients : Ahead(e, headSlot)' = Ahead(e, headSlot)
        /\ \A e \in Clients : \A s : Before(e, s)' <=> Before(e, s)
    BY <1>1, <2>1 DEF Ahead, Before
  <2>3. /\ \A s : Msg(s)' = Msg(s) /\ Rest(s)' = Rest(s)
        /\ \A e \in Clients, n \in Nat : Waits(e, n)' <=> Waits(e, n)
    BY <1>1 DEF Msg, Rest, Waits
  <2>4. \A e \in Clients : Standing(e)' <=> Standing(e)
    BY <1>1 DEF Standing, TypeInv, TypeOK, PostDone
  <2>5. \A n \in Nat : Unread(n)' <=> Unread(n)
    BY <1>1, <2>4 DEF Unread
  <2> QED
    BY <2>1, <2>2, <2>3, <2>4, <2>5
<1>4. /\ status'[a] = x /\ \A s \in Slots \ {a} : status'[s] = status[s]
      /\ pc'[c] = "idle" /\ msg'[c] = 0 /\ head'[c] = NoSlot /\ last'[c] = NoSlot
      /\ \A d \in Clients \ {c} :
          /\ pc'[d] = pc[d] /\ msg'[d] = msg[d] /\ head'[d] = head[d] /\ last'[d] = last[d]
          /\ left'[d] = left[d] /\ cur'[d] = cur[d]
  BY <1>1 DEF PostDone, TypeInv, TypeOK
<1>5. \A s \in Slots, n \in Nat : Starts(s, n)' <=> Starts(s, n) /\ (x = "Posted" \/ n # m)
  <2> SUFFICES ASSUME NEW s \in Slots, NEW n \in Nat
               PROVE  Starts(s, n)' <=> Starts(s, n) /\ (x = "Posted" \/ n # m)
    OBVIOUS
  <2>1. First(c) = a
    BY <1>1, NoSlotApart DEF First
  <2>2. \A d \in Clients \ {c} : First(d)' = First(d) /\ msg'[d] = msg[d]
    BY <1>4 DEF First
  <2>3. (\E d \in Clients : msg[d] = n /\ n # 0 /\ First(d) = s)'
          <=> \E d \in Clients \ {c} : msg[d] = n /\ n # 0 /\ First(d) = s
    BY <1>4, <2>2
  <2>4. CASE n = m
    <3>1. ~ \E d \in Clients \ {c} : msg[d] = n
      BY <1>1, <1>2, <2>4 DEF Sound, Numbered
    <3>2. ~(status[s] = "Posted" /\ Msg(s) = m)
      BY <1>1 DEF Sound, PostedOnce
    <3>3. Starts(s, n) <=> s = a
      BY <1>1, <1>2, <2>1, <2>4, <3>1, <3>2 DEF Starts
    <3>4. (status[s] = "Posted" /\ Msg(s) = n)' <=> s = a /\ x = "Posted"
      BY <1>2, <1>3, <1>4, <2>4, <3>2
    <3> QED
      BY <2>3, <2>4, <3>1, <3>3, <3>4 DEF Starts
  <2>5. CASE n # m
    <3>1. (status[s] = "Posted" /\ Msg(s) = n)' <=> status[s] = "Posted" /\ Msg(s) = n
      BY <1>2, <1>3, <1>4, <2>5
    <3> QED
      BY <1>1, <2>3, <2>5, <3>1 DEF Starts
  <2> QED
    BY <2>4, <2>5
<1>6. Group'
  BY <1>1, <1>3 DEF Group, GroupLabels, PostDone, TypeInv, TypeOK
<1>7. (HeadUsable /\ Numbered /\ PostedOnce /\ PartOnce /\ Addressed)'
  <2>1. HeadUsable'
    <3>1. headSlot # a /\ headSlot \in Slots
      BY <1>2, Standpoints DEF Before, Slots
    <3> QED
      BY <1>1, <1>4, <3>1 DEF Sound, HeadUsable
  <2>2. nmsg \in Nat /\ \A e \in Clients : msg[e] \in Nat /\ got[e] \in Nat
    BY DEF TypeInv, TypeOK
  <2>3. Numbered'
    <3>1. \A e \in Clients : got[e] # m /\ (msg'[e] = 0 \/ (e # c /\ msg'[e] = msg[e] /\ msg[e] # m))
      BY <1>1, <1>2, <1>4, <2>2 DEF Sound, Numbered
    <3>2. 0 \notin aborted'
      BY <1>1, <1>2 DEF Sound, Numbered
    <3>3. \A e \in Clients : got[e] \notin aborted' /\ msg'[e] \notin aborted'
      BY <1>1, <3>1, <3>2 DEF Sound, Numbered
    <3> QED
      BY <1>1, <1>2, <1>3, <1>4, <2>2, <3>1, <3>3 DEF Sound, Numbered
  <2>4. PostedOnce'
    <3>1. ASSUME NEW s \in Slots, status'[s] = "Posted"
          PROVE  /\ Msg(s) >= 1 /\ Msg(s) \notin aborted'
                 /\ \A d \in Clients : Msg(s) # msg'[d]
                 /\ s = a \/ (status[s] = "Posted" /\ Msg(s) # m)
      <4>1. CASE s = a
        BY <1>1, <1>2, <1>4, <3>1, <4>1 DEF Sound, Numbered
      <4>2. CASE s # a
        BY <1>1, <1>4, <3>1, <4>2 DEF Sound, PostedOnce
      <4> QED
        BY <4>1, <4>2
    <3> QED
      BY <1>1, <1>2, <1>3, <3>1 DEF Sound, PostedOnce
  <2>5. PartOnce'
    BY <1>1, <1>3, <1>4 DEF Sound, PartOnce
  <2>6. Addressed'
    BY <1>1, <1>2, <1>3, <1>4 DEF Sound, Addressed, Group
  <2> QED
    BY <2>1, <2>3, <2>4, <2>5, <2>6
<1>8. (Region /\ InTurn /\ Complete)'
  BY <1>1, <1>2, <1>3, <1>5 DEF Sound, Region, InTurn, Complete
<1>9. (PartsAhead /\ PartsAfter /\ PartsKept)'
  BY <1>1, <1>2, <1>3, <1>4, <1>5, SlotNumbers DEF Sound, PartsAhead, PartsAfter, PartsKept
<1>10. (Links /\ Linked)'
  <2>1. Links'
    <3> SUFFICES ASSUME NEW t \in Slots, dataCnt[t] # NoSlot
                 PROVE  /\ status'[t] # "Free"
                        /\ status'[dataCnt[t]] \in {"Continued", "Aborted"}
      BY <1>1, <1>3 DEF Sound, Links
    <3>1. /\ status[t] # "Free" /\ status[dataCnt[t]] \in {"Continued", "Aborted"}
          /\ dataCnt[t] \in Slots
      BY DEF Sound, Links, TypeInv, TypeOK, Pointer
    <3> QED
      BY <1>2, <1>4, <3>1
  <2>2. Linked'
    <3> SUFFICES ASSUME NEW t \in Slots, Msg(t) # 0, Rest(t) > 1, Unread(Msg(t)), Msg(t) \notin aborted',
                        \A d \in Clients : msg'[d] = Msg(t) => pc'[d] \notin {"aborting", "crashed"}
                 PROVE  dataCnt[t] # NoSlot \/ \E d \in Clients : msg'[d] = Msg(t) /\ last'[d] = t
      BY <1>1, <1>3, SlotNumbers DEF Linked
    <3>1. Msg(t) \notin aborted /\ (x = "Posted" \/ Msg(t) # m)
      BY <1>1
    <3>2. \A d \in Clients : msg[d] = Msg(t) => pc[d] \notin {"aborting", "crashed"}
      BY <1>1, <1>4, <3>1
    <3>3. dataCnt[t] # NoSlot \/ \E d \in Clients : msg[d] = Msg(t) /\ last[d] = t
      BY <3>1, <3>2 DEF Sound, Linked
    <3>4. ~(msg[c] = Msg(t) /\ last[c] = t)
      BY <1>1, <1>2, <3>1
    <3> QED
      BY <1>4, <3>3, <3>4
  <2> QED
    BY <2>1, <2>2
<1>11. ASSUME NEW d \in Clients PROVE Local(d)'
  <2>1. Local(d) /\ Locals(d)
    BY DEF Sound, TypeInv, LocalsOK
  <2>2. Moving(d)'
    <3>1. pc'[d] = "moveHead" => d # c /\ pc[d] = "moveHead"
      BY <1>4
    <3>2. Succ(headSlot) \in Slots /\ headSlot \in Slots
      BY Standpoints
    <3>3. headSlot # a
      BY <1>2, <3>2, Standpoints DEF Before, Slots
    <3> QED
      BY <1>1, <1>2, <1>3, <1>4, <2>1, <3>1, <3>2, <3>3 DEF Local, Moving
  <2>3. Trying(d)'
    <3>1. pc'[d] = "cas" => d # c /\ pc[d] = "cas" /\ cur[d] \in Slots
      BY <1>4, <2>1 DEF Locals
    <3>2. status'[a] # "Free"
      BY <1>4
    <3> QED
      BY <1>1, <1>3, <1>4, <2>1, <3>1, <3>2, SlotNumbers DEF Local, Trying
  <2>4. Holding(d)'
    <3>1. ~Owns(c)'
      BY <1>4 DEF Owns
    <3>2. \A e \in Clients \ {c} : Owns(e)' <=> Owns(e)
      BY <1>4 DEF Owns, Taking
    <3>3. d # c /\ Owns(d) => cur[d] # a
      BY <1>1, <2>1 DEF Local, Holding
    <3> QED
      BY <1>1, <1>3, <1>4, <2>1, <3>1, <3>2, <3>3, SlotNumbers, NoSlotApart DEF Local, Holding
  <2>5. Posting(d)'
    <3>1. CASE d = c
      BY <1>4, <3>1 DEF Posting, Taking
    <3>2. CASE d # c
      <4>1. head[d] # NoSlot => head[d] \in Slots \ {a}
        BY <1>1, <1>2, <2>1, <3>2 DEF Local, Posting, Sound, Numbered, TypeInv, TypeOK, Pointer
      <4> QED
        BY <1>1, <1>3, <1>4, <2>1, <3>2, <4>1 DEF Local, Posting, Taking
    <3> QED
      BY <3>1, <3>2
  <2>6. Polling(d)'
    <3>1. got[d] \in Nat /\ Pos(d) \in Slots
      BY Standpoints DEF TypeInv, TypeOK
    <3>2. polled[d] # NoSlot => Pos(d) # a
      BY <1>2, <2>1 DEF Local, Polling
    <3>3. ASSUME polled[d] # NoSlot, NEW t \in Slots, status'[t] = "Posted", Msg(t) = got[d]
          PROVE  t = Pos(d)
      BY <1>2, <1>4, <2>1, <3>1, <3>3 DEF Local, Polling
    <3>4. pc'[d] \in InPoll \cup {"clear", "recycle", "free"} => pc'[d] = pc[d] /\ cur'[d] = cur[d]
      BY <1>4 DEF InPoll
    <3>5. polled[d] # NoSlot => status'[Pos(d)] = status[Pos(d)]
      BY <1>4, <3>1, <3>2
    <3>6. Standing(d) => polled[d] # NoSlot
      BY DEF Standing
    <3> QED
      BY <1>1, <1>3, <2>1, <3>1, <3>3, <3>4, <3>5, <3>6 DEF Local, Polling, InPoll
  <2>7. Unchaining(d)'
    <3>1. got[d] \in Nat
      BY DEF TypeInv, TypeOK
    <3>2. pc'[d] \in {"free", "aborting"} => d # c /\ pc[d] = pc'[d]
      BY <1>4
    <3> QED
      BY <1>1, <1>3, <1>4, <2>1, <3>1, <3>2 DEF Local, Unchaining, Chain
  <2>8. Loading(d)'
    BY <1>1, <1>3, <1>4, <2>1 DEF Local, Loading
  <2> QED
    BY <2>2, <2>3, <2>4, <2>5, <2>6, <2>7, <2>8 DEF Local
<1> QED
  BY <1>6, <1>7, <1>8, <1>9, <1>10, <1>11 DEF Sound

---------------------------------------------------------------------------
(* A further part is given back or given up, and cut off its chain *)

LEMMA CutStep ==
    ASSUME TypeInv, Group, Sound, NEW c \in Clients, AbortPart(c) \/ PollFreePart(c)
    PROVE  Group' /\ Sound'
<1> USE DEF At, Goto
<1>1. PICK t \in Slots, u \in Slots, x \in {"Free", "Aborted"} :
        /\ t = stack[c][Len(stack[c])] /\ u = stack[c][Len(stack[c]) - 1]
        /\ Len(stack[c]) \in Nat /\ Len(stack[c]) > 1
        /\ pc[c] = IF x = "Free" THEN "free" ELSE "aborting"
        /\ UNCHANGED <<headSlot, cliMask, clientSlot, slotMask, data, id, ith, polled,
                       buffer, pc, cur, leaving, head, last, left, nmsg, msg, got, aborted>>
        /\ dataCnt[t] = NoSlot
        /\ status' = [status EXCEPT ![t] = x]
        /\ dataCnt' = [dataCnt EXCEPT ![u] = NoSlot]
        /\ stack' = [stack EXCEPT ![c] = SubSeq(stack[c], 1, Len(stack[c]) - 1)]
  <2>1. pc[c] \in {"free", "aborting"} /\ Len(stack[c]) > 1
    BY DEF AbortPart, PollFreePart
  <2>2. stack[c] \in Seq(Slots) /\ stack[c] # <<>>
    BY <2>1 DEF TypeInv, TypeOK, LocalsOK, Locals
  <2>3. /\ stack[c][Len(stack[c])] \in Slots /\ stack[c][Len(stack[c]) - 1] \in Slots
        /\ Len(stack[c]) \in Nat
    BY <2>1, <2>2, PopStack
  <2>4. CASE AbortPart(c)
    <3>1. /\ pc[c] = "aborting"
          /\ UNCHANGED <<headSlot, cliMask, clientSlot, slotMask, data, id, ith, polled,
                         buffer, pc, cur, leaving, head, last, left, nmsg, msg, got, aborted>>
          /\ dataCnt[stack[c][Len(stack[c])]] = NoSlot
          /\ status' = [status EXCEPT ![stack[c][Len(stack[c])]] = "Aborted"]
          /\ dataCnt' = [dataCnt EXCEPT ![stack[c][Len(stack[c]) - 1]] = NoSlot]
          /\ stack' = [stack EXCEPT ![c] = SubSeq(stack[c], 1, Len(stack[c]) - 1)]
      BY <2>1, <2>3, <2>4 DEF AbortPart, MarkTop, Top, shared, clients, posting, history
    <3> QED
      BY <2>1, <2>3, <3>1
  <2>5. CASE PollFreePart(c)
    <3>1. /\ pc[c] = "free"
          /\ UNCHANGED <<headSlot, cliMask, clientSlot, slotMask, data, id, ith, polled,
                         buffer, pc, cur, leaving, head, last, left, nmsg, msg, got, aborted>>
          /\ dataCnt[stack[c][Len(stack[c])]] = NoSlot
          /\ status' = [status EXCEPT ![stack[c][Len(stack[c])]] = "Free"]
          /\ dataCnt' = [dataCnt EXCEPT ![stack[c][Len(stack[c]) - 1]] = NoSlot]
          /\ stack' = [stack EXCEPT ![c] = SubSeq(stack[c], 1, Len(stack[c]) - 1)]
      BY <2>1, <2>3, <2>5 DEF PollFreePart, MarkTop, Top, shared, clients, posting, history
    <3> QED
      BY <2>1, <2>3, <3>1
  <2> QED
    BY <2>4, <2>5
<1> DEFINE m == Msg(t)
           base == stack[c][1]
<1>2. /\ Chain(c) /\ base \in Slots /\ m \in Nat
      /\ Msg(u) = m /\ Rest(t) = Rest(u) - 1 /\ t # base
      /\ m = Msg(base)
      /\ Rest(t) \in Nat /\ Rest(u) \in Nat
  <2>1. Chain(c)
    BY <1>1 DEF Sound, Local, Unchaining
  <2>2. stack[c] \in Seq(Slots) /\ 1 \in 1 .. Len(stack[c])
    BY <1>1 DEF TypeInv, TypeOK
  <2>3. base \in Slots /\ Rest(base) \in Nat
    BY <2>2, SlotNumbers
  <2>4. /\ Msg(t) = Msg(base) /\ Rest(t) = Rest(base) + 1 - Len(stack[c])
        /\ Msg(u) = Msg(base) /\ Rest(u) = Rest(base) + 1 - (Len(stack[c]) - 1)
    BY <1>1, <2>1 DEF Chain
  <2> QED
    BY <1>1, <2>1, <2>3, <2>4, SlotNumbers
<1>3. /\ m # 0 /\ m \notin aborted /\ Waits(c, m)
      /\ status[t] # "Posted"
      /\ \A d \in Clients : head[d] # t /\ (Owns(d) => cur[d] # t)
      /\ x = "Free" => ~Unread(m) /\ m = got[c] /\ base = cur[c]
      /\ x = "Aborted" => /\ m = msg[c] /\ base = head[c] /\ status[t] # "Free"
                          /\ \A e \in Clients : Before(e, t) /\ got[e] < m
  <2>1. CASE x = "Free"
    <3>1. /\ base = cur[c] /\ ~Unread(got[c]) /\ polled[c] # NoSlot /\ cur[c] = Pos(c)
          /\ got[c] > 0 /\ Msg(Pos(c)) = got[c]
          /\ \A s \in Slots : status[s] = "Posted" /\ Msg(s) = got[c] => s = Pos(c)
      BY <1>1, <2>1 DEF Sound, Local, Unchaining, Polling, InPoll
    <3>2. m = got[c] /\ m # 0 /\ m \notin aborted /\ Waits(c, m) /\ status[t] # "Posted"
      BY <1>2, <3>1 DEF Sound, Numbered, Waits, TypeInv, TypeOK
    <3>3. ASSUME NEW d \in Clients, head[d] = t PROVE FALSE
      <4>1. msg[d] = m /\ msg[d] # 0
        BY <1>1, <3>3, NoSlotApart DEF Sound, Local, Posting, m
      <4>2. got[c] < msg[d] /\ got[c] \in Nat
        BY <4>1 DEF Sound, Numbered, TypeInv, TypeOK
      <4> QED
        BY <3>2, <4>1, <4>2
    <3>4. \A d \in Clients : Owns(d) => cur[d] # t
      BY <3>2 DEF Sound, Local, Holding
    <3> QED
      BY <2>1, <3>1, <3>2, <3>3, <3>4
  <2>2. CASE x = "Aborted"
    <3>1. base = head[c] /\ head[c] # NoSlot /\ msg[c] # 0 /\ Msg(head[c]) = msg[c]
      BY <1>1, <2>2 DEF Sound, Local, Unchaining, Posting
    <3>2. m = msg[c] /\ m # 0 /\ m \notin aborted /\ \A e \in Clients : got[e] < m
      BY <1>2, <3>1 DEF Sound, Numbered
    <3>3. \A e \in Clients : Waits(e, m)
      BY <3>2 DEF Waits
    <3>4. \A e \in Clients : Before(e, t)
      BY <3>2, <3>3 DEF Sound, PartsAhead
    <3>5. Unread(m)
      BY <3>2 DEF Unread
    <3>6. status[t] # "Posted" /\ status[t] # "Free"
      BY <3>2, <3>5 DEF Sound, PostedOnce, PartsKept
    <3>7. \A d \in Clients : head[d] # t
      <4>1. ASSUME NEW d \in Clients, head[d] = t PROVE FALSE
        <5>1. msg[d] = m
          BY <1>1, <4>1, NoSlotApart DEF Sound, Local, Posting
        <5>2. d = c
          BY <3>2, <5>1 DEF Sound, Numbered
        <5> QED
          BY <1>2, <3>1, <4>1, <5>2
      <4> QED
        BY <4>1
    <3>8. \A d \in Clients : Owns(d) => cur[d] # t
      BY <3>3 DEF Sound, Local, Holding
    <3> QED
      BY <2>2, <3>1, <3>2, <3>3, <3>4, <3>6, <3>7, <3>8
  <2> QED
    BY <2>1, <2>2
<1>4. /\ \A e \in Clients : Pos(e)' = Pos(e)
      /\ \A e \in Clients : \A s : Ahead(e, s)' = Ahead(e, s)
      /\ \A e \in Clients : Ahead(e, headSlot)' = Ahead(e, headSlot)
      /\ \A e \in Clients : \A s : Before(e, s)' <=> Before(e, s)
      /\ \A s : Msg(s)' = Msg(s) /\ Rest(s)' = Rest(s)
      /\ \A e \in Clients, n \in Nat : Waits(e, n)' <=> Waits(e, n)
      /\ \A e \in Clients : Standing(e)' <=> Standing(e)
      /\ \A n \in Nat : Unread(n)' <=> Unread(n)
  <2>1. \A e \in Clients : Pos(e)' = Pos(e)
    BY <1>1 DEF Pos
  <2>2. /\ \A e \in Clients : \A s : Ahead(e, s)' = Ahead(e, s)
        /\ \A e \in Clients : Ahead(e, headSlot)' = Ahead(e, headSlot)
        /\ \A e \in Clients : \A s : Before(e, s)' <=> Before(e, s)
    BY <1>1, <2>1 DEF Ahead, Before
  <2>3. /\ \A s : Msg(s)' = Msg(s) /\ Rest(s)' = Rest(s)
        /\ \A e \in Clients, n \in Nat : Waits(e, n)' <=> Waits(e, n)
        /\ \A e \in Clients : Standing(e)' <=> Standing(e)
    BY <1>1 DEF Msg, Rest, Waits, Standing
  <2>4. \A n \in Nat : Unread(n)' <=> Unread(n)
    BY <1>1, <2>3 DEF Unread
  <2> QED
    BY <2>1, <2>2, <2>3, <2>4
<1>5. /\ status'[t] = x /\ \A s \in Slots \ {t} : status'[s] = status[s]
      /\ dataCnt'[u] = NoSlot /\ \A s \in Slots \ {u} : dataCnt'[s] = dataCnt[s]
      /\ \A s \in Slots : status'[s] = "Posted" <=> status[s] = "Posted"
  BY <1>1, <1>3 DEF TypeInv, TypeOK
<1>6. \A s \in Slots, n \in Nat : Starts(s, n)' <=> Starts(s, n)
  BY <1>1, <1>4, <1>5 DEF Starts, First
<1> HIDE DEF m, base
<1>7. Group'
  BY <1>1, <1>4 DEF Group
<1>8. (HeadUsable /\ Numbered /\ PostedOnce /\ PartOnce /\ Addressed)'
  <2>1. HeadUsable'
    <3>1. headSlot \in Slots /\ (x = "Aborted" => headSlot # t)
      BY <1>3, Standpoints DEF Before, Slots
    <3> QED
      BY <1>1, <1>5, <3>1 DEF Sound, HeadUsable
  <2> QED
    BY <1>1, <1>4, <1>5, <2>1 DEF Sound, Numbered, PostedOnce, PartOnce, Addressed
<1>9. (Region /\ InTurn /\ Complete)'
  BY <1>1, <1>4, <1>6 DEF Sound, Region, InTurn, Complete
<1>10. (PartsAhead /\ PartsAfter /\ PartsKept)'
  <2>1. PartsKept'
    <3> SUFFICES ASSUME NEW s \in Slots, Msg(s) # 0, Unread(Msg(s)) \/ Msg(s) \in aborted
                 PROVE  status'[s] # "Free"
      BY <1>1, <1>4, SlotNumbers DEF PartsKept
    <3>1. CASE s = t
      BY <1>3, <1>5, <3>1 DEF m
    <3>2. CASE s # t
      BY <1>5, <3>2 DEF Sound, PartsKept
    <3> QED
      BY <3>1, <3>2
  <2> QED
    BY <1>1, <1>4, <1>6, <2>1, SlotNumbers DEF Sound, PartsAhead, PartsAfter
<1>11. Links'
  <2> SUFFICES ASSUME NEW s \in Slots, dataCnt'[s] # NoSlot
               PROVE  /\ status'[s] # "Free"
                      /\ status'[dataCnt'[s]] \in {"Continued", "Aborted"}
                      /\ Msg(s) # 0
                      /\ Msg(dataCnt[s])' = Msg(s) /\ Rest(dataCnt[s])' = Rest(s) - 1
    BY <1>4 DEF Links
  <2> DEFINE v == dataCnt[s]
  <2>1. /\ s # u /\ s # t /\ dataCnt'[s] = v /\ v # NoSlot
    BY <1>1, <1>5
  <2>2. /\ status[s] # "Free" /\ status[v] \in {"Continued", "Aborted"} /\ Msg(s) # 0
        /\ Msg(v) = Msg(s) /\ Rest(v) = Rest(s) - 1 /\ v \in Slots
    BY <2>1 DEF Sound, Links, TypeInv, TypeOK, Pointer
  <2>3. v # t
    <3>1. ASSUME v = t PROVE FALSE
      <4>1. Msg(s) = Msg(u) /\ Rest(s) = Rest(u)
        BY <1>2, <2>2, <3>1, SlotNumbers DEF m
      <4> QED
        BY <2>1, <2>2, <4>1 DEF Sound, PartOnce
    <3> QED
      BY <3>1
  <2> QED
    BY <1>4, <1>5, <2>1, <2>2, <2>3
<1>12. Linked'
  <2> SUFFICES ASSUME NEW s \in Slots, Msg(s) # 0, Rest(s) > 1, Unread(Msg(s)), Msg(s) \notin aborted,
                      \A d \in Clients : msg[d] = Msg(s) => pc[d] \notin {"aborting", "crashed"}
               PROVE  dataCnt'[s] # NoSlot \/ \E d \in Clients : msg[d] = Msg(s) /\ last[d] = s
    BY <1>1, <1>4, SlotNumbers DEF Linked
  <2>1. s # u
    BY <1>1, <1>2, <1>3 DEF m
  <2> QED
    BY <1>5, <2>1 DEF Sound, Linked
<1>13. ASSUME NEW d \in Clients PROVE Local(d)'
  <2>1. Local(d) /\ Locals(d) /\ got[d] \in Nat /\ Pos(d) \in Slots
    BY Standpoints DEF Sound, TypeInv, TypeOK, LocalsOK
  <2>2. Moving(d)'
    <3>1. Succ(headSlot) \in Slots /\ headSlot \in Slots
      BY Standpoints
    <3>2. pc[d] = "moveHead" => headSlot # t
      <4>1. pc[d] = "moveHead" => Owns(d) /\ cur[d] = headSlot
        BY <2>1 DEF Local, Moving, Posting, Owns, Taking
      <4> QED
        BY <1>3, <4>1
    <3>3. pc[d] = "moveHead" => status'[Succ(headSlot)] = "Free"
      BY <1>3, <1>5, <2>1, <3>1 DEF Local, Moving
    <3> QED
      BY <1>1, <1>4, <1>5, <2>1, <3>1, <3>2, <3>3 DEF Local, Moving
  <2>3. Trying(d)'
    <3> SUFFICES ASSUME pc[d] = "cas", cur[d] # headSlot
                 PROVE  /\ status'[cur[d]] # "Free"
                        /\ \/ got[d] < Msg(cur[d])
                           \/ \A e \in Clients : ~Waits(e, Msg(cur[d]))
      BY <1>1, <1>4, <2>1, SlotNumbers DEF Trying, Locals
    <3>1. /\ cur[d] \in Slots /\ status[cur[d]] # "Free"
          /\ got[d] < Msg(cur[d]) \/ \A e \in Clients : ~Waits(e, Msg(cur[d]))
      BY <2>1 DEF Local, Trying, Locals
    <3>2. CASE cur[d] # t
      BY <1>5, <3>1, <3>2
    <3>3. CASE cur[d] = t
      <4>1. ~ \A e \in Clients : ~Waits(e, m)
        BY <1>3
      <4>2. got[d] < m
        BY <3>1, <3>3, <4>1 DEF m
      <4>3. x = "Aborted"
        BY <1>3, <4>2 DEF Unread
      <4> QED
        BY <1>5, <3>1, <3>3, <4>3
    <3> QED
      BY <3>2, <3>3
  <2>4. Holding(d)'
    <3>1. \A e \in Clients : Owns(e)' <=> Owns(e)
      BY <1>1 DEF Owns, Taking
    <3>2. Owns(d) => dataCnt'[cur[d]] = NoSlot
      BY <1>1, <1>5, <2>1 DEF Local, Holding
    <3> QED
      BY <1>1, <1>3, <1>4, <1>5, <2>1, <3>1, <3>2, SlotNumbers DEF Local, Holding
  <2>5. Posting(d)'
    <3>1. head[d] # NoSlot => head[d] \in Slots \ {t}
      BY <1>3 DEF TypeInv, TypeOK, Pointer
    <3> QED
      BY <1>1, <1>4, <1>5, <2>1, <3>1 DEF Local, Posting, Taking
  <2>6. Polling(d)'
    <3>1. polled[d] # NoSlot /\ Pos(d) = t => x = "Free" /\ m = got[d]
      BY <1>3, <2>1 DEF Local, Polling, m
    <3>2. polled[d] # NoSlot =>
            /\ status'[Pos(d)] \in {"Posted", "Free"}
            /\ status'[Pos(d)] = "Free" => ~Unread(got[d])
      <4>1. CASE Pos(d) = t
        BY <1>3, <1>5, <3>1, <4>1
      <4>2. CASE Pos(d) # t
        BY <1>5, <2>1, <4>2 DEF Local, Polling
      <4> QED
        BY <4>1, <4>2
    <3>3. Standing(d) => status'[Pos(d)] = "Posted"
      BY <1>5, <2>1 DEF Local, Polling
    <3> QED
      BY <1>1, <1>4, <1>5, <2>1, <3>2, <3>3 DEF Local, Polling
  <2>7. Unchaining(d)'
    <3>1. CASE d # c
      <4>1. stack'[d] = stack[d]
        BY <1>1, <3>1
      <4> QED
        BY <1>1, <1>4, <2>1, <4>1 DEF Local, Unchaining, Chain
    <3>2. CASE d = c
      <4> DEFINE q == stack[c]
                 n == Len(q) - 1
      <4>1. n \in Nat /\ n >= 1 /\ q \in Seq(Slots)
        <5>1. stack \in [Clients -> Seq(Slots)]
          BY DEF TypeInv, TypeOK
        <5> QED
          BY <1>1, <5>1
      <4>2. \A i \in 1 .. n : q[i] \in Slots
        BY <1>1, <4>1
      <4>3. stack'[c] = SubSeq(q, 1, n)
        BY <1>1 DEF TypeInv, TypeOK
      <4> HIDE DEF n
      <4>4. Len(stack'[c]) = n /\ \A k \in 1 .. n : stack'[c][k] = q[k]
        BY <4>1, <4>2, <4>3, SubSeqProperties
      <4>5. stack'[c][1] = q[1]
        BY <4>1, <4>4
      <4>6. \A k \in 1 .. n : Msg(q[k]) = Msg(q[1]) /\ Rest(q[k]) = Rest(q[1]) + 1 - k
        BY <1>1, <1>2, <4>1 DEF Chain, n
      <4>7. Chain(c)'
        BY <1>4, <4>4, <4>5, <4>6 DEF Chain
      <4> QED
        BY <1>1, <1>4, <2>1, <3>2, <4>5, <4>7 DEF Local, Unchaining
    <3> QED
      BY <3>1, <3>2
  <2>8. Loading(d)'
    BY <1>1, <1>4, <2>1 DEF Local, Loading
  <2> QED
    BY <2>2, <2>3, <2>4, <2>5, <2>6, <2>7, <2>8 DEF Local
<1> QED
  BY <1>7, <1>8, <1>9, <1>10, <1>11, <1>12, <1>13 DEF Sound

---------------------------------------------------------------------------
(* A message is handed to a client *)

(* The slot a client looks at holds a message it was not handed yet, and the
   lowest numbered of those. *)
LEMMA DeliverGuard ==
    ASSUME TypeInv, Group, Sound, NEW c \in Clients, PollDeliver(c)
    PROVE  /\ cur[c] = Pos(c) /\ polled[c] = NoSlot
           /\ status[Pos(c)] = "Posted" /\ Pos(c) # headSlot
           /\ Starts(Pos(c), Msg(Pos(c)))
           /\ Msg(Pos(c)) \in 1 .. nmsg /\ Msg(Pos(c)) \notin aborted
           /\ got[c] < Msg(Pos(c))
           /\ \A s \in Slots, n \in 1 .. nmsg :
                Starts(s, n) /\ got[c] < n => Msg(Pos(c)) <= n
<1> DEFINE p == Pos(c)
           m == Msg(Pos(c))
<1> USE DEF At
<1>1. cur[c] = p /\ polled[c] = NoSlot /\ status[p] = "Posted" /\ p \in Slots
  <2>1. cur[c] = p
    BY DEF PollDeliver, Sound, Local, Polling, InPoll
  <2>2. polled[c] # NoSlot => polled[c] = p
    BY DEF Sound, Local, Polling
  <2> QED
    BY <2>1, <2>2 DEF PollDeliver, Group
<1>2. p # headSlot
  BY <1>1 DEF Sound, HeadUsable
<1>3. m \in Nat /\ Starts(p, m) /\ m \in 1 .. nmsg /\ m \notin aborted
  <2>1. m \in Nat /\ Starts(p, m)
    BY <1>1, SlotNumbers DEF Starts
  <2> QED
    BY <1>1, <2>1, StartsInUse
<1>4. Ahead(c, p) = 0 /\ \A s \in Slots : Ahead(c, s) \in Nat
  BY <1>1, Standpoints DEF Slots
<1>5. headSlot \in Slots
  BY Standpoints
<1>6. got[c] < m
  <2>1. Ahead(c, p) <= Ahead(c, headSlot)
    BY <1>4, <1>5
  <2> QED
    BY <1>1, <1>3, <2>1, NoSlotApart DEF Sound, Region
<1>7. ASSUME NEW s \in Slots, NEW n \in 1 .. nmsg, Starts(s, n), got[c] < n, n < m PROVE FALSE
  <2>1. Ahead(c, s) <= Ahead(c, headSlot)
    BY <1>7 DEF Sound, Region
  <2>2. Ahead(c, s) < Ahead(c, p)
    BY <1>1, <1>3, <1>7, <2>1 DEF Sound, InTurn
  <2> QED
    BY <1>4, <2>2
<1> QED
  BY <1>1, <1>2, <1>3, <1>6, <1>7 DEF TypeInv, TypeOK

LEMMA DeliverStep ==
    ASSUME TypeInv, Group, Sound, NEW c \in Clients, PollDeliver(c)
    PROVE  Group' /\ Sound'
<1> USE DEF At, Goto
<1>1. PICK p \in Slots, m \in Nat :
        /\ p = Pos(c) /\ m = Msg(p)
        /\ polled' = [polled EXCEPT ![c] = p]
        /\ got' = [got EXCEPT ![c] = m]
        /\ pc[c] = "look" /\ pc' = [pc EXCEPT ![c] = "idle"]
        /\ cur' = [cur EXCEPT ![c] = NoSlot]
        /\ UNCHANGED <<headSlot, cliMask, clientSlot, slots, id, ith, buffer, stack,
                       leaving, head, last, left, nmsg, msg, aborted>>
  <2>1. Pos(c) \in Slots /\ Msg(Pos(c)) \in Nat /\ ~leaving[c]
    BY SlotNumbers DEF Group
  <2>2. cur[c] = Pos(c)
    BY DeliverGuard
  <2> QED
    BY <2>1, <2>2 DEF PollDeliver, Return, shared, posting, Msg
<1> USE DEF slots
<1>2. /\ polled[c] = NoSlot /\ status[p] = "Posted" /\ p # headSlot
      /\ Starts(p, m) /\ m \in 1 .. nmsg /\ m \notin aborted
      /\ got[c] < m
      /\ \A s \in Slots, n \in 1 .. nmsg : Starts(s, n) /\ got[c] < n => m <= n
  BY <1>1, DeliverGuard
<1>3. msg[c] = 0 /\ head[c] = NoSlot /\ last[c] = NoSlot
  BY <1>1 DEF Sound, Local, Posting
<1>4. /\ polled'[c] = p /\ got'[c] = m /\ pc'[c] = "idle"
      /\ \A d \in Clients \ {c} : /\ polled'[d] = polled[d] /\ got'[d] = got[d]
                                  /\ pc'[d] = pc[d] /\ cur'[d] = cur[d]
      /\ p # NoSlot
      /\ nmsg \in Nat /\ \A d \in Clients : got[d] \in Nat /\ msg[d] \in Nat
  BY <1>1, NoSlotApart DEF TypeInv, TypeOK
<1>5. /\ \A e \in Clients : Pos(e)' = Pos(e)
      /\ \A e \in Clients : \A s : Ahead(e, s)' = Ahead(e, s)
      /\ \A e \in Clients : Ahead(e, headSlot)' = Ahead(e, headSlot)
      /\ \A e \in Clients : \A s : Before(e, s)' <=> Before(e, s)
      /\ \A s : Msg(s)' = Msg(s) /\ Rest(s)' = Rest(s)
  <2>1. \A e \in Clients : Pos(e)' = Pos(e)
    BY <1>1 DEF Pos
  <2>2. \A e \in Clients : \A s : Ahead(e, s)' = Ahead(e, s)
    BY <1>1, <2>1 DEF Ahead
  <2> QED
    BY <1>1, <2>1, <2>2 DEF Ahead, Before, Msg, Rest
<1>6. /\ \A e \in Clients, n \in Nat : Waits(e, n)' => Waits(e, n)
      /\ \A n \in Nat : Unread(n)' => Unread(n)
      /\ \A s \in Slots, n \in Nat : Starts(s, n)' <=> Starts(s, n)
  <2>1. \A e \in Clients, n \in Nat : Waits(e, n)' => Waits(e, n)
    BY <1>2, <1>4 DEF Waits
  <2>2. \A e \in Clients \ {c} : Standing(e)' <=> Standing(e)
    BY <1>4 DEF Standing
  <2>3. \A n \in Nat : Unread(n)' => Unread(n)
    BY <1>2, <1>4, <2>2 DEF Unread
  <2>4. \A s \in Slots, n \in Nat : Starts(s, n)' <=> Starts(s, n)
    BY <1>1, <1>3, <1>4, <1>5 DEF Starts, First
  <2> QED
    BY <2>1, <2>3, <2>4
<1>7. \A d \in Clients : msg[d] # 0 => m < msg[d]
  <2> SUFFICES ASSUME NEW d \in Clients, msg[d] # 0 PROVE m < msg[d]
    OBVIOUS
  <2>1. First(d) \in Slots /\ Starts(First(d), msg[d]) /\ got[c] < msg[d] /\ msg[d] \in 1 .. nmsg
    <3>1. First(d) \in Slots
      <4>1. head[d] \in Pointer /\ (head[d] = NoSlot => Owns(d))
        BY DEF Owns, TypeInv, TypeOK
      <4> QED
        BY <4>1 DEF First, Pointer, Sound, Local, Holding
    <3>2. got[c] < msg[d] /\ msg[d] \in 1 .. nmsg
      BY <1>4 DEF Sound, Numbered
    <3>3. Starts(First(d), msg[d])
      BY DEF Starts
    <3> QED
      BY <3>1, <3>2, <3>3
  <2>2. m <= msg[d]
    BY <1>2, <2>1
  <2>3. m # msg[d]
    BY <1>1, <1>2 DEF Sound, PostedOnce
  <2> QED
    BY <1>4, <2>2, <2>3
<1>8. Group'
  BY <1>1, <1>5 DEF Group, GroupLabels, TypeInv, TypeOK
<1>9. (HeadUsable /\ Numbered /\ PostedOnce /\ PartOnce /\ Addressed)'
  <2>1. Numbered'
    BY <1>1, <1>2, <1>4, <1>5, <1>7 DEF Sound, Numbered
  <2>2. Addressed'
    BY <1>1, <1>2, <1>4, <1>5, SlotNumbers DEF Sound, Addressed
  <2> QED
    BY <1>1, <1>5, <2>1, <2>2 DEF Sound, HeadUsable, PostedOnce, PartOnce
<1>10. (Region /\ InTurn /\ Complete)'
  <2>1. Region'
    <3> SUFFICES ASSUME NEW e \in Clients, NEW s \in Slots, NEW n \in 1 .. nmsg, Starts(s, n)
                 PROVE  Ahead(e, s) <= Ahead(e, headSlot) <=> (got'[e] < n \/ polled'[e] = s)
      BY <1>1, <1>5, <1>6 DEF Region
    <3>1. CASE e # c
      BY <1>4, <3>1 DEF Sound, Region
    <3>2. CASE e = c /\ s = p
      <4>1. Ahead(c, s) = 0 /\ Ahead(c, headSlot) \in Nat
        BY <1>1, <3>2, Standpoints DEF Slots
      <4> QED
        BY <1>4, <3>2, <4>1
    <3>3. CASE e = c /\ s # p
      <4>1. Ahead(c, s) <= Ahead(c, headSlot) <=> got[c] < n
        BY <1>2, <3>3, NoSlotApart DEF Sound, Region
      <4>2. n # m /\ n \in Nat
        BY <1>2, <3>3, StartsOnce
      <4>3. got[c] < n <=> m < n
        BY <1>2, <1>4, <4>2
      <4> QED
        BY <1>4, <3>3, <4>1, <4>3
    <3> QED
      BY <3>1, <3>2, <3>3
  <2>2. InTurn'
    BY <1>1, <1>5, <1>6 DEF Sound, InTurn
  <2>3. Complete'
    <3>1. ASSUME NEW e \in Clients, NEW n \in 1 .. nmsg, got'[e] < n
          PROVE  n \in aborted \/ \E s \in Slots : Starts(s, n)
      <4>1. got[e] < n
        <5>1. CASE e = c
          BY <1>2, <1>4, <3>1, <5>1
        <5>2. CASE e # c
          BY <1>4, <3>1, <5>2
        <5> QED
          BY <5>1, <5>2
      <4> QED
        BY <4>1 DEF Sound, Complete
    <3> QED
      BY <1>1, <1>6, <3>1 DEF Complete
  <2> QED
    BY <2>1, <2>2, <2>3
<1>11. (PartsAhead /\ PartsAfter /\ PartsKept)'
  <2>1. PartsAhead'
    BY <1>1, <1>5, <1>6, SlotNumbers DEF Sound, PartsAhead
  <2>2. PartsAfter'
    BY <1>1, <1>2, <1>4, <1>5, <1>6, SlotNumbers DEF Sound, PartsAfter
  <2>3. PartsKept'
    BY <1>1, <1>5, <1>6, SlotNumbers DEF Sound, PartsKept
  <2> QED
    BY <2>1, <2>2, <2>3
<1>12. Links'
  BY <1>1, <1>5 DEF Sound, Links
<1>13. Linked'
  BY <1>1, <1>3, <1>4, <1>5, <1>6, SlotNumbers DEF Sound, Linked
<1>14. ASSUME NEW d \in Clients PROVE Local(d)'
  <2>1. Local(d) /\ Locals(d)
    BY DEF Sound, TypeInv, LocalsOK
  <2>2. Moving(d)'
    BY <1>1, <1>4, <1>5, <2>1 DEF Local, Moving
  <2>3. Trying(d)'
    <3>1. pc[d] = "cas" => cur[d] \in Slots
      BY <2>1 DEF Locals
    <3> QED
      BY <1>1, <1>4, <1>5, <1>6, <2>1, <3>1, SlotNumbers DEF Local, Trying
  <2>4. Holding(d)'
    <3>1. \A e \in Clients : Owns(e)' => Owns(e) /\ e # c
      BY <1>1, <1>3, <1>4 DEF Owns, Taking
    <3> QED
      BY <1>1, <1>4, <1>5, <1>6, <2>1, <3>1, SlotNumbers DEF Local, Holding
  <2>5. Posting(d)'
    BY <1>1, <1>3, <1>4, <1>5, <2>1 DEF Local, Posting, Taking
  <2>6. Polling(d)'
    <3>1. CASE d = c
      <4>1. ith[c] \in slotMask[p]
        BY <1>1, <1>2 DEF Sound, Addressed
      <4>2. \A s \in Slots : status[s] = "Posted" /\ Msg(s) = m => s = p
        BY <1>1, <1>2 DEF Sound, PostedOnce
      <4> QED
        BY <1>1, <1>2, <1>4, <1>5, <3>1, <4>1, <4>2 DEF Polling, InPoll
    <3>2. CASE d # c
      <4>1. Standing(d)' <=> Standing(d)
        BY <1>4, <3>2 DEF Standing
      <4> QED
        BY <1>1, <1>4, <1>5, <1>6, <2>1, <3>2, <4>1 DEF Local, Polling
    <3> QED
      BY <3>1, <3>2
  <2>7. Unchaining(d)'
    BY <1>1, <1>4, <1>5, <1>6, <2>1 DEF Local, Unchaining, Chain
  <2>8. Loading(d)'
    BY <1>1, <1>4, <1>5, <2>1 DEF Local, Loading
  <2> QED
    BY <2>2, <2>3, <2>4, <2>5, <2>6, <2>7, <2>8 DEF Local
<1> QED
  BY <1>8, <1>9, <1>10, <1>11, <1>12, <1>13, <1>14 DEF Sound

---------------------------------------------------------------------------
(* A client takes its bit out of the mask *)

LEMMA ClearStep ==
    ASSUME TypeInv, Group, Sound, NEW c \in Clients, PollClear(c)
    PROVE  Group' /\ Sound'
<1> USE DEF At, Goto
<1>1. PICK p \in Slots :
        /\ p = Pos(c) /\ pc[c] = "clear" /\ pc' = [pc EXCEPT ![c] = "recycle"]
        /\ slotMask' = [slotMask EXCEPT ![p] = @ \ {ith[c]}]
        /\ UNCHANGED <<headSlot, cliMask, clientSlot, status, dataCnt, data, id, ith,
                       polled, buffer, cur, stack, leaving, head, last, left, nmsg,
                       msg, got, aborted>>
  <2>1. Pos(c) \in Slots /\ cur[c] = Pos(c)
    BY DEF Group, PollClear, Sound, Local, Polling, InPoll
  <2> QED
    BY <2>1 DEF PollClear, shared, clients, walk, posting, history
<1>2. /\ polled[c] = p /\ polled[c] # NoSlot /\ status[p] = "Posted" /\ Msg(p) = got[c]
      /\ msg[c] = 0
  BY <1>1 DEF Sound, Local, Polling, Posting, Standing
<1>3. /\ pc'[c] = "recycle" /\ \A d \in Clients \ {c} : pc'[d] = pc[d]
      /\ slotMask'[p] = slotMask[p] \ {ith[c]}
      /\ \A s \in Slots \ {p} : slotMask'[s] = slotMask[s]
      /\ \A d \in Clients : got[d] \in Nat
  BY <1>1 DEF TypeInv, TypeOK
<1>4. /\ \A e \in Clients : Pos(e)' = Pos(e)
      /\ \A e \in Clients : \A s : Ahead(e, s)' = Ahead(e, s)
      /\ \A e \in Clients : Ahead(e, headSlot)' = Ahead(e, headSlot)
      /\ \A e \in Clients : \A s : Before(e, s)' <=> Before(e, s)
      /\ \A s : Msg(s)' = Msg(s) /\ Rest(s)' = Rest(s)
      /\ \A e \in Clients, n \in Nat : Waits(e, n)' <=> Waits(e, n)
      /\ \A e \in Clients : Standing(e)' => Standing(e) /\ e # c
      /\ \A n \in Nat : Unread(n)' => Unread(n)
      /\ \A s \in Slots, n \in Nat : Starts(s, n)' <=> Starts(s, n)
      /\ \A e \in Clients : Owns(e)' <=> Owns(e)
  <2>1. \A e \in Clients : Pos(e)' = Pos(e)
    BY <1>1 DEF Pos
  <2>2. \A e \in Clients : \A s : Ahead(e, s)' = Ahead(e, s)
    BY <1>1, <2>1 DEF Ahead
  <2>3. /\ \A e \in Clients : Ahead(e, headSlot)' = Ahead(e, headSlot)
        /\ \A e \in Clients : \A s : Before(e, s)' <=> Before(e, s)
        /\ \A s : Msg(s)' = Msg(s) /\ Rest(s)' = Rest(s)
        /\ \A e \in Clients, n \in Nat : Waits(e, n)' <=> Waits(e, n)
    BY <1>1, <2>1, <2>2 DEF Ahead, Before, Msg, Rest, Waits
  <2>4. \A e \in Clients : Standing(e)' => Standing(e) /\ e # c
    BY <1>1, <1>3 DEF Standing
  <2>5. \A n \in Nat : Unread(n)' => Unread(n)
    BY <1>1, <2>4 DEF Unread
  <2>6. /\ \A s \in Slots, n \in Nat : Starts(s, n)' <=> Starts(s, n)
        /\ \A e \in Clients : Owns(e)' <=> Owns(e)
    BY <1>1, <1>3, <2>3 DEF Starts, First, Owns, Taking
  <2> QED
    BY <2>1, <2>2, <2>3, <2>4, <2>5, <2>6
<1>5. Group'
  BY <1>1, <1>4 DEF Group, GroupLabels, TypeInv, TypeOK
<1>6. (HeadUsable /\ Numbered /\ PostedOnce /\ PartOnce /\ Addressed)'
  <2>1. Addressed'
    BY <1>1, <1>2, <1>3, <1>4 DEF Sound, Addressed, Group
  <2> QED
    BY <1>1, <1>4, <2>1 DEF Sound, HeadUsable, Numbered, PostedOnce, PartOnce
<1>7. (Region /\ InTurn /\ Complete)'
  BY <1>1, <1>4 DEF Sound, Region, InTurn, Complete
<1>8. (PartsAhead /\ PartsAfter /\ PartsKept)'
  BY <1>1, <1>4, SlotNumbers DEF Sound, PartsAhead, PartsAfter, PartsKept
<1>9. Links'
  BY <1>1, <1>4 DEF Sound, Links
<1>10. Linked'
  BY <1>1, <1>3, <1>4, SlotNumbers DEF Sound, Linked
<1>11. ASSUME NEW d \in Clients PROVE Local(d)'
  <2>1. Local(d) /\ Locals(d)
    BY DEF Sound, TypeInv, LocalsOK
  <2>2. Moving(d)'
    BY <1>1, <1>3, <1>4, <2>1 DEF Local, Moving
  <2>3. Trying(d)'
    <3>1. pc[d] = "cas" => cur[d] \in Slots
      BY <2>1 DEF Locals
    <3> QED
      BY <1>1, <1>3, <1>4, <2>1, <3>1, SlotNumbers DEF Local, Trying
  <2>4. Holding(d)'
    BY <1>1, <1>3, <1>4, <2>1, SlotNumbers DEF Local, Holding
  <2>5. Posting(d)'
    <3>1. head[d] # NoSlot => head[d] \in Slots \ {p}
      BY <1>2, <2>1 DEF Local, Posting, TypeInv, TypeOK, Pointer
    <3> QED
      BY <1>1, <1>2, <1>3, <1>4, <2>1, <3>1 DEF Local, Posting, Taking
  <2>6. Polling(d)'
    <3>1. Standing(d)' => ith[d] \in slotMask'[Pos(d)]
      <4> SUFFICES ASSUME Standing(d)' PROVE ith[d] \in slotMask'[Pos(d)]
        OBVIOUS
      <4>1. ith[d] \in slotMask[Pos(d)] /\ ith[d] # ith[c] /\ Pos(d) \in Slots
        BY <1>4, <2>1 DEF Local, Polling, Group
      <4> QED
        BY <1>3, <4>1
    <3> QED
      BY <1>1, <1>2, <1>3, <1>4, <2>1, <3>1 DEF Local, Polling, InPoll
  <2>7. Unchaining(d)'
    BY <1>1, <1>3, <1>4, <2>1 DEF Local, Unchaining, Chain
  <2>8. Loading(d)'
    BY <1>1, <1>3, <1>4, <2>1 DEF Local, Loading
  <2> QED
    BY <2>2, <2>3, <2>4, <2>5, <2>6, <2>7, <2>8 DEF Local
<1> QED
  BY <1>5, <1>6, <1>7, <1>8, <1>9, <1>10, <1>11 DEF Sound

---------------------------------------------------------------------------
(* A client walks one slot on *)

LEMMA AdvanceStep ==
    ASSUME TypeInv, Group, Sound, NEW c \in Clients,
           PollSkip(c) \/ PollKeep(c) \/ PollFreeFirst(c)
    PROVE  Group' /\ Sound'
<1> USE DEF At, Goto
<1> DEFINE h == headSlot
(* What the three have in common: x is what the slot left behind becomes. *)
<1>1. PICK p \in Slots, x \in Status :
        /\ p = Pos(c) /\ cur[c] = p /\ pc[c] \in {"look", "recycle", "free"}
        /\ clientSlot' = [clientSlot EXCEPT ![ith[c]] = Succ(p)]
        /\ polled' = [polled EXCEPT ![c] = NoSlot]
        /\ status' = [status EXCEPT ![p] = x]
        /\ \/ cur' = [cur EXCEPT ![c] = NoSlot] /\ pc' = [pc EXCEPT ![c] = "idle"]
           \/ cur' = [cur EXCEPT ![c] = Succ(p)] /\ pc' = [pc EXCEPT ![c] = "look"]
        /\ \A d \in Clients \ {c} : stack'[d] = stack[d]
        /\ \/ x = status[p] /\ pc[c] = "look" /\ x \in {"Continued", "Aborted"}
           \/ x = status[p] /\ pc[c] = "recycle"
           \/ x = "Free" /\ pc[c] = "free" /\ dataCnt[p] = NoSlot /\ ~Unread(got[c])
        /\ UNCHANGED <<headSlot, cliMask, slotMask, dataCnt, data, id, ith, buffer,
                       leaving, head, last, left, nmsg, msg, got, aborted>>
  <2>1. Pos(c) \in Slots /\ cur[c] = Pos(c) /\ ~leaving[c]
    BY DEF PollSkip, PollKeep, PollFreeFirst, Group, Sound, Local, Polling, InPoll
  <2>2. status[Pos(c)] \in Status /\ status = [status EXCEPT ![Pos(c)] = status[Pos(c)]]
    BY <2>1 DEF TypeInv, TypeOK
  <2>3. CASE PollSkip(c)
    BY <2>1, <2>2, <2>3 DEF PollSkip, Advance, Move, LoopOn, Return, slots, posting, history
  <2>4. CASE PollKeep(c)
    BY <2>1, <2>2, <2>4 DEF PollKeep, Advance, Move, LoopOn, Return, slots, posting, history
  <2>5. CASE PollFreeFirst(c)
    <3>1. Top(c) = Pos(c) /\ ~Unread(got[c])
      BY <2>1, <2>5 DEF PollFreeFirst, Top, Sound, Local, Unchaining
    <3>2. "Free" \in Status
      BY DEF Status
    <3>3. \A d \in Clients \ {c} : stack'[d] = stack[d]
      BY <2>5 DEF PollFreeFirst, MarkTop, TypeInv, TypeOK
    <3> QED
      BY <2>1, <2>5, <3>1, <3>2, <3>3
         DEF PollFreeFirst, MarkTop, Advance, Move, LoopOn, Return, posting, history
  <2> QED
    BY <2>3, <2>4, <2>5
<1>2. /\ h \in Slots /\ Succ(p) \in Slots /\ Succ(h) \in Slots
      /\ p # NoSlot /\ Succ(p) # NoSlot
      /\ msg[c] = 0 /\ head[c] = NoSlot /\ last[c] = NoSlot
      /\ \A d \in Clients : got[d] \in Nat
      /\ NumSlots \in Nat
  <2>1. h \in Slots /\ Succ(p) \in Slots /\ Succ(h) \in Slots
    BY Standpoints, SuccInSlots
  <2>2. msg[c] = 0 /\ head[c] = NoSlot /\ last[c] = NoSlot
    BY <1>1 DEF Sound, Local, Posting
  <2>3. NumSlots \in Nat /\ \A d \in Clients : got[d] \in Nat
    BY RingAssumption DEF RingAssumption, TypeInv, TypeOK
  <2> QED
    BY <2>1, <2>2, <2>3, NoSlotApart
<1>3. /\ status'[p] = x /\ \A s \in Slots \ {p} : status'[s] = status[s]
      /\ polled'[c] = NoSlot /\ \A d \in Clients \ {c} : polled'[d] = polled[d]
      /\ pc'[c] \in {"idle", "look"} /\ \A d \in Clients \ {c} : pc'[d] = pc[d]
      /\ pc'[c] = "look" => cur'[c] = Succ(p)
      /\ \A d \in Clients \ {c} : cur'[d] = cur[d]
  BY <1>1 DEF TypeInv, TypeOK
(* The slot left behind: not the head, in nobody's hand, and either a part of
   a message the client was handed, or of one given up, or unused. *)
<1>4. /\ p # h /\ status[p] # "Writing" /\ x # "Writing"
      /\ polled[c] \in {NoSlot, p}
      /\ \A n \in Nat : Starts(p, n) => n = got[c]
      /\ Msg(p) # 0 /\ Msg(p) \notin aborted => Msg(p) <= got[c]
      /\ x = status[p] \/ x = "Free"
      /\ x = "Free" => /\ Msg(p) = got[c] /\ polled[c] = p /\ ~Unread(got[c])
                       /\ status[p] \in {"Posted", "Free"}
      /\ x = "Free" => dataCnt[p] = NoSlot
  <2>1. CASE pc[c] = "look"
    <3>1. status[p] \in {"Continued", "Aborted"} /\ x = status[p]
      BY <1>1, <2>1
    <3>2. polled[c] = NoSlot
      BY <1>1, <3>1 DEF Sound, Local, Polling
    <3>3. \A n \in Nat : ~Starts(p, n)
      BY <3>1, StartsInUse
    <3>4. p # h
      BY <3>1 DEF Sound, HeadUsable
    <3>5. ASSUME Msg(p) # 0, Msg(p) \notin aborted, ~(Msg(p) <= got[c]) PROVE FALSE
      <4>1. Msg(p) \in 1 .. nmsg /\ got[c] < Msg(p)
        <5>1. Msg(p) \in Nat /\ Msg(p) <= nmsg /\ nmsg \in Nat /\ got[c] \in Nat
          BY <1>2, SlotNumbers DEF Sound, Numbered, TypeInv, TypeOK
        <5> QED
          BY <3>5, <5>1
      <4>2. PICK s \in Slots : Starts(s, Msg(p))
        BY <3>5, <4>1 DEF Sound, Complete
      <4>3. s # p
        BY <3>3, <4>1, <4>2
      <4>4. Ahead(c, s) < Ahead(c, p)
        BY <3>5, <4>1, <4>2, <4>3 DEF Sound, PartsAfter
      <4>5. Ahead(c, p) = 0 /\ Ahead(c, s) \in Nat
        BY <1>1, Standpoints DEF Slots
      <4> QED
        BY <4>4, <4>5
    <3> QED
      BY <3>1, <3>2, <3>3, <3>4, <3>5
  <2>2. CASE pc[c] \in {"recycle", "free"}
    <3>1. /\ polled[c] = p /\ p # h /\ Msg(p) = got[c] /\ status[p] \in {"Posted", "Free"}
          /\ status[p] = "Free" => ~Unread(got[c])
      BY <1>1, <2>2 DEF Sound, Local, Polling
    <3>2. \A n \in Nat : Starts(p, n) => n = got[c]
      BY <3>1, StartsInUse
    <3>3. x = status[p] \/ x = "Free"
      BY <1>1
    <3>4. x = "Free" => ~Unread(got[c])
      BY <1>1, <3>1
    <3>5. x = "Free" => dataCnt[p] = NoSlot
      <4>1. status[p] = "Free" => dataCnt[p] = NoSlot
        BY DEF Sound, Links
      <4> QED
        BY <1>1, <2>2, <4>1
    <3> QED
      BY <1>2, <3>1, <3>2, <3>3, <3>4, <3>5
  <2> QED
    BY <1>1, <2>1, <2>2
<1>5. /\ Pos(c)' = Succ(p)
      /\ \A e \in Clients \ {c} : Pos(e)' = Pos(e)
      /\ \A e \in Clients \ {c} : \A s : Ahead(e, s)' = Ahead(e, s)
      /\ \A e \in Clients \ {c} : Ahead(e, headSlot)' = Ahead(e, h)
      /\ \A s \in Slots \ {p} : Ahead(c, s)' = Ahead(c, s) - 1
      /\ Ahead(c, headSlot)' = Ahead(c, h) - 1
      /\ Ahead(c, p)' = NumSlots - 1
      /\ Ahead(c, h) \in 1 .. NumSlots - 1
      /\ \A s \in Slots : Ahead(c, s) \in Nat
      /\ \A s : Msg(s)' = Msg(s) /\ Rest(s)' = Rest(s)
  <2>1. Pos(c)' = Succ(p) /\ \A e \in Clients \ {c} : Pos(e)' = Pos(e)
    BY <1>1 DEF Pos, Group, TypeInv, TypeOK
  <2>2. /\ \A e \in Clients \ {c} : \A s : Ahead(e, s)' = Ahead(e, s)
        /\ \A e \in Clients \ {c} : Ahead(e, headSlot)' = Ahead(e, h)
    BY <1>1, <2>1 DEF Ahead
  <2>3. \A s : Ahead(c, s)' = Dist(Succ(p), s) /\ Ahead(c, s) = Dist(p, s)
    BY <1>1, <2>1 DEF Ahead
  <2>4. Ahead(c, headSlot)' = Dist(Succ(p), h)
    BY <1>1, <2>1 DEF Ahead
  <2>5. /\ \A s \in Slots \ {p} : Ahead(c, s)' = Ahead(c, s) - 1
        /\ Ahead(c, headSlot)' = Ahead(c, h) - 1
        /\ Ahead(c, p)' = NumSlots - 1
    BY <1>1, <1>2, <1>4, <2>3, <2>4, DistOnward
  <2>6. Ahead(c, h) # 0 /\ \A s \in Slots : Ahead(c, s) \in Slots
    BY <1>1, <1>2, <1>4, Standpoints
  <2>7. Ahead(c, h) \in 1 .. NumSlots - 1 /\ \A s \in Slots : Ahead(c, s) \in Nat
    BY <1>2, <2>6 DEF Slots
  <2> QED
    BY <1>1, <2>1, <2>2, <2>5, <2>7 DEF Msg, Rest
<1>6. /\ \A e \in Clients, s \in Slots \ {p} : Before(e, s)' <=> Before(e, s)
      /\ \A e \in Clients \ {c}, s \in Slots : Before(e, s)' <=> Before(e, s)
  BY <1>2, <1>5 DEF Before
<1>7. /\ \A e \in Clients, n \in Nat : Waits(e, n)' => Waits(e, n) /\ (e = c => got[c] < n)
      /\ \A e \in Clients : Standing(e)' => Standing(e) /\ e # c
      /\ \A n \in Nat : Unread(n)' => Unread(n)
      /\ \A e \in Clients : Owns(e)' <=> Owns(e)
  <2>1. \A e \in Clients, n \in Nat : Waits(e, n)' => Waits(e, n) /\ (e = c => got[c] < n)
    BY <1>1, <1>3 DEF Waits
  <2>2. \A e \in Clients : Standing(e)' => Standing(e) /\ e # c
    BY <1>3 DEF Standing
  <2>3. \A n \in Nat : Unread(n)' => Unread(n)
    BY <1>1, <2>2 DEF Unread
  <2>4. \A e \in Clients : Owns(e)' <=> Owns(e)
    BY <1>1, <1>2, <1>3 DEF Owns, Taking
  <2> QED
    BY <2>1, <2>2, <2>3, <2>4
<1>8. \A s \in Slots, n \in Nat : Starts(s, n)' <=> Starts(s, n) /\ ~(s = p /\ x = "Free")
  <2>1. \A d \in Clients : msg'[d] = msg[d] /\ (msg[d] # 0 => First(d)' = First(d) /\ First(d) # p)
    <3>1. ASSUME NEW d \in Clients, msg[d] # 0 PROVE First(d)' = First(d) /\ First(d) # p
      <4>1. d # c
        BY <1>2, <3>1
      <4>2. status[First(d)] = "Writing"
        BY <3>1 DEF Sound, Local, Holding, Posting, Owns, First
      <4> QED
        BY <1>1, <1>3, <1>4, <4>1, <4>2 DEF First
    <3> QED
      BY <1>1, <3>1
  <2>2. ASSUME NEW s \in Slots, NEW n \in Nat
        PROVE  (status[s] = "Posted" /\ Msg(s) = n)'
                 <=> status[s] = "Posted" /\ Msg(s) = n /\ ~(s = p /\ x = "Free")
    BY <1>3, <1>4, <1>5
  <2> QED
    BY <2>1, <2>2 DEF Starts
<1>9. Group'
  <2>1. \A e \in Clients : Pos(e)' \in Slots
    BY <1>2, <1>5 DEF Group
  <2> QED
    BY <1>1, <1>3, <2>1 DEF Group, GroupLabels
<1>10. (HeadUsable /\ Numbered /\ PostedOnce /\ PartOnce /\ Addressed)'
  <2>1. \A s \in Slots : status'[s] = "Posted" => status[s] = "Posted"
    BY <1>3, <1>4
  <2>2. HeadUsable'
    BY <1>1, <1>2, <1>3, <1>4 DEF Sound, HeadUsable
  <2> QED
    BY <1>1, <1>5, <2>1, <2>2 DEF Sound, Numbered, PostedOnce, PartOnce, Addressed
<1>11. (Region /\ InTurn /\ Complete)'
  <2>1. Region'
    <3> SUFFICES ASSUME NEW e \in Clients, NEW s \in Slots, NEW n \in 1 .. nmsg, Starts(s, n)
                 PROVE  (Ahead(e, s) <= Ahead(e, headSlot))' <=> (got[e] < n \/ polled'[e] = s)
      BY <1>1, <1>8 DEF Region
    <3>1. CASE e # c
      BY <1>3, <1>5, <3>1 DEF Sound, Region
    <3>2. CASE e = c /\ s # p
      <4>1. Ahead(c, s) <= Ahead(c, h) <=> got[c] < n \/ polled[c] = s
        BY <3>2 DEF Sound, Region
      <4>2. polled[c] # s /\ polled'[c] # s
        BY <1>3, <1>4, <3>2, NoSlotApart
      <4>3. Ahead(c, s)' <= Ahead(c, headSlot)' <=> Ahead(c, s) <= Ahead(c, h)
        BY <1>2, <1>5, <3>2
      <4> QED
        BY <3>2, <4>1, <4>2, <4>3
    <3>3. CASE e = c /\ s = p
      <4>1. n = got[c] /\ polled'[c] # s
        BY <1>2, <1>3, <1>4, <3>3
      <4>2. ~(Ahead(c, s)' <= Ahead(c, headSlot)')
        BY <1>2, <1>5, <3>3
      <4> QED
        BY <1>2, <3>3, <4>1, <4>2
    <3> QED
      BY <3>1, <3>2, <3>3
  <2>2. InTurn'
    <3> SUFFICES ASSUME NEW e \in Clients, NEW s \in Slots, NEW t \in Slots,
                        NEW m \in 1 .. nmsg, NEW n \in 1 .. nmsg,
                        Starts(s, m), Starts(t, n), m < n,
                        (Ahead(e, s) <= Ahead(e, headSlot))'
                 PROVE  (Ahead(e, s) < Ahead(e, t))'
      BY <1>1, <1>8 DEF InTurn
    <3>1. CASE e # c
      BY <1>5, <3>1 DEF Sound, InTurn
    <3>2. CASE e = c
      <4>1. s # p
        BY <1>2, <1>5, <3>2
      <4>2. Ahead(c, s) <= Ahead(c, h)
        BY <1>5, <3>2, <4>1
      <4>3. Ahead(c, s) < Ahead(c, t)
        BY <4>2 DEF Sound, InTurn
      <4>4. Ahead(c, s)' < Ahead(c, t)'
        <5>1. CASE t = p
          BY <1>2, <1>5, <4>1, <4>2, <5>1
        <5>2. CASE t # p
          BY <1>5, <4>1, <4>3, <5>2
        <5> QED
          BY <5>1, <5>2
      <4> QED
        BY <3>2, <4>4
    <3> QED
      BY <3>1, <3>2
  <2>3. Complete'
    <3> SUFFICES ASSUME NEW e \in Clients, NEW n \in 1 .. nmsg, got[e] < n, n \notin aborted
                 PROVE  \E s \in Slots : Starts(s, n)'
      BY <1>1 DEF Complete
    <3>1. PICK s \in Slots : Starts(s, n)
      BY DEF Sound, Complete
    <3>2. ~(s = p /\ x = "Free")
      <4>1. Unread(n)
        BY DEF Unread
      <4> QED
        BY <1>4, <3>1, <4>1
    <3> QED
      BY <1>8, <3>1, <3>2
  <2> QED
    BY <2>1, <2>2, <2>3
<1>12. (PartsAhead /\ PartsAfter /\ PartsKept)'
  <2>1. PartsAhead'
    <3> SUFFICES ASSUME NEW e \in Clients, NEW t \in Slots,
                        Msg(t) # 0, Msg(t) \notin aborted, Waits(e, Msg(t))'
                 PROVE  Before(e, t)'
      BY <1>1, <1>5 DEF PartsAhead
    <3>1. Waits(e, Msg(t)) /\ (e = c => got[c] < Msg(t)) /\ Before(e, t)
      <4>1. Msg(t)' = Msg(t) /\ Msg(t) \in Nat
        BY <1>5, SlotNumbers
      <4>2. Waits(e, Msg(t)) /\ (e = c => got[c] < Msg(t))
        BY <1>1, <1>3, <4>1 DEF Waits
      <4> QED
        BY <4>2 DEF Sound, PartsAhead
    <3>2. ~(e = c /\ t = p)
      BY <1>2, <1>4, <3>1, SlotNumbers
    <3> QED
      BY <1>6, <3>1, <3>2
  <2>2. PartsAfter'
    <3> SUFFICES ASSUME NEW e \in Clients, NEW s \in Slots, NEW t \in Slots,
                        Msg(t) # 0, Starts(s, Msg(t)), got[e] < Msg(t), t # s
                 PROVE  (Ahead(e, s) < Ahead(e, t))'
      BY <1>1, <1>5, <1>8, SlotNumbers DEF PartsAfter
    <3>1. Ahead(e, s) < Ahead(e, t)
      BY DEF Sound, PartsAfter
    <3>2. Msg(t) \in Nat /\ Msg(t) \notin aborted
      BY SlotNumbers, StartsInUse
    <3>3. CASE e # c
      BY <1>5, <3>1, <3>3
    <3>4. CASE e = c
      <4>1. s # p /\ t # p
        BY <1>2, <1>4, <3>2, <3>4
      <4> QED
        BY <1>5, <3>1, <3>4, <4>1
    <3> QED
      BY <3>3, <3>4
  <2>3. PartsKept'
    <3> SUFFICES ASSUME NEW t \in Slots, Msg(t) # 0, Unread(Msg(t)) \/ Msg(t) \in aborted
                 PROVE  status'[t] # "Free"
      BY <1>1, <1>5, <1>7, SlotNumbers DEF PartsKept
    <3>1. status[t] # "Free"
      BY DEF Sound, PartsKept
    <3>2. t = p => x # "Free"
      BY <1>4 DEF Sound, Numbered
    <3> QED
      BY <1>3, <1>4, <3>1, <3>2
  <2> QED
    BY <2>1, <2>2, <2>3
<1>13. Links'
  <2> SUFFICES ASSUME NEW t \in Slots, dataCnt[t] # NoSlot
               PROVE  /\ status'[t] # "Free"
                      /\ status'[dataCnt[t]] \in {"Continued", "Aborted"}
                      /\ Msg(t) # 0
                      /\ Msg(dataCnt[t]) = Msg(t) /\ Rest(dataCnt[t]) = Rest(t) - 1
    BY <1>1, <1>5 DEF Links
  <2>1. /\ status[t] # "Free" /\ status[dataCnt[t]] \in {"Continued", "Aborted"}
        /\ Msg(t) # 0 /\ Msg(dataCnt[t]) = Msg(t) /\ Rest(dataCnt[t]) = Rest(t) - 1
        /\ dataCnt[t] \in Slots
    BY DEF Sound, Links, TypeInv, TypeOK, Pointer
  <2> QED
    BY <1>3, <1>4, <2>1
<1>14. Linked'
  BY <1>1, <1>2, <1>3, <1>5, <1>7, SlotNumbers DEF Sound, Linked
<1>15. ASSUME NEW d \in Clients PROVE Local(d)'
  <2>1. Local(d) /\ Locals(d) /\ Pos(d) \in Slots
    BY DEF Sound, TypeInv, LocalsOK, Group
  <2>2. Moving(d)'
    <3>1. \A e \in Clients : Pos(e) # Succ(h) => Pos(e)' # Succ(h)
      BY <1>2, <1>4, <1>5, SuccInjective
    <3>2. status[Succ(h)] = "Free" => status'[Succ(h)] = "Free"
      BY <1>2, <1>3, <1>4
    <3> QED
      BY <1>1, <1>2, <1>3, <1>4, <2>1, <3>1, <3>2 DEF Local, Moving
  <2>3. Trying(d)'
    <3> SUFFICES ASSUME pc[d] = "cas", d # c, cur[d] # h
                 PROVE  /\ status'[cur[d]] # "Free"
                        /\ \/ got[d] < Msg(cur[d])
                           \/ \A e \in Clients : ~Waits(e, Msg(cur[d]))'
      BY <1>1, <1>3, <1>5 DEF Trying, Waits
    <3>1. /\ cur[d] \in Slots /\ status[cur[d]] # "Free" /\ Msg(cur[d]) \in Nat
          /\ got[d] < Msg(cur[d]) \/ \A e \in Clients : ~Waits(e, Msg(cur[d]))
      BY <2>1, SlotNumbers DEF Local, Trying, Locals
    <3>2. cur[d] = p => x # "Free"
      <4> SUFFICES ASSUME cur[d] = p, x = "Free" PROVE FALSE
        OBVIOUS
      <4>1. Waits(c, got[c]) /\ ~(got[d] < got[c])
        BY <1>2, <1>4 DEF Waits, Unread
      <4> QED
        BY <1>4, <3>1, <4>1
    <3>3. status'[cur[d]] # "Free"
      BY <1>3, <1>4, <3>1, <3>2
    <3>4. \A e \in Clients : Waits(e, Msg(cur[d]))' => Waits(e, Msg(cur[d]))
      <4>1. Msg(cur[d])' = Msg(cur[d])
        BY <1>1, <1>3, <1>5
      <4> QED
        BY <1>1, <1>3, <4>1 DEF Waits
    <3> QED
      BY <3>1, <3>3, <3>4
  <2>4. Holding(d)'
    <3> SUFFICES ASSUME Owns(d) PROVE Holding(d)'
      BY <1>7 DEF Holding
    <3>1. d # c /\ cur[d] \in Slots \ {p} /\ cur'[d] = cur[d]
      BY <1>2, <1>3, <1>4, <2>1 DEF Local, Holding, Owns
    <3>2. head[d] # NoSlot => head[d] \in Slots \ {p}
      BY <1>4, <2>1 DEF Local, Posting, TypeInv, TypeOK, Pointer
    <3>3. head[d] # NoSlot => \A e \in Clients : Ahead(e, head[d])' < Ahead(e, cur[d])'
      <4> SUFFICES ASSUME head[d] # NoSlot, NEW e \in Clients
                   PROVE  Ahead(e, head[d])' < Ahead(e, cur[d])'
        OBVIOUS
      <4>1. Ahead(e, head[d]) < Ahead(e, cur[d])
        BY <2>1 DEF Local, Holding
      <4>2. head'[d] = head[d]
        BY <1>1
      <4>3. CASE e # c
        BY <1>5, <3>1, <4>1, <4>2, <4>3 DEF Ahead
      <4>4. CASE e = c
        <5>1. Ahead(c, head[d])' = Ahead(c, head[d]) - 1 /\ Ahead(c, cur[d])' = Ahead(c, cur[d]) - 1
          BY <1>5, <3>1, <3>2, <4>2
        <5> QED
          BY <1>5, <3>1, <3>2, <4>1, <4>4, <5>1
      <4> QED
        BY <4>3, <4>4
    <3>4. pc[d] = "fill" => \A e \in Clients : Before(e, cur[d])'
      <4> SUFFICES ASSUME pc[d] = "fill", NEW e \in Clients PROVE Before(e, cur[d])'
        OBVIOUS
      <4>1. Before(e, cur[d])
        BY <2>1 DEF Local, Holding
      <4>2. PICK s \in Slots \ {p} : s = cur[d] /\ s = cur'[d]
        BY <3>1
      <4> QED
        BY <1>6, <4>1, <4>2
    <3>5. \A e \in Clients : ~Waits(e, Msg(cur[d]))' /\ head'[e] # cur[d]
      <4>1. Msg(cur[d])' = Msg(cur[d]) /\ Msg(cur[d]) \in Nat
        BY <1>5, <3>1, SlotNumbers
      <4> QED
        BY <1>1, <1>3, <2>1, <4>1 DEF Local, Holding, Waits
    <3>6. \A e \in Clients \ {d} : Owns(e)' => cur'[e] # cur[d]
      <4>1. \A e \in Clients \ {d} : Owns(e) => cur[e] # cur[d] /\ e # c
        BY <1>2, <2>1 DEF Local, Holding, Owns
      <4> QED
        BY <1>3, <1>7, <4>1
    <3> QED
      BY <1>1, <1>3, <2>1, <3>1, <3>3, <3>4, <3>5, <3>6 DEF Local, Holding
  <2>5. Posting(d)'
    <3>1. head[d] # NoSlot => head[d] \in Slots \ {p}
      BY <1>4, <2>1 DEF Local, Posting, TypeInv, TypeOK, Pointer
    <3> QED
      BY <1>1, <1>2, <1>3, <1>5, <2>1, <3>1 DEF Local, Posting, Taking
  <2>6. Polling(d)'
    <3>1. CASE d = c
      BY <1>3, <1>5, <3>1 DEF Polling, Standing, InPoll
    <3>2. CASE d # c
      <4>1. /\ Pos(d)' = Pos(d) /\ polled'[d] = polled[d] /\ pc'[d] = pc[d] /\ cur'[d] = cur[d]
            /\ Standing(d)' <=> Standing(d)
        BY <1>3, <1>5, <3>2 DEF Standing
      <4>2. polled[d] # NoSlot =>
              /\ status'[Pos(d)] \in {"Posted", "Free"}
              /\ \A s \in Slots : status'[s] = "Posted" /\ Msg(s) = got[d] => s = Pos(d)
              /\ status'[Pos(d)] = "Free" => ~Unread(got[d])
        <5> SUFFICES ASSUME polled[d] # NoSlot
                     PROVE  /\ status'[Pos(d)] \in {"Posted", "Free"}
                            /\ \A s \in Slots : status'[s] = "Posted" /\ Msg(s) = got[d] => s = Pos(d)
                            /\ status'[Pos(d)] = "Free" => ~Unread(got[d])
          OBVIOUS
        <5>1. /\ status[Pos(d)] \in {"Posted", "Free"} /\ Msg(Pos(d)) = got[d]
              /\ \A s \in Slots : status[s] = "Posted" /\ Msg(s) = got[d] => s = Pos(d)
              /\ status[Pos(d)] = "Free" => ~Unread(got[d])
          BY <2>1 DEF Local, Polling
        <5>2. CASE x = "Free" /\ Pos(d) = p
          BY <1>3, <1>4, <5>1, <5>2
        <5>3. CASE ~(x = "Free" /\ Pos(d) = p)
          BY <1>3, <1>4, <2>1, <5>1, <5>3
        <5> QED
          BY <5>2, <5>3
      <4>3. Standing(d) => status'[Pos(d)] = "Posted"
        <5> SUFFICES ASSUME Standing(d) PROVE status'[Pos(d)] = "Posted"
          OBVIOUS
        <5>1. status[Pos(d)] = "Posted" /\ Msg(Pos(d)) = got[d] /\ Unread(got[d])
          BY <2>1 DEF Local, Polling, Standing, Unread
        <5> QED
          BY <1>3, <1>4, <2>1, <5>1
      <4> QED
        BY <1>1, <1>2, <1>5, <1>7, <2>1, <4>1, <4>2, <4>3 DEF Local, Polling
    <3> QED
      BY <3>1, <3>2
  <2>7. Unchaining(d)'
    <3>1. CASE d = c
      BY <1>3, <3>1 DEF Unchaining
    <3>2. CASE d # c
      <4>1. ~Unread(got[d]) => ~Unread(got[d])'
        BY <1>1, <1>2, <1>7
      <4> QED
        BY <1>1, <1>3, <1>5, <2>1, <3>2, <4>1 DEF Local, Unchaining, Chain
    <3> QED
      BY <3>1, <3>2
  <2>8. Loading(d)'
    BY <1>1, <1>3, <1>5, <2>1 DEF Local, Loading
  <2> QED
    BY <2>2, <2>3, <2>4, <2>5, <2>6, <2>7, <2>8 DEF Local
<1> QED
  BY <1>9, <1>10, <1>11, <1>12, <1>13, <1>14, <1>15 DEF Sound

---------------------------------------------------------------------------
(* The steps of a closed group *)

(* What the calls of a closed group leave alone, and how they move a client. *)
Staying(c) ==
    /\ UNCHANGED <<id, ith, cliMask, leaving>>
    /\ \/ clientSlot' = clientSlot
       \/ cur[c] \in Slots /\ clientSlot' = [clientSlot EXCEPT ![ith[c]] = Succ(cur[c])]
    /\ \A d \in Clients \ {c} : pc'[d] = pc[d]
    /\ pc'[c] \in GroupLabels
    /\ lapped => lapped'

LEMMA StayingStep ==
    ASSUME TypeInv, Group, NEW c \in Clients, Staying(c)
    PROVE  Group'
<1>1. ASSUME NEW e \in Clients PROVE Pos(e)' \in Slots
  <2>1. Pos(e) \in Slots /\ ith'[e] = ith[e] /\ ith[e] \in Indices
    BY DEF Staying, Group, TypeInv, TypeOK
  <2>2. CASE clientSlot' = clientSlot
    BY <2>1, <2>2 DEF Pos
  <2>3. CASE cur[c] \in Slots /\ clientSlot' = [clientSlot EXCEPT ![ith[c]] = Succ(cur[c])]
    <3>1. Succ(cur[c]) \in Slots /\ clientSlot \in [Indices -> Pointer]
      BY <2>3, SuccInSlots DEF TypeInv, TypeOK
    <3>2. clientSlot'[ith[e]] = IF ith[e] = ith[c] THEN Succ(cur[c]) ELSE clientSlot[ith[e]]
      BY <2>1, <2>3, <3>1
    <3> QED
      BY <2>1, <3>1, <3>2 DEF Pos
  <2> QED
    BY <2>2, <2>3 DEF Staying
<1>2. \A e \in Clients : pc'[e] \in GroupLabels
  BY DEF Staying, Group
<1> QED
  BY <1>1, <1>2 DEF Staying, Group

(* The calls of a client that is connected and stays so. *)
MemberAction(c) ==
    \/ QuietAction(c)
    \/ PostTake(c) \/ PostMoveHead(c)
    \/ PostFillFirst(c) \/ PostFillNext(c) \/ PostPublish(c) \/ AbortFirst(c)
    \/ AbortPart(c) \/ PollFreePart(c)
    \/ PollDeliver(c) \/ PollClear(c)
    \/ PollSkip(c) \/ PollKeep(c) \/ PollFreeFirst(c)

LEMMA OnlyMemberActions ==
    ASSUME ClosedGroup, Group, NEW c \in Clients, Running(c) \/ Calling(c) \/ Crash(c)
    PROVE  MemberAction(c)
<1>1. pc[c] \in GroupLabels /\ id[c] # NotId /\ c \notin Leavers
  BY DEF Group, ClosedGroup
<1> USE DEF MemberAction, QuietAction
<1>2. CASE Running(c)
  <2>1. ~(InitRing(c) \/ InitMagic(c) \/ InitUnlock(c)
          \/ ConnectLock(c) \/ ConnectKnown(c) \/ ConnectCheck(c)
          \/ ConnectFull(c) \/ ConnectPick(c) \/ ConnectFail(c) \/ ConnectUnlock(c)
          \/ RegisterId(c) \/ RegisterSlot(c) \/ RegisterMask(c))
    BY <1>1 DEF InitRing, InitMagic, InitUnlock, ConnectLock, ConnectKnown, ConnectCheck,
                ConnectFull, ConnectPick, ConnectFail, ConnectUnlock, RegisterId,
                RegisterSlot, RegisterMask, At, GroupLabels
  <2>2. ~(DisconnectLock(c) \/ DisconnectMask(c) \/ FlushPoll(c)
          \/ DisconnectClearId(c) \/ DisconnectClearSlot(c) \/ DisconnectUnlock(c))
    BY <1>1 DEF DisconnectLock, DisconnectMask, FlushPoll, DisconnectClearId,
                DisconnectClearSlot, DisconnectUnlock, At, GroupLabels
  <2> QED
    BY <1>2, <2>1, <2>2 DEF Running
<1>3. CASE Calling(c)
  <2>1. ~Connect(c) /\ ~Disconnect(c)
    BY <1>1 DEF Connect, Disconnect
  <2> QED
    BY <1>3, <2>1 DEF Calling
<1> QED
  BY <1>2, <1>3

LEMMA MemberStays ==
    ASSUME TypeInv, Group, NEW c \in Clients, MemberAction(c)
    PROVE  Staying(c)
<1>1. /\ ~leaving[c] /\ pc[c] \in GroupLabels
      /\ pc \in [Clients -> Labels]
      /\ pc[c] \in InPoll => cur[c] \in Slots
  BY DEF Group, TypeInv, TypeOK, LocalsOK, Locals
<1> USE DEF At, Goto, Staying, GroupLabels, InPoll, shared, clients, history
<1>2. CASE PostReadHead(c)
  BY <1>1, <1>2 DEF PostReadHead
<1>3. CASE PostTake(c)
  BY <1>1, <1>3 DEF PostTake, Take
<1>4. CASE PostRetry(c)
  BY <1>1, <1>4 DEF PostRetry
<1>5. CASE PostMoveHead(c)
  BY <1>1, <1>5 DEF PostMoveHead
<1>6. CASE PostFillFirst(c)
  BY <1>1, <1>6 DEF PostFillFirst, Fill
<1>7. CASE PostFillNext(c)
  BY <1>1, <1>7 DEF PostFillNext, Fill
<1>8. CASE PostPublish(c)
  BY <1>1, <1>8 DEF PostPublish, PostDone
<1>9. CASE PostFail(c)
  BY <1>1, <1>9 DEF PostFail, PostDone
<1>10. CASE PostAbort(c)
  BY <1>1, <1>10 DEF PostAbort
<1>11. CASE AbortPart(c)
  BY <1>1, <1>11 DEF AbortPart, MarkTop
<1>12. CASE AbortFirst(c)
  BY <1>1, <1>12 DEF AbortFirst, MarkTop, PostDone
<1>13. CASE PollNothing(c)
  BY <1>1, <1>13 DEF PollNothing, Return
<1>14. CASE PollDeliver(c)
  BY <1>1, <1>14 DEF PollDeliver, Return
<1>15. CASE PollSkip(c)
  BY <1>1, <1>15 DEF PollSkip, Advance, Move, LoopOn, Return
<1>16. CASE PollSeen(c)
  BY <1>1, <1>16 DEF PollSeen
<1>17. CASE PollClear(c)
  BY <1>1, <1>17 DEF PollClear
<1>18. CASE PollKeep(c)
  BY <1>1, <1>18 DEF PollKeep, Advance, Move, LoopOn, Return
<1>19. CASE PollRecycle(c)
  BY <1>1, <1>19 DEF PollRecycle
<1>20. CASE PollFreePart(c)
  BY <1>1, <1>20 DEF PollFreePart, MarkTop
<1>21. CASE PollFreeFirst(c)
  BY <1>1, <1>21 DEF PollFreeFirst, Advance, Move, LoopOn, Return
<1>22. CASE Descend(c)
  BY <1>1, <1>22 DEF Descend
<1>23. CASE LoadPart(c)
  BY <1>1, <1>23 DEF LoadPart
<1>24. CASE Poll(c)
  BY <1>1, <1>24 DEF Poll, PollStart
<1>25. CASE LoadBytes(c)
  BY <1>1, <1>25 DEF LoadBytes
<1>26. CASE ClearBytes(c)
  BY <1>1, <1>26 DEF ClearBytes
<1>27. CASE Crash(c)
  BY <1>1, <1>27 DEF Crash
<1>28. ASSUME NEW n \in 1 .. MaxParts, Post(c, n) PROVE Staying(c)
  BY <1>1, <1>28 DEF Post
<1> QED
  BY <1>2, <1>3, <1>4, <1>5, <1>6, <1>7, <1>8, <1>9, <1>10, <1>11,
     <1>12, <1>13, <1>14, <1>15, <1>16, <1>17, <1>18, <1>19, <1>20, <1>21,
     <1>22, <1>23, <1>24, <1>25, <1>26, <1>27, <1>28
     DEF MemberAction, QuietAction

(* At the start everybody stands at the head of an empty ring. *)
LEMMA MessageInit == ASSUME ClosedGroup, Init PROVE MessageInv
<1> USE DEF Init
<1>1. /\ TypeInv /\ NoSlot \notin Slots /\ 0 \in Slots
      /\ \A c \in Clients : IdOf[c] # NotId
  BY TypeInit, RingAssumption DEF RingAssumption, Slots, NotId
<1>2. Group
  <2>1. \A c \in Clients : ith[c] \in cliMask /\ ith[c] \in Indices
    BY DEF ClosedGroup
  <2>2. \A c \in Clients : Pos(c) \in Slots
    BY <1>1, <2>1 DEF Pos
  <2> QED
    BY <1>1, <2>2 DEF Group, GroupLabels, ClosedGroup
<1>3. /\ \A s \in Slots : /\ status[s] = "Free" /\ Msg(s) = 0 /\ Rest(s) = 0
                          /\ dataCnt[s] = NoSlot
      /\ \A c \in Clients : /\ msg[c] = 0 /\ got[c] = 0 /\ polled[c] = NoSlot /\ pc[c] = "idle"
                            /\ head[c] = NoSlot /\ last[c] = NoSlot /\ buffer[c] = <<>>
  BY DEF ClosedGroup, Msg, Rest
<1>4. HeadUsable /\ Numbered /\ PostedOnce /\ PartOnce /\ Addressed
  BY <1>1, <1>3 DEF HeadUsable, Numbered, PostedOnce, PartOnce, Addressed
<1>5. Region /\ InTurn /\ Complete
  BY DEF Region, InTurn, Complete
<1>6. PartsAhead /\ PartsAfter /\ PartsKept /\ Links /\ Linked
  BY <1>1, <1>3 DEF PartsAhead, PartsAfter, PartsKept, Links, Linked
<1>7. ASSUME NEW c \in Clients PROVE Local(c)
  <2>1. Moving(c) /\ Trying(c) /\ Posting(c) /\ Polling(c) /\ Unchaining(c) /\ Loading(c)
    BY <1>3 DEF Moving, Trying, Posting, Taking, Polling, Standing, InPoll, Unchaining, Loading
  <2>2. Holding(c)
    BY <1>3 DEF Holding, Owns
  <2> QED
    BY <2>1, <2>2 DEF Local
<1> QED
  BY <1>2, <1>4, <1>5, <1>6, <1>7 DEF MessageInv, Sound

(* Before the first lap every step keeps the invariant; behind it only the
   group stays. *)
LEMMA MessageStep ==
    ASSUME ClosedGroup, TypeInv, MessageInv, [Next]_vars
    PROVE  MessageInv'
<1>1. CASE UNCHANGED vars
  <2> USE DEF vars, shared, slots, clients, walk, posting, history
  <2>1. Group' <=> Group
    BY <1>1 DEF Group, Pos
  <2>2. /\ HeadUsable' <=> HeadUsable
        /\ Numbered' <=> Numbered
        /\ PostedOnce' <=> PostedOnce
        /\ PartOnce' <=> PartOnce
        /\ Addressed' <=> Addressed
    BY <1>1 DEF HeadUsable, Numbered, PostedOnce, PartOnce, Addressed, Msg, Rest
  <2>3. /\ \A c : \A s : Ahead(c, s)' = Ahead(c, s)
        /\ \A c : Ahead(c, headSlot)' = Ahead(c, headSlot)
        /\ \A c : \A s : Before(c, s)' <=> Before(c, s)
        /\ \A s : \A m : Starts(s, m)' <=> Starts(s, m)
        /\ \A c : \A m : Waits(c, m)' <=> Waits(c, m)
        /\ \A m : Unread(m)' <=> Unread(m)
        /\ \A s : Msg(s)' = Msg(s) /\ Rest(s)' = Rest(s)
        /\ \A c : Pos(c)' = Pos(c)
    BY <1>1 DEF Ahead, Pos, Before, Starts, First, Msg, Rest, Waits, Unread, Standing
  <2>4. /\ Region' <=> Region
        /\ InTurn' <=> InTurn
        /\ Complete' <=> Complete
    BY <1>1, <2>3 DEF Region, InTurn, Complete
  <2>5. /\ PartsAhead' <=> PartsAhead
        /\ PartsAfter' <=> PartsAfter
        /\ PartsKept' <=> PartsKept
        /\ Links' <=> Links
        /\ Linked' <=> Linked
    BY <1>1, <2>3 DEF PartsAhead, PartsAfter, PartsKept, Links, Linked
  <2>6. \A c : Local(c)' <=> Local(c)
    BY <1>1, <2>3 DEF Local, Moving, Trying, Holding, Owns, Taking, Posting, Polling, Standing,
                      InPoll, Unchaining, Chain, Loading
  <2> QED
    BY <1>1, <2>1, <2>2, <2>4, <2>5, <2>6 DEF MessageInv, Sound
<1>2. ASSUME NEW c \in Clients, Running(c) \/ Calling(c) \/ Crash(c) PROVE MessageInv'
  <2>1. Group /\ MemberAction(c) /\ Staying(c)
    BY <1>2, OnlyMemberActions, MemberStays DEF MessageInv
  <2>2. Group'
    BY <2>1, StayingStep
  <2>3. ASSUME ~lapped' PROVE Sound'
    <3>1. Sound
      BY <2>1, <2>3 DEF MessageInv, Staying
    <3> QED
      BY <2>1, <2>3, <3>1, QuietActionStep, TakeStep, MoveHeadStep, FillStep, EndStep,
         CutStep, DeliverStep, ClearStep, AdvanceStep DEF MemberAction
  <2> QED
    BY <2>2, <2>3 DEF MessageInv
<1> QED
  BY <1>1, <1>2 DEF Next

---------------------------------------------------------------------------
(* What follows for every behaviour *)

LEMMA MessageAlways == ASSUME ClosedGroup PROVE Spec => [](TypeInv /\ MessageInv)
<1>1. Init => TypeInv /\ MessageInv
  BY TypeInit, MessageInit
<1>2. TypeInv /\ MessageInv /\ [Next]_vars => (TypeInv /\ MessageInv)'
  BY TypeStep, MessageStep
<1> QED
  BY <1>1, <1>2, PTL DEF Spec

(* The assert of post holds where it stands: the first slot of a message is
   still being written when its poster publishes it, unless the head once came
   round to a slot in use. *)
THEOREM PublishedAsWritten == ASSUME ClosedGroup PROVE Spec => []WritingUntilPosted
<1>1. TypeInv /\ MessageInv => WritingUntilPosted
  BY NoSlotApart DEF TypeInv, LocalsOK, Locals, MessageInv, Sound, Local, Posting,
                     WritingUntilPosted
<1> QED
  BY MessageAlways, <1>1, PTL

(* The slot a client was handed is not recycled under it, whichever clients
   post, poll or die meanwhile. *)
THEOREM HandedSlotStays == ASSUME ClosedGroup PROVE Spec => []PolledStaysPosted
<1>1. TypeInv /\ MessageInv => PolledStaysPosted
  BY DEF MessageInv, Sound, Local, Polling, Standing, PolledStaysPosted
<1> QED
  BY MessageAlways, <1>1, PTL

(* loadBytes copies the handed message whole and in order, although its slots
   lie in the shared memory while it goes down the chain. *)
THEOREM LoadedWhole == ASSUME ClosedGroup PROVE Spec => []WholeMessage
<1>1. TypeInv /\ MessageInv => WholeMessage
  <2> SUFFICES ASSUME TypeInv, MessageInv, ~lapped, NEW c \in Clients, pc[c] = "idle",
                      NEW k \in DOMAIN buffer[c]
               PROVE  buffer[c][k] = <<buffer[c][1][1], Len(buffer[c]) - k + 1>>
    BY DEF WholeMessage
  <2>1. buffer[c] \in Seq(Nat \X Nat)
    BY DEF TypeInv, TypeOK
  <2>2. k \in 1 .. Len(buffer[c])
    BY <2>1
  <2> QED
    BY <2>2 DEF MessageInv, Sound, Local, Loading
<1> QED
  BY MessageAlways, <1>1, PTL

(* Every member is handed every message once and in the order in which they
   were started: poll passes over nothing but messages that were given up. *)
THEOREM EachInOrderOnce == ASSUME ClosedGroup PROVE Spec => InOrderOnce
<1>1. ASSUME ClosedGroup, TypeInv, MessageInv, [Next]_vars
      PROVE  [~lapped => \A c \in Members : PollDeliver(c) =>
                /\ got'[c] > got[c]
                /\ (got[c] + 1) .. (got'[c] - 1) \subseteq aborted]_vars
  <2> SUFFICES ASSUME ~lapped, NEW c \in Members, PollDeliver(c)
               PROVE  /\ got'[c] > got[c]
                      /\ (got[c] + 1) .. (got'[c] - 1) \subseteq aborted
    OBVIOUS
  <2>1. Group /\ Sound /\ c \in Clients
    <3>1. c \in Clients
      BY RingAssumption DEF RingAssumption
    <3> QED
      BY <1>1, <3>1 DEF MessageInv
  <2> DEFINE m == Msg(Pos(c))
  <2>2. /\ cur[c] = Pos(c) /\ m \in 1 .. nmsg /\ got[c] < m
        /\ \A s \in Slots, n \in 1 .. nmsg : Starts(s, n) /\ got[c] < n => m <= n
    BY <1>1, <2>1, DeliverGuard
  <2>3. got'[c] = m /\ got[c] \in Nat /\ nmsg \in Nat
    <3>1. got \in [Clients -> Nat] /\ nmsg \in Nat
      BY <1>1 DEF TypeInv, TypeOK
    <3> QED
      BY <2>1, <2>2, <3>1 DEF PollDeliver, Msg
  <2> HIDE DEF m
  <2>4. ASSUME NEW n \in (got[c] + 1) .. (m - 1) PROVE n \in aborted
    <3>1. n \in 1 .. nmsg /\ got[c] < n /\ ~(m <= n)
      BY <2>2, <2>3
    <3> QED
      BY <2>1, <2>2, <3>1 DEF Sound, Complete
  <2> QED
    BY <2>2, <2>3, <2>4
<1> QED
  BY MessageAlways, <1>1, PTL DEF Spec, InOrderOnce

(* Only the recursion that recycles a message takes a posted slot back. *)
LEMMA OnlyRecycled ==
    ASSUME TypeInv, Group, Sound, NEW c \in Clients, MemberAction(c),
           NEW s \in Slots, status[s] = "Posted", status'[s] # "Posted"
    PROVE  pc[c] = "free" /\ s = Top(c)
<1> USE DEF At
<1>0. status \in [Slots -> Status]
  BY DEF TypeInv, TypeOK
<1>1. CASE QuietAction(c)
  BY <1>1 DEF QuietAction, PostReadHead, PostRetry, PostFail, PostAbort, PollNothing, PollSeen,
              PollRecycle, Descend, LoadPart, Post, Poll, PollStart, LoadBytes, ClearBytes,
              Crash, slots
<1>2. CASE PostTake(c)
  BY <1>0, <1>2 DEF PostTake, Take
<1>3. CASE PostMoveHead(c) \/ PostFillFirst(c) \/ PollDeliver(c) \/ PollClear(c)
           \/ PollSkip(c) \/ PollKeep(c)
  BY <1>3 DEF PostMoveHead, PostFillFirst, PollDeliver, PollClear, PollSkip, PollKeep, slots
<1>4. CASE PostFillNext(c)
  <2>1. status[cur[c]] = "Writing"
    BY <1>4 DEF PostFillNext, Sound, Local, Posting, Holding, Owns, Taking
  <2> QED
    BY <1>0, <1>4, <2>1 DEF PostFillNext
<1>5. CASE PostPublish(c)
  BY <1>0, <1>5 DEF PostPublish
<1>6. CASE AbortFirst(c) \/ AbortPart(c)
  <2>1. /\ pc[c] = "aborting" /\ stack[c] # <<>> /\ stack[c] \in Seq(Slots)
        /\ Chain(c) /\ Msg(stack[c][1]) = msg[c]
    BY <1>6 DEF AbortFirst, AbortPart, TypeInv, TypeOK, LocalsOK, Locals, Sound, Local,
                Unchaining, Posting
  <2>2. Msg(Top(c)) = msg[c]
    <3>1. Len(stack[c]) \in 1 .. Len(stack[c])
      BY <2>1
    <3> QED
      BY <2>1, <3>1 DEF Chain, Top
  <2>3. s # Top(c)
    BY <2>2 DEF Sound, PostedOnce
  <2> QED
    BY <1>0, <1>6, <2>3 DEF AbortFirst, AbortPart, MarkTop
<1>7. CASE PollFreePart(c) \/ PollFreeFirst(c)
  BY <1>0, <1>7 DEF PollFreePart, PollFreeFirst, MarkTop
<1> QED
  BY <1>1, <1>2, <1>3, <1>4, <1>5, <1>6, <1>7 DEF MemberAction

(* A message leaves its slot only when every member has been handed it: the
   mask the poster wrote names them all, and each takes its own bit out. *)
THEOREM RecycledWhenRead == ASSUME ClosedGroup PROVE Spec => RecycledAfterAll
<1>1. ASSUME ClosedGroup, TypeInv, MessageInv, [Next]_vars
      PROVE  [~lapped => \A s \in Slots : status[s] = "Posted" /\ status'[s] # "Posted" =>
                \A c \in Members : got[c] >= data[s][1]]_vars
  <2> SUFFICES ASSUME ~lapped, NEW s \in Slots, status[s] = "Posted", status'[s] # "Posted",
                      NEW e \in Members
               PROVE  got[e] >= data[s][1]
    OBVIOUS
  <2>1. Group /\ Sound /\ e \in Clients
    <3>1. e \in Clients
      BY RingAssumption DEF RingAssumption
    <3> QED
      BY <1>1, <3>1 DEF MessageInv
  <2>2. status' # status
    OBVIOUS
  <2>3. PICK c \in Clients : MemberAction(c)
    BY <1>1, <2>1, <2>2, OnlyMemberActions DEF Next, vars, slots
  <2>4. pc[c] = "free" /\ s = Top(c)
    BY <1>1, <2>1, <2>3, OnlyRecycled
  <2>5. Msg(s) = got[c] /\ ~Unread(got[c])
    <3>1. /\ stack[c] # <<>> /\ stack[c] \in Seq(Slots)
          /\ Chain(c) /\ stack[c][1] = cur[c] /\ cur[c] = Pos(c) /\ ~Unread(got[c])
          /\ Msg(Pos(c)) = got[c]
      BY <1>1, <2>1, <2>4 DEF TypeInv, TypeOK, LocalsOK, Locals, Sound, Local, Unchaining, Polling, InPoll
    <3>2. Len(stack[c]) \in 1 .. Len(stack[c])
      BY <3>1
    <3> QED
      BY <2>4, <3>1, <3>2 DEF Chain, Top
  <2>6. Msg(s) \in Nat /\ got[e] \in Nat
    BY <1>1, <2>1, SlotNumbers DEF TypeInv, TypeOK
  <2> QED
    BY <2>1, <2>5, <2>6 DEF Unread, Msg
<1> QED
  BY MessageAlways, <1>1, PTL DEF Spec, RecycledAfterAll
=============================================================================
