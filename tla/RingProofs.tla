---------------------------- MODULE RingProofs ----------------------------
(***************************************************************************)
(* What holds of IPCRingMessenger for any number of clients, slots and     *)
(* messages, while clients come, go and die: no call indexes outside the   *)
(* ring, the client table or its own recursion stack; the lock keeps the   *)
(* critical sections of init, connect and disconnect apart; and, as long   *)
(* as no two connects overlap, indices and ids stay apart and every index  *)
(* a message can be addressed to has a reader.                             *)
(***************************************************************************)
EXTENDS RingProperties, SequenceTheorems, TLAPS

---------------------------------------------------------------------------
(* Type correctness *)

(* What the locals of a call hold while they are in use. *)
Locals(c) ==
    /\ pc[c] \in {"cas", "moveHead", "fill", "load"} \cup InPoll
          => cur[c] \in Slots
    /\ pc[c] \in {"readHead", "cas"} => tries[c] > 0
    /\ pc[c] \in {"readHead", "cas", "moveHead", "fill"} => left[c] > 0
    /\ pc[c] = "publish" => head[c] \in Slots
    /\ last[c] # NoSlot => head[c] # NoSlot
    /\ pc[c] \in {"free", "aborting"} => stack[c] # <<>>

LocalsOK == \A c \in Clients : Locals(c)

TypeInv == TypeOK /\ LocalsOK

LEMMA SuccInSlots == \A s \in Slots : Succ(s) \in Slots
BY RingAssumption DEF RingAssumption, Succ, Slots

(* The stack without its top. *)
LEMMA PopStack ==
    ASSUME NEW q \in Seq(Slots), q # <<>>
    PROVE  /\ SubSeq(q, 1, Len(q) - 1) \in Seq(Slots)
           /\ Len(SubSeq(q, 1, Len(q) - 1)) = Len(q) - 1
           /\ Len(q) \in Nat \ {0}
           /\ q[Len(q)] \in Slots
           /\ Len(q) # 1 => q[Len(q) - 1] \in Slots
           /\ Len(q) > 1 => SubSeq(q, 1, Len(q) - 1) # <<>>
<1> DEFINE n == Len(q) - 1
<1>1. Len(q) \in Nat \ {0} /\ q[Len(q)] \in Slots
  BY EmptySeq
<1>2. n \in Nat /\ \A i \in 1 .. n : q[i] \in Slots
  BY <1>1
<1> HIDE DEF n
<1>3. SubSeq(q, 1, n) \in Seq(Slots) /\ Len(SubSeq(q, 1, n)) = n
  BY <1>2, SubSeqProperties
<1>4. Len(q) > 1 => SubSeq(q, 1, n) # <<>>
  <2>1. \A k \in Nat : k > 1 => k - 1 # 0
    OBVIOUS
  <2>2. Len(q) > 1 => n # 0
    BY <1>1, <2>1, Zenon DEF n
  <2> QED
    BY <2>2, <1>3, EmptySeq
<1> QED
  BY <1>1, <1>2, <1>3, <1>4 DEF n

LEMMA PushStack ==
    ASSUME NEW q \in Seq(Slots), NEW s \in Slots
    PROVE  Append(q, s) \in Seq(Slots) /\ Append(q, s) # <<>>
BY AppendProperties

(* The end of the loop body of poll: the client stands on a slot again, in
   the loop, back at its caller or in the flush of disconnect. *)
LEMMA AdvanceTypes ==
    ASSUME TypeOK, NEW c \in Clients, cur[c] \in Slots, Advance(c)
    PROVE  /\ pc' \in [Clients -> Labels]
           /\ clientSlot' \in [Indices -> Pointer]
           /\ polled' \in [Clients -> Pointer]
           /\ cur' \in [Clients -> Pointer]
           /\ callSlot' \in [Clients -> Pointer]
           /\ pc'[c] \in {"idle", "flush", "clearId", "look"}
           /\ pc'[c] = "look" => cur'[c] \in Slots
           /\ \A d \in Clients \ {c} : pc'[d] = pc[d] /\ cur'[d] = cur[d]
<1> USE DEF TypeOK, Pointer, Labels, Goto
<1>1. Succ(cur[c]) \in Slots
  BY SuccInSlots
<1>2. clientSlot' \in [Indices -> Pointer] /\ polled' \in [Clients -> Pointer]
  BY <1>1 DEF Advance, Move
<1>3. CASE Return(c, FALSE)
  <2>1. pc' \in [Clients -> Labels] /\ pc'[c] \in {"idle", "flush", "clearId"}
    BY <1>3 DEF Return
  <2> QED
    BY <1>2, <1>3, <2>1 DEF Return
<1>4. CASE LoopOn(c)
  BY <1>1, <1>2, <1>4 DEF LoopOn
<1> QED
  BY <1>3, <1>4 DEF Advance

LEMMA TypeInit == Init => TypeInv
<1> SUFFICES ASSUME Init PROVE TypeInv
  OBVIOUS
<1>1. 0 \in Slots /\ 0 \in Indices
  BY RingAssumption DEF RingAssumption, Slots, Indices
<1>2. clientId \in [Indices -> Nat]
  <2> SUFFICES ASSUME NEW i \in Indices PROVE clientId[i] \in Nat
    BY DEF Init
  <2>1. CASE \E c \in Members : ith[c] = i
    <3>1. (CHOOSE c \in Members : ith[c] = i) \in Clients
      BY <2>1, RingAssumption DEF RingAssumption
    <3> QED
      BY <2>1, <3>1, RingAssumption DEF RingAssumption, Init
  <2>2. CASE ~\E c \in Members : ith[c] = i
    BY <2>2 DEF Init, NotId
  <2> QED
    BY <2>1, <2>2
<1>3. TypeOK
  <2>1. pc \in [Clients -> Labels]
    BY DEF Init, Labels
  <2>2. buffer \in [Clients -> Seq(Nat \X Nat)] /\ stack \in [Clients -> Seq(Slots)]
    BY DEF Init
  <2>3. /\ magic \in BOOLEAN
        /\ cliMask \in SUBSET Indices
        /\ clientSlot \in [Indices -> Pointer]
    BY <1>1, RingAssumption DEF RingAssumption, Init, Pointer
  <2>4. id \in [Clients -> Nat]
    BY RingAssumption DEF RingAssumption, Init, NotId
  <2> QED
    BY <1>1, <1>2, <2>1, <2>2, <2>3, <2>4 DEF Init, TypeOK, Status, Pointer
<1>4. LocalsOK
  BY DEF Init, LocalsOK, Locals, InPoll
<1> QED
  BY <1>3, <1>4 DEF TypeInv

LEMMA TypeStep == TypeInv /\ [Next]_vars => TypeInv'
<1> SUFFICES ASSUME TypeInv, [Next]_vars PROVE TypeInv'
  OBVIOUS
<1>0. /\ 0 \in Slots /\ 0 \in Indices
      /\ NoSlot \notin Slots
      /\ NumSlots \in Nat
      /\ TryCount \in Nat \ {0}
      /\ IdOf \in [Clients -> Nat]
  BY RingAssumption DEF RingAssumption, Slots, Indices
<1> USE DEF TypeInv, TypeOK, InPoll, Labels, Status, Pointer, At, Goto
<1>1. CASE UNCHANGED vars
  BY <1>1 DEF vars, shared, slots, clients, walk, posting, history, LocalsOK, Locals
<1>2. ASSUME NEW c \in Clients, Running(c) PROVE TypeInv'
  <2>1. CASE InitRing(c)
    <3>1. TypeOK'
      BY <1>0, <2>1 DEF InitRing, LocalsOK, Locals, shared, slots, clients, walk, posting, history, NotId
    <3>2. Locals(c)'
      BY <1>0, <2>1 DEF InitRing, LocalsOK, Locals, shared, slots, clients, walk, posting, history, NotId
    <3>3. ASSUME NEW d \in Clients, d # c PROVE Locals(d)'
      BY <2>1, <3>3 DEF InitRing, LocalsOK, Locals, shared, slots, clients, walk, posting, history, NotId
    <3> QED
      BY <3>1, <3>2, <3>3 DEF LocalsOK
  <2>2. CASE InitMagic(c)
    <3>1. TypeOK'
      BY <1>0, <2>2 DEF InitMagic, LocalsOK, Locals, shared, slots, clients, walk, posting, history, NotId
    <3>2. Locals(c)'
      BY <1>0, <2>2 DEF InitMagic, LocalsOK, Locals, shared, slots, clients, walk, posting, history, NotId
    <3>3. ASSUME NEW d \in Clients, d # c PROVE Locals(d)'
      BY <2>2, <3>3 DEF InitMagic, LocalsOK, Locals, shared, slots, clients, walk, posting, history, NotId
    <3> QED
      BY <3>1, <3>2, <3>3 DEF LocalsOK
  <2>3. CASE InitUnlock(c)
    <3>1. TypeOK'
      BY <1>0, <2>3 DEF InitUnlock, LocalsOK, Locals, shared, slots, clients, walk, posting, history, NotId
    <3>2. Locals(c)'
      BY <1>0, <2>3 DEF InitUnlock, LocalsOK, Locals, shared, slots, clients, walk, posting, history, NotId
    <3>3. ASSUME NEW d \in Clients, d # c PROVE Locals(d)'
      BY <2>3, <3>3 DEF InitUnlock, LocalsOK, Locals, shared, slots, clients, walk, posting, history, NotId
    <3> QED
      BY <3>1, <3>2, <3>3 DEF LocalsOK
  <2>4. CASE ConnectLock(c)
    <3>1. TypeOK'
      BY <1>0, <2>4 DEF ConnectLock, Acquire, LocalsOK, Locals, shared, slots, clients, walk, posting, history, NotId
    <3>2. Locals(c)'
      BY <1>0, <2>4 DEF ConnectLock, Acquire, LocalsOK, Locals, shared, slots, clients, walk, posting, history, NotId
    <3>3. ASSUME NEW d \in Clients, d # c PROVE Locals(d)'
      BY <2>4, <3>3 DEF ConnectLock, Acquire, LocalsOK, Locals, shared, slots, clients, walk, posting, history, NotId
    <3> QED
      BY <3>1, <3>2, <3>3 DEF LocalsOK
  <2>5. CASE ConnectKnown(c)
    <3>1. TypeOK'
      BY <1>0, <2>5 DEF ConnectKnown, LocalsOK, Locals, shared, slots, clients, walk, posting, history, NotId
    <3>2. Locals(c)'
      BY <1>0, <2>5 DEF ConnectKnown, LocalsOK, Locals, shared, slots, clients, walk, posting, history, NotId
    <3>3. ASSUME NEW d \in Clients, d # c PROVE Locals(d)'
      BY <2>5, <3>3 DEF ConnectKnown, LocalsOK, Locals, shared, slots, clients, walk, posting, history, NotId
    <3> QED
      BY <3>1, <3>2, <3>3 DEF LocalsOK
  <2>6. CASE ConnectCheck(c)
    <3>1. TypeOK'
      BY <1>0, <2>6 DEF ConnectCheck, LocalsOK, Locals, shared, slots, clients, walk, posting, history, NotId
    <3>2. Locals(c)'
      BY <1>0, <2>6 DEF ConnectCheck, LocalsOK, Locals, shared, slots, clients, walk, posting, history, NotId
    <3>3. ASSUME NEW d \in Clients, d # c PROVE Locals(d)'
      BY <2>6, <3>3 DEF ConnectCheck, LocalsOK, Locals, shared, slots, clients, walk, posting, history, NotId
    <3> QED
      BY <3>1, <3>2, <3>3 DEF LocalsOK
  <2>7. CASE ConnectFull(c)
    <3>1. TypeOK'
      BY <1>0, <2>7 DEF ConnectFull, LocalsOK, Locals, shared, slots, clients, walk, posting, history, NotId
    <3>2. Locals(c)'
      BY <1>0, <2>7 DEF ConnectFull, LocalsOK, Locals, shared, slots, clients, walk, posting, history, NotId
    <3>3. ASSUME NEW d \in Clients, d # c PROVE Locals(d)'
      BY <2>7, <3>3 DEF ConnectFull, LocalsOK, Locals, shared, slots, clients, walk, posting, history, NotId
    <3> QED
      BY <3>1, <3>2, <3>3 DEF LocalsOK
  <2>8. CASE ConnectPick(c)
    <3>1. id' \in [Clients -> Nat]
      BY <1>0, <2>8 DEF ConnectPick, FreeIndices, LocalsOK, Locals, shared, slots, clients, walk, posting, history, NotId
    <3>2. ith' \in [Clients -> Indices]
      BY <1>0, <2>8 DEF ConnectPick, FreeIndices, LocalsOK, Locals, shared, slots, clients, walk, posting, history, NotId
    <3>3. TypeOK'
      BY <2>8, <3>1, <3>2 DEF ConnectPick, FreeIndices, shared, slots, clients, walk, posting, history, NotId
    <3>4. Locals(c)'
      BY <1>0, <2>8 DEF ConnectPick, FreeIndices, LocalsOK, Locals, shared, slots, clients, walk, posting, history, NotId
    <3>5. ASSUME NEW d \in Clients, d # c PROVE Locals(d)'
      BY <2>8, <3>5 DEF ConnectPick, FreeIndices, LocalsOK, Locals, shared, slots, clients, walk, posting, history, NotId
    <3> QED
      BY <3>3, <3>4, <3>5 DEF LocalsOK
  <2>9. CASE ConnectFail(c)
    <3>1. TypeOK'
      BY <1>0, <2>9 DEF ConnectFail, Release, LocalsOK, Locals, shared, slots, clients, walk, posting, history, NotId
    <3>2. Locals(c)'
      BY <1>0, <2>9 DEF ConnectFail, Release, LocalsOK, Locals, shared, slots, clients, walk, posting, history, NotId
    <3>3. ASSUME NEW d \in Clients, d # c PROVE Locals(d)'
      BY <2>9, <3>3 DEF ConnectFail, Release, LocalsOK, Locals, shared, slots, clients, walk, posting, history, NotId
    <3> QED
      BY <3>1, <3>2, <3>3 DEF LocalsOK
  <2>10. CASE ConnectUnlock(c)
    <3>1. TypeOK'
      BY <1>0, <2>10 DEF ConnectUnlock, Release, LocalsOK, Locals, shared, slots, clients, walk, posting, history, NotId
    <3>2. Locals(c)'
      BY <1>0, <2>10 DEF ConnectUnlock, Release, LocalsOK, Locals, shared, slots, clients, walk, posting, history, NotId
    <3>3. ASSUME NEW d \in Clients, d # c PROVE Locals(d)'
      BY <2>10, <3>3 DEF ConnectUnlock, Release, LocalsOK, Locals, shared, slots, clients, walk, posting, history, NotId
    <3> QED
      BY <3>1, <3>2, <3>3 DEF LocalsOK
  <2>11. CASE RegisterId(c)
    <3>1. TypeOK'
      BY <1>0, <2>11 DEF RegisterId, LocalsOK, Locals, shared, slots, clients, walk, posting, history, NotId
    <3>2. Locals(c)'
      BY <1>0, <2>11 DEF RegisterId, LocalsOK, Locals, shared, slots, clients, walk, posting, history, NotId
    <3>3. ASSUME NEW d \in Clients, d # c PROVE Locals(d)'
      BY <2>11, <3>3 DEF RegisterId, LocalsOK, Locals, shared, slots, clients, walk, posting, history, NotId
    <3> QED
      BY <3>1, <3>2, <3>3 DEF LocalsOK
  <2>12. CASE RegisterSlot(c)
    <3>1. TypeOK'
      BY <1>0, <2>12 DEF RegisterSlot, LocalsOK, Locals, shared, slots, clients, walk, posting, history, NotId
    <3>2. Locals(c)'
      BY <1>0, <2>12 DEF RegisterSlot, LocalsOK, Locals, shared, slots, clients, walk, posting, history, NotId
    <3>3. ASSUME NEW d \in Clients, d # c PROVE Locals(d)'
      BY <2>12, <3>3 DEF RegisterSlot, LocalsOK, Locals, shared, slots, clients, walk, posting, history, NotId
    <3> QED
      BY <3>1, <3>2, <3>3 DEF LocalsOK
  <2>13. CASE RegisterMask(c)
    <3>1. TypeOK'
      BY ZenonT(60), <1>0, <2>13 DEF RegisterMask, LocalsOK, Locals, shared, slots, clients, walk, posting, history, NotId
    <3>2. Locals(c)'
      BY <1>0, <2>13 DEF RegisterMask, LocalsOK, Locals, shared, slots, clients, walk, posting, history, NotId
    <3>3. ASSUME NEW d \in Clients, d # c PROVE Locals(d)'
      BY <2>13, <3>3 DEF RegisterMask, LocalsOK, Locals, shared, slots, clients, walk, posting, history, NotId
    <3> QED
      BY <3>1, <3>2, <3>3 DEF LocalsOK
  <2>14. CASE PostReadHead(c)
    <3>1. TypeOK'
      BY <1>0, <2>14 DEF PostReadHead, LocalsOK, Locals, shared, slots, clients, walk, posting, history, NotId
    <3>2. Locals(c)'
      BY <1>0, <2>14 DEF PostReadHead, LocalsOK, Locals, shared, slots, clients, walk, posting, history, NotId
    <3>3. ASSUME NEW d \in Clients, d # c PROVE Locals(d)'
      BY <2>14, <3>3 DEF PostReadHead, LocalsOK, Locals, shared, slots, clients, walk, posting, history, NotId
    <3> QED
      BY <3>1, <3>2, <3>3 DEF LocalsOK
  <2>15. CASE PostTake(c)
    <3>1. status' \in [Slots -> Status]
      BY <1>0, <2>15 DEF PostTake, Take, LocalsOK, Locals, shared, slots, clients, walk, posting, history, NotId
    <3>2. nmsg' \in Nat
      BY <1>0, <2>15 DEF PostTake, Take, LocalsOK, Locals, shared, slots, clients, walk, posting, history, NotId
    <3>3. msg' \in [Clients -> Nat]
      BY SMTT(30), <1>0, <2>15 DEF PostTake, Take, LocalsOK, Locals, shared, slots, clients, walk, posting, history, NotId
    <3>4. lapped' \in BOOLEAN
      BY <1>0, <2>15 DEF PostTake, Take, LocalsOK, Locals, shared, slots, clients, walk, posting, history, NotId
    <3>5. TypeOK'
      BY <2>15, <3>1, <3>2, <3>3, <3>4 DEF PostTake, Take, shared, slots, clients, walk, posting, history, NotId
    <3>6. Locals(c)'
      BY <1>0, <2>15 DEF PostTake, Take, LocalsOK, Locals, shared, slots, clients, walk, posting, history, NotId
    <3>7. ASSUME NEW d \in Clients, d # c PROVE Locals(d)'
      BY <2>15, <3>7 DEF PostTake, Take, LocalsOK, Locals, shared, slots, clients, walk, posting, history, NotId
    <3> QED
      BY <3>5, <3>6, <3>7 DEF LocalsOK
  <2>16. CASE PostRetry(c)
    <3>1. pc' \in [Clients -> Labels]
      BY <1>0, <2>16 DEF PostRetry, LocalsOK, Locals, shared, slots, clients, walk, posting, history, NotId
    <3>2. tries' \in [Clients -> Nat]
      BY SMTT(30), <1>0, <2>16 DEF PostRetry, LocalsOK, Locals, shared, slots, clients, walk, posting, history, NotId
    <3>3. TypeOK'
      BY <2>16, <3>1, <3>2 DEF PostRetry, shared, slots, clients, walk, posting, history, NotId
    <3>4. Locals(c)'
      BY SMTT(30), <1>0, <2>16 DEF PostRetry, LocalsOK, Locals, shared, slots, clients, walk, posting, history, NotId
    <3>5. ASSUME NEW d \in Clients, d # c PROVE Locals(d)'
      BY <2>16, <3>5 DEF PostRetry, LocalsOK, Locals, shared, slots, clients, walk, posting, history, NotId
    <3> QED
      BY <3>3, <3>4, <3>5 DEF LocalsOK
  <2>17. CASE PostMoveHead(c)
    <3>1. TypeOK'
      BY <1>0, <2>17, SuccInSlots DEF PostMoveHead, LocalsOK, Locals, shared, slots, clients, walk, posting, history, NotId
    <3>2. Locals(c)'
      BY <1>0, <2>17, SuccInSlots DEF PostMoveHead, LocalsOK, Locals, shared, slots, clients, walk, posting, history, NotId
    <3>3. ASSUME NEW d \in Clients, d # c PROVE Locals(d)'
      BY <2>17, <3>3 DEF PostMoveHead, LocalsOK, Locals, shared, slots, clients, walk, posting, history, NotId
    <3> QED
      BY <3>1, <3>2, <3>3 DEF LocalsOK
  <2>18. CASE PostFillFirst(c)
    <3>1. pc' \in [Clients -> Labels]
      BY <1>0, <2>18 DEF PostFillFirst, Fill, LocalsOK, Locals, shared, slots, clients, walk, posting, history, NotId
    <3>2. slotMask' \in [Slots -> SUBSET Indices]
      BY <1>0, <2>18 DEF PostFillFirst, Fill, LocalsOK, Locals, shared, slots, clients, walk, posting, history, NotId
    <3>3. data' \in [Slots -> Nat \X Nat]
      BY <1>0, <2>18 DEF PostFillFirst, Fill, LocalsOK, Locals, shared, slots, clients, walk, posting, history, NotId
    <3>4. dataCnt' \in [Slots -> Pointer]
      BY <1>0, <2>18 DEF PostFillFirst, Fill, LocalsOK, Locals, shared, slots, clients, walk, posting, history, NotId
    <3>5. last' \in [Clients -> Pointer]
      BY <1>0, <2>18 DEF PostFillFirst, Fill, LocalsOK, Locals, shared, slots, clients, walk, posting, history, NotId
    <3>6. left' \in [Clients -> Nat]
      BY SMTT(30), <1>0, <2>18 DEF PostFillFirst, Fill, LocalsOK, Locals, shared, slots, clients, walk, posting, history, NotId
    <3>7. tries' \in [Clients -> Nat]
      BY <1>0, <2>18 DEF PostFillFirst, Fill, LocalsOK, Locals, shared, slots, clients, walk, posting, history, NotId
    <3>8. head' \in [Clients -> Pointer]
      BY <1>0, <2>18 DEF PostFillFirst, Fill, LocalsOK, Locals, shared, slots, clients, walk, posting, history, NotId
    <3>9. TypeOK'
      BY <2>18, <3>1, <3>2, <3>3, <3>4, <3>5, <3>6, <3>7, <3>8 DEF PostFillFirst, Fill, shared, slots, clients, walk, posting, history, NotId
    <3>10. Locals(c)'
      BY SMTT(30), <1>0, <2>18 DEF PostFillFirst, Fill, LocalsOK, Locals, shared, slots, clients, walk, posting, history, NotId
    <3>11. ASSUME NEW d \in Clients, d # c PROVE Locals(d)'
      BY <2>18, <3>11 DEF PostFillFirst, Fill, LocalsOK, Locals, shared, slots, clients, walk, posting, history, NotId
    <3> QED
      BY <3>9, <3>10, <3>11 DEF LocalsOK
  <2>19. CASE PostFillNext(c)
    <3>1. pc' \in [Clients -> Labels]
      BY <1>0, <2>19 DEF PostFillNext, Fill, LocalsOK, Locals, shared, slots, clients, walk, posting, history, NotId
    <3>2. slotMask' \in [Slots -> SUBSET Indices]
      BY <1>0, <2>19 DEF PostFillNext, Fill, LocalsOK, Locals, shared, slots, clients, walk, posting, history, NotId
    <3>3. data' \in [Slots -> Nat \X Nat]
      BY <1>0, <2>19 DEF PostFillNext, Fill, LocalsOK, Locals, shared, slots, clients, walk, posting, history, NotId
    <3>4. dataCnt' \in [Slots -> Pointer]
      BY <1>0, <2>19 DEF PostFillNext, Fill, LocalsOK, Locals, shared, slots, clients, walk, posting, history, NotId
    <3>5. last' \in [Clients -> Pointer]
      BY <1>0, <2>19 DEF PostFillNext, Fill, LocalsOK, Locals, shared, slots, clients, walk, posting, history, NotId
    <3>6. left' \in [Clients -> Nat]
      <4>1. left[c] \in Nat /\ left[c] > 0
        BY <2>19 DEF PostFillNext, LocalsOK, Locals
      <4> QED
        BY <2>19, <4>1 DEF PostFillNext, Fill
    <3>7. tries' \in [Clients -> Nat]
      BY <1>0, <2>19 DEF PostFillNext, Fill, LocalsOK, Locals, shared, slots, clients, walk, posting, history, NotId
    <3>8. status' \in [Slots -> Status]
      BY <1>0, <2>19 DEF PostFillNext, Fill, LocalsOK, Locals, shared, slots, clients, walk, posting, history, NotId
    <3>9. TypeOK'
      BY <2>19, <3>1, <3>2, <3>3, <3>4, <3>5, <3>6, <3>7, <3>8 DEF PostFillNext, Fill, shared, slots, clients, walk, posting, history, NotId
    <3>10. Locals(c)'
      <4>1. left[c] \in Nat /\ left[c] > 0 /\ head[c] \in Slots
        BY <2>19 DEF PostFillNext, LocalsOK, Locals
      <4>2. pc'[c] = IF left[c] = 1 THEN "publish" ELSE "readHead"
        BY <2>19 DEF PostFillNext, Fill
      <4>3. head'[c] = head[c] /\ tries'[c] = TryCount /\ left'[c] = left[c] - 1
        BY <2>19 DEF PostFillNext, Fill
      <4> QED
        <5>1. CASE left[c] = 1
          BY <1>0, <4>1, <4>2, <4>3, <5>1 DEF Locals
        <5>2. CASE left[c] # 1
          <6>1. left'[c] > 0 /\ tries'[c] > 0
            BY SMTT(30), <1>0, <4>1, <4>3, <5>2
          <6> QED
            BY <1>0, <4>1, <4>2, <4>3, <5>2, <6>1 DEF Locals
        <5> QED
          BY <5>1, <5>2
    <3>11. ASSUME NEW d \in Clients, d # c PROVE Locals(d)'
      BY <2>19, <3>11 DEF PostFillNext, Fill, LocalsOK, Locals, shared, slots, clients, walk, posting, history, NotId
    <3> QED
      BY <3>9, <3>10, <3>11 DEF LocalsOK
  <2>20. CASE PostPublish(c)
    <3>1. TypeOK'
      BY <1>0, <2>20 DEF PostPublish, PostDone, LocalsOK, Locals, shared, slots, clients, walk, posting, history, NotId
    <3>2. Locals(c)'
      BY <1>0, <2>20 DEF PostPublish, PostDone, LocalsOK, Locals, shared, slots, clients, walk, posting, history, NotId
    <3>3. ASSUME NEW d \in Clients, d # c PROVE Locals(d)'
      BY <2>20, <3>3 DEF PostPublish, PostDone, LocalsOK, Locals, shared, slots, clients, walk, posting, history, NotId
    <3> QED
      BY <3>1, <3>2, <3>3 DEF LocalsOK
  <2>21. CASE PostFail(c)
    <3>1. TypeOK'
      BY <1>0, <2>21 DEF PostFail, PostDone, LocalsOK, Locals, shared, slots, clients, walk, posting, history, NotId
    <3>2. Locals(c)'
      BY <1>0, <2>21 DEF PostFail, PostDone, LocalsOK, Locals, shared, slots, clients, walk, posting, history, NotId
    <3>3. ASSUME NEW d \in Clients, d # c PROVE Locals(d)'
      BY <2>21, <3>3 DEF PostFail, PostDone, LocalsOK, Locals, shared, slots, clients, walk, posting, history, NotId
    <3> QED
      BY <3>1, <3>2, <3>3 DEF LocalsOK
  <2>22. CASE PostAbort(c)
    <3>1. stack' \in [Clients -> Seq(Slots)]
      BY <1>0, <2>22 DEF PostAbort, LocalsOK, Locals, shared, slots, clients, walk, posting, history, NotId
    <3>2. TypeOK'
      BY <2>22, <3>1 DEF PostAbort, shared, slots, clients, walk, posting, history, NotId
    <3>3. Locals(c)'
      BY <1>0, <2>22 DEF PostAbort, LocalsOK, Locals, shared, slots, clients, walk, posting, history, NotId
    <3>4. ASSUME NEW d \in Clients, d # c PROVE Locals(d)'
      BY <2>22, <3>4 DEF PostAbort, LocalsOK, Locals, shared, slots, clients, walk, posting, history, NotId
    <3> QED
      BY <3>2, <3>3, <3>4 DEF LocalsOK
  <2>23. CASE AbortPart(c)
    <3>1. stack[c] \in Seq(Slots) /\ stack[c] # <<>>
      BY <2>23 DEF AbortPart, LocalsOK, Locals
    <3>2. status' \in [Slots -> Status]
      BY <2>23, <3>1, PopStack DEF AbortPart, MarkTop, Top
    <3>3. dataCnt' \in [Slots -> Pointer]
      BY <1>0, <2>23, <3>1, PopStack DEF AbortPart, MarkTop, Top
    <3>4. stack' \in [Clients -> Seq(Slots)]
      BY <2>23, <3>1, PopStack DEF AbortPart, MarkTop, Top
    <3>5. TypeOK'
      BY <2>23, <3>2, <3>3, <3>4 DEF AbortPart, shared, slots, clients, walk, posting, history, NotId
    <3>6. stack'[c] # <<>>
      BY <2>23, <3>1, PopStack DEF AbortPart, MarkTop
    <3>7. Locals(c)'
      BY <2>23, <3>6 DEF AbortPart, LocalsOK, Locals, shared, slots, clients, walk, posting, history, NotId
    <3>8. ASSUME NEW d \in Clients, d # c PROVE Locals(d)'
      BY <2>23, <3>8 DEF AbortPart, MarkTop, LocalsOK, Locals, shared, slots, clients, walk, posting, history, NotId
    <3> QED
      BY <3>5, <3>7, <3>8 DEF LocalsOK
  <2>24. CASE AbortFirst(c)
    <3>1. stack[c] \in Seq(Slots) /\ stack[c] # <<>>
      BY <2>24 DEF AbortFirst, LocalsOK, Locals
    <3>2. status' \in [Slots -> Status]
      BY <1>0, <2>24, <3>1, PopStack DEF AbortFirst, PostDone, MarkTop, Top, LocalsOK, Locals, shared, slots, clients, walk, posting, history, NotId
    <3>3. dataCnt' \in [Slots -> Pointer]
      BY <1>0, <2>24, <3>1, PopStack DEF AbortFirst, PostDone, MarkTop, Top, LocalsOK, Locals, shared, slots, clients, walk, posting, history, NotId
    <3>4. stack' \in [Clients -> Seq(Slots)]
      BY <1>0, <2>24, <3>1, PopStack DEF AbortFirst, PostDone, MarkTop, Top, LocalsOK, Locals, shared, slots, clients, walk, posting, history, NotId
    <3>5. pc' \in [Clients -> Labels]
      BY <1>0, <2>24, <3>1, PopStack DEF AbortFirst, PostDone, MarkTop, Top, LocalsOK, Locals, shared, slots, clients, walk, posting, history, NotId
    <3>6. cur' \in [Clients -> Pointer]
      BY <1>0, <2>24, <3>1, PopStack DEF AbortFirst, PostDone, MarkTop, Top, LocalsOK, Locals, shared, slots, clients, walk, posting, history, NotId
    <3>7. head' \in [Clients -> Pointer]
      BY <1>0, <2>24, <3>1, PopStack DEF AbortFirst, PostDone, MarkTop, Top, LocalsOK, Locals, shared, slots, clients, walk, posting, history, NotId
    <3>8. last' \in [Clients -> Pointer]
      BY <1>0, <2>24, <3>1, PopStack DEF AbortFirst, PostDone, MarkTop, Top, LocalsOK, Locals, shared, slots, clients, walk, posting, history, NotId
    <3>9. left' \in [Clients -> Nat]
      BY <1>0, <2>24, <3>1, PopStack DEF AbortFirst, PostDone, MarkTop, Top, LocalsOK, Locals, shared, slots, clients, walk, posting, history, NotId
    <3>10. tries' \in [Clients -> Nat]
      BY <1>0, <2>24, <3>1, PopStack DEF AbortFirst, PostDone, MarkTop, Top, LocalsOK, Locals, shared, slots, clients, walk, posting, history, NotId
    <3>11. msg' \in [Clients -> Nat]
      BY <1>0, <2>24, <3>1, PopStack DEF AbortFirst, PostDone, MarkTop, Top, LocalsOK, Locals, shared, slots, clients, walk, posting, history, NotId
    <3>12. aborted' \in SUBSET Nat
      <4>1. msg[c] \in Nat
        OBVIOUS
      <4> QED
        BY <2>24, <4>1 DEF AbortFirst
    <3>13. TypeOK'
      BY <2>24, <3>2, <3>3, <3>4, <3>5, <3>6, <3>7, <3>8, <3>9, <3>10, <3>11, <3>12 DEF AbortFirst, PostDone, MarkTop, Top, shared, slots, clients, walk, posting, history, NotId
    <3>14. Locals(c)'
      BY <1>0, <2>24, <3>1, PopStack DEF AbortFirst, PostDone, MarkTop, Top, LocalsOK, Locals, shared, slots, clients, walk, posting, history, NotId
    <3>15. ASSUME NEW d \in Clients, d # c PROVE Locals(d)'
      BY <2>24, <3>15 DEF AbortFirst, PostDone, MarkTop, Top, LocalsOK, Locals, shared, slots, clients, walk, posting, history, NotId
    <3> QED
      BY <3>13, <3>14, <3>15 DEF LocalsOK
  <2>25. CASE PollNothing(c)
    <3>1. TypeOK'
      BY <1>0, <2>25 DEF PollNothing, Return, LocalsOK, Locals, shared, slots, clients, walk, posting, history, NotId
    <3>2. Locals(c)'
      BY <1>0, <2>25 DEF PollNothing, Return, LocalsOK, Locals, shared, slots, clients, walk, posting, history, NotId
    <3>3. ASSUME NEW d \in Clients, d # c PROVE Locals(d)'
      BY <2>25, <3>3 DEF PollNothing, Return, LocalsOK, Locals, shared, slots, clients, walk, posting, history, NotId
    <3> QED
      BY <3>1, <3>2, <3>3 DEF LocalsOK
  <2>26. CASE PollDeliver(c)
    <3>1. TypeOK'
      BY <1>0, <2>26 DEF PollDeliver, Return, LocalsOK, Locals, shared, slots, clients, walk, posting, history, NotId
    <3>2. Locals(c)'
      BY <1>0, <2>26 DEF PollDeliver, Return, LocalsOK, Locals, shared, slots, clients, walk, posting, history, NotId
    <3>3. ASSUME NEW d \in Clients, d # c PROVE Locals(d)'
      BY <2>26, <3>3 DEF PollDeliver, Return, LocalsOK, Locals, shared, slots, clients, walk, posting, history, NotId
    <3> QED
      BY <3>1, <3>2, <3>3 DEF LocalsOK
  <2>27. CASE PollSkip(c)
    <3>1. cur[c] \in Slots /\ Advance(c)
      BY <2>27 DEF PollSkip, LocalsOK, Locals
    <3>2. TypeOK'
      BY <2>27, <3>1, AdvanceTypes DEF PollSkip, shared, slots, clients, walk, posting, history, NotId
    <3>3. Locals(c)'
      BY <2>27, <3>1, AdvanceTypes DEF PollSkip, LocalsOK, Locals, shared, slots, clients, walk, posting, history, NotId
    <3>4. ASSUME NEW d \in Clients, d # c PROVE Locals(d)'
      BY <2>27, <3>1, <3>4, AdvanceTypes DEF PollSkip, LocalsOK, Locals, shared, slots, clients, walk, posting, history, NotId
    <3> QED
      BY <3>2, <3>3, <3>4 DEF LocalsOK
  <2>28. CASE PollSeen(c)
    <3>1. TypeOK'
      BY <1>0, <2>28 DEF PollSeen, LocalsOK, Locals, shared, slots, clients, walk, posting, history, NotId
    <3>2. Locals(c)'
      BY <1>0, <2>28 DEF PollSeen, LocalsOK, Locals, shared, slots, clients, walk, posting, history, NotId
    <3>3. ASSUME NEW d \in Clients, d # c PROVE Locals(d)'
      BY <2>28, <3>3 DEF PollSeen, LocalsOK, Locals, shared, slots, clients, walk, posting, history, NotId
    <3> QED
      BY <3>1, <3>2, <3>3 DEF LocalsOK
  <2>29. CASE PollClear(c)
    <3>1. TypeOK'
      BY <1>0, <2>29 DEF PollClear, LocalsOK, Locals, shared, slots, clients, walk, posting, history, NotId
    <3>2. Locals(c)'
      BY <1>0, <2>29 DEF PollClear, LocalsOK, Locals, shared, slots, clients, walk, posting, history, NotId
    <3>3. ASSUME NEW d \in Clients, d # c PROVE Locals(d)'
      BY <2>29, <3>3 DEF PollClear, LocalsOK, Locals, shared, slots, clients, walk, posting, history, NotId
    <3> QED
      BY <3>1, <3>2, <3>3 DEF LocalsOK
  <2>30. CASE PollKeep(c)
    <3>1. cur[c] \in Slots /\ Advance(c)
      BY <2>30 DEF PollKeep, LocalsOK, Locals
    <3>2. TypeOK'
      BY <2>30, <3>1, AdvanceTypes DEF PollKeep, shared, slots, clients, walk, posting, history, NotId
    <3>3. Locals(c)'
      BY <2>30, <3>1, AdvanceTypes DEF PollKeep, LocalsOK, Locals, shared, slots, clients, walk, posting, history, NotId
    <3>4. ASSUME NEW d \in Clients, d # c PROVE Locals(d)'
      BY <2>30, <3>1, <3>4, AdvanceTypes DEF PollKeep, LocalsOK, Locals, shared, slots, clients, walk, posting, history, NotId
    <3> QED
      BY <3>2, <3>3, <3>4 DEF LocalsOK
  <2>31. CASE PollRecycle(c)
    <3>1. stack' \in [Clients -> Seq(Slots)]
      BY <1>0, <2>31 DEF PollRecycle, LocalsOK, Locals, shared, slots, clients, walk, posting, history, NotId
    <3>2. TypeOK'
      BY <2>31, <3>1 DEF PollRecycle, shared, slots, clients, walk, posting, history, NotId
    <3>3. Locals(c)'
      BY <1>0, <2>31 DEF PollRecycle, LocalsOK, Locals, shared, slots, clients, walk, posting, history, NotId
    <3>4. ASSUME NEW d \in Clients, d # c PROVE Locals(d)'
      BY <2>31, <3>4 DEF PollRecycle, LocalsOK, Locals, shared, slots, clients, walk, posting, history, NotId
    <3> QED
      BY <3>2, <3>3, <3>4 DEF LocalsOK
  <2>32. CASE PollFreePart(c)
    <3>1. stack[c] \in Seq(Slots) /\ stack[c] # <<>>
      BY <2>32 DEF PollFreePart, LocalsOK, Locals
    <3>2. status' \in [Slots -> Status]
      BY <2>32, <3>1, PopStack DEF PollFreePart, MarkTop, Top
    <3>3. dataCnt' \in [Slots -> Pointer]
      BY <1>0, <2>32, <3>1, PopStack DEF PollFreePart, MarkTop, Top
    <3>4. stack' \in [Clients -> Seq(Slots)]
      BY <2>32, <3>1, PopStack DEF PollFreePart, MarkTop, Top
    <3>5. TypeOK'
      BY <2>32, <3>2, <3>3, <3>4 DEF PollFreePart, shared, slots, clients, walk, posting, history, NotId
    <3>6. stack'[c] # <<>>
      BY <2>32, <3>1, PopStack DEF PollFreePart, MarkTop
    <3>7. Locals(c)'
      BY <2>32, <3>6 DEF PollFreePart, LocalsOK, Locals, shared, slots, clients, walk, posting, history, NotId
    <3>8. ASSUME NEW d \in Clients, d # c PROVE Locals(d)'
      BY <2>32, <3>8 DEF PollFreePart, MarkTop, LocalsOK, Locals, shared, slots, clients, walk, posting, history, NotId
    <3> QED
      BY <3>5, <3>7, <3>8 DEF LocalsOK
  <2>33. CASE PollFreeFirst(c)
    <3>1. stack[c] \in Seq(Slots) /\ stack[c] # <<>>
      BY <2>33 DEF PollFreeFirst, LocalsOK, Locals
    <3>2. status' \in [Slots -> Status]
      BY <2>33, <3>1, PopStack DEF PollFreeFirst, MarkTop, Top
    <3>3. dataCnt' \in [Slots -> Pointer]
      BY <1>0, <2>33, <3>1, PopStack DEF PollFreeFirst, MarkTop, Top
    <3>4. stack' \in [Clients -> Seq(Slots)]
      BY <2>33, <3>1, PopStack DEF PollFreeFirst, MarkTop, Top
    <3>5. cur[c] \in Slots /\ Advance(c)
      BY <2>33 DEF PollFreeFirst, LocalsOK, Locals
    <3>6. TypeOK'
      BY <2>33, <3>2, <3>3, <3>4, <3>5, AdvanceTypes DEF PollFreeFirst, shared, slots, clients, walk, posting, history, NotId
    <3>7. Locals(c)'
      BY <2>33, <3>5, AdvanceTypes DEF PollFreeFirst, LocalsOK, Locals, shared, slots, clients, walk, posting, history, NotId
    <3>8. ASSUME NEW d \in Clients, d # c PROVE Locals(d)'
      BY <2>33, <3>5, <3>8, AdvanceTypes DEF PollFreeFirst, MarkTop, LocalsOK, Locals, shared, slots, clients, walk, posting, history, NotId
    <3> QED
      BY <3>6, <3>7, <3>8 DEF LocalsOK
  <2>34. CASE Descend(c)
    <3>1. stack[c] \in Seq(Slots) /\ stack[c] # <<>>
      BY <2>34 DEF Descend, LocalsOK, Locals
    <3>2. pc' \in [Clients -> Labels]
      BY <2>34 DEF Descend
    <3>3. dataCnt[Top(c)] \in Slots
      BY <2>34, <3>1, PopStack DEF Descend, Top
    <3>4. /\ Append(stack[c], dataCnt[Top(c)]) \in Seq(Slots)
          /\ Append(stack[c], dataCnt[Top(c)]) # <<>>
      BY <3>1, <3>3, PushStack
    <3>5. stack' \in [Clients -> Seq(Slots)] /\ stack'[c] # <<>>
      BY <2>34, <3>4 DEF Descend
    <3>6. TypeOK'
      BY <2>34, <3>2, <3>5 DEF Descend, shared, slots, clients, walk, posting, history, NotId
    <3>7. Locals(c)'
      BY <2>34, <3>5 DEF Descend, LocalsOK, Locals, shared, slots, clients, walk, posting, history, NotId
    <3>8. ASSUME NEW d \in Clients, d # c PROVE Locals(d)'
      BY <2>34, <3>8 DEF Descend, LocalsOK, Locals, shared, slots, clients, walk, posting, history, NotId
    <3> QED
      BY <3>6, <3>7, <3>8 DEF LocalsOK
  <2>35. CASE LoadPart(c)
    <3>1. pc' \in [Clients -> Labels]
      BY <1>0, <2>35 DEF LoadPart, LocalsOK, Locals, shared, slots, clients, walk, posting, history, NotId
    <3>2. buffer' \in [Clients -> Seq(Nat \X Nat)]
      BY <1>0, <2>35 DEF LoadPart, LocalsOK, Locals, shared, slots, clients, walk, posting, history, NotId
    <3>3. cur' \in [Clients -> Pointer]
      BY <1>0, <2>35 DEF LoadPart, LocalsOK, Locals, shared, slots, clients, walk, posting, history, NotId
    <3>4. TypeOK'
      BY <2>35, <3>1, <3>2, <3>3 DEF LoadPart, shared, slots, clients, walk, posting, history, NotId
    <3>5. Locals(c)'
      BY <1>0, <2>35 DEF LoadPart, LocalsOK, Locals, shared, slots, clients, walk, posting, history, NotId
    <3>6. ASSUME NEW d \in Clients, d # c PROVE Locals(d)'
      BY <2>35, <3>6 DEF LoadPart, LocalsOK, Locals, shared, slots, clients, walk, posting, history, NotId
    <3> QED
      BY <3>4, <3>5, <3>6 DEF LocalsOK
  <2>36. CASE DisconnectLock(c)
    <3>1. TypeOK'
      BY <1>0, <2>36 DEF DisconnectLock, Acquire, LocalsOK, Locals, shared, slots, clients, walk, posting, history, NotId
    <3>2. Locals(c)'
      BY <1>0, <2>36 DEF DisconnectLock, Acquire, LocalsOK, Locals, shared, slots, clients, walk, posting, history, NotId
    <3>3. ASSUME NEW d \in Clients, d # c PROVE Locals(d)'
      BY <2>36, <3>3 DEF DisconnectLock, Acquire, LocalsOK, Locals, shared, slots, clients, walk, posting, history, NotId
    <3> QED
      BY <3>1, <3>2, <3>3 DEF LocalsOK
  <2>37. CASE DisconnectMask(c)
    <3>1. TypeOK'
      BY <1>0, <2>37 DEF DisconnectMask, LocalsOK, Locals, shared, slots, clients, walk, posting, history, NotId
    <3>2. Locals(c)'
      BY <1>0, <2>37 DEF DisconnectMask, LocalsOK, Locals, shared, slots, clients, walk, posting, history, NotId
    <3>3. ASSUME NEW d \in Clients, d # c PROVE Locals(d)'
      BY <2>37, <3>3 DEF DisconnectMask, LocalsOK, Locals, shared, slots, clients, walk, posting, history, NotId
    <3> QED
      BY <3>1, <3>2, <3>3 DEF LocalsOK
  <2>38. CASE FlushPoll(c)
    <3>1. TypeOK'
      BY <1>0, <2>38 DEF FlushPoll, PollStart, LocalsOK, Locals, shared, slots, clients, walk, posting, history, NotId
    <3>2. Locals(c)'
      BY <1>0, <2>38 DEF FlushPoll, PollStart, LocalsOK, Locals, shared, slots, clients, walk, posting, history, NotId
    <3>3. ASSUME NEW d \in Clients, d # c PROVE Locals(d)'
      BY <2>38, <3>3 DEF FlushPoll, PollStart, LocalsOK, Locals, shared, slots, clients, walk, posting, history, NotId
    <3> QED
      BY <3>1, <3>2, <3>3 DEF LocalsOK
  <2>39. CASE DisconnectClearId(c)
    <3>1. TypeOK'
      BY <1>0, <2>39 DEF DisconnectClearId, LocalsOK, Locals, shared, slots, clients, walk, posting, history, NotId
    <3>2. Locals(c)'
      BY <1>0, <2>39 DEF DisconnectClearId, LocalsOK, Locals, shared, slots, clients, walk, posting, history, NotId
    <3>3. ASSUME NEW d \in Clients, d # c PROVE Locals(d)'
      BY <2>39, <3>3 DEF DisconnectClearId, LocalsOK, Locals, shared, slots, clients, walk, posting, history, NotId
    <3> QED
      BY <3>1, <3>2, <3>3 DEF LocalsOK
  <2>40. CASE DisconnectClearSlot(c)
    <3>1. TypeOK'
      BY <1>0, <2>40 DEF DisconnectClearSlot, LocalsOK, Locals, shared, slots, clients, walk, posting, history, NotId
    <3>2. Locals(c)'
      BY <1>0, <2>40 DEF DisconnectClearSlot, LocalsOK, Locals, shared, slots, clients, walk, posting, history, NotId
    <3>3. ASSUME NEW d \in Clients, d # c PROVE Locals(d)'
      BY <2>40, <3>3 DEF DisconnectClearSlot, LocalsOK, Locals, shared, slots, clients, walk, posting, history, NotId
    <3> QED
      BY <3>1, <3>2, <3>3 DEF LocalsOK
  <2>41. CASE DisconnectUnlock(c)
    <3>1. TypeOK'
      BY <1>0, <2>41 DEF DisconnectUnlock, Release, LocalsOK, Locals, shared, slots, clients, walk, posting, history, NotId
    <3>2. Locals(c)'
      BY <1>0, <2>41 DEF DisconnectUnlock, Release, LocalsOK, Locals, shared, slots, clients, walk, posting, history, NotId
    <3>3. ASSUME NEW d \in Clients, d # c PROVE Locals(d)'
      BY <2>41, <3>3 DEF DisconnectUnlock, Release, LocalsOK, Locals, shared, slots, clients, walk, posting, history, NotId
    <3> QED
      BY <3>1, <3>2, <3>3 DEF LocalsOK
  <2> QED
    BY <1>2, <2>1, <2>2, <2>3, <2>4, <2>5, <2>6, <2>7, <2>8, <2>9, <2>10, <2>11, <2>12, <2>13, <2>14, <2>15, <2>16, <2>17, <2>18, <2>19, <2>20, <2>21, <2>22, <2>23, <2>24, <2>25, <2>26, <2>27, <2>28, <2>29, <2>30, <2>31, <2>32, <2>33, <2>34, <2>35, <2>36, <2>37, <2>38, <2>39, <2>40, <2>41 DEF Running
<1>3. ASSUME NEW c \in Clients, Calling(c) PROVE TypeInv'
  <2>1. CASE Connect(c)
    <3>1. TypeOK'
      BY <1>0, <2>1 DEF Connect, LocalsOK, Locals, shared, slots, clients, walk, posting, history, NotId
    <3>2. Locals(c)'
      BY <1>0, <2>1 DEF Connect, LocalsOK, Locals, shared, slots, clients, walk, posting, history, NotId
    <3>3. ASSUME NEW d \in Clients, d # c PROVE Locals(d)'
      BY <2>1, <3>3 DEF Connect, LocalsOK, Locals, shared, slots, clients, walk, posting, history, NotId
    <3> QED
      BY <3>1, <3>2, <3>3 DEF LocalsOK
  <2>2. ASSUME NEW n \in 1 .. MaxParts, Post(c, n) PROVE TypeInv'
    <3>1. pc' \in [Clients -> Labels]
      BY <1>0, <2>2 DEF Post, LocalsOK, Locals, shared, slots, clients, walk, posting, history, NotId
    <3>2. left' \in [Clients -> Nat]
      BY <1>0, <2>2 DEF Post, LocalsOK, Locals, shared, slots, clients, walk, posting, history, NotId
    <3>3. tries' \in [Clients -> Nat]
      BY <1>0, <2>2 DEF Post, LocalsOK, Locals, shared, slots, clients, walk, posting, history, NotId
    <3>4. TypeOK'
      BY <2>2, <3>1, <3>2, <3>3 DEF Post, shared, slots, clients, walk, posting, history, NotId
    <3>5. Locals(c)'
      BY <1>0, <2>2 DEF Post, LocalsOK, Locals, shared, slots, clients, walk, posting, history, NotId
    <3>6. ASSUME NEW d \in Clients, d # c PROVE Locals(d)'
      BY <2>2, <3>6 DEF Post, LocalsOK, Locals, shared, slots, clients, walk, posting, history, NotId
    <3> QED
      BY <3>4, <3>5, <3>6 DEF LocalsOK
  <2>3. CASE Poll(c)
    <3>1. TypeOK'
      BY <1>0, <2>3 DEF Poll, PollStart, LocalsOK, Locals, shared, slots, clients, walk, posting, history, NotId
    <3>2. Locals(c)'
      BY <1>0, <2>3 DEF Poll, PollStart, LocalsOK, Locals, shared, slots, clients, walk, posting, history, NotId
    <3>3. ASSUME NEW d \in Clients, d # c PROVE Locals(d)'
      BY <2>3, <3>3 DEF Poll, PollStart, LocalsOK, Locals, shared, slots, clients, walk, posting, history, NotId
    <3> QED
      BY <3>1, <3>2, <3>3 DEF LocalsOK
  <2>4. CASE LoadBytes(c)
    <3>1. buffer' \in [Clients -> Seq(Nat \X Nat)]
      BY <1>0, <2>4 DEF LoadBytes, LocalsOK, Locals, shared, slots, clients, walk, posting, history, NotId
    <3>2. TypeOK'
      BY <2>4, <3>1 DEF LoadBytes, shared, slots, clients, walk, posting, history, NotId
    <3>3. Locals(c)'
      BY <1>0, <2>4 DEF LoadBytes, LocalsOK, Locals, shared, slots, clients, walk, posting, history, NotId
    <3>4. ASSUME NEW d \in Clients, d # c PROVE Locals(d)'
      BY <2>4, <3>4 DEF LoadBytes, LocalsOK, Locals, shared, slots, clients, walk, posting, history, NotId
    <3> QED
      BY <3>2, <3>3, <3>4 DEF LocalsOK
  <2>5. CASE ClearBytes(c)
    <3>1. buffer' \in [Clients -> Seq(Nat \X Nat)]
      BY <1>0, <2>5 DEF ClearBytes, LocalsOK, Locals, shared, slots, clients, walk, posting, history, NotId
    <3>2. TypeOK'
      BY <2>5, <3>1 DEF ClearBytes, shared, slots, clients, walk, posting, history, NotId
    <3>3. Locals(c)'
      BY <1>0, <2>5 DEF ClearBytes, LocalsOK, Locals, shared, slots, clients, walk, posting, history, NotId
    <3>4. ASSUME NEW d \in Clients, d # c PROVE Locals(d)'
      BY <2>5, <3>4 DEF ClearBytes, LocalsOK, Locals, shared, slots, clients, walk, posting, history, NotId
    <3> QED
      BY <3>2, <3>3, <3>4 DEF LocalsOK
  <2>6. CASE Disconnect(c)
    <3>1. TypeOK'
      BY <1>0, <2>6 DEF Disconnect, LocalsOK, Locals, shared, slots, clients, walk, posting, history, NotId
    <3>2. Locals(c)'
      BY <1>0, <2>6 DEF Disconnect, LocalsOK, Locals, shared, slots, clients, walk, posting, history, NotId
    <3>3. ASSUME NEW d \in Clients, d # c PROVE Locals(d)'
      BY <2>6, <3>3 DEF Disconnect, LocalsOK, Locals, shared, slots, clients, walk, posting, history, NotId
    <3> QED
      BY <3>1, <3>2, <3>3 DEF LocalsOK
  <2> QED
    BY <1>3, <2>1, <2>2, <2>3, <2>4, <2>5, <2>6 DEF Calling
<1>4. ASSUME NEW c \in Clients, Crash(c) PROVE TypeInv'
  BY <1>4 DEF Crash, LocalsOK, Locals, shared, slots, clients, walk, posting, history, NotId
<1> QED
  BY <1>1, <1>2, <1>3, <1>4 DEF Next

(* Every pointer a call follows is a slot of the ring, every index a cell of
   the table, in every reachable state and with any number of clients. *)
THEOREM TypeCorrect == Spec => []TypeOK
<1>1. TypeInv => TypeOK
  BY DEF TypeInv
<1> QED
  BY TypeInit, TypeStep, <1>1, PTL DEF Spec

---------------------------------------------------------------------------
(* The lock *)

(* The part of the types the argument needs. *)
LockTypeOK ==
    /\ pc \in [Clients -> Labels]
    /\ leaving \in [Clients -> BOOLEAN]

(* A client only leaves with the lock in its hands: the calls it starts from
   idle are made with leaving off, so a plain poll is no critical section. *)
LeavingInside ==
    \A c \in Clients : leaving[c] =>
        pc[c] \in InPoll \cup {"flush", "clearId", "clearSlot", "crashed"}

(* Nobody calls anything before init has cleared the region: without the
   magic number connect returns at once, and without an id so do the others. *)
QuietBeforeInit ==
    \A c \in Clients : pc[c] = "init" =>
        /\ ~magic
        /\ \A d \in Clients : d # c =>
              pc[d] \in {"idle", "crashed"} /\ id[d] = NotId /\ polled[d] = NoSlot

LockInv == LockTypeOK /\ LockExclusive /\ LeavingInside /\ QuietBeforeInit

LEMMA LockInit == Init => LockInv
<1> SUFFICES ASSUME Init PROVE LockInv
  OBVIOUS
<1>1. LockTypeOK
  BY DEF Init, LockTypeOK, Labels
<1>2. \A c \in Clients : ~Holds(c) /\ ~leaving[c]
  BY DEF Init, Holds, InPoll
<1>3. ASSUME NEW c \in Clients, pc[c] = "init" PROVE Members = {}
  BY <1>3, RingAssumption DEF Init, RingAssumption
<1>4. QuietBeforeInit
  BY <1>3 DEF QuietBeforeInit, Init, NotId
<1> QED
  BY <1>1, <1>2, <1>4 DEF LockInv, LockExclusive, LeavingInside

LEMMA LockStep == LockInv /\ [Next]_vars => LockInv'
<1> SUFFICES ASSUME LockInv, [Next]_vars PROVE LockInv'
  OBVIOUS
<1> USE DEF LockInv, LockTypeOK, LockExclusive, LeavingInside, QuietBeforeInit,
            Holds, InPoll, Labels, At, Goto
<1>1. CASE UNCHANGED vars
  BY <1>1 DEF vars, shared, clients
<1>2. ASSUME NEW c \in Clients, Running(c) PROVE LockInv'
  <2>1. CASE InitRing(c)
    BY <2>1 DEF InitRing, shared, slots, clients, NotId
  <2>2. CASE InitMagic(c)
    BY <2>2 DEF InitMagic, shared, slots, clients, NotId
  <2>3. CASE InitUnlock(c)
    BY <2>3 DEF InitUnlock, shared, slots, clients, NotId
  <2>4. CASE ConnectLock(c)
    BY <2>4 DEF ConnectLock, Acquire, shared, slots, clients, NotId
  <2>5. CASE ConnectKnown(c)
    BY <2>5 DEF ConnectKnown, shared, slots, clients, NotId
  <2>6. CASE ConnectCheck(c)
    BY <2>6 DEF ConnectCheck, shared, slots, clients, NotId
  <2>7. CASE ConnectFull(c)
    BY <2>7 DEF ConnectFull, shared, slots, clients, NotId
  <2>8. CASE ConnectPick(c)
    BY <2>8 DEF ConnectPick, FreeIndices, shared, slots, clients, NotId
  <2>9. CASE ConnectFail(c)
    BY <2>9 DEF ConnectFail, Release, shared, slots, clients, NotId
  <2>10. CASE ConnectUnlock(c)
    BY <2>10 DEF ConnectUnlock, Release, shared, slots, clients, NotId
  <2>11. CASE RegisterId(c)
    BY <2>11 DEF RegisterId, shared, slots, clients, NotId
  <2>12. CASE RegisterSlot(c)
    BY <2>12 DEF RegisterSlot, shared, slots, clients, NotId
  <2>13. CASE RegisterMask(c)
    BY <2>13 DEF RegisterMask, shared, slots, clients, NotId
  <2>14. CASE PostReadHead(c)
    BY <2>14 DEF PostReadHead, shared, slots, clients, NotId
  <2>15. CASE PostTake(c)
    BY <2>15 DEF PostTake, Take, shared, slots, clients, NotId
  <2>16. CASE PostRetry(c)
    BY <2>16 DEF PostRetry, shared, slots, clients, NotId
  <2>17. CASE PostMoveHead(c)
    BY <2>17 DEF PostMoveHead, shared, slots, clients, NotId
  <2>18. CASE PostFillFirst(c)
    BY <2>18 DEF PostFillFirst, Fill, shared, slots, clients, NotId
  <2>19. CASE PostFillNext(c)
    BY <2>19 DEF PostFillNext, Fill, shared, slots, clients, NotId
  <2>20. CASE PostPublish(c)
    BY <2>20 DEF PostPublish, PostDone, shared, slots, clients, NotId
  <2>21. CASE PostFail(c)
    BY <2>21 DEF PostFail, PostDone, shared, slots, clients, NotId
  <2>22. CASE PostAbort(c)
    BY <2>22 DEF PostAbort, shared, slots, clients, NotId
  <2>23. CASE AbortPart(c)
    BY <2>23 DEF AbortPart, MarkTop, Top, shared, slots, clients, NotId
  <2>24. CASE AbortFirst(c)
    BY <2>24 DEF AbortFirst, PostDone, MarkTop, Top, shared, slots, clients, NotId
  <2>25. CASE PollNothing(c)
    BY <2>25 DEF PollNothing, Return, shared, slots, clients, NotId
  <2>26. CASE PollDeliver(c)
    BY <2>26 DEF PollDeliver, Return, shared, slots, clients, NotId
  <2>27. CASE PollSkip(c)
    BY <2>27 DEF PollSkip, Advance, Move, LoopOn, Return, shared, slots, clients, NotId
  <2>28. CASE PollSeen(c)
    BY <2>28 DEF PollSeen, shared, slots, clients, NotId
  <2>29. CASE PollClear(c)
    BY <2>29 DEF PollClear, shared, slots, clients, NotId
  <2>30. CASE PollKeep(c)
    BY <2>30 DEF PollKeep, Advance, Move, LoopOn, Return, shared, slots, clients, NotId
  <2>31. CASE PollRecycle(c)
    BY <2>31 DEF PollRecycle, shared, slots, clients, NotId
  <2>32. CASE PollFreePart(c)
    BY <2>32 DEF PollFreePart, MarkTop, Top, shared, slots, clients, NotId
  <2>33. CASE PollFreeFirst(c)
    BY <2>33 DEF PollFreeFirst, MarkTop, Top, Advance, Move, LoopOn, Return, shared, slots, clients, NotId
  <2>34. CASE Descend(c)
    BY <2>34 DEF Descend, Top, shared, slots, clients, NotId
  <2>35. CASE LoadPart(c)
    BY <2>35 DEF LoadPart, shared, slots, clients, NotId
  <2>36. CASE DisconnectLock(c)
    BY <2>36 DEF DisconnectLock, Acquire, shared, slots, clients, NotId
  <2>37. CASE DisconnectMask(c)
    BY <2>37 DEF DisconnectMask, shared, slots, clients, NotId
  <2>38. CASE FlushPoll(c)
    BY <2>38 DEF FlushPoll, PollStart, shared, slots, clients, NotId
  <2>39. CASE DisconnectClearId(c)
    BY <2>39 DEF DisconnectClearId, shared, slots, clients, NotId
  <2>40. CASE DisconnectClearSlot(c)
    BY <2>40 DEF DisconnectClearSlot, shared, slots, clients, NotId
  <2>41. CASE DisconnectUnlock(c)
    BY <2>41 DEF DisconnectUnlock, Release, shared, slots, clients, NotId
  <2> QED
    BY <1>2, <2>1, <2>2, <2>3, <2>4, <2>5, <2>6, <2>7, <2>8, <2>9, <2>10, <2>11, <2>12, <2>13, <2>14, <2>15, <2>16, <2>17, <2>18, <2>19, <2>20, <2>21, <2>22, <2>23, <2>24, <2>25, <2>26, <2>27, <2>28, <2>29, <2>30, <2>31, <2>32, <2>33, <2>34, <2>35, <2>36, <2>37, <2>38, <2>39, <2>40, <2>41 DEF Running
<1>3. ASSUME NEW c \in Clients, Calling(c) PROVE LockInv'
  <2>1. CASE Connect(c)
    BY <2>1 DEF Connect, shared, slots, clients, NotId
  <2>2. CASE \E n \in 1 .. MaxParts : Post(c, n)
    BY <2>2 DEF Post, shared, slots, clients, NotId
  <2>3. CASE Poll(c)
    BY <2>3 DEF Poll, PollStart, shared, slots, clients, NotId
  <2>4. CASE LoadBytes(c)
    BY <2>4 DEF LoadBytes, shared, slots, clients, NotId
  <2>5. CASE ClearBytes(c)
    BY <2>5 DEF ClearBytes, shared, slots, clients, NotId
  <2>6. CASE Disconnect(c)
    BY <2>6 DEF Disconnect, shared, slots, clients, NotId
  <2> QED
    BY <1>3, <2>1, <2>2, <2>3, <2>4, <2>5, <2>6 DEF Calling
<1>4. ASSUME NEW c \in Clients, Crash(c) PROVE LockInv'
  BY <1>4 DEF Crash, shared, clients
<1> QED
  BY <1>1, <1>2, <1>3, <1>4 DEF Next

(* lock() and unlock() exclude one another in every reachable state. *)
THEOREM LockIsExclusive == Spec => []LockExclusive
<1>1. LockInv => LockExclusive
  BY DEF LockInv
<1> QED
  BY LockInit, LockStep, <1>1, PTL DEF Spec

---------------------------------------------------------------------------
(* Registration.  connect picks an index under the lock and registers it
   outside, disconnect gives it back under the lock. *)

(* A client with an index, until its disconnect is over or it dies. *)
Claims(c) == id[c] # NotId /\ pc[c] # "crashed"

(* ... whose id is in the table. *)
Entered(c) == Claims(c) /\ pc[c] \notin {"connectUnlock", "registerId", "clearSlot"}

(* The steps that follow the choice of an index are made with one. *)
ClaimKept ==
    \A c \in Clients :
        /\ leaving[c] \/ pc[c] \in {"connectUnlock", "registerId",
                                    "registerSlot", "registerMask",
                                    "leaveLock", "leaveMask"} => id[c] # NotId
        /\ pc[c] \in {"flush", "clearId", "clearSlot"} => leaving[c]

(* Between its two scans of the table a connect is the only one. *)
Picking ==
    \A c \in Clients : pc[c] = "connectPick" =>
        /\ Registering = {}
        /\ \A i \in Indices : clientId[i] # IdOf[c]

(* An index chosen stays free, and its id unknown, until the id is stored. *)
Chosen ==
    \A c \in Registering :
        /\ id[c] # NotId
        /\ clientId[ith[c]] = NotId
        /\ \A i \in Indices : clientId[i] # id[c]
        /\ Registering = {c}

(* The cell of a client is its own from its registration on. *)
Cells == \A c \in Clients : Entered(c) => clientId[ith[c]] = id[c]

OwnIndex ==
    \A c, d \in Clients : Claims(c) /\ Claims(d) /\ ith[c] = ith[d] => c = d

OneCell ==
    \A i, j \in Indices : clientId[i] = clientId[j] /\ i # j => clientId[i] = NotId

(* The position goes in before the bit and comes out after it. *)
Positions ==
    /\ \A i \in cliMask : clientSlot[i] # NoSlot
    /\ \A c \in Clients : pc[c] = "registerMask" => clientSlot[ith[c]] # NoSlot
    /\ \A c \in Clients : leaving[c] /\ pc[c] # "crashed" => ith[c] \notin cliMask

RegistryInv ==
    /\ ClaimKept
    /\ ~raced => Picking /\ Chosen /\ Cells /\ OwnIndex /\ OneCell /\ Positions

---------------------------------------------------------------------------
LEMMA RegistryInit == Init => RegistryInv
<1> SUFFICES ASSUME Init PROVE RegistryInv
  OBVIOUS
<1>1. \A c \in Clients : pc[c] \in {"init", "idle"} /\ ~leaving[c]
  BY DEF Init
<1>2. \A c \in Clients : id[c] # NotId => c \in Members /\ id[c] = IdOf[c]
  BY DEF Init
<1>3. \A c, d \in Members : (ith[c] = ith[d] \/ IdOf[c] = IdOf[d]) => c = d
  BY RingAssumption DEF RingAssumption, Init
<1>4. Members \subseteq Clients
  BY RingAssumption DEF RingAssumption
<1>5. ASSUME NEW c \in Members PROVE clientId[ith[c]] = IdOf[c]
  <2>1. (CHOOSE d \in Members : ith[d] = ith[c]) = c
    BY <1>3
  <2> QED
    BY <2>1, <1>4 DEF Init
<1>6. ASSUME NEW i \in Indices, clientId[i] # NotId
      PROVE  \E c \in Members : ith[c] = i /\ clientId[i] = IdOf[c]
  BY <1>6 DEF Init
<1>7. ClaimKept /\ Picking /\ Chosen
  BY <1>1 DEF ClaimKept, Picking, Chosen, Registering
<1>8. Cells /\ OwnIndex
  BY <1>2, <1>3, <1>5 DEF Cells, OwnIndex, Entered, Claims
<1>9. OneCell
  BY <1>3, <1>6 DEF OneCell
<1>10. Positions
  <2>1. ASSUME NEW i \in cliMask PROVE clientSlot[i] # NoSlot
    <3>1. i \in Indices
      BY <1>4 DEF Init
    <3> QED
      BY <2>1, <3>1, RingAssumption DEF Init, RingAssumption
  <2> QED
    BY <2>1, <1>1 DEF Positions
<1> QED
  BY <1>7, <1>8, <1>9, <1>10 DEF RegistryInv

(* A step of one client that leaves the table of ids and the mask alone,
   only moves positions, and neither starts nor ends a registration. *)
Elsewhere(c) ==
    /\ UNCHANGED <<id, ith, clientId, cliMask, leaving, raced>>
    /\ \A i \in Indices : clientSlot[i] # NoSlot => clientSlot'[i] # NoSlot
    /\ pc' \in [Clients -> Labels]
    /\ \A d \in Clients : d # c => pc'[d] = pc[d]
    /\ pc'[c] \notin {"connectPick", "connectUnlock", "registerId",
                       "registerSlot", "registerMask", "clearSlot"}
    /\ pc'[c] \in {"leaveLock", "leaveMask"} => id[c] # NotId
    /\ pc'[c] \in {"flush", "clearId"} => leaving[c]
    /\ pc[c] \in {"connectUnlock", "registerId", "clearSlot", "crashed"}
          => pc'[c] = "crashed"

LEMMA OtherSteps ==
    ASSUME RegistryInv, TypeOK, NEW c \in Clients, Elsewhere(c)
    PROVE  RegistryInv'
<1> USE DEF Elsewhere
<1>1. ClaimKept'
  BY DEF ClaimKept, RegistryInv
<1>2. ASSUME ~raced PROVE (Picking /\ Chosen)'
  BY <1>2 DEF RegistryInv, Picking, Chosen, Registering
<1>3. ASSUME ~raced PROVE (Cells /\ OwnIndex /\ OneCell)'
  BY <1>3 DEF RegistryInv, Cells, OwnIndex, OneCell, Entered, Claims
<1>4. ASSUME ~raced PROVE Positions'
  BY <1>4 DEF RegistryInv, Positions, TypeOK
<1> QED
  BY <1>1, <1>2, <1>3, <1>4 DEF RegistryInv

(* poll goes on to the next slot of the ring, or back to its caller. *)
LEMMA OnwardStep ==
    ASSUME RegistryInv, TypeInv, NEW c \in Clients,
           pc[c] \in {"look", "recycle", "free"}, Advance(c),
           UNCHANGED <<id, ith, clientId, cliMask, leaving, raced>>
    PROVE  RegistryInv'
<1>1. cur[c] \in Slots /\ TypeOK
  BY DEF TypeInv, LocalsOK, Locals, InPoll
<1>2. Succ(cur[c]) # NoSlot
  BY <1>1, SuccInSlots, RingAssumption DEF RingAssumption, Slots
<1>3. \A i \in Indices : clientSlot[i] # NoSlot => clientSlot'[i] # NoSlot
  BY <1>1, <1>2 DEF Advance, Move, TypeOK
<1>4. /\ pc' \in [Clients -> Labels]
      /\ \A d \in Clients : d # c => pc'[d] = pc[d]
      /\ pc'[c] \in {"look", "idle", "flush", "clearId"}
      /\ pc'[c] \in {"flush", "clearId"} => leaving[c]
  <2>1. CASE Return(c, FALSE)
    BY <1>1, <2>1 DEF Return, Goto, TypeOK, Labels
  <2>2. CASE LoopOn(c)
    BY <1>1, <2>2 DEF LoopOn, Goto, TypeOK, Labels
  <2> QED
    BY <2>1, <2>2 DEF Advance
<1>5. Elsewhere(c)
  BY <1>3, <1>4 DEF Elsewhere
<1> QED
  BY <1>1, <1>5, OtherSteps

---------------------------------------------------------------------------
(* init clears the table before anybody else is in it. *)
LEMMA InitRingStep ==
    ASSUME RegistryInv, TypeInv, LockInv, NEW c \in Clients, InitRing(c)
    PROVE  RegistryInv'
<1>0. NoSlot # 0 /\ IdOf[c] # 0 /\ 0 \in Indices
  BY RingAssumption DEF RingAssumption, Indices
<1> USE DEF TypeInv, TypeOK, InitRing, At, Goto, NotId
<1>1. /\ pc' = [pc EXCEPT ![c] = "initMagic"]
      /\ id'[c] = IdOf[c] /\ ith'[c] = 0 /\ leaving' = leaving
  BY DEF walk, posting
<1>2. \A d \in Clients : d # c =>
          /\ pc'[d] \in {"idle", "crashed"} /\ id'[d] = NotId
          /\ ~leaving[d] \/ pc'[d] = "crashed"
  BY DEF LockInv, LockTypeOK, QuietBeforeInit, LeavingInside, InPoll
<1>3. ~leaving[c]
  BY DEF LockInv, LeavingInside, InPoll
<1>4. ClaimKept'
  BY <1>0, <1>1, <1>2, <1>3 DEF RegistryInv, ClaimKept
<1>5. (Picking /\ Chosen)'
  BY <1>1, <1>2 DEF Picking, Chosen, Registering
<1>6. (Cells /\ OwnIndex /\ OneCell)'
  BY <1>0, <1>1, <1>2 DEF Cells, OwnIndex, OneCell, Entered, Claims
<1>7. Positions'
  <2>1. cliMask' = {0} /\ clientSlot'[0] # NoSlot
    BY <1>0
  <2>2. ASSUME NEW d \in Clients
        PROVE  pc'[d] # "registerMask" /\ ~(leaving'[d] /\ pc'[d] # "crashed")
    <3>1. CASE d = c
      BY <1>1, <1>3, <3>1
    <3>2. CASE d # c
      BY <1>1, <1>2, <3>2
    <3> QED
      BY <3>1, <3>2
  <2> QED
    BY <2>1, <2>2 DEF Positions
<1> QED
  BY <1>4, <1>5, <1>6, <1>7 DEF RegistryInv

LEMMA ConnectCheckStep ==
    ASSUME RegistryInv, TypeInv, LockInv, NEW c \in Clients, ConnectCheck(c)
    PROVE  RegistryInv'
<1> USE DEF TypeInv, TypeOK, ConnectCheck, At, Goto, shared, clients, walk, posting
<1>0. Registering' = Registering
  BY DEF Registering
<1>1. ~leaving[c]
  BY DEF LockInv, LeavingInside, InPoll
<1>2. ClaimKept'
  BY <1>1 DEF RegistryInv, ClaimKept
<1>3. ASSUME ~raced' PROVE (Picking /\ Chosen)'
  BY <1>0, <1>3 DEF RegistryInv, Picking, Chosen
<1>4. ASSUME ~raced' PROVE (Cells /\ OwnIndex /\ OneCell)'
  BY <1>4 DEF RegistryInv, Cells, OwnIndex, OneCell, Entered, Claims
<1>5. ASSUME ~raced' PROVE Positions'
  BY <1>1, <1>5 DEF RegistryInv, Positions
<1> QED
  BY <1>2, <1>3, <1>4, <1>5 DEF RegistryInv

(* The index picked is nobody's: a claimed cell holds an id, or its client
   is in the critical section itself, or is the one connect under way. *)
LEMMA ConnectPickStep ==
    ASSUME RegistryInv, TypeInv, LockInv, NEW c \in Clients, ConnectPick(c)
    PROVE  RegistryInv'
<1> USE DEF TypeInv, TypeOK, At, Goto
<1>0. /\ pc[c] = "connectPick"
      /\ pc' = [pc EXCEPT ![c] = "connectUnlock"]
      /\ id' = [id EXCEPT ![c] = IdOf[c]]
      /\ clientId[ith'[c]] = NotId /\ ith'[c] \in Indices
      /\ \A d \in Clients : d # c => ith'[d] = ith[d]
      /\ UNCHANGED <<clientId, clientSlot, cliMask, leaving, raced>>
  BY DEF ConnectPick, FreeIndices, shared, history
<1>1. IdOf[c] # NotId
  BY RingAssumption DEF RingAssumption, NotId
<1>2. ~leaving[c]
  BY <1>0 DEF LockInv, LeavingInside, InPoll
<1>3. ASSUME NEW d \in Clients, pc[d] \in {"connectPick", "clearSlot"} PROVE d = c
  BY <1>0, <1>3 DEF LockInv, LockExclusive, Holds
<1>4. ClaimKept'
  BY <1>0, <1>1, <1>2 DEF RegistryInv, ClaimKept
<1>5. ASSUME ~raced PROVE (Picking /\ Chosen)'
  <2>1. Registering' = {c} /\ \A i \in Indices : clientId[i] # IdOf[c]
    BY <1>0, <1>5 DEF RegistryInv, Picking, Registering
  <2>2. Picking'
    BY <1>0, <1>3 DEF Picking
  <2>3. Chosen'
    BY <1>0, <1>1, <2>1 DEF Chosen
  <2> QED
    BY <2>2, <2>3
<1>6. ASSUME ~raced PROVE (Cells /\ OwnIndex /\ OneCell)'
  <2>1. (Cells /\ OneCell)'
    BY <1>0, <1>6 DEF RegistryInv, Cells, OneCell, Entered, Claims
  <2>2. ASSUME NEW d \in Clients, d # c, Claims(d)' PROVE ith[d] # ith'[c]
    <3>1. pc[d] \notin {"connectUnlock", "registerId", "clearSlot"}
      BY <1>0, <1>3, <1>6, <2>2 DEF RegistryInv, Picking, Registering
    <3>2. clientId[ith[d]] = id[d] /\ id[d] # NotId
      BY <1>0, <1>6, <2>2, <3>1 DEF RegistryInv, Cells, Entered, Claims
    <3> QED
      BY <1>0, <3>2
  <2>3. ASSUME NEW d \in Clients, NEW e \in Clients, d # c, e # c,
               Claims(d)', Claims(e)', ith'[d] = ith'[e]
        PROVE  d = e
    BY <1>0, <1>6, <2>3 DEF RegistryInv, OwnIndex, Claims
  <2>4. OwnIndex'
    BY <1>0, <2>2, <2>3 DEF OwnIndex
  <2> QED
    BY <2>1, <2>4
<1>7. ASSUME ~raced PROVE Positions'
  BY <1>0, <1>2, <1>7 DEF RegistryInv, Positions
<1> QED
  BY <1>0, <1>4, <1>5, <1>6, <1>7 DEF RegistryInv

LEMMA ConnectUnlockStep ==
    ASSUME RegistryInv, TypeInv, LockInv, NEW c \in Clients, ConnectUnlock(c)
    PROVE  RegistryInv'
<1> USE DEF TypeInv, TypeOK, ConnectUnlock, Release, At, Goto, slots, clients,
            walk, posting, history
<1>0. Registering' = Registering
  BY DEF Registering
<1>1. ClaimKept'
  BY DEF RegistryInv, ClaimKept
<1>2. ASSUME ~raced PROVE (Picking /\ Chosen)'
  BY <1>0, <1>2 DEF RegistryInv, Picking, Chosen
<1>3. ASSUME ~raced PROVE (Cells /\ OwnIndex /\ OneCell)'
  BY <1>3 DEF RegistryInv, Cells, OwnIndex, OneCell, Entered, Claims
<1>4. ASSUME ~raced PROVE Positions'
  BY <1>4 DEF RegistryInv, Positions
<1> QED
  BY <1>1, <1>2, <1>3, <1>4 DEF RegistryInv

(* The id goes into the cell that was free when it was picked. *)
LEMMA RegisterIdStep ==
    ASSUME RegistryInv, TypeInv, LockInv, NEW c \in Clients, RegisterId(c)
    PROVE  RegistryInv'
<1> USE DEF TypeInv, TypeOK, At, Goto
<1>0. /\ pc[c] = "registerId"
      /\ pc' = [pc EXCEPT ![c] = "registerSlot"]
      /\ clientId' = [clientId EXCEPT ![ith[c]] = id[c]]
      /\ UNCHANGED <<id, ith, clientSlot, cliMask, leaving, raced>>
  BY DEF RegisterId, clients, history
<1>1. ~leaving[c]
  BY <1>0 DEF LockInv, LeavingInside, InPoll
<1>2. Registering' = Registering \ {c} /\ c \in Registering
  BY <1>0 DEF Registering
<1>3. ClaimKept'
  <2>1. id[c] # NotId
    BY <1>0 DEF RegistryInv, ClaimKept
  <2> QED
    BY <1>0, <1>1, <2>1 DEF RegistryInv, ClaimKept
<1>4. ASSUME ~raced PROVE (Picking /\ Chosen)'
  <2>1. Registering' = {} /\ \A d \in Clients : pc[d] # "connectPick"
    BY <1>2, <1>4 DEF RegistryInv, Chosen, Picking
  <2> QED
    BY <1>0, <2>1 DEF Picking, Chosen
<1>5. ASSUME ~raced PROVE (Cells /\ OwnIndex /\ OneCell)'
  <2>1. OwnIndex /\ Cells /\ OneCell /\ \A i \in Indices : clientId[i] # id[c]
    BY <1>2, <1>5 DEF RegistryInv, Chosen
  <2>2. id[c] # NotId
    BY <1>2, <1>5 DEF RegistryInv, Chosen
  <2>3. OwnIndex' /\ OneCell'
    BY <1>0, <2>1 DEF OwnIndex, OneCell, Claims
  <2>4. ASSUME NEW d \in Clients, Entered(d)' PROVE clientId'[ith[d]] = id[d]
    <3>1. CASE d = c
      BY <1>0, <3>1
    <3>2. CASE d # c
      BY <1>0, <2>1, <2>2, <2>4, <3>2 DEF Cells, OwnIndex, Entered, Claims
    <3> QED
      BY <3>1, <3>2
  <2> QED
    BY <1>0, <2>3, <2>4 DEF Cells
<1>6. ASSUME ~raced PROVE Positions'
  BY <1>0, <1>1, <1>6 DEF RegistryInv, Positions
<1> QED
  BY <1>0, <1>3, <1>4, <1>5, <1>6 DEF RegistryInv

LEMMA RegisterSlotStep ==
    ASSUME RegistryInv, TypeInv, LockInv, NEW c \in Clients, RegisterSlot(c)
    PROVE  RegistryInv'
<1>6. headSlot # NoSlot
  <2>1. NoSlot \notin Slots
    BY RingAssumption DEF RingAssumption, Slots
  <2> QED
    BY <2>1 DEF TypeInv, TypeOK
<1> USE DEF TypeInv, TypeOK, At, Goto
<1>0. /\ pc[c] = "registerSlot"
      /\ pc' = [pc EXCEPT ![c] = "registerMask"]
      /\ clientSlot' = [clientSlot EXCEPT ![ith[c]] = headSlot]
      /\ UNCHANGED <<id, ith, clientId, cliMask, leaving, raced>>
  BY DEF RegisterSlot, clients
<1>1. Registering' = Registering
  BY <1>0 DEF Registering
<1>2. ClaimKept'
  BY <1>0 DEF RegistryInv, ClaimKept
<1>3. ASSUME ~raced PROVE (Picking /\ Chosen)'
  BY <1>0, <1>1, <1>3 DEF RegistryInv, Picking, Chosen
<1>4. ASSUME ~raced PROVE (Cells /\ OwnIndex /\ OneCell)'
  BY <1>0, <1>4 DEF RegistryInv, Cells, OwnIndex, OneCell, Entered, Claims
<1>5. ASSUME ~raced PROVE Positions'
  BY <1>0, <1>5, <1>6 DEF RegistryInv, Positions
<1> QED
  BY <1>0, <1>2, <1>3, <1>4, <1>5 DEF RegistryInv

(* The bit goes in behind a position, and is no leaving client's. *)
LEMMA RegisterMaskStep ==
    ASSUME RegistryInv, TypeInv, LockInv, NEW c \in Clients, RegisterMask(c)
    PROVE  RegistryInv'
<1> USE DEF TypeInv, TypeOK, At, Goto
<1>0. /\ pc[c] = "registerMask"
      /\ pc' = [pc EXCEPT ![c] = "idle"]
      /\ cliMask' = cliMask \cup {ith[c]}
      /\ UNCHANGED <<id, ith, clientId, clientSlot, leaving, raced>>
  BY DEF RegisterMask, clients, history
<1>1. Registering' = Registering
  BY <1>0 DEF Registering
<1>2. ~leaving[c]
  BY <1>0 DEF LockInv, LeavingInside, InPoll
<1>3. ClaimKept'
  BY <1>0 DEF RegistryInv, ClaimKept
<1>4. ASSUME ~raced PROVE (Picking /\ Chosen)'
  BY <1>0, <1>1, <1>4 DEF RegistryInv, Picking, Chosen
<1>5. ASSUME ~raced PROVE (Cells /\ OwnIndex /\ OneCell)'
  BY <1>0, <1>5 DEF RegistryInv, Cells, OwnIndex, OneCell, Entered, Claims
<1>6. ASSUME ~raced PROVE Positions'
  <2>1. ASSUME NEW d \in Clients, leaving[d], pc[d] # "crashed"
        PROVE  ith[d] # ith[c]
    BY <1>0, <1>2, <1>6, <2>1 DEF RegistryInv, ClaimKept, OwnIndex, Claims
  <2> QED
    BY <1>0, <1>6, <2>1 DEF RegistryInv, Positions
<1> QED
  BY <1>0, <1>3, <1>4, <1>5, <1>6 DEF RegistryInv

LEMMA DisconnectMaskStep ==
    ASSUME RegistryInv, TypeInv, LockInv, NEW c \in Clients, DisconnectMask(c)
    PROVE  RegistryInv'
<1> USE DEF TypeInv, TypeOK, At, Goto
<1>0. /\ pc[c] = "leaveMask"
      /\ pc' = [pc EXCEPT ![c] = "flush"]
      /\ cliMask' = cliMask \ {ith[c]}
      /\ leaving' = [leaving EXCEPT ![c] = TRUE]
      /\ UNCHANGED <<id, ith, clientId, clientSlot, raced>>
  BY DEF DisconnectMask, clients, history
<1>1. Registering' = Registering
  BY <1>0 DEF Registering
<1>2. ClaimKept'
  BY <1>0 DEF RegistryInv, ClaimKept
<1>3. ASSUME ~raced PROVE (Picking /\ Chosen)'
  BY <1>0, <1>1, <1>3 DEF RegistryInv, Picking, Chosen
<1>4. ASSUME ~raced PROVE (Cells /\ OwnIndex /\ OneCell)'
  BY <1>0, <1>4 DEF RegistryInv, Cells, OwnIndex, OneCell, Entered, Claims
<1>5. ASSUME ~raced PROVE Positions'
  BY <1>0, <1>5 DEF RegistryInv, Positions
<1> QED
  BY <1>0, <1>2, <1>3, <1>4, <1>5 DEF RegistryInv

(* The cell given back is no other client's, and no connect is choosing. *)
LEMMA DisconnectClearIdStep ==
    ASSUME RegistryInv, TypeInv, LockInv, NEW c \in Clients, DisconnectClearId(c)
    PROVE  RegistryInv'
<1> USE DEF TypeInv, TypeOK, At, Goto
<1>0. /\ pc[c] = "clearId"
      /\ pc' = [pc EXCEPT ![c] = "clearSlot"]
      /\ clientId' = [clientId EXCEPT ![ith[c]] = NotId]
      /\ UNCHANGED <<id, ith, clientSlot, cliMask, leaving, raced>>
  BY DEF DisconnectClearId, clients, history
<1>1. Registering' = Registering
  BY <1>0 DEF Registering
<1>2. \A d \in Clients : pc[d] # "connectPick"
  BY <1>0 DEF LockInv, LockExclusive, Holds
<1>3. ClaimKept'
  BY <1>0 DEF RegistryInv, ClaimKept
<1>4. ASSUME ~raced PROVE (Picking /\ Chosen)'
  <2>1. Picking'
    BY <1>0, <1>2 DEF Picking
  <2>2. Chosen'
    BY <1>0, <1>1, <1>4 DEF RegistryInv, Chosen, NotId
  <2> QED
    BY <2>1, <2>2
<1>5. ASSUME ~raced PROVE (Cells /\ OwnIndex /\ OneCell)'
  <2>1. id[c] # NotId
    BY <1>0 DEF RegistryInv, ClaimKept
  <2>2. ASSUME NEW d \in Clients, Entered(d)' PROVE clientId'[ith[d]] = id[d]
    <3>1. d # c
      BY <1>0, <2>2 DEF Entered
    <3>2. ith[d] # ith[c]
      BY <1>0, <1>5, <2>1, <2>2, <3>1 DEF RegistryInv, OwnIndex, Entered, Claims
    <3> QED
      BY <1>0, <1>5, <2>2, <3>1, <3>2 DEF RegistryInv, Cells, Entered, Claims
  <2>3. (OwnIndex /\ OneCell)'
    BY <1>0, <1>5 DEF RegistryInv, OwnIndex, OneCell, Claims
  <2> QED
    BY <1>0, <2>2, <2>3 DEF Cells
<1>6. ASSUME ~raced PROVE Positions'
  BY <1>0, <1>6 DEF RegistryInv, Positions
<1> QED
  BY <1>0, <1>3, <1>4, <1>5, <1>6 DEF RegistryInv

(* The position goes after the bit, and is no joining client's. *)
LEMMA DisconnectClearSlotStep ==
    ASSUME RegistryInv, TypeInv, LockInv, NEW c \in Clients, DisconnectClearSlot(c)
    PROVE  RegistryInv'
<1> USE DEF TypeInv, TypeOK, At, Goto
<1>0. /\ pc[c] = "clearSlot"
      /\ pc' = [pc EXCEPT ![c] = "leaveUnlock"]
      /\ clientSlot' = [clientSlot EXCEPT ![ith[c]] = NoSlot]
      /\ id' = [id EXCEPT ![c] = NotId]
      /\ ith' = [ith EXCEPT ![c] = 0]
      /\ leaving' = [leaving EXCEPT ![c] = FALSE]
      /\ UNCHANGED <<clientId, cliMask, raced>>
  BY DEF DisconnectClearSlot, history
<1>1. Registering' = Registering /\ c \notin Registering
  BY <1>0 DEF Registering
<1>2. leaving[c] /\ id[c] # NotId
  BY <1>0 DEF RegistryInv, ClaimKept
<1>3. ClaimKept'
  BY <1>0 DEF RegistryInv, ClaimKept
<1>4. ASSUME ~raced PROVE (Picking /\ Chosen)'
  <2>1. \A d \in Registering : d # c /\ id'[d] = id[d] /\ ith'[d] = ith[d]
    BY <1>0, <1>1 DEF Registering
  <2>2. Picking'
    BY <1>0, <1>1, <1>4 DEF RegistryInv, Picking
  <2>3. Chosen'
    <3> SUFFICES ASSUME NEW d \in Registering
                 PROVE  /\ id'[d] # NotId /\ clientId[ith'[d]] = NotId
                        /\ \A i \in Indices : clientId[i] # id'[d]
                        /\ Registering = {d}
      BY <1>0, <1>1 DEF Chosen
    <3> QED
      BY <1>4, <2>1 DEF RegistryInv, Chosen
  <2> QED
    BY <2>2, <2>3
<1>5. ASSUME ~raced PROVE (Cells /\ OwnIndex /\ OneCell)'
  BY <1>0, <1>5 DEF RegistryInv, Cells, OwnIndex, OneCell, Entered, Claims
<1>6. ASSUME ~raced PROVE Positions'
  <2>1. ASSUME NEW d \in Clients, pc[d] = "registerMask" PROVE ith[d] # ith[c]
    BY <1>0, <1>2, <1>6, <2>1 DEF RegistryInv, ClaimKept, OwnIndex, Claims
  <2>2. ith[c] \notin cliMask
    BY <1>0, <1>2, <1>6 DEF RegistryInv, Positions
  <2> QED
    BY <1>0, <1>6, <2>1, <2>2 DEF RegistryInv, Positions
<1> QED
  BY <1>0, <1>3, <1>4, <1>5, <1>6 DEF RegistryInv

---------------------------------------------------------------------------
LEMMA RegistryStep ==
    RegistryInv /\ TypeInv /\ LockInv /\ [Next]_vars => RegistryInv'
<1> SUFFICES ASSUME RegistryInv, TypeInv, LockInv, [Next]_vars PROVE RegistryInv'
  OBVIOUS
<1>0. TypeOK
  BY DEF TypeInv
<1>1. CASE UNCHANGED vars
  <2>1. UNCHANGED <<id, ith, clientId, clientSlot, cliMask, leaving, raced, pc>>
    BY <1>1 DEF vars, shared, clients, history
  <2> QED
    BY <2>1 DEF RegistryInv, ClaimKept, Picking, Chosen, Cells, OwnIndex, OneCell,
                Positions, Entered, Claims, Registering
<1>2. ASSUME NEW c \in Clients, Running(c) PROVE RegistryInv'
  <2> USE DEF At, Goto, TypeOK, Labels, Elsewhere, shared, slots, clients, walk,
              posting, history
  <2>0. /\ leaving[c] \/ pc[c] \in {"leaveLock", "leaveMask"} => id[c] # NotId
        /\ pc[c] \in {"flush", "clearId", "clearSlot"} => leaving[c]
    BY DEF RegistryInv, ClaimKept
  <2>1. CASE InitRing(c)
    BY <2>1, InitRingStep
  <2>2. CASE InitMagic(c)
    BY <1>0, <2>0, <2>2, OtherSteps DEF InitMagic
  <2>3. CASE InitUnlock(c)
    BY <1>0, <2>0, <2>3, OtherSteps DEF InitUnlock
  <2>4. CASE ConnectLock(c)
    BY <1>0, <2>0, <2>4, OtherSteps DEF ConnectLock, Acquire
  <2>5. CASE ConnectKnown(c)
    BY <1>0, <2>0, <2>5, OtherSteps DEF ConnectKnown
  <2>6. CASE ConnectCheck(c)
    BY <2>6, ConnectCheckStep
  <2>7. CASE ConnectFull(c)
    BY <1>0, <2>0, <2>7, OtherSteps DEF ConnectFull
  <2>8. CASE ConnectPick(c)
    BY <2>8, ConnectPickStep
  <2>9. CASE ConnectFail(c)
    BY <1>0, <2>0, <2>9, OtherSteps DEF ConnectFail, Release
  <2>10. CASE ConnectUnlock(c)
    BY <2>10, ConnectUnlockStep
  <2>11. CASE RegisterId(c)
    BY <2>11, RegisterIdStep
  <2>12. CASE RegisterSlot(c)
    BY <2>12, RegisterSlotStep
  <2>13. CASE RegisterMask(c)
    BY <2>13, RegisterMaskStep
  <2>14. CASE PostReadHead(c)
    BY <1>0, <2>0, <2>14, OtherSteps DEF PostReadHead
  <2>15. CASE PostTake(c)
    BY <1>0, <2>0, <2>15, OtherSteps DEF PostTake, Take
  <2>16. CASE PostRetry(c)
    BY <1>0, <2>0, <2>16, OtherSteps DEF PostRetry
  <2>17. CASE PostMoveHead(c)
    BY <1>0, <2>0, <2>17, OtherSteps DEF PostMoveHead
  <2>18. CASE PostFillFirst(c)
    BY <1>0, <2>0, <2>18, OtherSteps DEF PostFillFirst, Fill
  <2>19. CASE PostFillNext(c)
    BY <1>0, <2>0, <2>19, OtherSteps DEF PostFillNext, Fill
  <2>20. CASE PostPublish(c)
    BY <1>0, <2>0, <2>20, OtherSteps DEF PostPublish, PostDone
  <2>21. CASE PostFail(c)
    BY <1>0, <2>0, <2>21, OtherSteps DEF PostFail, PostDone
  <2>22. CASE PostAbort(c)
    BY <1>0, <2>0, <2>22, OtherSteps DEF PostAbort
  <2>23. CASE AbortPart(c)
    BY <1>0, <2>0, <2>23, OtherSteps DEF AbortPart, MarkTop
  <2>24. CASE AbortFirst(c)
    BY <1>0, <2>0, <2>24, OtherSteps DEF AbortFirst, MarkTop, PostDone
  <2>25. CASE PollNothing(c)
    BY <1>0, <2>0, <2>25, OtherSteps DEF PollNothing, Return
  <2>26. CASE PollDeliver(c)
    BY <1>0, <2>0, <2>26, OtherSteps DEF PollDeliver, Return
  <2>27. CASE PollSkip(c)
    BY <1>0, <2>27, OnwardStep DEF PollSkip
  <2>28. CASE PollSeen(c)
    BY <1>0, <2>0, <2>28, OtherSteps DEF PollSeen
  <2>29. CASE PollClear(c)
    BY <1>0, <2>0, <2>29, OtherSteps DEF PollClear
  <2>30. CASE PollKeep(c)
    BY <1>0, <2>30, OnwardStep DEF PollKeep
  <2>31. CASE PollRecycle(c)
    BY <1>0, <2>0, <2>31, OtherSteps DEF PollRecycle
  <2>32. CASE PollFreePart(c)
    BY <1>0, <2>0, <2>32, OtherSteps DEF PollFreePart, MarkTop
  <2>33. CASE PollFreeFirst(c)
    BY <1>0, <2>33, OnwardStep DEF PollFreeFirst
  <2>34. CASE Descend(c)
    <3>1. pc' \in [Clients -> Labels] /\ pc'[c] \in {"free", "aborting", "crashed"}
      BY <1>0, <2>34 DEF Descend
    <3>2. Elsewhere(c)
      BY <1>0, <2>34, <3>1 DEF Descend
    <3> QED
      BY <1>0, <3>2, OtherSteps
  <2>35. CASE LoadPart(c)
    BY <1>0, <2>0, <2>35, OtherSteps DEF LoadPart
  <2>36. CASE DisconnectLock(c)
    BY <1>0, <2>0, <2>36, OtherSteps DEF DisconnectLock, Acquire
  <2>37. CASE DisconnectMask(c)
    BY <2>37, DisconnectMaskStep
  <2>38. CASE FlushPoll(c)
    BY <1>0, <2>0, <2>38, OtherSteps DEF FlushPoll, PollStart
  <2>39. CASE DisconnectClearId(c)
    BY <2>39, DisconnectClearIdStep
  <2>40. CASE DisconnectClearSlot(c)
    BY <2>40, DisconnectClearSlotStep
  <2>41. CASE DisconnectUnlock(c)
    BY <1>0, <2>0, <2>41, OtherSteps DEF DisconnectUnlock, Release
  <2> QED
    BY <1>2, <2>1, <2>2, <2>3, <2>4, <2>5, <2>6, <2>7, <2>8, <2>9, <2>10, <2>11,
       <2>12, <2>13, <2>14, <2>15, <2>16, <2>17, <2>18, <2>19, <2>20, <2>21,
       <2>22, <2>23, <2>24, <2>25, <2>26, <2>27, <2>28, <2>29, <2>30, <2>31,
       <2>32, <2>33, <2>34, <2>35, <2>36, <2>37, <2>38, <2>39, <2>40, <2>41 DEF
       Running
<1>3. ASSUME NEW c \in Clients, Calling(c) \/ Crash(c) PROVE RegistryInv'
  <2> USE DEF At, Goto, TypeOK, Labels, Elsewhere, shared, slots, clients, walk,
              posting, history
  <2>1. Elsewhere(c)
    <3>1. CASE Connect(c)
      BY <1>0, <3>1 DEF Connect
    <3>2. CASE \E n \in 1 .. MaxParts : Post(c, n)
      BY <1>0, <3>2 DEF Post
    <3>3. CASE Poll(c)
      BY <1>0, <3>3 DEF Poll, PollStart
    <3>4. CASE LoadBytes(c)
      BY <1>0, <3>4 DEF LoadBytes
    <3>5. CASE ClearBytes(c)
      BY <1>0, <3>5 DEF ClearBytes
    <3>6. CASE Disconnect(c)
      BY <1>0, <3>6 DEF Disconnect
    <3>7. CASE Crash(c)
      BY <1>0, <3>7 DEF Crash
    <3> QED
      BY <1>3, <3>1, <3>2, <3>3, <3>4, <3>5, <3>6, <3>7 DEF Calling
  <2> QED
    BY <1>0, <2>1, OtherSteps
<1> QED
  BY <1>1, <1>2, <1>3 DEF Next

LEMMA RegistryAlways == Spec => [](RegistryInv /\ TypeInv /\ LockInv)
BY RegistryInit, RegistryStep, TypeInit, TypeStep, LockInit, LockStep, PTL DEF Spec

(* Clients whose connects did not overlap have distinct indices and ids, and
   each finds its own id in its cell. *)
THEOREM RegistrationIsUnique == Spec => []RegistrationUnique
<1>1. RegistryInv /\ TypeInv => RegistrationUnique
  <2> SUFFICES ASSUME RegistryInv, TypeInv, ~raced,
                      NEW c \in Clients, NEW d \in Clients, Registered(c)
               PROVE  /\ clientId[ith[c]] = id[c]
                      /\ Registered(d) /\ c # d => ith[c] # ith[d] /\ id[c] # id[d]
    BY DEF RegistrationUnique
  <2>1. Entered(c) /\ (Registered(d) => Entered(d))
    BY DEF Registered, Entered, Claims
  <2>2. clientId[ith[c]] = id[c] /\ (Registered(d) => clientId[ith[d]] = id[d])
    BY <2>1 DEF RegistryInv, Cells
  <2>3. Registered(d) /\ c # d => ith[c] # ith[d]
    BY <2>1 DEF RegistryInv, OwnIndex, Entered
  <2>4. ith[c] \in Indices /\ ith[d] \in Indices
    BY DEF TypeInv, TypeOK
  <2> QED
    BY <2>2, <2>3, <2>4 DEF RegistryInv, OneCell, Registered
<1> QED
  BY RegistryAlways, <1>1, PTL

(* Every index a message can be addressed to has a read position, also
   while clients come, go and die. *)
THEOREM AddressedHaveReaders == Spec => []MaskHasReader
<1>1. RegistryInv => MaskHasReader
  BY DEF RegistryInv, Positions, MaskHasReader
<1> QED
  BY RegistryAlways, <1>1, PTL
=============================================================================
