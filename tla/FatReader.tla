----------------------------- MODULE FatReader -----------------------------
(***************************************************************************)
(* A node of the fat model while another thread reads it.  The writer      *)
(* stores what FatNode does in one step one store after the other, in the  *)
(* order of the code: a modifier and then the count; a new revision, then  *)
(* the link to it and the link back; the version of the head and then that *)
(* of the transaction.  The reader takes no lock: fm_nodeGet follows the   *)
(* links, loads the count and looks at the modifiers one by one.           *)
(*                                                                         *)
(* Readers store nothing, so one stands for all of them.  Stores are seen  *)
(* in the order they are made, as on the processors the code is for; the   *)
(* stores of one modifier have no order, only the barrier behind them has. *)
(***************************************************************************)
EXTENDS Integers, Sequences, SequencesExt, FiniteSetsExt

CONSTANTS
    MaxRev,      \* BOUND: the revisions of the node there can be
    MaxVersion,  \* BOUND: the last version that is committed
    NodeLoad,    \* FM_NODE_LOAD
    Keys, Data,
    Writes,      \* BOUND: the keys and values that are set
    ReadKeys,    \* BOUND: the keys that are read
    Unset        \* FM_DT_NONE: no value, and no key

ASSUME ReaderAssumption ==
    /\ MaxRev \in Nat \ {0} /\ MaxVersion \in Nat \ {0} /\ NodeLoad \in Nat \ {0}
    /\ IsFiniteSet(Keys) /\ ReadKeys \subseteq Keys
    /\ Unset \notin Data /\ Unset \notin Keys
    /\ Writes \subseteq Keys \X (Data \cup {Unset})

VARIABLES
    headVersion, currVersion,
    knots,     \* the knots of the revisions
    mods,      \* their modifiers, written or not
    cnt,       \* how many of these count
    writer,    \* what the writer is about to store
    reader,    \* where the reader is
    past       \* history: the contents of each committed version

memory == <<headVersion, currVersion, knots, mods, cnt>>
vars == <<memory, writer, reader, past>>

VersionNone == 0
VersionHead == MaxVersion + 1
BadRef == 0
Root == 1
Revs == 1 .. MaxRev

Mod(v, k, w) == [version |-> v, key |-> k, value |-> w]

ZeroMod == Mod(VersionNone, Unset, Unset)

Empty == [k \in Keys |-> Unset]

(* The root was committed empty.  Revisions are numbered as they come. *)
Init ==
    /\ headVersion = 1 /\ currVersion = VersionNone
    /\ knots = [n \in Revs |-> [version |-> IF n = Root THEN 1 ELSE VersionNone,
                                prev |-> BadRef, next |-> BadRef]]
    /\ mods = [n \in Revs |-> [j \in 1 .. NodeLoad |-> ZeroMod]]
    /\ cnt = [n \in Revs |-> 0]
    /\ writer = [pc |-> "idle"]
    /\ reader = [pc |-> "idle"]
    /\ past = <<Empty>>

-----------------------------------------------------------------------------
(* The writer *)

Written(n) == SubSeq(mods[n], 1, cnt[n])

(* The newest modifier of k, if there is one. *)
Newest(ms, k) ==
    LET of == {j \in DOMAIN ms : ms[j].key = k}
    IN  IF of = {} THEN ZeroMod ELSE ms[Max(of)]

Live(n) == [k \in Keys |-> Newest(Written(n), k).value]

(* The revision a set works on. *)
IsHead(n) == knots[n].version # VersionNone /\ knots[n].next = BadRef

Idle == writer.pc = "idle"

Begin ==
    /\ Idle /\ currVersion = VersionNone /\ headVersion < MaxVersion
    /\ currVersion' = headVersion + 1
    /\ UNCHANGED <<headVersion, knots, mods, cnt, writer, reader, past>>

(* fm_end stores the head first. *)
EndHead ==
    /\ Idle /\ currVersion # VersionNone
    /\ headVersion' = currVersion
    /\ \E n \in Revs : IsHead(n) /\ past' = Append(past, Live(n))
    /\ writer' = [pc |-> "close"]
    /\ UNCHANGED <<currVersion, knots, mods, cnt, reader>>

EndCurr ==
    /\ writer.pc = "close"
    /\ currVersion' = VersionNone
    /\ writer' = [pc |-> "idle"]
    /\ UNCHANGED <<headVersion, knots, mods, cnt, reader, past>>

Fields == {"version", "key", "value"}

(* fm_nodeSet in a node that has room. *)
Set(n, k, w) ==
    /\ Idle /\ currVersion # VersionNone
    /\ IsHead(n) /\ cnt[n] < NodeLoad
    /\ writer' = [pc |-> "fill", node |-> n, at |-> cnt[n] + 1,
                  mod |-> Mod(currVersion, k, w), left |-> Fields]
    /\ UNCHANGED <<memory, reader, past>>

StoreField(f) ==
    /\ writer.pc = "fill" /\ f \in writer.left
    /\ mods' = [mods EXCEPT ![writer.node][writer.at][f] = writer.mod[f]]
    /\ writer' = [writer EXCEPT !.left = @ \ {f}]
    /\ UNCHANGED <<headVersion, currVersion, knots, cnt, reader, past>>

(* Mutant: There is no barrier, and the count may go up first. *)
StoreCountEarly ==
    /\ writer.pc = "fill"
    /\ writer.left # {} => cnt[writer.node] # writer.at
    /\ cnt' = [cnt EXCEPT ![writer.node] = writer.at]
    /\ writer' = IF writer.left = {} THEN [pc |-> "idle"] ELSE writer
    /\ UNCHANGED <<headVersion, currVersion, knots, mods, reader, past>>

(* Behind _WriteBarrier. *)
StoreCount ==
    /\ writer.pc = "fill" /\ writer.left = {}
    /\ cnt' = [cnt EXCEPT ![writer.node] = writer.at]
    /\ writer' = [pc |-> "idle"]
    /\ UNCHANGED <<headVersion, currVersion, knots, mods, reader, past>>

(* What is in force in n, ordered by version. *)
InForce(n) == {m \in {Newest(Written(n), k) : k \in Keys} : m.value # Unset}

Sorted(S) ==
    {s \in [1 .. Cardinality(S) -> S] :
        /\ Range(s) = S
        /\ \A i, j \in DOMAIN s : i < j => s[i].version <= s[j].version}

(* _nodeDeflate, the key's new modifier in place of the one in force, and
   _modSort; none when the key is not in force or everything is. *)
Reduced(n, k, w) ==
    UNION {Sorted((InForce(n) \ {old}) \cup {Mod(currVersion, k, w)}) :
        old \in {m \in InForce(n) : m.key = k /\ Cardinality(InForce(n)) < NodeLoad}}

Padded(s) == [j \in 1 .. NodeLoad |-> IF j <= Len(s) THEN s[j] ELSE ZeroMod]

(* Mutant: The full node is reduced as well. *)
SpillInPlace(n, k, w) ==
    /\ Idle /\ currVersion # VersionNone
    /\ IsHead(n) /\ cnt[n] = NodeLoad /\ knots[n].version < currVersion
    /\ \E new \in Revs, s \in Reduced(n, k, w) :
         /\ new = n + 1
         /\ mods' = [mods EXCEPT ![n] = Padded(s), ![new] = Padded(s)]
         /\ cnt' = [cnt EXCEPT ![new] = Len(s)]
         /\ knots' = [knots EXCEPT ![new].version = currVersion]
         /\ writer' = [pc |-> "link", from |-> n, to |-> new]
    /\ UNCHANGED <<headVersion, currVersion, reader, past>>

(* fm_nodeSet in a full node: the new revision is complete before anything
   leads to it.  BOUND: not where FatNode has a defect, for a key that is not
   in force or in a node of the open version. *)
Spill(n, k, w) ==
    /\ Idle /\ currVersion # VersionNone
    /\ IsHead(n) /\ cnt[n] = NodeLoad /\ knots[n].version < currVersion
    /\ \E new \in Revs, s \in Reduced(n, k, w) :
         /\ new = n + 1
         /\ mods' = [mods EXCEPT ![new] = Padded(s)]
         /\ cnt' = [cnt EXCEPT ![new] = Len(s)]
         /\ knots' = [knots EXCEPT ![new].version = currVersion]
         /\ writer' = [pc |-> "link", from |-> n, to |-> new]
    /\ UNCHANGED <<headVersion, currVersion, reader, past>>

Torn(r) == IF r.pc = "idle" THEN r ELSE [r EXCEPT !.torn = r.asked = VersionHead]

(* fm_refLink *)
LinkNext ==
    /\ writer.pc = "link"
    /\ knots' = [knots EXCEPT ![writer.from].next = writer.to]
    /\ writer' = [writer EXCEPT !.pc = "back"]
    /\ reader' = Torn(reader)
    /\ UNCHANGED <<headVersion, currVersion, mods, cnt, past>>

LinkPrev ==
    /\ writer.pc = "back"
    /\ knots' = [knots EXCEPT ![writer.to].prev = writer.from]
    /\ writer' = [pc |-> "idle"]
    /\ UNCHANGED <<headVersion, currVersion, mods, cnt, reader, past>>

WriterNext ==
    \/ Begin \/ EndHead \/ EndCurr
    \/ \E n \in Revs, s \in Writes : Set(n, s[1], s[2]) \/ Spill(n, s[1], s[2])
    \/ \E f \in Fields : StoreField(f)
    \/ StoreCount \/ LinkNext \/ LinkPrev

-----------------------------------------------------------------------------
(* The reader: fm_nodeGet *)

(* What a thread can have got as a reference of the node: the root, and what
   fm_refRevise leads to from there. *)
Held == ({Root} \cup {knots[n].next : n \in Revs}) \ {BadRef}

(* Is there a link back from n already? *)
Backed(n) == n = Root \/ knots[n].prev # BadRef

OfOpen(n) == knots[n].version > headVersion

(* History.  Of a read of a version: was the link back there?  Of a read of
   the head: the head as of the start, and whether there ever was a revision
   of an open transaction. *)
Get(n, v, k) ==
    /\ reader.pc = "idle"
    /\ reader' = [pc |-> IF knots[n].version > v THEN "down"
                         ELSE IF knots[n].version < v THEN "up" ELSE "version",
                  ref |-> n, asked |-> v, version |-> v, key |-> k,
                  backed |-> v = VersionHead \/ Backed(n),
                  since |-> IF v = VersionHead THEN headVersion ELSE v,
                  torn |-> v = VersionHead /\ \E m \in Held : OfOpen(m)]
    /\ UNCHANGED <<memory, writer, past>>

Answer(w) ==
    reader' = [pc |-> "done", value |-> w, key |-> reader.key, asked |-> reader.asked,
               since |-> reader.since, backed |-> reader.backed, torn |-> reader.torn]

(* _reviseRef, one link at a time. *)
ReviseDown ==
    /\ reader.pc = "down"
    /\ LET p == knots[reader.ref].prev IN
       IF p = BadRef THEN Answer(Unset)
       ELSE reader' = [reader EXCEPT !.ref = p,
                          !.pc = IF knots[p].version <= reader.version THEN "version" ELSE @]
    /\ UNCHANGED <<memory, writer, past>>

ReviseUp ==
    /\ reader.pc = "up"
    /\ LET n == knots[reader.ref].next IN
       reader' = IF n = BadRef \/ knots[n].version > reader.version
                 THEN [reader EXCEPT !.pc = "version"]
                 ELSE [reader EXCEPT !.ref = n]
    /\ UNCHANGED <<memory, writer, past>>

(* Mutant: the head stays what it was asked for as. *)
LoadVersionNever ==
    /\ reader.pc = "version"
    /\ reader' = [reader EXCEPT !.pc = "count"]
    /\ UNCHANGED <<memory, writer, past>>

(* The version of the head, once the revision is found. *)
LoadVersion ==
    /\ reader.pc = "version"
    /\ reader' = [reader EXCEPT !.pc = "count",
                     !.version = IF @ = VersionHead THEN headVersion ELSE @]
    /\ UNCHANGED <<memory, writer, past>>

(* _nodeFindMod *)
LoadCount ==
    /\ reader.pc = "count"
    /\ reader' = [pc |-> "scan", ref |-> reader.ref, asked |-> reader.asked,
                  version |-> reader.version, key |-> reader.key, backed |-> reader.backed,
                  since |-> reader.since, torn |-> reader.torn,
                  at |-> 1, end |-> cnt[reader.ref], found |-> FALSE, value |-> Unset]
    /\ UNCHANGED <<memory, writer, past>>

(* Its two loops: for the first modifier that sets the key, and from there
   for the last one that is not too new. *)
Scan ==
    /\ reader.pc = "scan"
    /\ IF reader.at > reader.end THEN Answer(reader.value)
       ELSE LET m == mods[reader.ref][reader.at]
                new == m.version > reader.version
                about == m.key = reader.key
            IN  IF new /\ (~reader.found \/ about) THEN Answer(reader.value)
                ELSE IF about /\ (reader.found \/ m.value # Unset)
                THEN reader' = [reader EXCEPT !.at = @ + 1, !.found = TRUE, !.value = m.value]
                ELSE reader' = [reader EXCEPT !.at = @ + 1]
    /\ UNCHANGED <<memory, writer, past>>

Return ==
    /\ reader.pc = "done"
    /\ reader' = [pc |-> "idle"]
    /\ UNCHANGED <<memory, writer, past>>

Reading == ReviseDown \/ ReviseUp \/ LoadVersion \/ LoadCount \/ Scan \/ Return

Next ==
    \/ WriterNext
    \/ \E n \in Held, v \in (1 .. headVersion) \cup {VersionHead}, k \in ReadKeys : Get(n, v, k)
    \/ Reading

Spec == Init /\ [][Next]_vars

-----------------------------------------------------------------------------
(* Properties *)

(* Whatever the writer stores meanwhile, a read of a committed version gives
   what the key held when that version was committed: no modifier that is
   half written, no change of a later version, none missed. *)
CommittedRead ==
    reader.pc = "done" /\ reader.asked # VersionHead /\ reader.backed =>
        reader.value = past[reader.asked][reader.key]

(* fm_nodeGet of the head gives what the key held in a version that was the
   head at some time of the read, as long as no revision of an open
   transaction is linked meanwhile. *)
HeadRead ==
    reader.pc = "done" /\ reader.asked = VersionHead /\ ~reader.torn =>
        \E h \in reader.since .. headVersion : reader.value = past[h][reader.key]

(* What counts in a revision that can be reached never changes. *)
CountedStays ==
    [][\A n \in Held : \A j \in 1 .. cnt[n] : mods'[n][j] = mods[n][j]]_vars
=============================================================================
