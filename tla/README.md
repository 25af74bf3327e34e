# Formal models of ppw

`ppw` holds two libraries: **ppw ipc**, messages and memory shared between
processes, and **FatModel**, a versioned store of nodes, brushes, arrays and
strings in one block of memory. This directory holds TLA+ models of them,
translated from `code/` and `api/`, with configurations for TLC and proofs for
TLAPS. `PROJECT.json` maps every definition to the lines it models and lists
the runs, the mutants that show each property can fail, the hazards and the
theorems.

    tlc -workers 2 -config ring_members.cfg MCRing.tla
    tlapm FatZoneProofs.tla

## 1. The system

| Component | Source | State | Operations |
|---|---|---|---|
| IPCRingMessenger | `code/ipc/ipc_msg.cpp` | in shared memory: lock, head, client table and mask, slots with status, mask and chain; per client: id, index, polled slot | `init connect disconnect post poll loadBytes` |
| PagingFile | `code/ipc/ipc_shm.cpp` | file handle, mapping handle, mapped address | `createPagingFile open close map unmap flush` |
| MemCursor | `api/ppw_mcursor.h` | a position in a caller's buffer | `align`, typed reads and writes, `left` |
| FatModel zone | `code/fatmodel/fm_core.cpp`, `fm_defs.h` | the active zone: versions, page directory, last reference per type; per element a knot with its version and its neighbours | `fm_initAndActive fm_begin fm_end fm_extend fm_isFull fm_ref*` |
| FatModel nodes | same | a list of modifiers (version, key, value) per node | `fm_nodeAlloc Set Unset Get Deflate Duplicate` |
| FatModel brushes | same | a list of faces with version and mask of effective faces | `fm_brush*` |
| FatModel arrays | same | `max`, `stride`, and modifiers (version, index, last index) with their entries | `fm_array*` |
| FatModel strings | same | strings in elements of a few size classes | `fm_string*` |
| Probes, integrity checks | same | none | `fm_probe*`, `fm_checkIntegrity` |
| Utilities | `code/fatmodel/fm_utils.*` | none | `fm_alignBytes`, crc, timers |
| Tests | `fm_tests.cpp`, end of `ipc_msg.cpp` | | |

How they meet: a process maps a PagingFile and hands the address to
IPCRingMessenger, which never calls it back; clients of different processes
meet only in the shared memory, by single loads, stores and interlocked
operations. In FatModel everything above the zone goes through references: the
node calls `fm_refAlloc` for a place, `fm_refLink` to make a new revision the
successor of a full one, and `_reviseRef` before every read to turn the
caller's reference into the revision of the wanted version. FatModel has one
writer; a write barrier before each count goes up says that readers of other
threads are meant to be possible ("flush store operations before to alter the
original node"), though nothing in the repository has one. The
two libraries share nothing.

What is hard, and what would make each part correct:

* **Messenger.** Every interleaving of the shared accesses of several
  processes, any of which may die. Correct if each member gets each message
  once, whole and in order; a slot is given back only after all have read it;
  indices are unique; calls return; posted messages arrive.
* **Zone.** Boundaries (alignment, last page, directory limit), the search for
  free knots, lists of revisions that are linked, unlinked and given back.
  Correct if pages are disjoint, nothing in use is given out, links lead to
  live revisions in version order, and a version means exactly one revision.
* **Nodes.** Long sequences of legal calls: a node that fills up spills into a
  new revision in the middle of a transaction, possibly twice, with keys unset
  and set again in between, while old versions are still read. Correct if the
  nodes behave as a map per version, and committed versions never change.
* **Brushes.** Spills as for nodes, with a mask in every modifier that names positions
  of a list that moves. Correct if a brush is a map from ids to faces per version.
* **Arrays.** Elements of any size in pages sized for one of them, an index whose int
  also says whether it is set or unset, a range carried from modifier to modifier,
  full arrays. Correct if an array stays in its element, ranges are exact, and
  an array is a map from indices to entries per version.
* **Strings.** Looked up and placed by two searches over the same pages. Correct if
  what was found is found again.
* **Readers in other threads.** Every interleaving of the writer's stores with the loads of a read
  that takes no lock. Correct if a read of a committed version is what was committed.
* **PagingFile.** Handles, views and the file across calls in any order, calls that fail
  half way, processes that end, a machine that stops. Correct if nothing leaks or is
  used after it was closed, and what was flushed is kept.

## 2. The modules

| Module | What it is |
|---|---|
| `RingMessenger` | the messenger; one action per access to the shared memory |
| `RingProperties` | its properties; `MCRing` has the instances |
| `RingProofs`, `RingMessageProofs` | theorems about it: its tables, lock and registration; its messages |
| `FatZone` | zone, transactions, pages, references, and its properties; `MCZone` |
| `FatZoneProofs` | theorems about it |
| `FatNode` | nodes; extends `FatZone`: the spill composes the node's and the zone's steps; `MCNode` |
| `FatNodeProofs` | theorems about it |
| `FatBrush` | brushes, on `FatZone` in the same way; `MCBrush` |
| `FatBrushProofs` | theorems about it |
| `FatArray`, `FatString` | arrays and strings, each on `FatZone` |
| `FatData` | the two composed in one zone, with elements that are given back; `MCData` |
| `FatDataProofs` | theorems about it |
| `FatReader` | a node store by store, and a reader in another thread; `MCReader` |
| `FatReaderProofs` | theorems about it |
| `VersionedStore` | the abstract store that nodes, brushes and arrays implement |
| `PagingFile` | the shared files, one action per call of the system; `MCPaging` |
| `PagingProofs` | theorems about it |

An operator that carries a bug (`AcquireUntested`, `SetAppendOver`, ...) comes
right before the definition it varies and is used by no specification. It is
there to see the property fail that watches over that line.

### 2.1 RingMessenger

A client is a `Client` structure used by one thread. `pc[c]` names the next
shared access: for example `post` is `readHead`, `cas` (the interlocked
Free-to-Writing of `rb_alloc_slot`), `moveHead` (a plain store), `fill` and
`publish`; `poll` is `look`, `clear` (the interlocked reset of the bit),
`recycle` (the *second* read of the mask), `free`. Private work goes with the
access next to it. Filling a slot is one step, because nobody else reads a slot
that is Writing: its owner alone does.
`rb_dealloc_slot` is recursive in the code: the client carries the chain on a
`stack`, and frees from the back. A null pointer or a cyclic chain that would
recurse until the stack is gone puts the client in `crashed`.

* The asserts are off, as in a release build. Those that matter are properties.
* `Posters` may post, `Leavers` may disconnect. `Crashers` may stop for good at any access, the memory stays as it is.
* Data is the pair of a message and the number of its parts still to come; it
  is all that order, completeness and duplication depend on.
* History variables record what the code does not: messages started, the last
  one delivered to each client (`got`), those given up, and two facts under
  which the promises end:
  `lapped`, the head came round to a slot that is still in use or that a client
  still stands on, and `raced`, two registrations overlapped.
* Bounds: `MaxParts` slots per message, `MaxPosts` messages, `TryCount` for the
  32 tries of the code.

The safety properties hold until the ring laps (`~lapped`): from then on a
free slot and a slot already read cannot be told apart, see section 6. The runs
for them explore nothing behind it (`Unspoiled`); `ring_delivery` does. `Delivered` makes
a second exception: a client that is `Stranded` stands on a slot that it freed itself, see section 6.

### 2.2 FatZone

The six variables are those of `fm_zone`: `headVersion`, `currVersion`, `bsAddr`,
`directory.pages`, `directory.lastRefs` and, per reference, the knot. A reference
is the number of an element, so `PageOf(r)` is a division, as `_ref2page`.
`AllocPlace` is `fm_refAlloc` up to the knot: the first free
knot of the type at or behind `lastRefs[t]`, otherwise a new page. It is apart
from the knot because a spill allocates and links in one call. `RefLink` and
`RefUnlink` carry as guards the assertions their callers have to satisfy.
`RefDealloc` is limited to elements no other leads to, which is how the code
itself uses it. `Revise` is `_reviseRef`: its two loops are recursive functions.

Versions stay below `VersionHead`, which stands for `~0U`; the code would count
to it. A type in `Sized` (arrays) has its size given by the caller, a member of
`Extras`: `PageElementBSize` rounds it up to 8 for a page of its own, `FreeRefs`
accepts a page whose elements are at least as large as asked, whatever array the page was made for.

Sizes are computed as `fm_uint`, modulo `UIntMod` (2^32): the rounded size, which may become 0 and is refused
then, and what all elements of a page take (`AllElementsBSize`). When the product wraps, the page is
accepted though its elements do not fit into it (`Fitting` fails): they lie in the next pages, or behind the zone. What is
overwritten there is not modelled. The step that adds such a page is; nothing happens behind it (`AllFitting`).

### 2.3 FatNode and VersionedStore

A node is a sequence of modifiers. `FoundMod` is `_nodeFindMod` with its visited
bits and its two loops stated as what they find; `Deflated` is `_nodeDeflate`.
`Sorted` is `qsort` by version: a set, because the order of equal versions is
open. `fm_nodeSet` is four actions by outcome: `SetAppend`, `SetSpillKnown`,
`SetSpillNew`, `SetTooMany`; each is the whole call, with the revision of the
reference it is given, the allocation, both sorts and the link.
`fm_nodeUnset` is a set to `Unset`. What an allocation and a deflation have in common in the
spills is in `PlaceNew` and `Kept`. A call that answers false and changed nothing
is no action.

`VersionedStore` is what a caller believes in: nodes that map keys to values, a
transaction that sees its own changes, and a list of committed versions that
only grows. `Contents(r, v)` reads the node through `Revise` and
`_nodeFindMod`, so that the refinement `Versioned` speaks of every reader of
every version. The code breaks this promise in known ways; the history
variable `defect` names the first that happened:

* `overrun`: a spill with a new key (run `fat_append`);
* `flat`: a revision gets a successor of the same version, see section 6;
* `early`: a duplicate "at the head" of a revision of the open transaction.

`Versioned` holds for every step before, and `fat_nodes` explores nothing behind it.

### 2.4 FatBrush

A brush is a sequence of modifiers; the last one of a version carries the mask of
what is in force in it, a set of positions (from 1 here). `FoundMod` is the binary
search of `_modFind` stated as what it finds, `InForce` the mask it leads to,
`FaceIndex` the walk over its bits. `fm_brushSet` is again four actions by outcome:
`SetAppend`, `SetSpillKnown` (replace in the spilled brush, then sort),
`SetSpillNew` (append to it) and `SetTooMany`. `LowBits` is `(1 << cnt) - 1` in an
`int`, undefined for `cnt` = 32. `BrushLoad` = `IntBits` = 32 in the code, both
3 in the run: that the two are equal is what matters.

`Versioned` is the refinement of `VersionedStore` with ids for keys and faces for
values; it admits any change of one face, so `SetIsRead` says which: what was set is
read, the rest as before. `defect` names what ends the promise:

* `flat`, `early`: as for nodes;
* `mask`: a spill that unsets a face. Only the unset modifier's own mask is
  cleared, and the sort then may move the modifiers the masks name; the others' masks, one of which is
  the last, still name the unset face;
* `width`: a duplicate of a brush with as many faces as an `int` has bits.

### 2.5 FatArray, FatString and FatData

An array is its capacity, its stride and a sequence of modifiers, each with the
entry written next to it; that modifiers and entries of an array share a position is
why one sequence is enough. A modifier keeps the index as an `int` (`Signed`), or
`- int(index) - 1` when it unsets (`UnsetCode`): `MaxInt` scales that width, so that an
index may also be beyond it (`Wide`). `Seen` is the list up to where `_modFind` stops;
`ArrayGet` and `ArrayRange` are what the calls make of it.

A full array should be reduced. `fm_arraySet` calls `fm_arrayDuplicate`, which calls
`_arrayDeflate` with `max`, `mods` and `data` of an element that was only zeroed. It therefore copies
nothing, `cnt == max` holds of the new element, and the set answers false:
`ArrayRefuse`, a place taken and given back, possibly with a new page. A
duplicate that a caller asks for (`ArrayDuplicate`) is the same `Blank` array.

`NeededBSize` is what an array needs, `ArrayElementBSize` what `fm_arrayAlloc` asks for: the same as a
`fm_uint`. An array of which the two differ is `Overlong`, its element is too small. The allocation is modelled, what
the array's entries then overwrite is not: nothing happens behind it (`Contained`).

A string is a member of `Texts` with the type `ClassOf` its length and the text it
folds to. `StringFind` is the first allocated element of the type with the same
folding, in the order of the pages, of any version. `FatData` lets both live in one
zone with `fm_refDealloc` and `fm_refSetLastAlloc` open to callers.

`Versioned` is again the refinement of `VersionedStore`, for steps that give back no array: indices are the
keys. `defect` is `wide` from the first index on whose int is no index.

### 2.6 FatReader

One node and its revisions, at the grain of single stores and loads. The writer is
`fm_nodeSet` (`Set`, three `StoreField` in any order, the barrier, `StoreCount`; or
`Spill`, `LinkNext`, `LinkPrev`), `fm_begin` and `fm_end` (`EndHead`, `EndCurr`). The
new revision of a spill is filled in one step: nothing leads to it yet (that this is so is in the
proof of `CountedNeverChanges`). The reader is `fm_nodeGet`:
the version of its revision, each link of `_reviseRef`, the load of `headVersion`
that comes after it, the count, and each modifier. It starts from any reference a
thread can have got, the newest revision included. The spills that end in a defect of `FatNode` are left out.

`past` is history: what the node held when each version was committed.
`backed` and `torn` record the two moments in which the code promises less, see section 6.

### 2.7 PagingFile

`pf[p]` is the structure of process p, which is zeroed at first and is handed to
create or open only when closed. `call[p]` is what is left of the call it is in:
`createPagingFile` is `CreateFile` (with `SetEndOfFile`) and `CreateSection` or `CreateFails`;
flush, unmap and close start with `Begin` and go through `FlushView`, `FlushFile`, `UnmapView`,
`CloseMap`, `CloseFile`. A process may `Exit` at any of them, and `PowerFail` ends all.

What the system does is modelled from how the code uses it: `CreateFile` without sharing
fails while another process has the file open; a section lives as long as a handle or
a view of it; `CreateFileMapping` by name yields the section there is; an empty file cannot be
mapped; a file does not shrink under its section. What is stored in a file is a
number, the same for all its views: it is in `memory`, then `written`, then on the `disk`.

When a create forces a file without a section to a smaller size, `SetEndOfFile` drops what lies behind the new end (`Cut`): all
of it for size 0, otherwise the stores from some one on, since a store is not given a place. It is lost in memory
and on the disk at once, and what a flush has `promised` of it is no promise any more: the caller has
asked for it to be thrown away, whether or not it knew of it.

## 3. The runs

| Run | Instance | Shows |
|---|---|---|
| `ring_members` | two members, one may die; 3 messages of 1-3 slots, ring of 4 | types, the asserts, order, exactly once, recycling, whole messages, for every interleaving |
| `ring_join` | four clients, two share an id, three may leave; ring of 2, 1 message | lock, registration, mask and read positions |
| `ring_delivery` | two members, one of them posts 2 messages of 1 to 4 slots, ring of 3, fairness | every post arrives, up to the first lap and but for stranded readers; every call returns |
| `ring_head_writing` | two members, ring of 2 | *violation*: a slot is freed while it is written |
| `ring_own_cell` | two overlapping connects | *violation*: both get one index |
| `fat_refs` | short strings, and arrays of three sizes: two that are rounded up, one that wraps; 3 pages of 2 elements | pages, live elements, link order, exact revision, room for a transaction |
| `fat_nodes` | one node up to 5 modifiers over all its revisions, or two with 2; with one key one node up to 7, or two with 5; capacity 3, three versions | the node store refines `VersionedStore` |
| `fat_brushes` | one brush up to 5 modifiers over all its revisions, or two with 2; with one face one brush up to 7; capacity 3, three ids, three versions | the brush store refines `VersionedStore`; order, masks, every set is read |
| `fat_append` | capacity 2 | *violation*: the key that was set is lost |
| `fat_data` | one array with up to 3 modifiers, or two with 1, or strings and arrays; int of 2 bits, two texts that fold to one, a stride whose arrays wrap | arrays fit, are checked, have exact ranges and refine `VersionedStore`; a string found stays found |
| `fat_reader` | capacity 2, three revisions, four versions, three sets | a reader without a lock reads what was committed |
| `paging` | two processes, one file, three sizes (none, one and two pages), one store | handles and views match, what was flushed survives unless it is cut off, the mapping has its size |

Why these bounds are enough for the cases to happen. Ring: four slots with messages of up to
three parts let a message wrap, a chain be freed while another grows, a chain be given up
half way because two posters meet at the head, and
three messages bring the head back to the first slots. `ring_join` has two
indices for four clients with three ids, so that one is refused because its id is
known, another because the table is full, and an index is taken, given
back and taken again. Zone: `HiAddr` leaves room for three pages of strings
and one of arrays, so that either limit of `fm_isFull`, pages or bytes, may be the one that refuses, and six references hold lineages of three.
Behind two pages of strings one of arrays of 4204 bytes ends exactly at `HiAddr`; two elements of 32832 bytes are 128 bytes modulo `UIntMod` = 2^16, so
that their page is accepted. Nodes: a capacity of
3 with three keys reaches too many keys, and spills that reduce by one and by
two; two nodes allow duplicates and references
from one to the other. A spill of a spilled node takes six modifiers and one more to be set behind it: with a single key (`OneKeyMods`) these are few enough, and
so are four of a node that is spilled while another one refers to it, whose reference then leads to one revision or
the other. Brushes have the same bounds: with three ids all may be in force, the
case of `SetTooMany`, two faces tell a face that is replaced from one that stays, and a brush of one face (`OneFaceMods`) spills twice. In `ring_delivery`
a message of four slots cannot fit: the poster gives up and leaves all three slots Aborted,
the ring on which `poll` must end its walk; two messages of two or three slots meet each other and
a pending bit. Data: with the stride 32768 the page of an array of one entry wraps, and what two entries take is a multiple of `UIntMod`. The sizes of arrays of one, two and three
modifiers differ by more than the rounding, so that a page may be too small; with `MaxInt` 1 the indices are 0 to 3 and an
int -2 to 1, so that there are indices on both sides of the width. Reader: a capacity of 2 spills twice in three versions, which is
a reader that walks two links up or down, and an unset before a spill is a
key that is gone from the newest revision only. Paging: two processes are one that created and one that opened, or
one that comes when the other has ended; a second file would share nothing with the first. `VersionHead` 4 gives three versions: before, at and after a spill.

`CHECK_DEADLOCK FALSE` stands where the program really may stop: all clients have
left, or the zone is full and the versions at the bound.

**Fairness** (`ring_delivery` only). `WF(Running(c))`: a process that is in a call
goes on; no call waits for another process but for the lock, and no lock is
taken in this instance. `SF(Poll(c))`: the test program polls once per turn of
its loop and `post` is the other branch, so a client that comes back to its
loop infinitely often polls infinitely often. Nothing is assumed of `post`.

## 4. The proofs

All hold for every value of the constants that the named assumptions admit
(`RingAssumption`, `SizesAssumption`, `NodeAssumption`, `BrushAssumption`, `ArrayAssumption`, `StringAssumption`,
`AbsentAssumption`, `ReaderAssumption`, `PagingAssumption`): any number of clients, slots, pages,
types, element sizes, keys, texts, revisions, processes and files.

| Theorem | Says | Argument |
|---|---|---|
| `TypeCorrect` (RingProofs) | the messenger's variables keep their types; no index or pointer leaves its table | `TypeInv`: a client in a call that follows `cur`, `head`, `last` or `callSlot` has one that is no null pointer, by program counter; step by step, variable by variable |
| `LockIsExclusive` | `init`, `connect` and `disconnect` never overlap | `LockInv`: exclusiveness alone is not inductive. `unlock` stores Off whoever calls it, and `init` sets the lock without testing it; so one needs that a client leaves only with the lock in its hands (`LeavingInside`) and that nobody is in a call before `init` has published the magic number (`QuietBeforeInit`) |
| `RegistrationIsUnique`, `AddressedHaveReaders` | as long as no two connects overlap, indices and ids are unique, cells hold their client's id and addressed indices have a reader, though clients leave and die | `RegistryInv`, on top of the two invariants above. A connect that has picked an index holds a cell that is still free outside the lock (`Chosen`), and keeps it because nobody else is picking (`Picking`) and a disconnect, with the lock, clears a cell that is its own (`OwnIndex`); positions go in before the bit and come out after it (`Positions`) |
| `PublishedAsWritten`, `HandedSlotStays`, `LoadedWhole`, `EachInOrderOnce`, `RecycledWhenRead` (RingMessageProofs) | in a closed group, until the ring laps: what is published is what was written, what was handed out stays, a message is loaded whole, each is handed out once and in order, and recycled after all have read it | `MessageInv`, see 4.1 |
| `ZoneTypeCorrect` (FatZoneProofs) | types of the zone; at most `DirectoryLoad` pages; versions count up by one | `ZoneInv` adds `BeyondUnused`: knots of pages that do not exist yet are free |
| `PagesKeptApart` | pages lie one behind the other between header and end, with sizes as computed in 32 bits; a page has room for its elements as long as what they need is a `fm_uint` | `PagesInv`: every page starts behind the last, and `bsAddr` is the end of the last one, for the empty directory too. For a page that is `Fitting` the product is exact (`AllElementsFit`), and no type of a fixed size makes another (`SizesAssumption`) |
| `LiveElementsKept` | an allocation gives out nothing that is in use | the new page's first reference lies behind all existing pages (`FirstOfNewPage`, with `BeyondUnused`) |
| `LineagesOrdered` | the links of an element in use lead to elements in use, older and newer | inductive together with `ZoneInv`: a free element is nobody's link, so it can be given out; unlinking joins two elements whose versions are on both sides of the removed one |
| `RevisionsFound` | `_reviseRef` finds the newest revision that is not newer than the version asked for, from any revision | `ListInv`: an element in use stands in its list, or `fm_refUnlink` took it out: it leads to both neighbours and neither leads back (`TakenOut`). What the two loops compute is shown to exist and be unique by a least counterexample, see 4.3 |
| `NodeTypeCorrect`, `NodesOrdered` (FatNodeProofs) | nodes hold no more modifiers than they have room for, ordered by version | `NodeInv`: order alone is not inductive, since what is appended has the version of the transaction; so no modifier may be of a later one (`Orderly`). The reduced list is finite and smaller than the capacity (`DeflatedFits`, `ReplacedFits`), and any of its sorted orders is `Orderly` again |
| `RevisionsAgree`, `ReferencesLead` | a read gives the same from every revision of a node; a reference that is read leads to the newest revision of what was set that the version may see | `ReadersInv`: lists of revisions are whole (nothing unlinks in `FatNode`), what a modifier names is in use and no newer than it (`Resolving`), what `_reviseRef` finds in a list is the newest that is old enough (`ExactInLists` of FatZoneProofs), and `ReviseStays`, `ReviseGrows`: what an allocation or a link makes of what `_reviseRef` finds |
| `NodesAreVersioned`, `SetsAreSeen` | up to the first defect nodes implement `VersionedStore`; a set that goes on with the revision it gave reads as set, every other key as before | `StoreInv`, see 4.2 |
| `BrushTypeCorrect`, `BrushesChecked` (FatBrushProofs) | no brush outgrows its element; what `_brushCheck` asserts holds | `BrushInv`: as `NodeInv`, and the mask of every modifier, not only of those a version finds, names positions that are there and of different ids (`Masked`): the next set copies a mask, a sort moves what it names (`Unique`, `Resorted`) |
| `MasksNameFaces` | the mask in force in a version names modifiers that set a face and are not newer, until a defect | `ReachInv`: the property in every brush for its own versions on (`Reaching`), revisions in order and in one list. A set takes the mask in force and exchanges one position (`Renewed`); one written anew names all it has, and only sets faces unless `defect` says so |
| `BrushesAreVersioned`, `SetsAreRead` | up to the first defect brushes implement `VersionedStore`; after a set `fm_brushGet` gives the face that was set and of every other id the one before | `StoreInv`, see 4.2 |
| `DataTypeCorrect`, `ArraysKeepToElements`, `ArraysPassTheirCheck` (FatDataProofs) | types; arrays within their elements, as long as what they need is a `fm_uint`; versions and last indices as `_arrayCheck` wants them | `DataInv`. What the search finds and what a new page has is at least as large as what was asked (`AllocIsLargeEnough` of FatZoneProofs), and pages keep their element size while elements are given back and out again |
| `RangesAreExact` | the range in a version is one past the greatest index set by then | `RangeInv`: each `last` is the index of some modifier up to it and no less than that of any other (`Exact`), and no array has a second revision (`Unlinked`) |
| `FoundIsKept` | a text that `fm_stringFind` found at or before the last reference given out is found there again, until it is given back | `FoundStays` is a step property: what is given out lies at or behind `lastRefs`, or in a new page behind all (`OneGivenOut`) |
| `ArraysAreVersioned` | arrays implement `VersionedStore`, as long as none is given back and indices are ints | `StoreInv`, which adds to those above that no knot is newer than the last version (`Dated`). The plan is that of 4.2. A modifier more says nothing of earlier versions (`ValueKept`), and what it brings into range was never set (`NoneBeyond`) |
| `CountedNeverChanges` (FatReaderProofs) | what counts in a reachable revision never changes | `ReaderInv`: the writer fills the modifier right behind those that count, a revision leads to the next number or nowhere (`Chain`), and so what comes after a head cannot be reached (`NewUnseen`) |
| `CommittedIsRead`, `HeadIsRead` | a read without a lock gives what was committed at the version asked for, or at one that was the head during the read, where `backed` and `torn` admit it (2.6) | `ReadInv`: what the writer has made (`Versions`, `Rising`, `Linked`, `Modified`) still holds every committed version (`Kept`), and a reader on its way has left no revision out that it has to see (`Asking`, `Walking`, `Looking`). Each store of the writer is shown to leave the reader's part as it was (`Beside`) |
| `FlushedIsKept` (PagingProofs) | what a flush has returned for is on the disk, until a create cuts the file | stores pass from memory to the disk in order (`InOrder`), and what a flush is to save has got as far as its step says (`OnItsWay`). A file that is cut has no section, so nobody has a handle of it (`Held`) and nobody is in the middle of a flush of it |
| `NothingLeftOpen` (PagingProofs) | handles and views are those of the structure | `Struct`, which also says what is open in the middle of `createPagingFile` |
| `MappedAsCreated` | who created a file with the size it gave maps as much as it asked for | `RoomInv`: nobody else has a handle of the file meanwhile (`Alone`), so the file keeps the size that `createPagingFile` gave it (`Sized`) |

Each inductive invariant was checked by TLC before it was proved, on the constants of the run
that has the property: `MessageInv` on those of `ring_members` (749146 states), `ReadInv` on `fat_reader`'s,
`BrushInv` and `ReachInv` on `fat_brushes`', `RangeInv` on `fat_data`'s, `RoomInv` on `paging`'s.

### 4.1 The messages

The theorems of `RingMessageProofs` have a hypothesis, `ClosedGroup == Members = Clients /\ Leavers = {}`:
the members are connected from the start and nobody disconnects, while any of them posts and any dies at any
access. That is the group of `ring_members`, in any size. Two steps of the code leave no more to be proved, both found
with TLC on a small ring:

* A **joiner** stores its read position and then sets its bit in the mask. A message posted between
  the two lacks its bit, but the joiner walks to it, and is handed slots that the last addressed
  reader recycles: `PolledStaysPosted` fails.
* A **leaver** resets its bit and then polls until it meets nothing. What was posted behind its back
  lacks its bit, and is recycled while it stands there; `InOrderOnce` fails for members that come back.

`MessageInv` places every slot by its distance from a reader (`Ahead`), not by its number, so that the end
of the ring is no case of its own. `Region`: what a client waits for lies before the head, and what it has
read lies behind. `InTurn`: messages lie in the order of their numbers. `Complete`: none is missing.
`PartsAhead`, `PartsAfter` and `PartsKept`: the parts of a message lie behind its first slot, each once, and
stay while somebody needs them; `Links`, `Linked`: `dataCnt` leads from each to the one behind it. What a client
knows within a call is in `Local`, by program counter; `Trying` is the step that is easy to get
wrong, a poster whose copy of the head is old. That the client which recycles really is the last reader
(`LastReader`) follows from its second look at the mask: bits are only ever reset by their owners. A step that would break
one of these without setting `lapped` does not exist; the one that sets it is the move of the head.

### 4.2 The refinements

What a caller believes of nodes, brushes and arrays is `VersionedStore`; the three proofs have one plan.
`StoreInv` is the conjunction of the invariants above. The abstract store is written as a list of snapshots (`Snap`) of versions that
are *named*: `Latest` means another version a step later, a number does not. `StoreStutters` and
`OneChanges` then say what a step has to satisfy: nothing reads otherwise in any version there is, or one element does, in
the open version only. `BeginNow` and `EndNow` show that a version nothing is newer than reads as the one before
(`HeldLater`), so that opening or closing a transaction changes nothing that is seen.

What makes a set one write is, for nodes and brushes:

* **What a list tells.** `_nodeFindMod` stops early and skips keys it has seen; what it finds is the last modifier of the key that is
  not too new (`Told`, `StoredIsTold`). Of a brush it is the face in force with the id, of which there is one (`StoredIs`).
* **What a spill keeps.** A reduced list tells in the open version what the full one told (`DeflatedTells`, `DeflatedStores`),
  a replaced modifier changes what is told of its key alone, in whatever order `qsort` puts equal versions (`SpillTells`,
  `ReplacedStores`). For brushes the masks have to survive the sort: all are equal after `_brushDeflate`, unless a face is unset,
  and then only the last one counts and nothing may have moved, which is what `defect` = `mask` excludes.
* **Whose revision it is.** An element has one first revision (`FirstExists`, `FirstIsOne`), from which everything is read
  that is read from any other; so a set of any revision changes one entry of the store (`WrittenNow`). A new revision is found by
  those who found the full one, from its version on, and by nobody else (`ReviseGrows`).
* **What a duplicate is of.** The revision that is copied is found again in the version it is read in (`FoundAgain`,
  `HeadFindsItself`); that fails exactly for `early`, a head of the open transaction read as of the last version.

`AbsentAssumption` says that the value of a node that does not exist is no contents of one; it is about `VersionedStore`, not about the code.

### 4.3 What the provers leave out, and what stays with TLC

The library's induction theorems have an operator as parameter and cannot be used. Where a
recursive function is to be reasoned about (the loops of `_reviseRef`, a walk along revisions), the proofs argue with
the least or greatest element at which a claim fails: `NatMin`, from the well-foundedness of the
naturals, needs a set only. So `RevisionsFound` and `CommittedIsRead` hold for lists of any length.

Model-checked only:

* `Delivered` and `CallsReturn`: liveness is beyond the prover.
* `BeginHasRoom`, which is not true for all sizes: it is true where the types are as large as in the code, because
  `MinimalSize` counts the sizes of *all* types and so covers the padding of one; with a single small
  type it is false.
* The messenger's properties for members that join or leave (4.1), in `ring_join` as far as they hold.

## 5. What is done and what would come next

Done, in the order of the plan: messenger; zone; the abstract store with nodes and brushes;
the reader in another thread; arrays and strings; the shared files; the proofs above.

What remains worth doing:

1. Messages for groups that members join, restricted to what was posted after they did.
2. A reader of an array or a brush beside the writer: the same order of stores (entry, modifier, barrier,
   count), not the same lookup.
3. A process that dies in the middle of a transaction, once `fm_openAndActive` has a body: today the zone
   dies with the process.

## 6. What the code does against its comments, and what it leaves open

Each violation run has a finding in `PROJECT.json`. Beside them, read off the code while modelling
(the operators in parentheses state the comment in `RingProperties`; none of the runs
checks them, since each fails as soon as the case it is listed under happens):

* **The last reader of a long message.** The reader that recycles a message of several slots steps from the
  first slot to the second, which it has just freed; the next message starts behind that slot, so `poll` answers
  "nothing to read ..." (comment there) until the head comes round (`NothingToRead`). `Delivered` holds for readers to
  whom this has not happened (`Stranded`).
* **Two revisions of one version** (`flat`). A node allocated or spilled in the open transaction and filled in it is spilled
  again: the link fails the assertion `from->version < to->version` of `fm_refLink` in a debug build; in a release build a
  reader of that version who starts at the older one stays there.

* **The ring when full.** A client that has read its slot and finds no free slot
  ahead meets its own slot again, Posted or not yet recycled, and would clear a bit it has
  cleared: the assert on the bit in `poll` (`AssertBitWasSet`) fails and
  the message is delivered again. All ring properties are therefore guarded by `lapped`.
* **disconnect** resets the bit so that no post is sent to a client that leaves
  (comment there). A post in flight has copied the mask already (`NoPostForLeaver`);
  such a slot is never recycled.
* **Aborted slots** become free for nobody: each aborted post costs capacity for good.
* **The lock** is a spin lock without an owner: a process that dies with it blocks
  connect and disconnect for ever. `init` on a region in use resets it under
  the feet of its clients; the old magic number stays visible until then.
* **Indices shared by a race**: when one of the two leaves, the other follows a null pointer.
* **Reading at `FM_VERSION_HEAD` in a transaction**: `fm_nodeGet` revises to the newest
  revision, the open transaction's too, and reads it as of `headVersion`. A key
  overwritten by a spill is gone from such reads until `fm_end`: the comment "it's
  safe here to replace the kvp in the duplicated and not used node" holds for
  readers who name a version only.
* **Page at the end**: `fm_extend` accepts a page that ends at `hiAddr`, on which the
  assertion `bsAddr < hiAddr` of `_checkZone` fails. `fat_refs` gets there, and `PagesApart` admits it.
* **`fm_isFull`** reserves one page of every type but no padding: one page of *each*
  type may not fit. One of any type does (`BeginHasRoom`).
* **Search hint**: elements given back behind the last allocation are not found until
  `fm_refSetLastAlloc` or a new zone; pages added by `fm_extend` before the first
  allocation of a type are never searched.
* **`fm_refUnlink`** of a first or last revision: `_getKnot` asserts on the bad reference
  before the code tests the pointer.
* **Unset on a full brush** (`mask` above): when the unset modifier is sorted to the end,
  its mask names itself and leaves out another face; when it is not the last, the last mask still
  names it. `fm_tests.cpp:878` expects one face less and the others as they were.
* **Ids of faces**: `inid > FM_BRUSH_LOAD` lets one id too many through, on which the
  assertion `id < FM_BRUSH_LOAD` of `_brushCheck` fails. The ids of the model are a bound.
* **Full arrays** can never be set or unset again: a set duplicates the array into
  an element whose `max` was never set (section 2.5), and if it were, the copy would not be linked. Each attempt
  leaves `lastRefs` on the element that was given back. `_arrayDeflate` besides sets `last` to 0 before the loop that
  copies, so that `fm_arrayDeflate` gives a caller nothing, of any array.
* **Indices from 2^31 on** (`wide`): the `int` a set stores is what unsetting another index stores;
  `fm_arraySet` refuses no index, `_arrayCheck` asserts that it is at most `last` as an `int`, and setting the greatest one makes the range 0.
* **Sizes of arrays** are computed in 32 bits (`fm_arrayAlloc`, `fm_extend`) and wrap for huge capacities or strides: an
  array may be given an element that is too small for it, and a page be accepted that is too small for its elements. `PagesApart` and
  `ArraysFit` hold otherwise; behind the one and the other nothing is modelled (sections 2.2, 2.5).
* **Calls on references of another type**: `return_value_if_not_array` tests `> FM_RT_ARRAY`, which
  strings pass; `_arrayDeref` only asserts. The model calls array operations on arrays.
* **Reader and link**: between the two stores of `fm_refLink` a reader who starts at the new revision
  finds no older one, and is told that there is no such key; the newest revision is what `fm_refRevise` gives out from the first store on.
* **PagingFile**: `mapAddr` is set by `map` only, so that unmap and close of a structure that was not zeroed
  read what was there before; a second map loses the first view; who opened (and did not create) a mapping has no file handle, so that its flush
  gives pages to the system but does not wait for the disk; a create with `inForceResizing` and a smaller size
  drops what was flushed before; `fileBSize` is what was asked for, which is not the file's size when
  it existed and no resizing was forced; `CreateFileMapping` with a name that is in use maps the older section.

## 7. Not modelled

* **MemCursor**: address arithmetic in a caller's buffer that nothing in the repository uses (`align` may move past the end,
  after which `left` wraps).
* **Probes and integrity checks**: they only read, and what they test is stated as properties.
* **Timers, formatting, `crc32`**, and the functions of `ppw_fat_model.h` that have no body yet.
* **Shutting a zone** and starting another: one zone is active from `fm_initAndActive` on. `fm_refIsAncestorOf`
  and `fm_refIsDescendantOf`, which only read.
* **Weak memory order**: accesses take effect in the order of the source, but for the fields of one modifier, which
  `FatReader` lets be stored in any order. A key or a value, several words in the code, is stored as one. In the messenger only `headSlot` and the slots'
  masks are volatile, so a compiler might do worse. A reader of FatModel sees two words of one link or count whole.
* **Errors of the system** other than those named in section 2.7, security privileges, and files of the same name in different sessions.
* **Two writers** of FatModel: nothing in the code allows for them.
