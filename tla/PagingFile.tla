----------------------------- MODULE PagingFile -----------------------------
(***************************************************************************)
(* The files that processes share as memory: createPagingFile and the      *)
(* others of ipc_shm.cpp, one action per call of the system, with what     *)
(* these calls do as far as the code uses it.  A mapping, here a section,  *)
(* lives as long as a process has a handle or a view of it.                *)
(*                                                                         *)
(* Each process has one PagingFile structure, zeroed at first, and creates *)
(* or opens only when it is closed.  What is stored in a file is numbered: *)
(* it is in memory, then given to the disk, then kept by the disk, and it  *)
(* is lost when the file is cut short.  A call that answers false and      *)
(* leaves nothing changed is no action.                                    *)
(***************************************************************************)
EXTENDS Integers, FiniteSets

CONSTANTS
    Processes,
    Files,      \* BOUND: each has a name for its mapping, and no two the same
    Sizes,      \* BOUND: the sizes files are created with, in pages
    Addresses,  \* BOUND: where views can be
    MaxStores,  \* BOUND: what is stored in a file
    NULL

ASSUME PagingAssumption ==
    /\ Sizes \subseteq Nat /\ MaxStores \in Nat
    /\ NULL \notin Files /\ NULL \notin Addresses

VARIABLES
    pf,        \* the PagingFile of each process
    call,      \* what is left of the call it is in
    opened,    \* the files a process has a handle of
    handles,   \* the files of whose sections it has a handle
    views,     \* its views: where, and of which file
    fileSize,
    section,   \* the size of the section of a file, 0 if there is none
    memory, written, disk,    \* up to which store a file is where
    promised,  \* history: the stores of a file a flush has returned for
    exact,     \* history: was the file of a process to have the size it gave?
    mapTwice   \* history: the processes that mapped when they had a view

pfVars == <<pf, call, exact, mapTwice>>
systemVars == <<opened, handles, views, fileSize, section>>
contents == <<memory, written, disk, promised>>
vars == <<pfVars, systemVars, contents>>

Closed == [fileH |-> NULL, fileBSize |-> 0, mapH |-> NULL, mapAddr |-> NULL,
           mapBSize |-> 0, isReadOnly |-> FALSE]

NoCall == [at |-> "idle"]

Init ==
    /\ pf = [p \in Processes |-> Closed]
    /\ call = [p \in Processes |-> NoCall]
    /\ opened = [p \in Processes |-> {}]
    /\ handles = [p \in Processes |-> {}]
    /\ views = [p \in Processes |-> {}]
    /\ fileSize = [f \in Files |-> 0]
    /\ section = [f \in Files |-> 0]
    /\ memory = [f \in Files |-> 0] /\ written = memory /\ disk = memory
    /\ promised = memory
    /\ exact = [p \in Processes |-> FALSE]
    /\ mapTwice = {}

Idle(p) == call[p] = NoCall

(* Closed as far as the structure says: fileBSize and the like stay. *)
IsClosed(p) == pf[p].mapH = NULL /\ pf[p].fileH = NULL

(* The sections that are left when processes have the handles hs and the
   views vs. *)
LeftOver(hs, vs) ==
    [f \in Files |->
        IF \E p \in Processes : f \in hs[p] \/ \E v \in vs[p] : v.file = f
        THEN section[f] ELSE 0]

-----------------------------------------------------------------------------
(* createPagingFile *)

(* Mutant: only an empty file is given its size. *)
ResizesEmpty(f, size, force) == fileSize[f] = 0

Resizes(f, size, force) == fileSize[f] # size /\ (fileSize[f] = 0 \/ force)

(* What lies behind the new end of a file is lost at once, in memory and on
   the disk: its stores from one on, and all of them if nothing is left.  A
   flush has promised no more than what is left. *)
Cut(f, size) ==
    \E left \in IF size = 0 THEN {0} ELSE 0 .. memory[f] :
        LET Shorter(c) == [c EXCEPT ![f] = IF @ < left THEN @ ELSE left]
        IN  /\ memory' = Shorter(memory) /\ written' = Shorter(written)
            /\ disk' = Shorter(disk) /\ promised' = Shorter(promised)

(* CreateFile, which nobody else may have done before, and SetEndOfFile,
   which the system refuses below the end of a section.  Nobody has stored
   behind the end of a section. *)
CreateFile(p, f, size, force) ==
    /\ Idle(p) /\ IsClosed(p)
    /\ \A q \in Processes : f \notin opened[q]
    /\ Resizes(f, size, force) => size >= section[f]
    /\ fileSize' = [fileSize EXCEPT ![f] = IF Resizes(f, size, force) THEN size ELSE @]
    /\ opened' = [opened EXCEPT ![p] = @ \cup {f}]
    /\ call' = [call EXCEPT ![p] =
                   [at |-> "section", file |-> f, size |-> size,
                    exact |-> force \/ fileSize[f] \in {0, size}]]
    /\ IF Resizes(f, size, force) /\ size < fileSize[f] /\ section[f] = 0
       THEN Cut(f, size)
       ELSE UNCHANGED contents
    /\ UNCHANGED <<pf, exact, mapTwice, handles, views, section>>

(* CreateFileMapping: the section of that name, if there is one, whatever its
   size. *)
CreateSection(p) ==
    /\ call[p].at = "section"
    /\ \E f \in {call[p].file} :
         /\ fileSize[f] # 0
         /\ section' = [section EXCEPT ![f] = IF @ = 0 THEN fileSize[f] ELSE @]
         /\ handles' = [handles EXCEPT ![p] = @ \cup {f}]
         /\ pf' = [pf EXCEPT ![p] = [@ EXCEPT !.fileH = f, !.fileBSize = call[p].size,
                                              !.mapH = f, !.isReadOnly = FALSE]]
         /\ exact' = [exact EXCEPT ![p] = call[p].exact /\ section[f] = 0]
    /\ call' = [call EXCEPT ![p] = NoCall]
    /\ UNCHANGED <<mapTwice, opened, views, fileSize, contents>>

(* Mutant: the file stays open when it cannot be mapped. *)
CreateFailsOpen(p) ==
    /\ call[p].at = "section" /\ fileSize[call[p].file] = 0
    /\ call' = [call EXCEPT ![p] = NoCall]
    /\ UNCHANGED <<pf, exact, mapTwice, systemVars, contents>>

(* An empty file cannot be mapped. *)
CreateFails(p) ==
    /\ call[p].at = "section" /\ fileSize[call[p].file] = 0
    /\ opened' = [opened EXCEPT ![p] = @ \ {call[p].file}]
    /\ call' = [call EXCEPT ![p] = NoCall]
    /\ UNCHANGED <<pf, exact, mapTwice, handles, views, fileSize, section, contents>>

(* openPagingFile *)
Open(p, f, readOnly) ==
    /\ Idle(p) /\ IsClosed(p)
    /\ section[f] # 0
    /\ handles' = [handles EXCEPT ![p] = @ \cup {f}]
    /\ pf' = [pf EXCEPT ![p] = [@ EXCEPT !.fileH = NULL, !.fileBSize = 0,
                                         !.mapH = f, !.isReadOnly = readOnly]]
    /\ exact' = [exact EXCEPT ![p] = FALSE]
    /\ UNCHANGED <<call, mapTwice, opened, views, fileSize, section, contents>>

(* mapPagingFile: mapAddr is overwritten, and a view it named is lost. *)
Map(p) ==
    /\ Idle(p) /\ pf[p].mapH # NULL
    /\ \E a \in Addresses :
         /\ \A v \in views[p] : v.addr # a
         /\ views' = [views EXCEPT ![p] = @ \cup {[addr |-> a, file |-> pf[p].mapH]}]
         /\ pf' = [pf EXCEPT ![p] = [@ EXCEPT !.mapAddr = a, !.mapBSize = section[pf[p].mapH]]]
    /\ mapTwice' = IF pf[p].mapAddr = NULL THEN mapTwice ELSE mapTwice \cup {p}
    /\ UNCHANGED <<call, exact, opened, handles, fileSize, section, contents>>

-----------------------------------------------------------------------------
(* flushPagingFile, which unmapPagingFile and closePagingFile begin with *)

(* What is stored as of the start of the call. *)
Begin(p, next) ==
    /\ Idle(p) /\ pf[p].mapH # NULL
    /\ call' = [call EXCEPT ![p] =
                   [at |-> IF pf[p].isReadOnly THEN next ELSE "flushView",
                    next |-> next, since |-> memory[pf[p].mapH]]]
    /\ UNCHANGED <<pf, exact, mapTwice, systemVars, contents>>

Flush(p) == ~pf[p].isReadOnly /\ Begin(p, "idle")

Unmap(p) == Begin(p, "unmap")

Close(p) == Begin(p, "closeView")

Proceed(p, next) ==
    call' = [call EXCEPT ![p] = IF next = "idle" THEN NoCall ELSE [@ EXCEPT !.at = next]]

(* Mutant: the view is not given to the disk. *)
FlushViewNot(p) ==
    /\ call[p].at = "flushView"
    /\ Proceed(p, "flushFile")
    /\ UNCHANGED <<pf, exact, mapTwice, systemVars, contents>>

(* FlushViewOfFile *)
FlushView(p) ==
    /\ call[p].at = "flushView"
    /\ written' = IF pf[p].mapAddr = NULL THEN written
                  ELSE [written EXCEPT ![pf[p].mapH] = memory[pf[p].mapH]]
    /\ Proceed(p, "flushFile")
    /\ UNCHANGED <<pf, exact, mapTwice, systemVars, memory, disk, promised>>

(* FlushFileBuffers, of a file that was created, not opened. *)
FlushFile(p) ==
    /\ call[p].at = "flushFile"
    /\ \E f \in {pf[p].mapH} :
         /\ disk' = IF pf[p].fileH = NULL THEN disk ELSE [disk EXCEPT ![f] = written[f]]
         /\ promised' = IF pf[p].fileH = NULL \/ pf[p].mapAddr = NULL \/
                           promised[f] >= call[p].since
                        THEN promised ELSE [promised EXCEPT ![f] = call[p].since]
    /\ Proceed(p, call[p].next)
    /\ UNCHANGED <<pf, exact, mapTwice, systemVars, memory, written>>

UnmapView(p) ==
    /\ call[p].at \in {"unmap", "closeView"}
    /\ views' = [views EXCEPT ![p] = {v \in @ : v.addr # pf[p].mapAddr}]
    /\ section' = LeftOver(handles, views')
    /\ pf' = [pf EXCEPT ![p] = [@ EXCEPT !.mapAddr = NULL]]
    /\ Proceed(p, IF call[p].at = "unmap" THEN "idle" ELSE "closeMap")
    /\ UNCHANGED <<exact, mapTwice, opened, handles, fileSize, contents>>

CloseMap(p) ==
    /\ call[p].at = "closeMap"
    /\ handles' = [handles EXCEPT ![p] = @ \ {pf[p].mapH}]
    /\ section' = LeftOver(handles', views)
    /\ pf' = [pf EXCEPT ![p] = [@ EXCEPT !.mapH = NULL]]
    /\ Proceed(p, "closeFile")
    /\ UNCHANGED <<exact, mapTwice, opened, views, fileSize, contents>>

CloseFile(p) ==
    /\ call[p].at = "closeFile"
    /\ opened' = [opened EXCEPT ![p] = @ \ {pf[p].fileH}]
    /\ pf' = [pf EXCEPT ![p] = [@ EXCEPT !.fileH = NULL]]
    /\ Proceed(p, "idle")
    /\ UNCHANGED <<exact, mapTwice, handles, views, fileSize, section, contents>>

-----------------------------------------------------------------------------
(* The processes' own stores, and the system *)

(* A process stores into any view it has. *)
Store(p, f) ==
    /\ ~pf[p].isReadOnly /\ \E v \in views[p] : v.file = f
    /\ memory[f] < MaxStores
    /\ memory' = [memory EXCEPT ![f] = @ + 1]
    /\ UNCHANGED <<pfVars, systemVars, written, disk, promised>>

WriteBack(f) ==
    /\ \/ written' = [written EXCEPT ![f] = memory[f]] /\ UNCHANGED disk
       \/ disk' = [disk EXCEPT ![f] = written[f]] /\ UNCHANGED written
    /\ UNCHANGED <<pfVars, systemVars, memory, promised>>

Ended(ps) ==
    /\ pf' = [p \in Processes |-> IF p \in ps THEN Closed ELSE pf[p]]
    /\ call' = [p \in Processes |-> IF p \in ps THEN NoCall ELSE call[p]]
    /\ opened' = [p \in Processes |-> IF p \in ps THEN {} ELSE opened[p]]
    /\ handles' = [p \in Processes |-> IF p \in ps THEN {} ELSE handles[p]]
    /\ views' = [p \in Processes |-> IF p \in ps THEN {} ELSE views[p]]
    /\ section' = LeftOver(handles', views')
    /\ exact' = [p \in Processes |-> IF p \in ps THEN FALSE ELSE exact[p]]
    /\ mapTwice' = mapTwice \ ps
    /\ UNCHANGED fileSize

(* A process ends, in a call or not, and is started again. *)
Exit(p) == Ended({p}) /\ UNCHANGED contents

(* The machine stops: what the disk has not kept is lost. *)
PowerFail ==
    /\ Ended(Processes)
    /\ memory' = disk /\ written' = disk
    /\ UNCHANGED <<disk, promised>>

Next ==
    \/ \E p \in Processes :
         \/ \E f \in Files :
              \/ \E size \in Sizes, force \in BOOLEAN : CreateFile(p, f, size, force)
              \/ \E readOnly \in BOOLEAN : Open(p, f, readOnly)
              \/ Store(p, f)
         \/ CreateSection(p) \/ CreateFails(p) \/ Map(p)
         \/ Flush(p) \/ Unmap(p) \/ Close(p)
         \/ FlushView(p) \/ FlushFile(p) \/ UnmapView(p) \/ CloseMap(p) \/ CloseFile(p)
         \/ Exit(p)
    \/ \E f \in Files : WriteBack(f)
    \/ PowerFail

Spec == Init /\ [][Next]_vars

-----------------------------------------------------------------------------
(* Properties *)

(* Between its calls a process has the handles and the view that its
   structure names, and no other: nothing is left open by a call that fails
   or by a close, and nothing is used that was closed.  Who maps twice has
   lost a view. *)
HandlesMatch ==
    \A p \in Processes : Idle(p) /\ p \notin mapTwice =>
        /\ opened[p] = {pf[p].fileH} \ {NULL}
        /\ handles[p] = {pf[p].mapH} \ {NULL}
        /\ {v.addr : v \in views[p]} = {pf[p].mapAddr} \ {NULL}

(* Whatever was stored when a process that created the file began to flush,
   unmap or close it is on the disk when the call returns, whoever stored it,
   and stays there whoever ends and when the machine stops, until a process
   forces the file to a smaller size: then what is left of it stays. *)
FlushedSurvives == \A f \in Files : promised[f] <= disk[f]

(* A process that was to have a file of the size it gave, and found no
   mapping of another process, maps as much as it asked for. *)
RoomAsCreated ==
    \A p \in Processes : exact[p] /\ pf[p].mapAddr # NULL =>
        pf[p].mapBSize = pf[p].fileBSize
=============================================================================
