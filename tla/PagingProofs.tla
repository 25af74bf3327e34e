---------------------------- MODULE PagingProofs ----------------------------
(***************************************************************************)
(* The shared files for any number of processes, files, sizes and stores:  *)
(* what is flushed is not lost, a structure and the system agree on what   *)
(* is open, and who creates a file maps as much of it as it asked for.     *)
(***************************************************************************)
EXTENDS PagingFile, TLAPS

Steps == {"flushView", "flushFile", "unmap", "closeView", "closeMap", "closeFile"}

Calls ==
    {NoCall}
    \cup [at : {"section"}, file : Files, size : Sizes, exact : BOOLEAN]
    \cup [at : Steps, next : {"idle", "unmap", "closeView"}, since : Nat]

PFs == [fileH : Files \cup {NULL}, fileBSize : Nat, mapH : Files \cup {NULL},
        mapAddr : Addresses \cup {NULL}, mapBSize : Nat, isReadOnly : BOOLEAN]

SystemTyped ==
    /\ pf \in [Processes -> PFs]
    /\ call \in [Processes -> Calls]
    /\ opened \in [Processes -> SUBSET Files]
    /\ handles \in [Processes -> SUBSET Files]
    /\ views \in [Processes -> SUBSET [addr : Addresses, file : Files]]
    /\ fileSize \in [Files -> Nat] /\ section \in [Files -> Nat]
    /\ exact \in [Processes -> BOOLEAN]

ContentsTyped ==
    /\ memory \in [Files -> Nat] /\ written \in [Files -> Nat]
    /\ disk \in [Files -> Nat] /\ promised \in [Files -> Nat]

(* A file is in use from the start of a call to its end. *)
InUse(p) == call[p].at \in Steps \ {"closeFile"} => pf[p].mapH \in Files

Typed == SystemTyped /\ ContentsTyped /\ \A p \in Processes : InUse(p)

-----------------------------------------------------------------------------
(* Types *)

LEMMA InitTyped == Init => Typed
BY PagingAssumption
   DEF Init, Typed, SystemTyped, ContentsTyped, InUse, PFs, Calls, Closed, NoCall, Steps,
       PagingAssumption

LEMMA ProceedTyped ==
    ASSUME SystemTyped, NEW p \in Processes, call[p].at \in Steps,
           NEW next \in Steps \cup {"idle"}, Proceed(p, next)
    PROVE  /\ call' \in [Processes -> Calls]
           /\ \A q \in Processes : q # p => call'[q] = call[q]
           /\ call'[p] = IF next = "idle" THEN NoCall ELSE [call[p] EXCEPT !.at = next]
           /\ call'[p].at = next
           /\ next # "idle" => call'[p].since = call[p].since /\ call'[p].next = call[p].next
<1>1. call[p] \in [at : Steps, next : {"idle", "unmap", "closeView"}, since : Nat]
  BY DEF SystemTyped, Calls, Steps, NoCall
<1>2. CASE next = "idle"
  BY <1>2 DEF Proceed, SystemTyped, Calls, NoCall
<1>3. CASE next # "idle"
  <2> DEFINE c == [call[p] EXCEPT !.at = next]
  <2>1. /\ c \in [at : Steps, next : {"idle", "unmap", "closeView"}, since : Nat]
        /\ c.at = next /\ c.since = call[p].since /\ c.next = call[p].next
    BY <1>1, <1>3
  <2>2. call' = [call EXCEPT ![p] = c]
    BY <1>3 DEF Proceed
  <2> HIDE DEF c
  <2>3. call' \in [Processes -> Calls] /\ call'[p] = c
        /\ \A q \in Processes : q # p => call'[q] = call[q]
    BY <2>1, <2>2 DEF SystemTyped, Calls
  <2> QED
    BY <1>3, <2>1, <2>3 DEF c
<1> QED
  BY <1>2, <1>3
LEMMA LeftOverTyped ==
    ASSUME SystemTyped, NEW hs, NEW vs
    PROVE  LeftOver(hs, vs) \in [Files -> Nat]
BY DEF LeftOver, SystemTyped

LEMMA EndedTyped ==
    ASSUME Typed, NEW ps, Ended(ps)
    PROVE  SystemTyped' /\ \A p \in Processes : InUse(p)'
<1>1. Closed \in PFs /\ NoCall \in Calls /\ NoCall.at \notin Steps
  BY DEF Closed, PFs, NoCall, Calls, Steps
<1>2. pf' \in [Processes -> PFs] /\ call' \in [Processes -> Calls]
  BY <1>1 DEF Typed, SystemTyped, Ended
<1>3. /\ opened' \in [Processes -> SUBSET Files]
      /\ handles' \in [Processes -> SUBSET Files]
      /\ views' \in [Processes -> SUBSET [addr : Addresses, file : Files]]
  BY DEF Typed, SystemTyped, Ended
<1>4. section' \in [Files -> Nat] /\ fileSize' \in [Files -> Nat]
  BY LeftOverTyped DEF Typed, SystemTyped, Ended
<1>5. exact' \in [Processes -> BOOLEAN]
  BY DEF Typed, SystemTyped, Ended
<1>6. ASSUME NEW p \in Processes PROVE InUse(p)'
  BY <1>1 DEF Typed, InUse, Ended
<1> QED
  BY <1>2, <1>3, <1>4, <1>5, <1>6 DEF SystemTyped

(* A process that is in no call, or about to map what it created. *)
LEMMA NotInUse ==
    ASSUME NEW p \in Processes, call'[p].at \notin Steps
    PROVE  InUse(p)'
BY DEF InUse

(* What a call changes of a structure leaves it a structure. *)
LEMMA StructureTyped ==
    ASSUME NEW r \in PFs, NEW f \in Files \cup {NULL}, NEW a \in Addresses \cup {NULL},
           NEW n \in Nat, NEW b \in BOOLEAN, NEW g \in Files \cup {NULL}
    PROVE  /\ [r EXCEPT !.fileH = g, !.fileBSize = n, !.mapH = f, !.isReadOnly = b] \in PFs
           /\ [r EXCEPT !.mapAddr = a, !.mapBSize = n] \in PFs
           /\ [r EXCEPT !.mapAddr = a] \in PFs
           /\ [r EXCEPT !.mapH = f] \in PFs
           /\ [r EXCEPT !.fileH = f] \in PFs
BY DEF PFs

LEMMA CutTyped ==
    ASSUME ContentsTyped, NEW f \in Files, NEW size, Cut(f, size)
    PROVE  ContentsTyped'
<1>1. (IF size = 0 THEN {0} ELSE 0 .. memory[f]) \subseteq Nat
  BY DEF ContentsTyped
<1> QED
  BY <1>1 DEF Cut, ContentsTyped

LEMMA TypedStep == Typed /\ [Next]_vars => Typed'
<1> SUFFICES ASSUME Typed, [Next]_vars PROVE Typed'
  OBVIOUS
<1>1. /\ SystemTyped /\ ContentsTyped
      /\ Sizes \subseteq Nat /\ NoCall \in Calls /\ NoCall.at = "idle" /\ "idle" \notin Steps
  BY PagingAssumption DEF Typed, PagingAssumption, NoCall, Calls, Steps
(* Of the others nothing changes. *)
<1>2. ASSUME NEW p \in Processes, NEW q \in Processes, q # p,
             call'[q] = call[q], pf'[q] = pf[q]
      PROVE  InUse(q)'
  BY <1>2 DEF Typed, InUse
<1>3. CASE UNCHANGED vars
  BY <1>3 DEF vars, pfVars, systemVars, contents, Typed, SystemTyped, ContentsTyped, InUse
<1>4. ASSUME NEW p \in Processes, NEW f \in Files, NEW size \in Sizes, NEW force \in BOOLEAN,
             CreateFile(p, f, size, force)
      PROVE  Typed'
  <2> DEFINE c == [at |-> "section", file |-> f, size |-> size,
                   exact |-> force \/ fileSize[f] \in {0, size}]
  <2>1. c \in Calls /\ c.at \notin Steps
    BY DEF Calls, Steps
  <2>2. call' = [call EXCEPT ![p] = c]
    BY <1>4 DEF CreateFile
  <2> HIDE DEF c
  <2>3. call' \in [Processes -> Calls] /\ call'[p] = c
        /\ \A q \in Processes : q # p => call'[q] = call[q]
    BY <1>1, <2>1, <2>2 DEF SystemTyped
  <2>4. fileSize' \in [Files -> Nat] /\ opened' \in [Processes -> SUBSET Files]
    BY <1>1, <1>4 DEF CreateFile, SystemTyped
  <2>5. \A q \in Processes : InUse(q)'
    BY <1>2, <1>4, <2>1, <2>3, NotInUse DEF CreateFile
  <2>6. ContentsTyped'
    BY <1>1, <1>4, CutTyped DEF CreateFile, ContentsTyped, contents
  <2> QED
    BY <1>1, <1>4, <2>3, <2>4, <2>5, <2>6 DEF CreateFile, Typed, SystemTyped
<1>5. ASSUME NEW p \in Processes, CreateSection(p) PROVE Typed'
  <2>1. call[p] \in [at : {"section"}, file : Files, size : Sizes, exact : BOOLEAN]
    BY <1>1, <1>5 DEF CreateSection, SystemTyped, Calls, Steps
  <2>2. PICK f \in Files :
          /\ section' = [section EXCEPT ![f] = IF @ = 0 THEN fileSize[f] ELSE @]
          /\ handles' = [handles EXCEPT ![p] = @ \cup {f}]
          /\ pf' = [pf EXCEPT ![p] = [pf[p] EXCEPT !.fileH = f, !.fileBSize = call[p].size,
                                                   !.mapH = f, !.isReadOnly = FALSE]]
          /\ exact' = [exact EXCEPT ![p] = call[p].exact /\ section[f] = 0]
    BY <1>5, <2>1 DEF CreateSection
  <2>3. [pf[p] EXCEPT !.fileH = f, !.fileBSize = call[p].size,
                      !.mapH = f, !.isReadOnly = FALSE] \in PFs
    BY <1>1, <2>1, StructureTyped DEF SystemTyped
  <2>4. pf' \in [Processes -> PFs] /\ \A q \in Processes : q # p => pf'[q] = pf[q]
    BY <1>1, <2>2, <2>3 DEF SystemTyped
  <2>5. /\ section' \in [Files -> Nat] /\ handles' \in [Processes -> SUBSET Files]
        /\ exact' \in [Processes -> BOOLEAN]
    BY <1>1, <2>1, <2>2 DEF SystemTyped
  <2>6. call' \in [Processes -> Calls] /\ call'[p] = NoCall
        /\ \A q \in Processes : q # p => call'[q] = call[q]
    BY <1>1, <1>5 DEF CreateSection, SystemTyped
  <2>7. \A q \in Processes : InUse(q)'
    BY <1>1, <1>2, <2>4, <2>6, NotInUse
  <2> QED
    BY <1>1, <1>5, <2>4, <2>5, <2>6, <2>7
       DEF CreateSection, Typed, SystemTyped, ContentsTyped, contents
<1>6. ASSUME NEW p \in Processes, CreateFails(p) PROVE Typed'
  <2>1. call' \in [Processes -> Calls] /\ call'[p] = NoCall
        /\ \A q \in Processes : q # p => call'[q] = call[q]
    BY <1>1, <1>6 DEF CreateFails, SystemTyped
  <2>2. opened' \in [Processes -> SUBSET Files]
    BY <1>1, <1>6 DEF CreateFails, SystemTyped
  <2>3. \A q \in Processes : InUse(q)'
    BY <1>1, <1>2, <1>6, <2>1, NotInUse DEF CreateFails
  <2> QED
    BY <1>1, <1>6, <2>1, <2>2, <2>3
       DEF CreateFails, Typed, SystemTyped, ContentsTyped, contents
<1>7. ASSUME NEW p \in Processes, NEW f \in Files, NEW readOnly \in BOOLEAN,
             Open(p, f, readOnly)
      PROVE  Typed'
  <2>1. [pf[p] EXCEPT !.fileH = NULL, !.fileBSize = 0, !.mapH = f,
                      !.isReadOnly = readOnly] \in PFs
    BY <1>1, StructureTyped DEF SystemTyped
  <2>2. pf' \in [Processes -> PFs] /\ \A q \in Processes : q # p => pf'[q] = pf[q]
    BY <1>1, <1>7, <2>1 DEF Open, SystemTyped
  <2>3. handles' \in [Processes -> SUBSET Files] /\ exact' \in [Processes -> BOOLEAN]
    BY <1>1, <1>7 DEF Open, SystemTyped
  <2>4. \A q \in Processes : InUse(q)'
    BY <1>1, <1>2, <1>7, <2>2, NotInUse DEF Open, Idle
  <2> QED
    BY <1>1, <1>7, <2>2, <2>3, <2>4 DEF Open, Typed, SystemTyped, ContentsTyped, contents
<1>8. ASSUME NEW p \in Processes, Map(p) PROVE Typed'
  <2>1. pf[p] \in PFs /\ pf[p].mapH \in Files
    BY <1>1, <1>8 DEF Map, SystemTyped, PFs
  <2>2. PICK a \in Addresses :
          /\ views' = [views EXCEPT ![p] = @ \cup {[addr |-> a, file |-> pf[p].mapH]}]
          /\ pf' = [pf EXCEPT ![p] = [pf[p] EXCEPT !.mapAddr = a,
                                                   !.mapBSize = section[pf[p].mapH]]]
    BY <1>8 DEF Map
  <2>3. [pf[p] EXCEPT !.mapAddr = a, !.mapBSize = section[pf[p].mapH]] \in PFs
    BY <1>1, <2>1 DEF SystemTyped, PFs
  <2>4. pf' \in [Processes -> PFs] /\ \A q \in Processes : q # p => pf'[q] = pf[q]
    BY <1>1, <2>2, <2>3 DEF SystemTyped
  <2>5. views' \in [Processes -> SUBSET [addr : Addresses, file : Files]]
    <3>1. [addr |-> a, file |-> pf[p].mapH] \in [addr : Addresses, file : Files]
      BY <2>1
    <3> QED
      BY <1>1, <2>2, <3>1 DEF SystemTyped
  <2>6. \A q \in Processes : InUse(q)'
    BY <1>1, <1>2, <1>8, <2>4, NotInUse DEF Map, Idle
  <2> QED
    BY <1>1, <1>8, <2>4, <2>5, <2>6 DEF Map, Typed, SystemTyped, ContentsTyped, contents
<1>9. ASSUME NEW p \in Processes, NEW next \in {"idle", "unmap", "closeView"},
             Begin(p, next), next = "idle" => ~pf[p].isReadOnly
      PROVE  Typed'
  <2> DEFINE c == [at |-> IF pf[p].isReadOnly THEN next ELSE "flushView",
                   next |-> next, since |-> memory[pf[p].mapH]]
  <2>1. pf[p].mapH \in Files
    BY <1>1, <1>9 DEF Begin, SystemTyped, PFs
  <2>2. c \in Calls
    BY <1>1, <1>9, <2>1 DEF Calls, Steps, ContentsTyped, SystemTyped, PFs
  <2>3. call' = [call EXCEPT ![p] = c]
    BY <1>9 DEF Begin
  <2> HIDE DEF c
  <2>4. call' \in [Processes -> Calls] /\ \A q \in Processes : q # p => call'[q] = call[q]
    BY <1>1, <2>2, <2>3 DEF SystemTyped
  <2>5. \A q \in Processes : InUse(q)'
    BY <1>2, <1>9, <2>1, <2>4 DEF Begin, InUse
  <2> QED
    BY <1>1, <1>9, <2>4, <2>5
       DEF Begin, Typed, SystemTyped, ContentsTyped, contents, systemVars
<1>10. ASSUME NEW p \in Processes, FlushView(p) PROVE Typed'
  <2>1. call[p].at \in Steps \ {"closeFile"} /\ pf[p].mapH \in Files
    BY <1>10 DEF FlushView, Steps, Typed, InUse
  <2>2. call' \in [Processes -> Calls] /\ \A q \in Processes : q # p => call'[q] = call[q]
    BY <1>1, <1>10, <2>1, ProceedTyped DEF FlushView, Steps
  <2>3. written' \in [Files -> Nat]
    BY <1>1, <1>10, <2>1 DEF FlushView, ContentsTyped
  <2>4. \A q \in Processes : InUse(q)'
    BY <1>2, <1>10, <2>1, <2>2 DEF FlushView, InUse
  <2> QED
    BY <1>1, <1>10, <2>2, <2>3, <2>4
       DEF FlushView, Typed, SystemTyped, ContentsTyped, systemVars
<1>11. ASSUME NEW p \in Processes, FlushFile(p) PROVE Typed'
  <2>1. call[p].at \in Steps \ {"closeFile"} /\ pf[p].mapH \in Files
    BY <1>11 DEF FlushFile, Steps, Typed, InUse
  <2>2. call[p].next \in {"idle", "unmap", "closeView"} /\ call[p].since \in Nat
    BY <1>1, <2>1 DEF SystemTyped, Calls, Steps, NoCall
  <2>3. call' \in [Processes -> Calls] /\ \A q \in Processes : q # p => call'[q] = call[q]
    BY <1>1, <1>11, <2>1, <2>2, ProceedTyped DEF FlushFile, Steps
  <2>4. disk' \in [Files -> Nat] /\ promised' \in [Files -> Nat]
    BY <1>1, <1>11, <2>1, <2>2 DEF FlushFile, ContentsTyped
  <2>5. \A q \in Processes : InUse(q)'
    BY <1>2, <1>11, <2>1, <2>3 DEF FlushFile, InUse
  <2> QED
    BY <1>1, <1>11, <2>3, <2>4, <2>5
       DEF FlushFile, Typed, SystemTyped, ContentsTyped, systemVars
<1>12. ASSUME NEW p \in Processes, UnmapView(p) PROVE Typed'
  <2>1. call[p].at \in Steps \ {"closeFile"} /\ pf[p].mapH \in Files
    BY <1>12 DEF UnmapView, Steps, Typed, InUse
  <2>2. PICK next \in {"idle", "closeMap"} : Proceed(p, next)
    BY <1>12 DEF UnmapView
  <2>3. call' \in [Processes -> Calls] /\ \A q \in Processes : q # p => call'[q] = call[q]
    BY <1>1, <2>1, <2>2, ProceedTyped DEF Steps
  <2>4. [pf[p] EXCEPT !.mapAddr = NULL] \in PFs /\ [pf[p] EXCEPT !.mapAddr = NULL].mapH \in Files
    BY SMTT(30), <1>1, <2>1 DEF SystemTyped, PFs
  <2>5. pf' \in [Processes -> PFs] /\ pf'[p].mapH \in Files
        /\ \A q \in Processes : q # p => pf'[q] = pf[q]
    BY <1>1, <1>12, <2>4 DEF UnmapView, SystemTyped
  <2>6. views' \in [Processes -> SUBSET [addr : Addresses, file : Files]]
    BY <1>1, <1>12 DEF UnmapView, SystemTyped
  <2>7. section' \in [Files -> Nat]
    BY <1>1, <1>12, LeftOverTyped DEF UnmapView
  <2>8. \A q \in Processes : InUse(q)'
    BY <1>2, <2>3, <2>5 DEF InUse
  <2> QED
    BY <1>1, <1>12, <2>3, <2>5, <2>6, <2>7, <2>8
       DEF UnmapView, Typed, SystemTyped, ContentsTyped, contents
<1>13. ASSUME NEW p \in Processes, CloseMap(p) PROVE Typed'
  <2>1. call[p].at \in Steps
    BY <1>13 DEF CloseMap, Steps
  <2>2. call' \in [Processes -> Calls] /\ call'[p].at = "closeFile"
        /\ \A q \in Processes : q # p => call'[q] = call[q]
    BY <1>1, <1>13, <2>1, ProceedTyped DEF CloseMap, Steps
  <2>3. [pf[p] EXCEPT !.mapH = NULL] \in PFs
    BY <1>1, StructureTyped DEF SystemTyped
  <2>4. pf' \in [Processes -> PFs] /\ \A q \in Processes : q # p => pf'[q] = pf[q]
    BY <1>1, <1>13, <2>3 DEF CloseMap, SystemTyped
  <2>5. handles' \in [Processes -> SUBSET Files]
    BY <1>1, <1>13 DEF CloseMap, SystemTyped
  <2>6. section' \in [Files -> Nat]
    BY <1>1, <1>13, LeftOverTyped DEF CloseMap
  <2>7. \A q \in Processes : InUse(q)'
    BY <1>2, <2>2, <2>4 DEF InUse
  <2> QED
    BY <1>1, <1>13, <2>2, <2>4, <2>5, <2>6, <2>7
       DEF CloseMap, Typed, SystemTyped, ContentsTyped, contents
<1>14. ASSUME NEW p \in Processes, CloseFile(p) PROVE Typed'
  <2>1. call[p].at \in Steps
    BY <1>14 DEF CloseFile, Steps
  <2>2. call' \in [Processes -> Calls] /\ call'[p].at = "idle"
        /\ \A q \in Processes : q # p => call'[q] = call[q]
    BY <1>1, <1>14, <2>1, ProceedTyped DEF CloseFile
  <2>3. [pf[p] EXCEPT !.fileH = NULL] \in PFs
    BY <1>1, StructureTyped DEF SystemTyped
  <2>4. pf' \in [Processes -> PFs] /\ \A q \in Processes : q # p => pf'[q] = pf[q]
    BY <1>1, <1>14, <2>3 DEF CloseFile, SystemTyped
  <2>5. opened' \in [Processes -> SUBSET Files]
    BY <1>1, <1>14 DEF CloseFile, SystemTyped
  <2>6. \A q \in Processes : InUse(q)'
    BY <1>1, <1>2, <2>2, <2>4, NotInUse
  <2> QED
    BY <1>1, <1>14, <2>2, <2>4, <2>5, <2>6
       DEF CloseFile, Typed, SystemTyped, ContentsTyped, contents
<1>15. ASSUME NEW p \in Processes, NEW f \in Files, Store(p, f) PROVE Typed'
  BY <1>1, <1>15 DEF Store, Typed, SystemTyped, ContentsTyped, InUse, pfVars, systemVars
<1>16. ASSUME NEW f \in Files, WriteBack(f) PROVE Typed'
  BY <1>1, <1>16 DEF WriteBack, Typed, SystemTyped, ContentsTyped, InUse, pfVars, systemVars
<1>17. ASSUME NEW p \in Processes, Exit(p) PROVE Typed'
  BY <1>1, <1>17, EndedTyped DEF Exit, Typed, ContentsTyped, contents
<1>18. CASE PowerFail
  BY <1>1, <1>18, EndedTyped DEF PowerFail, Typed, ContentsTyped
<1> QED
  BY <1>3, <1>4, <1>5, <1>6, <1>7, <1>8, <1>9, <1>10, <1>11, <1>12, <1>13, <1>14, <1>15,
     <1>16, <1>17, <1>18 DEF Next, Flush, Unmap, Close

LEMMA Types == Spec => []Typed
<1>1. Init => Typed
  BY InitTyped
<1>2. Typed /\ [Next]_vars => Typed'
  BY TypedStep
<1> QED
  BY <1>1, <1>2, PTL DEF Spec

-----------------------------------------------------------------------------
(* What is open *)

(* A file that is being created is open before the structure names it; a     *)
(* view that mapPagingFile forgot is the only thing it may not name.         *)
Struct(p) ==
    /\ IF call[p].at = "section"
       THEN opened[p] = {call[p].file} /\ IsClosed(p)
       ELSE opened[p] = {pf[p].fileH} \ {NULL}
    /\ handles[p] = {pf[p].mapH} \ {NULL}
    /\ p \notin mapTwice => {v.addr : v \in views[p]} = {pf[p].mapAddr} \ {NULL}

LEMMA OthersStruct ==
    ASSUME NEW q \in Processes, Struct(q), call'[q] = call[q], pf'[q] = pf[q],
           opened'[q] = opened[q], handles'[q] = handles[q], views'[q] = views[q],
           q \in mapTwice' <=> q \in mapTwice
    PROVE  Struct(q)'
BY DEF Struct, IsClosed

StructInv == \A p \in Processes : Struct(p)

LEMMA StructStep == Typed /\ StructInv /\ [Next]_vars => StructInv'
<1> SUFFICES ASSUME Typed, StructInv, [Next]_vars PROVE StructInv'
  OBVIOUS
<1>1. /\ SystemTyped /\ NoCall.at = "idle"
      /\ NULL \notin Files /\ NULL \notin Addresses
  BY PagingAssumption DEF Typed, NoCall, PagingAssumption
<1>2. CASE UNCHANGED vars
  BY <1>2 DEF vars, pfVars, systemVars, StructInv, Struct, IsClosed
<1>3. ASSUME NEW p \in Processes, NEW f \in Files, NEW size \in Sizes, NEW force \in BOOLEAN,
             CreateFile(p, f, size, force)
      PROVE  StructInv'
  <2>1. /\ call[p] = NoCall /\ IsClosed(p)
        /\ call'[p].at = "section" /\ call'[p].file = f
        /\ opened'[p] = opened[p] \cup {f}
        /\ UNCHANGED <<pf, handles, views, mapTwice>>
    BY <1>1, <1>3 DEF CreateFile, Idle, SystemTyped
  <2>2. Struct(p) /\ opened[p] = {}
    BY <1>1, <2>1 DEF StructInv, Struct, IsClosed
  <2>3. Struct(p)'
    BY <2>1, <2>2 DEF Struct, IsClosed
  <2>4. \A q \in Processes : q # p => call'[q] = call[q] /\ opened'[q] = opened[q]
    BY <1>1, <1>3 DEF CreateFile, SystemTyped
  <2> QED
    BY <2>1, <2>3, <2>4, OthersStruct DEF StructInv
<1>4. ASSUME NEW p \in Processes, CreateSection(p) PROVE StructInv'
  <2>1. call[p] \in [at : {"section"}, file : Files, size : Sizes, exact : BOOLEAN]
    BY <1>1, <1>4 DEF CreateSection, SystemTyped, Calls, Steps, NoCall
  <2> DEFINE f == call[p].file
  <2>2. /\ call[p].at = "section" /\ f \in Files
        /\ call' = [call EXCEPT ![p] = NoCall]
        /\ handles' = [handles EXCEPT ![p] = @ \cup {f}]
        /\ pf' = [pf EXCEPT ![p] = [@ EXCEPT !.fileH = f, !.fileBSize = call[p].size,
                                             !.mapH = f, !.isReadOnly = FALSE]]
        /\ UNCHANGED <<opened, views, mapTwice>>
    BY <1>4, <2>1 DEF CreateSection
  <2>3. /\ call'[p] = NoCall /\ handles'[p] = handles[p] \cup {f}
        /\ pf'[p].fileH = f /\ pf'[p].mapH = f /\ pf'[p].mapAddr = pf[p].mapAddr
    BY <1>1, <2>2 DEF SystemTyped, PFs
  <2>4. Struct(p) /\ handles[p] = {} /\ opened[p] = {f}
    BY <2>2 DEF StructInv, Struct, IsClosed
  <2>5. Struct(p)'
    BY <1>1, <2>2, <2>3, <2>4 DEF Struct
  <2>6. \A q \in Processes : q # p =>
           call'[q] = call[q] /\ pf'[q] = pf[q] /\ handles'[q] = handles[q]
    BY <1>1, <2>2 DEF SystemTyped
  <2> QED
    BY <2>2, <2>5, <2>6, OthersStruct DEF StructInv
<1>5. ASSUME NEW p \in Processes, CreateFails(p) PROVE StructInv'
  <2>1. /\ call[p].at = "section" /\ call'[p] = NoCall
        /\ opened'[p] = opened[p] \ {call[p].file}
        /\ UNCHANGED <<pf, handles, views, mapTwice>>
        /\ \A q \in Processes : q # p => call'[q] = call[q] /\ opened'[q] = opened[q]
    BY <1>1, <1>5 DEF CreateFails, SystemTyped
  <2>2. Struct(p)'
    BY <1>1, <2>1 DEF StructInv, Struct, IsClosed
  <2> QED
    BY <2>1, <2>2, OthersStruct DEF StructInv
<1>6. ASSUME NEW p \in Processes, NEW f \in Files, NEW readOnly \in BOOLEAN,
             Open(p, f, readOnly)
      PROVE  StructInv'
  <2>1. /\ call[p] = NoCall /\ IsClosed(p)
        /\ pf' = [pf EXCEPT ![p] = [@ EXCEPT !.fileH = NULL, !.fileBSize = 0,
                                             !.mapH = f, !.isReadOnly = readOnly]]
        /\ handles' = [handles EXCEPT ![p] = @ \cup {f}]
        /\ UNCHANGED <<call, opened, views, mapTwice>>
    BY <1>6 DEF Open, Idle
  <2>2. /\ handles'[p] = handles[p] \cup {f}
        /\ pf'[p].fileH = NULL /\ pf'[p].mapH = f /\ pf'[p].mapAddr = pf[p].mapAddr
    BY <1>1, <2>1 DEF SystemTyped, PFs
  <2>3. Struct(p) /\ handles[p] = {} /\ opened[p] = {}
    BY <1>1, <2>1 DEF StructInv, Struct, IsClosed
  <2>4. Struct(p)'
    BY <1>1, <2>1, <2>2, <2>3 DEF Struct
  <2>5. \A q \in Processes : q # p => pf'[q] = pf[q] /\ handles'[q] = handles[q]
    BY <1>1, <2>1 DEF SystemTyped
  <2> QED
    BY <2>1, <2>4, <2>5, OthersStruct DEF StructInv
<1>7. ASSUME NEW p \in Processes, Map(p) PROVE StructInv'
  <2>1. PICK a \in Addresses :
          /\ views' = [views EXCEPT ![p] = @ \cup {[addr |-> a, file |-> pf[p].mapH]}]
          /\ pf' = [pf EXCEPT ![p] = [@ EXCEPT !.mapAddr = a,
                                               !.mapBSize = section[pf[p].mapH]]]
    BY <1>7 DEF Map
  <2>2. /\ call[p] = NoCall /\ UNCHANGED <<call, opened, handles>>
        /\ mapTwice' = IF pf[p].mapAddr = NULL THEN mapTwice ELSE mapTwice \cup {p}
    BY <1>7 DEF Map, Idle
  <2>3. /\ views'[p] = views[p] \cup {[addr |-> a, file |-> pf[p].mapH]}
        /\ pf'[p].fileH = pf[p].fileH /\ pf'[p].mapH = pf[p].mapH /\ pf'[p].mapAddr = a
    BY <1>1, <2>1 DEF SystemTyped, PFs
  <2>4. ASSUME p \notin mapTwice' PROVE {v.addr : v \in views'[p]} = {a}
    <3>1. {v.addr : v \in views[p]} = {}
      BY <2>2, <2>4 DEF StructInv, Struct
    <3>2. views[p] = {}
      BY <3>1
    <3> QED
      BY <2>3, <3>2
  <2>5. Struct(p)'
    BY <1>1, <2>2, <2>3, <2>4 DEF StructInv, Struct
  <2>6. \A q \in Processes : q # p => pf'[q] = pf[q] /\ views'[q] = views[q]
    BY <1>1, <2>1 DEF SystemTyped
  <2> QED
    BY <2>2, <2>5, <2>6, OthersStruct DEF StructInv
(* Steps inside a call that leave the structure and the system alone. *)
<1>8. ASSUME NEW p \in Processes, UNCHANGED <<pf, mapTwice, opened, handles, views>>,
             call[p].at # "section", call'[p].at # "section",
             \A q \in Processes : q # p => call'[q] = call[q]
      PROVE  StructInv'
  <2>1. Struct(p)'
    BY <1>8 DEF StructInv, Struct
  <2> QED
    BY <1>8, <2>1, OthersStruct DEF StructInv
<1>9. ASSUME NEW p \in Processes, Flush(p) \/ Unmap(p) \/ Close(p) PROVE StructInv'
  <2>1. PICK next \in {"idle", "unmap", "closeView"} : Begin(p, next)
    BY <1>9 DEF Flush, Unmap, Close
  <2> DEFINE c == [at |-> IF pf[p].isReadOnly THEN next ELSE "flushView",
                   next |-> next, since |-> memory[pf[p].mapH]]
  <2>2. /\ call[p] = NoCall /\ call'[p] = c
        /\ \A q \in Processes : q # p => call'[q] = call[q]
        /\ UNCHANGED <<pf, mapTwice, opened, handles, views>>
    BY <1>1, <2>1 DEF Begin, Idle, SystemTyped, systemVars
  <2>3. c.at # "section"
    OBVIOUS
  <2> HIDE DEF c
  <2> QED
    BY <1>1, <1>8, <2>2, <2>3
<1>10. ASSUME NEW p \in Processes, FlushView(p) \/ FlushFile(p) PROVE StructInv'
  <2>1. call[p].at \in {"flushView", "flushFile"} /\ call[p].at \in Steps
    BY <1>10 DEF FlushView, FlushFile, Steps
  <2>2. call[p].next \in {"idle", "unmap", "closeView"}
    BY <1>1, <2>1 DEF SystemTyped, Calls, Steps, NoCall
  <2>3. PICK next \in {"idle", "unmap", "closeView", "flushFile"} : Proceed(p, next)
    BY <1>10, <2>2 DEF FlushView, FlushFile
  <2>4. call'[p].at # "section" /\ \A q \in Processes : q # p => call'[q] = call[q]
    BY <1>1, <2>1, <2>3, ProceedTyped DEF Steps
  <2>5. UNCHANGED <<pf, mapTwice, opened, handles, views>>
    BY <1>10 DEF FlushView, FlushFile, systemVars
  <2> QED
    BY <1>8, <2>1, <2>4, <2>5
<1>11. ASSUME NEW p \in Processes, UnmapView(p) PROVE StructInv'
  <2>1. call[p].at \in Steps
    BY <1>11 DEF UnmapView, Steps
  <2>2. PICK next \in {"idle", "closeMap"} : Proceed(p, next)
    BY <1>11 DEF UnmapView
  <2>3. call'[p].at # "section" /\ \A q \in Processes : q # p => call'[q] = call[q]
    BY <1>1, <2>1, <2>2, ProceedTyped DEF Steps
  <2>4. /\ views' = [views EXCEPT ![p] = {v \in @ : v.addr # pf[p].mapAddr}]
        /\ pf' = [pf EXCEPT ![p] = [@ EXCEPT !.mapAddr = NULL]]
        /\ UNCHANGED <<mapTwice, opened, handles>>
    BY <1>11 DEF UnmapView
  <2>5. /\ views'[p] = {v \in views[p] : v.addr # pf[p].mapAddr}
        /\ pf'[p].fileH = pf[p].fileH /\ pf'[p].mapH = pf[p].mapH /\ pf'[p].mapAddr = NULL
    BY <1>1, <2>4 DEF SystemTyped, PFs
  <2>6. ASSUME p \notin mapTwice PROVE views'[p] = {}
    <3>1. {v.addr : v \in views[p]} \subseteq {pf[p].mapAddr}
      BY <2>6 DEF StructInv, Struct
    <3>2. \A v \in views[p] : v.addr = pf[p].mapAddr
      BY <3>1
    <3> QED
      BY <2>5, <3>2
  <2>7. p \notin mapTwice => {v.addr : v \in views'[p]} = {}
    BY <2>6
  <2>8. call[p].at # "section" /\ Struct(p)
    BY <2>1 DEF Steps, StructInv
  <2>9. Struct(p)'
    BY <2>3, <2>4, <2>5, <2>7, <2>8 DEF Struct
  <2>10. \A q \in Processes : q # p => pf'[q] = pf[q] /\ views'[q] = views[q]
    BY <1>1, <2>4 DEF SystemTyped
  <2> QED
    BY <2>3, <2>4, <2>9, <2>10, OthersStruct DEF StructInv
<1>12. ASSUME NEW p \in Processes, CloseMap(p) PROVE StructInv'
  <2>1. call[p].at \in Steps /\ call[p].at # "section"
    BY <1>12 DEF CloseMap, Steps
  <2>2. call'[p].at = "closeFile" /\ \A q \in Processes : q # p => call'[q] = call[q]
    BY <1>1, <1>12, <2>1, ProceedTyped DEF CloseMap, Steps
  <2>3. /\ handles' = [handles EXCEPT ![p] = @ \ {pf[p].mapH}]
        /\ pf' = [pf EXCEPT ![p] = [@ EXCEPT !.mapH = NULL]]
        /\ UNCHANGED <<mapTwice, opened, views>>
    BY <1>12 DEF CloseMap
  <2>4. /\ handles'[p] = handles[p] \ {pf[p].mapH}
        /\ pf'[p].fileH = pf[p].fileH /\ pf'[p].mapAddr = pf[p].mapAddr /\ pf'[p].mapH = NULL
    BY <1>1, <2>3 DEF SystemTyped, PFs
  <2>5. Struct(p)'
    BY <2>1, <2>2, <2>3, <2>4 DEF StructInv, Struct
  <2>6. \A q \in Processes : q # p => pf'[q] = pf[q] /\ handles'[q] = handles[q]
    BY <1>1, <2>3 DEF SystemTyped
  <2> QED
    BY <2>2, <2>3, <2>5, <2>6, OthersStruct DEF StructInv
<1>13. ASSUME NEW p \in Processes, CloseFile(p) PROVE StructInv'
  <2>1. call[p].at \in Steps /\ call[p].at # "section"
    BY <1>13 DEF CloseFile, Steps
  <2>2. call'[p].at = "idle" /\ \A q \in Processes : q # p => call'[q] = call[q]
    BY <1>1, <1>13, <2>1, ProceedTyped DEF CloseFile
  <2>3. /\ opened' = [opened EXCEPT ![p] = @ \ {pf[p].fileH}]
        /\ pf' = [pf EXCEPT ![p] = [@ EXCEPT !.fileH = NULL]]
        /\ UNCHANGED <<mapTwice, handles, views>>
    BY <1>13 DEF CloseFile
  <2>4. /\ opened'[p] = opened[p] \ {pf[p].fileH}
        /\ pf'[p].mapH = pf[p].mapH /\ pf'[p].mapAddr = pf[p].mapAddr /\ pf'[p].fileH = NULL
    BY <1>1, <2>3 DEF SystemTyped, PFs
  <2>5. Struct(p)'
    BY <2>1, <2>2, <2>3, <2>4 DEF StructInv, Struct
  <2>6. \A q \in Processes : q # p => pf'[q] = pf[q] /\ opened'[q] = opened[q]
    BY <1>1, <2>3 DEF SystemTyped
  <2> QED
    BY <2>2, <2>3, <2>5, <2>6, OthersStruct DEF StructInv
<1>14. ASSUME NEW p \in Processes, NEW f \in Files, Store(p, f) PROVE StructInv'
  BY <1>14 DEF Store, pfVars, systemVars, StructInv, Struct, IsClosed
<1>15. ASSUME NEW f \in Files, WriteBack(f) PROVE StructInv'
  BY <1>15 DEF WriteBack, pfVars, systemVars, StructInv, Struct, IsClosed
<1>16. ASSUME NEW ps \in SUBSET Processes, Ended(ps) PROVE StructInv'
  <2>1. ASSUME NEW q \in Processes, q \in ps PROVE Struct(q)'
    <3>1. /\ pf'[q] = Closed /\ call'[q] = NoCall
          /\ opened'[q] = {} /\ handles'[q] = {} /\ views'[q] = {}
      BY <1>16, <2>1 DEF Ended
    <3> QED
      BY <1>1, <3>1 DEF Struct, Closed
  <2>2. ASSUME NEW q \in Processes, q \notin ps PROVE Struct(q)'
    BY <1>16, <2>2, OthersStruct DEF Ended, StructInv
  <2> QED
    BY <2>1, <2>2 DEF StructInv
<1>17. ASSUME NEW p \in Processes, Exit(p) PROVE StructInv'
  BY <1>16, <1>17 DEF Exit
<1>18. CASE PowerFail
  BY <1>16, <1>18 DEF PowerFail
<1> QED
  BY <1>2, <1>3, <1>4, <1>5, <1>6, <1>7, <1>9, <1>10, <1>11, <1>12, <1>13, <1>14, <1>15,
     <1>17, <1>18 DEF Next

LEMMA Structs == Spec => []StructInv
<1>1. Init => StructInv
  <2>1. ASSUME Init, NEW p \in Processes PROVE Struct(p)
    <3>1. /\ pf[p] = Closed /\ call[p] = NoCall
          /\ opened[p] = {} /\ handles[p] = {} /\ views[p] = {}
      BY <2>1 DEF Init
    <3> QED
      BY <3>1 DEF Struct, Closed, NoCall
  <2> QED
    BY <2>1 DEF StructInv
<1>2. Typed /\ StructInv /\ [Next]_vars => StructInv'
  BY StructStep
<1> QED
  BY <1>1, <1>2, Types, PTL DEF Spec

(* For any processes, files and sizes: between its calls a process has open  *)
(* and mapped what its structure names and nothing else, after the failures  *)
(* of createPagingFile, partial flushes and closes too.                      *)
THEOREM NothingLeftOpen == Spec => []HandlesMatch
<1>1. StructInv => HandlesMatch
  BY DEF StructInv, Struct, HandlesMatch, Idle, NoCall
<1> QED
  BY <1>1, Structs, PTL

-----------------------------------------------------------------------------
(* The sections in use *)

(* A section that a process has a handle of is left. *)
LEMMA HeldIsLeft ==
    ASSUME NEW hs, NEW vs, NEW q \in Processes, NEW f \in Files, f \in hs[q]
    PROVE  LeftOver(hs, vs)[f] = section[f]
BY DEF LeftOver

(* A section lives as long as a process has a handle of it. *)
Held == \A q \in Processes : \A f \in handles[q] : section[f] # 0

LEMMA HeldStep == Typed /\ Held /\ [Next]_vars => Held'
<1> SUFFICES ASSUME Typed, Held, [Next]_vars PROVE Held'
  OBVIOUS
<1>1. SystemTyped
  BY DEF Typed
<1>2. ASSUME UNCHANGED <<handles, section>> PROVE Held'
  BY <1>2 DEF Held
<1>3. ASSUME NEW vs, section' = LeftOver(handles', vs),
             \A q \in Processes : handles'[q] \subseteq handles[q]
      PROVE  Held'
  <2> SUFFICES ASSUME NEW q \in Processes, NEW f \in handles'[q] PROVE section'[f] # 0
    BY DEF Held
  <2>1. f \in handles[q] /\ f \in Files /\ section[f] # 0
    BY <1>1, <1>3 DEF Held, SystemTyped
  <2>2. LeftOver(handles', vs)[f] = section[f]
    BY <2>1, HeldIsLeft
  <2> QED
    BY <1>3, <2>1, <2>2
<1>4. CASE UNCHANGED vars
  BY <1>2, <1>4 DEF vars, systemVars
<1>5. ASSUME NEW p \in Processes, NEW f \in Files, NEW size \in Sizes, NEW force \in BOOLEAN,
             CreateFile(p, f, size, force)
      PROVE  Held'
  BY <1>2, <1>5 DEF CreateFile
<1>6. ASSUME NEW p \in Processes, CreateSection(p) PROVE Held'
  <2>1. call[p] \in [at : {"section"}, file : Files, size : Sizes, exact : BOOLEAN]
    BY <1>1, <1>6 DEF CreateSection, SystemTyped, Calls, Steps, NoCall
  <2>2. PICK f \in Files :
          /\ fileSize[f] # 0
          /\ section' = [section EXCEPT ![f] = IF @ = 0 THEN fileSize[f] ELSE @]
          /\ handles' = [handles EXCEPT ![p] = @ \cup {f}]
    BY <1>6, <2>1 DEF CreateSection
  <2>3. section'[f] # 0 /\ \A g \in Files : g # f => section'[g] = section[g]
    BY <1>1, <2>2 DEF SystemTyped
  <2>4. \A q \in Processes : handles'[q] \subseteq handles[q] \cup {f}
    BY <1>1, <2>2 DEF SystemTyped
  <2>5. \A q \in Processes : handles[q] \subseteq Files
    BY <1>1 DEF SystemTyped
  <2> QED
    BY <2>3, <2>4, <2>5 DEF Held
<1>7. ASSUME NEW p \in Processes, CreateFails(p) PROVE Held'
  BY <1>2, <1>7 DEF CreateFails
<1>8. ASSUME NEW p \in Processes, NEW f \in Files, NEW readOnly \in BOOLEAN,
             Open(p, f, readOnly)
      PROVE  Held'
  <2>1. /\ section[f] # 0 /\ section' = section
        /\ \A q \in Processes : handles'[q] \subseteq handles[q] \cup {f}
    BY <1>1, <1>8 DEF Open, SystemTyped
  <2> QED
    BY <2>1 DEF Held
<1>9. ASSUME NEW p \in Processes, Map(p) PROVE Held'
  BY <1>2, <1>9 DEF Map
<1>10. ASSUME NEW p \in Processes, Flush(p) \/ Unmap(p) \/ Close(p) PROVE Held'
  BY <1>2, <1>10 DEF Flush, Unmap, Close, Begin, systemVars
<1>11. ASSUME NEW p \in Processes, FlushView(p) \/ FlushFile(p) PROVE Held'
  BY <1>2, <1>11 DEF FlushView, FlushFile, systemVars
<1>12. ASSUME NEW p \in Processes, UnmapView(p) PROVE Held'
  <2>1. section' = LeftOver(handles', views') /\ handles' = handles
    BY <1>12 DEF UnmapView
  <2> QED
    BY <1>3, <2>1
<1>13. ASSUME NEW p \in Processes, CloseMap(p) PROVE Held'
  <2>1. /\ section' = LeftOver(handles', views)
        /\ \A q \in Processes : handles'[q] \subseteq handles[q]
    BY <1>1, <1>13 DEF CloseMap, SystemTyped
  <2> QED
    BY <1>3, <2>1
<1>14. ASSUME NEW p \in Processes, CloseFile(p) PROVE Held'
  BY <1>2, <1>14 DEF CloseFile
<1>15. ASSUME NEW p \in Processes, NEW f \in Files, Store(p, f) PROVE Held'
  BY <1>2, <1>15 DEF Store, systemVars
<1>16. ASSUME NEW f \in Files, WriteBack(f) PROVE Held'
  BY <1>2, <1>16 DEF WriteBack, systemVars
<1>17. ASSUME NEW ps \in SUBSET Processes, Ended(ps) PROVE Held'
  <2>1. /\ section' = LeftOver(handles', views')
        /\ \A q \in Processes : handles'[q] \subseteq handles[q]
    BY <1>17 DEF Ended
  <2> QED
    BY <1>3, <2>1
<1>18. ASSUME NEW p \in Processes, Exit(p) PROVE Held'
  BY <1>17, <1>18 DEF Exit
<1>19. CASE PowerFail
  BY <1>17, <1>19 DEF PowerFail
<1> QED
  BY <1>4, <1>5, <1>6, <1>7, <1>8, <1>9, <1>10, <1>11, <1>12, <1>13, <1>14, <1>15, <1>16,
     <1>18, <1>19 DEF Next

LEMMA Helds == Spec => []Held
<1>1. Init => Held
  BY DEF Init, Held
<1>2. Typed /\ Held /\ [Next]_vars => Held'
  BY HeldStep
<1> QED
  BY <1>1, <1>2, Types, PTL DEF Spec

-----------------------------------------------------------------------------
(* What is flushed *)

(* The stores of a file pass from memory to the disk in their order, and     *)
(* what a flush is to save is on its way.                                    *)
InOrder(f) == promised[f] <= disk[f] /\ disk[f] <= written[f] /\ written[f] <= memory[f]

OnItsWay(p) ==
    /\ call[p].at \in {"flushView", "flushFile"} => call[p].since <= memory[pf[p].mapH]
    /\ call[p].at = "flushFile" /\ pf[p].mapAddr # NULL =>
          call[p].since <= written[pf[p].mapH]

FlushInv == (\A f \in Files : InOrder(f)) /\ (\A p \in Processes : OnItsWay(p))

(* A step that does not touch the contents, and after which nobody flushes   *)
(* who did not before.                                                       *)
LEMMA UntouchedFlush ==
    ASSUME FlushInv, UNCHANGED contents,
           \A p \in Processes :
              \/ call'[p].at \notin {"flushView", "flushFile"}
              \/ call'[p] = call[p] /\ pf'[p].mapH = pf[p].mapH
                 /\ pf'[p].mapAddr = pf[p].mapAddr
    PROVE  FlushInv'
BY DEF FlushInv, InOrder, OnItsWay, contents

UntouchedFile(g) ==
    /\ memory'[g] = memory[g] /\ written'[g] = written[g]
    /\ disk'[g] = disk[g] /\ promised'[g] = promised[g]

(* What is cut off is lost everywhere, of that file only. *)
LEMMA CutInOrder ==
    ASSUME ContentsTyped, NEW f \in Files, InOrder(f), NEW size, Cut(f, size)
    PROVE  InOrder(f)' /\ \A g \in Files : g # f => UntouchedFile(g)
<1>1. PICK left \in Nat :
        /\ memory' = [memory EXCEPT ![f] = IF @ < left THEN @ ELSE left]
        /\ written' = [written EXCEPT ![f] = IF @ < left THEN @ ELSE left]
        /\ disk' = [disk EXCEPT ![f] = IF @ < left THEN @ ELSE left]
        /\ promised' = [promised EXCEPT ![f] = IF @ < left THEN @ ELSE left]
  <2>1. (IF size = 0 THEN {0} ELSE 0 .. memory[f]) \subseteq Nat
    BY DEF ContentsTyped
  <2> QED
    BY <2>1 DEF Cut
<1>2. /\ memory'[f] = IF memory[f] < left THEN memory[f] ELSE left
      /\ written'[f] = IF written[f] < left THEN written[f] ELSE left
      /\ disk'[f] = IF disk[f] < left THEN disk[f] ELSE left
      /\ promised'[f] = IF promised[f] < left THEN promised[f] ELSE left
      /\ \A g \in Files : g # f => UntouchedFile(g)
  BY <1>1 DEF ContentsTyped, UntouchedFile
<1>3. /\ memory[f] \in Nat /\ written[f] \in Nat /\ disk[f] \in Nat /\ promised[f] \in Nat
  BY DEF ContentsTyped
<1> QED
  BY <1>2, <1>3 DEF InOrder

(* In the actions of a process only its own call is another one. *)
LEMMA FlushStep == Typed /\ StructInv /\ Held /\ FlushInv /\ [Next]_vars => FlushInv'
<1> SUFFICES ASSUME Typed, StructInv, Held, FlushInv, [Next]_vars PROVE FlushInv'
  OBVIOUS
<1>1. SystemTyped /\ ContentsTyped /\ NoCall.at \notin {"flushView", "flushFile"}
  BY DEF Typed, NoCall
<1>2. CASE UNCHANGED vars
  BY <1>2 DEF vars, pfVars, contents, FlushInv, InOrder, OnItsWay
<1>3. ASSUME NEW p \in Processes, NEW f \in Files, NEW size \in Sizes, NEW force \in BOOLEAN,
             CreateFile(p, f, size, force)
      PROVE  FlushInv'
  <2>1. \A q \in Processes : \/ call'[q].at = "section" \/ call'[q] = call[q]
    BY <1>1, <1>3 DEF CreateFile, SystemTyped
  <2>2. pf' = pf
    BY <1>3 DEF CreateFile
  <2>3. CASE UNCHANGED contents
    BY <2>1, <2>2, <2>3, UntouchedFlush
  <2>4. CASE section[f] = 0 /\ Cut(f, size)
    <3>2. InOrder(f)' /\ \A g \in Files : g # f => UntouchedFile(g)
      BY <1>1, <2>4, CutInOrder DEF FlushInv
    <3>3. ASSUME NEW q \in Processes, call'[q].at \in {"flushView", "flushFile"}
          PROVE  call'[q] = call[q] /\ UntouchedFile(pf[q].mapH)
      <4>1. call'[q] = call[q]
        BY <2>1, <3>3
      <4>2. pf[q].mapH \in Files /\ pf[q].mapH \in handles[q]
        BY <3>3, <4>1, PagingAssumption
           DEF PagingAssumption, Typed, InUse, Steps, StructInv, Struct
      <4>3. pf[q].mapH # f
        BY <2>4, <4>2 DEF Held
      <4> QED
        BY <3>2, <4>1, <4>2, <4>3
    <3>4. \A q \in Processes : OnItsWay(q)'
      BY <2>2, <3>3 DEF FlushInv, OnItsWay, UntouchedFile
    <3>5. \A g \in Files : InOrder(g)'
      BY <3>2 DEF FlushInv, InOrder, UntouchedFile
    <3> QED
      BY <3>4, <3>5 DEF FlushInv
  <2> QED
    BY <1>3, <2>3, <2>4 DEF CreateFile
<1>4. ASSUME NEW p \in Processes, CreateSection(p) \/ CreateFails(p) PROVE FlushInv'
  <2>1. /\ call'[p] = NoCall
        /\ \A q \in Processes : q # p => call'[q] = call[q] /\ pf'[q] = pf[q]
        /\ UNCHANGED contents
    BY <1>1, <1>4 DEF CreateSection, CreateFails, SystemTyped
  <2> QED
    BY <1>1, <2>1, UntouchedFlush
<1>5. ASSUME NEW p \in Processes,
             Map(p) \/ \E f \in Files, readOnly \in BOOLEAN : Open(p, f, readOnly)
      PROVE  FlushInv'
  <2>1. /\ call' = call /\ call[p] = NoCall
        /\ \A q \in Processes : q # p => pf'[q] = pf[q]
        /\ UNCHANGED contents
    BY <1>1, <1>5 DEF Open, Map, Idle, SystemTyped
  <2> QED
    BY <1>1, <2>1, UntouchedFlush
<1>6. ASSUME NEW p \in Processes, NEW next \in {"idle", "unmap", "closeView"}, Begin(p, next)
      PROVE  FlushInv'
  <2> DEFINE c == [at |-> IF pf[p].isReadOnly THEN next ELSE "flushView",
                   next |-> next, since |-> memory[pf[p].mapH]]
  <2>1. /\ call'[p] = c /\ \A q \in Processes : q # p => call'[q] = call[q]
        /\ UNCHANGED <<pf, contents>>
    BY <1>1, <1>6 DEF Begin, SystemTyped
  <2>2. c.at # "flushFile" /\ c.since = memory[pf[p].mapH] /\ memory[pf[p].mapH] \in Nat
    BY <1>1, <1>6 DEF Begin, SystemTyped, PFs, ContentsTyped
  <2>3. OnItsWay(p)'
    BY <2>1, <2>2 DEF OnItsWay, contents
  <2>4. \A q \in Processes : q # p => OnItsWay(q)'
    BY <2>1 DEF FlushInv, OnItsWay, contents
  <2> QED
    BY <2>1, <2>3, <2>4 DEF FlushInv, InOrder, contents
<1>7. ASSUME NEW p \in Processes, FlushView(p) PROVE FlushInv'
  <2>1. call[p].at = "flushView" /\ pf[p].mapH \in Files
    BY <1>7 DEF FlushView, Steps, Typed, InUse
  <2>2. /\ call'[p].at = "flushFile" /\ call'[p].since = call[p].since
        /\ \A q \in Processes : q # p => call'[q] = call[q]
    BY <1>1, <1>7, <2>1, ProceedTyped DEF FlushView, Steps
  <2>3. /\ UNCHANGED <<pf, memory, disk, promised>>
        /\ \A f \in Files : written'[f] \in {written[f], memory[f]}
        /\ pf[p].mapAddr # NULL => written'[pf[p].mapH] = memory[pf[p].mapH]
    BY <1>1, <1>7, <2>1 DEF FlushView, ContentsTyped
  <2>4. \A f \in Files : InOrder(f)' /\ written[f] <= written'[f]
    BY <1>1, <2>3 DEF FlushInv, InOrder, ContentsTyped
  <2>5. OnItsWay(p)'
    BY <2>1, <2>2, <2>3 DEF FlushInv, OnItsWay
  <2>6. ASSUME NEW q \in Processes, q # p PROVE OnItsWay(q)'
    <3>1. CASE call[q].at \in {"flushView", "flushFile"}
      <4>1. pf[q].mapH \in Files /\ call[q].since \in Nat
        BY <1>1, <3>1 DEF Typed, InUse, Steps, SystemTyped, Calls, NoCall
      <4> QED
        BY <1>1, <2>2, <2>3, <2>4, <2>6, <4>1 DEF FlushInv, OnItsWay, ContentsTyped
    <3>2. CASE call[q].at \notin {"flushView", "flushFile"}
      BY <2>2, <2>6, <3>2 DEF OnItsWay
    <3> QED
      BY <3>1, <3>2
  <2> QED
    BY <2>4, <2>5, <2>6 DEF FlushInv
<1>8. ASSUME NEW p \in Processes, FlushFile(p) PROVE FlushInv'
  <2>1. call[p].at = "flushFile" /\ pf[p].mapH \in Files /\ call[p].at \in Steps
    BY <1>8 DEF FlushFile, Steps, Typed, InUse
  <2>2. call[p].next \in {"idle", "unmap", "closeView"} /\ call[p].since \in Nat
    BY <1>1, <2>1 DEF SystemTyped, Calls, Steps, NoCall
  <2>3. /\ call'[p].at = call[p].next
        /\ \A q \in Processes : q # p => call'[q] = call[q]
    BY <1>1, <1>8, <2>1, <2>2, ProceedTyped DEF FlushFile, Steps
  <2> DEFINE h == pf[p].mapH
  <2>4. /\ UNCHANGED <<pf, memory, written>>
        /\ disk' = IF pf[p].fileH = NULL THEN disk ELSE [disk EXCEPT ![h] = written[h]]
        /\ promised' = IF pf[p].fileH = NULL \/ pf[p].mapAddr = NULL
                          \/ promised[h] >= call[p].since
                       THEN promised ELSE [promised EXCEPT ![h] = call[p].since]
    BY <1>8 DEF FlushFile
  <2>5. call[p].since <= memory[h] /\ (pf[p].mapAddr # NULL => call[p].since <= written[h])
    BY <2>1 DEF FlushInv, OnItsWay
  <2>6. ASSUME NEW f \in Files PROVE InOrder(f)'
    <3>1. InOrder(f) /\ f \in Files /\ h \in Files
      BY <2>1 DEF FlushInv
    <3>2. CASE f = h
      BY <1>1, <2>2, <2>4, <2>5, <3>1, <3>2 DEF InOrder, ContentsTyped
    <3>3. CASE f # h
      BY <1>1, <2>4, <3>1, <3>3 DEF InOrder, ContentsTyped
    <3> QED
      BY <3>2, <3>3
  <2>7. \A q \in Processes : OnItsWay(q)'
    BY <2>2, <2>3, <2>4 DEF FlushInv, OnItsWay
  <2> QED
    BY <2>6, <2>7 DEF FlushInv
<1>9. ASSUME NEW p \in Processes, UnmapView(p) \/ CloseMap(p) \/ CloseFile(p) PROVE FlushInv'
  <2>1. call[p].at \in Steps
    BY <1>9 DEF UnmapView, CloseMap, CloseFile, Steps
  <2>2. PICK next \in {"idle", "closeMap", "closeFile"} : Proceed(p, next)
    BY <1>9 DEF UnmapView, CloseMap, CloseFile
  <2>3. /\ call'[p].at = next
        /\ \A q \in Processes : q # p => call'[q] = call[q]
    BY <1>1, <2>1, <2>2, ProceedTyped DEF Steps
  <2>4. UNCHANGED contents /\ \A q \in Processes : q # p => pf'[q] = pf[q]
    BY <1>1, <1>9 DEF UnmapView, CloseMap, CloseFile, SystemTyped
  <2> QED
    BY <2>2, <2>3, <2>4, UntouchedFlush
<1>10. ASSUME NEW p \in Processes, NEW f \in Files, Store(p, f) PROVE FlushInv'
  <2>1. /\ UNCHANGED <<pf, call, written, disk, promised>>
        /\ memory' = [memory EXCEPT ![f] = @ + 1]
    BY <1>10 DEF Store, pfVars
  <2>2. \A g \in Files : InOrder(g)' /\ memory[g] <= memory'[g]
    BY <1>1, <2>1 DEF FlushInv, InOrder, ContentsTyped
  <2>3. ASSUME NEW q \in Processes PROVE OnItsWay(q)'
    <3>1. CASE call[q].at \in {"flushView", "flushFile"}
      <4>1. pf[q].mapH \in Files /\ call[q].since \in Nat
        BY <1>1, <3>1 DEF Typed, InUse, Steps, SystemTyped, Calls, NoCall
      <4>2. memory[pf[q].mapH] <= memory'[pf[q].mapH]
            /\ memory[pf[q].mapH] \in Nat /\ memory'[pf[q].mapH] \in Nat
        BY <1>1, <2>1, <2>2, <4>1 DEF ContentsTyped
      <4> QED
        BY <2>1, <4>1, <4>2 DEF FlushInv, OnItsWay
    <3>2. CASE call[q].at \notin {"flushView", "flushFile"}
      BY <2>1, <3>2 DEF OnItsWay
    <3> QED
      BY <3>1, <3>2
  <2> QED
    BY <2>2, <2>3 DEF FlushInv
<1>11. ASSUME NEW f \in Files, WriteBack(f) PROVE FlushInv'
  <2>1. UNCHANGED <<pf, call, memory, promised>>
    BY <1>11 DEF WriteBack, pfVars
  <2>2. \A g \in Files : InOrder(g)' /\ written[g] <= written'[g]
    BY <1>1, <1>11 DEF WriteBack, FlushInv, InOrder, ContentsTyped
  <2>3. \A g \in Files : written'[g] \in Nat
    BY <1>1, <1>11 DEF WriteBack, ContentsTyped
  <2>4. ASSUME NEW q \in Processes PROVE OnItsWay(q)'
    <3>1. CASE call[q].at \in {"flushView", "flushFile"}
      <4>1. pf[q].mapH \in Files /\ call[q].since \in Nat
        BY <1>1, <3>1 DEF Typed, InUse, Steps, SystemTyped, Calls, NoCall
      <4>2. written[pf[q].mapH] <= written'[pf[q].mapH]
            /\ written[pf[q].mapH] \in Nat /\ written'[pf[q].mapH] \in Nat
        BY <1>1, <2>2, <2>3, <4>1 DEF ContentsTyped
      <4> QED
        BY <2>1, <4>1, <4>2 DEF FlushInv, OnItsWay
    <3>2. CASE call[q].at \notin {"flushView", "flushFile"}
      BY <2>1, <3>2 DEF OnItsWay
    <3> QED
      BY <3>1, <3>2
  <2> QED
    BY <2>2, <2>4 DEF FlushInv
<1>12. ASSUME NEW p \in Processes, Exit(p) PROVE FlushInv'
  <2>1. \A q \in Processes : call'[q] = NoCall \/ (call'[q] = call[q] /\ pf'[q] = pf[q])
    BY <1>12 DEF Exit, Ended
  <2> QED
    BY <1>1, <1>12, <2>1, UntouchedFlush DEF Exit
<1>13. CASE PowerFail
  <2>1. \A q \in Processes : call'[q] = NoCall
    BY <1>13 DEF PowerFail, Ended
  <2>2. \A q \in Processes : OnItsWay(q)'
    BY <1>1, <2>1 DEF OnItsWay
  <2>3. \A f \in Files : InOrder(f)'
    BY <1>1, <1>13 DEF PowerFail, FlushInv, InOrder, ContentsTyped
  <2> QED
    BY <2>2, <2>3 DEF FlushInv
<1>14. ASSUME NEW p \in Processes, Flush(p) \/ Unmap(p) \/ Close(p) PROVE FlushInv'
  BY <1>6, <1>14 DEF Flush, Unmap, Close
<1> QED
  BY <1>2, <1>3, <1>4, <1>5, <1>7, <1>8, <1>9, <1>10, <1>11, <1>12, <1>13, <1>14 DEF Next

(* For any processes, files and stores: what a flush has returned for is on  *)
(* the disk and stays there, whoever ends and when the machine stops, but    *)
(* for what is cut off when a create forces the file to a smaller size:      *)
(* FlushViewOfFile comes before FlushFileBuffers (ipc_shm.cpp, flush, unmap  *)
(* and close), and SetEndOfFile cuts no file that a process has mapped.      *)
THEOREM FlushedIsKept == Spec => []FlushedSurvives
<1>1. Init => FlushInv
  BY DEF Init, FlushInv, InOrder, OnItsWay, NoCall
<1>2. Typed /\ StructInv /\ Held /\ FlushInv /\ [Next]_vars => FlushInv'
  BY FlushStep
<1>3. FlushInv => FlushedSurvives
  BY DEF FlushInv, InOrder, FlushedSurvives
<1> QED
  BY <1>1, <1>2, <1>3, Types, Structs, Helds, PTL DEF Spec

-----------------------------------------------------------------------------
(* How much is mapped *)

(* A file that is created is alone in the hands of its creator. *)
Alone == \A p, q \in Processes : p # q => opened[p] \cap opened[q] = {}

(* What was to have the size it gave has it from the first call on, and the  *)
(* section it made has it as long as there is a handle; only who has a       *)
(* section has a view to name.                                               *)
Sized(p) ==
    /\ call[p].at = "section" /\ call[p].exact => fileSize[call[p].file] = call[p].size
    /\ exact[p] /\ pf[p].mapH # NULL =>
         section[pf[p].mapH] = pf[p].fileBSize /\ section[pf[p].mapH] # 0
    /\ pf[p].mapH = NULL \/ call[p].at = "closeMap" => pf[p].mapAddr = NULL
    /\ exact[p] /\ pf[p].mapAddr # NULL => pf[p].mapBSize = pf[p].fileBSize

RoomInv == Alone /\ \A p \in Processes : Sized(p)

(* Whom a step does not concern: nobody else sizes the file it creates, and  *)
(* a section stays as it is while there is a handle.                         *)
LEMMA OthersSized ==
    ASSUME NEW q \in Processes, Sized(q),
           call'[q] = call[q], pf'[q] = pf[q], exact'[q] = exact[q],
           call[q].at = "section" => fileSize'[call[q].file] = fileSize[call[q].file],
           pf[q].mapH # NULL /\ section[pf[q].mapH] # 0 =>
               section'[pf[q].mapH] = section[pf[q].mapH]
    PROVE  Sized(q)'
BY DEF Sized

(* A process is in the section of a call with one of the files there are.    *)
LEMMA CreatesFile ==
    ASSUME SystemTyped, NEW q \in Processes, call[q].at = "section"
    PROVE  call[q] \in [at : {"section"}, file : Files, size : Sizes, exact : BOOLEAN]
BY DEF SystemTyped, Calls, Steps, NoCall

(* Steps inside a call that leave the structure and the system alone.        *)
LEMMA InCall ==
    ASSUME RoomInv, NEW p \in Processes, UNCHANGED <<pf, exact, opened, fileSize, section>>,
           call'[p].at \notin {"section", "closeMap"},
           \A q \in Processes : q # p => call'[q] = call[q]
    PROVE  RoomInv'
<1>1. Sized(p)'
  BY DEF RoomInv, Sized
<1>2. \A q \in Processes : q # p => Sized(q)'
  BY OthersSized DEF RoomInv
<1> QED
  BY <1>1, <1>2 DEF RoomInv, Alone

LEMMA RoomStep == Typed /\ StructInv /\ RoomInv /\ [Next]_vars => RoomInv'
<1> SUFFICES ASSUME Typed, StructInv, RoomInv, [Next]_vars PROVE RoomInv'
  OBVIOUS
<1>1. /\ SystemTyped /\ NoCall.at = "idle"
      /\ NULL \notin Files /\ NULL \notin Addresses
  BY PagingAssumption DEF Typed, NoCall, PagingAssumption
<1>2. CASE UNCHANGED vars
  BY <1>2 DEF vars, pfVars, systemVars, RoomInv, Alone, Sized
<1>3. ASSUME NEW p \in Processes, NEW f \in Files, NEW size \in Sizes, NEW force \in BOOLEAN,
             CreateFile(p, f, size, force)
      PROVE  RoomInv'
  <2> DEFINE c == [at |-> "section", file |-> f, size |-> size,
                   exact |-> force \/ fileSize[f] \in {0, size}]
  <2>1. /\ IsClosed(p) /\ \A q \in Processes : f \notin opened[q]
        /\ fileSize' = [fileSize EXCEPT ![f] = IF Resizes(f, size, force) THEN size ELSE @]
        /\ opened' = [opened EXCEPT ![p] = @ \cup {f}]
        /\ call' = [call EXCEPT ![p] = c]
        /\ UNCHANGED <<pf, exact, section>>
    BY <1>3 DEF CreateFile
  <2>2. /\ fileSize'[f] = IF Resizes(f, size, force) THEN size ELSE fileSize[f]
        /\ \A g \in Files : g # f => fileSize'[g] = fileSize[g]
        /\ opened'[p] = opened[p] \cup {f}
        /\ \A q \in Processes : q # p => opened'[q] = opened[q] /\ call'[q] = call[q]
        /\ call'[p] = c
    BY <1>1, <2>1 DEF SystemTyped
  <2>3. c.at = "section" /\ c.file = f /\ c.size = size
        /\ c.exact = (force \/ fileSize[f] \in {0, size})
    OBVIOUS
  <2> HIDE DEF c
  <2>4. c.exact => fileSize'[f] = size
    BY <2>2, <2>3 DEF Resizes
  <2>5. Sized(p)
    BY DEF RoomInv
  <2>6. Sized(p)'
    BY <2>1, <2>2, <2>3, <2>4, <2>5 DEF Sized, IsClosed
  <2>7. ASSUME NEW q \in Processes, q # p PROVE Sized(q)'
    <3>1. ASSUME call[q].at = "section" PROVE fileSize'[call[q].file] = fileSize[call[q].file]
      <4>1. call[q].file \in Files /\ call[q].file \in opened[q]
        BY <1>1, <3>1, CreatesFile DEF StructInv, Struct
      <4> QED
        BY <2>1, <2>2, <4>1
    <3> QED
      BY <2>1, <2>2, <2>7, <3>1, OthersSized DEF RoomInv
  <2>8. Alone'
    BY <2>1, <2>2 DEF RoomInv, Alone
  <2> QED
    BY <2>6, <2>7, <2>8 DEF RoomInv
<1>4. ASSUME NEW p \in Processes, CreateSection(p) PROVE RoomInv'
  <2>1. call[p] \in [at : {"section"}, file : Files, size : Sizes, exact : BOOLEAN]
    BY <1>1, <1>4, CreatesFile DEF CreateSection
  <2> DEFINE f == call[p].file
  <2>2. /\ call[p].at = "section" /\ f \in Files /\ fileSize[f] # 0
        /\ section' = [section EXCEPT ![f] = IF @ = 0 THEN fileSize[f] ELSE @]
        /\ pf' = [pf EXCEPT ![p] = [@ EXCEPT !.fileH = f, !.fileBSize = call[p].size,
                                             !.mapH = f, !.isReadOnly = FALSE]]
        /\ exact' = [exact EXCEPT ![p] = call[p].exact /\ section[f] = 0]
        /\ call' = [call EXCEPT ![p] = NoCall]
        /\ UNCHANGED <<opened, fileSize>>
    BY <1>4, <2>1 DEF CreateSection
  <2>3. /\ call'[p] = NoCall /\ exact'[p] = (call[p].exact /\ section[f] = 0)
        /\ pf'[p].fileBSize = call[p].size /\ pf'[p].mapH = f
        /\ pf'[p].mapAddr = pf[p].mapAddr
    BY <1>1, <2>2 DEF SystemTyped, PFs
  <2>4. /\ section'[f] = IF section[f] = 0 THEN fileSize[f] ELSE section[f]
        /\ \A g \in Files : section[g] # 0 => section'[g] = section[g]
    BY <1>1, <2>2 DEF SystemTyped
  <2>5. Sized(p) /\ pf[p].mapAddr = NULL
    BY <2>2 DEF StructInv, Struct, IsClosed, RoomInv, Sized
  <2>6. Sized(p)'
    <3>1. exact'[p] => section'[f] = call[p].size /\ section'[f] # 0
      BY <2>2, <2>3, <2>4, <2>5 DEF Sized
    <3> HIDE DEF f
    <3> QED
      BY <1>1, <2>3, <2>5, <3>1 DEF Sized
  <2>7. ASSUME NEW q \in Processes, q # p PROVE Sized(q)'
    <3>1. /\ call'[q] = call[q] /\ pf'[q] = pf[q] /\ exact'[q] = exact[q]
          /\ pf[q].mapH \in Files \cup {NULL}
      BY <1>1, <2>2, <2>7 DEF SystemTyped, PFs
    <3> QED
      BY <2>2, <2>4, <3>1, OthersSized DEF RoomInv
  <2> QED
    BY <2>2, <2>6, <2>7 DEF RoomInv, Alone
<1>5. ASSUME NEW p \in Processes, CreateFails(p) PROVE RoomInv'
  <2>1. /\ call'[p] = NoCall /\ opened'[p] \subseteq opened[p]
        /\ UNCHANGED <<pf, exact, fileSize, section>>
        /\ \A q \in Processes : q # p => call'[q] = call[q] /\ opened'[q] = opened[q]
    BY <1>1, <1>5 DEF CreateFails, SystemTyped
  <2>2. Sized(p)'
    BY <1>1, <2>1 DEF RoomInv, Sized
  <2>3. \A q \in Processes : q # p => Sized(q)'
    BY <2>1, OthersSized DEF RoomInv
  <2> QED
    BY <2>1, <2>2, <2>3 DEF RoomInv, Alone
<1>6. ASSUME NEW p \in Processes, NEW f \in Files, NEW readOnly \in BOOLEAN,
             Open(p, f, readOnly)
      PROVE  RoomInv'
  <2>1. /\ call[p] = NoCall /\ IsClosed(p)
        /\ pf' = [pf EXCEPT ![p] = [@ EXCEPT !.fileH = NULL, !.fileBSize = 0,
                                             !.mapH = f, !.isReadOnly = readOnly]]
        /\ exact' = [exact EXCEPT ![p] = FALSE]
        /\ UNCHANGED <<call, opened, fileSize, section>>
    BY <1>6 DEF Open, Idle
  <2>2. exact'[p] = FALSE /\ pf'[p].mapH = f
    BY <1>1, <2>1 DEF SystemTyped, PFs
  <2>3. Sized(p)'
    BY <1>1, <2>1, <2>2 DEF Sized
  <2>4. \A q \in Processes : q # p => pf'[q] = pf[q] /\ exact'[q] = exact[q]
    BY <1>1, <2>1 DEF SystemTyped
  <2>5. \A q \in Processes : q # p => Sized(q)'
    BY <2>1, <2>4, OthersSized DEF RoomInv
  <2> QED
    BY <2>1, <2>3, <2>5 DEF RoomInv, Alone
<1>7. ASSUME NEW p \in Processes, Map(p) PROVE RoomInv'
  <2>1. PICK a \in Addresses :
          pf' = [pf EXCEPT ![p] = [@ EXCEPT !.mapAddr = a, !.mapBSize = section[pf[p].mapH]]]
    BY <1>7 DEF Map
  <2>2. call[p] = NoCall /\ pf[p].mapH # NULL
        /\ UNCHANGED <<call, exact, opened, fileSize, section>>
    BY <1>7 DEF Map, Idle
  <2>3. /\ pf'[p].mapH = pf[p].mapH /\ pf'[p].fileBSize = pf[p].fileBSize
        /\ pf'[p].mapBSize = section[pf[p].mapH]
    BY <1>1, <2>1 DEF SystemTyped, PFs
  <2>4. Sized(p)'
    BY <1>1, <2>2, <2>3 DEF RoomInv, Sized
  <2>5. \A q \in Processes : q # p => pf'[q] = pf[q]
    BY <1>1, <2>1 DEF SystemTyped
  <2>6. \A q \in Processes : q # p => Sized(q)'
    BY <2>2, <2>5, OthersSized DEF RoomInv
  <2> QED
    BY <2>2, <2>4, <2>6 DEF RoomInv, Alone
<1>8. ASSUME NEW p \in Processes, Flush(p) \/ Unmap(p) \/ Close(p) PROVE RoomInv'
  <2>1. PICK next \in {"idle", "unmap", "closeView"} : Begin(p, next)
    BY <1>8 DEF Flush, Unmap, Close
  <2> DEFINE c == [at |-> IF pf[p].isReadOnly THEN next ELSE "flushView",
                   next |-> next, since |-> memory[pf[p].mapH]]
  <2>2. /\ call'[p] = c
        /\ \A q \in Processes : q # p => call'[q] = call[q]
        /\ UNCHANGED <<pf, exact, opened, fileSize, section>>
    BY <1>1, <2>1 DEF Begin, SystemTyped, systemVars
  <2>3. c.at \notin {"section", "closeMap"}
    OBVIOUS
  <2> HIDE DEF c
  <2> QED
    BY <2>2, <2>3, InCall
<1>9. ASSUME NEW p \in Processes, FlushView(p) \/ FlushFile(p) PROVE RoomInv'
  <2>1. call[p].at \in {"flushView", "flushFile"} /\ call[p].at \in Steps
    BY <1>9 DEF FlushView, FlushFile, Steps
  <2>2. call[p].next \in {"idle", "unmap", "closeView"}
    BY <1>1, <2>1 DEF SystemTyped, Calls, Steps, NoCall
  <2>3. PICK next \in {"idle", "unmap", "closeView", "flushFile"} : Proceed(p, next)
    BY <1>9, <2>2 DEF FlushView, FlushFile
  <2>4. /\ call'[p].at \notin {"section", "closeMap"}
        /\ \A q \in Processes : q # p => call'[q] = call[q]
    BY <1>1, <2>1, <2>3, ProceedTyped DEF Steps
  <2>5. UNCHANGED <<pf, exact, opened, fileSize, section>>
    BY <1>9 DEF FlushView, FlushFile, systemVars
  <2> QED
    BY <2>4, <2>5, InCall
<1>10. ASSUME NEW p \in Processes, UnmapView(p) PROVE RoomInv'
  <2>1. call[p].at \in Steps
    BY <1>10 DEF UnmapView, Steps
  <2>2. PICK next \in {"idle", "closeMap"} : Proceed(p, next)
    BY <1>10 DEF UnmapView
  <2>3. call'[p].at # "section" /\ \A q \in Processes : q # p => call'[q] = call[q]
    BY <1>1, <2>1, <2>2, ProceedTyped DEF Steps
  <2>4. /\ section' = LeftOver(handles, views')
        /\ pf' = [pf EXCEPT ![p] = [@ EXCEPT !.mapAddr = NULL]]
        /\ UNCHANGED <<exact, opened, fileSize>>
    BY <1>10 DEF UnmapView
  <2>5. /\ pf'[p].mapH = pf[p].mapH /\ pf'[p].mapAddr = NULL
        /\ pf'[p].fileBSize = pf[p].fileBSize
        /\ \A q \in Processes : q # p => pf'[q] = pf[q]
    BY <1>1, <2>4 DEF SystemTyped, PFs
  <2>6. ASSUME NEW q \in Processes, pf[q].mapH # NULL
        PROVE  section'[pf[q].mapH] = section[pf[q].mapH]
    <3>1. pf[q].mapH \in Files /\ pf[q].mapH \in handles[q]
      BY <1>1, <2>6 DEF StructInv, Struct, SystemTyped, PFs
    <3> QED
      BY <2>4, <3>1, HeldIsLeft
  <2>7. Sized(p)'
    BY <2>3, <2>4, <2>5, <2>6 DEF RoomInv, Sized
  <2>8. \A q \in Processes : q # p => Sized(q)'
    BY <2>3, <2>4, <2>5, <2>6, OthersSized DEF RoomInv
  <2> QED
    BY <2>4, <2>7, <2>8 DEF RoomInv, Alone
<1>11. ASSUME NEW p \in Processes, CloseMap(p) PROVE RoomInv'
  <2>1. call[p].at = "closeMap" /\ call[p].at \in Steps
    BY <1>11 DEF CloseMap, Steps
  <2>2. call'[p].at = "closeFile" /\ \A q \in Processes : q # p => call'[q] = call[q]
    BY <1>1, <1>11, <2>1, ProceedTyped DEF CloseMap, Steps
  <2>3. /\ handles' = [handles EXCEPT ![p] = @ \ {pf[p].mapH}]
        /\ section' = LeftOver(handles', views)
        /\ pf' = [pf EXCEPT ![p] = [@ EXCEPT !.mapH = NULL]]
        /\ UNCHANGED <<exact, opened, fileSize>>
    BY <1>11 DEF CloseMap
  <2>4. /\ pf'[p].mapH = NULL /\ pf'[p].mapAddr = pf[p].mapAddr
        /\ \A q \in Processes : q # p => pf'[q] = pf[q] /\ handles'[q] = handles[q]
    BY <1>1, <2>3 DEF SystemTyped, PFs
  <2>5. ASSUME NEW q \in Processes, q # p, pf[q].mapH # NULL
        PROVE  section'[pf[q].mapH] = section[pf[q].mapH]
    <3>1. pf[q].mapH \in Files /\ pf[q].mapH \in handles'[q]
      BY <1>1, <2>4, <2>5 DEF StructInv, Struct, SystemTyped, PFs
    <3>2. section' = LeftOver(handles', views)
      BY <2>3
    <3> QED
      BY <3>1, <3>2, HeldIsLeft
  <2>6. Sized(p)'
    BY <2>1, <2>2, <2>3, <2>4 DEF RoomInv, Sized
  <2>7. \A q \in Processes : q # p => Sized(q)'
    BY <2>2, <2>3, <2>4, <2>5, OthersSized DEF RoomInv
  <2> QED
    BY <2>3, <2>6, <2>7 DEF RoomInv, Alone
<1>12. ASSUME NEW p \in Processes, CloseFile(p) PROVE RoomInv'
  <2>1. call[p].at \in Steps
    BY <1>12 DEF CloseFile, Steps
  <2>2. call'[p].at = "idle" /\ \A q \in Processes : q # p => call'[q] = call[q]
    BY <1>1, <1>12, <2>1, ProceedTyped DEF CloseFile
  <2>3. /\ opened' = [opened EXCEPT ![p] = @ \ {pf[p].fileH}]
        /\ pf' = [pf EXCEPT ![p] = [@ EXCEPT !.fileH = NULL]]
        /\ UNCHANGED <<exact, fileSize, section>>
    BY <1>12 DEF CloseFile
  <2>4. /\ opened'[p] \subseteq opened[p]
        /\ pf'[p].mapH = pf[p].mapH /\ pf'[p].mapAddr = pf[p].mapAddr
        /\ pf'[p].fileBSize = pf[p].fileBSize /\ pf'[p].mapBSize = pf[p].mapBSize
        /\ \A q \in Processes : q # p => pf'[q] = pf[q] /\ opened'[q] = opened[q]
    BY <1>1, <2>3 DEF SystemTyped, PFs
  <2>5. Sized(p)'
    BY <2>2, <2>3, <2>4 DEF RoomInv, Sized
  <2>6. \A q \in Processes : q # p => Sized(q)'
    BY <2>2, <2>3, <2>4, OthersSized DEF RoomInv
  <2> QED
    BY <2>4, <2>5, <2>6 DEF RoomInv, Alone
<1>13. ASSUME NEW p \in Processes, NEW f \in Files, Store(p, f) PROVE RoomInv'
  BY <1>13 DEF Store, pfVars, systemVars, RoomInv, Alone, Sized
<1>14. ASSUME NEW f \in Files, WriteBack(f) PROVE RoomInv'
  BY <1>14 DEF WriteBack, pfVars, systemVars, RoomInv, Alone, Sized
<1>15. ASSUME NEW ps \in SUBSET Processes, Ended(ps) PROVE RoomInv'
  <2>1. ASSUME NEW q \in Processes, q \in ps PROVE Sized(q)'
    <3>1. pf'[q] = Closed /\ call'[q] = NoCall /\ exact'[q] = FALSE
      BY <1>15, <2>1 DEF Ended
    <3> QED
      BY <1>1, <3>1 DEF Sized, Closed
  <2>2. ASSUME NEW q \in Processes, q \notin ps PROVE Sized(q)'
    <3>1. /\ call'[q] = call[q] /\ pf'[q] = pf[q] /\ exact'[q] = exact[q]
          /\ handles'[q] = handles[q] /\ fileSize' = fileSize
          /\ section' = LeftOver(handles', views')
      BY <1>15, <2>2 DEF Ended
    <3>2. ASSUME pf[q].mapH # NULL PROVE section'[pf[q].mapH] = section[pf[q].mapH]
      <4>1. pf[q].mapH \in Files /\ pf[q].mapH \in handles'[q]
        BY <1>1, <3>1, <3>2 DEF StructInv, Struct, SystemTyped, PFs
      <4> QED
        BY <3>1, <4>1, HeldIsLeft
    <3> QED
      BY <3>1, <3>2, OthersSized DEF RoomInv
  <2>3. Alone'
    <3>1. \A q \in Processes : opened'[q] \subseteq opened[q]
      BY <1>15 DEF Ended
    <3> QED
      BY <3>1 DEF RoomInv, Alone
  <2> QED
    BY <2>1, <2>2, <2>3 DEF RoomInv
<1>16. ASSUME NEW p \in Processes, Exit(p) PROVE RoomInv'
  BY <1>15, <1>16 DEF Exit
<1>17. CASE PowerFail
  BY <1>15, <1>17 DEF PowerFail
<1> QED
  BY <1>2, <1>3, <1>4, <1>5, <1>6, <1>7, <1>8, <1>9, <1>10, <1>11, <1>12, <1>13, <1>14,
     <1>16, <1>17 DEF Next

(* For any processes, files and sizes: who created a file with the size it   *)
(* gave, and found no mapping that was there before, maps as much as it      *)
(* asked for (createPagingFile, mapPagingFile), however others create, open, *)
(* close and end meanwhile.                                                  *)
THEOREM MappedAsCreated == Spec => []RoomAsCreated
<1>1. Init => RoomInv
  <2>1. ASSUME Init PROVE Alone
    BY <2>1 DEF Init, Alone
  <2>2. ASSUME Init, NEW p \in Processes PROVE Sized(p)
    <3>1. pf[p] = Closed /\ call[p] = NoCall /\ exact[p] = FALSE
      BY <2>2 DEF Init
    <3> QED
      BY <3>1 DEF Sized, Closed, NoCall
  <2> QED
    BY <2>1, <2>2 DEF RoomInv
<1>2. Typed /\ StructInv /\ RoomInv /\ [Next]_vars => RoomInv'
  BY RoomStep
<1>3. RoomInv => RoomAsCreated
  BY DEF RoomInv, Sized, RoomAsCreated
<1> QED
  BY <1>1, <1>2, <1>3, Structs, Types, PTL DEF Spec
=============================================================================
