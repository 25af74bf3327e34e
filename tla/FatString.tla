----------------------------- MODULE FatString -----------------------------
(***************************************************************************)
(* The strings of the fat model: elements of a type chosen by the length   *)
(* of the text, which never change and are looked up by their text without *)
(* regard to case.  Nothing keeps a caller from allocating a text twice.   *)
(***************************************************************************)
EXTENDS FatZone

CONSTANTS
    Texts,    \* BOUND: the texts that are used
    ClassOf,  \* the type for a text of its length
    Folded,   \* _stricmp: the text in lower case
    NoText    \* what an element that is not in use holds

ASSUME StringAssumption ==
    /\ ClassOf \in [Texts -> Types \ Sized]
    /\ Folded \in [Texts -> Texts]
    /\ \A x \in Texts : ClassOf[Folded[x]] = ClassOf[x] /\ Folded[Folded[x]] = Folded[x]
    /\ NoText \notin Texts

VARIABLE strings    \* the text of the element at each reference

StringInit == strings = [r \in Refs |-> NoText]

StringAlloc(x, new) ==
    /\ RefAlloc(ClassOf[x], EditBSize[ClassOf[x]], new)
    /\ strings' = [strings EXCEPT ![new] = x]

Twins(x) ==
    {r \in Refs :
        /\ Allocated(r) /\ TypeOf(r) = ClassOf[x]
        /\ Folded[strings[r]] = Folded[x]}

(* fm_stringFind: the first one in the order of the pages, whatever version
   it was allocated in. *)
StringFind(x) == IF Twins(x) = {} THEN BadRef ELSE Min(Twins(x))

StringNext == \E x \in Texts, new \in Refs : StringAlloc(x, new)

-----------------------------------------------------------------------------
(* Properties *)

StringTypeOK == strings \in [Refs -> Texts \cup {NoText}]

(* A caller that looks a text up before it allocates it gets the same
   reference ever after: twins that are allocated later lie behind it, as
   long as it is not given back and nobody sets the search back before it. *)
FoundStays ==
    [][\A x \in Texts, r \in Refs :
          r = StringFind(x) /\ r <= lastRefs[ClassOf[x]] /\ Allocated(r)'
          => StringFind(x)' = r]_<<zoneVars, strings>>
=============================================================================
