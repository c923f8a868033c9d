---------------------------- MODULE ConvertMenu ----------------------------
(***************************************************************************)
(* updateMenuConvert.c: appends the breakpoint tables loaded so far to     *)
(* menuConvert, the menu of the field LINR.                                *)
(***************************************************************************)
EXTENDS IocLifecycle, FiniteSets

CONSTANTS
  InitialConvert,   \* values of the choices in menuConvert.dbd
  Tables            \* names of breakpoint tables a startup script may load

ASSUME ConvertAssumption ==
  /\ InitialConvert \in Seq(STRING) /\ Tables \subseteq STRING
  /\ \A i, j \in 1..Len(InitialConvert) : InitialConvert[i] = InitialConvert[j] => i = j

VARIABLES
  bptList,         \* pdbbase->bptList: names of the loaded tables
  menuConvert,     \* the values of the choices, choice i at i + 1
  updated          \* history: the tables loaded when updateMenuConvert last ran

convertVars == <<bptList, menuConvert, updated>>

ConvertInit == bptList = <<>> /\ menuConvert = InitialConvert /\ updated = {}

Elements(s) == {s[i] : i \in 1..Len(s)}

\* dbLoadDatabase keeps the list sorted by name and refuses a table that is
\* loaded already (external).  A position stands for the order of names.
LoadTable ==
  /\ ~interruptAccept
  /\ \E t \in Tables \ Elements(bptList), k \in 0..Len(bptList) :
       bptList' = SubSeq(bptList, 1, k) \o <<t>> \o SubSeq(bptList, k + 1, Len(bptList))
  /\ UNCHANGED <<menuConvert, updated>>

\* The list missing after the loop over bptList
Missing ==
  LET found(t) == \E i \in 1..Len(menuConvert) : menuConvert[i] = t
      missing[k \in 0..Len(bptList)] ==
        IF k = 0 THEN <<>>
        ELSE IF found(bptList[k]) THEN missing[k - 1] ELSE Append(missing[k - 1], bptList[k])
  IN  missing[Len(bptList)]

\* Mutant: the missing tables are put in front of the menu.
UpdateInFront ==
  /\ ~interruptAccept
  /\ menuConvert' = Missing \o menuConvert
  /\ updated' = Elements(bptList)
  /\ UNCHANGED bptList

\* Mutant: a menu that has been changed before is taken for complete.
UpdateOnce ==
  /\ ~interruptAccept
  /\ menuConvert' = IF menuConvert = InitialConvert THEN menuConvert \o Missing ELSE menuConvert
  /\ updated' = Elements(bptList)
  /\ UNCHANGED bptList

UpdateMenuConvert ==
  /\ ~interruptAccept
  /\ menuConvert' = menuConvert \o Missing
  /\ updated' = Elements(bptList)
  /\ UNCHANGED bptList

ConvertNext == LoadTable \/ UpdateMenuConvert

-----------------------------------------------------------------------------
ConvertTypeOK ==
  /\ bptList \in Seq(Tables)
  /\ menuConvert \in Seq(STRING)
  /\ updated \subseteq Tables

\* After updateMenuConvert, however often it is called between loads, every
\* table that was loaded then is selectable under exactly one choice, and it
\* stays so.  A call that changes nothing is judged like any other.
TablesSelectable ==
  \A t \in updated :
    Cardinality({i \in 1..Len(menuConvert) : menuConvert[i] = t}) = 1
=============================================================================
