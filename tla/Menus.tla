------------------------------- MODULE Menus -------------------------------
(***************************************************************************)
(* A startup script that changes menuScan and menuConvert and loads        *)
(* records in any order.  dbLoadRecords stores the SCAN and LINR of a      *)
(* record as the number of the choice at that time.  In iocInit the hook   *)
(* setMaxArrayBytes looks at the records that have been loaded.            *)
(***************************************************************************)
EXTENDS ScanMenu, ConvertMenu, ArrayBytes

NotLoaded == -1

VARIABLES
  scan, linr,     \* record -> the number of its choice
  table           \* history: what LINR was when the record was loaded

recordVars == <<scan, linr, table>>
vars == <<iocVars, scanVars, convertVars, arrayVars, recordVars>>

Loaded == {r \in Records : scan[r] # NotLoaded}

Init ==
  /\ IocInit
  /\ ScanInit
  /\ ConvertInit
  /\ ArrayInit
  /\ scan = [r \in Records |-> NotLoaded]
  /\ linr = [r \in Records |-> NotLoaded]
  /\ table = [r \in Records |-> ""]

\* External: dbLoadRecords of a record with given SCAN and LINR
LoadRecord(r) ==
  /\ iocState = "void"
  /\ scan[r] = NotLoaded
  /\ \E i \in Periodic, k \in 1..Len(menuConvert) :
       /\ scan' = [scan EXCEPT ![r] = i]
       /\ linr' = [linr EXCEPT ![r] = k - 1]
       /\ table' = [table EXCEPT ![r] = menuConvert[k]]
  /\ UNCHANGED <<iocVars, scanVars, convertVars, arrayVars>>

Lifecycle ==
  /\ \/ IocLifecycleCall /\ UNCHANGED arrayVars
     \/ \E s \in Stage : IocAnnounce(s) /\ SetMaxArrayBytes(s, Loaded)
  /\ UNCHANGED <<scanVars, convertVars, recordVars>>

Next ==
  \/ ScanNext /\ UNCHANGED <<iocVars, convertVars, arrayVars, recordVars>>
  \/ ConvertNext /\ UNCHANGED <<iocVars, scanVars, arrayVars, recordVars>>
  \/ \E r \in Records : LoadRecord(r)
  \/ Lifecycle

Spec == Init /\ [][Next]_vars

-----------------------------------------------------------------------------
TypeOK ==
  /\ IocTypeOK
  /\ ScanTypeOK
  /\ ConvertTypeOK
  /\ ArrayTypeOK
  /\ scan \in [Records -> Nat \cup {NotLoaded}]
  /\ linr \in [Records -> Nat \cup {NotLoaded}]

\* setMaxArrayBytes sees every record that clients can ask for, in time: the
\* CA server's limit is enough for all array fields of loaded records.
ArraysServed == ServerTakes(Loaded)

\* updateMenuConvert may be called after records have been loaded: the
\* number in LINR goes on naming the same breakpoint table.
RecordsKeepTable ==
  \A r \in Loaded : linr[r] < Len(menuConvert) /\ menuConvert[linr[r] + 1] = table[r]
=============================================================================
