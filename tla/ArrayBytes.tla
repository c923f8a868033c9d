----------------------------- MODULE ArrayBytes -----------------------------
(***************************************************************************)
(* setMaxArrayBytes.c and caFieldSize.c: during iocInit an init hook looks *)
(* at all array fields of the loaded records and raises                    *)
(* EPICS_CA_MAX_ARRAY_BYTES to what the largest of them needs, before the  *)
(* CA server reads it.                                                     *)
(***************************************************************************)
EXTENDS IocLifecycle, FiniteSetsExt

CONSTANTS
  Records,        \* records a startup script may load
  Arrays,         \* record -> its fields with DBF_NOACCESS and SPC_DBADDR
  CtrlSize, ValueSize,   \* db_access.h: bytes of DBR_CTRL_... and of a value
  InitialLimits   \* what envGetLongConfigParam may read at the start

\* Stages of initHooks.h, by number
AfterFinishDevSup == 8
AfterCaServerInit == 11

\* What cvt_dbaddr makes of a field; prset is false for a record type
\* without support.
ArrayField == [type : DOMAIN ValueSize, elements : Nat, prset : BOOLEAN]

ASSUME ArrayAssumption ==
  /\ Arrays \in [Records -> SUBSET ArrayField]
  /\ \A r \in Records : IsFiniteSet(Arrays[r])
  /\ CtrlSize \in [DOMAIN ValueSize -> Nat] /\ ValueSize \in [DOMAIN ValueSize -> Nat]
  /\ InitialLimits \subseteq Nat
  /\ IsFiniteSet(Records)
  /\ \A op \in LifecycleOp : \A k \in 1..Len(Agenda[op]) :
       Agenda[op][k].stage = AfterCaServerInit =>
         \E j \in 1..(k - 1) : Agenda[op][j].stage = AfterFinishDevSup

VARIABLES
  maxArrayBytes,    \* EPICS_CA_MAX_ARRAY_BYTES as a long: the default if it
                    \* is not set, 0 if it is no number
  serverBytes       \* what the CA server has read, 0 before

arrayVars == <<maxArrayBytes, serverBytes>>

ArrayInit == maxArrayBytes \in InitialLimits /\ serverBytes = 0

\* dbr_size_n of the CTRL type, and 4 bytes
CaFieldSize(f) ==
  CtrlSize[f.type] + (IF f.elements = 0 THEN 0 ELSE (f.elements - 1) * ValueSize[f.type]) + 4

Sizes(loaded) == {CaFieldSize(f) : f \in {g \in UNION {Arrays[r] : r \in loaded} : g.prset}}

\* Mutant: size, not maxNeeded, is used after the loops.
NeededLast(loaded) == IF Sizes(loaded) = {} THEN 0 ELSE CHOOSE size \in Sizes(loaded) : TRUE

\* maxNeeded after the loops over types, fields and records
Needed(loaded) == Max({0} \cup Sizes(loaded))

\* The function setMaxArrayBytes when `stage` is announced.  External: the
\* CA server starts between two announcements, the later of which is
\* AfterCaServerInit, and takes the limit the variable has then.
SetMaxArrayBytes(stage, loaded) ==
  /\ maxArrayBytes' = IF stage = AfterFinishDevSup /\ Needed(loaded) > maxArrayBytes
                      THEN Needed(loaded) ELSE maxArrayBytes
  /\ serverBytes' = IF stage = AfterCaServerInit THEN maxArrayBytes ELSE serverBytes

-----------------------------------------------------------------------------
ArrayTypeOK == maxArrayBytes \in Nat /\ serverBytes \in Nat

\* Once the CA server runs, the limit it has taken is enough for the largest
\* field of all records that are loaded, whatever was configured.
ServerTakes(loaded) ==
  serverBytes # 0 => \A size \in Sizes(loaded) : size <= serverBytes
=============================================================================
