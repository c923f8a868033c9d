----------------------------- MODULE MenusProofs -----------------------------
(***************************************************************************)
(* The menus for any rates, tables, records and array fields and startup   *)
(* scripts of any length.                                                  *)
(***************************************************************************)
EXTENDS Menus, Recursion, FiniteSetTheorems, SequenceTheorems

-----------------------------------------------------------------------------
(* menuScan: types.                                                        *)

ValueStr == {s \in Str : s.role = "value"}
NameStr == {s \in Str : s.role = "name"}

\* ScanTypeOK, with the arrays as functions
ScanTypes ==
  /\ nChoice \in Nat /\ nChoice >= SCAN_1ST_PERIODIC
  /\ \E m \in Nat : /\ nChoice <= m + 1
                    /\ papChoiceValue \in [0..m -> ValueStr]
                    /\ papChoiceName \in [0..m -> NameStr \cup {NULL}]
  /\ live \in SUBSET Str

\* NULL is no string.
LEMMA NullIsNoString == NULL \notin Str
BY ScanAssumption DEF NULL, Str

\* The types that the runs check follow.
LEMMA ScanTypeOKHolds == ScanTypes => ScanTypeOK
<1> SUFFICES ASSUME ScanTypes PROVE ScanTypeOK
  OBVIOUS
<1>1. PICK m \in Nat : /\ nChoice <= m + 1
                       /\ papChoiceValue \in [0..m -> ValueStr]
                       /\ papChoiceName \in [0..m -> NameStr \cup {NULL}]
  BY DEF ScanTypes
<1>2. \A i \in 0..m : papChoiceValue[i].role = "value"
  BY <1>1 DEF ValueStr
<1>3. \A i \in 0..m : papChoiceName[i] = NULL \/ papChoiceName[i].role = "name"
  BY <1>1 DEF NameStr
<1> QED BY <1>1, <1>2, <1>3 DEF ScanTypes, ScanTypeOK, SCAN_1ST_PERIODIC

\* The places of the menu that are in use hold strings.
LEMMA UsedPlaces ==
  ASSUME ScanTypes, NEW i \in 0..(nChoice - 1)
  PROVE  /\ papChoiceValue[i] \in Str /\ papChoiceValue[i].role = "value"
         /\ RateOf(i) \in Int
         /\ papChoiceName[i] = NULL \/ (papChoiceName[i] \in Str /\ papChoiceName[i].role = "name")
<1>1. PICK m \in Nat : /\ nChoice <= m + 1
                       /\ papChoiceValue \in [0..m -> ValueStr]
                       /\ papChoiceName \in [0..m -> NameStr \cup {NULL}]
  BY DEF ScanTypes
<1>2. i \in 0..m
  BY <1>1 DEF ScanTypes
<1>3. papChoiceValue[i] \in ValueStr /\ papChoiceName[i] \in NameStr \cup {NULL}
  BY <1>1, <1>2
<1>4. papChoiceValue[i] \in Str /\ papChoiceValue[i].number \in Int
  BY <1>3 DEF ValueStr, Str
<1>5. papChoiceValue[i].role = "value"
  BY <1>3 DEF ValueStr
<1>6. papChoiceName[i] = NULL \/ (papChoiceName[i] \in Str /\ papChoiceName[i].role = "name")
  <2>1. papChoiceName[i] \in NameStr => papChoiceName[i] \in Str /\ papChoiceName[i].role = "name"
    BY DEF NameStr
  <2>2. papChoiceName[i] \in NameStr \/ papChoiceName[i] = NULL
    BY <1>3
  <2> QED BY <2>1, <2>2
<1> QED BY <1>4, <1>5, <1>6 DEF RateOf

\* What addScan does to the menu
LEMMA AddChanges ==
  ASSUME ScanTypes, NEW arg \in Args, AddScan(arg)
  PROVE  \E i \in SCAN_1ST_PERIODIC..nChoice, p \in Str :
           /\ p.role = "value" /\ p.number = arg.kept /\ p \notin live
           /\ AddsAt(arg.scanned, i)
           /\ i < nChoice => ~Eq(RateOf(i), arg.scanned)
           /\ nChoice' = nChoice + 1
           /\ live' = live \cup {p}
           /\ papChoiceValue' \in [0..nChoice -> ValueStr]
           /\ papChoiceName' \in [0..nChoice -> NameStr \cup {NULL}]
           /\ \A j \in 0..nChoice :
                /\ papChoiceValue'[j] = IF j < i THEN papChoiceValue[j]
                                        ELSE IF j = i THEN p ELSE papChoiceValue[j - 1]
                /\ papChoiceName'[j] = IF j < i THEN papChoiceName[j]
                                       ELSE IF j = i THEN NULL ELSE papChoiceName[j - 1]
<1>1. PICK i \in SCAN_1ST_PERIODIC..nChoice, c \in 1..MaxChoices :
        LET q == [role |-> "value", number |-> arg.kept, copy |-> c] IN
        /\ IsFresh(q)
        /\ AddsAt(arg.scanned, i)
        /\ i < nChoice => ~Eq(RateOf(i), arg.scanned)
        /\ papChoiceValue' = Inserted(papChoiceValue, i, q)
        /\ papChoiceName' = Inserted(papChoiceName, i, NULL)
        /\ live' = live \cup {q}
  BY DEF AddScan
<1> DEFINE p == [role |-> "value", number |-> arg.kept, copy |-> c]
<1>2. arg.kept \in Int
  BY ScanAssumption DEF Arg
<1>3. p \in Str /\ p \in ValueStr /\ p.role = "value" /\ p.number = arg.kept
  BY <1>2 DEF Str, ValueStr
<1>4. /\ p \notin live
      /\ AddsAt(arg.scanned, i)
      /\ i < nChoice => ~Eq(RateOf(i), arg.scanned)
      /\ papChoiceValue' = Inserted(papChoiceValue, i, p)
      /\ papChoiceName' = Inserted(papChoiceName, i, NULL)
      /\ live' = live \cup {p}
  BY <1>1 DEF IsFresh
<1> HIDE DEF p
<1>5. nChoice \in Nat /\ i \in Nat /\ nChoice' = nChoice + 1
  BY DEF ScanTypes, AddScan, SCAN_1ST_PERIODIC
<1>6. \A j \in 0..nChoice :
        /\ papChoiceValue'[j] = IF j < i THEN papChoiceValue[j]
                                ELSE IF j = i THEN p ELSE papChoiceValue[j - 1]
        /\ papChoiceName'[j] = IF j < i THEN papChoiceName[j]
                               ELSE IF j = i THEN NULL ELSE papChoiceName[j - 1]
  BY <1>4 DEF Inserted
<1>7. \A j \in 0..nChoice : /\ j < i => j \in 0..(nChoice - 1)
                            /\ ~(j < i) /\ j # i => j - 1 \in 0..(nChoice - 1)
  BY <1>5
<1>8. \A j \in 0..(nChoice - 1) : /\ papChoiceValue[j] \in ValueStr
                                  /\ papChoiceName[j] \in NameStr \cup {NULL}
  BY UsedPlaces DEF ValueStr, NameStr
<1>9. \A j \in 0..nChoice : /\ papChoiceValue'[j] \in ValueStr
                            /\ papChoiceName'[j] \in NameStr \cup {NULL}
  BY <1>3, <1>6, <1>7, <1>8
<1>10. /\ papChoiceValue' = [j \in 0..nChoice |-> papChoiceValue'[j]]
       /\ papChoiceName' = [j \in 0..nChoice |-> papChoiceName'[j]]
  BY <1>4 DEF Inserted
<1>11. /\ papChoiceValue' \in [0..nChoice -> ValueStr]
       /\ papChoiceName' \in [0..nChoice -> NameStr \cup {NULL}]
  BY <1>9, <1>10
<1> QED BY <1>3, <1>4, <1>5, <1>6, <1>11

\* What rmScan does to the menu
LEMMA RemoveChanges ==
  ASSUME ScanTypes, NEW arg \in Args, RmScan(arg)
  PROVE  \E i \in Periodic :
           /\ Eq(RateOf(i), arg.scanned)
           /\ nChoice' = nChoice - 1
           /\ live' = live \ {papChoiceName[i], papChoiceValue[i]}
           /\ \A j \in 0..(nChoice - 2) :
                /\ papChoiceValue'[j] = IF j < i THEN papChoiceValue[j] ELSE papChoiceValue[j + 1]
                /\ papChoiceName'[j] = IF j < i THEN papChoiceName[j] ELSE papChoiceName[j + 1]
           /\ ScanTypes'
<1>1. PICK i \in Periodic :
        /\ Eq(RateOf(i), arg.scanned)
        /\ live' = live \ {papChoiceName[i], papChoiceValue[i]}
        /\ papChoiceName' = Removed(papChoiceName, i)
        /\ papChoiceValue' = Removed(papChoiceValue, i)
  BY DEF RmScan
<1>2. PICK m \in Nat : /\ nChoice <= m + 1
                       /\ papChoiceValue \in [0..m -> ValueStr]
                       /\ papChoiceName \in [0..m -> NameStr \cup {NULL}]
  BY DEF ScanTypes
<1>3. /\ nChoice \in Nat /\ nChoice' = nChoice - 1
      /\ i \in Nat /\ 3 <= i /\ i < nChoice /\ live \in SUBSET Str
  BY DEF ScanTypes, RmScan, Periodic, SCAN_1ST_PERIODIC
<1>4. /\ papChoiceValue' \in [0..m -> ValueStr]
      /\ papChoiceName' \in [0..m -> NameStr \cup {NULL}]
  <2>1. \A j \in 0..m : i <= j /\ j < nChoice - 1 => j + 1 \in 0..m
    BY <1>2, <1>3
  <2> QED BY <1>1, <1>2, <2>1 DEF Removed
<1>5. \A j \in 0..(nChoice - 2) :
        /\ papChoiceValue'[j] = IF j < i THEN papChoiceValue[j] ELSE papChoiceValue[j + 1]
        /\ papChoiceName'[j] = IF j < i THEN papChoiceName[j] ELSE papChoiceName[j + 1]
  <2>1. \A j \in 0..(nChoice - 2) : j \in 0..m /\ j < nChoice - 1
    BY <1>2, <1>3
  <2> QED BY <1>1, <1>2, <1>3, <2>1 DEF Removed
<1>6. ScanTypes'
  <2>1. nChoice' <= m + 1 /\ nChoice' \in Nat /\ nChoice' >= SCAN_1ST_PERIODIC /\ live' \in SUBSET Str
    BY <1>1, <1>2, <1>3 DEF SCAN_1ST_PERIODIC
  <2> QED BY <1>4, <2>1 DEF ScanTypes
<1> QED BY <1>1, <1>3, <1>5, <1>6

\* The types of the menu hold at the start ...
LEMMA ScanTypesInit == ScanInit => ScanTypes
<1> SUFFICES ASSUME ScanInit PROVE ScanTypes
  OBVIOUS
<1>1. /\ nChoice = 3 + Len(InitialRates) /\ Len(InitialRates) \in Nat
      /\ nChoice \in Nat /\ nChoice <= MaxChoices /\ MaxChoices \in Nat
  BY ScanAssumption DEF ScanInit, InitialChoices, SCAN_1ST_PERIODIC
<1>2. ASSUME NEW role \in {"name", "value"}, NEW i \in 0..(nChoice - 1)
      PROVE  InitialString(role, i) \in Str /\ InitialString(role, i).role = role
  <2>1. i < 3 => i + 1 \in 1..MaxChoices
    BY <1>1
  <2>2. ~(i < 3) => InitialRates[i - 3 + 1] \in Int
    <3>1. ~(i < 3) => i - 3 + 1 \in 1..Len(InitialRates)
      BY <1>1
    <3> QED BY <3>1, ScanAssumption
  <2>3. 1 \in 1..MaxChoices
    BY <1>1
  <2> QED BY <2>1, <2>2, <2>3 DEF InitialString, Str, SCAN_1ST_PERIODIC
<1>3. /\ papChoiceValue \in [0..(nChoice - 1) -> ValueStr]
      /\ papChoiceName \in [0..(nChoice - 1) -> NameStr \cup {NULL}]
      /\ live \in SUBSET Str
  BY <1>2 DEF ScanInit, ValueStr, NameStr
<1>4. nChoice - 1 \in Nat /\ nChoice >= SCAN_1ST_PERIODIC /\ nChoice <= (nChoice - 1) + 1
  BY <1>1 DEF SCAN_1ST_PERIODIC
<1> QED BY <1>1, <1>3, <1>4 DEF ScanTypes

\* ... and after every call.
LEMMA ScanTypesKept ==
  ASSUME ScanTypes, NEW arg \in Args, AddScan(arg) \/ RmScan(arg)
  PROVE  ScanTypes'
<1>1. CASE AddScan(arg)
  <2>1. PICK p \in Str :
          /\ nChoice' = nChoice + 1 /\ live' = live \cup {p}
          /\ papChoiceValue' \in [0..nChoice -> ValueStr]
          /\ papChoiceName' \in [0..nChoice -> NameStr \cup {NULL}]
    BY <1>1, AddChanges
  <2>2. nChoice \in Nat /\ nChoice' <= nChoice + 1 /\ nChoice' \in Nat /\ nChoice' >= SCAN_1ST_PERIODIC
    BY <2>1 DEF ScanTypes, SCAN_1ST_PERIODIC
  <2> QED BY <2>1, <2>2 DEF ScanTypes
<1>2. CASE RmScan(arg)
  BY <1>2, RemoveChanges
<1> QED BY <1>1, <1>2

-----------------------------------------------------------------------------
(* menuScan: the order.                                                    *)

\* The order holds at the start ...
LEMMA SortedInit == ScanInit => SortedDescending
<1> SUFFICES ASSUME ScanInit, NEW i \in Periodic, NEW j \in Periodic, i < j
             PROVE  RateOf(i) > RateOf(j)
  BY DEF SortedDescending
<1>1. /\ nChoice = 3 + Len(InitialRates) /\ Len(InitialRates) \in Nat
      /\ i \in 3..(nChoice - 1) /\ j \in 3..(nChoice - 1)
  BY ScanAssumption DEF ScanInit, InitialChoices, SCAN_1ST_PERIODIC, Periodic
<1>2. /\ i - 3 + 1 \in 1..Len(InitialRates) /\ j - 3 + 1 \in 1..Len(InitialRates)
      /\ i - 3 + 1 < j - 3 + 1 /\ i \in 0..(nChoice - 1) /\ j \in 0..(nChoice - 1)
  BY <1>1
<1>3. RateOf(i) = InitialRates[i - 3 + 1] /\ RateOf(j) = InitialRates[j - 3 + 1]
  BY <1>1, <1>2 DEF RateOf, ScanInit, InitialString, SCAN_1ST_PERIODIC
<1> QED BY <1>2, <1>3, ScanAssumption

\* ... addScan inserts where it belongs ...
LEMMA SortedByAdd ==
  ASSUME ScanTypes, SortedDescending, NEW arg \in Args, AddScan(arg)
  PROVE  SortedDescending'
<1> SUFFICES ASSUME \A k \in Periodic' : RateOf(k)' > 0
             PROVE  \A j, k \in Periodic' : j < k => RateOf(j)' > RateOf(k)'
  BY DEF SortedDescending
<1>1. PICK i \in SCAN_1ST_PERIODIC..nChoice, p \in Str :
        /\ p.number = arg.kept
        /\ AddsAt(arg.scanned, i)
        /\ i < nChoice => ~Eq(RateOf(i), arg.scanned)
        /\ nChoice' = nChoice + 1
        /\ \A j \in 0..nChoice :
             papChoiceValue'[j] = IF j < i THEN papChoiceValue[j]
                                  ELSE IF j = i THEN p ELSE papChoiceValue[j - 1]
  BY AddChanges
<1>2. /\ nChoice \in Nat /\ i \in Nat /\ 3 <= i /\ i <= nChoice
      /\ Periodic = 3..(nChoice - 1) /\ Periodic' = 3..nChoice
  BY <1>1 DEF ScanTypes, Periodic, SCAN_1ST_PERIODIC
<1>3. \A j \in 3..nChoice :
        RateOf(j)' = IF j < i THEN RateOf(j) ELSE IF j = i THEN arg.kept ELSE RateOf(j - 1)
  BY <1>1, <1>2 DEF RateOf
<1>4. \A j \in 3..(nChoice - 1) : RateOf(j) \in Int /\ RateOf(j) > 0
  <2> TAKE j \in 3..(nChoice - 1)
  <2>1. j \in 0..(nChoice - 1) /\ j \in 3..nChoice /\ j + 1 \in 3..nChoice
    BY <1>2
  <2>2. RateOf(j) \in Int
    BY <2>1, UsedPlaces
  <2>3. j < i => RateOf(j)' = RateOf(j)
    BY <1>3, <2>1
  <2>4. ~(j < i) => RateOf(j + 1)' = RateOf(j)
    BY <1>2, <1>3, <2>1
  <2> QED BY <1>2, <2>1, <2>2, <2>3, <2>4
<1>5. arg.kept = arg.scanned /\ arg.scanned \in Int /\ arg.scanned > 0
  <2>1. arg.scanned # NoNumber /\ arg.scanned \in Int /\ arg.kept \in {arg.scanned, 0}
    BY ScanAssumption DEF AddScan, IsRate, Arg
  <2>2. arg.kept > 0
    BY <1>2, <1>3
  <2> QED BY <2>1, <2>2
<1>6. \A j \in 3..(i - 1) : RateOf(j) > arg.scanned
  <2> TAKE j \in 3..(i - 1)
  <2>1. ~Eq(RateOf(j), arg.scanned) /\ ~Less(RateOf(j), arg.scanned)
    BY <1>1 DEF AddsAt, SCAN_1ST_PERIODIC
  <2>2. RateOf(j) \in Int /\ RateOf(j) > 0
    BY <1>2, <1>4
  <2> QED BY <1>5, <2>1, <2>2 DEF Eq, Less, NaN
<1>7. \A j, k \in 3..(nChoice - 1) : j < k => RateOf(j) > RateOf(k)
  BY <1>2, <1>4 DEF SortedDescending
<1>8. \A j \in i..(nChoice - 1) : arg.scanned > RateOf(j)
  <2> TAKE j \in i..(nChoice - 1)
  <2>1. i < nChoice /\ i \in 3..(nChoice - 1) /\ j \in 3..(nChoice - 1)
    BY <1>2
  <2>2. Less(RateOf(i), arg.scanned)
    BY <1>1, <2>1 DEF AddsAt
  <2>3. RateOf(i) < arg.scanned /\ RateOf(i) \in Int /\ RateOf(j) \in Int
    BY <1>4, <2>1, <2>2 DEF Less
  <2> QED BY <1>5, <1>7, <2>1, <2>3
<1>9. ASSUME NEW j \in 3..nChoice, NEW k \in 3..nChoice, j < k
      PROVE  RateOf(j)' > RateOf(k)'
  <2>1. /\ j < i => j \in 3..(i - 1) /\ j \in 3..(nChoice - 1)
        /\ j > i => j - 1 \in 3..(nChoice - 1) /\ j - 1 \in i..(nChoice - 1)
        /\ k < i => k \in 3..(i - 1) /\ k \in 3..(nChoice - 1)
        /\ k > i => k - 1 \in 3..(nChoice - 1) /\ k - 1 \in i..(nChoice - 1)
    BY <1>2
  <2>2. CASE j < i /\ k < i
    BY <1>3, <1>7, <1>9, <2>1, <2>2
  <2>3. CASE j < i /\ k = i
    BY <1>2, <1>3, <1>5, <1>6, <2>1, <2>3
  <2>4. CASE j < i /\ k > i
    <3>1. RateOf(j)' = RateOf(j) /\ RateOf(k)' = RateOf(k - 1)
      BY <1>2, <1>3, <2>4
    <3>2. RateOf(j) > arg.scanned /\ arg.scanned > RateOf(k - 1)
      BY <1>6, <1>8, <2>1, <2>4
    <3> QED BY <1>4, <1>5, <2>1, <2>4, <3>1, <3>2
  <2>5. CASE j = i /\ k > i
    BY <1>2, <1>3, <1>5, <1>8, <2>1, <2>5
  <2>6. CASE j > i /\ k > i
    <3>1. RateOf(j)' = RateOf(j - 1) /\ RateOf(k)' = RateOf(k - 1) /\ j - 1 < k - 1
      BY <1>2, <1>3, <1>9, <2>6
    <3> QED BY <1>7, <2>1, <2>6, <3>1
  <2> QED BY <1>2, <1>9, <2>2, <2>3, <2>4, <2>5, <2>6
<1> QED BY <1>2, <1>9

\* ... and rmScan closes the gap.
LEMMA SortedByRemove ==
  ASSUME ScanTypes, SortedDescending, NEW arg \in Args, RmScan(arg)
  PROVE  SortedDescending'
<1> SUFFICES ASSUME \A k \in Periodic' : RateOf(k)' > 0
             PROVE  \A j, k \in Periodic' : j < k => RateOf(j)' > RateOf(k)'
  BY DEF SortedDescending
<1>1. PICK i \in Periodic :
        /\ Eq(RateOf(i), arg.scanned)
        /\ nChoice' = nChoice - 1
        /\ \A j \in 0..(nChoice - 2) :
             papChoiceValue'[j] = IF j < i THEN papChoiceValue[j] ELSE papChoiceValue[j + 1]
  BY RemoveChanges
<1>2. /\ nChoice \in Nat /\ i \in Nat /\ 3 <= i /\ i < nChoice
      /\ Periodic = 3..(nChoice - 1) /\ Periodic' = 3..(nChoice - 2)
  BY <1>1 DEF ScanTypes, Periodic, SCAN_1ST_PERIODIC
<1>3. \A j \in 3..(nChoice - 2) : RateOf(j)' = IF j < i THEN RateOf(j) ELSE RateOf(j + 1)
  BY <1>1, <1>2 DEF RateOf
<1>4. arg.scanned \in Int /\ arg.scanned > 0 /\ RateOf(i) = arg.scanned
  <2>1. arg.scanned \in Int /\ IsRate(arg)
    BY ScanAssumption DEF RmScan, Arg
  <2> QED BY <1>1, <2>1 DEF IsRate, Eq
<1>5. \A j \in 3..(nChoice - 1) : RateOf(j) > 0
  <2> TAKE j \in 3..(nChoice - 1)
  <2>1. j < i => j \in 3..(nChoice - 2)
    BY <1>2
  <2>2. j > i => j - 1 \in 3..(nChoice - 2) /\ ~(j - 1 < i) /\ (j - 1) + 1 = j
    BY <1>2
  <2>3. j < i => RateOf(j) > 0
    BY <1>2, <1>3, <2>1
  <2>4. j > i => RateOf(j) > 0
    BY <1>2, <1>3, <2>2
  <2> QED BY <1>2, <1>4, <2>3, <2>4
<1>6. \A j, k \in 3..(nChoice - 1) : j < k => RateOf(j) > RateOf(k)
  BY <1>2, <1>5 DEF SortedDescending
<1>7. ASSUME NEW j \in 3..(nChoice - 2), NEW k \in 3..(nChoice - 2), j < k
      PROVE  RateOf(j)' > RateOf(k)'
  <2>1. /\ j \in 3..(nChoice - 1) /\ j + 1 \in 3..(nChoice - 1)
        /\ k \in 3..(nChoice - 1) /\ k + 1 \in 3..(nChoice - 1)
        /\ j + 1 < k + 1 /\ j < k + 1 /\ (j >= i => k >= i)
    BY <1>2, <1>7
  <2> QED BY <1>2, <1>3, <1>6, <1>7, <2>1
<1> QED BY <1>2, <1>7

-----------------------------------------------------------------------------
(* menuScan: the strings.                                                  *)

\* Each string has one place in the menu.
Owned ==
  /\ \A i, j \in 0..(nChoice - 1) : papChoiceValue[i] = papChoiceValue[j] => i = j
  /\ \A i, j \in 0..(nChoice - 1) :
       papChoiceName[i] # NULL /\ papChoiceName[i] = papChoiceName[j] => i = j
  /\ \A s : s \in live <=>
       \E i \in 0..(nChoice - 1) : s = papChoiceValue[i] \/ (s = papChoiceName[i] /\ s # NULL)

\* StringsOwned says the same of sets.
LEMMA OwnedMeans == Owned => StringsOwned
<1> SUFFICES ASSUME Owned PROVE StringsOwned
  OBVIOUS
<1> DEFINE used == 0..(nChoice - 1)
           named == {i \in used : papChoiceName[i] # NULL}
<1>1. \A s : s \in {papChoiceValue[i] : i \in used} \cup {papChoiceName[i] : i \in named} <=> s \in live
  BY DEF Owned
<1>2. {papChoiceValue[i] : i \in used} \cup {papChoiceName[i] : i \in named} = live
  BY <1>1
<1>3. /\ \A i, j \in used : papChoiceValue[i] = papChoiceValue[j] => i = j
      /\ \A i, j \in named : papChoiceName[i] = papChoiceName[j] => i = j
  BY DEF Owned
<1> QED BY <1>2, <1>3 DEF StringsOwned

\* The strings have owners at the start ...
LEMMA OwnedInit == ScanInit => Owned
<1> SUFFICES ASSUME ScanInit PROVE Owned
  OBVIOUS
<1>1. /\ nChoice = 3 + Len(InitialRates) /\ Len(InitialRates) \in Nat
      /\ \A i \in 0..(nChoice - 1) : /\ papChoiceValue[i] = InitialString("value", i)
                                     /\ papChoiceName[i] = InitialString("name", i)
  BY ScanAssumption DEF ScanInit, InitialChoices, SCAN_1ST_PERIODIC
<1>2. ASSUME NEW role \in {"name", "value"}, NEW i \in 0..(nChoice - 1), NEW j \in 0..(nChoice - 1),
             InitialString(role, i) = InitialString(role, j)
      PROVE  i = j
  <2>1. ~(i < 3) => /\ i - 3 + 1 \in 1..Len(InitialRates)
                    /\ InitialRates[i - 3 + 1] \in Nat \ {0}
                    /\ InitialString(role, i).number = InitialRates[i - 3 + 1]
    <3>1. ~(i < 3) => i - 3 + 1 \in 1..Len(InitialRates)
      BY <1>1
    <3> QED BY <3>1, ScanAssumption DEF InitialString, SCAN_1ST_PERIODIC
  <2>2. ~(j < 3) => /\ j - 3 + 1 \in 1..Len(InitialRates)
                    /\ InitialRates[j - 3 + 1] \in Nat \ {0}
                    /\ InitialString(role, j).number = InitialRates[j - 3 + 1]
    <3>1. ~(j < 3) => j - 3 + 1 \in 1..Len(InitialRates)
      BY <1>1
    <3> QED BY <3>1, ScanAssumption DEF InitialString, SCAN_1ST_PERIODIC
  <2>3. /\ i < 3 => InitialString(role, i).number = 0 /\ InitialString(role, i).copy = i + 1
        /\ j < 3 => InitialString(role, j).number = 0 /\ InitialString(role, j).copy = j + 1
    BY DEF InitialString, SCAN_1ST_PERIODIC
  <2>4. CASE i < 3 /\ j < 3
    BY <1>2, <2>3, <2>4
  <2>5. CASE ~(i < 3) /\ ~(j < 3)
    <3> DEFINE a == i - 3 + 1
               b == j - 3 + 1
    <3>2. /\ a \in 1..Len(InitialRates) /\ b \in 1..Len(InitialRates)
          /\ InitialRates[a] = InitialRates[b] /\ InitialRates[a] \in Nat
          /\ (i < j => a < b) /\ (j < i => b < a)
      BY <1>2, <2>1, <2>2, <2>5
    <3>3. ~(a < b) /\ ~(b < a)
      <4> HIDE DEF a, b
      <4>1. a < b => InitialRates[a] > InitialRates[b]
        BY <3>2, ScanAssumption
      <4>2. b < a => InitialRates[b] > InitialRates[a]
        BY <3>2, ScanAssumption
      <4> QED BY <3>2, <4>1, <4>2
    <3>1. ~(i < j) /\ ~(j < i)
      BY <3>2, <3>3
    <3> QED BY <3>1
  <2> QED BY <1>2, <2>1, <2>2, <2>3, <2>4, <2>5
<1>3. \A i \in 0..(nChoice - 1) : InitialString("name", i) # NULL
  <2> TAKE i \in 0..(nChoice - 1)
  <2>1. InitialString("name", i).copy # 0
    BY DEF InitialString, SCAN_1ST_PERIODIC
  <2> QED BY <2>1 DEF NULL
<1>4. \A s : s \in live <=>
        \E i \in 0..(nChoice - 1) : s = InitialString("value", i) \/ s = InitialString("name", i)
  BY DEF ScanInit
<1> HIDE DEF ScanInit
<1>5. \A s : s \in live <=>
        \E i \in 0..(nChoice - 1) : s = papChoiceValue[i] \/ (s = papChoiceName[i] /\ s # NULL)
  BY <1>1, <1>3, <1>4
<1> QED BY <1>1, <1>2, <1>5 DEF Owned

\* ... after addScan ...
LEMMA OwnedByAdd ==
  ASSUME ScanTypes, Owned, NEW arg \in Args, AddScan(arg)
  PROVE  Owned'
<1>1. PICK i \in SCAN_1ST_PERIODIC..nChoice, p \in Str :
        /\ p.role = "value" /\ p \notin live
        /\ nChoice' = nChoice + 1
        /\ live' = live \cup {p}
        /\ \A j \in 0..nChoice :
             /\ papChoiceValue'[j] = IF j < i THEN papChoiceValue[j]
                                     ELSE IF j = i THEN p ELSE papChoiceValue[j - 1]
             /\ papChoiceName'[j] = IF j < i THEN papChoiceName[j]
                                    ELSE IF j = i THEN NULL ELSE papChoiceName[j - 1]
  BY AddChanges
<1> DEFINE Old(j) == IF j < i THEN j ELSE j - 1
<1>2. nChoice \in Nat /\ i \in 0..nChoice /\ nChoice' - 1 = nChoice
  BY <1>1 DEF ScanTypes, SCAN_1ST_PERIODIC
<1>3. /\ \A j \in 0..nChoice : j # i => Old(j) \in 0..(nChoice - 1)
      /\ \A j, k \in 0..nChoice : j # i /\ k # i /\ Old(j) = Old(k) => j = k
      /\ \A k \in 0..(nChoice - 1) : \E j \in 0..nChoice : j # i /\ Old(j) = k
  <2>1. ASSUME NEW k \in 0..(nChoice - 1)
        PROVE  \E j \in 0..nChoice : j # i /\ Old(j) = k
    <3>1. CASE k < i
      <4> k \in 0..nChoice /\ k # i /\ Old(k) = k
        BY <1>2, <3>1
      <4> QED OBVIOUS
    <3>2. CASE ~(k < i)
      <4> k + 1 \in 0..nChoice /\ k + 1 # i /\ Old(k + 1) = k
        BY <1>2, <3>2
      <4> QED OBVIOUS
    <3> QED BY <3>1, <3>2
  <2> QED BY <1>2, <2>1
<1>4. /\ \A j \in 0..nChoice : j # i => /\ papChoiceValue'[j] = papChoiceValue[Old(j)]
                                       /\ papChoiceName'[j] = papChoiceName[Old(j)]
      /\ papChoiceValue'[i] = p /\ papChoiceName'[i] = NULL
  BY <1>1, <1>2
<1> HIDE DEF Old
<1>5. p # NULL /\ \A j \in 0..(nChoice - 1) : papChoiceValue[j] # p
  BY <1>1, NullIsNoString DEF Owned
<1>6. \A j, k \in 0..nChoice : papChoiceValue'[j] = papChoiceValue'[k] => j = k
  BY <1>2, <1>3, <1>4, <1>5 DEF Owned
<1>7. \A j, k \in 0..nChoice :
        papChoiceName'[j] # NULL /\ papChoiceName'[j] = papChoiceName'[k] => j = k
  BY <1>2, <1>3, <1>4 DEF Owned
<1>8. ASSUME NEW s
      PROVE  s \in live' <=>
               \E j \in 0..nChoice : s = papChoiceValue'[j] \/ (s = papChoiceName'[j] /\ s # NULL)
  <2>1. CASE s = p
    BY <1>1, <1>2, <1>4, <2>1
  <2>2. CASE s # p
    <3>1. s \in live' <=> s \in live
      BY <1>1, <2>2
    <3>2. s \in live <=>
            \E k \in 0..(nChoice - 1) : s = papChoiceValue[k] \/ (s = papChoiceName[k] /\ s # NULL)
      BY DEF Owned
    <3> QED BY <1>2, <1>3, <1>4, <2>2, <3>1, <3>2
  <2> QED BY <2>1, <2>2
<1> QED BY <1>2, <1>6, <1>7, <1>8 DEF Owned

\* ... and after rmScan.
LEMMA OwnedByRemove ==
  ASSUME ScanTypes, Owned, NEW arg \in Args, RmScan(arg)
  PROVE  Owned'
<1>1. PICK i \in Periodic :
        /\ nChoice' = nChoice - 1
        /\ live' = live \ {papChoiceName[i], papChoiceValue[i]}
        /\ \A j \in 0..(nChoice - 2) :
             /\ papChoiceValue'[j] = IF j < i THEN papChoiceValue[j] ELSE papChoiceValue[j + 1]
             /\ papChoiceName'[j] = IF j < i THEN papChoiceName[j] ELSE papChoiceName[j + 1]
  BY RemoveChanges
<1> DEFINE Old(j) == IF j < i THEN j ELSE j + 1
<1>2. nChoice \in Nat /\ i \in 0..(nChoice - 1) /\ nChoice' - 1 = nChoice - 2
  BY <1>1 DEF ScanTypes, Periodic, SCAN_1ST_PERIODIC
<1>3. /\ \A j \in 0..(nChoice - 2) : Old(j) \in 0..(nChoice - 1) /\ Old(j) # i
      /\ \A j, k \in 0..(nChoice - 2) : Old(j) = Old(k) => j = k
      /\ \A k \in 0..(nChoice - 1) : k # i => \E j \in 0..(nChoice - 2) : Old(j) = k
  <2>1. ASSUME NEW k \in 0..(nChoice - 1), k # i
        PROVE  \E j \in 0..(nChoice - 2) : Old(j) = k
    <3>1. CASE k < i
      <4> k \in 0..(nChoice - 2) /\ Old(k) = k
        BY <1>2, <3>1
      <4> QED OBVIOUS
    <3>2. CASE ~(k < i)
      <4> k - 1 \in 0..(nChoice - 2) /\ Old(k - 1) = k
        BY <1>2, <2>1, <3>2
      <4> QED OBVIOUS
    <3> QED BY <3>1, <3>2
  <2> QED BY <1>2, <2>1
<1>4. \A j \in 0..(nChoice - 2) : /\ papChoiceValue'[j] = papChoiceValue[Old(j)]
                                  /\ papChoiceName'[j] = papChoiceName[Old(j)]
  BY <1>1
<1> HIDE DEF Old
<1>5. \A j, k \in 0..(nChoice - 2) : papChoiceValue'[j] = papChoiceValue'[k] => j = k
  BY <1>3, <1>4 DEF Owned
<1>6. \A j, k \in 0..(nChoice - 2) :
        papChoiceName'[j] # NULL /\ papChoiceName'[j] = papChoiceName'[k] => j = k
  BY <1>3, <1>4 DEF Owned
<1>7. \A j, k \in 0..(nChoice - 1) : papChoiceName[j] # papChoiceValue[k]
  <2> TAKE j, k \in 0..(nChoice - 1)
  <2>1. papChoiceValue[k].role = "value" /\ papChoiceValue[k] \in Str
    BY UsedPlaces
  <2>2. papChoiceName[j] = NULL \/ papChoiceName[j].role = "name"
    BY UsedPlaces
  <2> QED BY <2>1, <2>2, NullIsNoString
<1>8. ASSUME NEW s
      PROVE  s \in live' <=>
               \E j \in 0..(nChoice - 2) : s = papChoiceValue'[j] \/ (s = papChoiceName'[j] /\ s # NULL)
  <2>1. s \in live <=>
          \E k \in 0..(nChoice - 1) : s = papChoiceValue[k] \/ (s = papChoiceName[k] /\ s # NULL)
    BY DEF Owned
  <2>2. ASSUME s \in live'
        PROVE  \E j \in 0..(nChoice - 2) : s = papChoiceValue'[j] \/ (s = papChoiceName'[j] /\ s # NULL)
    <3>1. s # papChoiceName[i] /\ s # papChoiceValue[i]
      BY <1>1, <2>2
    <3>2. PICK k \in 0..(nChoice - 1) : s = papChoiceValue[k] \/ (s = papChoiceName[k] /\ s # NULL)
      BY <1>1, <2>1, <2>2
    <3>3. k # i
      BY <3>1, <3>2
    <3> QED BY <1>3, <1>4, <3>2, <3>3
  <2>3. ASSUME NEW j \in 0..(nChoice - 2), s = papChoiceValue'[j] \/ (s = papChoiceName'[j] /\ s # NULL)
        PROVE  s \in live'
    <3>1. /\ Old(j) \in 0..(nChoice - 1) /\ Old(j) # i
          /\ s = papChoiceValue[Old(j)] \/ (s = papChoiceName[Old(j)] /\ s # NULL)
      BY <1>3, <1>4, <2>3
    <3>2. s \in live
      BY <2>1, <3>1
    <3>3. s # papChoiceValue[i]
      BY <1>2, <1>7, <3>1 DEF Owned
    <3>4. s # papChoiceName[i]
      BY <1>2, <1>7, <3>1 DEF Owned
    <3> QED BY <1>1, <3>2, <3>3, <3>4
  <2> QED BY <2>2, <2>3
<1> QED BY <1>2, <1>5, <1>6, <1>8 DEF Owned

-----------------------------------------------------------------------------
(* menuScan: what the calls do to the fixed choices and to the rates.      *)

FixedChoicesStep ==
  \A i \in 0..(SCAN_1ST_PERIODIC - 1) :
    /\ i < nChoice'
    /\ papChoiceValue'[i] = papChoiceValue[i]
    /\ papChoiceName'[i] = papChoiceName[i]

\* ... and are kept by each call.
LEMMA FixedByCall ==
  ASSUME ScanTypes, NEW arg \in Args, AddScan(arg) \/ RmScan(arg)
  PROVE  FixedChoicesStep
<1>1. nChoice \in Nat /\ 3 <= nChoice
  BY DEF ScanTypes, SCAN_1ST_PERIODIC
<1>2. CASE AddScan(arg)
  <2>1. PICK i \in SCAN_1ST_PERIODIC..nChoice, p \in Str :
          /\ nChoice' = nChoice + 1
          /\ \A j \in 0..nChoice :
               /\ papChoiceValue'[j] = IF j < i THEN papChoiceValue[j]
                                       ELSE IF j = i THEN p ELSE papChoiceValue[j - 1]
               /\ papChoiceName'[j] = IF j < i THEN papChoiceName[j]
                                      ELSE IF j = i THEN NULL ELSE papChoiceName[j - 1]
    BY <1>2, AddChanges
  <2>2. \A j \in 0..2 : j \in 0..nChoice /\ j < i /\ j < nChoice'
    BY <1>1, <2>1 DEF SCAN_1ST_PERIODIC
  <2> QED BY <2>1, <2>2 DEF FixedChoicesStep, SCAN_1ST_PERIODIC
<1>3. CASE RmScan(arg)
  <2>1. PICK i \in Periodic :
          /\ nChoice' = nChoice - 1
          /\ \A j \in 0..(nChoice - 2) :
               /\ papChoiceValue'[j] = IF j < i THEN papChoiceValue[j] ELSE papChoiceValue[j + 1]
               /\ papChoiceName'[j] = IF j < i THEN papChoiceName[j] ELSE papChoiceName[j + 1]
    BY <1>3, RemoveChanges
  <2>2. \A j \in 0..2 : j \in 0..(nChoice - 2) /\ j < i /\ j < nChoice'
    BY <1>1, <2>1 DEF Periodic, SCAN_1ST_PERIODIC
  <2> QED BY <2>1, <2>2 DEF FixedChoicesStep, SCAN_1ST_PERIODIC
<1> QED BY <1>2, <1>3

Rates == {RateOf(i) : i \in Periodic} \ {0, NaN}
Asked == {arg.scanned : arg \in Args} \cup {InitialRates[k] : k \in 1..Len(InitialRates)}

\* The rates of menuScan.dbd are rates that can be asked for.
LEMMA RatesInit == ScanInit => Rates \in SUBSET Asked
<1> SUFFICES ASSUME ScanInit, NEW i \in Periodic
             PROVE  RateOf(i) \in {InitialRates[k] : k \in 1..Len(InitialRates)}
  BY DEF Rates, Asked
<1>1. /\ nChoice = 3 + Len(InitialRates) /\ Len(InitialRates) \in Nat /\ i \in 3..(nChoice - 1)
  BY ScanAssumption DEF ScanInit, InitialChoices, SCAN_1ST_PERIODIC, Periodic
<1>2. i - 3 + 1 \in 1..Len(InitialRates) /\ i \in 0..(nChoice - 1)
  BY <1>1
<1>3. RateOf(i) = InitialRates[i - 3 + 1]
  BY <1>1, <1>2 DEF RateOf, ScanInit, InitialString, SCAN_1ST_PERIODIC
<1> QED BY <1>2, <1>3

\* A call adds or removes the rate it is given, or none.
LEMMA RatesByCall ==
  ASSUME ScanTypes, NEW arg \in Args, AddScan(arg) \/ RmScan(arg)
  PROVE  \/ \E r \in Asked : Rates' = Rates \cup {r}
         \/ \E r \in Asked : Rates' = Rates \ {r}
         \/ Rates' = Rates
<1>1. /\ nChoice \in Nat /\ 3 <= nChoice /\ Periodic = 3..(nChoice - 1)
      /\ Periodic' = 3..(nChoice' - 1) /\ arg.scanned \in Asked
  BY DEF ScanTypes, Periodic, SCAN_1ST_PERIODIC, Asked
<1>2. CASE AddScan(arg)
  <2>1. PICK i \in SCAN_1ST_PERIODIC..nChoice, p \in Str :
          /\ p.number = arg.kept /\ nChoice' = nChoice + 1
          /\ \A j \in 0..nChoice :
               papChoiceValue'[j] = IF j < i THEN papChoiceValue[j]
                                    ELSE IF j = i THEN p ELSE papChoiceValue[j - 1]
    BY <1>2, AddChanges
  <2>2. i \in 3..nChoice /\ Periodic' = 3..nChoice
    BY <1>1, <2>1 DEF SCAN_1ST_PERIODIC
  <2>3. \A j \in 3..nChoice :
          RateOf(j)' = IF j < i THEN RateOf(j) ELSE IF j = i THEN arg.kept ELSE RateOf(j - 1)
    BY <2>1, <2>2 DEF RateOf
  <2>4. \A x : x \in {RateOf(j)' : j \in 3..nChoice} <=>
               x \in {RateOf(j) : j \in 3..(nChoice - 1)} \/ x = arg.kept
    <3>1. ASSUME NEW x, NEW j \in 3..(nChoice - 1), x = RateOf(j)
          PROVE  \E k \in 3..nChoice : x = RateOf(k)'
      <4>1. CASE j < i
        <5> j \in 3..nChoice /\ RateOf(j)' = RateOf(j)
          BY <1>1, <2>3, <4>1
        <5> QED BY <3>1
      <4>2. CASE ~(j < i)
        <5> j + 1 \in 3..nChoice /\ RateOf(j + 1)' = RateOf(j)
          BY <1>1, <2>2, <2>3, <4>2
        <5> QED BY <3>1
      <4> QED BY <4>1, <4>2
    <3>2. ASSUME NEW x, NEW k \in 3..nChoice, x = RateOf(k)'
          PROVE  x = arg.kept \/ \E j \in 3..(nChoice - 1) : x = RateOf(j)
      <4>1. CASE k < i
        <5> k \in 3..(nChoice - 1) /\ RateOf(k)' = RateOf(k)
          BY <1>1, <2>2, <2>3, <4>1
        <5> QED BY <3>2
      <4>2. CASE k > i
        <5> k - 1 \in 3..(nChoice - 1) /\ RateOf(k)' = RateOf(k - 1)
          BY <1>1, <2>2, <2>3, <4>2
        <5> QED BY <3>2
      <4>3. CASE k = i
        BY <2>3, <3>2, <4>3
      <4> QED BY <2>2, <4>1, <4>2, <4>3
    <3>3. RateOf(i)' = arg.kept
      BY <2>2, <2>3
    <3> QED BY <2>2, <3>1, <3>2, <3>3
  <2>5. Rates' = (Rates \cup {arg.kept}) \ {0, NaN}
    BY <1>1, <2>2, <2>4 DEF Rates
  <2>6. arg.kept = arg.scanned \/ arg.kept = 0
    BY <1>2, ScanAssumption DEF AddScan, IsRate
  <2>7. arg.kept \in {0, NaN} => Rates' = Rates
    BY <2>5 DEF Rates
  <2>8. arg.kept \notin {0, NaN} => Rates' = Rates \cup {arg.scanned}
    BY <2>5, <2>6 DEF Rates
  <2> QED BY <1>1, <2>7, <2>8
<1>3. CASE RmScan(arg)
  <2>1. PICK i \in Periodic :
          /\ Eq(RateOf(i), arg.scanned) /\ nChoice' = nChoice - 1
          /\ \A j \in 0..(nChoice - 2) :
               papChoiceValue'[j] = IF j < i THEN papChoiceValue[j] ELSE papChoiceValue[j + 1]
    BY <1>3, RemoveChanges
  <2>2. i \in 3..(nChoice - 1) /\ Periodic' = 3..(nChoice - 2) /\ RateOf(i) = arg.scanned
    BY <1>1, <2>1 DEF Eq
  <2>3. \A j \in 3..(nChoice - 2) : RateOf(j)' = IF j < i THEN RateOf(j) ELSE RateOf(j + 1)
    BY <1>1, <2>1, <2>2 DEF RateOf
  <2>4. \A x : x # arg.scanned =>
          (x \in {RateOf(j)' : j \in 3..(nChoice - 2)} <=> x \in {RateOf(j) : j \in 3..(nChoice - 1)})
    <3>1. ASSUME NEW x, NEW j \in 3..(nChoice - 1), x = RateOf(j), x # arg.scanned
          PROVE  \E k \in 3..(nChoice - 2) : x = RateOf(k)'
      <4>1. CASE j < i
        <5> j \in 3..(nChoice - 2) /\ RateOf(j)' = RateOf(j)
          BY <1>1, <2>2, <2>3, <4>1
        <5> QED BY <3>1
      <4>2. CASE j > i
        <5> j - 1 \in 3..(nChoice - 2) /\ RateOf(j - 1)' = RateOf(j)
          BY <1>1, <2>2, <2>3, <4>2
        <5> QED BY <3>1
      <4>3. j # i
        BY <2>2, <3>1
      <4> QED BY <2>2, <4>1, <4>2, <4>3
    <3>2. ASSUME NEW x, NEW k \in 3..(nChoice - 2), x = RateOf(k)'
          PROVE  \E j \in 3..(nChoice - 1) : x = RateOf(j)
      <4> k \in 3..(nChoice - 1) /\ k + 1 \in 3..(nChoice - 1)
        BY <1>1
      <4> QED BY <2>3, <3>2
    <3> QED BY <3>1, <3>2
  <2>5. \A x \in {RateOf(j)' : j \in 3..(nChoice - 2)} : x \in {RateOf(j) : j \in 3..(nChoice - 1)}
    <3>1. \A k \in 3..(nChoice - 2) : k \in 3..(nChoice - 1) /\ k + 1 \in 3..(nChoice - 1)
      BY <1>1
    <3> QED BY <2>3, <3>1
  <2>6. Rates' = Rates \/ Rates' = Rates \ {arg.scanned}
    BY <1>1, <2>2, <2>4, <2>5 DEF Rates
  <2> QED BY <1>1, <2>6
<1> QED BY <1>2, <1>3

-----------------------------------------------------------------------------
(* menuConvert.                                                            *)

Found(t, s) == \E i \in 1..Len(s) : s[i] = t
Distinct(s) == \A i, j \in 1..Len(s) : s[i] = s[j] => i = j

\* The loop of updateMenuConvert over bptList, with the list after each turn
LEMMA MissingLoop ==
  ASSUME ConvertTypeOK
  PROVE  \E list :
           /\ list[0] = <<>>
           /\ \A k \in 1..Len(bptList) :
                list[k] = IF Found(bptList[k], menuConvert) THEN list[k - 1]
                          ELSE Append(list[k - 1], bptList[k])
           /\ Missing = list[Len(bptList)]
<1> DEFINE n == Len(bptList)
           step == [x \in (1..n) \X Seq(Tables) |->
                      IF Found(bptList[x[1]], menuConvert) THEN x[2] ELSE Append(x[2], bptList[x[1]])]
           IsLoop(f) == f = [k \in 0..n |->
                               IF k = 0 THEN <<>>
                               ELSE IF Found(bptList[k], menuConvert) THEN f[k - 1]
                                    ELSE Append(f[k - 1], bptList[k])]
           list == CHOOSE f : IsLoop(f)
<1>1. n \in Nat /\ \A k \in 1..n : bptList[k] \in Tables
  BY DEF ConvertTypeOK
<1>2. step \in [(1..n) \X Seq(Tables) -> Seq(Tables)]
  <2> SUFFICES ASSUME NEW x \in (1..n) \X Seq(Tables)
               PROVE  (IF Found(bptList[x[1]], menuConvert) THEN x[2]
                       ELSE Append(x[2], bptList[x[1]])) \in Seq(Tables)
    OBVIOUS
  <2>1. x[2] \in Seq(Tables) /\ bptList[x[1]] \in Tables
    BY <1>1
  <2> QED BY <2>1
<1>3. PICK f : IsRecursive(f, n, Seq(Tables), <<>>, step)
  <2> HIDE DEF step, n
  <2>1. <<>> \in Seq(Tables)
    OBVIOUS
  <2> QED BY <1>1, <1>2, <2>1, RecursiveFunction
<1>4. \A k \in 1..n : f[k] = IF Found(bptList[k], menuConvert) THEN f[k - 1] ELSE Append(f[k - 1], bptList[k])
  <2> TAKE k \in 1..n
  <2>1. f[k] = step[<<k, f[k - 1]>>]
    BY <1>3 DEF IsRecursive
  <2>2. k - 1 \in 0..n
    BY <1>1
  <2>3. f[k - 1] \in Seq(Tables)
    BY <1>3, <2>2 DEF IsRecursive
  <2> DEFINE s == f[k - 1]
  <2> HIDE DEF s
  <2>4. step[<<k, s>>] = IF Found(bptList[k], menuConvert) THEN s ELSE Append(s, bptList[k])
    BY <2>3 DEF s
  <2> QED BY <2>1, <2>4 DEF s
<1>5. IsLoop(f)
  <2>1. f[0] = <<>> /\ f \in [0..n -> Seq(Tables)]
    BY <1>3 DEF IsRecursive
  <2>2. \A k \in 0..n : k = 0 \/ k \in 1..n
    BY <1>1
  <2> HIDE DEF n
  <2> QED BY <1>4, <2>1, <2>2
<1>6. IsLoop(list)
  <2> HIDE DEF IsLoop
  <2> QED BY <1>5
<1>7. Missing = list[n]
  BY DEF Missing, Found
<1> HIDE DEF list
<1>8. /\ list[0] = <<>>
      /\ \A k \in 1..n : list[k] = IF Found(bptList[k], menuConvert) THEN list[k - 1]
                                   ELSE Append(list[k - 1], bptList[k])
  <2>1. 0 \in 0..n /\ \A k \in 1..n : k \in 0..n /\ k # 0
    BY <1>1
  <2> HIDE DEF n
  <2> QED BY <1>6, <2>1
<1> QED BY <1>7, <1>8

\* The list missing has the loaded tables that are not in the menu, each once.
LEMMA MissingIs ==
  ASSUME ConvertTypeOK, Distinct(bptList)
  PROVE  /\ Missing \in Seq(Tables)
         /\ Distinct(Missing)
         /\ \A i \in 1..Len(Missing) : ~Found(Missing[i], menuConvert)
         /\ \A j \in 1..Len(bptList) :
              ~Found(bptList[j], menuConvert) => \E i \in 1..Len(Missing) : Missing[i] = bptList[j]
<1>1. PICK list :
        /\ list[0] = <<>>
        /\ \A k \in 1..Len(bptList) :
             list[k] = IF Found(bptList[k], menuConvert) THEN list[k - 1] ELSE Append(list[k - 1], bptList[k])
        /\ Missing = list[Len(bptList)]
  BY MissingLoop
<1> DEFINE n == Len(bptList)
           Good(s, k) ==
             /\ s \in Seq(Tables)
             /\ Distinct(s)
             /\ \A i \in 1..Len(s) : ~Found(s[i], menuConvert) /\ \E j \in 1..k : s[i] = bptList[j]
             /\ \A j \in 1..k : ~Found(bptList[j], menuConvert) => \E i \in 1..Len(s) : s[i] = bptList[j]
           T == {k \in 0..n : Good(list[k], k)}
<1> HIDE DEF Found
<1>2. n \in Nat /\ \A k \in 1..n : bptList[k] \in Tables
  BY DEF ConvertTypeOK
<1>3. 0 \in T
  <2>1. <<>> \in Seq(Tables) /\ \A i \in 1..Len(<<>>) : FALSE
    OBVIOUS
  <2>2. Good(<<>>, 0)
    BY <2>1 DEF Distinct
  <2> HIDE DEF Good
  <2> QED BY <1>1, <1>2, <2>2
<1>4. ASSUME NEW k \in 1..n, k - 1 \in T
      PROVE  k \in T
  <2> DEFINE s == list[k - 1]
             b == bptList[k]
  <2>1. Good(s, k - 1) /\ b \in Tables
    BY <1>2, <1>4
  <2> HIDE DEF s
  <2>2. \A j \in 1..k : j = k \/ j \in 1..(k - 1)
    OBVIOUS
  <2>3. CASE Found(b, menuConvert)
    <3>1. list[k] = s
      BY <1>1, <2>3 DEF s
    <3>2. Good(s, k)
      BY <2>1, <2>2, <2>3
    <3> HIDE DEF Good
    <3> QED BY <3>1, <3>2
  <2>4. CASE ~Found(b, menuConvert)
    <3> DEFINE a == Append(s, b)
               l == Len(s)
    <3>1. list[k] = a
      BY <1>1, <2>4 DEF s
    <3>2. /\ s \in Seq(Tables) /\ l \in Nat /\ a \in Seq(Tables) /\ Len(a) = l + 1
          /\ a[l + 1] = b /\ \A i \in 1..l : a[i] = s[i]
      BY <2>1
    <3> HIDE DEF a, l, b
    <3>3. \A i \in 1..(l + 1) : i = l + 1 \/ i \in 1..l
      BY <3>2
    <3>4. \A i \in 1..l : s[i] # b
      <4>1. \A j \in 1..(k - 1) : j \in 1..n /\ j # k
        BY <1>2
      <4>2. \A i \in 1..l : \E j \in 1..(k - 1) : s[i] = bptList[j]
        BY <2>1 DEF l
      <4> QED BY <4>1, <4>2 DEF Distinct, b
    <3>5. Distinct(a)
      <4>1. \A i, j \in 1..l : s[i] = s[j] => i = j
        BY <2>1 DEF Distinct, l
      <4> QED BY <3>2, <3>3, <3>4, <4>1 DEF Distinct
    <3>6. \A i \in 1..Len(a) : ~Found(a[i], menuConvert) /\ \E j \in 1..k : a[i] = bptList[j]
      <4>1. \A i \in 1..l : ~Found(s[i], menuConvert) /\ \E j \in 1..(k - 1) : s[i] = bptList[j]
        BY <2>1 DEF l
      <4>2. k \in 1..k /\ \A j \in 1..(k - 1) : j \in 1..k
        OBVIOUS
      <4> QED BY <2>4, <3>2, <3>3, <4>1, <4>2 DEF b
    <3>7. \A j \in 1..k : ~Found(bptList[j], menuConvert) => \E i \in 1..Len(a) : a[i] = bptList[j]
      <4>1. \A j \in 1..(k - 1) : ~Found(bptList[j], menuConvert) => \E i \in 1..l : s[i] = bptList[j]
        BY <2>1 DEF l
      <4>2. l + 1 \in 1..Len(a) /\ \A i \in 1..l : i \in 1..Len(a)
        BY <3>2
      <4> QED BY <2>2, <3>2, <4>1, <4>2 DEF b
    <3>8. Good(a, k)
      BY <3>2, <3>5, <3>6, <3>7
    <3> HIDE DEF Good
    <3> QED BY <3>1, <3>8
  <2> QED BY <2>3, <2>4
<1>5. n \in T
  <2> HIDE DEF T, n
  <2>1. \A k \in 0..n : k \in T
    BY <1>2, <1>3, <1>4, InductionUpTo
  <2> QED BY <1>2, <2>1
<1> QED BY <1>1, <1>5 DEF T

\* No table is loaded twice and no table has two choices.
UpdatedHavePlace ==
  \A t \in updated : \E i \in 1..Len(menuConvert) : menuConvert[i] = t

ConvertInv ==
  /\ ConvertTypeOK
  /\ Distinct(bptList) /\ Distinct(menuConvert)
  /\ UpdatedHavePlace

\* The initial menu has no doubles.
LEMMA ConvertInitInv == ConvertInit => ConvertInv
BY ConvertAssumption DEF ConvertInit, ConvertInv, ConvertTypeOK, Distinct, UpdatedHavePlace

\* A sequence with t inserted behind its first k elements
WithBehind(s, k, t) == SubSeq(s, 1, k) \o <<t>> \o SubSeq(s, k + 1, Len(s))

HasBehind(r, s, k, t) ==
  /\ Len(r) = Len(s) + 1
  /\ \A i \in 1..(Len(s) + 1) :
       r[i] = IF i <= k THEN s[i] ELSE IF i = k + 1 THEN t ELSE s[i - 1]

\* Inserting adds the element and moves the ones behind it.
LEMMA InsertedBehind ==
  ASSUME NEW S, NEW s \in Seq(S), NEW t \in S, NEW k \in 0..Len(s)
  PROVE  WithBehind(s, k, t) \in Seq(S) /\ HasBehind(WithBehind(s, k, t), s, k, t)
<1> DEFINE r == WithBehind(s, k, t)
           n == Len(s)
           left == SubSeq(s, 1, k)
           right == SubSeq(s, k + 1, n)
           mid == left \o <<t>>
<1>1. n \in Nat /\ k \in Nat /\ k <= n /\ \A i \in 1..n : s[i] \in S
  OBVIOUS
<1>2. left \in Seq(S) /\ Len(left) = k /\ \A i \in 1..k : left[i] = s[i]
  <2>1. \A i \in 1..k : s[i] \in S
    BY <1>1
  <2> QED BY <1>1, <2>1, SubSeqProperties
<1>3. right \in Seq(S) /\ Len(right) = n - k /\ \A i \in 1..(n - k) : right[i] = s[k + i]
  <2>1. \A i \in (k + 1)..n : s[i] \in S
    BY <1>1
  <2> HIDE DEF n
  <2>2. /\ right \in Seq(S) /\ Len(right) = IF k + 1 <= n THEN n - (k + 1) + 1 ELSE 0
        /\ \A i \in 1..(n - (k + 1) + 1) : right[i] = s[(k + 1) + i - 1]
    BY <1>1, <2>1, SubSeqProperties
  <2> QED BY <1>1, <2>2
<1>4. /\ mid \in Seq(S) /\ Len(mid) = k + 1
      /\ \A i \in 1..(k + 1) : mid[i] = IF i <= k THEN s[i] ELSE t
  <2> HIDE DEF left
  <2>1. <<t>> \in Seq(S) /\ Len(<<t>>) = 1 /\ <<t>>[1] = t
    OBVIOUS
  <2> DEFINE one == <<t>>
  <2> HIDE DEF one
  <2>2. /\ left \o one \in Seq(S) /\ Len(left \o one) = Len(left) + Len(one)
        /\ \A i \in 1..(Len(left) + Len(one)) :
             (left \o one)[i] = IF i <= Len(left) THEN left[i] ELSE one[i - Len(left)]
    BY <1>2, <2>1, ConcatProperties DEF one
  <2>3. \A i \in 1..(k + 1) : ~(i <= k) => i - k = 1
    BY <1>1
  <2>4. \A i \in 1..(k + 1) : i <= k => i \in 1..k
    BY <1>1
  <2>5. mid = left \o one
    BY DEF one
  <2> HIDE DEF mid
  <2> QED BY <1>1, <1>2, <2>1, <2>2, <2>3, <2>4, <2>5 DEF one
<1>5. r = mid \o right
  BY DEF WithBehind
<1> HIDE DEF n, left, mid, right, r
<1>6. /\ r \in Seq(S) /\ Len(r) = n + 1
      /\ \A i \in 1..(n + 1) : r[i] = IF i <= k + 1 THEN mid[i] ELSE right[i - (k + 1)]
  <2>1. /\ r \in Seq(S) /\ Len(r) = Len(mid) + Len(right)
        /\ \A i \in 1..(Len(mid) + Len(right)) :
             r[i] = IF i <= Len(mid) THEN mid[i] ELSE right[i - Len(mid)]
    <3>1. /\ mid \o right \in Seq(S) /\ Len(mid \o right) = Len(mid) + Len(right)
          /\ \A i \in 1..(Len(mid) + Len(right)) :
               (mid \o right)[i] = IF i <= Len(mid) THEN mid[i] ELSE right[i - Len(mid)]
      BY <1>3, <1>4, ConcatProperties
    <3> QED BY <1>5, <3>1
  <2>2. Len(mid) = k + 1 /\ Len(mid) + Len(right) = n + 1
    BY <1>1, <1>3, <1>4
  <2> QED BY <2>1, <2>2
<1>7. ASSUME NEW i \in 1..(n + 1)
      PROVE  r[i] = IF i <= k THEN s[i] ELSE IF i = k + 1 THEN t ELSE s[i - 1]
  <2>1. CASE i <= k + 1
    <3>1. i \in 1..(k + 1) /\ (~(i <= k) => i = k + 1)
      BY <1>1, <2>1
    <3>2. r[i] = mid[i]
      BY <1>6, <2>1
    <3>3. mid[i] = IF i <= k THEN s[i] ELSE t
      BY <1>4, <3>1
    <3> QED BY <3>1, <3>2, <3>3
  <2>2. CASE ~(i <= k + 1)
    <3>1. i - (k + 1) \in 1..(n - k) /\ k + (i - (k + 1)) = i - 1 /\ ~(i <= k) /\ i # k + 1
      BY <1>1, <2>2
    <3>2. r[i] = right[i - (k + 1)]
      BY <1>6, <2>2
    <3>3. right[i - (k + 1)] = s[i - 1]
      BY <1>3, <3>1
    <3> QED BY <3>1, <3>2, <3>3
  <2> QED BY <2>1, <2>2
<1> QED BY <1>6, <1>7 DEF n, r, HasBehind

\* dbLoadDatabase adds a table that the list does not hold.
LEMMA LoadTableKeeps ==
  ASSUME ConvertInv, LoadTable
  PROVE  ConvertInv'
<1>1. PICK t \in Tables \ Elements(bptList), k \in 0..Len(bptList) :
        bptList' = SubSeq(bptList, 1, k) \o <<t>> \o SubSeq(bptList, k + 1, Len(bptList))
  BY DEF LoadTable
<1> DEFINE n == Len(bptList)
<1>2. bptList \in Seq(Tables) /\ n \in Nat /\ k \in Nat /\ k <= n
  BY DEF ConvertInv, ConvertTypeOK
<1>5. /\ bptList' \in Seq(Tables) /\ Len(bptList') = n + 1
      /\ \A i \in 1..(n + 1) :
           bptList'[i] = IF i <= k THEN bptList[i] ELSE IF i = k + 1 THEN t ELSE bptList[i - 1]
  <2> DEFINE b == bptList
             r == bptList'
  <2>1. /\ b \in Seq(Tables) /\ t \in Tables /\ k \in 0..Len(b)
        /\ r = WithBehind(b, k, t)
    BY <1>1, <1>2 DEF WithBehind
  <2> HIDE DEF b, r
  <2>2. /\ r \in Seq(Tables) /\ Len(r) = Len(b) + 1
        /\ \A i \in 1..(Len(b) + 1) :
             r[i] = IF i <= k THEN b[i] ELSE IF i = k + 1 THEN t ELSE b[i - 1]
    <3>1. WithBehind(b, k, t) \in Seq(Tables) /\ HasBehind(WithBehind(b, k, t), b, k, t)
      BY <2>1, InsertedBehind
    <3>2. r \in Seq(Tables) /\ HasBehind(r, b, k, t)
      BY <2>1, <3>1
    <3> QED BY <3>2 DEF HasBehind
  <2> QED BY <2>2 DEF b, r
<1>6. \A i \in 1..n : bptList[i] # t
  BY DEF Elements
<1>7. Distinct(bptList')
  <2> SUFFICES ASSUME NEW i \in 1..(n + 1), NEW j \in 1..(n + 1), bptList'[i] = bptList'[j]
               PROVE  i = j
    BY <1>5 DEF Distinct
  <2> DEFINE Old(x) == IF x <= k THEN x ELSE x - 1
  <2>1. /\ i # k + 1 => Old(i) \in 1..n /\ bptList'[i] = bptList[Old(i)]
        /\ j # k + 1 => Old(j) \in 1..n /\ bptList'[j] = bptList[Old(j)]
        /\ i # k + 1 /\ j # k + 1 /\ Old(i) = Old(j) => i = j
        /\ i = k + 1 => bptList'[i] = t
        /\ j = k + 1 => bptList'[j] = t
    BY <1>2, <1>5
  <2> HIDE DEF Old
  <2> QED BY <1>6, <2>1 DEF ConvertInv, Distinct
<1>8. menuConvert' = menuConvert /\ updated' = updated
  BY DEF LoadTable
<1>9. UpdatedHavePlace'
  BY <1>8 DEF ConvertInv, UpdatedHavePlace
<1> QED BY <1>5, <1>7, <1>8, <1>9 DEF ConvertInv, ConvertTypeOK

\* What updateMenuConvert does to the menu
LEMMA UpdateChanges ==
  ASSUME ConvertInv, UpdateMenuConvert
  PROVE  /\ ConvertInv'
         /\ Len(menuConvert) <= Len(menuConvert')
         /\ \A i \in 1..Len(menuConvert) : menuConvert'[i] = menuConvert[i]
         /\ \A j \in 1..Len(bptList) : \E i \in 1..Len(menuConvert') : menuConvert'[i] = bptList[j]
<1> DEFINE n == Len(menuConvert)
           l == Len(Missing)
<1>1. /\ Missing \in Seq(Tables) /\ Distinct(Missing)
      /\ \A i \in 1..l : ~Found(Missing[i], menuConvert)
      /\ \A j \in 1..Len(bptList) : ~Found(bptList[j], menuConvert) => \E i \in 1..l : Missing[i] = bptList[j]
  BY MissingIs DEF ConvertInv
<1>2. /\ menuConvert \in Seq(STRING) /\ n \in Nat /\ l \in Nat
      /\ Missing \in Seq(STRING)
  <2>1. Tables \subseteq STRING
    BY ConvertAssumption
  <2>2. Missing \in Seq(STRING)
    BY <1>1, <2>1, SeqMonotonic
  <2>3. l \in Nat
    BY <1>1
  <2> QED BY <2>2, <2>3 DEF ConvertInv, ConvertTypeOK
<1>3. menuConvert' = menuConvert \o Missing /\ bptList' = bptList /\ updated' = Elements(bptList)
  BY DEF UpdateMenuConvert
<1> DEFINE M == Missing
<1> HIDE DEF M
<1>4. /\ menuConvert' \in Seq(STRING) /\ Len(menuConvert') = n + l
      /\ \A i \in 1..n : menuConvert'[i] = menuConvert[i]
      /\ \A i \in 1..l : menuConvert'[n + i] = Missing[i]
  BY <1>2, <1>3
<1>5. \A i \in 1..(n + l) : i \in 1..n \/ (i - n \in 1..l /\ menuConvert'[i] = Missing[i - n])
  <2> TAKE i \in 1..(n + l)
  <2>1. i \in 1..n \/ (i - n \in 1..l /\ n + (i - n) = i)
    BY <1>2
  <2> QED BY <1>4, <2>1
<1>6. Distinct(menuConvert')
  <2> SUFFICES ASSUME NEW i \in 1..(n + l), NEW j \in 1..(n + l), menuConvert'[i] = menuConvert'[j]
               PROVE  i = j
    BY <1>4 DEF Distinct
  <2>1. CASE i \in 1..n /\ j \in 1..n
    BY <1>4, <2>1 DEF ConvertInv, Distinct
  <2>2. CASE i \in 1..n /\ j \notin 1..n
    BY <1>1, <1>4, <1>5, <2>2 DEF Found
  <2>3. CASE i \notin 1..n /\ j \in 1..n
    BY <1>1, <1>4, <1>5, <2>3 DEF Found
  <2>4. CASE i \notin 1..n /\ j \notin 1..n
    <3>1. i - n \in 1..l /\ j - n \in 1..l /\ Missing[i - n] = Missing[j - n]
      BY <1>5, <2>4
    <3>2. i - n = j - n
      BY <1>1, <3>1 DEF Distinct
    <3> QED BY <1>2, <3>2
  <2> QED BY <2>1, <2>2, <2>3, <2>4
<1>7. ASSUME NEW j \in 1..Len(bptList)
      PROVE  \E i \in 1..(n + l) : menuConvert'[i] = bptList[j]
  <2>1. CASE Found(bptList[j], menuConvert)
    <3>1. \A i \in 1..n : i \in 1..(n + l)
      BY <1>2
    <3> QED BY <1>4, <2>1, <3>1 DEF Found
  <2>2. CASE ~Found(bptList[j], menuConvert)
    <3>1. PICK i \in 1..l : Missing[i] = bptList[j]
      BY <1>1, <2>2
    <3>2. n + i \in 1..(n + l)
      BY <1>2
    <3> QED BY <1>4, <3>1, <3>2
  <2> QED BY <2>1, <2>2
<1> QED
  <2>1. ConvertInv'
    <3>1. UpdatedHavePlace'
      <4> SUFFICES ASSUME NEW t \in updated'
                   PROVE  \E i \in 1..Len(menuConvert') : menuConvert'[i] = t
        BY DEF UpdatedHavePlace
      <4>1. PICK j \in 1..Len(bptList) : t = bptList[j]
        BY <1>3 DEF Elements
      <4>2. PICK i \in 1..(n + l) : menuConvert'[i] = bptList[j]
        BY <1>7
      <4> QED BY <1>4, <4>1, <4>2
    <3>2. Elements(bptList) \subseteq Tables
      BY DEF Elements, ConvertInv, ConvertTypeOK
    <3> QED BY <1>3, <1>4, <1>6, <3>1, <3>2 DEF ConvertInv, ConvertTypeOK
  <2>2. Len(menuConvert) <= Len(menuConvert')
    BY <1>2, <1>4
  <2> HIDE DEF n, l
  <2> QED BY <1>4, <1>7, <2>1, <2>2 DEF n

-----------------------------------------------------------------------------
(* setMaxArrayBytes.                                                       *)

IsBound(b, f, S) == \A x \in S : f[x] <= b

\* Finitely many numbers have a bound.
LEMMA FiniteBound ==
  ASSUME NEW S, IsFiniteSet(S), NEW f, \A x \in S : f[x] \in Nat
  PROVE  \E b \in Nat : IsBound(b, f, S)
<1> DEFINE Bounded(U) == \E b \in Nat : IsBound(b, f, U)
           Sizes0 == {n \in Nat : \E U \in SUBSET S : Cardinality(U) = n /\ ~Bounded(U)}
<1> HIDE DEF Bounded
<1>1. ASSUME Sizes0 # {} PROVE FALSE
  <2>1. PICK n \in Sizes0 : \A m \in Sizes0 : n <= m
    <3>1. Sizes0 \in SUBSET Nat
      OBVIOUS
    <3> HIDE DEF Sizes0
    <3> QED BY <1>1, <3>1, LeastNat
  <2>2. PICK U \in SUBSET S : Cardinality(U) = n /\ ~Bounded(U)
    BY <2>1
  <2>3. U # {}
    <3>1. IsBound(0, f, {}) /\ 0 \in Nat
      BY DEF IsBound
    <3> QED BY <2>2, <3>1 DEF Bounded
  <2>4. PICK x \in U : TRUE
    BY <2>3
  <2> DEFINE V == U \ {x}
  <2>5. IsFiniteSet(U)
    BY FS_Subset
  <2>6. IsFiniteSet(V) /\ Cardinality(V) = n - 1 /\ Cardinality(V) \in Nat
    BY <2>2, <2>4, <2>5, FS_RemoveElement, FS_CardinalityType
  <2>7. Bounded(V)
    <3>1. V \in SUBSET S
      OBVIOUS
    <3> HIDE DEF V
    <3> QED BY <2>1, <2>6, <3>1
  <2>8. PICK b \in Nat : IsBound(b, f, V)
    BY <2>7 DEF Bounded
  <2> DEFINE c == IF f[x] <= b THEN b ELSE f[x]
  <2>9. c \in Nat /\ b <= c /\ f[x] <= c
    BY <2>4
  <2> HIDE DEF c
  <2>10. IsBound(c, f, U)
    <3> SUFFICES ASSUME NEW y \in U PROVE f[y] <= c
      BY DEF IsBound
    <3>1. CASE y = x
      BY <2>9, <3>1
    <3>2. CASE y # x
      <4>1. f[y] <= b /\ f[y] \in Nat
        BY <2>8, <3>2 DEF IsBound
      <4> QED BY <2>9, <4>1
    <3> QED BY <3>1, <3>2
  <2> QED BY <2>2, <2>9, <2>10 DEF Bounded
<1>2. Cardinality(S) \in Nat
  BY FS_CardinalityType
<1>3. Bounded(S)
  BY <1>1, <1>2
<1> QED BY <1>3 DEF Bounded

\* Max finds the largest of some numbers that have a bound.
LEMMA MaxIs ==
  ASSUME NEW T \in SUBSET Nat, T # {}, NEW b \in Nat, \A x \in T : x <= b
  PROVE  Max(T) \in T /\ \A x \in T : x <= Max(T)
<1> DEFINE Upper == {u \in Nat : \A x \in T : x <= u}
<1>1. PICK u \in Upper : \A v \in Upper : u <= v
  <2>1. Upper \in SUBSET Nat /\ Upper # {}
    OBVIOUS
  <2> HIDE DEF Upper
  <2> QED BY <2>1, LeastNat
<1>2. u \in T
  <2> SUFFICES ASSUME u \notin T PROVE FALSE
    OBVIOUS
  <2>1. \A x \in T : x <= u - 1
    BY <1>1
  <2>2. u - 1 \in Upper
    <3>1. PICK x \in T : x \in Nat /\ x <= u - 1
      BY <2>1
    <3> QED BY <1>1, <2>1, <3>1
  <2> QED BY <1>1, <2>2
<1>3. \A x \in T : u >= x
  BY <1>1
<1>4. Max(T) \in T /\ \A x \in T : Max(T) >= x
  BY <1>2, <1>3 DEF Max
<1> QED BY <1>4

\* The size of a field is a number of bytes.
LEMMA FieldSizeType ==
  ASSUME NEW r \in Records, NEW f \in Arrays[r]
  PROVE  CaFieldSize(f) \in Nat
<1>1. f \in ArrayField
  BY ArrayAssumption
<1>2. f.elements \in Nat /\ CtrlSize[f.type] \in Nat /\ ValueSize[f.type] \in Nat
  BY <1>1, ArrayAssumption DEF ArrayField
<1>3. f.elements # 0 => f.elements - 1 \in Nat
  BY <1>2
<1>4. \A m, n \in Nat : m * n \in Nat
  OBVIOUS
<1>5. f.elements # 0 => (f.elements - 1) * ValueSize[f.type] \in Nat
  BY <1>2, <1>3, <1>4
<1> QED BY <1>2, <1>5 DEF CaFieldSize

\* maxNeeded after the loops is enough for all fields.
LEMMA NeededIs ==
  ASSUME NEW loaded \in SUBSET Records
  PROVE  /\ Needed(loaded) \in Nat
         /\ \A size \in Sizes(loaded) : size \in Nat /\ size <= Needed(loaded)
<1> DEFINE f(r) == [g \in Arrays[r] |-> CaFieldSize(g)]
           best(r) == CHOOSE b \in Nat : IsBound(b, f(r), Arrays[r])
           h == [r \in loaded |-> best(r)]
<1>1. ASSUME NEW r \in loaded
      PROVE  h[r] \in Nat /\ \A g \in Arrays[r] : CaFieldSize(g) <= h[r]
  <2>1. IsFiniteSet(Arrays[r]) /\ \A g \in Arrays[r] : f(r)[g] \in Nat
    BY ArrayAssumption, FieldSizeType
  <2>2. \E b \in Nat : IsBound(b, f(r), Arrays[r])
    <3> HIDE DEF f
    <3> QED BY <2>1, FiniteBound
  <2>3. best(r) \in Nat /\ IsBound(best(r), f(r), Arrays[r])
    <3> HIDE DEF f
    <3> QED BY <2>2, Zenon
  <2>4. h[r] = best(r)
    <3> HIDE DEF best
    <3> QED OBVIOUS
  <2>5. \A g \in Arrays[r] : f(r)[g] = CaFieldSize(g)
    OBVIOUS
  <2> HIDE DEF h, f, best
  <2> QED BY <2>3, <2>4, <2>5 DEF IsBound
<1> HIDE DEF h
<1>2. PICK b \in Nat : \A r \in loaded : h[r] <= b
  <2>1. IsFiniteSet(loaded)
    BY ArrayAssumption, FS_Subset
  <2>2. \E b \in Nat : IsBound(b, h, loaded)
    BY <1>1, <2>1, FiniteBound
  <2> QED BY <2>2 DEF IsBound
<1> DEFINE T == {0} \cup Sizes(loaded)
<1>3. \A size \in Sizes(loaded) : size \in Nat /\ size <= b
  <2> SUFFICES ASSUME NEW r \in loaded, NEW g \in Arrays[r]
               PROVE  CaFieldSize(g) \in Nat /\ CaFieldSize(g) <= b
    BY DEF Sizes
  <2>1. CaFieldSize(g) \in Nat
    BY FieldSizeType
  <2>2. CaFieldSize(g) <= h[r] /\ h[r] \in Nat /\ h[r] <= b
    BY <1>1, <1>2
  <2> QED BY <2>1, <2>2
<1>4. T \in SUBSET Nat /\ T # {} /\ \A x \in T : x <= b
  BY <1>3
<1>5. Max(T) \in T /\ \A x \in T : x <= Max(T)
  <2> HIDE DEF T
  <2> QED BY <1>4, MaxIs
<1> QED BY <1>3, <1>4, <1>5 DEF Needed

Covered(limit) == \A size \in Sizes(Loaded) : size <= limit

\* Until the CA server takes the limit, it will be raised before that or it
\* is enough already.
ArrayInv ==
  /\ IocTypeOK /\ ArrayTypeOK
  /\ scan \in [Records -> Nat \cup {NotLoaded}]
  /\ iocState = "void" => agenda = <<>> /\ serverBytes = 0
  /\ serverBytes # 0 => Covered(serverBytes)
  /\ \A k \in 1..Len(agenda) :
       agenda[k].stage = AfterCaServerInit =>
         \/ Covered(maxArrayBytes)
         \/ \E j \in 1..(k - 1) : agenda[j].stage = AfterFinishDevSup

\* Before any record is loaded every limit is enough.
LEMMA ArrayInitInv == IocInit /\ ArrayInit /\ scan = [r \in Records |-> NotLoaded] => ArrayInv
<1> SUFFICES ASSUME IocInit, ArrayInit, scan = [r \in Records |-> NotLoaded] PROVE ArrayInv
  OBVIOUS
<1>1. agenda = <<>> /\ iocState = "void" /\ interruptAccept = FALSE
  BY DEF IocInit
<1>4. <<>> \in Seq(Announcement) /\ Len(<<>>) = 0
  OBVIOUS
<1>5. agenda \in Seq(Announcement) /\ Len(agenda) = 0
  BY <1>1, <1>4
<1>6. IocTypeOK
  BY <1>1, <1>5 DEF IocTypeOK, IocState
<1>7. ~ \E k \in 1..Len(agenda) : TRUE
  BY <1>5
<1>2. ArrayTypeOK /\ serverBytes = 0
  BY ArrayAssumption DEF ArrayInit, ArrayTypeOK
<1>3. scan \in [Records -> Nat \cup {NotLoaded}]
  OBVIOUS
<1> QED BY <1>1, <1>2, <1>3, <1>6, <1>7 DEF ArrayInv

\* A call that starts announcements announces AfterFinishDevSup in time.
LEMMA CallKeepsArrays ==
  ASSUME ArrayInv, IocLifecycleCall, UNCHANGED <<arrayVars, scan>>
  PROVE  ArrayInv'
<1>1. PICK op \in LifecycleOp, to \in IocState \ {"void"} :
        agenda' = Agenda[op] /\ iocState' = to /\ interruptAccept' = interruptAccept
  BY DEF IocLifecycleCall, IocCall, LifecycleOp, IocState
<1>2. Agenda[op] \in Seq(Announcement)
  BY AgendaAssumption
<1>3. \A k \in 1..Len(Agenda[op]) :
        Agenda[op][k].stage = AfterCaServerInit =>
          \E j \in 1..(k - 1) : Agenda[op][j].stage = AfterFinishDevSup
  BY ArrayAssumption
<1>4. Loaded' = Loaded
  BY DEF Loaded
<1>5. (serverBytes # 0 => Covered(serverBytes))'
  BY <1>4 DEF ArrayInv, Covered, arrayVars
<1> QED BY <1>1, <1>2, <1>3, <1>5 DEF ArrayInv, IocTypeOK, ArrayTypeOK, arrayVars

\* The hook raises the limit at AfterFinishDevSup and the server takes it later.
LEMMA AnnounceKeepsArrays ==
  ASSUME ArrayInv, NEW s \in Stage, IocAnnounce(s), SetMaxArrayBytes(s, Loaded), scan' = scan
  PROVE  ArrayInv'
<1>1. /\ agenda \in Seq(Announcement) /\ agenda # <<>> /\ Len(agenda) \in Nat \ {0}
      /\ s = agenda[1].stage /\ agenda[1] \in Announcement
      /\ interruptAccept' = agenda[1].accept /\ agenda' = Tail(agenda) /\ iocState' = iocState
  BY DEF ArrayInv, IocTypeOK, IocAnnounce
<1>2. /\ agenda' \in Seq(Announcement) /\ Len(agenda') = Len(agenda) - 1
      /\ \A k \in 1..Len(agenda') : agenda'[k] = agenda[k + 1]
  BY <1>1
<1>3. Loaded' = Loaded /\ Loaded \in SUBSET Records
  BY DEF Loaded
<1>4. /\ maxArrayBytes \in Nat /\ maxArrayBytes' \in Nat /\ maxArrayBytes <= maxArrayBytes'
      /\ serverBytes' \in Nat
      /\ s = AfterFinishDevSup => Needed(Loaded) <= maxArrayBytes'
  BY <1>3, NeededIs DEF SetMaxArrayBytes, ArrayInv, ArrayTypeOK
<1>5. \A size \in Sizes(Loaded) : size \in Nat /\ size <= Needed(Loaded) /\ Needed(Loaded) \in Nat
  BY <1>3, NeededIs
<1>6. Covered(maxArrayBytes) \/ s = AfterFinishDevSup => Covered(maxArrayBytes')
  BY <1>4, <1>5 DEF Covered
<1>7. serverBytes' # 0 => Covered(serverBytes')
  <2>1. CASE s = AfterCaServerInit
    <3>1. serverBytes' = maxArrayBytes
      BY <2>1 DEF SetMaxArrayBytes
    <3>2. Covered(maxArrayBytes)
      <4>1. 1 \in 1..Len(agenda) /\ agenda[1].stage = AfterCaServerInit
        BY <1>1, <2>1
      <4>2. ~\E j \in 1..(1 - 1) : TRUE
        OBVIOUS
      <4> QED BY <4>1, <4>2 DEF ArrayInv
    <3> QED BY <3>1, <3>2
  <2>2. CASE s # AfterCaServerInit
    BY <2>2 DEF SetMaxArrayBytes, ArrayInv
  <2> QED BY <2>1, <2>2
<1>8. ASSUME NEW k \in 1..Len(agenda'), agenda'[k].stage = AfterCaServerInit
      PROVE  \/ Covered(maxArrayBytes')
             \/ \E j \in 1..(k - 1) : agenda'[j].stage = AfterFinishDevSup
  <2>1. k + 1 \in 1..Len(agenda) /\ agenda[k + 1].stage = AfterCaServerInit
    BY <1>1, <1>2, <1>8
  <2>2. \/ Covered(maxArrayBytes)
        \/ \E j \in 1..((k + 1) - 1) : agenda[j].stage = AfterFinishDevSup
    BY <2>1 DEF ArrayInv
  <2>3. CASE Covered(maxArrayBytes)
    BY <1>6, <2>3
  <2>4. ASSUME NEW j \in 1..((k + 1) - 1), agenda[j].stage = AfterFinishDevSup
        PROVE  \/ Covered(maxArrayBytes')
               \/ \E i \in 1..(k - 1) : agenda'[i].stage = AfterFinishDevSup
    <3>1. CASE j = 1
      BY <1>1, <1>6, <2>4, <3>1
    <3>2. CASE j # 1
      <4>1. j - 1 \in 1..(k - 1) /\ j - 1 \in 1..Len(agenda') /\ (j - 1) + 1 = j
        BY <1>1, <1>2, <3>2
      <4>2. agenda'[j - 1].stage = AfterFinishDevSup
        BY <1>2, <2>4, <4>1
      <4> QED BY <4>1, <4>2
    <3> QED BY <3>1, <3>2
  <2> QED BY <2>2, <2>3, <2>4
<1>9. Covered(serverBytes)' <=> Covered(serverBytes')
  BY <1>3 DEF Covered
<1>10. Covered(maxArrayBytes)' <=> Covered(maxArrayBytes')
  BY <1>3 DEF Covered
<1>11. iocState \in IocState /\ iocState # "void" /\ interruptAccept' \in BOOLEAN
  BY <1>1 DEF ArrayInv, IocTypeOK, Announcement
<1>12. scan' \in [Records -> Nat \cup {NotLoaded}]
  BY DEF ArrayInv
<1> QED BY <1>1, <1>2, <1>4, <1>7, <1>8, <1>9, <1>10, <1>11, <1>12 DEF ArrayInv, IocTypeOK, ArrayTypeOK

-----------------------------------------------------------------------------
(* The theorems.                                                           *)

\* LINR names the table it was loaded with.
RecordsInv ==
  /\ linr \in [Records -> Nat \cup {NotLoaded}]
  /\ DOMAIN table = Records
  /\ \A r \in Records : scan[r] # NotLoaded =>
       linr[r] + 1 \in 1..Len(menuConvert) /\ menuConvert[linr[r] + 1] = table[r]

MenusInv == ScanTypes /\ SortedDescending /\ Owned /\ ConvertInv /\ ArrayInv /\ RecordsInv

\* The invariant starts ...
LEMMA MenusInit == Init => MenusInv
<1> SUFFICES ASSUME Init PROVE MenusInv
  OBVIOUS
<1>1. ScanTypes /\ SortedDescending /\ Owned
  BY ScanTypesInit, SortedInit, OwnedInit DEF Init
<1>2. ConvertInv /\ ArrayInv
  BY ConvertInitInv, ArrayInitInv DEF Init
<1>3. RecordsInv
  BY DEF Init, RecordsInv
<1> QED BY <1>1, <1>2, <1>3 DEF MenusInv

\* ... and stays.
LEMMA MenusKept ==
  ASSUME MenusInv, [Next]_vars
  PROVE  MenusInv'
<1> USE DEF MenusInv
<1>1. ASSUME NEW arg \in Args, AddScan(arg) \/ RmScan(arg),
             UNCHANGED <<iocVars, convertVars, arrayVars, recordVars>>
      PROVE  MenusInv'
  <2>1. ScanTypes' /\ SortedDescending' /\ Owned'
    BY <1>1, ScanTypesKept, SortedByAdd, SortedByRemove, OwnedByAdd, OwnedByRemove
  <2>2. ConvertInv'
    BY <1>1 DEF ConvertInv, ConvertTypeOK, UpdatedHavePlace, Distinct, convertVars
  <2>3. ArrayInv'
    BY <1>1 DEF ArrayInv, IocTypeOK, ArrayTypeOK, Covered, Loaded, iocVars, arrayVars, recordVars
  <2>4. RecordsInv'
    BY <1>1 DEF RecordsInv, recordVars, convertVars
  <2> QED BY <2>1, <2>2, <2>3, <2>4
<1>2. ASSUME UNCHANGED scanVars
      PROVE  ScanTypes' /\ SortedDescending' /\ Owned'
  BY <1>2 DEF scanVars, ScanTypes, SortedDescending, Periodic, RateOf, Owned
<1>3. ASSUME ConvertNext, UNCHANGED <<iocVars, scanVars, arrayVars, recordVars>>
      PROVE  MenusInv'
  <2>1. ArrayInv'
    BY <1>3 DEF ArrayInv, IocTypeOK, ArrayTypeOK, Covered, Loaded, iocVars, arrayVars, recordVars
  <2>2. CASE LoadTable
    <3>1. ConvertInv'
      BY <2>2, LoadTableKeeps
    <3>2. RecordsInv'
      BY <1>3, <2>2 DEF LoadTable, RecordsInv, recordVars
    <3> QED BY <1>2, <1>3, <2>1, <3>1, <3>2
  <2>3. CASE UpdateMenuConvert
    <3>1. ConvertInv' /\ Len(menuConvert) <= Len(menuConvert')
      BY <2>3, UpdateChanges
    <3>2. \A i \in 1..Len(menuConvert) : menuConvert'[i] = menuConvert[i]
      BY <2>3, UpdateChanges
    <3>3. RecordsInv'
      <4>1. linr' = linr /\ scan' = scan /\ table' = table
        BY <1>3 DEF recordVars
      <4>2. Len(menuConvert) \in Nat /\ Len(menuConvert') \in Nat
        BY <3>1 DEF ConvertInv, ConvertTypeOK
      <4>3. \A i \in 1..Len(menuConvert) : i \in 1..Len(menuConvert')
        BY <3>1, <4>2
      <4> QED BY <3>2, <4>1, <4>3 DEF RecordsInv
    <3> QED BY <1>2, <1>3, <2>1, <3>1, <3>3
  <2> QED BY <1>3, <2>2, <2>3 DEF ConvertNext
<1>4. ASSUME NEW r \in Records, LoadRecord(r)
      PROVE  MenusInv'
  <2>1. PICK i \in Periodic, k \in 1..Len(menuConvert) :
          /\ scan' = [scan EXCEPT ![r] = i]
          /\ linr' = [linr EXCEPT ![r] = k - 1]
          /\ table' = [table EXCEPT ![r] = menuConvert[k]]
    BY <1>4 DEF LoadRecord
  <2>2. UNCHANGED <<iocVars, scanVars, convertVars, arrayVars>> /\ iocState = "void"
    BY <1>4 DEF LoadRecord
  <2>3. ConvertInv'
    BY <2>2 DEF ConvertInv, ConvertTypeOK, UpdatedHavePlace, Distinct, convertVars
  <2>4. ArrayInv'
    <3>1. scan' \in [Records -> Nat \cup {NotLoaded}]
      BY <2>1 DEF ArrayInv, ScanTypes, Periodic, SCAN_1ST_PERIODIC
    <3>2. agenda' = <<>> /\ serverBytes' = 0 /\ iocState' = "void" /\ Len(agenda') = 0
      BY <2>2 DEF ArrayInv, iocVars, arrayVars
    <3>3. IocTypeOK' /\ ArrayTypeOK'
      BY <2>2 DEF ArrayInv, IocTypeOK, ArrayTypeOK, iocVars, arrayVars
    <3> QED BY <3>1, <3>2, <3>3 DEF ArrayInv
  <2>5. RecordsInv'
    <3>1. k - 1 \in Nat /\ (k - 1) + 1 = k
      OBVIOUS
    <3>2. linr' \in [Records -> Nat \cup {NotLoaded}]
      BY <2>1, <3>1 DEF RecordsInv
    <3>3. menuConvert' = menuConvert
      BY <2>2 DEF convertVars
    <3>4. ASSUME NEW q \in Records, scan'[q] # NotLoaded
          PROVE  linr'[q] + 1 \in 1..Len(menuConvert) /\ menuConvert[linr'[q] + 1] = table'[q]
      <4>1. CASE q = r
        <5>1. linr'[q] = k - 1
          BY <2>1, <4>1 DEF RecordsInv
        <5>2. table'[q] = menuConvert[k]
          BY <2>1, <4>1 DEF RecordsInv
        <5> QED BY <3>1, <5>1, <5>2
      <4>2. CASE q # r
        BY <2>1, <3>4, <4>2 DEF RecordsInv, ArrayInv
      <4> QED BY <4>1, <4>2
    <3>5. DOMAIN table' = Records
      BY <2>1 DEF RecordsInv
    <3> QED BY <3>2, <3>3, <3>4, <3>5 DEF RecordsInv
  <2> QED BY <1>2, <2>2, <2>3, <2>4, <2>5
<1>5. CASE Lifecycle
  <2>1. UNCHANGED <<scanVars, convertVars, recordVars>>
    BY <1>5 DEF Lifecycle
  <2>2. ConvertInv'
    BY <2>1 DEF ConvertInv, ConvertTypeOK, UpdatedHavePlace, Distinct, convertVars
  <2>3. RecordsInv'
    BY <2>1 DEF RecordsInv, recordVars, convertVars
  <2>4. ArrayInv'
    <3>1. scan' = scan
      BY <2>1 DEF recordVars
    <3>2. CASE IocLifecycleCall /\ UNCHANGED arrayVars
      BY <3>1, <3>2, CallKeepsArrays
    <3>3. ASSUME NEW s \in Stage, IocAnnounce(s), SetMaxArrayBytes(s, Loaded)
          PROVE  ArrayInv'
      BY <3>1, <3>3, AnnounceKeepsArrays
    <3> QED BY <1>5, <3>2, <3>3 DEF Lifecycle
  <2> QED BY <1>2, <2>1, <2>2, <2>3, <2>4
<1>6. CASE UNCHANGED vars
  <2>1. ConvertInv' /\ RecordsInv' /\ UNCHANGED scanVars
    BY <1>6 DEF vars, ConvertInv, ConvertTypeOK, UpdatedHavePlace, Distinct, convertVars, RecordsInv, recordVars
  <2>2. ArrayInv'
    BY <1>6 DEF vars, ArrayInv, IocTypeOK, ArrayTypeOK, Covered, Loaded, iocVars, arrayVars, recordVars
  <2> QED BY <1>2, <2>1, <2>2
<1> QED BY <1>1, <1>3, <1>4, <1>5, <1>6 DEF Next, ScanNext

\* The inductive invariant holds.
LEMMA InvHolds == Spec => []MenusInv
BY MenusInit, MenusKept, PTL DEF Spec

\* Only addScan and rmScan change menuScan ...
LEMMA ScanSteps ==
  ASSUME [Next]_vars
  PROVE  UNCHANGED scanVars \/ \E arg \in Args : AddScan(arg) \/ RmScan(arg)
<1>1. CASE ScanNext
  BY <1>1 DEF ScanNext
<1>2. CASE ~ScanNext
  BY <1>2 DEF Next, LoadRecord, Lifecycle, vars
<1> QED BY <1>1, <1>2

\* ... and only loading tables and updateMenuConvert change menuConvert.
LEMMA ConvertSteps ==
  ASSUME [Next]_vars
  PROVE  UNCHANGED convertVars \/ LoadTable \/ UpdateMenuConvert
<1>1. CASE ConvertNext
  BY <1>1 DEF ConvertNext
<1>2. CASE ~ConvertNext
  BY <1>2 DEF Next, LoadRecord, Lifecycle, vars
<1> QED BY <1>1, <1>2

\* The menus, the records and what the CA server takes keep their types.
THEOREM TypeCorrect == Spec => []TypeOK
<1>1. MenusInv => TypeOK
  BY ScanTypeOKHolds DEF MenusInv, ConvertInv, ArrayInv, RecordsInv, TypeOK
<1> QED BY <1>1, InvHolds, PTL

\* However long addScan and rmScan are called with whatever rates, the
\* periodic choices descend (as long as each of them reads as a rate).
THEOREM SortedCorrect == Spec => []SortedDescending
<1>1. MenusInv => SortedDescending
  BY DEF MenusInv
<1> QED BY <1>1, InvHolds, PTL

\* No string of menuScan is ever freed twice, used after it was freed, or
\* lost.
THEOREM OwnershipCorrect == Spec => []StringsOwned
<1>1. MenusInv => StringsOwned
  BY OwnedMeans DEF MenusInv
<1> QED BY <1>1, InvHolds, PTL

\* No call moves one of the three choices whose numbers base has compiled in.
THEOREM FixedChoicesCorrect == Spec => FixedChoicesKept
<1>1. MenusInv /\ [Next]_vars => [FixedChoicesStep]_scanVars
  BY ScanSteps, FixedByCall DEF MenusInv
<1> QED BY <1>1, InvHolds, PTL DEF Spec, FixedChoicesKept, FixedChoicesStep

\* The menu in its array of strings implements the set of rates.
THEOREM RatesCorrect == Spec => RatesSpec
<1>1. Init => ScanRatesOfMenu!Init
  BY RatesInit DEF Init, ScanRatesOfMenu!Init, Rates, Asked
<1>2. MenusInv /\ [Next]_vars => [ScanRatesOfMenu!Next]_Rates
  <2> SUFFICES ASSUME MenusInv, [Next]_vars
               PROVE  \/ \E r \in Asked : Rates' = Rates \cup {r}
                      \/ \E r \in Asked : Rates' = Rates \ {r}
                      \/ Rates' = Rates
    BY DEF ScanRatesOfMenu!Next, ScanRatesOfMenu!Add, ScanRatesOfMenu!Remove, Rates, Asked
  <2>1. CASE UNCHANGED scanVars
    BY <2>1 DEF scanVars, Rates, Periodic, RateOf
  <2> QED BY <2>1, ScanSteps, RatesByCall DEF MenusInv
<1> QED BY <1>1, <1>2, InvHolds, PTL DEF Spec, RatesSpec, ScanRatesOfMenu!Spec, Rates

\* Every table that was loaded when updateMenuConvert last ran is selectable
\* under exactly one choice, whatever was loaded before, however often it is
\* called and whether or not the call changed the menu.
THEOREM SelectableCorrect == Spec => []TablesSelectable
<1>1. ASSUME MenusInv, NEW t \in updated
      PROVE  Cardinality({i \in 1..Len(menuConvert) : menuConvert[i] = t}) = 1
  <2>1. ConvertInv
    BY <1>1 DEF MenusInv
  <2>2. PICK i \in 1..Len(menuConvert) : menuConvert[i] = t
    BY <1>1, <2>1 DEF ConvertInv, UpdatedHavePlace
  <2>3. {j \in 1..Len(menuConvert) : menuConvert[j] = t} = {i}
    BY <2>1, <2>2 DEF ConvertInv, Distinct
  <2> QED BY <2>3, FS_Singleton
<1>2. MenusInv => TablesSelectable
  BY <1>1 DEF TablesSelectable
<1> QED BY <1>2, InvHolds, PTL

\* updateMenuConvert never changes the table of a record that is loaded.
THEOREM RecordsCorrect == Spec => []RecordsKeepTable
<1>1. MenusInv => RecordsKeepTable
  <2> SUFFICES ASSUME MenusInv, NEW r \in Loaded
               PROVE  linr[r] < Len(menuConvert) /\ menuConvert[linr[r] + 1] = table[r]
    BY DEF RecordsKeepTable
  <2>1. r \in Records /\ linr[r] \in Int /\ Len(menuConvert) \in Nat
    BY DEF Loaded, MenusInv, RecordsInv, NotLoaded, ConvertInv, ConvertTypeOK
  <2>2. linr[r] + 1 \in 1..Len(menuConvert) /\ menuConvert[linr[r] + 1] = table[r]
    BY DEF Loaded, MenusInv, RecordsInv
  <2> QED BY <2>1, <2>2
<1> QED BY <1>1, InvHolds, PTL

\* The CA server never starts with a limit that is too small for an array
\* field of a loaded record.
THEOREM ServedCorrect == Spec => []ArraysServed
<1>1. MenusInv => ArraysServed
  BY DEF MenusInv, ArrayInv, ArraysServed, ServerTakes, Covered
<1> QED BY <1>1, InvHolds, PTL
=============================================================================
