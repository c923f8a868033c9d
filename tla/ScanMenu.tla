------------------------------ MODULE ScanMenu ------------------------------
(***************************************************************************)
(* addScan.c: the choices of menuScan, which addScan and rmScan change in  *)
(* place.  The menu holds two arrays of pointers to strings.               *)
(***************************************************************************)
EXTENDS IocLifecycle, FiniteSets

CONSTANTS
  InitialRates,   \* the periodic choices of the loaded menuScan.dbd, in order
  Args,           \* arguments of addScan and rmScan
  MaxChoices      \* bound on the choices of the menu

\* Rates are counted in units small enough to be integers.
NaN == -1
NoNumber == -2
Eq(a, b) == a = b /\ a # NaN
Less(a, b) == a < b /\ a # NaN /\ b # NaN

\* An argument is what sscanf "%lf%c" reads from it (NoNumber if it does not
\* read exactly a number) and what strtod reads from the string that is kept
\* of it: leading zeros are cut off, so that 0x10 is kept as x10.
Arg == [scanned : Int, kept : Int]

\* A string is known by what it is for, by what strtod reads from it and by
\* a number that tells apart the addresses of equal strings.
Str == [role : {"name", "value"}, number : Int, copy : 1..MaxChoices]
NULL == [role |-> "name", number |-> NoNumber, copy |-> 0]

SCAN_1ST_PERIODIC == 3    \* after Passive, Event and I/O Intr
InitialChoices == SCAN_1ST_PERIODIC + Len(InitialRates)

ASSUME ScanAssumption ==
  /\ MaxChoices \in Nat /\ MaxChoices >= InitialChoices
  /\ Args \subseteq Arg
  /\ \A arg \in Args : arg.scanned # NoNumber => arg.kept \in {arg.scanned, 0}
  /\ InitialRates \in Seq(Nat \ {0})
  /\ \A i, j \in 1..Len(InitialRates) : i < j => InitialRates[i] > InitialRates[j]

VARIABLES
  nChoice, papChoiceName, papChoiceValue,   \* menuScan
  live      \* the strings that are allocated

scanVars == <<nChoice, papChoiceName, papChoiceValue, live>>

\* The menu as dbLoadDatabase leaves it; strtod reads 0 from the choices
\* that are not periodic.
InitialString(role, i) ==
  IF i < SCAN_1ST_PERIODIC THEN [role |-> role, number |-> 0, copy |-> i + 1]
  ELSE [role |-> role, number |-> InitialRates[i - SCAN_1ST_PERIODIC + 1], copy |-> 1]

ScanInit ==
  /\ nChoice = InitialChoices
  /\ papChoiceValue = [i \in 0..(nChoice - 1) |-> InitialString("value", i)]
  /\ papChoiceName = [i \in 0..(nChoice - 1) |-> InitialString("name", i)]
  /\ live = {InitialString(role, i) : role \in {"name", "value"}, i \in 0..(nChoice - 1)}

RateOf(i) == papChoiceValue[i].number
Periodic == SCAN_1ST_PERIODIC..(nChoice - 1)

\* dbCalloc gives a string an address that is not in use.
IsFresh(p) == p \notin live /\ \A c \in 1..(p.copy - 1) : [p EXCEPT !.copy = c] \in live

IsRate(arg) == arg.scanned # NoNumber /\ (arg.scanned > 0 \/ arg.scanned = NaN)

\* The loop of addScan ends at i: the first choice that has the rate or a
\* smaller one, or the end of the menu.
AddsAt(rate, i) ==
  /\ i \in SCAN_1ST_PERIODIC..nChoice
  /\ i < nChoice => Eq(RateOf(i), rate) \/ Less(RateOf(i), rate)
  /\ \A j \in SCAN_1ST_PERIODIC..(i - 1) : ~Eq(RateOf(j), rate) /\ ~Less(RateOf(j), rate)

\* Mutant: the new choice goes behind the first smaller rate.
InsertedLate(array, i, p) ==
  [j \in 0..nChoice |-> IF j < i + 1 /\ j < nChoice THEN array[j]
                        ELSE IF j = i + 1 \/ j = nChoice THEN p ELSE array[j - 1]]

\* Mutant: the choice at i is overwritten.
InsertedOver(array, i, p) ==
  [j \in 0..nChoice |-> IF j < i THEN array[j]
                        ELSE IF j = i \/ j = nChoice THEN p ELSE array[j]]

\* The copy of an array with p at i and the rest moved up
Inserted(array, i, p) ==
  [j \in 0..nChoice |-> IF j < i THEN array[j] ELSE IF j = i THEN p ELSE array[j - 1]]

\* A rate that is already there is left alone.  The name of a new choice
\* stays NULL.
AddScan(arg) ==
  /\ ~interruptAccept
  /\ IsRate(arg)
  /\ nChoice < MaxChoices
  /\ \E i \in SCAN_1ST_PERIODIC..nChoice, c \in 1..MaxChoices :
       LET p == [role |-> "value", number |-> arg.kept, copy |-> c] IN
       /\ IsFresh(p)
       /\ AddsAt(arg.scanned, i)
       /\ i < nChoice => ~Eq(RateOf(i), arg.scanned)
       /\ papChoiceValue' = Inserted(papChoiceValue, i, p)
       /\ papChoiceName' = Inserted(papChoiceName, i, NULL)
       /\ live' = live \cup {p}
  /\ nChoice' = nChoice + 1

\* Mutant: the loop that closes the gap stops one short.
RemovedShort(array, i) ==
  [j \in DOMAIN array |-> IF i <= j /\ j < nChoice - 2 THEN array[j + 1] ELSE array[j]]

\* The array is not reallocated: its last used place keeps what it holds.
Removed(array, i) ==
  [j \in DOMAIN array |-> IF i <= j /\ j < nChoice - 1 THEN array[j + 1] ELSE array[j]]

\* Mutant: the choices are searched from the first.
RmScanAny(arg) ==
  /\ ~interruptAccept
  /\ IsRate(arg)
  /\ \E i \in 0..(nChoice - 1) :
       /\ RateOf(i) <= arg.scanned
       /\ \A j \in 0..(i - 1) : RateOf(j) > arg.scanned
       /\ live' = live \ {papChoiceName[i], papChoiceValue[i]}
       /\ papChoiceName' = Removed(papChoiceName, i)
       /\ papChoiceValue' = Removed(papChoiceValue, i)
  /\ nChoice' = nChoice - 1

\* rmScan of the first choice with this rate; without one it does nothing.
RmScan(arg) ==
  /\ ~interruptAccept
  /\ IsRate(arg)
  /\ \E i \in Periodic :
       /\ Eq(RateOf(i), arg.scanned)
       /\ \A j \in SCAN_1ST_PERIODIC..(i - 1) : ~Eq(RateOf(j), arg.scanned)
       /\ live' = live \ {papChoiceName[i], papChoiceValue[i]}
       /\ papChoiceName' = Removed(papChoiceName, i)
       /\ papChoiceValue' = Removed(papChoiceValue, i)
  /\ nChoice' = nChoice - 1

ScanNext == \E arg \in Args : AddScan(arg) \/ RmScan(arg)

-----------------------------------------------------------------------------
(* Properties.                                                             *)

ScanTypeOK ==
  /\ nChoice \in Nat /\ nChoice >= SCAN_1ST_PERIODIC
  /\ 0..(nChoice - 1) \subseteq DOMAIN papChoiceName
  /\ \A i \in DOMAIN papChoiceName : papChoiceName[i] = NULL \/ papChoiceName[i].role = "name"
  /\ DOMAIN papChoiceValue = DOMAIN papChoiceName
  /\ \A i \in DOMAIN papChoiceValue : papChoiceValue[i].role = "value"

\* addScan searches only until the first smaller rate and inserts there: the
\* periodic choices stay in descending order without doubles whatever is
\* added and removed, which the next search depends on.  Only a rate of nan,
\* or in hexadecimal, whose string reads as 0, breaks the order for good.
SortedDescending ==
  (\A i \in Periodic : RateOf(i) > 0) => \A i, j \in Periodic : i < j => RateOf(i) > RateOf(j)

\* The strings the menu points to are allocated, no string has two owners
\* (rmScan would free it twice) and no string has lost its owner.
StringsOwned ==
  LET used == 0..(nChoice - 1)
      named == {i \in used : papChoiceName[i] # NULL}
  IN  /\ \A i, j \in used : papChoiceValue[i] = papChoiceValue[j] => i = j
      /\ \A i, j \in named : papChoiceName[i] = papChoiceName[j] => i = j
      /\ {papChoiceValue[i] : i \in used} \cup {papChoiceName[i] : i \in named} = live

\* Passive, Event and I/O Intr keep their places: their numbers are
\* compiled into base as SCAN_PASSIVE, SCAN_EVENT and SCAN_IO_EVENT.
FixedChoicesKept ==
  [][\A i \in 0..(SCAN_1ST_PERIODIC - 1) :
        /\ i < nChoice'
        /\ papChoiceValue'[i] = papChoiceValue[i]
        /\ papChoiceName'[i] = papChoiceName[i]]_scanVars

\* The rates a user can select.
ScanRatesOfMenu == INSTANCE ScanRates WITH
  Rate <- {arg.scanned : arg \in Args} \cup {InitialRates[k] : k \in 1..Len(InitialRates)},
  rates <- {RateOf(i) : i \in Periodic} \ {0, NaN}

\* addScan and rmScan maintain the set of rates of ScanRates: every call
\* adds or removes one of the rates that were asked for, or none.
RatesSpec == ScanRatesOfMenu!Spec
=============================================================================
