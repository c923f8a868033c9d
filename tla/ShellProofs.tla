---------------------------- MODULE ShellProofs ----------------------------
(***************************************************************************)
(* ulimit: the limits stay well formed, and each call sets what it was     *)
(* asked to set, for all resources, units and widths of rlim_t.  Then the  *)
(* commands of a shell, which run each other to any depth, for any lines,  *)
(* files and limits: what they do to stdout and to the open streams, and   *)
(* that ulimit within them does what it promises alone.                    *)
(***************************************************************************)
EXTENDS ShellPromise, Recursion, FiniteSetTheorems, SequenceTheorems, TLAPS

-----------------------------------------------------------------------------
(* ulimit alone: any number of shells run it with any options and limits   *)
(* at the same time.                                                       *)

\* A shell starts a call; it need not have returned from one before.
UlimitStart(s) ==
  /\ \E options \in Seq(STRING), limit \in LimitArgs : UlimitFunc(s, options, limit)
  /\ UNCHANGED <<limits, root>>

UlimitInit ==
  /\ limits \in [Resources -> Rlimit]
  /\ root \in BOOLEAN
  /\ call = [s \in Shells |-> NoUlimit]

UlimitNext == \E s \in Shells : UlimitStart(s) \/ UlimitStep(s) \/ UlimitReturn(s)

UlimitSpec == UlimitInit /\ [][UlimitNext]_limitVars

-----------------------------------------------------------------------------
(* The inductive invariant.                                                *)

AnyLimit == [cur : 0..RLIM_INFINITY, max : 0..RLIM_INFINITY]

ActiveCall ==
  [at : {"all", "option", "set", "done"}, which : SUBSET {"S", "H"}, options : Seq(STRING),
   limit : LimitArgs, j : Nat \ {0}, got : [Resources -> AnyLimit], disturbed : SUBSET Resources]

\* Showing all limits passes no letter; where a new limit is set there is one.
AtPlace(s) ==
  /\ call[s].at = "all" => call[s].j = 1
  /\ call[s].at = "set" =>
       /\ call[s].j <= Len(call[s].options) /\ Asks(s) \in Resources
       /\ call[s].limit.kind \in {"number", "unlimited"}

CallsOK ==
  /\ call \in [Shells -> ActiveCall \cup {NoUlimit}]
  /\ \A s \in Shells : AtPlace(s)

UlimitInv == limits \in [Resources -> Rlimit] /\ CallsOK /\ LimitsAsAsked

-----------------------------------------------------------------------------
(* The new limit.                                                          *)

\* The number that is set fits into rlim_t.
LEMMA NewlimitFits ==
  ASSUME NEW limit \in LimitArgs, NEW r \in Resources
  PROVE  Newlimit(limit, r) \in 0..RLIM_INFINITY
<1>1. Parsed(limit.n) \in Nat /\ Unit[r] \in Nat
  BY UlimitAssumption DEF LimitArgs, Parsed
<1>2. (Parsed(limit.n) * Unit[r]) % RlimValues \in 0..(RlimValues - 1)
  BY <1>1, UlimitAssumption
<1> QED BY <1>2, UlimitAssumption DEF Newlimit, RLIM_INFINITY

\* It is the number that was asked for unless that overflows.
LEMMA NewlimitIsWanted ==
  ASSUME NEW limit \in LimitArgs, NEW r \in Resources, ~Overflows(limit, r)
  PROVE  Newlimit(limit, r) = Wanted(limit, r)
<1>1. limit.n * Unit[r] \in Nat
  BY UlimitAssumption DEF LimitArgs
<1>2. limit.n * Unit[r] < RlimValues
  BY <1>1, UlimitAssumption DEF Overflows
<1>3. (limit.n * Unit[r]) % RlimValues = limit.n * Unit[r]
  BY <1>1, <1>2, UlimitAssumption
<1>4. CASE limit.n < RlimValues
  BY <1>3, <1>4, UlimitAssumption DEF Newlimit, Wanted, Parsed, LimitArgs
<1>5. CASE limit.n >= RlimValues
  <2>1. limit.n \in Nat /\ Unit[r] \in Nat
    BY UlimitAssumption DEF LimitArgs
  <2>2. Unit[r] >= 1 => limit.n * Unit[r] >= limit.n
    BY <2>1
  <2>3. Unit[r] = 0
    BY <1>2, <1>5, <2>1, <2>2, UlimitAssumption
  <2>4. Parsed(limit.n) * Unit[r] = 0 /\ limit.n * Unit[r] = 0
    BY <2>1, <2>3, UlimitAssumption DEF Parsed
  <2> QED BY <1>3, <2>4 DEF Newlimit, Wanted
<1> QED BY <1>4, <1>5, UlimitAssumption DEF LimitArgs

\* The structure that is written back has the type of the one that was read.
LEMMA ReplacedFits ==
  ASSUME UlimitInv, NEW s \in Shells, call[s].at = "set"
  PROVE  Replaced(s) \in AnyLimit
<1>1. call[s] \in ActiveCall /\ Asks(s) \in Resources
  BY DEF UlimitInv, CallsOK, AtPlace, NoUlimit
<1>2. Newlimit(call[s].limit, Asks(s)) \in 0..RLIM_INFINITY
  BY <1>1, NewlimitFits DEF ActiveCall
<1>3. call[s].got[Asks(s)] \in AnyLimit
  BY <1>1 DEF ActiveCall
<1> QED BY <1>2, <1>3 DEF Replaced, AnyLimit

-----------------------------------------------------------------------------
(* Every step keeps the invariant.  CallInv is what it says of one shell.  *)

CurrentAt(s) ==
  call[s].at = "set" /\ Asks(s) \notin call[s].disturbed =>
    call[s].got[Asks(s)] = limits[Asks(s)]

KeptAt(s) ==
  call[s] # NoUlimit /\ call[s].limit.kind \in {"number", "unlimited"} /\ call[s].at # "all" =>
    \A k \in 1..(call[s].j - 1) : Kept(s, k)

CallInv(s) == AtPlace(s) /\ CurrentAt(s) /\ KeptAt(s)

\* The invariant is the types and CallInv of every shell.
LEMMA InvOfCalls ==
  UlimitInv <=> /\ limits \in [Resources -> Rlimit]
                /\ call \in [Shells -> ActiveCall \cup {NoUlimit}]
                /\ \A s \in Shells : CallInv(s)
BY DEF UlimitInv, CallsOK, LimitsAsAsked, ReadIsCurrent, CallInv,
             CurrentAt, KeptAt

\* A shell is not disturbed while the limits stay and its call stays.
LEMMA IdleCallKept ==
  ASSUME NEW s \in Shells, CallInv(s), limits' = limits, call'[s] = call[s]
  PROVE  CallInv(s)'
<1>1. AtPlace(s)' /\ CurrentAt(s)'
  BY DEF CallInv, AtPlace, CurrentAt, Asks
<1>2. KeptAt(s)'
  BY DEF CallInv, KeptAt, Kept, Wanted, Overflows
<1> QED BY <1>1, <1>2 DEF CallInv

\* So only the call that makes the step remains.
LEMMA OneCallChanges ==
  ASSUME UlimitInv, NEW s \in Shells, NEW c \in ActiveCall \cup {NoUlimit},
         limits' = limits, call' = [call EXCEPT ![s] = c], CallInv(s)'
  PROVE  UlimitInv'
<1>1. call' \in [Shells -> ActiveCall \cup {NoUlimit}]
  BY InvOfCalls
<1>2. ASSUME NEW t \in Shells PROVE CallInv(t)'
  <2>1. CASE t = s
    BY <2>1
  <2>2. CASE t # s
    BY <2>2, InvOfCalls, IdleCallKept
  <2> QED BY <2>1, <2>2
<1>3. (limits \in [Resources -> Rlimit])'
  BY InvOfCalls
<1> QED
  BY <1>1, <1>2, <1>3 DEF UlimitInv, CallsOK, LimitsAsAsked, ReadIsCurrent,
                                CallInv, CurrentAt, KeptAt

\* What a passed letter has stays when its limit and what was read of it stay.
LEMMA KeptAgain ==
  ASSUME NEW s \in Shells, NEW k, Kept(s, k), NEW r, r = call[s].options[k],
         call'[s].options = call[s].options, call'[s].limit = call[s].limit,
         call'[s].which = call[s].which,
         r \notin call'[s].disturbed => /\ r \notin call[s].disturbed
                                        /\ limits'[r] = limits[r]
                                        /\ call'[s].got[r] = call[s].got[r]
  PROVE  Kept(s, k)'
BY DEF Kept, Wanted, Overflows

\* A new call has passed no letter.
LEMMA StartKeeps ==
  ASSUME UlimitInv, NEW s \in Shells, UlimitStart(s)
  PROVE  UlimitInv'
<1>1. PICK options \in Seq(STRING), limit \in LimitArgs : UlimitFunc(s, options, limit)
  BY DEF UlimitStart
<1> DEFINE c == [at |-> IF "a" \in Letters(options) THEN "all" ELSE "option",
                 which |-> Which(options), options |-> Selected(options), limit |-> limit, j |-> 1,
                 got |-> [r \in Resources |-> [cur |-> 0, max |-> 0]], disturbed |-> {}]
<1>2. limits' = limits /\ call' = [call EXCEPT ![s] = c]
  BY <1>1 DEF UlimitStart, UlimitFunc
<1>3. c \in ActiveCall
  <2>1. Which(options) \in SUBSET {"S", "H"}
    BY DEF Which
  <2>2. <<"f">> \in Seq(STRING)
    BY UlimitAssumption
  <2>3. Selected(options) \in Seq(STRING)
    BY <2>2 DEF Selected
  <2>4. [r \in Resources |-> [cur |-> 0, max |-> 0]] \in [Resources -> AnyLimit]
    BY UlimitAssumption DEF AnyLimit, RLIM_INFINITY
  <2> QED BY <2>1, <2>3, <2>4 DEF ActiveCall
<1>4. call'[s] = c
  BY <1>2 DEF UlimitInv, CallsOK
<1>5. CallInv(s)'
  BY <1>4 DEF CallInv, AtPlace, CurrentAt, KeptAt
<1> QED BY <1>2, <1>3, <1>5, OneCallChanges

\* Showing all limits passes none either.
LEMMA ShowAllKeeps ==
  ASSUME UlimitInv, NEW s \in Shells, ShowAll(s)
  PROVE  UlimitInv'
<1>1. call[s] \in ActiveCall /\ call[s].j = 1
  BY DEF ShowAll, UlimitInv, CallsOK, AtPlace, NoUlimit
<1> DEFINE c == [call[s] EXCEPT !.at = "done"]
<1>2. limits' = limits /\ call' = [call EXCEPT ![s] = c] /\ c \in ActiveCall
  BY <1>1 DEF ShowAll, ActiveCall
<1>3. call'[s] = c /\ c.j = 1 /\ c.at = "done"
  BY <1>1, <1>2 DEF UlimitInv, CallsOK, ActiveCall
<1>4. CallInv(s)'
  BY <1>3 DEF CallInv, AtPlace, CurrentAt, KeptAt
<1> QED BY <1>2, <1>4, OneCallChanges

\* A shell without a call asks for nothing.
LEMMA ReturnKeeps ==
  ASSUME UlimitInv, NEW s \in Shells, UlimitReturn(s)
  PROVE  UlimitInv'
<1>1. limits' = limits /\ call' = [call EXCEPT ![s] = NoUlimit]
  BY DEF UlimitReturn
<1>2. call'[s] = NoUlimit
  BY <1>1 DEF UlimitInv, CallsOK
<1>3. CallInv(s)'
  BY <1>2 DEF CallInv, AtPlace, CurrentAt, KeptAt, NoUlimit
<1> QED BY <1>1, <1>3, OneCallChanges

\* A letter that is read comes later than those that are passed for good.
LEMMA NextOptionKeeps ==
  ASSUME UlimitInv, NEW s \in Shells, NextOption(s)
  PROVE  UlimitInv'
<1>1. call[s] \in ActiveCall /\ CallInv(s) /\ call[s].at = "option" /\ limits' = limits
  BY InvOfCalls DEF NextOption, NoUlimit
<1> DEFINE read == Getrlimit(s)
<1>2. ASSUME NEW c \in ActiveCall, call' = [call EXCEPT ![s] = c],
             c.options = call[s].options, c.limit = call[s].limit, c.which = call[s].which,
             c.at # "all",
             c.at = "set" => /\ c.j = call[s].j /\ c.j <= Len(c.options)
                             /\ Asks(s) \in Resources /\ c.got[Asks(s)] = limits[Asks(s)]
                             /\ c.limit.kind \in {"number", "unlimited"},
             c.j # call[s].j => /\ c.j = call[s].j + 1
                                /\ Asks(s) \notin Resources \/ c.limit.kind = "missing",
             \/ c.got = call[s].got /\ c.disturbed = call[s].disturbed
             \/ /\ call[s].j <= Len(call[s].options)
                /\ c.got = read.got /\ c.disturbed = read.disturbed
      PROVE  UlimitInv'
  <2>1. call'[s] = c
    BY <1>2 DEF UlimitInv, CallsOK
  <2>2. ASSUME NEW k \in 1..(c.j - 1), c.limit.kind \in {"number", "unlimited"} PROVE Kept(s, k)'
    <3>1. CASE k = call[s].j
      BY <1>2, <2>1, <2>2, <3>1 DEF Kept, Asks, ActiveCall
    <3>2. CASE k # call[s].j
      <4>1. k \in 1..(call[s].j - 1) /\ Kept(s, k)
        BY <1>1, <1>2, <2>2, <3>2 DEF CallInv, KeptAt, NoUlimit, ActiveCall
      <4>2. CASE c.got = call[s].got /\ c.disturbed = call[s].disturbed
        BY <1>1, <1>2, <2>1, <4>1, <4>2, KeptAgain
      <4>3. CASE /\ call[s].j <= Len(call[s].options) /\ call[s].options[k] = Asks(s)
                 /\ c.options = call[s].options
        BY <1>1, <2>1, <4>1, <4>3 DEF Kept, Asks, ActiveCall
      <4>4. CASE /\ call[s].options[k] # Asks(s)
                 /\ c.got = read.got /\ c.disturbed = read.disturbed
        <5>1. DEFINE r == call[s].options[k]
        <5>2. r \notin c.disturbed => r \notin call[s].disturbed /\ c.got[r] = call[s].got[r]
          BY <1>1, <4>4 DEF ActiveCall, Getrlimit
        <5> QED BY <1>1, <1>2, <2>1, <4>1, <5>2, KeptAgain
      <4> QED BY <1>2, <4>2, <4>3, <4>4
    <3> QED BY <3>1, <3>2
  <2>3. AtPlace(s)' /\ CurrentAt(s)'
    BY <1>1, <1>2, <2>1 DEF AtPlace, CurrentAt, Asks
  <2>4. KeptAt(s)'
    BY <2>1, <2>2 DEF KeptAt
  <2> QED BY <1>1, <1>2, <2>3, <2>4, OneCallChanges DEF CallInv
<1>3. call' = [call EXCEPT ![s] = AfterOption(s)]
  BY DEF NextOption
<1>4. CASE call[s].j > Len(call[s].options)
  <2> DEFINE c == [call[s] EXCEPT !.at = "done"]
  <2>1. AfterOption(s) = c /\ c \in ActiveCall
    BY <1>1, <1>4 DEF AfterOption, ActiveCall
  <2> QED BY <1>1, <1>2, <1>3, <2>1 DEF ActiveCall
<1>5. CASE call[s].j <= Len(call[s].options) /\ Asks(s) \notin Resources
  <2> DEFINE c == [call[s] EXCEPT !.j = call[s].j + 1]
  <2>1. AfterOption(s) = c /\ c \in ActiveCall
    BY <1>1, <1>5 DEF AfterOption, ActiveCall
  <2> QED BY <1>1, <1>2, <1>3, <1>5, <2>1 DEF ActiveCall
<1>6. CASE call[s].j <= Len(call[s].options) /\ Asks(s) \in Resources
  <2>1. limits[Asks(s)] \in AnyLimit
    BY <1>6 DEF UlimitInv, Rlimit, AnyLimit
  <2>2. /\ read \in ActiveCall /\ read.got[Asks(s)] = limits[Asks(s)]
        /\ read.at = "option" /\ read.options = call[s].options /\ read.j = call[s].j
        /\ read.limit = call[s].limit /\ read.which = call[s].which
    BY <1>1, <1>6, <2>1 DEF ActiveCall, Getrlimit
  <2>3. CASE call[s].limit.kind = "missing"
    <3> DEFINE c == [read EXCEPT !.j = call[s].j + 1]
    <3>1. AfterOption(s) = c
      BY <1>1, <1>6, <2>3 DEF AfterOption, ActiveCall
    <3> HIDE DEF read
    <3>2. c \in ActiveCall /\ c.got = read.got /\ c.disturbed = read.disturbed
      BY <1>1, <2>2 DEF ActiveCall
    <3> QED BY <1>1, <1>2, <1>3, <1>6, <2>2, <2>3, <3>1, <3>2 DEF ActiveCall
  <2>4. CASE call[s].limit.kind = "bad"
    <3> DEFINE c == [read EXCEPT !.at = "done"]
    <3>1. AfterOption(s) = c
      BY <1>1, <1>6, <2>4 DEF AfterOption, ActiveCall
    <3> HIDE DEF read
    <3>2. c \in ActiveCall /\ c.got = read.got /\ c.disturbed = read.disturbed
      BY <1>1, <2>2 DEF ActiveCall
    <3> QED BY <1>1, <1>2, <1>3, <1>6, <2>2, <2>4, <3>1, <3>2 DEF ActiveCall
  <2>5. CASE call[s].limit.kind \in {"number", "unlimited"}
    <3> DEFINE c == [read EXCEPT !.at = "set"]
    <3>1. AfterOption(s) = c
      BY <1>1, <1>6, <2>5 DEF AfterOption, ActiveCall
    <3> HIDE DEF read
    <3>2. c \in ActiveCall /\ c.got = read.got /\ c.disturbed = read.disturbed
      BY <1>1, <2>2 DEF ActiveCall
    <3> QED BY <1>1, <1>2, <1>3, <1>6, <2>2, <2>5, <3>1, <3>2 DEF ActiveCall
  <2> QED BY <1>1, <2>3, <2>4, <2>5 DEF ActiveCall, LimitArgs
<1> QED BY <1>1, <1>4, <1>5, <1>6 DEF ActiveCall

\* The call that sets a limit has not passed its letter for good before; others
\* that have are disturbed.
LEMMA SetLimitKeeps ==
  ASSUME UlimitInv, NEW s \in Shells, SetLimit(s)
  PROVE  UlimitInv'
<1>1. /\ call[s] \in ActiveCall /\ CallInv(s) /\ call[s].at = "set"
      /\ call[s].j <= Len(call[s].options) /\ Asks(s) \in Resources
      /\ call[s].limit.kind \in {"number", "unlimited"}
  <2>0. call[s].at = "set"
    BY DEF SetLimit
  <2>1. call[s].at = "set" /\ call[s] # NoUlimit
    BY <2>0 DEF NoUlimit
  <2>2. call[s] \in ActiveCall \cup {NoUlimit} /\ CallInv(s)
    BY InvOfCalls
  <2> QED BY <2>1, <2>2 DEF CallInv, AtPlace
<1>2. CASE ~Setrlimit(limits[Asks(s)], Replaced(s))
  <2> DEFINE c == [call[s] EXCEPT !.at = "done"]
  <2>1. limits' = limits /\ call' = [call EXCEPT ![s] = c] /\ c \in ActiveCall
    BY <1>1, <1>2 DEF SetLimit, ActiveCall
  <2>2. call'[s] = c
    BY <2>1 DEF UlimitInv, CallsOK
  <2>3. ASSUME NEW k \in 1..(call[s].j - 1) PROVE Kept(s, k)'
    <3>1. Kept(s, k)
      BY <1>1, <2>3 DEF CallInv, KeptAt, NoUlimit
    <3> QED BY <1>1, <2>1, <2>2, <3>1, KeptAgain DEF ActiveCall
  <2>4. CallInv(s)'
    BY <1>1, <2>2, <2>3 DEF CallInv, AtPlace, CurrentAt, KeptAt, ActiveCall
  <2> QED BY <2>1, <2>4, OneCallChanges
<1>3. CASE Setrlimit(limits[Asks(s)], Replaced(s))
  <2> DEFINE r == Asks(s)
             new == Replaced(s)
  <2>1. limits' = [limits EXCEPT ![r] = new]
    BY <1>3 DEF SetLimit
  <2>2. limits' \in [Resources -> Rlimit]
    <3>1. new \in Rlimit
      BY <1>1, <1>3, ReplacedFits DEF Setrlimit, Rlimit, AnyLimit
    <3> QED BY <1>1, <2>1, <3>1 DEF UlimitInv
  <2>3. call'[s] = [call[s] EXCEPT !.j = call[s].j + 1, !.at = "option"]
    BY <1>3 DEF SetLimit
  <2>4. ASSUME NEW t \in Shells \ {s}
        PROVE  call'[t] = IF call[t] = NoUlimit THEN NoUlimit
                          ELSE [call[t] EXCEPT !.disturbed = call[t].disturbed \cup {r}]
    BY <1>3, <2>4 DEF SetLimit
  <2>5. ASSUME NEW t \in Shells
        PROVE  call'[t] \in ActiveCall \cup {NoUlimit} /\ CallInv(t)'
    <3>1. CASE t = s
      <4> DEFINE c == [call[s] EXCEPT !.j = call[s].j + 1, !.at = "option"]
      <4>1. /\ call'[s] = c /\ c \in ActiveCall /\ c.j = call[s].j + 1 /\ c.at = "option"
            /\ c.options = call[s].options /\ c.limit = call[s].limit /\ c.which = call[s].which
            /\ c.got = call[s].got /\ c.disturbed = call[s].disturbed
        <5>1. call'[s] = c
          BY <2>3
        <5>2. c \in ActiveCall
          <6>1. call[s].j + 1 \in Nat \ {0}
            BY <1>1 DEF ActiveCall
          <6>2. [call[s] EXCEPT !.j = call[s].j + 1] \in ActiveCall
            BY <1>1, <6>1 DEF ActiveCall
          <6>3. c = [[call[s] EXCEPT !.j = call[s].j + 1] EXCEPT !.at = "option"]
            OBVIOUS
          <6> QED BY <6>2, <6>3 DEF ActiveCall
        <5>3. c.j = call[s].j + 1 /\ c.at = "option"
          BY <1>1 DEF ActiveCall
        <5> QED BY <1>1, <5>1, <5>2, <5>3 DEF ActiveCall
      <4> HIDE DEF c
      <4>2. ASSUME NEW k, k = call[s].j PROVE Kept(s, k)'
        <5>1. ~Overflows(call[s].limit, r) => Newlimit(call[s].limit, r) = Wanted(call[s].limit, r)
          BY <1>1, NewlimitIsWanted DEF ActiveCall
        <5>2. limits'[r] = new
          BY <1>1, <2>1 DEF UlimitInv
        <5>3. r \notin call[s].disturbed /\ ~Overflows(call[s].limit, r) =>
                /\ new.cur = IF "S" \in call[s].which
                             THEN Wanted(call[s].limit, r) ELSE call[s].got[r].cur
                /\ new.max = IF "H" \in call[s].which
                             THEN Wanted(call[s].limit, r) ELSE call[s].got[r].max
          BY <5>1 DEF Replaced
        <5>4. call'[s].options[k] = r
          BY <4>1, <4>2 DEF Asks
        <5> HIDE DEF r, new
        <5> QED BY <4>1, <5>2, <5>3, <5>4 DEF Kept, Wanted, Overflows
      <4>3. ASSUME NEW k \in 1..(call[s].j - 1) PROVE Kept(s, k)'
        <5>1. Kept(s, k)
          BY <1>1, <4>3 DEF CallInv, KeptAt, NoUlimit
        <5>2. CASE call[s].options[k] = r
          BY <1>1, <4>1, <4>3, <5>2 DEF Kept, Asks, ActiveCall
        <5>3. CASE call[s].options[k] # r
          <6>1. limits'[call[s].options[k]] = limits[call[s].options[k]]
            BY <2>1, <5>3 DEF UlimitInv
          <6> QED BY <4>1, <5>1, <6>1, KeptAgain
        <5> QED BY <5>2, <5>3
      <4>4. KeptAt(s)'
        <5>1. \A k \in 1..(call'[s].j - 1) : k = call[s].j \/ k \in 1..(call[s].j - 1)
          BY <1>1, <4>1 DEF ActiveCall
        <5> QED BY <4>2, <4>3, <5>1 DEF KeptAt
      <4> QED BY <3>1, <4>1, <4>4 DEF CallInv, AtPlace, CurrentAt
    <3>2. CASE t # s /\ call[t] = NoUlimit
      BY <2>4, <3>2 DEF CallInv, AtPlace, CurrentAt, KeptAt, NoUlimit
    <3>3. CASE t # s /\ call[t] # NoUlimit
      <4> DEFINE c == [call[t] EXCEPT !.disturbed = call[t].disturbed \cup {r}]
      <4>1. call[t] \in ActiveCall /\ CallInv(t)
        BY <3>3, InvOfCalls
      <4>2. /\ call'[t] = c /\ c \in ActiveCall /\ c.j = call[t].j /\ c.at = call[t].at
            /\ c.options = call[t].options /\ c.limit = call[t].limit /\ c.which = call[t].which
            /\ c.got = call[t].got /\ c.disturbed = call[t].disturbed \cup {r}
        BY <1>1, <2>4, <3>3, <4>1 DEF ActiveCall
      <4> HIDE DEF c
      <4>3. \A q : q # r => limits'[q] = limits[q]
        BY <2>1 DEF UlimitInv
      <4>4. AtPlace(t)' /\ CurrentAt(t)'
        BY <4>1, <4>2, <4>3 DEF CallInv, AtPlace, CurrentAt, Asks
      <4>5. ASSUME NEW k \in 1..(call[t].j - 1), Kept(t, k) PROVE Kept(t, k)'
        BY <4>2, <4>3, <4>5, KeptAgain
      <4>6. KeptAt(t)'
        BY <3>3, <4>1, <4>2, <4>5 DEF CallInv, KeptAt
      <4> QED BY <4>2, <4>4, <4>6 DEF CallInv
    <3> QED BY <3>1, <3>2, <3>3
  <2>6. call' \in [Shells -> ActiveCall \cup {NoUlimit}]
    <3>1. call' = [t \in Shells |-> call'[t]]
      BY <1>3 DEF SetLimit
    <3> QED BY <2>5, <3>1
  <2> QED
    BY <2>2, <2>5, <2>6
    DEF UlimitInv, CallsOK, LimitsAsAsked, ReadIsCurrent, CallInv, CurrentAt, KeptAt
<1> QED BY <1>2, <1>3

-----------------------------------------------------------------------------
(* The theorems.                                                           *)

\* UlimitInv is inductive: one lemma for each action.
LEMMA InvHolds == UlimitSpec => []UlimitInv
<1>1. UlimitInit => UlimitInv
  BY DEF UlimitInit, UlimitInv, CallsOK, AtPlace, LimitsAsAsked, ReadIsCurrent, NoUlimit
<1>2. UlimitInv /\ [UlimitNext]_limitVars => UlimitInv'
  <2> SUFFICES ASSUME UlimitInv, [UlimitNext]_limitVars PROVE UlimitInv'
    OBVIOUS
  <2>1. CASE UNCHANGED limitVars
    BY <2>1 DEF limitVars, UlimitInv, CallsOK, AtPlace, LimitsAsAsked, ReadIsCurrent, Kept, Asks,
                Wanted, Overflows
  <2>2. CASE UlimitNext
    BY <2>2, StartKeeps, ShowAllKeeps, NextOptionKeeps, SetLimitKeeps, ReturnKeeps
    DEF UlimitNext, UlimitStep
  <2> QED BY <2>1, <2>2
<1> QED BY <1>1, <1>2, PTL DEF UlimitSpec

\* The limits are numbers that fit into rlim_t, soft below hard, whatever is
\* asked for and however many shells ask.
LEMMA LimitsWellFormed == UlimitSpec => []UlimitTypeOK
<1>1. UlimitInv => UlimitTypeOK
  BY DEF UlimitInv, CallsOK, ActiveCall, NoUlimit, UlimitTypeOK
<1> QED BY <1>1, InvHolds, PTL

\* Each letter a call has passed has the limit asked for, soft, hard or both,
\* and the rest of it as it was when read, until another call sets the same one.
THEOREM LimitsCorrect == UlimitSpec => []LimitsAsAsked
<1>1. UlimitInv => LimitsAsAsked
  BY DEF UlimitInv
<1> QED BY <1>1, InvHolds, PTL

-----------------------------------------------------------------------------
(* ulimit in a shell.                                                      *)

\* Every step of every command - those of eval, cp and the others, which may
\* run ulimit inside - is a step of ulimit or leaves the limits alone.
LEMMA CallsSetLimits ==
  ASSUME CallStep \/ SleepAgain
  PROVE  [UlimitNext]_limitVars
<1>1. Main \in Shells
  BY RedirectAssumption
<1>2. CASE UlimitBegin
  <2>1. Top.line \in Commands /\ Command.op = "ulimit"
    BY <1>2 DEF UlimitBegin, At
  <2>2. Command.options \in Seq(STRING) /\ Command.limit \in LimitArgs
    BY <2>1, RedirectAssumption DEF Command, Meanings
  <2>3. UlimitStart(Main)
    BY <1>2, <2>2 DEF UlimitBegin, UlimitStart
  <2> QED BY <1>1, <2>3 DEF UlimitNext
<1>3. CASE UlimitLetter
  BY <1>1, <1>3 DEF UlimitLetter, UlimitNext
<1>4. CASE UlimitEnd
  BY <1>1, <1>4 DEF UlimitEnd, UlimitNext
<1>5. CASE Return
  BY <1>5 DEF Return, Unknown, EvalTooLong, SleepRefused, EvalEnd
<1>6. CASE EchoFunc \/ ExecFunc
  BY <1>6 DEF EchoFunc, ExecFunc
<1>7. CASE EvalCapture \/ EvalRestore \/ EvalOutput
  BY <1>7 DEF EvalCapture, EvalRestore, EvalOutput
<1>8. CASE ListRecordsOpen \/ ListRecordsDbl \/ ListRecordsClose
  BY <1>8 DEF ListRecordsOpen, ListRecordsDbl, ListRecordsClose
<1>9. CASE CpSource \/ CpTarget \/ CpCopy \/ CpClose
  BY <1>9 DEF CpSource, CpTarget, CpCopy, CpClose
<1>10. CASE SleepFunc \/ SleepTick \/ SleepEnd \/ SleepAgain
  BY <1>10 DEF SleepFunc, SleepTick, SleepEnd, SleepAgain
<1> QED BY <1>2, <1>3, <1>4, <1>5, <1>6, <1>7, <1>8, <1>9, <1>10 DEF CallStep

\* What is typed does not change its type.
LEMMA SessionStays == Spec => [](session \in Sessions)
<1>1. Init => session \in Sessions
  BY DEF Init
<1>2. session \in Sessions /\ [Next]_vars => (session \in Sessions)'
  BY DEF Next, Type, Run, Signal, Peer, historyVars, vars
<1> QED BY <1>1, <1>2, PTL DEF Spec

\* The shells set limits only as UlimitSpec does.
LEMMA ShellsSetLimits == Spec => UlimitSpec
<1>1. Init => UlimitInit
  <2> SUFFICES ASSUME Init PROVE UlimitInit
    OBVIOUS
  <2>1. session.root \in BOOLEAN
    BY ShellAssumption DEF Init
  <2> QED BY <2>1, ShellAssumption DEF Init, UlimitInit
<1>2. session \in Sessions /\ [Next]_vars => [UlimitNext]_limitVars
  <2> SUFFICES ASSUME session \in Sessions, Next PROVE [UlimitNext]_limitVars
    BY DEF vars
  <2>1. CASE Run \/ Signal
    BY <2>1, CallsSetLimits DEF Run, Signal
  <2>2. ASSUME NEW line \in session.lines, Type(line) PROVE UNCHANGED limitVars
    BY <2>2 DEF Type
  <2>3. ASSUME NEW s \in Shells, Peer(s) PROVE UlimitNext
    <3>1. \A c \in session.peer : c.options \in Seq(STRING) /\ c.limit \in LimitArgs
      BY ShellAssumption
    <3>2. UlimitStart(s) \/ UlimitStep(s) \/ UlimitReturn(s)
      BY <2>3, <3>1 DEF Peer, UlimitStart
    <3> QED BY <3>2 DEF UlimitNext
  <2> QED BY <2>1, <2>2, <2>3 DEF Next
<1> QED BY <1>1, <1>2, SessionStays, PTL DEF Spec, UlimitSpec

-----------------------------------------------------------------------------
(* The open streams and the calls that hold them.                          *)

Place == {"begin", "captured", "output", "end", "list", "close", "target", "copy", "limits",
          "sleeping"}
FrameType ==
  [line : STRING, at : Place, stream : Nat, orig : Nat, source : Nat, buffer : Text, outer : Nat]
StreamType == [file : Files \cup {Memory}, text : Text]

Op(f) == Meaning[f.line].op

\* The open streams of a call
Held(f) == IF f.at \in {"output", "end"} THEN {} ELSE {f.stream, f.source} \ {Console}

\* The call has redirected stdout.
Redirects(f) ==
  \/ f.at = "captured"
  \/ f.at \in {"list", "close"} /\ Op(f) = "listRecords" /\ f.stream # Console

\* stdout as long as the call runs nothing else
OutOf(f) == IF Redirects(f) THEN f.stream ELSE f.outer

\* What is known of a call at each place
FrameOK(f) ==
  /\ f.at = "begin" => f.stream = Console /\ f.source = Console
  /\ f.at # "begin" => f.line \in Commands
  /\ f.at \in {"captured", "output", "end"} => Op(f) = "eval"
  /\ f.at = "captured" => f.stream # Console /\ f.source = Console
  /\ f.at = "list" => Op(f) = "listRecords" /\ f.source = Console
  /\ f.at \in {"target", "copy"} => Op(f) = "cp"
  /\ f.at = "target" => f.stream = Console
  /\ f.at = "close" => Op(f) \in {"listRecords", "cp"}
  /\ f.at = "close" /\ Op(f) = "listRecords" => f.stream # Console /\ f.source = Console
  /\ f.at \in {"copy", "close"} /\ Op(f) = "cp" =>
       /\ f.stream = Console <=> Meaning[f.line].target = None
       /\ f.source # Console => f.source # f.stream
  /\ f.at = "limits" => Op(f) = "ulimit" /\ f.stream = Console /\ f.source = Console
  /\ f.at = "sleeping" => Op(f) = "sleep" /\ f.stream = Console /\ f.source = Console
  /\ Redirects(f) => f.orig = f.outer

\* The calls s, the open streams d, those that are lost l, and stdout o fit
\* together: each call has as stdout what the one around it has made of it,
\* and each stream is held by one call.
StackOK(s, d, l, o) ==
  /\ \A k \in 1..Len(s) : FrameOK(s[k])
  /\ \A k \in 1..(Len(s) - 1) : s[k].at \in {"captured", "end"} /\ s[k + 1].outer = OutOf(s[k])
  /\ s = <<>> => o = Console
  /\ s # <<>> => s[1].outer = Console /\ o = OutOf(s[Len(s)])
  /\ \A k \in 1..Len(s) : s[k].outer = Console \/ \E j \in 1..(k - 1) : s[k].outer \in Held(s[j])
  /\ \A j, k \in 1..Len(s) : j # k => Held(s[j]) \cap Held(s[k]) = {}
  /\ \A k \in 1..Len(s) : Held(s[k]) \cap l = {}
  /\ \A i : i \in d <=> i \in l \/ \E k \in 1..Len(s) : i \in Held(s[k])

\* stdout is a stream of a call or the console.
LEMMA StdoutIsHeld ==
  ASSUME NEW s \in Seq(FrameType), NEW d, NEW l, NEW o, StackOK(s, d, l, o)
  PROVE  o = Console \/ \E j \in 1..Len(s) : o \in Held(s[j])
<1>1. CASE s = <<>>
  BY <1>1 DEF StackOK
<1>2. CASE s # <<>>
  <2>1. Len(s) \in Nat \ {0} /\ Len(s) \in 1..Len(s)
    BY <1>2, EmptySeq
  <2>2. CASE Redirects(s[Len(s)])
    <3>1. FrameOK(s[Len(s)]) /\ o = s[Len(s)].stream
      BY <1>2, <2>1, <2>2 DEF StackOK, OutOf
    <3>2. o \in Held(s[Len(s)])
      BY <2>2, <3>1 DEF Held, Redirects, FrameOK
    <3> QED BY <2>1, <3>2
  <2>3. CASE ~Redirects(s[Len(s)])
    <3>1. o = s[Len(s)].outer
      BY <1>2, <2>1, <2>3 DEF StackOK, OutOf
    <3>2. o = Console \/ \E j \in 1..(Len(s) - 1) : o \in Held(s[j])
      BY <2>1, <3>1 DEF StackOK
    <3> QED BY <2>1, <3>2
  <2> QED BY <2>2, <2>3
<1> QED BY <1>1, <1>2

\* The calls around a call, and they with another one
LEMMA AroundTop ==
  ASSUME NEW s \in Seq(FrameType), s # <<>>
  PROVE  /\ Len(s) \in Nat \ {0} /\ Last(s) = s[Len(s)] /\ Last(s) \in FrameType
         /\ Front(s) \in Seq(FrameType) /\ Len(Front(s)) = Len(s) - 1
         /\ \A k \in 1..(Len(s) - 1) : Front(s)[k] = s[k]
<1>1. Len(s) \in Nat \ {0}
  BY EmptySeq
<1>2. Last(s) = s[Len(s)] /\ Last(s) \in FrameType
  BY <1>1 DEF Last
<1> DEFINE n == Len(s) - 1
<1>3. n \in Int /\ 1 \in Int /\ \A i \in 1..n : s[i] \in FrameType
  BY <1>1
<1>4. /\ SubSeq(s, 1, Len(s) - 1) \in Seq(FrameType)
      /\ Len(SubSeq(s, 1, Len(s) - 1)) = Len(s) - 1
      /\ \A k \in 1..(Len(s) - 1) : SubSeq(s, 1, Len(s) - 1)[k] = s[k]
  <2>1. n - 1 + 1 = n /\ \A k \in 1..n : 1 + k - 1 = k
    BY <1>1
  <2>2. /\ SubSeq(s, 1, n) \in Seq(FrameType)
        /\ Len(SubSeq(s, 1, n)) = IF 1 <= n THEN n - 1 + 1 ELSE 0
        /\ \A k \in 1..(n - 1 + 1) : SubSeq(s, 1, n)[k] = s[1 + k - 1]
    <3> HIDE DEF n
    <3> QED BY <1>3, SubSeqProperties
  <2> QED BY <1>1, <2>1, <2>2
<1> QED BY <1>1, <1>2, <1>4 DEF Front

\* A call on top of the stack leaves the ones below it where they were.
LEMMA WithOneMore ==
  ASSUME NEW s \in Seq(FrameType), NEW f \in FrameType
  PROVE  /\ Append(s, f) \in Seq(FrameType) /\ Len(Append(s, f)) = Len(s) + 1
         /\ Len(s) \in Nat
         /\ \A k \in 1..Len(s) : Append(s, f)[k] = s[k]
         /\ Append(s, f)[Len(s) + 1] = f
BY AppendProperties

-----------------------------------------------------------------------------
(* A call goes on, returns, or runs another one.                           *)

\* It has other streams, which nobody else holds.
LEMMA GoesOn ==
  ASSUME NEW s \in Seq(FrameType), s # <<>>, NEW d, NEW l, NEW o, StackOK(s, d, l, o),
         NEW f \in FrameType, FrameOK(f), f.outer = Last(s).outer,
         NEW t, t = Append(Front(s), f), NEW e,
         e = (d \ Held(Last(s))) \cup Held(f), Held(f) \cap (d \ Held(Last(s))) = {}
  PROVE  t \in Seq(FrameType) /\ Len(t) = Len(s) /\ Last(t) = f /\ StackOK(t, e, l, OutOf(f))
<1> DEFINE n == Len(s)
<1>1. /\ n \in Nat \ {0} /\ Last(s) = s[n]
      /\ Front(s) \in Seq(FrameType) /\ Len(Front(s)) = n - 1
      /\ \A k \in 1..(n - 1) : Front(s)[k] = s[k]
  BY AroundTop
<1>2. /\ t \in Seq(FrameType) /\ Len(t) = n /\ t[n] = f
      /\ \A k \in 1..(n - 1) : t[k] = s[k]
  <2>1. /\ t \in Seq(FrameType) /\ Len(t) = Len(Front(s)) + 1
        /\ \A k \in 1..Len(Front(s)) : t[k] = Front(s)[k]
        /\ t[Len(Front(s)) + 1] = f
    BY <1>1, WithOneMore
  <2> QED BY <1>1, <2>1
<1>3. t # <<>> /\ Last(t) = f
  BY <1>1, <1>2 DEF Last
<1>4. \A k \in 1..n : k = n \/ k \in 1..(n - 1)
  BY <1>1
<1> HIDE DEF n
<1>5. \A k \in 1..n : FrameOK(t[k])
  BY <1>2, <1>4 DEF StackOK, n
<1>6. \A k \in 1..(n - 1) : t[k].at \in {"captured", "end"} /\ t[k + 1].outer = OutOf(t[k])
  <2> SUFFICES ASSUME NEW k \in 1..(n - 1)
               PROVE  t[k].at \in {"captured", "end"} /\ t[k + 1].outer = OutOf(t[k])
    OBVIOUS
  <2>1. s[k].at \in {"captured", "end"} /\ s[k + 1].outer = OutOf(s[k])
    BY DEF StackOK, n
  <2>2. t[k + 1].outer = s[k + 1].outer
    BY <1>1, <1>2, <1>4
  <2> QED BY <1>2, <2>1, <2>2
<1>7. t[1].outer = Console
  <2>1. s[1].outer = Console /\ 1 \in 1..n
    BY <1>1 DEF StackOK
  <2> QED BY <1>1, <1>2, <1>4, <2>1
<1>8. \A k \in 1..n : t[k].outer = Console \/ \E j \in 1..(k - 1) : t[k].outer \in Held(t[j])
  <2> SUFFICES ASSUME NEW k \in 1..n, t[k].outer # Console
               PROVE  \E j \in 1..(k - 1) : t[k].outer \in Held(t[j])
    OBVIOUS
  <2>1. t[k].outer = s[k].outer
    BY <1>1, <1>2, <1>4
  <2>2. PICK j \in 1..(k - 1) : s[k].outer \in Held(s[j])
    BY <2>1 DEF StackOK, n
  <2>3. t[j] = s[j]
    BY <1>1, <1>2
  <2> QED BY <2>1, <2>2, <2>3
<1>9. \A k \in 1..(n - 1) : \A i : i \in Held(s[k]) => i \in d /\ i \notin Held(s[n]) /\ i \notin l
  <2> SUFFICES ASSUME NEW k \in 1..(n - 1), NEW i \in Held(s[k])
               PROVE  i \in d /\ i \notin Held(s[n]) /\ i \notin l
    OBVIOUS
  <2>1. k \in 1..n /\ n \in 1..n /\ k # n
    BY <1>1
  <2> QED BY <2>1 DEF StackOK, n
<1>10. \A j, k \in 1..n : j # k => Held(t[j]) \cap Held(t[k]) = {}
  <2>1. ASSUME NEW j \in 1..n, NEW k \in 1..(n - 1), j # k PROVE Held(t[j]) \cap Held(t[k]) = {}
    <3>1. CASE j = n
      BY <1>1, <1>2, <1>9, <3>1
    <3>2. CASE j \in 1..(n - 1)
      <4>1. j \in 1..Len(s) /\ k \in 1..Len(s)
        BY <1>1, <3>2 DEF n
      <4> QED BY <1>2, <2>1, <3>2, <4>1 DEF StackOK
    <3> QED BY <1>4, <3>1, <3>2
  <2> QED BY <1>4, <2>1
<1>11. \A i \in l : i \in d /\ i \notin Held(s[n])
  BY <1>1 DEF StackOK, n
<1>12. \A k \in 1..n : Held(t[k]) \cap l = {}
  <2>1. Held(t[n]) \cap l = {}
    BY <1>1, <1>2, <1>11
  <2>2. \A k \in 1..(n - 1) : Held(t[k]) \cap l = {}
    BY <1>2, <1>9
  <2> QED BY <1>4, <2>1, <2>2
<1>13. \A i : i \in e <=> i \in l \/ \E k \in 1..n : i \in Held(t[k])
  <2> SUFFICES ASSUME NEW i
               PROVE  i \in e <=> i \in l \/ \E k \in 1..n : i \in Held(t[k])
    OBVIOUS
  <2>1. i \in d <=> i \in l \/ \E k \in 1..n : i \in Held(s[k])
    BY DEF StackOK, n
  <2>2. i \in e <=> (i \in d /\ i \notin Held(s[n])) \/ i \in Held(f)
    BY <1>1
  <2>3. n \in 1..n /\ \A k \in 1..(n - 1) : k \in 1..n
    BY <1>1
  <2>4. (\E k \in 1..n : i \in Held(t[k])) <=> i \in Held(f) \/ \E k \in 1..(n - 1) : i \in Held(s[k])
    BY <1>2, <1>4, <2>3
  <2>5. (\E k \in 1..n : i \in Held(s[k])) <=> i \in Held(s[n]) \/ \E k \in 1..(n - 1) : i \in Held(s[k])
    BY <1>4, <2>3
  <2> QED BY <1>9, <1>11, <2>1, <2>2, <2>4, <2>5
<1>14. StackOK(t, e, l, OutOf(f))
  BY <1>2, <1>3, <1>5, <1>6, <1>7, <1>8, <1>10, <1>12, <1>13 DEF StackOK
<1> QED BY <1>2, <1>3, <1>14 DEF n

\* It closes its streams but those that are lost, and leaves stdout as it
\* found it.
LEMMA ComesBack ==
  ASSUME NEW s \in Seq(FrameType), s # <<>>, NEW d, NEW l, NEW o, StackOK(s, d, l, o),
         NEW lost \in SUBSET Held(Last(s)), NEW e, e = d \ (Held(Last(s)) \ lost)
  PROVE  /\ Front(s) \in Seq(FrameType) /\ Len(Front(s)) = Len(s) - 1 /\ Len(s) \in Nat \ {0}
         /\ StackOK(Front(s), e, l \cup lost, Last(s).outer)
<1> DEFINE n == Len(s)
           t == Front(s)
<1>1. /\ n \in Nat \ {0} /\ Last(s) = s[n]
      /\ t \in Seq(FrameType) /\ Len(t) = n - 1
      /\ \A k \in 1..(n - 1) : t[k] = s[k]
  BY AroundTop
<1>2. n \in 1..n /\ \A k \in 1..n : k = n \/ k \in 1..(n - 1)
  BY <1>1
<1> HIDE DEF n, t
<1>3. \A k \in 1..(n - 1) : k \in 1..n /\ FrameOK(t[k])
  BY <1>1 DEF StackOK, n
<1>4. \A k \in 1..(n - 2) : t[k].at \in {"captured", "end"} /\ t[k + 1].outer = OutOf(t[k])
  <2> SUFFICES ASSUME NEW k \in 1..(n - 2)
               PROVE  t[k].at \in {"captured", "end"} /\ t[k + 1].outer = OutOf(t[k])
    OBVIOUS
  <2>1. k \in 1..(n - 1) /\ k + 1 \in 1..(n - 1)
    BY <1>1
  <2>2. s[k].at \in {"captured", "end"} /\ s[k + 1].outer = OutOf(s[k])
    BY <2>1 DEF StackOK, n
  <2> QED BY <1>1, <2>1, <2>2
<1>5. t = <<>> => s[n].outer = Console
  <2>1. t = <<>> => n = 1
    BY <1>1
  <2>2. s[1].outer = Console
    BY <1>1, <1>2 DEF StackOK, n
  <2> QED BY <2>1, <2>2
<1>6. t # <<>> => t[1].outer = Console /\ s[n].outer = OutOf(t[Len(t)])
  <2> SUFFICES ASSUME t # <<>> PROVE t[1].outer = Console /\ s[n].outer = OutOf(t[Len(t)])
    OBVIOUS
  <2>1. n - 1 # 0
    BY <1>1, EmptySeq
  <2>2. 1 \in 1..(n - 1) /\ n - 1 \in 1..(n - 1) /\ (n - 1) + 1 = n
    BY <1>1, <2>1
  <2>3. s[1].outer = Console
    BY <1>1, <1>2 DEF StackOK, n
  <2>4. s[n].outer = OutOf(s[n - 1])
    BY <2>2 DEF StackOK, n
  <2> QED BY <1>1, <2>2, <2>3, <2>4
<1>7. \A k \in 1..(n - 1) : t[k].outer = Console \/ \E j \in 1..(k - 1) : t[k].outer \in Held(t[j])
  <2> SUFFICES ASSUME NEW k \in 1..(n - 1), t[k].outer # Console
               PROVE  \E j \in 1..(k - 1) : t[k].outer \in Held(t[j])
    OBVIOUS
  <2>1. PICK j \in 1..(k - 1) : s[k].outer \in Held(s[j])
    BY <1>1, <1>3 DEF StackOK, n
  <2>2. j \in 1..(n - 1)
    BY <1>1
  <2> QED BY <1>1, <2>1, <2>2
<1>8. \A k \in 1..(n - 1) : \A i : i \in Held(s[k]) => i \in d /\ i \notin Held(s[n]) /\ i \notin l
  <2> SUFFICES ASSUME NEW k \in 1..(n - 1), NEW i \in Held(s[k])
               PROVE  i \in d /\ i \notin Held(s[n]) /\ i \notin l
    OBVIOUS
  <2>1. k \in 1..n /\ n \in 1..n /\ k # n
    BY <1>1
  <2> QED BY <2>1 DEF StackOK, n
<1>9. \A j, k \in 1..(n - 1) : j # k => Held(t[j]) \cap Held(t[k]) = {}
  <2> SUFFICES ASSUME NEW j \in 1..(n - 1), NEW k \in 1..(n - 1), j # k
               PROVE  Held(t[j]) \cap Held(t[k]) = {}
    OBVIOUS
  <2>1. Held(s[j]) \cap Held(s[k]) = {}
    BY <1>3 DEF StackOK, n
  <2> QED BY <1>1, <2>1
<1>10. \A k \in 1..(n - 1) : Held(t[k]) \cap (l \cup lost) = {}
  <2>1. \A i \in lost : i \in Held(s[n])
    BY <1>1
  <2> QED BY <1>1, <1>8, <2>1
<1>11. \A i : i \in e <=> i \in (l \cup lost) \/ \E k \in 1..(n - 1) : i \in Held(t[k])
  <2> SUFFICES ASSUME NEW i
               PROVE  i \in e <=> i \in (l \cup lost) \/ \E k \in 1..(n - 1) : i \in Held(t[k])
    OBVIOUS
  <2>1. i \in d <=> i \in l \/ \E k \in 1..n : i \in Held(s[k])
    BY DEF StackOK, n
  <2>2. i \in e <=> i \in d /\ (i \notin Held(s[n]) \/ i \in lost)
    BY <1>1
  <2>3. (\E k \in 1..(n - 1) : i \in Held(t[k])) <=> \E k \in 1..(n - 1) : i \in Held(s[k])
    BY <1>1
  <2>4. (\E k \in 1..n : i \in Held(s[k])) <=> i \in Held(s[n]) \/ \E k \in 1..(n - 1) : i \in Held(s[k])
    BY <1>2, <1>3
  <2>5. i \in l => i \notin Held(s[n])
    BY <1>2 DEF StackOK, n
  <2>6. i \in lost => i \in Held(s[n])
    BY <1>1
  <2> QED BY <1>8, <2>1, <2>2, <2>3, <2>4, <2>5, <2>6
<1>12. StackOK(t, e, l \cup lost, s[n].outer)
  <2>1. (n - 1) - 1 = n - 2
    BY <1>1
  <2> QED BY <1>1, <1>3, <1>4, <1>5, <1>6, <1>7, <1>9, <1>10, <1>11, <2>1 DEF StackOK
<1> QED BY <1>1, <1>12 DEF n, t

\* A shell waits for a line, or a call that runs lines runs one.
MayRun(s) == s # <<>> => Last(s).at \in {"captured", "end"}

\* A new call finds the stdout of the one that runs it.
LEMMA RunsAnother ==
  ASSUME NEW s \in Seq(FrameType), NEW d, NEW l, NEW o \in Nat, StackOK(s, d, l, o),
         MayRun(s), NEW line \in STRING
  PROVE  /\ Append(s, Frame(line, o)) \in Seq(FrameType)
         /\ Len(Append(s, Frame(line, o))) = Len(s) + 1
         /\ Last(Append(s, Frame(line, o))) = Frame(line, o)
         /\ StackOK(Append(s, Frame(line, o)), d, l, o)
<1> DEFINE n == Len(s)
           f == Frame(line, o)
           t == Append(s, f)
<1>1. f \in FrameType
  <2>1. <<>> \in Text
    BY DEF Text
  <2> QED BY <2>1 DEF Frame, FrameType, Place, Console
<1>2. f.at = "begin" /\ f.outer = o /\ Held(f) = {} /\ FrameOK(f) /\ OutOf(f) = o
  BY DEF Frame, Held, FrameOK, OutOf, Redirects
<1> HIDE DEF f, n
<1>3. /\ t \in Seq(FrameType) /\ Len(t) = n + 1 /\ n \in Nat
      /\ \A k \in 1..n : t[k] = s[k]
      /\ t[n + 1] = f
  BY <1>1, WithOneMore DEF n
<1> HIDE DEF t
<1>4. t # <<>> /\ Last(t) = f
  <2>1. Len(t) # 0
    BY <1>3
  <2> QED BY <1>3, <2>1, EmptySeq DEF Last
<1>5. \A k \in 1..(n + 1) : k = n + 1 \/ k \in 1..n
  BY <1>3
<1>6. \A k \in 1..(n + 1) : FrameOK(t[k])
  BY <1>2, <1>3, <1>5 DEF StackOK, n
<1>7. \A k \in 1..n : t[k].at \in {"captured", "end"} /\ t[k + 1].outer = OutOf(t[k])
  <2> SUFFICES ASSUME NEW k \in 1..n
               PROVE  t[k].at \in {"captured", "end"} /\ t[k + 1].outer = OutOf(t[k])
    OBVIOUS
  <2>1. s # <<>>
    BY <1>3 DEF n
  <2>2. CASE k = n
    BY <1>2, <1>3, <2>1, <2>2 DEF StackOK, n, MayRun, Last
  <2>3. CASE k # n
    <3>1. k \in 1..(n - 1) /\ k + 1 \in 1..n
      BY <1>3, <2>3
    <3> QED BY <1>3, <3>1 DEF StackOK, n
  <2> QED BY <2>2, <2>3
<1>8. t[1].outer = Console
  <2>1. CASE s = <<>>
    BY <1>2, <1>3, <2>1 DEF StackOK, n
  <2>2. CASE s # <<>>
    <3>1. 1 \in 1..n
      BY <1>3, <2>2, EmptySeq DEF n
    <3> QED BY <1>3, <2>2, <3>1 DEF StackOK
  <2> QED BY <2>1, <2>2
<1>9. \A k \in 1..(n + 1) : t[k].outer = Console \/ \E j \in 1..(k - 1) : t[k].outer \in Held(t[j])
  <2>1. o = Console \/ \E j \in 1..n : o \in Held(s[j])
    BY StdoutIsHeld DEF n
  <2>2. t[n + 1].outer = Console \/ \E j \in 1..n : t[n + 1].outer \in Held(t[j])
    BY <1>2, <1>3, <2>1
  <2>3. ASSUME NEW k \in 1..n
        PROVE  t[k].outer = Console \/ \E j \in 1..(k - 1) : t[k].outer \in Held(t[j])
    <3>1. \A j \in 1..(k - 1) : j \in 1..n
      BY <1>3
    <3> QED BY <1>3, <3>1 DEF StackOK, n
  <2>4. (n + 1) - 1 = n
    BY <1>3
  <2> QED BY <1>5, <2>2, <2>3, <2>4
<1>10. \A j, k \in 1..(n + 1) : j # k => Held(t[j]) \cap Held(t[k]) = {}
  <2>1. \A j, k \in 1..n : j # k => Held(s[j]) \cap Held(s[k]) = {}
    BY DEF StackOK, n
  <2>2. Held(t[n + 1]) = {}
    BY <1>2, <1>3
  <2>3. \A j, k \in 1..n : j # k => Held(t[j]) \cap Held(t[k]) = {}
    BY <1>3, <2>1
  <2> QED BY <1>5, <2>2, <2>3
<1>11. \A k \in 1..(n + 1) : Held(t[k]) \cap l = {}
  BY <1>2, <1>3, <1>5 DEF StackOK, n
<1>12. \A i : i \in d <=> i \in l \/ \E k \in 1..(n + 1) : i \in Held(t[k])
  <2> SUFFICES ASSUME NEW i
               PROVE  (\E k \in 1..(n + 1) : i \in Held(t[k])) <=> \E k \in 1..n : i \in Held(s[k])
    BY DEF StackOK, n
  <2>1. \A k \in 1..n : k \in 1..(n + 1)
    BY <1>3
  <2> QED BY <1>2, <1>3, <1>5, <2>1
<1>13. StackOK(t, d, l, o)
  <2>1. (n + 1) - 1 = n
    BY <1>3
  <2> QED BY <1>2, <1>3, <1>4, <1>6, <1>7, <1>8, <1>9, <1>10, <1>11, <1>12, <2>1 DEF StackOK
<1> QED BY <1>3, <1>4, <1>13 DEF n, f, t

-----------------------------------------------------------------------------
(* Streams.                                                                *)

StreamsInv ==
  /\ IsFiniteSet(DOMAIN open) /\ DOMAIN open \subseteq Nat \ {Console}
  /\ open \in [DOMAIN open -> StreamType]
  /\ disk \in [Files -> Text]
  /\ eof \in BOOLEAN /\ console \in Text

\* There is always a number for another stream.
LEMMA NewStreamIsNew ==
  ASSUME StreamsInv
  PROVE  NewStream \in Nat \ {Console} /\ NewStream \notin DOMAIN open
<1> DEFINE d == DOMAIN open
           n == Cardinality(d) + 1
           T == {i \in 1..n : i \notin d}
<1>1. IsFiniteSet(d) /\ Cardinality(d) \in Nat /\ n \in Nat \ {0}
  BY FS_CardinalityType DEF StreamsInv
<1>2. T # {}
  <2> SUFFICES ASSUME 1..n \subseteq d PROVE FALSE
    OBVIOUS
  <2>1. Cardinality(1..n) = n
    <3> HIDE DEF n
    <3>1. Cardinality(1..n) = IF 1 > n THEN 0 ELSE n - 1 + 1
      BY <1>1, FS_Interval
    <3> QED BY <1>1, <3>1
  <2>2. Cardinality(1..n) <= Cardinality(d)
    <3> HIDE DEF n, d
    <3> QED BY <1>1, FS_Subset
  <2> QED BY <1>1, <2>1, <2>2
<1>3. PICK i \in T : \A m \in T : i <= m
  <2>1. T \in SUBSET Nat
    BY <1>1
  <2> HIDE DEF T
  <2> QED BY <1>2, <2>1, LeastNat
<1>4. i \in 1..n /\ i \notin d /\ \A j \in 1..(i - 1) : j \in d
  BY <1>1, <1>3
<1> HIDE DEF T
<1>5. NewStream \in 1..n /\ NewStream \notin d
  BY <1>4 DEF NewStream
<1> QED BY <1>1, <1>5 DEF Console

\* A stream is opened ...
LEMMA OpenedStream ==
  ASSUME StreamsInv, NEW file \in Files \cup {Memory}, open' = Opened(NewStream, file)
  PROVE  /\ DOMAIN open' = DOMAIN open \cup {NewStream}
         /\ IsFiniteSet(DOMAIN open') /\ DOMAIN open' \subseteq Nat \ {Console}
         /\ open' \in [DOMAIN open' -> StreamType]
<1> DEFINE i == NewStream
<1>1. i \in Nat \ {Console} /\ i \notin DOMAIN open
  BY NewStreamIsNew
<1>2. [file |-> file, text |-> <<>>] \in StreamType
  BY DEF StreamType, Text
<1> HIDE DEF i
<1>3. open' = [j \in DOMAIN open \cup {i} |-> IF j = i THEN [file |-> file, text |-> <<>>] ELSE open[j]]
  BY DEF i, Opened
<1>4. DOMAIN open' = DOMAIN open \cup {i}
  BY <1>3
<1>5. IsFiniteSet(DOMAIN open')
  BY <1>4, FS_AddElement DEF StreamsInv
<1>6. open' \in [DOMAIN open' -> StreamType]
  BY <1>2, <1>3, <1>4 DEF StreamsInv
<1> QED BY <1>1, <1>4, <1>5, <1>6 DEF StreamsInv, i

\* ... written to ...
LEMMA WrittenStream ==
  ASSUME StreamsInv, NEW i, NEW lines \in Text, Write(i, lines)
  PROVE  /\ DOMAIN open' = DOMAIN open /\ console' \in Text
         /\ open' \in [DOMAIN open' -> StreamType]
<1>1. console \o lines \in Text
  BY DEF StreamsInv, Text
<1>2. CASE i = Console
  BY <1>1, <1>2 DEF Write, StreamsInv
<1>3. CASE i # Console
  <2>1. /\ open' = [j \in DOMAIN open |->
                      IF j = i THEN [open[j] EXCEPT !.text = open[j].text \o lines] ELSE open[j]]
        /\ console' = console
    BY <1>3 DEF Write
  <2>2. ASSUME NEW j \in DOMAIN open PROVE [open[j] EXCEPT !.text = open[j].text \o lines] \in StreamType
    <3>1. open[j] \in StreamType
      BY DEF StreamsInv
    <3>2. open[j].text \o lines \in Text
      BY <3>1 DEF StreamType, Text
    <3> QED BY <3>1, <3>2 DEF StreamType
  <2>3. DOMAIN open' = DOMAIN open
    BY <2>1
  <2>4. open' \in [DOMAIN open -> StreamType]
    BY <2>1, <2>2 DEF StreamsInv
  <2> QED BY <2>1, <2>3, <2>4 DEF StreamsInv
<1> QED BY <1>2, <1>3

\* ... and closed.
LEMMA ClosedStreams ==
  ASSUME StreamsInv, NEW closed, open' = Without(closed)
  PROVE  /\ DOMAIN open' = DOMAIN open \ closed
         /\ IsFiniteSet(DOMAIN open') /\ DOMAIN open' \subseteq Nat \ {Console}
         /\ open' \in [DOMAIN open' -> StreamType]
<1>1. open' = [i \in DOMAIN open \ closed |-> open[i]]
  BY DEF Without
<1>2. DOMAIN open' = DOMAIN open \ closed
  BY <1>1
<1>3. IsFiniteSet(DOMAIN open')
  BY <1>2, FS_Subset DEF StreamsInv
<1> QED BY <1>1, <1>2, <1>3 DEF StreamsInv

\* What eval runs is a text.
LEMMA TrimmedIsText ==
  ASSUME NEW text \in Text
  PROVE  Trimmed(text) \in Text
<1> DEFINE T == {n \in 0..Len(text) : \A k \in (n + 1)..Len(text) : text[k] = Blank}
<1>1. Len(text) \in Nat /\ Len(text) \in T
  BY DEF Text
<1>2. PICK n \in T : \A m \in T : n <= m
  <2>1. T \in SUBSET Nat /\ T # {}
    BY <1>1
  <2> HIDE DEF T
  <2> QED BY <2>1, LeastNat
<1>3. n = 0 \/ text[n] # Blank
  <2> SUFFICES ASSUME n # 0, text[n] = Blank PROVE FALSE
    OBVIOUS
  <2>1. n - 1 \in 0..Len(text) /\ \A k \in ((n - 1) + 1)..Len(text) : k = n \/ k \in (n + 1)..Len(text)
    BY <1>1, <1>2
  <2>2. n - 1 \in T
    BY <1>2, <2>1
  <2>3. n \in 0..Len(text)
    BY <1>2
  <2> HIDE DEF T
  <2>4. n <= n - 1
    BY <1>2, <2>2
  <2> QED BY <1>1, <2>3, <2>4
<1> DEFINE last == CHOOSE m \in 0..Len(text) :
                     (m = 0 \/ text[m] # Blank) /\ \A k \in (m + 1)..Len(text) : text[k] = Blank
<1>4. last \in 0..Len(text)
  <2>1. n \in 0..Len(text) /\ \A k \in (n + 1)..Len(text) : text[k] = Blank
    BY <1>2
  <2> QED BY <1>3, <2>1, Zenon
<1> HIDE DEF last
<1>5. \A i \in 1..last : text[i] \in STRING
  BY <1>1, <1>4 DEF Text
<1>6. SubSeq(text, 1, last) \in Seq(STRING)
  BY <1>1, <1>4, <1>5, SubSeqProperties
<1> QED BY <1>6 DEF Trimmed, last, Text

-----------------------------------------------------------------------------
(* The inductive invariant, and the three ways in which a command goes on. *)

StackInv == stack \in Seq(FrameType) /\ StackOK(stack, DOMAIN open, leaked, out)

\* What a step keeps and may do
StepOK ==
  /\ StackInv' /\ StreamsInv'
  /\ Len(stack') < Len(stack) => out' = Top.outer
  /\ SleepFunc \/ stack' = stack \/ stack' = <<>> \/ Last(stack').at # "sleeping"

\* stdout is the console or an open stream.
LEMMA OutIsStream ==
  ASSUME StackInv, StreamsInv
  PROVE  out \in {Console} \cup DOMAIN open /\ out \in Nat
<1>1. out = Console \/ \E j \in 1..Len(stack) : out \in Held(stack[j])
  BY StdoutIsHeld DEF StackInv
<1>2. \A i : (\E k \in 1..Len(stack) : i \in Held(stack[k])) => i \in DOMAIN open
  BY DEF StackInv, StackOK
<1> QED BY <1>1, <1>2 DEF StreamsInv, Console

\* The topmost call, whose stdout the current one is
LEMMA TopIs ==
  ASSUME StackInv, stack # <<>>
  PROVE  /\ Len(stack) \in Nat \ {0} /\ Top = stack[Len(stack)]
         /\ Top \in FrameType /\ FrameOK(Top) /\ out = OutOf(Top) /\ Top.outer \in Nat
         /\ Held(Top) \subseteq DOMAIN open
<1>1. Len(stack) \in Nat \ {0} /\ Last(stack) = stack[Len(stack)] /\ Last(stack) \in FrameType
  BY AroundTop DEF StackInv
<1>2. Len(stack) \in 1..Len(stack)
  BY <1>1
<1> QED BY <1>1, <1>2 DEF StackInv, StackOK, Top, FrameType

\* The topmost call goes on.
LEMMA Goes ==
  ASSUME StackInv, StreamsInv', stack # <<>>, leaked' = leaked,
         NEW f \in FrameType, FrameOK(f), f.outer = Top.outer,
         stack' = Append(Front(stack), f), out' = OutOf(f),
         DOMAIN open' = (DOMAIN open \ Held(Top)) \cup Held(f),
         Held(f) \cap (DOMAIN open \ Held(Top)) = {},
         f.at # "sleeping" \/ SleepFunc
  PROVE  StepOK
<1> DEFINE t == Append(Front(stack), f)
<1>4. t \in Seq(FrameType) /\ Len(t) = Len(stack) /\ Last(t) = f
      /\ StackOK(t, DOMAIN open', leaked, OutOf(f))
  BY GoesOn DEF StackInv, Top
<1>5. stack' = t
  OBVIOUS
<1> HIDE DEF t
<1>1. stack' \in Seq(FrameType) /\ Len(stack') = Len(stack) /\ Last(stack') = f
      /\ StackOK(stack', DOMAIN open', leaked, OutOf(f))
  BY <1>4, <1>5
<1>2. Len(stack) \in Nat
  BY DEF StackInv
<1>3. StackInv'
  BY <1>1 DEF StackInv
<1> QED BY <1>1, <1>2, <1>3 DEF StepOK

\* The topmost call returns and closes what it holds, but for the streams it has
\* lost.
LEMMA Returns ==
  ASSUME StackInv, StreamsInv', stack # <<>>, stack' = Front(stack), out' = Top.outer,
         NEW lost \in SUBSET Held(Top), leaked' = leaked \cup lost,
         DOMAIN open' = DOMAIN open \ (Held(Top) \ lost)
  PROVE  StepOK
<1>1. stack' \in Seq(FrameType) /\ Len(stack') = Len(stack) - 1 /\ Len(stack) \in Nat \ {0}
      /\ StackOK(stack', DOMAIN open', leaked', out')
  BY ComesBack DEF StackInv, Top
<1>2. stack' # <<>> => Last(stack').at # "sleeping"
  <2> SUFFICES ASSUME stack' # <<>> PROVE Last(stack').at \in {"captured", "end"}
    OBVIOUS
  <2>1. Len(stack') # 0
    BY <1>1, EmptySeq
  <2>2. Len(stack') \in 1..(Len(stack) - 1)
    BY <1>1, <2>1
  <2>3. Front(stack)[Len(stack')] = stack[Len(stack')]
    BY <2>2, AroundTop DEF StackInv
  <2>4. stack[Len(stack')].at \in {"captured", "end"}
    BY <2>2 DEF StackInv, StackOK
  <2> QED BY <2>3, <2>4 DEF Last
<1>3. StackInv'
  BY <1>1 DEF StackInv
<1> QED BY <1>2, <1>3 DEF StepOK

\* The topmost call goes on and runs a command.
LEMMA Runs ==
  ASSUME StackInv, StreamsInv', stack # <<>>, leaked' = leaked,
         NEW f \in FrameType, FrameOK(f), f.outer = Top.outer, f.at \in {"captured", "end"},
         NEW line \in STRING, IocshCmd(f, line), out' = OutOf(f), out' \in Nat,
         DOMAIN open' = (DOMAIN open \ Held(Top)) \cup Held(f),
         Held(f) \cap (DOMAIN open \ Held(Top)) = {}
  PROVE  StepOK
<1> DEFINE s == Append(Front(stack), f)
           new == Frame(line, out')
<1>1. s \in Seq(FrameType) /\ Len(s) = Len(stack) /\ Last(s) = f
      /\ StackOK(s, DOMAIN open', leaked, OutOf(f))
  BY GoesOn DEF StackInv, Top
<1>2. stack' = Append(s, new)
  <2>1. Front(stack) \in Seq(FrameType)
    BY AroundTop DEF StackInv
  <2>2. new \in FrameType
    <3>1. <<>> \in Text
      BY DEF Text
    <3> QED BY <3>1 DEF Frame, FrameType, Place, Console
  <2>3. stack' = Front(stack) \o <<f, new>>
    BY DEF IocshCmd
  <2> HIDE DEF new
  <2>4. Front(stack) \o <<f, new>> = Append(Append(Front(stack), f), new)
    BY <2>1, <2>2
  <2> QED BY <2>3, <2>4
<1> HIDE DEF s
<1> DEFINE t == Append(s, new)
<1>7. t \in Seq(FrameType) /\ Len(t) = Len(s) + 1 /\ Last(t) = new
      /\ StackOK(t, DOMAIN open', leaked, out')
  <2> DEFINE o == out'
             d == DOMAIN open'
  <2>1. o \in Nat /\ StackOK(s, d, leaked, o) /\ MayRun(s)
    BY <1>1 DEF MayRun
  <2> HIDE DEF o, d
  <2>2. /\ Append(s, Frame(line, o)) \in Seq(FrameType)
        /\ Len(Append(s, Frame(line, o))) = Len(s) + 1
        /\ Last(Append(s, Frame(line, o))) = Frame(line, o)
        /\ StackOK(Append(s, Frame(line, o)), d, leaked, o)
    BY <1>1, <2>1, RunsAnother
  <2> QED BY <2>2 DEF o, d
<1> HIDE DEF t
<1>3. stack' \in Seq(FrameType) /\ Len(stack') = Len(s) + 1 /\ Last(stack') = new
      /\ StackOK(stack', DOMAIN open', leaked, out')
  BY <1>2, <1>7 DEF t
<1>4. Last(stack').at = "begin"
  BY <1>3 DEF Frame
<1>5. StackInv'
  BY <1>3 DEF StackInv
<1>6. Len(stack) \in Nat
  BY DEF StackInv
<1> QED BY <1>1, <1>3, <1>4, <1>5, <1>6 DEF StepOK

-----------------------------------------------------------------------------
(* The commands one by one.                                                *)

\* What a line means
LEMMA MeaningIs ==
  ASSUME NEW line \in Commands
  PROVE  /\ Meaning[line].op \in {"echo", "exec"} => Meaning[line].text \in STRING
         /\ Meaning[line].op = "eval" => Meaning[line].of \in STRING
         /\ Meaning[line].op = "listRecords" => Meaning[line].file \in Files \cup {None}
         /\ Meaning[line].op = "cp" => Meaning[line].source \in Files \cup {None}
                                       /\ Meaning[line].target \in Files \cup {None}
         /\ Meaning[line].op = "sleep" => Meaning[line].time \in Int
BY RedirectAssumption DEF Meanings

\* Where a call is
LEMMA AtIs ==
  ASSUME StackInv, NEW op, NEW place, At(op, place)
  PROVE  /\ stack # <<>> /\ Top.line \in Commands /\ Command = Meaning[Top.line]
         /\ Op(Top) = op /\ Top.at = place
         /\ Top \in FrameType /\ FrameOK(Top) /\ out = OutOf(Top) /\ Held(Top) \subseteq DOMAIN open
BY TopIs DEF At, Command, Op

\* A sequence of one element
LEMMA OneElement == ASSUME NEW S, NEW e \in S PROVE <<e>> \in Seq(S)
OBVIOUS

\* Where no stream changes, the streams are as they should be.
LEMMA SameStreams ==
  ASSUME StreamsInv, UNCHANGED <<open, disk, eof, console>>
  PROVE  StreamsInv'
BY DEF StreamsInv

\* Where no call changes, the calls are as they should be.
LEMMA SameStack ==
  ASSUME StackInv, StreamsInv', UNCHANGED <<stack, out, leaked>>, DOMAIN open' = DOMAIN open
  PROVE  StepOK
<1>1. StackInv'
  BY DEF StackInv
<1>2. Len(stack') = Len(stack) /\ Len(stack) \in Nat
  BY DEF StackInv
<1> QED BY <1>1, <1>2 DEF StepOK

\* A call returns that holds nothing and has stdout as it was.
LEMMA JustReturns ==
  ASSUME StackInv, StreamsInv', stack # <<>>, Leave, UNCHANGED <<out, leaked>>,
         DOMAIN open' = DOMAIN open, Held(Top) = {}, ~Redirects(Top)
  PROVE  StepOK
<1>1. out' = Top.outer
  BY TopIs DEF OutOf
<1>2. DOMAIN open' = DOMAIN open \ (Held(Top) \ {}) /\ leaked' = leaked \cup {}
  OBVIOUS
<1> QED BY <1>1, <1>2, Returns DEF Leave

\* The calls that return at once
LEMMA ShortCalls ==
  ASSUME StackInv, StreamsInv, leaked' = leaked,
         Return \/ EchoFunc \/ ExecFunc \/ UlimitEnd \/ SleepEnd
  PROVE  StepOK
<1>1. CASE Return
  <2>1. stack # <<>> /\ Leave /\ UNCHANGED <<out, open, disk, eof, console>>
    BY <1>1 DEF Return, Unknown, EvalTooLong, SleepRefused, EvalEnd, At, streamsOnly
  <2>2. Top.at \in {"begin", "end"} /\ FrameOK(Top)
    BY <1>1, <2>1, TopIs DEF Return, Unknown, EvalTooLong, SleepRefused, EvalEnd, At, FrameOK
  <2>3. Held(Top) = {} /\ ~Redirects(Top)
    BY <2>2 DEF Held, FrameOK, Redirects
  <2> QED BY <2>1, <2>3, SameStreams, JustReturns
<1>2. CASE EchoFunc
  <2>1. At("echo", "begin") /\ Puts(<<Command.text>>) /\ Leave /\ UNCHANGED <<out, disk, eof>>
    BY <1>2 DEF EchoFunc
  <2>2. stack # <<>> /\ Held(Top) = {} /\ ~Redirects(Top) /\ Command.text \in STRING
    BY <2>1, AtIs, MeaningIs DEF Held, FrameOK, Redirects, Op
  <2>3. <<Command.text>> \in Text
    BY <2>2 DEF Text
  <2>4. DOMAIN open' = DOMAIN open /\ console' \in Text /\ open' \in [DOMAIN open' -> StreamType]
    BY <2>1, <2>3, WrittenStream DEF Puts
  <2>5. StreamsInv'
    BY <2>1, <2>4 DEF StreamsInv
  <2> QED BY <2>1, <2>2, <2>4, <2>5, JustReturns
<1>3. CASE ExecFunc
  <2>1. At("exec", "begin") /\ Leave /\ UNCHANGED <<out, open, eof>>
    BY <1>3 DEF ExecFunc
  <2>2. stack # <<>> /\ Held(Top) = {} /\ ~Redirects(Top) /\ Command.text \in STRING
    BY <2>1, AtIs, MeaningIs DEF Held, FrameOK, Redirects, Op
  <2>3. console' \in Text
    <3>1. Append(console, Command.text) \in Text
      BY <2>2 DEF StreamsInv, Text
    <3>2. console' = Append(console, Command.text) \/ console' = console
      BY <1>3 DEF ExecFunc
    <3> QED BY <3>1, <3>2 DEF StreamsInv
  <2>4. disk' \in [Files -> Text]
    <3>1. <<>> \in Text
      BY DEF Text
    <3>2. disk' = disk \/ disk' = [disk EXCEPT ![ErrorFile] = <<>>]
      BY <1>3 DEF ExecFunc
    <3> QED BY <3>1, <3>2 DEF StreamsInv
  <2>5. StreamsInv'
    BY <2>1, <2>3, <2>4 DEF StreamsInv
  <2> QED BY <2>1, <2>2, <2>5, JustReturns
<1>4. CASE UlimitEnd
  <2>1. At("ulimit", "limits") /\ Leave /\ UNCHANGED <<out, open, disk, eof, console>>
    BY <1>4 DEF UlimitEnd
  <2>2. stack # <<>> /\ Held(Top) = {} /\ ~Redirects(Top)
    BY <2>1, AtIs DEF Held, FrameOK, Redirects
  <2> QED BY <2>1, <2>2, SameStreams, JustReturns
<1>5. CASE SleepEnd
  <2>1. At("sleep", "sleeping") /\ Leave /\ UNCHANGED <<out, open, disk, eof, console>>
    BY <1>5 DEF SleepEnd, streamsOnly
  <2>2. stack # <<>> /\ Held(Top) = {} /\ ~Redirects(Top)
    BY <2>1, AtIs DEF Held, FrameOK, Redirects
  <2> QED BY <2>1, <2>2, SameStreams, JustReturns
<1> QED BY <1>1, <1>2, <1>3, <1>4, <1>5

\* ulimit and sleep, which return at their ends
LEMMA LongCalls ==
  ASSUME StackInv, StreamsInv, leaked' = leaked,
         UlimitBegin \/ UlimitLetter \/ SleepFunc \/ SleepTick
  PROVE  StepOK
<1>1. CASE UlimitBegin
  <2> DEFINE f == [Top EXCEPT !.at = "limits"]
  <2>1. At("ulimit", "begin") /\ stack' = Append(Front(stack), f) /\ UNCHANGED <<out, open, disk, eof, console>>
    BY <1>1 DEF UlimitBegin, Goto
  <2>2. /\ stack # <<>> /\ Top \in FrameType /\ FrameOK(Top) /\ out = OutOf(Top) /\ Op(Top) = "ulimit"
        /\ Top.at = "begin" /\ Top.line \in Commands
    BY <2>1, AtIs
  <2>3. f \in FrameType /\ f.at = "limits" /\ f.stream = Console /\ f.source = Console
        /\ f.outer = Top.outer /\ f.line = Top.line
    BY <2>2 DEF FrameType, Place, FrameOK
  <2> HIDE DEF f
  <2>4. FrameOK(f) /\ Held(f) = {} /\ Held(Top) = {} /\ OutOf(f) = Top.outer /\ out = Top.outer
    BY <2>2, <2>3 DEF FrameOK, Held, OutOf, Redirects, Op
  <2>5. StreamsInv' /\ f.at # "sleeping"
    BY <2>1, <2>3, SameStreams
  <2> QED BY <2>1, <2>2, <2>3, <2>4, <2>5, Goes
<1>2. CASE UlimitLetter
  <2>1. Puts(IF PrintsLine(Main) THEN <<Shown>> ELSE <<>>) /\ UNCHANGED <<out, disk, eof, stack>>
    BY <1>2 DEF UlimitLetter
  <2>2. (IF PrintsLine(Main) THEN <<Shown>> ELSE <<>>) \in Text
    <3>1. <<Shown>> \in Text
      BY RedirectAssumption, OneElement DEF Text
    <3>2. <<>> \in Text
      BY DEF Text
    <3> QED BY <3>1, <3>2
  <2>3. DOMAIN open' = DOMAIN open /\ console' \in Text /\ open' \in [DOMAIN open' -> StreamType]
    BY <2>1, <2>2, WrittenStream DEF Puts
  <2>4. StreamsInv'
    BY <2>1, <2>3 DEF StreamsInv
  <2> QED BY <2>1, <2>3, <2>4, SameStack
<1>3. CASE SleepFunc
  <2> DEFINE f == [Top EXCEPT !.at = "sleeping"]
  <2>1. At("sleep", "begin") /\ stack' = Append(Front(stack), f) /\ UNCHANGED <<out, open, disk, eof, console>>
    BY <1>3 DEF SleepFunc, Goto, streamsOnly
  <2>2. /\ stack # <<>> /\ Top \in FrameType /\ FrameOK(Top) /\ out = OutOf(Top) /\ Op(Top) = "sleep"
        /\ Top.at = "begin" /\ Top.line \in Commands
    BY <2>1, AtIs
  <2>3. f \in FrameType /\ f.at = "sleeping" /\ f.stream = Console /\ f.source = Console
        /\ f.outer = Top.outer /\ f.line = Top.line
    BY <2>2 DEF FrameType, Place, FrameOK
  <2> HIDE DEF f
  <2>4. FrameOK(f) /\ Held(f) = {} /\ Held(Top) = {} /\ OutOf(f) = Top.outer /\ out = Top.outer
    BY <2>2, <2>3 DEF FrameOK, Held, OutOf, Redirects, Op
  <2>5. StreamsInv'
    BY <2>1, SameStreams
  <2> QED BY <1>3, <2>1, <2>2, <2>3, <2>4, <2>5, Goes
<1>4. CASE SleepTick
  <2>1. UNCHANGED <<out, open, disk, eof, console, stack>>
    BY <1>4 DEF SleepTick, streamsOnly
  <2> QED BY <2>1, SameStreams, SameStack
<1> QED BY <1>1, <1>2, <1>3, <1>4

\* eval redirects stdout to a memory stream, runs a line, and then another.
LEMMA EvalCaptureKeeps ==
  ASSUME StackInv, StreamsInv, leaked' = leaked, EvalCapture
  PROVE  StepOK
<1> DEFINE n == NewStream
           f == [Top EXCEPT !.at = "captured", !.stream = n, !.orig = out]
<1>1. /\ At("eval", "begin") /\ open' = Opened(NewStream, Memory) /\ out' = n
      /\ IocshCmd(f, Command.of) /\ UNCHANGED <<disk, eof, console>>
  BY DEF EvalCapture
<1>2. /\ stack # <<>> /\ Top \in FrameType /\ FrameOK(Top) /\ out = OutOf(Top) /\ Op(Top) = "eval"
      /\ Top.at = "begin" /\ Top.line \in Commands /\ Command.of \in STRING
  BY <1>1, AtIs, MeaningIs DEF Op
<1>3. n \in Nat \ {Console} /\ n \notin DOMAIN open /\ out \in Nat
  BY NewStreamIsNew, OutIsStream
<1>4. /\ DOMAIN open' = DOMAIN open \cup {n} /\ StreamsInv'
  BY <1>1, OpenedStream DEF StreamsInv
<1> HIDE DEF n
<1>5. f \in FrameType /\ f.at = "captured" /\ f.stream = n /\ f.source = Console
      /\ f.outer = Top.outer /\ f.line = Top.line /\ f.orig = out
  BY <1>2, <1>3 DEF FrameType, Place, FrameOK
<1> HIDE DEF f
<1>6. /\ FrameOK(f) /\ Held(f) = {n} /\ Held(Top) = {} /\ OutOf(f) = n
  BY <1>2, <1>3, <1>5 DEF FrameOK, Held, OutOf, Redirects, Op
<1> QED BY <1>1, <1>2, <1>3, <1>4, <1>5, <1>6, Runs

\* The memory stream is closed and stdout restored.
LEMMA EvalRestoreKeeps ==
  ASSUME StackInv, StreamsInv, leaked' = leaked, EvalRestore
  PROVE  StepOK
<1> DEFINE text == Trimmed(open[Top.stream].text)
           f == [Top EXCEPT !.at = "output", !.buffer = text]
<1>1. /\ At("eval", "captured") /\ open' = Without({Top.stream}) /\ out' = Top.orig
      /\ stack' = Append(Front(stack), f) /\ UNCHANGED <<disk, eof, console>>
  BY DEF EvalRestore, Goto
<1>2. /\ stack # <<>> /\ Top \in FrameType /\ FrameOK(Top) /\ out = OutOf(Top) /\ Op(Top) = "eval"
      /\ Top.at = "captured" /\ Top.line \in Commands /\ Held(Top) \subseteq DOMAIN open
  BY <1>1, AtIs
<1>3. Held(Top) = {Top.stream} /\ Top.orig = Top.outer
  BY <1>2 DEF Held, FrameOK, Redirects
<1>4. text \in Text
  <2>1. open[Top.stream] \in StreamType
    BY <1>2, <1>3 DEF StreamsInv
  <2> QED BY <2>1, TrimmedIsText DEF StreamType
<1>5. DOMAIN open' = DOMAIN open \ Held(Top) /\ StreamsInv'
  BY <1>1, <1>3, ClosedStreams DEF StreamsInv
<1> HIDE DEF text
<1>6. f \in FrameType /\ f.at = "output" /\ f.outer = Top.outer /\ f.line = Top.line
  BY <1>2, <1>4 DEF FrameType, Place
<1> HIDE DEF f
<1>7. FrameOK(f) /\ Held(f) = {} /\ OutOf(f) = out'
  BY <1>1, <1>2, <1>3, <1>6 DEF FrameOK, Held, OutOf, Redirects, Op
<1> QED BY <1>1, <1>2, <1>5, <1>6, <1>7, Goes

\* What is run is a line.
LEMMA LineOfIsLine ==
  ASSUME NEW text \in Text PROVE LineOf(text) \in STRING
<1>1. CASE Len(text) = 1
  <2>1. text[1] \in STRING
    BY <1>1 DEF Text
  <2> QED BY <1>1, <2>1 DEF LineOf
<1>2. CASE Len(text) # 1 /\ text \in DOMAIN Joined
  <2>1. Joined[text] \in STRING
    BY <1>2, RedirectAssumption
  <2> QED BY <1>2, <2>1 DEF LineOf
<1>3. CASE Len(text) # 1 /\ text \notin DOMAIN Joined
  <2>1. Blank \in STRING
    BY RedirectAssumption
  <2> QED BY <1>3, <2>1 DEF LineOf
<1> QED BY <1>1, <1>2, <1>3

\* The output is run.
LEMMA EvalOutputKeeps ==
  ASSUME StackInv, StreamsInv, leaked' = leaked, EvalOutput
  PROVE  StepOK
<1> DEFINE f == [Top EXCEPT !.at = "end"]
<1>1. /\ At("eval", "output") /\ UNCHANGED <<out, open, disk, eof, console>>
      /\ IocshCmd(f, LineOf(Top.buffer))
  BY DEF EvalOutput
<1>2. /\ stack # <<>> /\ Top \in FrameType /\ FrameOK(Top) /\ out = OutOf(Top) /\ Op(Top) = "eval"
      /\ Top.at = "output" /\ Top.line \in Commands
  BY <1>1, AtIs
<1>3. f \in FrameType /\ f.at = "end" /\ f.outer = Top.outer /\ f.line = Top.line
  BY <1>2 DEF FrameType, Place
<1>4. StreamsInv' /\ out' \in Nat
  BY <1>1, SameStreams, OutIsStream
<1> HIDE DEF f
<1>5. FrameOK(f) /\ Held(f) = {} /\ Held(Top) = {} /\ OutOf(f) = out'
  BY <1>1, <1>2, <1>3 DEF FrameOK, Held, OutOf, Redirects, Op
<1>6. LineOf(Top.buffer) \in STRING
  BY <1>2, LineOfIsLine DEF FrameType
<1> QED BY <1>1, <1>2, <1>3, <1>4, <1>5, <1>6, Runs

\* listRecords makes a file its stdout ...
LEMMA ListRecordsOpenKeeps ==
  ASSUME StackInv, StreamsInv, leaked' = leaked, ListRecordsOpen
  PROVE  StepOK
<1> DEFINE file == Command.file
<1>1. At("listRecords", "begin") /\ UNCHANGED <<eof, console>>
  BY DEF ListRecordsOpen
<1>2. /\ stack # <<>> /\ Top \in FrameType /\ FrameOK(Top) /\ out = OutOf(Top)
      /\ Op(Top) = "listRecords" /\ Top.at = "begin" /\ Top.line \in Commands
      /\ file \in Files \cup {None}
  BY <1>1, AtIs, MeaningIs DEF Op
<1>3. Held(Top) = {} /\ ~Redirects(Top) /\ out = Top.outer /\ out \in Nat
      /\ Top.stream = Console /\ Top.source = Console
  BY <1>2, OutIsStream DEF Held, FrameOK, Redirects, OutOf
<1>4. CASE file = None
  <2> DEFINE f == [Top EXCEPT !.at = "list"]
  <2>1. stack' = Append(Front(stack), f) /\ UNCHANGED <<open, disk, out>>
    BY <1>4 DEF ListRecordsOpen, Goto
  <2>2. f \in FrameType /\ f.at = "list" /\ f.stream = Console /\ f.source = Console
        /\ f.outer = Top.outer /\ f.line = Top.line
    BY <1>2, <1>3 DEF FrameType, Place
  <2> HIDE DEF f
  <2>3. FrameOK(f) /\ Held(f) = {} /\ OutOf(f) = Top.outer
    BY <1>2, <2>2 DEF FrameOK, Held, OutOf, Redirects, Op
  <2>4. StreamsInv' /\ f.at # "sleeping"
    BY <1>1, <2>1, <2>2, SameStreams
  <2> QED BY <1>2, <1>3, <2>1, <2>2, <2>3, <2>4, Goes
<1>5. CASE file # None /\ (~CanWrite(file) \/ ~DescriptorFree)
  <2>1. Leave /\ UNCHANGED <<open, disk, out>>
    BY <1>5 DEF ListRecordsOpen
  <2> QED BY <1>1, <1>2, <1>3, <2>1, SameStreams, JustReturns
<1>6. CASE file # None /\ CanWrite(file) /\ DescriptorFree
  <2> DEFINE n == NewStream
             f == [Top EXCEPT !.at = "list", !.stream = n, !.orig = out]
  <2>1. /\ open' = Opened(NewStream, file) /\ disk' = [disk EXCEPT ![file] = <<>>] /\ out' = n
        /\ stack' = Append(Front(stack), f)
    BY <1>6 DEF ListRecordsOpen, Goto
  <2>2. n \in Nat \ {Console} /\ n \notin DOMAIN open
    BY NewStreamIsNew
  <2>3. DOMAIN open' = DOMAIN open \cup {n} /\ StreamsInv'
    <3>1. <<>> \in Text
      BY DEF Text
    <3>2. disk' \in [Files -> Text]
      BY <2>1, <3>1 DEF StreamsInv
    <3>3. file \in Files \cup {Memory}
      BY <1>2, <1>6
    <3> HIDE DEF file
    <3> QED BY <1>1, <2>1, <3>2, <3>3, OpenedStream DEF StreamsInv
  <2> HIDE DEF n
  <2>4. f \in FrameType /\ f.at = "list" /\ f.stream = n /\ f.source = Console
        /\ f.outer = Top.outer /\ f.line = Top.line /\ f.orig = out
    BY <1>2, <1>3, <2>2 DEF FrameType, Place
  <2> HIDE DEF f
  <2>5. FrameOK(f) /\ Held(f) = {n} /\ OutOf(f) = n /\ f.at # "sleeping"
    BY <1>2, <1>3, <2>2, <2>4 DEF FrameOK, Held, OutOf, Redirects, Op
  <2> QED BY <1>2, <1>3, <2>1, <2>2, <2>3, <2>4, <2>5, Goes
<1> QED BY <1>4, <1>5, <1>6

\* ... writes to stdout, whatever that is ...
LEMMA ListRecordsDblKeeps ==
  ASSUME StackInv, StreamsInv, leaked' = leaked, ListRecordsDbl
  PROVE  StepOK
<1>1. At("listRecords", "list") /\ Puts(Listing) /\ UNCHANGED <<out, disk, eof>>
  BY DEF ListRecordsDbl
<1>2. /\ stack # <<>> /\ Top \in FrameType /\ FrameOK(Top) /\ out = OutOf(Top)
      /\ Op(Top) = "listRecords" /\ Top.at = "list" /\ Top.line \in Commands
  BY <1>1, AtIs
<1>3. DOMAIN open' = DOMAIN open /\ StreamsInv'
  BY <1>1, RedirectAssumption, WrittenStream DEF Puts, StreamsInv
<1>4. CASE Top.stream = Console
  <2>1. Leave /\ Held(Top) = {} /\ ~Redirects(Top)
    BY <1>2, <1>4 DEF ListRecordsDbl, Held, FrameOK, Redirects
  <2> QED BY <1>1, <1>2, <1>3, <2>1, JustReturns
<1>5. CASE Top.stream # Console
  <2> DEFINE f == [Top EXCEPT !.at = "close"]
  <2>1. stack' = Append(Front(stack), f)
    BY <1>5 DEF ListRecordsDbl, Goto
  <2>2. f \in FrameType /\ f.at = "close" /\ f.stream = Top.stream /\ f.source = Top.source
        /\ f.outer = Top.outer /\ f.orig = Top.orig /\ f.line = Top.line
    BY <1>2 DEF FrameType, Place
  <2> HIDE DEF f
  <2>3. FrameOK(f) /\ Held(f) = Held(Top) /\ OutOf(f) = out /\ f.at # "sleeping"
    BY <1>2, <1>5, <2>2 DEF FrameOK, Held, OutOf, Redirects, Op
  <2>4. Held(Top) \subseteq DOMAIN open
    BY <1>1, AtIs
  <2>5. DOMAIN open' = (DOMAIN open \ Held(Top)) \cup Held(f)
    BY <1>3, <2>3, <2>4
  <2> QED BY <1>1, <1>2, <1>3, <2>1, <2>2, <2>3, <2>5, Goes
<1> QED BY <1>4, <1>5

\* ... and closes the file.
LEMMA ListRecordsCloseKeeps ==
  ASSUME StackInv, StreamsInv, leaked' = leaked, ListRecordsClose
  PROVE  StepOK
<1>1. /\ At("listRecords", "close") /\ open' = Without({Top.stream}) /\ out' = Top.orig
      /\ disk' = [disk EXCEPT ![open[Top.stream].file] = open[Top.stream].text]
      /\ stack' = Front(stack) /\ UNCHANGED <<eof, console>>
  BY DEF ListRecordsClose, Leave
<1>2. /\ stack # <<>> /\ Top \in FrameType /\ FrameOK(Top) /\ Op(Top) = "listRecords"
      /\ Top.at = "close" /\ Held(Top) \subseteq DOMAIN open
  BY <1>1, AtIs
<1>3. Held(Top) = {Top.stream} /\ Top.orig = Top.outer
  BY <1>2 DEF Held, FrameOK, Redirects
<1>4. open[Top.stream].text \in Text
  BY <1>2, <1>3 DEF StreamsInv, StreamType
<1>5. disk' \in [Files -> Text]
  BY <1>1, <1>4 DEF StreamsInv
<1>6. DOMAIN open' = DOMAIN open \ (Held(Top) \ {}) /\ StreamsInv' /\ leaked' = leaked \cup {}
  BY <1>1, <1>3, <1>5, ClosedStreams DEF StreamsInv
<1> QED BY <1>1, <1>2, <1>3, <1>6, Returns

\* cp opens its source ...
LEMMA CpSourceKeeps ==
  ASSUME StackInv, StreamsInv, leaked' = leaked, CpSource
  PROVE  StepOK
<1> DEFINE source == Command.source
<1>1. At("cp", "begin") /\ UNCHANGED <<out, disk, eof, console>>
  BY DEF CpSource
<1>2. /\ stack # <<>> /\ Top \in FrameType /\ FrameOK(Top) /\ out = OutOf(Top)
      /\ Op(Top) = "cp" /\ Top.at = "begin" /\ Top.line \in Commands
      /\ source \in Files \cup {None}
  BY <1>1, AtIs, MeaningIs DEF Op
<1>3. Held(Top) = {} /\ ~Redirects(Top) /\ out = Top.outer
      /\ Top.stream = Console /\ Top.source = Console
  BY <1>2 DEF Held, FrameOK, Redirects, OutOf
<1>4. CASE source = None
  <2> DEFINE f == [Top EXCEPT !.at = "target"]
  <2>1. stack' = Append(Front(stack), f) /\ UNCHANGED open
    BY <1>4 DEF CpSource, Goto
  <2>2. f \in FrameType /\ f.at = "target" /\ f.stream = Console /\ f.source = Console
        /\ f.outer = Top.outer /\ f.line = Top.line
    BY <1>2, <1>3 DEF FrameType, Place
  <2> HIDE DEF f
  <2>3. FrameOK(f) /\ Held(f) = {} /\ OutOf(f) = Top.outer /\ f.at # "sleeping"
    BY <1>2, <2>2 DEF FrameOK, Held, OutOf, Redirects, Op
  <2>4. StreamsInv'
    BY <1>1, <2>1, SameStreams
  <2> QED BY <1>1, <1>2, <1>3, <2>1, <2>2, <2>3, <2>4, Goes
<1>5. CASE source # None /\ (~CanRead(source) \/ ~DescriptorFree)
  <2>1. Leave /\ UNCHANGED open
    BY <1>5 DEF CpSource
  <2> QED BY <1>1, <1>2, <1>3, <2>1, SameStreams, JustReturns
<1>6. CASE source # None /\ CanRead(source) /\ DescriptorFree
  <2> DEFINE n == NewStream
             f == [Top EXCEPT !.at = "target", !.source = n]
  <2>1. open' = Opened(NewStream, source) /\ stack' = Append(Front(stack), f)
    BY <1>6 DEF CpSource, Goto
  <2>2. n \in Nat \ {Console} /\ n \notin DOMAIN open
    BY NewStreamIsNew
  <2>3. DOMAIN open' = DOMAIN open \cup {n} /\ StreamsInv'
    <3>1. source \in Files \cup {Memory}
      BY <1>2, <1>6
    <3> HIDE DEF source
    <3> QED BY <1>1, <2>1, <3>1, OpenedStream DEF StreamsInv
  <2> HIDE DEF n
  <2>4. f \in FrameType /\ f.at = "target" /\ f.stream = Console /\ f.source = n
        /\ f.outer = Top.outer /\ f.line = Top.line
    BY <1>2, <1>3, <2>2 DEF FrameType, Place
  <2> HIDE DEF f
  <2>5. FrameOK(f) /\ Held(f) = {n} /\ OutOf(f) = Top.outer /\ f.at # "sleeping"
    BY <1>2, <1>3, <2>2, <2>4 DEF FrameOK, Held, OutOf, Redirects, Op
  <2> QED BY <1>1, <1>2, <1>3, <2>1, <2>2, <2>3, <2>4, <2>5, Goes
<1> QED BY <1>4, <1>5, <1>6

\* ... and its target, or loses the source ...
LEMMA CpTargetKeeps ==
  ASSUME StackInv, StreamsInv, CpTarget,
         leaked' = IF Len(stack') < Len(stack) THEN leaked \cup ({Top.source} \ {Console}) ELSE leaked
  PROVE  StepOK
<1> DEFINE target == Command.target
<1>1. At("cp", "target") /\ UNCHANGED <<out, eof, console>>
  BY DEF CpTarget
<1>2. /\ stack # <<>> /\ Top \in FrameType /\ FrameOK(Top) /\ out = OutOf(Top)
      /\ Op(Top) = "cp" /\ Top.at = "target" /\ Top.line \in Commands
      /\ Meaning[Top.line].target = target /\ target \in Files \cup {None}
      /\ Held(Top) \subseteq DOMAIN open
  BY <1>1, AtIs, MeaningIs DEF Op
<1>3. Held(Top) = {Top.source} \ {Console} /\ out = Top.outer /\ Top.stream = Console
  BY <1>2 DEF Held, FrameOK, Redirects, OutOf
<1>4. stack \in Seq(FrameType) /\ Len(stack) \in Nat /\ Len(Front(stack)) = Len(stack) - 1
      /\ Front(stack) \in Seq(FrameType)
  BY <1>2, AroundTop DEF StackInv
<1>5. ASSUME NEW f \in FrameType, stack' = Append(Front(stack), f) PROVE leaked' = leaked
  <2>1. Len(stack') = Len(stack)
    BY <1>4, <1>5
  <2> QED BY <1>4, <2>1
<1>6. CASE target = None
  <2> DEFINE f == [Top EXCEPT !.at = "copy"]
  <2>1. stack' = Append(Front(stack), f) /\ UNCHANGED <<open, disk>>
    BY <1>6 DEF CpTarget, Goto
  <2>2. f \in FrameType /\ f.at = "copy" /\ f.stream = Console /\ f.source = Top.source
        /\ f.outer = Top.outer /\ f.line = Top.line
    BY <1>2, <1>3 DEF FrameType, Place
  <2> HIDE DEF f
  <2>3. FrameOK(f) /\ Held(f) = Held(Top) /\ OutOf(f) = Top.outer /\ f.at # "sleeping"
    BY <1>2, <1>3, <1>6, <2>2 DEF FrameOK, Held, OutOf, Redirects, Op
  <2>4. StreamsInv' /\ leaked' = leaked
    BY <1>1, <1>5, <2>1, <2>2, SameStreams
  <2>5. DOMAIN open' = (DOMAIN open \ Held(Top)) \cup Held(f)
    BY <1>2, <2>1, <2>3
  <2> QED BY <1>1, <1>2, <1>3, <2>1, <2>2, <2>3, <2>4, <2>5, Goes
<1>7. CASE target # None /\ (~CanWrite(target) \/ ~DescriptorFree)
  <2>1. stack' = Front(stack) /\ UNCHANGED <<open, disk>>
    BY <1>7 DEF CpTarget, Leave
  <2>2. leaked' = leaked \cup Held(Top)
    BY <1>3, <1>4, <2>1
  <2>3. StreamsInv'
    BY <1>1, <2>1, SameStreams
  <2>4. DOMAIN open' = DOMAIN open \ (Held(Top) \ Held(Top)) /\ out' = Top.outer
    BY <1>1, <1>3, <2>1
  <2> QED BY <1>2, <2>1, <2>2, <2>3, <2>4, Returns
<1>8. CASE target # None /\ CanWrite(target) /\ DescriptorFree
  <2> DEFINE n == NewStream
             f == [Top EXCEPT !.at = "copy", !.stream = n]
  <2>1. /\ open' = Opened(NewStream, target) /\ disk' = [disk EXCEPT ![target] = <<>>]
        /\ stack' = Append(Front(stack), f)
    BY <1>8 DEF CpTarget, Goto
  <2>2. n \in Nat \ {Console} /\ n \notin DOMAIN open
    BY NewStreamIsNew
  <2>3. DOMAIN open' = DOMAIN open \cup {n} /\ StreamsInv'
    <3>1. <<>> \in Text
      BY DEF Text
    <3>2. disk' \in [Files -> Text]
      BY <2>1, <3>1 DEF StreamsInv
    <3>3. target \in Files \cup {Memory}
      BY <1>2, <1>8
    <3> HIDE DEF target
    <3> QED BY <1>1, <2>1, <3>2, <3>3, OpenedStream DEF StreamsInv
  <2> HIDE DEF n
  <2>4. f \in FrameType /\ f.at = "copy" /\ f.stream = n /\ f.source = Top.source
        /\ f.outer = Top.outer /\ f.line = Top.line
    BY <1>2, <1>3, <2>2 DEF FrameType, Place
  <2> HIDE DEF f
  <2>5. f.source # Console => f.source # f.stream
    BY <1>2, <1>3, <2>2, <2>4
  <2>6. FrameOK(f) /\ Held(f) = Held(Top) \cup {n} /\ OutOf(f) = Top.outer /\ f.at # "sleeping"
    BY <1>2, <1>3, <1>8, <2>2, <2>4, <2>5 DEF FrameOK, Held, OutOf, Redirects, Op
  <2>7. leaked' = leaked
    BY <1>5, <2>1, <2>4
  <2>8. /\ DOMAIN open' = (DOMAIN open \ Held(Top)) \cup Held(f)
        /\ Held(f) \cap (DOMAIN open \ Held(Top)) = {}
    BY <1>2, <2>2, <2>3, <2>6
  <2> QED BY <1>1, <1>2, <1>3, <2>1, <2>3, <2>4, <2>6, <2>7, <2>8, Goes
<1> QED BY <1>6, <1>7, <1>8

\* ... copies ...
LEMMA CpCopyKeeps ==
  ASSUME StackInv, StreamsInv, leaked' = leaked, CpCopy
  PROVE  StepOK
<1> DEFINE f == [Top EXCEPT !.at = "close"]
<1>1. At("cp", "copy") /\ stack' = Append(Front(stack), f) /\ UNCHANGED <<out, disk>>
  BY DEF CpCopy, Goto
<1>2. /\ stack # <<>> /\ Top \in FrameType /\ FrameOK(Top) /\ out = OutOf(Top)
      /\ Op(Top) = "cp" /\ Top.at = "copy" /\ Top.line \in Commands
      /\ Command.source \in Files \cup {None} /\ Held(Top) \subseteq DOMAIN open
  BY <1>1, AtIs, MeaningIs DEF Op
<1>3. Source \in Text
  <2>1. <<>> \in Text /\ Typed \in Text
    BY RedirectAssumption DEF Text
  <2>2. Command.source # None => disk[Command.source] \in Text
    BY <1>2 DEF StreamsInv
  <2> QED BY <2>1, <2>2 DEF Source
<1>10. PICK i, lines : lines \in Text /\ Write(i, lines)
  <2>1. CASE TargetFails
    <3>1. PICK n \in 0..(Len(Source) - 1) : Write(Top.stream, SubSeq(Source, 1, n))
      BY <2>1 DEF TargetFails
    <3>2. SubSeq(Source, 1, n) \in Text
      BY <1>3, <3>1, SubSeqProperties DEF Text
    <3> QED BY <3>1, <3>2
  <2>2. CASE ~TargetFails
    BY <1>3, <2>2 DEF CpCopy
  <2> QED BY <2>1, <2>2
<1>4. DOMAIN open' = DOMAIN open /\ console' \in Text /\ open' \in [DOMAIN open' -> StreamType]
  BY <1>10, WrittenStream
<1>5. eof' \in BOOLEAN
  BY DEF CpCopy, TargetFails, StreamsInv
<1>6. StreamsInv'
  BY <1>1, <1>4, <1>5 DEF StreamsInv
<1>7. f \in FrameType /\ f.at = "close" /\ f.stream = Top.stream /\ f.source = Top.source
      /\ f.outer = Top.outer /\ f.line = Top.line
  BY <1>2 DEF FrameType, Place
<1> HIDE DEF f
<1>8. FrameOK(f) /\ Held(f) = Held(Top) /\ OutOf(f) = out /\ f.at # "sleeping"
  BY <1>2, <1>7 DEF FrameOK, Held, OutOf, Redirects, Op
<1>9. DOMAIN open' = (DOMAIN open \ Held(Top)) \cup Held(f)
  BY <1>2, <1>4, <1>8
<1> QED BY <1>1, <1>2, <1>6, <1>7, <1>8, <1>9, Goes

\* ... and closes both.
LEMMA CpCloseKeeps ==
  ASSUME StackInv, StreamsInv, leaked' = leaked, CpClose
  PROVE  StepOK
<1>1. /\ At("cp", "close") /\ open' = Without({Top.source, Top.stream})
      /\ disk' = IF Command.target = None THEN disk
                 ELSE [disk EXCEPT ![Command.target] = open[Top.stream].text]
      /\ stack' = Front(stack) /\ UNCHANGED <<out, eof, console>>
  BY DEF CpClose, Leave
<1>2. /\ stack # <<>> /\ Top \in FrameType /\ FrameOK(Top) /\ out = OutOf(Top)
      /\ Op(Top) = "cp" /\ Top.at = "close" /\ Held(Top) \subseteq DOMAIN open
      /\ Command = Meaning[Top.line]
  BY <1>1, AtIs
<1>3. Held(Top) = {Top.stream, Top.source} \ {Console} /\ out = Top.outer
  BY <1>2 DEF Held, Redirects, OutOf
<1>4. disk' \in [Files -> Text]
  <2>1. CASE Command.target = None
    BY <1>1, <2>1 DEF StreamsInv
  <2>2. CASE Command.target # None
    <3>1. Top.stream # Console
      BY <1>2, <2>2 DEF FrameOK
    <3>2. open[Top.stream].text \in Text
      BY <1>2, <1>3, <3>1 DEF StreamsInv, StreamType
    <3> QED BY <1>1, <2>2, <3>2 DEF StreamsInv
  <2> QED BY <2>1, <2>2
<1>5. StreamsInv' /\ DOMAIN open' = DOMAIN open \ {Top.source, Top.stream}
  BY <1>1, <1>4, ClosedStreams DEF StreamsInv
<1>6. DOMAIN open' = DOMAIN open \ (Held(Top) \ {}) /\ leaked' = leaked \cup {}
  BY <1>3, <1>5 DEF StreamsInv
<1> QED BY <1>1, <1>2, <1>3, <1>5, <1>6, Returns

-----------------------------------------------------------------------------
(* Every step.                                                             *)

\* Only cp loses a stream, where it opens its target.
LEMMA CallsKeep ==
  ASSUME StackInv, StreamsInv, Run
  PROVE  StepOK
<1>1. CASE CpTarget
  <2>1. leaked' = IF Len(stack') < Len(stack) THEN leaked \cup ({Top.source} \ {Console}) ELSE leaked
    BY <1>1 DEF Run, CpTarget
  <2> QED BY <1>1, <2>1, CpTargetKeeps
<1>2. CASE Return \/ EchoFunc \/ ExecFunc \/ UlimitEnd \/ SleepEnd
  <2>1. ~At("cp", "target")
    BY <1>2 DEF Return, Unknown, EvalTooLong, SleepRefused, EvalEnd, EchoFunc, ExecFunc, UlimitEnd, SleepEnd, At
  <2>2. leaked' = leaked
    BY <2>1 DEF Run
  <2> QED BY <1>2, <2>2, ShortCalls
<1>3. CASE UlimitBegin \/ UlimitLetter \/ SleepFunc \/ SleepTick
  <2>1. ~At("cp", "target")
    BY <1>3 DEF UlimitBegin, UlimitLetter, SleepFunc, SleepTick, At
  <2>2. leaked' = leaked
    BY <2>1 DEF Run
  <2> QED BY <1>3, <2>2, LongCalls
<1>4. CASE EvalCapture \/ EvalRestore \/ EvalOutput
  <2>1. ~At("cp", "target")
    BY <1>4 DEF EvalCapture, EvalRestore, EvalOutput, At
  <2>2. leaked' = leaked
    BY <2>1 DEF Run
  <2> QED BY <1>4, <2>2, EvalCaptureKeeps, EvalRestoreKeeps, EvalOutputKeeps
<1>5. CASE ListRecordsOpen \/ ListRecordsDbl \/ ListRecordsClose
  <2>1. ~At("cp", "target")
    BY <1>5 DEF ListRecordsOpen, ListRecordsDbl, ListRecordsClose, At
  <2>2. leaked' = leaked
    BY <2>1 DEF Run
  <2> QED BY <1>5, <2>2, ListRecordsOpenKeeps, ListRecordsDblKeeps, ListRecordsCloseKeeps
<1>6. CASE CpSource \/ CpCopy \/ CpClose
  <2>1. ~At("cp", "target")
    BY <1>6 DEF CpSource, CpCopy, CpClose, At
  <2>2. leaked' = leaked
    BY <2>1 DEF Run
  <2> QED BY <1>6, <2>2, CpSourceKeeps, CpCopyKeeps, CpCloseKeeps
<1> QED BY <1>1, <1>2, <1>3, <1>4, <1>5, <1>6 DEF Run, CallStep

\* A line that is typed finds stdout at the console.
LEMMA TypeKeeps ==
  ASSUME StackInv, StreamsInv, NEW line \in STRING, Type(line)
  PROVE  StepOK
<1> DEFINE d == DOMAIN open
           t == Append(stack, Frame(line, out))
<1>1. stack = <<>> /\ stack' = <<Frame(line, out)>> /\ console' = <<>>
      /\ UNCHANGED <<out, open, disk, eof, leaked>>
  BY DEF Type
<1>2. out \in Nat /\ stack \in Seq(FrameType) /\ StackOK(stack, d, leaked, out) /\ MayRun(stack)
  BY <1>1, OutIsStream DEF StackInv, MayRun
<1>3. stack' = t
  BY <1>1
<1> HIDE DEF d
<1>4. /\ t \in Seq(FrameType) /\ Len(t) = Len(stack) + 1 /\ Last(t) = Frame(line, out)
      /\ StackOK(t, d, leaked, out)
  BY <1>2, RunsAnother
<1> HIDE DEF t
<1>5. StackInv'
  BY <1>1, <1>3, <1>4 DEF StackInv, d
<1>6. <<>> \in Text
  BY DEF Text
<1>7. StreamsInv'
  BY <1>1, <1>6 DEF StreamsInv
<1>8. Last(stack').at = "begin" /\ Len(stack') = Len(stack) + 1 /\ Len(stack) \in Nat
  BY <1>2, <1>3, <1>4 DEF Frame
<1> QED BY <1>5, <1>7, <1>8 DEF StepOK

\* Every step of the shell and of what it talks to
LEMMA StepsKeep ==
  ASSUME session \in Sessions, StackInv, StreamsInv, [Next]_vars
  PROVE  StepOK
<1>1. CASE Run
  BY <1>1, CallsKeep
<1>2. ASSUME NEW line \in session.lines, Type(line) PROVE StepOK
  BY <1>2, ShellAssumption, TypeKeeps
<1>3. CASE ~Run /\ ~ \E line \in session.lines : Type(line)
  <2>1. UNCHANGED <<stack, out, leaked, open, disk, eof, console>>
    BY <1>3 DEF Next, Signal, SleepAgain, Peer, vars, streamVars, historyVars, streamsOnly
  <2> QED BY <2>1, SameStreams, SameStack
<1> QED BY <1>1, <1>2, <1>3

\* The time that has been slept and what is left of it
TimerInv ==
  /\ timer \in [sleeptime : Nat, left : Nat, slept : Nat, signals : Nat]
  /\ SleepsAsAsked

\* What has been slept and what is left add up to what was asked for.
LEMMA TimerKept ==
  ASSUME StackInv, StepOK, TimerInv, [Next]_vars
  PROVE  TimerInv'
<1> DEFINE TimerType == [sleeptime : Nat, left : Nat, slept : Nat, signals : Nat]
<1>1. CASE UNCHANGED <<timer, stack>>
  BY <1>1 DEF TimerInv, SleepsAsAsked, At, Command, Top
<1>2. CASE SleepFunc
  <2> DEFINE f == [Top EXCEPT !.at = "sleeping"]
  <2>1. At("sleep", "begin") /\ stack' = Append(Front(stack), f)
        /\ timer' = [NoTimer EXCEPT !.sleeptime = Command.time, !.left = Command.time]
        /\ Command.time >= 0
    BY <1>2 DEF SleepFunc, Goto
  <2>2. Command.time \in Int /\ Top \in FrameType /\ Front(stack) \in Seq(FrameType)
    BY <2>1, AtIs, MeaningIs, AroundTop DEF Op, StackInv
  <2> DEFINE t == Command.time
  <2>8. t \in Nat
    BY <2>1, <2>2
  <2>7. timer' = [sleeptime |-> t, left |-> t, slept |-> 0, signals |-> 0] /\ t \in Nat
    BY <2>1, <2>8 DEF NoTimer
  <2>3. timer' \in TimerType /\ timer'.slept + timer'.left = Command.time
    <3>1. t = Command.time
      OBVIOUS
    <3> HIDE DEF t
    <3>2. timer' \in TimerType /\ timer'.slept = 0 /\ timer'.left = t
      BY <2>7
    <3>3. 0 + t = t
      BY <2>7
    <3> QED BY <3>1, <3>2, <3>3
  <2>4. f \in FrameType /\ f.line = Top.line
    BY <2>2 DEF FrameType, Place
  <2> HIDE DEF f
  <2>5. Last(stack') = f
    BY <2>1, <2>2, <2>4 DEF Last
  <2>6. Command' = Command
    BY <2>4, <2>5 DEF Command, Top
  <2> QED BY <2>3, <2>6 DEF TimerInv, SleepsAsAsked
<1>3. CASE SleepTick \/ SleepAgain
  <2>1. /\ At("sleep", "sleeping") /\ timer.left > 0 /\ stack' = stack
        /\ \/ timer' = [timer EXCEPT !.left = timer.left - 1, !.slept = timer.slept + 1]
           \/ timer' = [timer EXCEPT !.sleeptime = timer.left, !.left = timer.left,
                                     !.signals = timer.signals + 1]
    BY <1>3 DEF SleepTick, SleepAgain, Remaining
  <2>2. timer \in TimerType /\ timer.slept + timer.left = Command.time
    BY <2>1 DEF TimerInv, SleepsAsAsked
  <2>3. timer' \in TimerType /\ timer'.slept + timer'.left = timer.slept + timer.left
    <3>1. /\ timer = [sleeptime |-> timer.sleeptime, left |-> timer.left,
                      slept |-> timer.slept, signals |-> timer.signals]
          /\ timer.sleeptime \in Nat /\ timer.left \in Nat
          /\ timer.slept \in Nat /\ timer.signals \in Nat
      BY <2>2
    <3>2. CASE timer' = [timer EXCEPT !.left = timer.left - 1, !.slept = timer.slept + 1]
      <4>1. timer' = [sleeptime |-> timer.sleeptime, left |-> timer.left - 1,
                      slept |-> timer.slept + 1, signals |-> timer.signals]
        BY <3>1, <3>2
      <4>2. timer.left - 1 \in Nat /\ timer.slept + 1 \in Nat
            /\ (timer.slept + 1) + (timer.left - 1) = timer.slept + timer.left
        BY <2>1, <3>1
      <4> QED BY <3>1, <4>1, <4>2
    <3>3. CASE timer' = [timer EXCEPT !.sleeptime = timer.left, !.left = timer.left,
                                      !.signals = timer.signals + 1]
      <4>1. timer' = [sleeptime |-> timer.left, left |-> timer.left,
                      slept |-> timer.slept, signals |-> timer.signals + 1]
        BY <3>1, <3>3
      <4>2. timer.signals + 1 \in Nat
        BY <3>1
      <4> QED BY <3>1, <4>1, <4>2
    <3> QED BY <2>1, <3>2, <3>3
  <2>4. Command' = Command
    BY <2>1 DEF Command, Top
  <2> QED BY <2>2, <2>3, <2>4 DEF TimerInv, SleepsAsAsked
<1>4. CASE ~SleepFunc /\ stack' # stack
  <2>1. ~At("sleep", "sleeping")'
    BY <1>4 DEF StepOK, At, Top
  <2>2. timer' = timer \/ timer' = NoTimer
    BY <1>4 DEF Next, Type, Run, CallStep, Return, Unknown, EvalTooLong, SleepRefused, EvalEnd, EchoFunc, ExecFunc,
                EvalCapture, EvalRestore, EvalOutput, ListRecordsOpen, ListRecordsDbl,
                ListRecordsClose, CpSource, CpTarget, CpCopy, CpClose, UlimitBegin, UlimitLetter,
                UlimitEnd, SleepTick, SleepEnd, Signal, SleepAgain, Peer, streamVars, vars
  <2>3. timer' \in TimerType
    BY <2>2 DEF TimerInv, NoTimer
  <2> QED BY <2>1, <2>3 DEF TimerInv, SleepsAsAsked
<1>5. CASE stack' = stack /\ ~SleepFunc /\ ~SleepTick /\ ~SleepAgain
  <2>1. CASE SleepEnd
    <3>1. stack # <<>> /\ stack' = Front(stack)
      BY <2>1 DEF SleepEnd, Leave, At
    <3>2. Len(stack') = Len(stack) - 1 /\ Len(stack) \in Nat
      BY <3>1, AroundTop DEF StackInv
    <3> QED BY <1>5, <3>2
  <2>2. CASE ~SleepEnd
    <3>1. timer' = timer
      BY <1>5, <2>2 DEF Next, Type, Run, CallStep, Return, Unknown, EvalTooLong, SleepRefused, EvalEnd, EchoFunc,
                ExecFunc, EvalCapture, EvalRestore, EvalOutput, ListRecordsOpen, ListRecordsDbl,
                ListRecordsClose, CpSource, CpTarget, CpCopy, CpClose, UlimitBegin, UlimitLetter,
                UlimitEnd, Signal, Peer, streamVars, vars
    <3> QED BY <1>1, <1>5, <3>1
  <2> QED BY <2>1, <2>2
<1> QED BY <1>2, <1>3, <1>4, <1>5

-----------------------------------------------------------------------------
(* The theorems.                                                           *)

ShellInv == session \in Sessions /\ StackInv /\ StreamsInv /\ TimerInv

\* The inductive invariant holds.
LEMMA ShellInvHolds == Spec => []ShellInv
<1>1. Init => StackInv /\ StreamsInv /\ TimerInv
  <2> SUFFICES ASSUME Init PROVE StackInv /\ StreamsInv /\ TimerInv
    OBVIOUS
  <2>1. /\ stack = <<>> /\ out = Console /\ DOMAIN open = {} /\ disk = Contents /\ eof = FALSE
        /\ console = <<>> /\ leaked = {} /\ timer = NoTimer /\ open = [i \in {} |-> None]
    BY DEF Init
  <2>2. StackInv
    <3>1. stack \in Seq(FrameType) /\ Len(stack) = 0
      BY <2>1
    <3>2. \A k : k \notin 1..Len(stack) /\ k \notin 1..(Len(stack) - 1)
      BY <3>1
    <3> QED BY <2>1, <3>1, <3>2 DEF StackInv, StackOK
  <2>3. StreamsInv
    <3>1. <<>> \in Text
      BY DEF Text
    <3>2. open \in [DOMAIN open -> StreamType]
      BY <2>1
    <3> QED BY <2>1, <3>1, <3>2, ShellAssumption, FS_EmptySet DEF StreamsInv
  <2>4. TimerInv
    BY <2>1 DEF TimerInv, NoTimer, SleepsAsAsked, At
  <2> QED BY <2>2, <2>3, <2>4
<1>2. session \in Sessions /\ StackInv /\ StreamsInv /\ TimerInv /\ [Next]_vars
        => (StackInv /\ StreamsInv /\ TimerInv)'
  BY StepsKeep, TimerKept DEF StepOK
<1> QED BY <1>1, <1>2, SessionStays, PTL DEF Spec, ShellInv

\* The stdout of the shell is always a stream that is open, or the console,
\* whatever the commands that run each other do.
THEOREM ShellTypeCorrect == Spec => []TypeOK
<1>1. ShellInv /\ UlimitTypeOK => TypeOK
  <2> SUFFICES ASSUME ShellInv, UlimitTypeOK PROVE TypeOK
    OBVIOUS
  <2>1. out \in {Console} \cup DOMAIN open
    BY OutIsStream DEF ShellInv
  <2>2. \A i \in DOMAIN open : open[i].file \in Files \cup {Memory}
    BY DEF ShellInv, StreamsInv, StreamType
  <2>3. \A k \in 1..Len(stack) : stack[k].at \in Place
    <3> SUFFICES ASSUME NEW k \in 1..Len(stack) PROVE stack[k].at \in Place
      OBVIOUS
    <3>1. stack[k] \in FrameType
      BY DEF ShellInv, StackInv
    <3> QED BY <3>1 DEF FrameType
  <2> QED BY <2>1, <2>2, <2>3 DEF TypeOK, ShellInv, StreamsInv, Place
<1> QED BY <1>1, ShellInvHolds, ShellsSetLimits, LimitsWellFormed, PTL

\* On every way out, at any depth of evals, a command leaves stdout as it
\* found it.
THEOREM StdoutCorrect == Spec => StdoutRestored
<1> DEFINE Step == Len(stack') < Len(stack) => out' = Top.outer
<1>1. ShellInv /\ [Next]_vars => [Step]_vars
  BY StepsKeep DEF ShellInv, StepOK
<1> QED BY <1>1, ShellInvHolds, PTL DEF Spec, StdoutRestored

\* When the shell waits for a line no stream is open but those that cp has
\* lost.
THEOREM StreamsCorrect == Spec => []StreamsClosed
<1>1. ShellInv => StreamsClosed
  <2> SUFFICES ASSUME StackInv, stack = <<>> PROVE DOMAIN open = leaked
    BY DEF ShellInv, StreamsClosed
  <2>1. \A k : k \notin 1..Len(stack)
    OBVIOUS
  <2> QED BY <2>1 DEF StackInv, StackOK
<1> QED BY <1>1, ShellInvHolds, PTL

\* Any number of signals during a sleep neither shorten nor prolong it.
THEOREM SleepCorrect == Spec => []SleepsAsAsked
<1>1. ShellInv => SleepsAsAsked
  BY DEF ShellInv, TimerInv
<1> QED BY <1>1, ShellInvHolds, PTL

\* However the commands of a shell call each other, and whatever other shells
\* do to the limits meanwhile, ulimit has set what it was asked to set.
THEOREM LimitsInShell == Spec => []LimitsAsAsked
BY ShellsSetLimits, LimitsCorrect, PTL
-----------------------------------------------------------------------------
(* What a line promises, by recursion on the depth of the evals.           *)

Known == {st \in Outside : st.done}

\* What lines can do to the outside: what is not known stays so.
Running ==
  {run \in [STRING \X Outside -> Outside] : \A x \in STRING \X Outside : run[x].done => x[2].done}

\* A part of the outside is replaced.
LEMMA OutsideBut ==
  ASSUME NEW st \in Outside
  PROVE  /\ st.done \in BOOLEAN /\ st.printed \in Text /\ st.disk \in [Files -> Text] /\ st.eof \in BOOLEAN
         /\ \A lines \in Text : [st EXCEPT !.printed = lines] \in Outside
         /\ \A b \in BOOLEAN : [st EXCEPT !.done = b] \in Outside /\ [st EXCEPT !.eof = b] \in Outside
         /\ \A lines \in Text : Printing(st, lines) \in Outside /\ Printing(st, lines).done = st.done
         /\ \A lines \in Text, file \in Files :
              Storing(st, file, lines) \in Outside /\ Storing(st, file, lines).done = st.done
<1>1. st.done \in BOOLEAN /\ st.printed \in Text /\ st.disk \in [Files -> Text] /\ st.eof \in BOOLEAN
  BY DEF Outside
<1>2. \A lines \in Text : [st EXCEPT !.printed = lines] \in Outside
  BY DEF Outside
<1>3. \A b \in BOOLEAN : [st EXCEPT !.done = b] \in Outside /\ [st EXCEPT !.eof = b] \in Outside
  BY DEF Outside
<1>4. ASSUME NEW lines \in Text
      PROVE  Printing(st, lines) \in Outside /\ Printing(st, lines).done = st.done
  <2>1. st.printed \o lines \in Text
    BY <1>1 DEF Text
  <2>2. Printing(st, lines) = [st EXCEPT !.printed = st.printed \o lines]
    BY DEF Printing
  <2> QED BY <2>1, <2>2 DEF Outside
<1>5. ASSUME NEW lines \in Text, NEW file \in Files
      PROVE  Storing(st, file, lines) \in Outside /\ Storing(st, file, lines).done = st.done
  <2>1. [st.disk EXCEPT ![file] = lines] \in [Files -> Text]
    BY <1>1
  <2>2. Storing(st, file, lines) = [st EXCEPT !.disk = [st.disk EXCEPT ![file] = lines]]
    BY DEF Storing
  <2> QED BY <2>1, <2>2 DEF Outside
<1> QED BY <1>1, <1>2, <1>3, <1>4, <1>5

\* A line is repeated as often as asked.
LEMMA RepeatedIsText ==
  ASSUME NEW line \in STRING, NEW n \in Nat
  PROVE  Repeated(line, n) \in Text /\ Len(Repeated(line, n)) = n
<1>1. Repeated(line, n) \in [1..n -> STRING]
  BY DEF Repeated
<1> HIDE DEF Repeated
<1>2. Repeated(line, n) \in Text
  BY <1>1, SeqDef DEF Text
<1>3. DOMAIN Repeated(line, n) = 1..n /\ DOMAIN Repeated(line, n) = 1..Len(Repeated(line, n))
      /\ Len(Repeated(line, n)) \in Nat
  BY <1>1, <1>2, LenProperties DEF Text
<1>4. \A m \in Nat : 1..m = 1..n => m = n
  <2> TAKE m \in Nat
  <2> HAVE 1..m = 1..n
  <2>1. (m \in 1..m <=> m # 0) /\ (n \in 1..n <=> n # 0)
    OBVIOUS
  <2>2. m \in 1..n <=> m # 0
    BY <2>1
  <2>3. n \in 1..m <=> n # 0
    BY <2>1
  <2> QED BY <2>2, <2>3
<1> QED BY <1>2, <1>3, <1>4

\* ulimit shows a number of lines.
LEMMA ShowsIsNat ==
  ASSUME NEW options \in Seq(STRING), NEW limit \in LimitArgs
  PROVE  Shows(options, limit) \in Nat
<1> DEFINE n == Len(Selected(options))
           S == {k \in 1..n : Selected(options)[k] \in Resources}
<1>1. n \in Nat
  <2>1. <<"f">> \in Seq(STRING)
    BY UlimitAssumption
  <2>2. Selected(options) \in Seq(STRING)
    BY <2>1 DEF Selected
  <2> QED BY <2>2
<1>2. IsFiniteSet(1..n)
  <2> HIDE DEF n
  <2> QED BY <1>1, FS_Interval
<1>3. IsFiniteSet(S) /\ Cardinality(S) \in Nat
  <2>1. S \subseteq 1..n
    OBVIOUS
  <2> HIDE DEF S, n
  <2> QED BY <1>2, <2>1, FS_Subset, FS_CardinalityType
<1> QED BY <1>3 DEF Shows

\* What cp copies
LEMMA CopiedIsOutside ==
  ASSUME NEW c, c.source \in Files \cup {None}, c.target \in Files \cup {None}, NEW st \in Outside
  PROVE  Reads(c, st) \in Text /\ Copied(c, st) \in Outside /\ Copied(c, st).done = st.done
<1>1. Reads(c, st) \in Text
  <2>1. <<>> \in Text /\ Typed \in Text
    BY RedirectAssumption DEF Text
  <2>2. c.source # None => st.disk[c.source] \in Text
    BY OutsideBut
  <2> QED BY <2>1, <2>2 DEF Reads
<1> DEFINE read == [st EXCEPT !.eof = st.eof \/ c.source = None]
<1>2. read \in Outside /\ read.done = st.done
  BY DEF Outside
<1>3. Copied(c, st) = IF c.target = None THEN Printing(read, Reads(c, st))
                                         ELSE Storing(read, c.target, Reads(c, st))
  BY DEF Copied
<1> HIDE DEF read
<1>4. /\ \A lines \in Text : Printing(read, lines) \in Outside /\ Printing(read, lines).done = read.done
      /\ \A lines \in Text, file \in Files :
           Storing(read, file, lines) \in Outside /\ Storing(read, file, lines).done = read.done
  BY <1>2, OutsideBut
<1> QED BY <1>1, <1>2, <1>3, <1>4

\* What the other commands do is known.
LEMMA EffectIsOutside ==
  ASSUME NEW line \in STRING, NEW st \in Outside
  PROVE  Effect(line, st) \in Outside /\ Effect(line, st).done = st.done
<1> DEFINE c == Meaning[line]
<1>1. CASE line \notin Commands
  BY <1>1 DEF Effect
<1>2. CASE line \in Commands
  <2>1. c \in Meanings
    BY <1>2, RedirectAssumption
  <2>2. \A text \in STRING : <<text>> \in Text
    BY OneElement DEF Text
  <2>3. c.op \in {"echo", "exec"} => <<c.text>> \in Text
    BY <2>1, <2>2 DEF Meanings
  <2>4. /\ Listing \in Text
        /\ c.op = "listRecords" /\ c.file # None => c.file \in Files
    BY <2>1, RedirectAssumption DEF Meanings
  <2>5. c.op = "cp" => Copied(c, st) \in Outside /\ Copied(c, st).done = st.done
    BY <2>1, CopiedIsOutside DEF Meanings
  <2>6. c.op = "ulimit" => Repeated(Shown, Shows(c.options, c.limit)) \in Text
    BY <2>1, ShowsIsNat, RepeatedIsText, RedirectAssumption DEF Meanings
  <2>7. /\ \A lines \in Text : Printing(st, lines) \in Outside /\ Printing(st, lines).done = st.done
        /\ \A lines \in Text, file \in Files :
             Storing(st, file, lines) \in Outside /\ Storing(st, file, lines).done = st.done
    BY OutsideBut
  <2> HIDE DEF c
  <2>8. \/ Effect(line, st) = Printing(st, <<c.text>>) /\ c.op \in {"echo", "exec"}
        \/ Effect(line, st) = Printing(st, Listing)
        \/ Effect(line, st) = Storing(st, c.file, Listing) /\ c.op = "listRecords" /\ c.file # None
        \/ Effect(line, st) = Copied(c, st) /\ c.op = "cp"
        \/ Effect(line, st) = Printing(st, Repeated(Shown, Shows(c.options, c.limit))) /\ c.op = "ulimit"
        \/ Effect(line, st) = st
    BY <1>2 DEF Effect, c
  <2> QED BY <2>3, <2>4, <2>5, <2>6, <2>7, <2>8
<1> QED BY <1>1, <1>2

\* An eval takes what its lines do from what these promise.
LEMMA RanIsKnown ==
  ASSUME NEW run \in Running, NEW line \in STRING, NEW st \in Outside
  PROVE  Ran(run, line, st) \in Outside /\ (Ran(run, line, st).done => st.done)
<1>1. CASE ~Evals(line)
  BY <1>1, EffectIsOutside DEF Ran
<1>2. CASE Evals(line)
  <2>1. Meaning[line].of \in STRING /\ <<>> \in Text
    <3>1. line \in Commands /\ Meaning[line].op = "eval"
      BY <1>2 DEF Evals
    <3>2. Meaning[line].of \in STRING
      BY <3>1, MeaningIs
    <3>3. <<>> \in Text
      BY DEF Text
    <3> QED BY <3>2, <3>3
  <2> DEFINE x == <<Meaning[line].of, [st EXCEPT !.printed = <<>>]>>
             inner == run[x]
             lines == Trimmed(inner.printed)
             after == [inner EXCEPT !.printed = st.printed]
  <2>2. x \in STRING \X Outside /\ x[2].done = st.done
    BY <2>1, OutsideBut DEF Outside
  <2> HIDE DEF x
  <2>3. inner \in Outside /\ (inner.done => st.done)
    BY <2>2 DEF Running
  <2>4. Ran(run, line, st) = run[<<LineOf(lines), after>>]
    BY <1>2 DEF Ran, x
  <2> HIDE DEF inner
  <2>5. after \in Outside /\ after.done = inner.done
    BY <2>3, OutsideBut DEF Outside
  <2>6. lines \in Text
    BY <2>3, OutsideBut, TrimmedIsText
  <2> HIDE DEF after, lines
  <2>7. LineOf(lines) \in STRING
    BY <2>6, LineOfIsLine
  <2>8. run[<<LineOf(lines), after>>] \in Outside
        /\ (run[<<LineOf(lines), after>>].done => after.done)
    BY <2>5, <2>7 DEF Running
  <2> QED BY <2>3, <2>4, <2>5, <2>8
<1> QED BY <1>1, <1>2

\* run promises what the lines do up to each depth.
IsPromise(run) ==
  /\ run \in [0..MaxDepth -> Running]
  /\ run[0] = [x \in STRING \X Outside |-> [x[2] EXCEPT !.done = FALSE]]
  /\ \A d \in 1..MaxDepth :
       run[d] = [x \in STRING \X Outside |-> Ran(run[d - 1], x[1], x[2])]

\* Promise is defined for each depth by the one before.
LEMMA PromiseIs == IsPromise(Promise)
<1> DEFINE N == MaxDepth
           X == STRING \X Outside
           none == [x \in X |-> [x[2] EXCEPT !.done = FALSE]]
           Turn(before) == [x \in X |-> Ran(before, x[1], x[2])]
           step == [y \in (1..N) \X Running |-> Turn(y[2])]
           IsLoop(f) == f = [d \in 0..N |-> [x \in X |-> IF d = 0 THEN [x[2] EXCEPT !.done = FALSE]
                                                         ELSE Ran(f[d - 1], x[1], x[2])]]
           promise == CHOOSE f : IsLoop(f)
<1>1. N \in Nat
  BY PromiseAssumption
<1>2. none \in Running
  <2>1. ASSUME NEW x \in X PROVE [x[2] EXCEPT !.done = FALSE] \in Outside
    BY OutsideBut
  <2>2. none \in [X -> Outside]
    BY <2>1
  <2>3. ASSUME NEW x \in X PROVE ~none[x].done
    BY DEF Outside
  <2> QED BY <2>2, <2>3 DEF Running
<1>3. \A before \in Running : Turn(before) \in Running
  <2> SUFFICES ASSUME NEW before \in Running PROVE Turn(before) \in Running
    OBVIOUS
  <2>1. ASSUME NEW x \in X
        PROVE  Ran(before, x[1], x[2]) \in Outside /\ (Ran(before, x[1], x[2]).done => x[2].done)
    BY RanIsKnown
  <2>2. Turn(before) \in [X -> Outside]
    BY <2>1
  <2> QED BY <2>1, <2>2 DEF Running
<1>4. step \in [(1..N) \X Running -> Running]
  <2> HIDE DEF Turn, N
  <2> QED BY <1>3
<1>5. PICK f : IsRecursive(f, N, Running, none, step)
  <2> HIDE DEF none, step, N
  <2> QED BY <1>1, <1>2, <1>4, RecursiveFunction
<1>6. \A d \in 1..N : f[d] = Turn(f[d - 1])
  <2> TAKE d \in 1..N
  <2> HIDE DEF step, none, N, Turn
  <2>1. f[d] = step[<<d, f[d - 1]>>] /\ d - 1 \in 0..N
    BY <1>1, <1>5 DEF IsRecursive
  <2>2. f[d - 1] \in Running
    BY <1>5, <2>1 DEF IsRecursive
  <2> DEFINE before == f[d - 1]
  <2> USE DEF step
  <2> HIDE DEF before
  <2>3. step[<<d, before>>] = Turn(before)
    BY <2>2 DEF before
  <2> QED BY <2>1, <2>3 DEF before
<1>7. IsPromise(f)
  BY <1>5, <1>6 DEF IsPromise, IsRecursive
<1>8. IsLoop(f)
  <2>1. f = [d \in 0..N |-> f[d]]
    BY <1>5 DEF IsRecursive
  <2>2. \A d \in 0..N : d # 0 => d \in 1..N
    BY <1>1
  <2>3. ASSUME NEW d \in 0..N
        PROVE  f[d] = [x \in X |-> IF d = 0 THEN [x[2] EXCEPT !.done = FALSE]
                                   ELSE Ran(f[d - 1], x[1], x[2])]
    <3>1. CASE d = 0
      BY <1>7, <3>1 DEF IsPromise
    <3>2. CASE d # 0
      <4>1. f[d] = Turn(f[d - 1])
        BY <1>6, <2>2, <3>2
      <4>2. \A x \in X : Ran(f[d - 1], x[1], x[2]) = IF d = 0 THEN [x[2] EXCEPT !.done = FALSE]
                                                     ELSE Ran(f[d - 1], x[1], x[2])
        BY <3>2
      <4> HIDE DEF X
      <4> QED BY <4>1, <4>2, Zenon
    <3> QED BY <3>1, <3>2
  <2> QED BY <2>1, <2>3
<1>9. ASSUME NEW h, IsLoop(h)
      PROVE  h = f
  <2> DEFINE T == {d \in 0..N : h[d] = f[d]}
  <2>1. 0 \in T
    BY <1>1, <1>7, <1>9 DEF IsPromise
  <2>2. \A d \in 1..N : d - 1 \in T => d \in T
    <3> TAKE d \in 1..N
    <3> HAVE d - 1 \in T
    <3>1. d \in 0..N /\ d # 0 /\ h[d - 1] = f[d - 1]
      BY <1>1
    <3>2. h[d] = Turn(h[d - 1])
      BY <1>9, <3>1
    <3> QED BY <1>6, <3>1, <3>2
  <2> HIDE DEF T
  <2>3. \A d \in 0..N : d \in T
    BY <1>1, <2>1, <2>2, InductionUpTo
  <2>4. \A d \in 0..N : h[d] = f[d]
    BY <2>3 DEF T
  <2>5. h = [d \in 0..N |-> h[d]]
    BY <1>9
  <2>6. f = [d \in 0..N |-> f[d]]
    BY <1>5 DEF IsRecursive
  <2> QED BY <2>4, <2>5, <2>6
<1>10. IsLoop(promise)
  <2> HIDE DEF IsLoop
  <2> QED BY <1>8
<1>11. promise = f
  <2> HIDE DEF IsLoop, promise
  <2> QED BY <1>9, <1>10
<1>12. Promise = promise
  BY DEF Promise
<1> QED BY <1>7, <1>11, <1>12

\* What is promised to the depth d is what the command does, or, of an eval,
\* what is promised to the depth d - 1 of what it runs.
LEMMA PromisedIs ==
  ASSUME NEW d \in Int, d <= MaxDepth, NEW line \in STRING, NEW st \in Outside,
         Promised(d, line, st).done
  PROVE  /\ Promised(d, line, st) \in Known /\ st \in Known
         /\ Promised(d, line, st) = Ran(Promise[d - 1], line, st)
         /\ \A l, s : Promised(d - 1, l, s) = Promise[d - 1][<<l, s>>]
<1> DEFINE x == <<line, st>>
<1>0. MaxDepth \in Nat /\ IsPromise(Promise) /\ x \in STRING \X Outside /\ x[1] = line /\ x[2] = st
  BY PromiseAssumption, PromiseIs
<1>1. d \in 0..MaxDepth
  <2> SUFFICES ASSUME d \notin 0..MaxDepth PROVE FALSE
    OBVIOUS
  <2>1. Promised(d, line, st) = [st EXCEPT !.done = FALSE]
    BY DEF Promised
  <2> QED BY <2>1 DEF Outside
<1>2. Promised(d, line, st) = Promise[d][x]
  BY <1>1 DEF Promised
<1> HIDE DEF x
<1>3. Promise[d][x] \in Outside /\ st.done
  <2>1. Promise[d] \in Running
    BY <1>0, <1>1 DEF IsPromise
  <2> QED BY <1>0, <1>2, <2>1 DEF Running
<1>4. d \in 1..MaxDepth
  <2> SUFFICES ASSUME d = 0 PROVE FALSE
    BY <1>0, <1>1
  <2>1. Promise[0][x] = [st EXCEPT !.done = FALSE]
    BY <1>0 DEF IsPromise
  <2> QED BY <1>2, <2>1 DEF Outside
<1>5. Promised(d, line, st) = Ran(Promise[d - 1], line, st)
  <2> DEFINE X == STRING \X Outside
             before == Promise[d - 1]
  <2>2. Promise[d] = [y \in X |-> Ran(before, y[1], y[2])]
    BY <1>0, <1>4 DEF IsPromise
  <2> HIDE DEF before, X
  <2>3. \A y \in X : Promise[d][y] = Ran(before, y[1], y[2])
    BY <2>2
  <2>1. Promise[d][x] = Ran(Promise[d - 1], x[1], x[2])
    BY <1>0, <2>3 DEF X, before
  <2> QED BY <1>0, <1>2, <2>1
<1>6. \A l, s : Promised(d - 1, l, s) = Promise[d - 1][<<l, s>>]
  BY <1>0, <1>4 DEF Promised
<1> QED BY <1>2, <1>3, <1>5, <1>6 DEF Known

-----------------------------------------------------------------------------
(* What the calls on the stack leave.                                      *)

\* The lines in a stream or on the console, and the outside of a call that
\* prints there
TextOf(o) == IF o = Console THEN console ELSE open[o].text
Now(o) == [done |-> TRUE, printed |-> TextOf(o), disk |-> disk, eof |-> eof]

\* The depth to which the call k on the stack is followed
Fuel(k) == MaxDepth + 1 - k

\* eval runs what it has captured.
Follow(k, lines, st) == Promised(Fuel(k) - 1, LineOf(lines), st)

\* What the call k leaves when the call it has run leaves st
AfterCall(k, f, st) ==
  IF f.at = "captured"
  THEN Follow(k, Trimmed(st.printed), [st EXCEPT !.printed = TextOf(f.orig)])
  ELSE st

\* The lines that ulimit still prints
ToShow ==
  IF call[Main].at = "all" THEN 1
  ELSE IF call[Main].at # "option" \/ call[Main].limit.kind # "missing" THEN 0
  ELSE Cardinality({j \in call[Main].j..Len(call[Main].options) :
                      call[Main].options[j] \in Resources})

\* What cp reads
SourceOf(c) ==
  IF c.source = None THEN IF eof THEN <<>> ELSE Typed
  ELSE IF c.source \in Directories THEN <<>> ELSE disk[c.source]

\* What cp leaves when both files are open, f the call
Copying(f, c) ==
  LET read == [Now(f.outer) EXCEPT !.eof = eof \/ c.source = None]
  IN  IF c.target = None THEN Printing(read, SourceOf(c))
      ELSE Storing(read, c.target, open[f.stream].text \o SourceOf(c))

\* What the topmost call leaves
Leaves(k, f) ==
  LET c == Meaning[f.line]
      now == Now(f.outer)
  IN  CASE f.at = "begin" -> Promised(Fuel(k), f.line, now)
        [] f.at = "captured" -> AfterCall(k, f, Now(f.stream))
        [] f.at = "output" -> Follow(k, f.buffer, now)
        [] f.at = "list" -> IF f.stream = Console THEN Printing(now, Listing)
                            ELSE Storing(now, open[f.stream].file, open[f.stream].text \o Listing)
        [] f.at = "target" -> IF c.target = None \/ CanWrite(c.target) THEN Copied(c, now) ELSE now
        [] f.at = "copy" -> Copying(f, c)
        [] f.at = "close" -> IF f.stream = Console THEN now
                             ELSE Storing(now, IF c.op = "cp" THEN c.target ELSE open[f.stream].file,
                                          open[f.stream].text)
        [] f.at = "limits" -> Printing(now, Repeated(Shown, ToShow))
        [] OTHER -> now

\* w is what each call on the stack leaves; the first of them leaves what the
\* line that was typed promises.
IsPlan(w) ==
  /\ w \in [Nat -> Known]
  /\ w[1] = Outcome
  /\ \A k \in 1..(Len(stack) - 1) : w[k] = AfterCall(k, stack[k], w[k + 1])
  /\ w[Len(stack)] = Leaves(Len(stack), Top)

\* exec without arguments makes a file that no command promises.
Alike(st) ==
  /\ st.printed = Outcome.printed /\ st.eof = Outcome.eof
  /\ \A file \in Files \ {ErrorFile} : st.disk[file] = Outcome.disk[file]

Ending == (\A k \in 1..Len(stack) : stack[k].at = "end") /\ Alike(Now(Console))

PlanInv ==
  ~short /\ ~refused /\ Outcome.done =>
    IF stack = <<>> THEN command # None => Alike(Now(Console))
                    ELSE Ending \/ \E w : IsPlan(w)

\* The streams to which stdout will be restored
Outers == {stack[j].orig : j \in {k \in 1..Len(stack) : stack[k].at = "captured"}}

\* They are not written to, nor closed, by the call that runs meanwhile.
LEMMA OuterIsApart ==
  ASSUME NEW s \in Seq(FrameType), s # <<>>, NEW d, NEW l, NEW o, StackOK(s, d, l, o),
         NEW j \in 1..Len(s), s[j].at = "captured"
  PROVE  /\ s[j].orig # o /\ s[j].orig \notin Held(s[Len(s)])
         /\ s[j].orig = Console \/ s[j].orig \in d
         /\ o # Console
<1> DEFINE n == Len(s)
           i == s[j].orig
           T == {k \in 0..n : k > j => s[k].outer # Console /\ s[k].outer # i}
<1>1. n \in Nat \ {0}
  BY EmptySeq
<1>2. i = s[j].outer
  BY DEF StackOK, FrameOK, Redirects
<1>3. i = Console \/ \E m \in 1..(j - 1) : i \in Held(s[m])
  BY <1>2 DEF StackOK
<1> HIDE DEF i, n
<1>4. ASSUME NEW k \in j..n PROVE i \notin Held(s[k])
  <2>1. CASE i = Console
    BY <2>1 DEF Held
  <2>2. CASE i # Console
    <3>1. PICK m \in 1..(j - 1) : i \in Held(s[m])
      BY <1>3, <2>2
    <3>2. m \in 1..Len(s) /\ k \in 1..Len(s) /\ m # k
      BY <1>1 DEF n
    <3> QED BY <3>1, <3>2 DEF StackOK
  <2> QED BY <2>1, <2>2
<1>5. ASSUME NEW k \in j..n, Redirects(s[k])
      PROVE  OutOf(s[k]) # Console /\ OutOf(s[k]) # i
  <2>1. k \in 1..Len(s) /\ FrameOK(s[k])
    BY <1>1 DEF StackOK, n
  <2>2. s[k].stream # Console /\ s[k].stream \in Held(s[k])
    BY <1>5, <2>1 DEF FrameOK, Redirects, Held
  <2> QED BY <1>4, <1>5, <2>2 DEF OutOf
<1>6. 0 \in T
  BY <1>1
<1>7. \A k \in 1..n : k - 1 \in T => k \in T
  <2> SUFFICES ASSUME NEW k \in 1..n, k - 1 \in T, k > j
               PROVE  s[k].outer # Console /\ s[k].outer # i
    BY <1>1
  <2>1. k - 1 \in 1..(Len(s) - 1) /\ k - 1 \in j..n /\ (k - 1) + 1 = k
    BY <1>1 DEF n
  <2>2. s[k - 1].at \in {"captured", "end"} /\ s[k].outer = OutOf(s[k - 1])
    BY <2>1 DEF StackOK
  <2>3. CASE Redirects(s[k - 1])
    BY <1>5, <2>1, <2>2, <2>3
  <2>4. CASE ~Redirects(s[k - 1])
    <3>1. s[k - 1].at = "end" /\ s[k].outer = s[k - 1].outer
      BY <2>2, <2>4 DEF Redirects, OutOf
    <3>2. k - 1 > j
      BY <1>1, <2>1, <3>1
    <3> QED BY <3>1, <3>2
  <2> QED BY <2>3, <2>4
<1> HIDE DEF T
<1>8. n \in T
  <2>1. n \in Nat /\ n \in 0..n
    BY <1>1
  <2>2. \A k \in 0..n : k \in T
    BY <1>6, <1>7, <2>1, InductionUpTo
  <2> QED BY <2>1, <2>2
<1>9. o # Console /\ o # i
  <2>1. o = OutOf(s[n]) /\ n \in j..n
    BY <1>1 DEF StackOK, n
  <2>2. CASE Redirects(s[n])
    BY <1>5, <2>1, <2>2
  <2>3. CASE ~Redirects(s[n])
    <3>1. n # j
      BY <2>3 DEF Redirects
    <3>2. n > j /\ o = s[n].outer
      BY <1>1, <2>1, <2>3, <3>1 DEF OutOf
    <3> QED BY <1>8, <3>2 DEF T
  <2> QED BY <2>2, <2>3
<1>10. i \notin Held(s[n])
  BY <1>1, <1>4 DEF n
<1>11. i = Console \/ i \in d
  BY <1>3 DEF StackOK
<1> QED BY <1>9, <1>10, <1>11 DEF n, i

\* What is on the console when nothing else takes the output
LEMMA OutersAre ==
  ASSUME StackInv, stack # <<>>
  PROVE  \A i \in Outers : /\ i # out /\ i \notin Held(Top) /\ out # Console
                           /\ i = Console \/ i \in DOMAIN open
<1> SUFFICES ASSUME NEW j \in 1..Len(stack), stack[j].at = "captured"
             PROVE  /\ stack[j].orig # out /\ stack[j].orig \notin Held(Top) /\ out # Console
                    /\ stack[j].orig = Console \/ stack[j].orig \in DOMAIN open
  BY DEF Outers
<1> QED BY OuterIsApart, TopIs DEF StackInv

\* Where a text is printed it is added ...
LEMMA TextWritten ==
  ASSUME StreamsInv, NEW i, NEW lines, Write(i, lines), NEW o, o = Console \/ o \in DOMAIN open
  PROVE  TextOf(o)' = IF o = i THEN TextOf(o) \o lines ELSE TextOf(o)
<1>1. CASE i = Console
  BY <1>1 DEF Write, TextOf
<1>2. CASE i # Console
  <2>1. /\ open' = [j \in DOMAIN open |->
                      IF j = i THEN [open[j] EXCEPT !.text = open[j].text \o lines] ELSE open[j]]
        /\ console' = console
    BY <1>2 DEF Write
  <2>2. CASE o = Console
    BY <1>2, <2>1, <2>2 DEF TextOf
  <2>3. CASE o # Console /\ o # i
    BY <2>1, <2>3 DEF TextOf
  <2>4. CASE o # Console /\ o = i
    <3>1. open'[o] = [open[o] EXCEPT !.text = open[o].text \o lines]
      BY <2>1, <2>4
    <3>2. open[o] \in StreamType
      BY <2>4 DEF StreamsInv
    <3> QED BY <2>4, <3>1, <3>2 DEF TextOf, StreamType
  <2> QED BY <2>2, <2>3, <2>4
<1> QED BY <1>1, <1>2

\* ... and other texts stay when a stream is opened ...
LEMMA TextOpened ==
  ASSUME StreamsInv, NEW i, i = NewStream, NEW file, open' = Opened(NewStream, file), console' = console
  PROVE  /\ open'[i] = [file |-> file, text |-> <<>>] /\ TextOf(i)' = <<>>
         /\ \A o : o = Console \/ o \in DOMAIN open => TextOf(o)' = TextOf(o)
<1>1. i \in Nat \ {Console} /\ i \notin DOMAIN open
  BY NewStreamIsNew
<1>2. open' = [j \in DOMAIN open \cup {i} |-> IF j = i THEN [file |-> file, text |-> <<>>] ELSE open[j]]
  BY DEF Opened
<1> QED BY <1>1, <1>2 DEF TextOf

\* ... or closed.
LEMMA TextClosed ==
  ASSUME NEW closed, open' = Without(closed), console' = console,
         NEW o, o = Console \/ o \in DOMAIN open, o \notin closed \/ o = Console
  PROVE  TextOf(o)' = TextOf(o)
BY DEF Without, TextOf

-----------------------------------------------------------------------------
(* The calls on the stack leave what they left before the step, when it    *)
(* keeps the texts to which stdout will be restored.                       *)

OthersKept == UNCHANGED <<command, start>> /\ \A i \in Outers : TextOf(i)' = TextOf(i)

\* The promise stays.
LEMMA OutcomeStays ==
  ASSUME UNCHANGED <<command, start>>
  PROVE  Outcome' = Outcome
BY DEF Outcome

\* A call that waits goes on as before.
LEMMA AfterCallStays ==
  ASSUME OthersKept, NEW k \in 1..Len(stack), NEW f, f = stack[k], NEW st
  PROVE  AfterCall(k, f, st)' = AfterCall(k, f, st)
<1>1. CASE f.at = "captured"
  <2>1. f.orig \in Outers
    BY <1>1 DEF Outers
  <2>2. TextOf(f.orig)' = TextOf(f.orig)
    BY <2>1 DEF OthersKept
  <2> QED BY <2>2 DEF AfterCall
<1>2. CASE f.at # "captured"
  BY <1>2 DEF AfterCall
<1> QED BY <1>1, <1>2

\* The topmost call goes on.
LEMMA PlanGoes ==
  ASSUME StackInv, stack # <<>>, NEW w, IsPlan(w), OthersKept,
         NEW n, n = Len(stack), NEW f \in FrameType, stack' = Append(Front(stack), f),
         Leaves(n, f)' = w[n]
  PROVE  IsPlan(w)'
<1>1. /\ n \in Nat \ {0} /\ Front(stack) \in Seq(FrameType) /\ Len(Front(stack)) = n - 1
      /\ \A k \in 1..(n - 1) : Front(stack)[k] = stack[k]
  BY AroundTop DEF StackInv
<1>2. /\ stack' \in Seq(FrameType) /\ Len(stack') = n /\ stack'[n] = f
      /\ \A k \in 1..(n - 1) : stack'[k] = stack[k]
  <2>1. /\ stack' \in Seq(FrameType) /\ Len(stack') = Len(Front(stack)) + 1
        /\ \A k \in 1..Len(Front(stack)) : stack'[k] = Front(stack)[k]
        /\ stack'[Len(Front(stack)) + 1] = f
    BY <1>1, WithOneMore
  <2> QED BY <1>1, <2>1
<1>3. Top' = f
  BY <1>2 DEF Top, Last
<1>4. w \in [Nat -> Known] /\ w[1] = Outcome'
  BY OutcomeStays DEF IsPlan, OthersKept
<1>5. ASSUME NEW k \in 1..(n - 1) PROVE w[k] = AfterCall(k, stack[k], w[k + 1])'
  <2>1. PICK g : g = stack[k]
    OBVIOUS
  <2>2. k \in 1..Len(stack)
    BY <1>1
  <2>3. AfterCall(k, g, w[k + 1])' = AfterCall(k, g, w[k + 1])
    BY <2>1, <2>2, AfterCallStays
  <2>4. w[k] = AfterCall(k, g, w[k + 1])
    BY <2>1 DEF IsPlan
  <2>5. stack'[k] = g
    BY <1>2, <2>1
  <2> QED BY <2>3, <2>4, <2>5
<1>6. w[n] = Leaves(n, Top)'
  BY <1>3
<1>7. (Len(stack) = n)'
  BY <1>2
<1> QED BY <1>4, <1>5, <1>6, <1>7 DEF IsPlan

\* It returns.
LEMMA PlanReturns ==
  ASSUME StackInv, stack # <<>>, NEW w, IsPlan(w), OthersKept,
         NEW n, n = Len(stack), stack' = Front(stack), NEW o, o = Top.outer, w[n] = Now(o)'
  PROVE  PlanInv'
<1>1. /\ n \in Nat \ {0} /\ stack' \in Seq(FrameType) /\ Len(stack') = n - 1
      /\ Top = stack[n] /\ \A k \in 1..(n - 1) : stack'[k] = stack[k]
  BY AroundTop DEF StackInv, Top
<1>2. CASE n = 1
  <2>1. o = Console
    BY <1>1, <1>2 DEF StackInv, StackOK
  <2>2. w[n] = Outcome'
    BY <1>2, OutcomeStays DEF IsPlan, OthersKept
  <2>3. Alike(Now(Console))'
    BY <2>1, <2>2 DEF Alike
  <2>4. stack' = <<>>
    BY <1>1, <1>2
  <2> QED BY <2>3, <2>4 DEF PlanInv
<1>3. CASE n # 1
  <2> DEFINE m == n - 1
  <2>1. m \in 1..(Len(stack) - 1) /\ m + 1 = n /\ m \in 1..Len(stack) /\ m \in Nat \ {0}
    BY <1>1, <1>3
  <2> HIDE DEF m
  <2>2. PICK f : f = stack[m]
    OBVIOUS
  <2>3. f.at \in {"captured", "end"} /\ o = OutOf(f) /\ w[m] = AfterCall(m, f, w[n])
    BY <1>1, <2>1, <2>2 DEF StackInv, StackOK, IsPlan
  <2>4. AfterCall(m, f, w[n])' = AfterCall(m, f, w[n])
    BY <2>1, <2>2, AfterCallStays
  <2>5. Leaves(m, f)' = w[m]
    <3>1. CASE f.at = "captured"
      <4>1. o = f.stream
        BY <2>3, <3>1 DEF OutOf, Redirects
      <4>2. Leaves(m, f)' = AfterCall(m, f, Now(f.stream))'
        BY <3>1 DEF Leaves
      <4>3. AfterCall(m, f, Now(f.stream))' = AfterCall(m, f, w[n])'
        BY <4>1 DEF AfterCall
      <4> QED BY <2>3, <2>4, <4>2, <4>3
    <3>2. CASE f.at = "end"
      <4>1. o = f.outer
        BY <2>3, <3>2 DEF OutOf, Redirects
      <4>2. Leaves(m, f)' = Now(f.outer)'
        BY <3>2 DEF Leaves
      <4>3. w[m] = w[n]
        BY <2>3, <3>2 DEF AfterCall
      <4> QED BY <4>1, <4>2, <4>3
    <3> QED BY <2>3, <3>1, <3>2
  <2>6. Len(stack') = m /\ Top' = f /\ stack' # <<>>
    <3>1. Len(stack') = m
      BY <1>1 DEF m
    <3>2. stack'[m] = f
      BY <1>1, <2>1, <2>2 DEF m
    <3> QED BY <2>1, <3>1, <3>2 DEF Top, Last
  <2>7. w \in [Nat -> Known] /\ w[1] = Outcome'
    BY OutcomeStays DEF IsPlan, OthersKept
  <2>8. ASSUME NEW k \in 1..(m - 1) PROVE w[k] = AfterCall(k, stack[k], w[k + 1])'
    <3>1. PICK g : g = stack[k]
      OBVIOUS
    <3>2. k \in 1..(Len(stack) - 1) /\ k \in 1..Len(stack) /\ k \in 1..(n - 1)
      BY <1>1, <2>1
    <3>3. AfterCall(k, g, w[k + 1])' = AfterCall(k, g, w[k + 1])
      BY <3>1, <3>2, AfterCallStays
    <3>4. w[k] = AfterCall(k, g, w[k + 1])
      BY <3>1, <3>2 DEF IsPlan
    <3>5. stack'[k] = g
      BY <1>1, <3>1, <3>2
    <3> QED BY <3>3, <3>4, <3>5
  <2>9. w[m] = Leaves(m, Top)'
    BY <2>5, <2>6
  <2>10. IsPlan(w)'
    <3>1. (Len(stack) = m)'
      BY <2>6
    <3> QED BY <2>7, <2>8, <2>9, <3>1 DEF IsPlan
  <2> QED BY <2>6, <2>10 DEF PlanInv
<1> QED BY <1>2, <1>3

\* It runs another one, which leaves x.
LEMMA PlanRuns ==
  ASSUME StackInv, stack # <<>>, NEW w, IsPlan(w), OthersKept,
         NEW n, n = Len(stack), NEW f \in FrameType, NEW line \in STRING, NEW o \in Nat,
         stack' = Front(stack) \o <<f, Frame(line, o)>>,
         NEW x \in Known, x = Promised(Fuel(n + 1), line, Now(o))', w[n] = AfterCall(n, f, x)'
  PROVE  PlanInv'
<1> DEFINE new == Frame(line, o)
<1>1. /\ n \in Nat \ {0} /\ Front(stack) \in Seq(FrameType) /\ Len(Front(stack)) = n - 1
      /\ \A k \in 1..(n - 1) : Front(stack)[k] = stack[k]
  BY AroundTop DEF StackInv
<1>2. new \in FrameType /\ new.at = "begin" /\ new.line = line /\ new.outer = o
  <2>1. <<>> \in Text
    BY DEF Text
  <2> QED BY <2>1 DEF Frame, FrameType, Place, Console
<1> HIDE DEF new
<1>3. /\ Len(stack') = n + 1 /\ stack'[n] = f /\ stack'[n + 1] = new
      /\ \A k \in 1..(n - 1) : stack'[k] = stack[k]
  <2>1. <<f, new>> \in Seq(FrameType) /\ Len(<<f, new>>) = 2 /\ <<f, new>>[1] = f /\ <<f, new>>[2] = new
    BY <1>2
  <2>2. stack' = Front(stack) \o <<f, new>>
    BY DEF new
  <2> DEFINE two == <<f, new>>
  <2>3. two \in Seq(FrameType) /\ Len(two) = 2 /\ two[1] = f /\ two[2] = new /\ stack' = Front(stack) \o two
    BY <2>1, <2>2
  <2> HIDE DEF two
  <2>4. /\ Len(Front(stack) \o two) = (n - 1) + 2
        /\ \A i \in 1..((n - 1) + 2) :
             (Front(stack) \o two)[i] = IF i <= n - 1 THEN Front(stack)[i] ELSE two[i - (n - 1)]
    BY <1>1, <2>3, ConcatProperties
  <2>5. (n - 1) + 2 = n + 1 /\ n - (n - 1) = 1 /\ (n + 1) - (n - 1) = 2
        /\ n \in 1..(n + 1) /\ n + 1 \in 1..(n + 1) /\ ~(n <= n - 1) /\ ~(n + 1 <= n - 1)
        /\ \A k \in 1..(n - 1) : k \in 1..(n + 1) /\ k <= n - 1
    BY <1>1
  <2>6. (Front(stack) \o two)[n] = f /\ (Front(stack) \o two)[n + 1] = new
    BY <2>3, <2>4, <2>5
  <2>7. \A k \in 1..(n - 1) : (Front(stack) \o two)[k] = stack[k]
    BY <1>1, <2>4, <2>5
  <2>8. Len(Front(stack) \o two) = n + 1
    BY <2>4, <2>5
  <2> QED BY <2>3, <2>6, <2>7, <2>8
<1>4. Top' = new /\ stack' # <<>>
  <2>1. stack'[Len(stack')] = new
    BY <1>3
  <2>2. stack' # <<>>
    <3>1. Len(stack') # 0
      BY <1>1, <1>3
    <3> QED BY <3>1
  <2> QED BY <2>1, <2>2 DEF Top, Last
<1> DEFINE v == [w EXCEPT ![n + 1] = x]
<1>5. /\ v \in [Nat -> Known] /\ v[n + 1] = x /\ v[1] = Outcome'
      /\ \A k \in 1..n : v[k] = w[k]
  <2>1. w \in [Nat -> Known] /\ w[1] = Outcome'
    BY OutcomeStays DEF IsPlan, OthersKept
  <2>2. v \in [Nat -> Known] /\ v[n + 1] = x
    <3> DEFINE m == n + 1
    <3>1. m \in Nat /\ w \in [Nat -> Known] /\ v = [w EXCEPT ![m] = x]
      BY <1>1, <2>1
    <3> HIDE DEF m, v
    <3>2. v \in [Nat -> Known] /\ v[m] = x
      BY <3>1
    <3> QED BY <3>2 DEF m
  <2>3. \A k \in 1..n : k \in Nat /\ k # n + 1
    BY <1>1
  <2>4. \A k \in 1..n : v[k] = w[k]
    BY <2>1, <2>3
  <2>5. 1 \in 1..n
    BY <1>1
  <2> QED BY <2>1, <2>2, <2>4, <2>5
<1> HIDE DEF v
<1>6. ASSUME NEW k \in 1..n PROVE v[k] = AfterCall(k, stack[k], v[k + 1])'
  <2>1. CASE k = n
    BY <1>3, <1>5, <2>1
  <2>2. CASE k # n
    <3>1. PICK g : g = stack[k]
      OBVIOUS
    <3>2. k \in 1..(Len(stack) - 1) /\ k \in 1..Len(stack) /\ k \in 1..(n - 1) /\ k + 1 \in 1..n
      BY <1>1, <2>2
    <3>3. AfterCall(k, g, w[k + 1])' = AfterCall(k, g, w[k + 1])
      BY <3>1, <3>2, AfterCallStays
    <3>4. w[k] = AfterCall(k, g, w[k + 1])
      BY <3>1, <3>2 DEF IsPlan
    <3>5. stack'[k] = g /\ v[k] = w[k] /\ v[k + 1] = w[k + 1]
      BY <1>3, <1>5, <3>1, <3>2
    <3> QED BY <3>3, <3>4, <3>5
  <2> QED BY <2>1, <2>2
<1>7. v[n + 1] = Leaves(n + 1, Top)'
  <2>1. PICK g : g = new
    OBVIOUS
  <2>2. Leaves(n + 1, g)' = x
    BY <1>2, <2>1 DEF Leaves
  <2> QED BY <1>4, <1>5, <2>1, <2>2
<1>8. IsPlan(v)'
  <2>1. (Len(stack) = n + 1)' /\ (n + 1) - 1 = n
    BY <1>1, <1>3
  <2> QED BY <1>5, <1>6, <1>7, <2>1 DEF IsPlan
<1> QED BY <1>4, <1>8 DEF PlanInv

\* Nothing on the stack changes.
LEMMA PlanStays ==
  ASSUME StackInv, stack # <<>>, NEW w, IsPlan(w), OthersKept, stack' = stack,
         NEW n, n = Len(stack), NEW f, f = Top, Leaves(n, f)' = w[n]
  PROVE  IsPlan(w)'
<1>1. n \in Nat \ {0} /\ w \in [Nat -> Known] /\ w[1] = Outcome'
  BY OutcomeStays, TopIs DEF IsPlan, OthersKept
<1>2. ASSUME NEW k \in 1..(n - 1) PROVE w[k] = AfterCall(k, stack[k], w[k + 1])'
  <2>1. PICK g : g = stack[k]
    OBVIOUS
  <2>2. k \in 1..Len(stack)
    BY <1>1
  <2>3. AfterCall(k, g, w[k + 1])' = AfterCall(k, g, w[k + 1])
    BY <2>1, <2>2, AfterCallStays
  <2>4. w[k] = AfterCall(k, g, w[k + 1])
    BY <2>1 DEF IsPlan
  <2> QED BY <2>1, <2>3, <2>4
<1>3. Top' = f /\ (Len(stack) = n)'
  BY DEF Top
<1> QED BY <1>1, <1>2, <1>3 DEF IsPlan

-----------------------------------------------------------------------------
(* The commands one by one.                                                *)

\* The texts to which stdout will be restored are not those the topmost call
\* prints to or holds.
LEMMA OthersAreKept ==
  ASSUME StackInv, stack # <<>>, UNCHANGED <<command, start>>,
         \A i : (i = Console \/ i \in DOMAIN open) /\ i # out /\ i \notin Held(Top) =>
                  TextOf(i)' = TextOf(i)
  PROVE  OthersKept
BY OutersAre DEF OthersKept

\* The topmost call, what it leaves, and the outside it finds
LEMMA TopLeaves ==
  ASSUME StackInv, StreamsInv, stack # <<>>, NEW w, IsPlan(w),
         NEW n, n = Len(stack), NEW f, f = Top
  PROVE  /\ n \in Nat \ {0} /\ w[n] = Leaves(n, f) /\ w[n] \in Known
         /\ f \in FrameType /\ FrameOK(f) /\ f = stack[n] /\ out = OutOf(f)
         /\ f.outer = Console \/ f.outer \in DOMAIN open
         /\ f.outer \notin Held(f) /\ Held(f) \subseteq DOMAIN open
         /\ Now(f.outer) \in Known
<1>1. n \in Nat \ {0} /\ f \in FrameType /\ FrameOK(f) /\ f = stack[n] /\ out = OutOf(f)
      /\ Held(f) \subseteq DOMAIN open
  BY TopIs
<1>2. w[n] = Leaves(n, f) /\ w[n] \in Known
  BY <1>1 DEF IsPlan
<1>3. n \in 1..Len(stack)
  BY <1>1
<1>4. f.outer = Console \/ \E j \in 1..(n - 1) : f.outer \in Held(stack[j])
  BY <1>1, <1>3 DEF StackInv, StackOK
<1>5. \A j \in 1..(n - 1) : Held(stack[j]) \cap Held(f) = {} /\ Held(stack[j]) \subseteq DOMAIN open
  <2> SUFFICES ASSUME NEW j \in 1..(n - 1)
               PROVE  Held(stack[j]) \cap Held(f) = {} /\ Held(stack[j]) \subseteq DOMAIN open
    OBVIOUS
  <2>1. j \in 1..Len(stack) /\ j # n
    BY <1>1
  <2> QED BY <1>1, <1>3, <2>1 DEF StackInv, StackOK
<1>6. f.outer = Console \/ f.outer \in DOMAIN open
  BY <1>4, <1>5
<1>7. f.outer \notin Held(f)
  <2>1. CASE f.outer = Console
    BY <2>1 DEF Held
  <2>2. CASE f.outer # Console
    BY <1>4, <1>5, <2>2
  <2> QED BY <2>1, <2>2
<1>8. Now(f.outer) \in Known
  <2>1. TextOf(f.outer) \in Text
    BY <1>6 DEF TextOf, StreamsInv, StreamType
  <2> QED BY <2>1 DEF Now, Known, Outside, StreamsInv
<1> QED BY <1>1, <1>2, <1>6, <1>7, <1>8

\* At its beginning it leaves what its line promises.
LEMMA BeginLeaves ==
  ASSUME StackInv, StreamsInv, stack # <<>>, NEW w, IsPlan(w),
         NEW n, n = Len(stack), NEW f, f = Top, f.at = "begin"
  PROVE  /\ w[n] = Ran(Promise[Fuel(n + 1)], f.line, Now(f.outer))
         /\ \A l, s : Promised(Fuel(n + 1), l, s) = Promise[Fuel(n + 1)][<<l, s>>]
         /\ out = f.outer
<1> DEFINE st == Now(f.outer)
           d == Fuel(n)
<1>1. n \in Nat \ {0} /\ w[n] = Leaves(n, f) /\ w[n] \in Known /\ f \in FrameType /\ st \in Known
      /\ out = f.outer
  BY TopLeaves DEF OutOf, Redirects
<1>2. w[n] = Promised(d, f.line, st)
  BY <1>1 DEF Leaves
<1>3. d \in Int /\ d <= MaxDepth /\ d - 1 = Fuel(n + 1)
  BY <1>1, PromiseAssumption DEF Fuel
<1>4. f.line \in STRING /\ st \in Outside /\ Promised(d, f.line, st).done
  BY <1>1, <1>2 DEF FrameType, Known
<1> HIDE DEF d, st
<1>5. /\ Promised(d, f.line, st) = Ran(Promise[d - 1], f.line, st)
      /\ \A l, s : Promised(d - 1, l, s) = Promise[d - 1][<<l, s>>]
  BY <1>3, <1>4, PromisedIs
<1> QED BY <1>1, <1>2, <1>3, <1>5 DEF d, st

\* No eval: what it does.
LEMMA BeginsPlain ==
  ASSUME StackInv, StreamsInv, stack # <<>>, NEW w, IsPlan(w),
         NEW n, n = Len(stack), NEW f, f = Top, f.at = "begin", ~Evals(f.line)
  PROVE  w[n] = Effect(f.line, Now(f.outer)) /\ out = f.outer
<1>1. w[n] = Ran(Promise[Fuel(n + 1)], f.line, Now(f.outer)) /\ out = f.outer
  BY BeginLeaves
<1> DEFINE run == Promise[Fuel(n + 1)]
           st == Now(f.outer)
<1>2. w[n] = Ran(run, f.line, st) /\ out = f.outer
  BY <1>1
<1> HIDE DEF run, st
<1>3. Ran(run, f.line, st) = Effect(f.line, st)
  BY DEF Ran
<1> QED BY <1>2, <1>3 DEF st

\* A call that leaves the outside as it is returns.
LEMMA PlanLeaves ==
  ASSUME StackInv, StreamsInv, stack # <<>>, NEW w, IsPlan(w), UNCHANGED <<command, start>>,
         Leave, UNCHANGED <<open, disk, eof, console>>, w[Len(stack)] = Now(Top.outer)
  PROVE  PlanInv'
<1>1. PICK n, o : n = Len(stack) /\ o = Top.outer
  OBVIOUS
<1>2. OthersKept
  <2>1. \A i : TextOf(i)' = TextOf(i)
    BY DEF TextOf
  <2> QED BY <2>1, OthersAreKept
<1>3. Now(o)' = Now(o)
  BY DEF Now, TextOf
<1> QED BY <1>1, <1>2, <1>3, PlanReturns DEF Leave

\* A call that goes on without touching the outside leaves the same.
LEMMA PlanMoves ==
  ASSUME StackInv, StreamsInv, stack # <<>>, NEW w, IsPlan(w), UNCHANGED <<command, start>>,
         UNCHANGED <<open, disk, eof, console>>, NEW n, n = Len(stack),
         NEW f \in FrameType, stack' = Append(Front(stack), f), Leaves(n, f)' = w[n]
  PROVE  PlanInv'
<1>1. OthersKept
  <2>1. \A i : TextOf(i)' = TextOf(i)
    BY DEF TextOf
  <2> QED BY <2>1, OthersAreKept
<1>2. IsPlan(w)'
  BY <1>1, PlanGoes
<1>3. stack' # <<>>
  <2>1. Front(stack) \in Seq(FrameType)
    BY AroundTop DEF StackInv
  <2> QED BY <2>1, WithOneMore, EmptySeq
<1> QED BY <1>2, <1>3 DEF PlanInv

\* A line of no command, an eval that is too long or has ended, a sleep, done or
\* refused
LEMMA ReturnPlan ==
  ASSUME StackInv, StreamsInv, stack # <<>>, NEW w, IsPlan(w), UNCHANGED <<command, start>>,
         Return \/ SleepEnd
  PROVE  PlanInv'
<1>1. PICK n, f : n = Len(stack) /\ f = Top
  OBVIOUS
<1>2. w[n] = Leaves(n, f) /\ f \in FrameType /\ FrameOK(f)
  BY <1>1, TopLeaves
<1>3. Leave /\ UNCHANGED <<open, disk, eof, console>>
  BY DEF Return, Unknown, EvalTooLong, SleepRefused, EvalEnd, SleepEnd, streamsOnly
<1>4. CASE f.at = "begin"
  <2>1. \/ f.line \notin Commands
        \/ f.line \in Commands /\ Meaning[f.line].op = "eval" /\ f.line \in Long
        \/ f.line \in Commands /\ Meaning[f.line].op = "sleep"
    BY <1>1, <1>4 DEF Return, Unknown, EvalTooLong, SleepRefused, EvalEnd, SleepEnd, At, Command
  <2>2. Effect(f.line, Now(f.outer)) = Now(f.outer) /\ ~Evals(f.line)
    BY <2>1 DEF Effect, Evals
  <2>3. w[n] = Now(f.outer)
    BY <1>1, <1>4, <2>2, BeginsPlain
  <2> QED BY <1>1, <1>3, <2>3, PlanLeaves
<1>5. CASE f.at \in {"end", "sleeping"}
  <2>1. w[n] = Now(f.outer)
    BY <1>2, <1>5 DEF Leaves
  <2> QED BY <1>1, <1>3, <2>1, PlanLeaves
<1>6. f.at \in {"begin", "end", "sleeping"}
  BY <1>1, <1>2 DEF Return, Unknown, EvalTooLong, SleepRefused, EvalEnd, SleepEnd, At, FrameOK
<1> QED BY <1>4, <1>5, <1>6

\* A call of this command that begins
LEMMA BeginsAs ==
  ASSUME StackInv, StreamsInv, stack # <<>>, NEW w, IsPlan(w), NEW op, At(op, "begin"), op # "eval",
         NEW n, n = Len(stack), NEW f, f = Top, NEW c, c = Meaning[f.line]
  PROVE  /\ w[n] = Effect(f.line, Now(f.outer)) /\ w[n] \in Known /\ Now(f.outer) \in Known
         /\ f.line \in Commands /\ c.op = op /\ Command = c
         /\ out = f.outer /\ f \in FrameType /\ f.at = "begin" /\ f.stream = Console
         /\ f.source = Console /\ Held(f) = {}
         /\ f.outer = Console \/ f.outer \in DOMAIN open
<1>1. f.line \in Commands /\ c.op = op /\ Command = c /\ f.at = "begin"
  BY DEF At, Command
<1>2. ~Evals(f.line)
  BY <1>1 DEF Evals
<1>3. w[n] = Effect(f.line, Now(f.outer)) /\ out = f.outer
  BY <1>1, <1>2, BeginsPlain
<1>4. /\ w[n] \in Known /\ Now(f.outer) \in Known /\ f \in FrameType /\ FrameOK(f)
      /\ f.outer = Console \/ f.outer \in DOMAIN open
  BY TopLeaves
<1> QED BY <1>1, <1>3, <1>4 DEF FrameOK, Held

\* Two outsides with the same parts are the same.
LEMMA OutsideEqual ==
  ASSUME NEW s \in Outside, NEW t \in Outside,
         s.done <=> t.done, s.printed = t.printed, s.disk = t.disk, s.eof <=> t.eof
  PROVE  s = t
BY DEF Outside

\* The parts of the outside of a call
LEMMA NowIs ==
  ASSUME StreamsInv, NEW o, o = Console \/ o \in DOMAIN open
  PROVE  /\ Now(o) \in Known /\ Now(o) \in Outside
         /\ Now(o).done /\ Now(o).printed = TextOf(o) /\ Now(o).disk = disk /\ (Now(o).eof <=> eof)
<1>1. TextOf(o) \in Text
  BY DEF TextOf, StreamsInv, StreamType
<1> QED BY <1>1 DEF Now, Known, Outside, StreamsInv

\* The outside is known when its parts are.
LEMMA IsNow ==
  ASSUME NEW st \in Outside, NEW o, StreamsInv', (o = Console \/ o \in DOMAIN open)',
         st.done, st.printed = TextOf(o)', st.disk = disk', st.eof <=> eof'
  PROVE  Now(o)' = st
<1>1. PICK b : b = TextOf(o)'
  OBVIOUS
<1>2. b \in Text
  BY <1>1 DEF TextOf, StreamsInv, StreamType
<1>3. PICK t : t = [done |-> TRUE, printed |-> b, disk |-> disk', eof |-> eof']
  OBVIOUS
<1>4. t \in Outside /\ t.done /\ t.printed = b /\ t.disk = disk' /\ (t.eof <=> eof')
  BY <1>2, <1>3 DEF Outside, StreamsInv
<1>5. t = st
  BY <1>1, <1>4, OutsideEqual
<1>6. Now(o)' = t
  BY <1>1, <1>3 DEF Now
<1> QED BY <1>5, <1>6

\* What is printed is added to what has been.
LEMMA NowPrinted ==
  ASSUME StreamsInv, NEW o, o = Console \/ o \in DOMAIN open, NEW lines \in Text, Write(o, lines),
         UNCHANGED <<disk, eof>>
  PROVE  Now(o)' = Printing(Now(o), lines)
<1>1. TextOf(o)' = TextOf(o) \o lines
  BY TextWritten
<1>2. PICK st : st = Now(o)
  OBVIOUS
<1>3. st \in Outside /\ st.done /\ st.printed = TextOf(o) /\ st.disk = disk /\ (st.eof <=> eof)
  BY <1>2, NowIs
<1>4. PICK t : t = Printing(st, lines)
  OBVIOUS
<1>5. t \in Outside /\ t.done /\ t.printed = st.printed \o lines /\ t.disk = st.disk /\ (t.eof <=> st.eof)
  <2>1. t \in Outside /\ t.done = st.done
    BY <1>3, <1>4, OutsideBut
  <2>2. t = [st EXCEPT !.printed = st.printed \o lines]
    BY <1>4 DEF Printing
  <2> QED BY <1>3, <2>1, <2>2 DEF Outside
<1>6. StreamsInv' /\ DOMAIN open' = DOMAIN open
  BY WrittenStream DEF StreamsInv
<1>7. Now(o)' = t
  BY <1>1, <1>3, <1>5, <1>6, IsNow
<1> QED BY <1>2, <1>4, <1>7

\* The other texts stay.
LEMMA OthersWritten ==
  ASSUME StackInv, StreamsInv, stack # <<>>, UNCHANGED <<command, start>>,
         NEW o, o = out \/ o \in Held(Top), NEW lines, Write(o, lines)
  PROVE  OthersKept
<1>1. ASSUME NEW i, i = Console \/ i \in DOMAIN open, i # out, i \notin Held(Top)
      PROVE  TextOf(i)' = TextOf(i)
  BY <1>1, TextWritten
<1> QED BY <1>1, OthersAreKept

\* echo
LEMMA EchoPlan ==
  ASSUME StackInv, StreamsInv, stack # <<>>, NEW w, IsPlan(w), UNCHANGED <<command, start>>, EchoFunc
  PROVE  PlanInv'
<1>1. PICK n, f, o, c : n = Len(stack) /\ f = Top /\ o = Top.outer /\ c = Meaning[f.line]
  OBVIOUS
<1>2. At("echo", "begin") /\ Write(out, <<Command.text>>) /\ Leave /\ UNCHANGED <<disk, eof>>
  BY DEF EchoFunc, Puts
<1>3. /\ w[n] = Effect(f.line, Now(o)) /\ f.line \in Commands /\ c.op = "echo" /\ Command = c /\ out = o
      /\ o = Console \/ o \in DOMAIN open
  BY <1>1, <1>2, BeginsAs
<1>4. Effect(f.line, Now(o)) = Printing(Now(o), <<c.text>>)
  BY <1>1, <1>3 DEF Effect
<1>5. <<c.text>> \in Text
  BY <1>1, <1>3, MeaningIs, OneElement DEF Text
<1>6. Now(o)' = w[n]
  BY <1>2, <1>3, <1>4, <1>5, NowPrinted
<1>7. OthersKept
  BY <1>2, OthersWritten
<1> QED BY <1>1, <1>2, <1>6, <1>7, PlanReturns DEF Leave

\* exec.  Where it makes a file nothing has been captured, and the commands
\* that run it do nothing more.
LEMMA ExecPlan ==
  ASSUME StackInv, StreamsInv, stack # <<>>, NEW w, IsPlan(w), UNCHANGED <<command, start>>, ExecFunc,
         Top.line \notin Long => out = Console
  PROVE  PlanInv'
<1>1. PICK n, f, o, c : n = Len(stack) /\ f = Top /\ o = Top.outer /\ c = Meaning[f.line]
  OBVIOUS
<1>2. At("exec", "begin") /\ Leave /\ UNCHANGED <<open, eof>>
  BY DEF ExecFunc
<1>3. /\ w[n] = Effect(f.line, Now(o)) /\ f.line \in Commands /\ c.op = "exec" /\ Command = c /\ out = o
      /\ f.outer = o
  BY <1>1, <1>2, BeginsAs
<1>4. CASE f.line \in Long
  <2>1. UNCHANGED <<console, disk>>
    BY <1>1, <1>4 DEF ExecFunc
  <2>2. Effect(f.line, Now(o)) = Now(o)
    BY <1>1, <1>3, <1>4 DEF Effect
  <2> QED BY <1>1, <1>2, <1>3, <2>1, <2>2, PlanLeaves
<1>5. CASE f.line \notin Long /\ c.text # None
  <2>1. out = Console /\ console' = Append(console, c.text) /\ disk' = disk
    BY <1>1, <1>3, <1>5 DEF ExecFunc
  <2>2. Effect(f.line, Now(o)) = Printing(Now(o), <<c.text>>)
    BY <1>1, <1>3, <1>5 DEF Effect
  <2>3. c.text \in STRING
    BY <1>1, <1>3, MeaningIs
  <2>4. Append(console, c.text) = console \o <<c.text>>
    BY <2>3 DEF StreamsInv, Text
  <2>5. Now(o)' = Printing(Now(o), <<c.text>>)
    <3>1. Write(o, <<c.text>>) /\ <<c.text>> \in Text
      BY <1>2, <1>3, <2>1, <2>3, <2>4, OneElement DEF Write, Text
    <3> QED BY <1>2, <1>3, <2>1, <3>1, NowPrinted
  <2>6. \A i \in Outers : FALSE
    BY <2>1, OutersAre
  <2>7. OthersKept
    BY <2>6 DEF OthersKept
  <2> QED BY <1>1, <1>2, <1>3, <2>2, <2>5, <2>7, PlanReturns DEF Leave
<1>6. CASE f.line \notin Long /\ c.text = None
  <2>1. out = Console /\ console' = console
    BY <1>1, <1>3, <1>6 DEF ExecFunc
  <2>2. disk' = disk \/ disk' = [disk EXCEPT ![ErrorFile] = <<>>]
    BY DEF ExecFunc
  <2>3. w[n] = Now(Console)
    BY <1>1, <1>3, <1>6, <2>1 DEF Effect
  <2>4. /\ n \in Nat \ {0} /\ stack' \in Seq(FrameType) /\ Len(stack') = n - 1
        /\ \A k \in 1..(n - 1) : stack'[k] = stack[k]
    BY <1>1, <1>2, AroundTop DEF StackInv, Leave
  <2>5. ASSUME NEW k \in 1..(n - 1) PROVE stack[k].at = "end"
    <3>1. k \in 1..Len(stack) /\ stack[k].at \in {"captured", "end"}
      BY <1>1, <2>4 DEF StackInv, StackOK
    <3>2. stack[k].at # "captured"
      BY <2>1, <3>1, OuterIsApart DEF StackInv
    <3> QED BY <3>1, <3>2
  <2>6. w[n] = w[1]
    <3> DEFINE T == {k \in 0..(n - 1) : w[k + 1] = w[1]}
    <3>1. 0 \in T
      BY <2>4
    <3>2. \A k \in 1..(n - 1) : k - 1 \in T => k \in T
      <4> TAKE k \in 1..(n - 1)
      <4> HAVE k - 1 \in T
      <4>1. w[k] = w[1] /\ k \in 0..(n - 1)
        BY <2>4
      <4>2. w[k] = AfterCall(k, stack[k], w[k + 1])
        BY <1>1 DEF IsPlan
      <4>3. w[k + 1] = w[k]
        BY <2>5, <4>2 DEF AfterCall
      <4> QED BY <4>1, <4>3
    <3> HIDE DEF T
    <3>3. n - 1 \in Nat /\ n - 1 \in 0..(n - 1) /\ (n - 1) + 1 = n
      BY <2>4
    <3>4. \A k \in 0..(n - 1) : k \in T
      BY <3>1, <3>2, <3>3, InductionUpTo
    <3> QED BY <3>3, <3>4 DEF T
  <2>7. Outcome = Now(Console) /\ Outcome' = Outcome
    BY <2>3, <2>6, OutcomeStays DEF IsPlan
  <2>8. Alike(Now(Console))'
    <3>1. \A file \in Files \ {ErrorFile} : disk'[file] = disk[file]
      BY <2>2 DEF StreamsInv
    <3> QED BY <1>2, <2>1, <2>7, <3>1 DEF Alike, Now, TextOf
  <2>9. stack' # <<>> => Ending'
    <3>1. \A k \in 1..(n - 1) : stack'[k].at = "end"
      BY <2>4, <2>5
    <3> QED BY <2>4, <2>8, <3>1 DEF Ending
  <2> QED BY <2>8, <2>9 DEF PlanInv
<1> QED BY <1>4, <1>5, <1>6

\* To any depth something is promised, and it is known only if what it starts
\* from is.
LEMMA PromisedIsOutside ==
  ASSUME NEW d, NEW line \in STRING, NEW st \in Outside
  PROVE  Promised(d, line, st) \in Outside /\ (Promised(d, line, st).done => st.done)
<1>1. CASE d \in 0..MaxDepth
  <2>1. Promise[d] \in Running
    BY <1>1, PromiseIs DEF IsPromise
  <2> DEFINE x == <<line, st>>
  <2>2. x \in STRING \X Outside /\ x[2] = st
    OBVIOUS
  <2>3. Promised(d, line, st) = Promise[d][x]
    BY <1>1 DEF Promised
  <2> HIDE DEF x
  <2> QED BY <2>1, <2>2, <2>3 DEF Running
<1>2. CASE d \notin 0..MaxDepth
  <2>1. Promised(d, line, st) = [st EXCEPT !.done = FALSE]
    BY <1>2 DEF Promised
  <2>2. [st EXCEPT !.done = FALSE].done = FALSE
    BY DEF Outside
  <2> QED BY <2>1, <2>2, OutsideBut
<1> QED BY <1>1, <1>2

\* eval runs its command with an empty text to print to.
LEMMA EvalCapturePlan ==
  ASSUME StackInv, StreamsInv, StreamsInv', stack # <<>>, NEW w, IsPlan(w), UNCHANGED <<command, start>>,
         EvalCapture
  PROVE  PlanInv'
<1>1. PICK n, f, o, m, of : n = Len(stack) /\ f = Top /\ o = Top.outer /\ m = NewStream /\ of = Command.of
  OBVIOUS
<1>2. PICK g : g = [f EXCEPT !.at = "captured", !.stream = m, !.orig = out]
  OBVIOUS
<1>3. /\ At("eval", "begin") /\ f.line \notin Long /\ open' = Opened(NewStream, Memory) /\ out' = m
      /\ stack' = Front(stack) \o <<g, Frame(of, m)>> /\ UNCHANGED <<disk, eof, console>>
  BY <1>1, <1>2 DEF EvalCapture, IocshCmd
<1>4. /\ n \in Nat \ {0} /\ w[n] \in Known /\ f \in FrameType /\ FrameOK(f) /\ f.at = "begin"
      /\ f.line \in Commands /\ Evals(f.line) /\ of = Meaning[f.line].of /\ of \in STRING /\ f.outer = o
  <2>1. n \in Nat \ {0} /\ w[n] \in Known /\ f \in FrameType /\ FrameOK(f)
    BY <1>1, TopLeaves
  <2>2. f.line \in Commands /\ Evals(f.line) /\ of = Meaning[f.line].of /\ f.at = "begin"
    BY <1>1, <1>3 DEF At, Evals, Command
  <2> QED BY <1>1, <2>1, <2>2, MeaningIs DEF Evals
<1>5. o = Console \/ o \in DOMAIN open
  BY <1>1, TopLeaves
<1>6. PICK st : st = Now(o)
  OBVIOUS
<1>7. st \in Outside /\ st.done /\ st.printed = TextOf(o) /\ st.disk = disk /\ (st.eof <=> eof)
  BY <1>5, <1>6, NowIs
<1>8. PICK run, d : run = Promise[Fuel(n + 1)] /\ d = Fuel(n + 1)
  OBVIOUS
<1>9. /\ w[n] = Ran(run, f.line, st) /\ \A l, s : Promised(d, l, s) = run[<<l, s>>]
      /\ out = o
  BY <1>1, <1>4, <1>6, <1>8, BeginLeaves
<1>10. PICK empty : empty = [st EXCEPT !.printed = <<>>]
  OBVIOUS
<1>11. empty \in Outside /\ empty.done /\ empty.printed = <<>> /\ empty.disk = disk /\ (empty.eof <=> eof)
  <2>1. <<>> \in Text
    BY DEF Text
  <2> QED BY <1>7, <1>10, <2>1, OutsideBut DEF Outside
<1>12. PICK inner : inner = Promised(d, of, empty)
  OBVIOUS
<1>13. PICK lines, after : lines = Trimmed(inner.printed) /\ after = [inner EXCEPT !.printed = st.printed]
  OBVIOUS
<1>14. w[n] = Promised(d, LineOf(lines), after)
  <2>1. inner = run[<<Meaning[f.line].of, [st EXCEPT !.printed = <<>>]>>]
    BY <1>4, <1>9, <1>10, <1>12
  <2>2. Ran(run, f.line, st) = run[<<LineOf(lines), after>>]
    BY <1>4, <1>13, <2>1 DEF Ran
  <2> QED BY <1>9, <2>2
<1>15. inner \in Outside
  BY <1>4, <1>11, <1>12, PromisedIsOutside
<1>16. after \in Outside /\ after.done = inner.done /\ lines \in Text
  BY <1>7, <1>13, <1>15, OutsideBut, TrimmedIsText DEF Outside
<1>17. inner \in Known
  <2>1. w[n].done => after.done
    <3>1. LineOf(lines) \in STRING
      BY <1>16, LineOfIsLine
    <3> QED BY <1>14, <1>16, <3>1, PromisedIsOutside
  <2> QED BY <1>4, <1>15, <1>16, <2>1 DEF Known
<1>18. TextOf(m)' = <<>> /\ DOMAIN open' = DOMAIN open \cup {m} /\ m \in Nat
       /\ \A i : i = Console \/ i \in DOMAIN open => TextOf(i)' = TextOf(i)
  <2>1. TextOf(m)' = <<>> /\ \A i : i = Console \/ i \in DOMAIN open => TextOf(i)' = TextOf(i)
    BY <1>1, <1>3, TextOpened
  <2>2. DOMAIN open' = DOMAIN open \cup {m} /\ m \in Nat
    BY <1>1, <1>3, OpenedStream, NewStreamIsNew
  <2> QED BY <2>1, <2>2
<1>19. Now(m)' = empty
  BY <1>3, <1>11, <1>18, IsNow
<1>20. inner = Promised(Fuel(n + 1), of, Now(m))'
  <2>1. Promised(Fuel(n + 1), of, Now(m))' = Promised(Fuel(n + 1), of, Now(m)')
    OBVIOUS
  <2> QED BY <1>8, <1>12, <1>19, <2>1
<1>21. g \in FrameType /\ g.at = "captured" /\ g.orig = o
  <2>1. out \in Nat
    BY OutIsStream
  <2> QED BY <1>2, <1>4, <1>9, <1>18, <2>1 DEF FrameType, Place
<1>22. w[n] = AfterCall(n, g, inner)'
  <2>1. TextOf(o)' = st.printed
    BY <1>5, <1>7, <1>18
  <2>2. Fuel(n) - 1 = d
    BY <1>4, <1>8, PromiseAssumption DEF Fuel
  <2>3. AfterCall(n, g, inner)' = Follow(n, lines, after)
    BY <1>13, <1>21, <2>1 DEF AfterCall
  <2> QED BY <1>14, <2>2, <2>3 DEF Follow
<1>23. OthersKept
  BY <1>18, OthersAreKept
<1>24. stack' = Front(stack) \o <<g, Frame(of, m)>>
  BY <1>3
<1>25. n \in Nat \ {0} /\ of \in STRING /\ m \in Nat /\ inner \in Known
  BY <1>4, <1>17, <1>18
<1> QED BY <1>1, <1>20, <1>21, <1>22, <1>23, <1>24, <1>25, PlanRuns

\* What it has captured it runs next.
LEMMA EvalRestorePlan ==
  ASSUME StackInv, StreamsInv, StreamsInv', stack # <<>>, NEW w, IsPlan(w), UNCHANGED <<command, start>>,
         EvalRestore
  PROVE  PlanInv'
<1>1. PICK n, f, o, m : n = Len(stack) /\ f = Top /\ o = Top.outer /\ m = Top.stream
  OBVIOUS
<1>2. PICK lines : lines = Trimmed(open[m].text)
  OBVIOUS
<1>3. PICK g : g = [f EXCEPT !.at = "output", !.buffer = lines]
  OBVIOUS
<1>4. /\ At("eval", "captured") /\ open' = Without({m}) /\ stack' = Append(Front(stack), g)
      /\ UNCHANGED <<disk, eof, console>>
  BY <1>1, <1>2, <1>3 DEF EvalRestore, Goto
<1>5. /\ w[n] = Leaves(n, f) /\ f \in FrameType /\ FrameOK(f) /\ f.at = "captured" /\ Held(f) \subseteq DOMAIN open
      /\ o \notin Held(f) /\ (o = Console \/ o \in DOMAIN open)
  BY <1>1, <1>4, TopLeaves DEF At
<1>6. m # Console /\ m \in Held(f) /\ f.orig = o /\ Held(f) = {m}
  BY <1>1, <1>5 DEF FrameOK, Held, Redirects
<1>7. PICK st : st = Now(m)
  OBVIOUS
<1>8. st \in Outside /\ st.done /\ st.printed = open[m].text /\ st.disk = disk /\ (st.eof <=> eof)
  BY <1>5, <1>6, <1>7, NowIs DEF TextOf
<1>9. PICK after : after = [st EXCEPT !.printed = TextOf(o)]
  OBVIOUS
<1>10. w[n] = Follow(n, lines, after)
  BY <1>2, <1>5, <1>6, <1>7, <1>8, <1>9, <1>1 DEF Leaves, AfterCall
<1>11. after \in Outside /\ after.done /\ after.printed = TextOf(o) /\ after.disk = disk /\ (after.eof <=> eof)
  <2>1. TextOf(o) \in Text
    BY <1>5 DEF TextOf, StreamsInv, StreamType
  <2> QED BY <1>8, <1>9, <2>1, OutsideBut DEF Outside
<1>12. TextOf(o)' = TextOf(o) /\ (o = Console \/ o \in DOMAIN open')
  <2>1. o = Console \/ o \notin {m}
    BY <1>5, <1>6
  <2>2. DOMAIN open' = DOMAIN open \ {m}
    BY <1>4, ClosedStreams
  <2> QED BY <1>4, <1>5, <2>1, <2>2, TextClosed
<1>13. Now(o)' = after
  BY <1>4, <1>11, <1>12, IsNow
<1>14. g \in FrameType /\ g.at = "output" /\ g.outer = o /\ g.buffer = lines
  <2>1. lines \in Text
    BY <1>2, <1>8, OutsideBut, TrimmedIsText
  <2> QED BY <1>1, <1>3, <1>5, <2>1 DEF FrameType, Place
<1>15. Leaves(n, g)' = w[n]
  <2>1. Leaves(n, g)' = Follow(n, lines, Now(o))'
    BY <1>14 DEF Leaves
  <2>2. Follow(n, lines, Now(o))' = Follow(n, lines, after)
    BY <1>13 DEF Follow
  <2> QED BY <1>10, <2>1, <2>2
<1>16. OthersKept
  <2>1. ASSUME NEW i, i = Console \/ i \in DOMAIN open, i \notin Held(Top) PROVE TextOf(i)' = TextOf(i)
    BY <1>1, <1>4, <1>6, <2>1, TextClosed
  <2> QED BY <2>1, OthersAreKept
<1>17. IsPlan(w)'
  BY <1>1, <1>4, <1>14, <1>15, <1>16, PlanGoes
<1>18. stack' # <<>>
  <2>1. Front(stack) \in Seq(FrameType)
    BY AroundTop DEF StackInv
  <2> QED BY <1>4, <1>14, <2>1, WithOneMore, EmptySeq
<1> QED BY <1>17, <1>18 DEF PlanInv

\* Then it has nothing left to do but to run it.
LEMMA EvalOutputPlan ==
  ASSUME StackInv, StreamsInv, stack # <<>>, NEW w, IsPlan(w), UNCHANGED <<command, start>>, EvalOutput
  PROVE  PlanInv'
<1>1. PICK n, f, o : n = Len(stack) /\ f = Top /\ o = Top.outer
  OBVIOUS
<1>2. PICK g : g = [f EXCEPT !.at = "end"]
  OBVIOUS
<1>3. At("eval", "output") /\ UNCHANGED <<out, open, disk, eof, console>>
  BY DEF EvalOutput
<1>4. /\ w[n] = Leaves(n, f) /\ w[n] \in Known /\ f \in FrameType /\ f.at = "output" /\ out = OutOf(f)
      /\ n \in Nat \ {0}
  BY <1>1, <1>3, TopLeaves DEF At
<1>5. w[n] = Follow(n, f.buffer, Now(o)) /\ out = o
  BY <1>1, <1>4 DEF Leaves, OutOf, Redirects
<1>6. g \in FrameType /\ g.at = "end" /\ g.outer = o
  BY <1>1, <1>2, <1>4 DEF FrameType, Place
<1>7. Now(o)' = Now(o)
  BY <1>3 DEF Now, TextOf
<1>8. PICK line, x : line = LineOf(f.buffer) /\ x = w[n]
  OBVIOUS
<1>9. line \in STRING
  BY <1>4, <1>8, LineOfIsLine DEF FrameType
<1>10. stack' = Front(stack) \o <<g, Frame(line, o)>>
  BY <1>1, <1>2, <1>3, <1>5, <1>8 DEF EvalOutput, IocshCmd
<1>11. x = Promised(Fuel(n + 1), line, Now(o))
  <2>1. Fuel(n) - 1 = Fuel(n + 1)
    BY <1>4, PromiseAssumption DEF Fuel
  <2> QED BY <1>5, <1>8, <2>1 DEF Follow
<1>12. x = Promised(Fuel(n + 1), line, Now(o))'
  BY <1>7, <1>11
<1>13. w[n] = AfterCall(n, g, x)'
  BY <1>6, <1>8 DEF AfterCall
<1>14. OthersKept
  <2>1. \A i : TextOf(i)' = TextOf(i)
    BY <1>3 DEF TextOf
  <2> QED BY <2>1, OthersAreKept
<1>15. o \in Nat
  BY <1>5, OutIsStream
<1> QED BY <1>1, <1>4, <1>6, <1>8, <1>9, <1>10, <1>12, <1>13, <1>14, <1>15, PlanRuns

\* The files when one is replaced
Put(files, file, lines) == [files EXCEPT ![file] = lines]

\* The parts of the outside when something is printed, ...
LEMMA PrintingIs ==
  ASSUME NEW st \in Outside, NEW lines \in Text, NEW t, t = Printing(st, lines)
  PROVE  /\ t \in Outside /\ (t.done <=> st.done) /\ t.printed = st.printed \o lines
         /\ t.disk = st.disk /\ (t.eof <=> st.eof)
<1>1. t \in Outside /\ t.done = st.done
  BY OutsideBut
<1>2. t = [st EXCEPT !.printed = st.printed \o lines]
  BY DEF Printing
<1> QED BY <1>1, <1>2 DEF Outside

\* ... when a file is stored, ...
LEMMA StoringIs ==
  ASSUME NEW st \in Outside, NEW file, NEW lines \in Text, NEW t, t = Storing(st, file, lines)
  PROVE  /\ t \in Outside /\ (t.done <=> st.done) /\ t.printed = st.printed
         /\ t.disk = Put(st.disk, file, lines) /\ (t.eof <=> st.eof)
<1>1. PICK e : e = [st.disk EXCEPT ![file] = lines]
  OBVIOUS
<1>2. st.disk \in [Files -> Text] /\ e \in [Files -> Text]
  BY <1>1 DEF Outside
<1>3. t = [st EXCEPT !.disk = e]
  BY <1>1 DEF Storing
<1> QED BY <1>1, <1>2, <1>3 DEF Outside, Put

\* ... or when stdin is read to its end
LEMMA EofIs ==
  ASSUME NEW st \in Outside, NEW b \in BOOLEAN, NEW t, t = [st EXCEPT !.eof = b]
  PROVE  /\ t \in Outside /\ (t.done <=> st.done) /\ t.printed = st.printed
         /\ t.disk = st.disk /\ (t.eof <=> b)
BY DEF Outside

\* A call that goes on
LEMMA PlanGoesOn ==
  ASSUME StackInv, stack # <<>>, NEW w, IsPlan(w), OthersKept,
         NEW n, n = Len(stack), NEW f \in FrameType, stack' = Append(Front(stack), f),
         Leaves(n, f)' = w[n]
  PROVE  PlanInv'
<1>1. IsPlan(w)'
  BY PlanGoes
<1>2. stack' # <<>>
  <2>1. Front(stack) \in Seq(FrameType)
    BY AroundTop DEF StackInv
  <2> QED BY <2>1, WithOneMore, EmptySeq
<1> QED BY <1>1, <1>2 DEF PlanInv

\* What is stored replaces what was.
LEMMA StoredTwice ==
  ASSUME NEW st \in Outside, NEW file, NEW a \in Text, NEW b \in Text
  PROVE  Storing(Storing(st, file, a), file, b) = Storing(st, file, b)
<1>1. PICK s, t : s = Storing(st, file, a) /\ t = Storing(s, file, b)
  OBVIOUS
<1>2. PICK u : u = Storing(st, file, b)
  OBVIOUS
<1>3. /\ s \in Outside /\ (s.done <=> st.done) /\ s.printed = st.printed
      /\ s.disk = Put(st.disk, file, a) /\ (s.eof <=> st.eof)
  BY <1>1, StoringIs
<1>4. /\ t \in Outside /\ (t.done <=> s.done) /\ t.printed = s.printed
      /\ t.disk = Put(s.disk, file, b) /\ (t.eof <=> s.eof)
  BY <1>1, <1>3, StoringIs
<1>5. /\ u \in Outside /\ (u.done <=> st.done) /\ u.printed = st.printed
      /\ u.disk = Put(st.disk, file, b) /\ (u.eof <=> st.eof)
  BY <1>2, StoringIs
<1>6. Put(Put(st.disk, file, a), file, b) = Put(st.disk, file, b)
  BY DEF Outside, Put
<1>7. t = u
  BY <1>3, <1>4, <1>5, <1>6, OutsideEqual
<1> QED BY <1>1, <1>2, <1>7

\* A file that is opened to be written is empty.
LEMMA NowOpened ==
  ASSUME StreamsInv, StreamsInv', NEW o, o = Console \/ o \in DOMAIN open, NEW file,
         open' = Opened(NewStream, file), disk' = [disk EXCEPT ![file] = <<>>],
         UNCHANGED <<eof, console>>
  PROVE  Now(o)' = Storing(Now(o), file, <<>>)
<1>1. PICK m, st, t : m = NewStream /\ st = Now(o) /\ t = Storing(st, file, <<>>)
  OBVIOUS
<1>2. TextOf(o)' = TextOf(o)
  BY <1>1, TextOpened
<1>3. st \in Outside /\ st.done /\ st.printed = TextOf(o) /\ st.disk = disk /\ (st.eof <=> eof)
  BY <1>1, NowIs
<1>4. <<>> \in Text
  BY DEF Text
<1>5. /\ t \in Outside /\ (t.done <=> st.done) /\ t.printed = st.printed
      /\ t.disk = Put(st.disk, file, <<>>) /\ (t.eof <=> st.eof)
  BY <1>1, <1>3, <1>4, StoringIs
<1>6. disk' = Put(disk, file, <<>>)
  BY DEF Put
<1>7. o = Console \/ o \in DOMAIN open'
  BY DEF Opened
<1>8. Now(o)' = t
  BY <1>2, <1>3, <1>5, <1>6, <1>7, IsNow
<1> QED BY <1>1, <1>8

\* When a stream is opened the other texts stay.
LEMMA OthersOpened ==
  ASSUME StackInv, StreamsInv, stack # <<>>, UNCHANGED <<command, start>>, NEW file,
         open' = Opened(NewStream, file), console' = console
  PROVE  OthersKept
<1>1. PICK m : m = NewStream
  OBVIOUS
<1>2. \A i : i = Console \/ i \in DOMAIN open => TextOf(i)' = TextOf(i)
  BY <1>1, TextOpened
<1> QED BY <1>2, OthersAreKept

\* When what the topmost call holds is closed, too
LEMMA OthersClosed ==
  ASSUME StackInv, StreamsInv, stack # <<>>, UNCHANGED <<command, start>>, NEW closed,
         closed \ {Console} \subseteq Held(Top), open' = Without(closed), console' = console
  PROVE  OthersKept
<1>1. ASSUME NEW i, i = Console \/ i \in DOMAIN open, i \notin Held(Top)
      PROVE  TextOf(i)' = TextOf(i)
  BY <1>1, TextClosed
<1> QED BY <1>1, OthersAreKept

\* listRecords will print to the file it has opened ...
LEMMA ListRecordsOpenPlan ==
  ASSUME StackInv, StreamsInv, StreamsInv', stack # <<>>, NEW w, IsPlan(w), UNCHANGED <<command, start>>,
         ListRecordsOpen, ~Opens(Command.file)
  PROVE  PlanInv'
<1>1. PICK n, f, o, m, c : n = Len(stack) /\ f = Top /\ o = Top.outer /\ m = NewStream /\ c = Meaning[f.line]
  OBVIOUS
<1>2. PICK file : file = c.file
  OBVIOUS
<1>3. At("listRecords", "begin") /\ UNCHANGED <<eof, console>>
  BY DEF ListRecordsOpen
<1>4. /\ w[n] = Effect(f.line, Now(o)) /\ Now(o) \in Known /\ f.line \in Commands /\ c.op = "listRecords"
      /\ Command = c /\ out = o /\ f \in FrameType /\ f.stream = Console /\ f.outer = o
      /\ o = Console \/ o \in DOMAIN open
  BY <1>1, <1>3, BeginsAs
<1>5. file \in Files \cup {None} /\ Listing \in Text
  BY <1>1, <1>2, <1>4, MeaningIs, RedirectAssumption
<1>6. CASE file = None
  <2>1. PICK g : g = [f EXCEPT !.at = "list"]
    OBVIOUS
  <2>2. stack' = Append(Front(stack), g) /\ UNCHANGED <<open, disk>>
    BY <1>1, <1>2, <1>4, <1>6, <2>1 DEF ListRecordsOpen, Goto
  <2>3. g \in FrameType /\ g.at = "list" /\ g.stream = Console /\ g.outer = o
    BY <1>4, <2>1 DEF FrameType, Place
  <2>4. Now(o)' = Now(o)
    BY <1>3, <2>2 DEF Now, TextOf
  <2>5. w[n] = Printing(Now(o), Listing)
    BY <1>1, <1>2, <1>4, <1>6 DEF Effect
  <2>6. Leaves(n, g)' = Printing(Now(o)', Listing)
    BY <2>3 DEF Leaves, Printing
  <2> QED BY <1>1, <1>3, <2>2, <2>3, <2>4, <2>5, <2>6, PlanMoves
<1>7. CASE file # None /\ ~CanWrite(file)
  <2>1. Leave /\ UNCHANGED <<open, disk>>
    BY <1>1, <1>2, <1>4, <1>7 DEF ListRecordsOpen
  <2>2. w[n] = Now(o)
    BY <1>1, <1>2, <1>4, <1>7 DEF Effect
  <2> QED BY <1>1, <1>3, <2>1, <2>2, PlanLeaves
<1>8. CASE file # None /\ CanWrite(file)
  <2>1. PICK g : g = [f EXCEPT !.at = "list", !.stream = m, !.orig = out]
    OBVIOUS
  <2>2. DescriptorFree
    BY <1>1, <1>2, <1>4, <1>8 DEF Opens
  <2>3. /\ open' = Opened(m, file) /\ disk' = [disk EXCEPT ![file] = <<>>]
        /\ stack' = Append(Front(stack), g)
    BY <1>1, <1>2, <1>4, <1>8, <2>1, <2>2 DEF ListRecordsOpen, Goto
  <2>4. m \in Nat \ {Console} /\ out \in Nat /\ DOMAIN open' = DOMAIN open \cup {m}
    <3>1. m \in Nat \ {Console} /\ out \in Nat
      BY <1>1, NewStreamIsNew, OutIsStream
    <3> QED BY <2>3, <3>1 DEF Opened
  <2>5. g \in FrameType /\ g.at = "list" /\ g.stream = m /\ g.outer = o /\ m # Console
    BY <1>4, <2>1, <2>4 DEF FrameType, Place
  <2>6. open'[m] = [file |-> file, text |-> <<>>]
    BY <1>1, <1>3, <2>3, TextOpened
  <2>7. PICK st : st = Now(o)
    OBVIOUS
  <2>8. st \in Outside
    BY <1>4, <2>7 DEF Known
  <2>9. <<>> \in Text
    BY DEF Text
  <2>10. Now(o)' = Storing(st, file, <<>>)
    BY <1>1, <1>3, <1>4, <2>3, <2>7, NowOpened
  <2>11. w[n] = Storing(st, file, Listing)
    BY <1>1, <1>2, <1>4, <1>8, <2>7 DEF Effect
  <2>12. <<>> \o Listing = Listing
    BY <1>5, ConcatEmptySeq DEF Text
  <2>13. c.op # "cp"
    BY <1>4
  <2>14. Leaves(n, g)' = Storing(Now(o)', file, <<>> \o Listing)
    BY <2>5, <2>6 DEF Leaves, Storing
  <2>15. Leaves(n, g)' = w[n]
    BY <1>5, <2>7, <2>8, <2>9, <2>10, <2>11, <2>12, <2>14, StoredTwice
  <2>16. OthersKept
    BY <1>1, <1>3, <2>3, OthersOpened
  <2> QED BY <1>1, <2>3, <2>5, <2>15, <2>16, PlanGoesOn
<1> QED BY <1>6, <1>7, <1>8

\* The file of a stream stays when it is written to.
LEMMA FileWritten ==
  ASSUME StreamsInv, NEW i, NEW lines, Write(i, lines), NEW o \in DOMAIN open
  PROVE  open'[o].file = open[o].file /\ DOMAIN open' = DOMAIN open
<1>1. CASE i = Console
  BY <1>1 DEF Write
<1>2. CASE i # Console
  <2>1. open' = [j \in DOMAIN open |->
                   IF j = i THEN [open[j] EXCEPT !.text = open[j].text \o lines] ELSE open[j]]
    BY <1>2 DEF Write
  <2>2. open'[o] = open[o] \/ open'[o] = [open[o] EXCEPT !.text = open[o].text \o lines]
    BY <2>1
  <2>3. open[o] \in StreamType
    BY DEF StreamsInv
  <2> QED BY <2>1, <2>2, <2>3 DEF StreamType
<1> QED BY <1>1, <1>2

\* ... prints ...
LEMMA ListRecordsDblPlan ==
  ASSUME StackInv, StreamsInv, StreamsInv', stack # <<>>, NEW w, IsPlan(w), UNCHANGED <<command, start>>,
         ListRecordsDbl
  PROVE  PlanInv'
<1>1. PICK n, f, o, m : n = Len(stack) /\ f = Top /\ o = Top.outer /\ m = Top.stream
  OBVIOUS
<1>2. At("listRecords", "list") /\ Write(out, Listing) /\ UNCHANGED <<disk, eof>>
  BY DEF ListRecordsDbl, Puts
<1>3. /\ w[n] = Leaves(n, f) /\ w[n] \in Known /\ f \in FrameType /\ FrameOK(f) /\ out = OutOf(f)
      /\ o = Console \/ o \in DOMAIN open
      /\ o \notin Held(f) /\ Held(f) \subseteq DOMAIN open
  BY <1>1, TopLeaves
<1>4. f.at = "list" /\ Op(f) = "listRecords" /\ f.line \in Commands
  BY <1>1, <1>2 DEF At, Command, Op
<1>5. OthersKept
  BY <1>2, OthersWritten
<1>6. Listing \in Text
  BY RedirectAssumption
<1>7. CASE m = Console
  <2>1. out = o /\ Leave
    BY <1>1, <1>3, <1>4, <1>7 DEF OutOf, Redirects, ListRecordsDbl
  <2>2. Now(o)' = Printing(Now(o), Listing)
    BY <1>2, <1>3, <1>6, <2>1, NowPrinted
  <2>3. w[n] = Printing(Now(o), Listing)
    BY <1>1, <1>3, <1>4, <1>7 DEF Leaves
  <2> QED BY <1>1, <1>5, <2>1, <2>2, <2>3, PlanReturns DEF Leave
<1>8. CASE m # Console
  <2>1. out = m /\ m \in DOMAIN open /\ m # o
    BY <1>1, <1>3, <1>4, <1>8 DEF OutOf, Redirects, Held
  <2>2. PICK g : g = [f EXCEPT !.at = "close"]
    OBVIOUS
  <2>3. stack' = Append(Front(stack), g)
    BY <1>1, <1>8, <2>2 DEF ListRecordsDbl, Goto
  <2>4. /\ g \in FrameType /\ g.at = "close" /\ g.stream = m /\ g.outer = o /\ g.line = f.line
    BY <1>1, <1>3, <2>2 DEF FrameType, Place
  <2>5. TextOf(m)' = TextOf(m) \o Listing /\ TextOf(o)' = TextOf(o)
    BY <1>2, <1>3, <2>1, TextWritten
  <2>6. open'[m].text = open[m].text \o Listing /\ open'[m].file = open[m].file
    BY <1>2, <1>8, <2>1, <2>5, FileWritten DEF TextOf
  <2>7. Now(o)' = Now(o)
    BY <1>2, <2>5 DEF Now
  <2>8. Meaning[g.line].op # "cp"
    BY <1>4, <2>4 DEF Op
  <2>9. Leaves(n, g)' = Storing(Now(o)', open'[m].file, open'[m].text)
    BY <1>8, <2>4, <2>8 DEF Leaves, Storing
  <2>10. w[n] = Storing(Now(o), open[m].file, open[m].text \o Listing)
    BY <1>1, <1>3, <1>4, <1>8 DEF Leaves
  <2>11. Leaves(n, g)' = w[n]
    BY <2>6, <2>7, <2>9, <2>10
  <2> QED BY <1>1, <1>5, <2>3, <2>4, <2>11, PlanGoesOn
<1> QED BY <1>7, <1>8

\* ... and closes the file.
LEMMA ListRecordsClosePlan ==
  ASSUME StackInv, StreamsInv, StreamsInv', stack # <<>>, NEW w, IsPlan(w), UNCHANGED <<command, start>>,
         ListRecordsClose
  PROVE  PlanInv'
<1>1. PICK n, f, o, m : n = Len(stack) /\ f = Top /\ o = Top.outer /\ m = Top.stream
  OBVIOUS
<1>2. /\ At("listRecords", "close") /\ open' = Without({m}) /\ Leave /\ UNCHANGED <<eof, console>>
      /\ disk' = [disk EXCEPT ![open[m].file] = open[m].text]
  BY <1>1 DEF ListRecordsClose
<1>3. /\ w[n] = Leaves(n, f) /\ w[n] \in Known /\ f \in FrameType /\ FrameOK(f) /\ out = OutOf(f)
      /\ o = Console \/ o \in DOMAIN open
      /\ o \notin Held(f) /\ Held(f) \subseteq DOMAIN open
  BY <1>1, TopLeaves
<1>4. f.at = "close" /\ Op(f) = "listRecords" /\ f.line \in Commands /\ m # Console
  BY <1>1, <1>2, <1>3 DEF At, Command, Op, FrameOK
<1>5. m \in Held(f) /\ m \in DOMAIN open /\ m # o
  BY <1>1, <1>3, <1>4 DEF Held
<1>6. OthersKept
  <2>1. ASSUME NEW i, i = Console \/ i \in DOMAIN open, i \notin Held(Top)
        PROVE  TextOf(i)' = TextOf(i)
    BY <1>1, <1>2, <1>5, <2>1, TextClosed
  <2> QED BY <2>1, OthersAreKept
<1>7. PICK file, text : file = open[m].file /\ text = open[m].text
  OBVIOUS
<1>8. text \in Text
  BY <1>5, <1>7 DEF StreamsInv, StreamType
<1>9. PICK st, t : st = Now(o) /\ t = Storing(st, file, text)
  OBVIOUS
<1>10. st \in Outside /\ st.done /\ st.printed = TextOf(o) /\ st.disk = disk /\ (st.eof <=> eof)
  BY <1>3, <1>9, NowIs
<1>11. /\ t \in Outside /\ (t.done <=> st.done) /\ t.printed = st.printed
       /\ t.disk = Put(st.disk, file, text) /\ (t.eof <=> st.eof)
  BY <1>8, <1>9, <1>10, StoringIs
<1>12. disk' = Put(disk, file, text)
  BY <1>2, <1>7 DEF Put
<1>13. TextOf(o)' = TextOf(o)
  BY <1>2, <1>3, <1>5, TextClosed
<1>14. o = Console \/ o \in DOMAIN open'
  BY <1>2, <1>3, <1>5 DEF Without
<1>15. Now(o)' = t
  BY <1>2, <1>10, <1>11, <1>12, <1>13, <1>14, IsNow
<1>16. w[n] = t
  BY <1>1, <1>3, <1>4, <1>7, <1>9 DEF Leaves, Op
<1> QED BY <1>1, <1>2, <1>6, <1>15, <1>16, PlanReturns DEF Leave

\* cp opens its source ...
LEMMA CpSourcePlan ==
  ASSUME StackInv, StreamsInv, StreamsInv', stack # <<>>, NEW w, IsPlan(w), UNCHANGED <<command, start>>,
         CpSource, ~Opens(Command.source)
  PROVE  PlanInv'
<1>1. PICK n, f, o, m, c : n = Len(stack) /\ f = Top /\ o = Top.outer /\ m = NewStream /\ c = Meaning[f.line]
  OBVIOUS
<1>2. PICK source, st : source = c.source /\ st = Now(o)
  OBVIOUS
<1>3. At("cp", "begin") /\ UNCHANGED <<disk, eof, console>>
  BY DEF CpSource
<1>4. /\ w[n] = Effect(f.line, st) /\ f.line \in Commands /\ c.op = "cp"
      /\ Command = c /\ f \in FrameType /\ f.outer = o
      /\ o = Console \/ o \in DOMAIN open
  BY <1>1, <1>2, <1>3, BeginsAs
<1>5. st.disk = disk
  BY <1>2, <1>4, NowIs
<1>6. w[n] = IF CanCopy(c, st) THEN Copied(c, st) ELSE st
  BY <1>1, <1>4 DEF Effect
<1>7. ASSUME source = None \/ CanRead(source), NEW g \in FrameType, g.at = "target", g.line = f.line,
             g.outer = o, Now(o)' = st
      PROVE  Leaves(n, g)' = w[n]
  <2>1. CanCopy(c, st) <=> c.target = None \/ CanWrite(c.target)
    BY <1>2, <1>5, <1>7 DEF CanCopy, CanRead
  <2>2. Leaves(n, g)' = IF c.target = None \/ CanWrite(c.target) THEN Copied(c, st) ELSE st
    BY <1>1, <1>7 DEF Leaves, CanWrite, Copied, Reads, Printing, Storing
  <2> QED BY <1>6, <2>1, <2>2
<1>8. CASE source = None
  <2>1. PICK g : g = [f EXCEPT !.at = "target"]
    OBVIOUS
  <2>2. stack' = Append(Front(stack), g) /\ UNCHANGED open
    BY <1>1, <1>2, <1>4, <1>8, <2>1 DEF CpSource, Goto
  <2>3. g \in FrameType /\ g.at = "target" /\ g.line = f.line /\ g.outer = o
    BY <1>4, <2>1 DEF FrameType, Place
  <2>4. Now(o)' = st
    BY <1>2, <1>3, <2>2 DEF Now, TextOf
  <2>5. Leaves(n, g)' = w[n]
    BY <1>7, <1>8, <2>3, <2>4
  <2> QED BY <1>1, <1>3, <2>2, <2>3, <2>5, PlanMoves
<1>9. CASE source # None /\ ~CanRead(source)
  <2>1. Leave /\ UNCHANGED open
    BY <1>1, <1>2, <1>4, <1>9 DEF CpSource
  <2>2. ~CanCopy(c, st)
    BY <1>2, <1>5, <1>9 DEF CanCopy, CanRead
  <2>3. w[n] = Now(o)
    BY <1>2, <1>6, <2>2
  <2> QED BY <1>1, <1>3, <2>1, <2>3, PlanLeaves
<1>10. CASE source # None /\ CanRead(source)
  <2>1. PICK g : g = [f EXCEPT !.at = "target", !.source = m]
    OBVIOUS
  <2>2. DescriptorFree
    BY <1>1, <1>2, <1>4, <1>10 DEF Opens
  <2>3. open' = Opened(m, source) /\ stack' = Append(Front(stack), g)
    BY <1>1, <1>2, <1>4, <1>10, <2>1, <2>2 DEF CpSource, Goto
  <2>4. m \in Nat
    BY <1>1, NewStreamIsNew
  <2>5. g \in FrameType /\ g.at = "target" /\ g.line = f.line /\ g.outer = o
    BY <1>4, <2>1, <2>4 DEF FrameType, Place
  <2>6. TextOf(o)' = TextOf(o)
    BY <1>1, <1>3, <1>4, <2>3, TextOpened
  <2>7. Now(o)' = st
    BY <1>2, <1>3, <2>6 DEF Now
  <2>8. Leaves(n, g)' = w[n]
    BY <1>7, <1>10, <2>5, <2>7
  <2>9. OthersKept
    BY <1>1, <1>3, <2>3, OthersOpened
  <2> QED BY <1>1, <2>3, <2>5, <2>8, <2>9, PlanGoesOn
<1> QED BY <1>8, <1>9, <1>10

\* What cp reads from stdin it reads to its end.
LEMMA ReadIs ==
  ASSUME NEW o, NEW c, NEW st, st = Now(o)
  PROVE  [st EXCEPT !.eof = @ \/ c.source = None] = [st EXCEPT !.eof = eof \/ c.source = None]
BY DEF Now

\* The outside when the end of stdin has been read or not
Reading(st, b) == [st EXCEPT !.eof = b]

\* What cp leaves, from what it finds
LEMMA CopiedNow ==
  ASSUME StreamsInv, NEW o, o = Console \/ o \in DOMAIN open,
         NEW c, c.source \in Files \cup {None}, c.target \in Files \cup {None},
         NEW st, st = Now(o), NEW b \in BOOLEAN, b <=> (eof \/ c.source = None),
         NEW read, read = Reading(st, b), NEW r, r = Reads(c, st)
  PROVE  /\ read \in Outside /\ read.done /\ read.printed = TextOf(o) /\ read.disk = disk
         /\ (read.eof <=> b) /\ r \in Text
         /\ c.target = None => Copied(c, st) = Printing(read, r) /\ r = SourceOf(c)
         /\ c.target # None => Copied(c, st) = Storing(read, c.target, r)
<1>1. st \in Outside /\ st.done /\ st.printed = TextOf(o) /\ st.disk = disk /\ (st.eof <=> eof)
  BY NowIs
<1>2. /\ read \in Outside /\ (read.done <=> st.done) /\ read.printed = st.printed
      /\ read.disk = st.disk /\ (read.eof <=> b)
  BY <1>1, EofIs DEF Reading
<1>3. r \in Text
  BY <1>1, CopiedIsOutside
<1>4. [st EXCEPT !.eof = @ \/ c.source = None] = read
  <2>1. eof \in BOOLEAN /\ (eof \/ c.source = None) \in BOOLEAN
    BY DEF StreamsInv
  <2>2. (eof \/ c.source = None) = b
    BY <2>1
  <2> QED BY <2>2, ReadIs DEF Reading
<1>5. Copied(c, st) = IF c.target = None THEN Printing(read, r) ELSE Storing(read, c.target, r)
  BY <1>4 DEF Copied
<1>6. c.target = None => r = SourceOf(c)
  <2> SUFFICES ASSUME c.target = None PROVE r = SourceOf(c)
    OBVIOUS
  <2>1. CASE c.source = None
    BY <1>1, <2>1 DEF Reads, SourceOf
  <2>2. CASE c.source # None
    BY <1>1, <2>2 DEF Reads, SourceOf
  <2> QED BY <2>1, <2>2
<1> QED BY <1>1, <1>2, <1>3, <1>5, <1>6

\* ... and its target, which is empty then, also where it is the source ...
LEMMA CpTargetPlan ==
  ASSUME StackInv, StreamsInv, StreamsInv', stack # <<>>, NEW w, IsPlan(w), UNCHANGED <<command, start>>,
         CpTarget, ~Opens(Command.target)
  PROVE  PlanInv'
<1>1. PICK n, f, o, m, c : n = Len(stack) /\ f = Top /\ o = Top.outer /\ m = NewStream /\ c = Meaning[f.line]
  OBVIOUS
<1>2. PICK target, st, r : target = c.target /\ st = Now(o) /\ r = Reads(c, st)
  OBVIOUS
<1>3. At("cp", "target") /\ UNCHANGED <<eof, console>>
  BY DEF CpTarget
<1>4. /\ w[n] = Leaves(n, f) /\ f \in FrameType /\ f.outer = o
      /\ o = Console \/ o \in DOMAIN open
  BY <1>1, TopLeaves
<1>5. f.at = "target" /\ f.line \in Commands /\ c.op = "cp" /\ Command = c
  BY <1>1, <1>3 DEF At, Command
<1>6. c.source \in Files \cup {None} /\ target \in Files \cup {None}
  BY <1>1, <1>2, <1>5, MeaningIs
<1>7. w[n] = IF target = None \/ CanWrite(target) THEN Copied(c, st) ELSE st
  BY <1>1, <1>2, <1>4, <1>5 DEF Leaves
<1>8. PICK b \in BOOLEAN : b = (eof \/ c.source = None)
  BY DEF StreamsInv
<1>9. PICK read : read = [st EXCEPT !.eof = b]
  OBVIOUS
<1>10. /\ read \in Outside /\ read.done /\ read.printed = TextOf(o) /\ read.disk = disk
       /\ (read.eof <=> b) /\ r \in Text
       /\ target = None => Copied(c, st) = Printing(read, r) /\ r = SourceOf(c)
       /\ target # None => Copied(c, st) = Storing(read, target, r)
  <2>1. c.source \in Files \cup {None} /\ c.target \in Files \cup {None} /\ st = Now(o)
        /\ (b <=> (eof \/ c.source = None)) /\ r = Reads(c, st) /\ read = Reading(st, b)
    BY <1>2, <1>6, <1>8, <1>9 DEF Reading
  <2>2. /\ read \in Outside /\ read.done /\ read.printed = TextOf(o) /\ read.disk = disk
        /\ (read.eof <=> b) /\ r \in Text
        /\ c.target = None => Copied(c, st) = Printing(read, r) /\ r = SourceOf(c)
        /\ c.target # None => Copied(c, st) = Storing(read, c.target, r)
    BY <1>4, <2>1, CopiedNow
  <2> QED BY <1>2, <2>2
<1>11. CASE target = None
  <2>1. PICK g : g = [f EXCEPT !.at = "copy"]
    OBVIOUS
  <2>2. stack' = Append(Front(stack), g) /\ UNCHANGED <<open, disk>>
    BY <1>1, <1>2, <1>5, <1>11, <2>1 DEF CpTarget, Goto
  <2>3. g \in FrameType /\ g.at = "copy" /\ g.line = f.line /\ g.outer = o
    BY <1>4, <2>1 DEF FrameType, Place
  <2>4. Now(o)' = st /\ SourceOf(c)' = r
    BY <1>2, <1>3, <1>10, <1>11, <2>2 DEF Now, TextOf, SourceOf
  <2>5. [Now(o)' EXCEPT !.eof = eof' \/ c.source = None] = read
    BY <1>3, <1>8, <1>9, <2>4
  <2>6. Leaves(n, g)' = Printing(read, r)
    BY <1>1, <1>2, <1>11, <2>3, <2>4, <2>5 DEF Leaves, Copying, Printing
  <2>7. Leaves(n, g)' = w[n]
    BY <1>7, <1>10, <1>11, <2>6
  <2> QED BY <1>1, <1>3, <2>2, <2>3, <2>7, PlanMoves
<1>12. CASE target # None /\ ~CanWrite(target)
  <2>1. Leave /\ UNCHANGED <<open, disk>>
    BY <1>1, <1>2, <1>5, <1>12 DEF CpTarget
  <2>2. w[n] = Now(o)
    BY <1>2, <1>7, <1>12
  <2> QED BY <1>1, <1>3, <2>1, <2>2, PlanLeaves
<1>13. CASE target # None /\ CanWrite(target)
  <2>1. PICK g : g = [f EXCEPT !.at = "copy", !.stream = m]
    OBVIOUS
  <2>2. DescriptorFree
    BY <1>1, <1>2, <1>5, <1>13 DEF Opens
  <2>3. /\ open' = Opened(m, target) /\ disk' = [disk EXCEPT ![target] = <<>>]
        /\ stack' = Append(Front(stack), g)
    BY <1>1, <1>2, <1>5, <1>13, <2>1, <2>2 DEF CpTarget, Goto
  <2>4. m \in Nat
    BY <1>1, NewStreamIsNew
  <2>5. g \in FrameType /\ g.at = "copy" /\ g.line = f.line /\ g.outer = o /\ g.stream = m
    BY <1>4, <2>1, <2>4 DEF FrameType, Place
  <2>6. open'[m] = [file |-> target, text |-> <<>>]
    BY <1>1, <1>3, <2>3, TextOpened
  <2>7. Now(o)' = Storing(st, target, <<>>)
    BY <1>1, <1>2, <1>3, <1>4, <2>3, NowOpened
  <2>8. SourceOf(c)' = r
    <3>1. CASE c.source = None
      BY <1>2, <1>3, <3>1 DEF SourceOf, Reads, Now
    <3>2. CASE c.source # None
      <4>1. disk'[c.source] = IF c.source = target THEN <<>> ELSE disk[c.source]
        BY <1>6, <2>3, <3>2 DEF StreamsInv
      <4>2. st.disk = disk
        BY <1>2 DEF Now
      <4> QED BY <1>2, <3>2, <4>1, <4>2 DEF SourceOf, Reads
    <3> QED BY <3>1, <3>2
  <2>9. PICK s, t : s = Storing(st, target, <<>>) /\ t = [s EXCEPT !.eof = b]
    OBVIOUS
  <2>10. t = Storing(read, target, <<>>)
    <3>1. st \in Outside /\ st.done /\ st.printed = TextOf(o) /\ st.disk = disk /\ (st.eof <=> eof)
      BY <1>2, <1>4, NowIs
    <3>2. <<>> \in Text
      BY DEF Text
    <3>3. /\ s \in Outside /\ (s.done <=> st.done) /\ s.printed = st.printed
          /\ s.disk = Put(st.disk, target, <<>>) /\ (s.eof <=> st.eof)
      BY <2>9, <3>1, <3>2, StoringIs
    <3>4. /\ t \in Outside /\ (t.done <=> s.done) /\ t.printed = s.printed
          /\ t.disk = s.disk /\ (t.eof <=> b)
      BY <2>9, <3>3, EofIs
    <3>5. PICK u : u = Storing(read, target, <<>>)
      OBVIOUS
    <3>6. /\ u \in Outside /\ (u.done <=> read.done) /\ u.printed = read.printed
          /\ u.disk = Put(read.disk, target, <<>>) /\ (u.eof <=> read.eof)
      BY <1>10, <3>2, <3>5, StoringIs
    <3>7. t = u
      BY <1>10, <3>1, <3>3, <3>4, <3>6, OutsideEqual
    <3> QED BY <3>5, <3>7
  <2>11. [Now(o)' EXCEPT !.eof = eof' \/ c.source = None] = t
    BY <1>3, <1>8, <2>7, <2>9
  <2>12. <<>> \o r = r /\ <<>> \in Text
    BY <1>10, ConcatEmptySeq DEF Text
  <2>13. Leaves(n, g)' = Storing(t, target, <<>> \o r)
    <3>1. open'[m].text = <<>>
      BY <2>6
    <3>2. Leaves(n, g)' = Copying(g, c)'
      BY <1>1, <2>5 DEF Leaves
    <3>3. Copying(g, c)' = Storing(t, target, open'[m].text \o r)
      BY <1>2, <1>13, <2>5, <2>8, <2>11 DEF Copying, Storing
    <3> QED BY <3>1, <3>2, <3>3
  <2>14. Leaves(n, g)' = Storing(Storing(read, target, <<>>), target, r)
    BY <2>10, <2>12, <2>13
  <2>15. Storing(Storing(read, target, <<>>), target, r) = Storing(read, target, r)
    BY <1>10, <2>12, StoredTwice
  <2>16. Leaves(n, g)' = w[n]
    BY <1>7, <1>10, <1>13, <2>14, <2>15
  <2>17. OthersKept
    BY <1>1, <1>3, <2>3, OthersOpened
  <2> QED BY <1>1, <2>3, <2>5, <2>16, <2>17, PlanGoesOn
<1> QED BY <1>11, <1>12, <1>13

\* ... copies what it reads ...
LEMMA CpCopyPlan ==
  ASSUME StackInv, StreamsInv, StreamsInv', stack # <<>>, NEW w, IsPlan(w), UNCHANGED <<command, start>>,
         CpCopy, ~TargetFails
  PROVE  PlanInv'
<1>1. PICK n, f, o, m, c : n = Len(stack) /\ f = Top /\ o = Top.outer /\ m = Top.stream /\ c = Meaning[f.line]
  OBVIOUS
<1>2. PICK st, r : st = Now(o) /\ r = SourceOf(c)
  OBVIOUS
<1>3. At("cp", "copy") /\ UNCHANGED disk
  BY DEF CpCopy
<1>4. /\ w[n] = Leaves(n, f) /\ f \in FrameType /\ FrameOK(f) /\ out = OutOf(f) /\ f.outer = o
      /\ o = Console \/ o \in DOMAIN open
      /\ o \notin Held(f) /\ Held(f) \subseteq DOMAIN open
  BY <1>1, TopLeaves
<1>5. f.at = "copy" /\ f.line \in Commands /\ c.op = "cp" /\ Command = c
  BY <1>1, <1>3 DEF At, Command
<1>6. c.source \in Files \cup {None} /\ c.target \in Files \cup {None}
  BY <1>1, <1>5, MeaningIs
<1>7. r \in Text
  <2>1. <<>> \in Text
    BY DEF Text
  <2>2. c.source # None => disk[c.source] \in Text
    BY <1>6 DEF StreamsInv
  <2> QED BY <1>2, <2>1, <2>2, RedirectAssumption DEF SourceOf
<1>8. out = o /\ (m = Console <=> c.target = None)
  BY <1>1, <1>4, <1>5 DEF OutOf, Redirects, FrameOK, Op
<1>9. PICK b \in BOOLEAN : b = (eof \/ c.source = None)
  BY DEF StreamsInv
<1>10. PICK read : read = [st EXCEPT !.eof = b]
  OBVIOUS
<1>11. st \in Outside /\ st.done /\ st.printed = TextOf(o) /\ st.disk = disk /\ (st.eof <=> eof)
  BY <1>2, <1>4, NowIs
<1>12. /\ read \in Outside /\ (read.done <=> st.done) /\ read.printed = st.printed
       /\ read.disk = st.disk /\ (read.eof <=> b)
  BY <1>10, <1>11, EofIs
<1>13. eof' = b
  BY <1>1, <1>5, <1>9 DEF CpCopy
<1>14. Copying(f, c) = IF c.target = None THEN Printing(read, r)
                       ELSE Storing(read, c.target, open[m].text \o r)
  <2>1. [Now(o) EXCEPT !.eof = eof \/ c.source = None] = read
    BY <1>2, <1>9, <1>10
  <2> QED BY <1>1, <1>2, <1>4, <2>1 DEF Copying
<1>15. w[n] = Copying(f, c)
  BY <1>1, <1>4, <1>5 DEF Leaves
<1>16. PICK g : g = [f EXCEPT !.at = "close"]
  OBVIOUS
<1>17. stack' = Append(Front(stack), g) /\ Write(IF c.target = None THEN o ELSE m, r)
  BY <1>1, <1>2, <1>5, <1>8, <1>16 DEF CpCopy, Goto, Source, SourceOf
<1>18. g \in FrameType /\ g.at = "close" /\ g.line = f.line /\ g.outer = o /\ g.stream = m
  BY <1>1, <1>4, <1>16 DEF FrameType, Place
<1>19. CASE c.target = None
  <2>1. Write(o, r)
    BY <1>17, <1>19
  <2>2. TextOf(o)' = TextOf(o) \o r
    BY <1>4, <2>1, TextWritten
  <2>3. PICK t : t = Printing(read, r)
    OBVIOUS
  <2>4. /\ t \in Outside /\ (t.done <=> read.done) /\ t.printed = read.printed \o r
        /\ t.disk = read.disk /\ (t.eof <=> read.eof)
    BY <1>7, <1>12, <2>3, PrintingIs
  <2>5. o = Console \/ o \in DOMAIN open'
    BY <1>4, <1>7, <2>1, WrittenStream
  <2>6. Now(o)' = t
    BY <1>3, <1>11, <1>12, <1>13, <2>2, <2>4, <2>5, IsNow
  <2>7. Leaves(n, g)' = Now(o)'
    BY <1>8, <1>18, <1>19 DEF Leaves
  <2>8. Leaves(n, g)' = w[n]
    BY <1>14, <1>15, <1>19, <2>3, <2>6, <2>7
  <2>9. OthersKept
    BY <1>8, <2>1, OthersWritten
  <2> QED BY <1>1, <1>17, <1>18, <2>8, <2>9, PlanGoesOn
<1>20. CASE c.target # None
  <2>1. Write(m, r) /\ m # Console /\ m \in Held(f) /\ m \in DOMAIN open /\ m # o
    BY <1>1, <1>4, <1>5, <1>8, <1>17, <1>20 DEF Held
  <2>2. TextOf(o)' = TextOf(o) /\ TextOf(m)' = TextOf(m) \o r
    BY <1>4, <2>1, TextWritten
  <2>3. open'[m].text = open[m].text \o r
    BY <2>1, <2>2 DEF TextOf
  <2>4. o = Console \/ o \in DOMAIN open'
    BY <1>4, <1>7, <2>1, WrittenStream
  <2>5. Now(o)' = read
    BY <1>3, <1>11, <1>12, <1>13, <2>2, <2>4, IsNow
  <2>6. Leaves(n, g)' = Storing(read, c.target, open'[m].text)
    BY <1>1, <1>5, <1>18, <2>1, <2>5 DEF Leaves, Storing
  <2>7. Leaves(n, g)' = w[n]
    BY <1>14, <1>15, <1>20, <2>3, <2>6
  <2>8. OthersKept
    BY <1>1, <2>1, OthersWritten
  <2> QED BY <1>1, <1>17, <1>18, <2>7, <2>8, PlanGoesOn
<1> QED BY <1>19, <1>20

\* ... and closes both.
LEMMA CpClosePlan ==
  ASSUME StackInv, StreamsInv, StreamsInv', stack # <<>>, NEW w, IsPlan(w), UNCHANGED <<command, start>>,
         CpClose
  PROVE  PlanInv'
<1>1. PICK n, f, o, m, c : n = Len(stack) /\ f = Top /\ o = Top.outer /\ m = Top.stream /\ c = Meaning[f.line]
  OBVIOUS
<1>2. At("cp", "close") /\ open' = Without({f.source, m}) /\ Leave /\ UNCHANGED <<eof, console>>
  BY <1>1 DEF CpClose
<1>3. /\ w[n] = Leaves(n, f) /\ f \in FrameType /\ FrameOK(f) /\ f.outer = o
      /\ o = Console \/ o \in DOMAIN open
      /\ o \notin Held(f) /\ Held(f) \subseteq DOMAIN open
  BY <1>1, TopLeaves
<1>4. f.at = "close" /\ f.line \in Commands /\ c.op = "cp" /\ Command = c
  BY <1>1, <1>2 DEF At, Command
<1>5. /\ Held(f) = {m, f.source} \ {Console}
      /\ m = Console <=> c.target = None
  BY <1>1, <1>3, <1>4 DEF Held, FrameOK, Op
<1>6. OthersKept
  BY <1>1, <1>2, <1>5, OthersClosed
<1>7. o \notin {f.source, m} \/ o = Console
  BY <1>3, <1>5
<1>8. TextOf(o)' = TextOf(o)
  BY <1>2, <1>3, <1>7, TextClosed
<1>9. CASE c.target = None
  <2>1. disk' = disk
    BY <1>1, <1>4, <1>9 DEF CpClose
  <2>2. w[n] = Now(o)
    BY <1>1, <1>3, <1>4, <1>5, <1>9 DEF Leaves
  <2>3. Now(o)' = Now(o)
    BY <1>2, <1>8, <2>1 DEF Now
  <2> QED BY <1>1, <1>2, <1>6, <2>2, <2>3, PlanReturns DEF Leave
<1>10. CASE c.target # None
  <2>1. PICK text : text = open[m].text
    OBVIOUS
  <2>2. m # Console /\ m \in DOMAIN open
    BY <1>3, <1>5, <1>10
  <2>3. text \in Text
    BY <2>1, <2>2 DEF StreamsInv, StreamType
  <2>4. disk' = Put(disk, c.target, text)
    BY <1>1, <1>4, <1>10, <2>1 DEF CpClose, Put
  <2>5. PICK st, t : st = Now(o) /\ t = Storing(st, c.target, text)
    OBVIOUS
  <2>6. st \in Outside /\ st.done /\ st.printed = TextOf(o) /\ st.disk = disk /\ (st.eof <=> eof)
    BY <1>3, <2>5, NowIs
  <2>7. /\ t \in Outside /\ (t.done <=> st.done) /\ t.printed = st.printed
        /\ t.disk = Put(st.disk, c.target, text) /\ (t.eof <=> st.eof)
    BY <2>3, <2>5, <2>6, StoringIs
  <2>8. o = Console \/ o \in DOMAIN open'
    BY <1>2, <1>3, <1>7 DEF Without
  <2>9. Now(o)' = t
    BY <1>2, <1>8, <2>4, <2>6, <2>7, <2>8, IsNow
  <2>10. w[n] = t
    BY <1>1, <1>3, <1>4, <2>1, <2>2, <2>5 DEF Leaves
  <2> QED BY <1>1, <1>2, <1>6, <2>9, <2>10, PlanReturns DEF Leave
<1> QED BY <1>9, <1>10

-----------------------------------------------------------------------------
(* ulimit: the lines it still prints.                                      *)

\* The letters of a limit from the place j on
ShownFrom(options, j) == {i \in j..Len(options) : options[i] \in Resources}

\* How many there are
LEMMA ShownIs ==
  ASSUME NEW options \in Seq(STRING), NEW j \in Nat \ {0}
  PROVE  /\ Cardinality(ShownFrom(options, j)) \in Nat
         /\ j > Len(options) => Cardinality(ShownFrom(options, j)) = 0
         /\ j <= Len(options) /\ options[j] \notin Resources =>
              Cardinality(ShownFrom(options, j)) = Cardinality(ShownFrom(options, j + 1))
         /\ j <= Len(options) /\ options[j] \in Resources =>
              Cardinality(ShownFrom(options, j)) = Cardinality(ShownFrom(options, j + 1)) + 1
<1> DEFINE S == ShownFrom(options, j)
           T == ShownFrom(options, j + 1)
<1>1. Len(options) \in Nat
  OBVIOUS
<1>2. IsFiniteSet(j..Len(options)) /\ S \subseteq j..Len(options) /\ T \subseteq S
  <2>1. IsFiniteSet(j..Len(options))
    BY <1>1, FS_Interval
  <2> QED BY <1>1, <2>1 DEF ShownFrom
<1>3. S = IF j <= Len(options) /\ options[j] \in Resources THEN T \cup {j} ELSE T
  BY <1>1 DEF ShownFrom
<1>4. j \notin T /\ (j > Len(options) => S = {})
  BY <1>1 DEF ShownFrom
<1> HIDE DEF S, T
<1>5. IsFiniteSet(S) /\ IsFiniteSet(T)
  BY <1>2, FS_Subset
<1>6. Cardinality(S) \in Nat /\ Cardinality(T) \in Nat
  BY <1>5, FS_CardinalityType
<1>7. Cardinality(T \cup {j}) = Cardinality(T) + 1
  BY <1>4, <1>5, FS_AddElement
<1>8. Cardinality({}) = 0
  BY FS_EmptySet
<1> QED BY <1>3, <1>4, <1>6, <1>7, <1>8 DEF S, T

\* The lines that a call c of ulimit still prints
Remains(c) ==
  IF c.at = "all" THEN 1
  ELSE IF c.at # "option" \/ c.limit.kind # "missing" THEN 0
  ELSE Cardinality(ShownFrom(c.options, c.j))

\* They are counted for the call of this shell.
LEMMA ToShowIs == ToShow = Remains(call[Main])
BY DEF ToShow, Remains, ShownFrom

\* A step prints the lines by which they become fewer.
LEMMA RemainsFewer ==
  ASSUME UlimitInv, UlimitStep(Main)
  PROVE  /\ ToShow \in Nat /\ ToShow' \in Nat
         /\ ToShow = ToShow' + (IF PrintsLine(Main) THEN 1 ELSE 0)
<1>1. PICK c, d : c = call[Main] /\ d = call'[Main]
  OBVIOUS
<1>2. Main \in Shells /\ call \in [Shells -> ActiveCall \cup {NoUlimit}] /\ AtPlace(Main)
  BY RedirectAssumption DEF UlimitInv, CallsOK
<1>3. c.at \in {"all", "option", "set"}
  BY <1>1 DEF UlimitStep, ShowAll, NextOption, SetLimit
<1>4. c \in ActiveCall
  BY <1>1, <1>2, <1>3 DEF NoUlimit
<1>5. c.options \in Seq(STRING) /\ c.j \in Nat \ {0}
  BY <1>4 DEF ActiveCall
<1>6. ToShow = Remains(c) /\ ToShow' = Remains(d)
  <2>1. ToShow' = Remains(call[Main])'
    BY DEF ToShow, Remains, ShownFrom
  <2> QED BY <1>1, <2>1, ToShowIs DEF Remains, ShownFrom
<1>7. CASE c.at = "all"
  <2>1. d.at = "done"
    BY <1>1, <1>2, <1>4, <1>7 DEF UlimitStep, ShowAll, NextOption, SetLimit, ActiveCall
  <2> QED BY <1>1, <1>6, <1>7, <2>1 DEF Remains, PrintsLine
<1>8. CASE c.at = "set"
  <2>1. c.limit.kind # "missing"
    BY <1>1, <1>2, <1>8 DEF AtPlace
  <2>4. d = [c EXCEPT !.at = "done"] \/ d = [c EXCEPT !.j = c.j + 1, !.at = "option"]
    <3>1. SetLimit(Main)
      BY <1>1, <1>8 DEF UlimitStep, ShowAll, NextOption
    <3> QED BY <1>1, <1>2, <1>4, <3>1 DEF SetLimit, ActiveCall, NoUlimit
  <2>2. d.at = "done" \/ d.limit = c.limit
    BY <1>4, <2>4 DEF ActiveCall
  <2>3. d.at # "all"
    BY <1>4, <2>4 DEF ActiveCall
  <2> QED BY <1>1, <1>6, <1>8, <2>1, <2>2, <2>3 DEF Remains, PrintsLine
<1>9. CASE c.at = "option"
  <2>1. d = AfterOption(Main)
    BY <1>1, <1>2, <1>9 DEF UlimitStep, ShowAll, NextOption, SetLimit
  <2>2. PICK x : x = Getrlimit(Main)
    OBVIOUS
  <2>3. x.at = "option" /\ x.options = c.options /\ x.limit = c.limit /\ x.j = c.j
        /\ DOMAIN x = DOMAIN c
    BY <1>1, <1>4, <1>9, <2>2 DEF Getrlimit, ActiveCall
  <2>4. CASE c.j > Len(c.options)
    <3>1. d = [c EXCEPT !.at = "done"]
      BY <1>1, <2>1, <2>4 DEF AfterOption
    <3>2. d.at = "done"
      BY <1>4, <3>1 DEF ActiveCall
    <3>3. Remains(d) = 0 /\ Remains(c) = 0
      BY <1>5, <1>9, <2>4, <3>2, ShownIs DEF Remains
    <3>4. ~PrintsLine(Main)
      BY <1>1, <1>5, <1>9, <2>4 DEF PrintsLine
    <3> QED BY <1>6, <3>3, <3>4
  <2>5. CASE c.j <= Len(c.options) /\ c.options[c.j] \notin Resources
    <3>1. d = [c EXCEPT !.j = c.j + 1]
      BY <1>1, <1>5, <2>1, <2>5 DEF AfterOption, Asks
    <3>2. d.at = "option" /\ d.options = c.options /\ d.limit = c.limit /\ d.j = c.j + 1
      BY <1>4, <1>9, <3>1 DEF ActiveCall
    <3>3. Remains(d) = Remains(c) /\ Remains(c) \in Nat
      BY <1>5, <1>9, <2>5, <3>2, ShownIs DEF Remains
    <3>4. ~PrintsLine(Main)
      BY <1>1, <1>9, <2>5 DEF PrintsLine, Asks
    <3> QED BY <1>6, <3>3, <3>4
  <2>6. CASE c.j <= Len(c.options) /\ c.options[c.j] \in Resources /\ c.limit.kind = "missing"
    <3>1. d = [x EXCEPT !.j = c.j + 1]
      BY <1>1, <1>5, <2>1, <2>2, <2>6 DEF AfterOption, Asks
    <3>2. d.at = "option" /\ d.options = c.options /\ d.limit = c.limit /\ d.j = c.j + 1
      BY <1>4, <2>3, <3>1 DEF ActiveCall
    <3>3. Remains(c) = Remains(d) + 1 /\ Remains(c) \in Nat /\ Remains(d) \in Nat
      <4>1. c.j + 1 \in Nat \ {0}
        BY <1>5
      <4>2. /\ Cardinality(ShownFrom(c.options, c.j)) = Cardinality(ShownFrom(c.options, c.j + 1)) + 1
            /\ Cardinality(ShownFrom(c.options, c.j)) \in Nat
            /\ Cardinality(ShownFrom(c.options, c.j + 1)) \in Nat
        BY <1>5, <2>6, <4>1, ShownIs
      <4> QED BY <1>9, <2>6, <3>2, <4>2 DEF Remains
    <3>4. PrintsLine(Main)
      BY <1>1, <1>9, <2>6 DEF PrintsLine, Asks
    <3> QED BY <1>6, <3>3, <3>4
  <2>7. CASE c.j <= Len(c.options) /\ c.options[c.j] \in Resources /\ c.limit.kind # "missing"
    <3>1. d = [x EXCEPT !.at = "done"] \/ d = [x EXCEPT !.at = "set"]
      BY <1>1, <1>5, <2>1, <2>2, <2>7 DEF AfterOption, Asks
    <3>2. d.at \in {"done", "set"}
      BY <1>4, <2>3, <3>1 DEF ActiveCall
    <3>3. Remains(d) = 0 /\ Remains(c) = 0
      BY <1>9, <2>7, <3>2 DEF Remains
    <3>4. ~PrintsLine(Main)
      BY <1>1, <1>9, <2>7 DEF PrintsLine
    <3> QED BY <1>6, <3>3, <3>4
  <2> QED BY <1>5, <2>4, <2>5, <2>6, <2>7
<1> QED BY <1>3, <1>7, <1>8, <1>9

\* At its beginning ulimit has all its lines still to print.
LEMMA RemainsAll ==
  ASSUME UlimitInv, NEW options, NEW limit, UlimitFunc(Main, options, limit)
  PROVE  ToShow' = Shows(options, limit)
<1>1. PICK d : d = call'[Main]
  OBVIOUS
<1>2. Main \in Shells /\ call \in [Shells -> ActiveCall \cup {NoUlimit}]
  BY RedirectAssumption DEF UlimitInv, CallsOK
<1>3. /\ d.at = (IF "a" \in Letters(options) THEN "all" ELSE "option")
      /\ d.options = Selected(options) /\ d.limit = limit /\ d.j = 1
  BY <1>1, <1>2 DEF UlimitFunc
<1>4. ToShow' = Remains(d)
  <2>1. ToShow' = Remains(call[Main])'
    BY DEF ToShow, Remains, ShownFrom
  <2> QED BY <1>1, <2>1 DEF Remains, ShownFrom
<1> QED BY <1>3, <1>4 DEF Remains, ShownFrom, Shows

\* What other shells do does not change it.
LEMMA RemainsSame ==
  ASSUME UlimitInv, NEW s \in Shells \ {Main},
         \/ \E options, limit : UlimitFunc(s, options, limit)
         \/ UlimitStep(s) \/ UlimitReturn(s)
  PROVE  ToShow' = ToShow
<1>1. PICK c, d : c = call[Main] /\ d = call'[Main]
  OBVIOUS
<1>2. Main \in Shells /\ s \in Shells /\ s # Main /\ c \in ActiveCall \cup {NoUlimit}
      /\ call \in [Shells -> ActiveCall \cup {NoUlimit}]
  BY <1>1, RedirectAssumption DEF UlimitInv, CallsOK
<1>3. d = c \/ \E r : c # NoUlimit /\ d = [c EXCEPT !.disturbed = c.disturbed \cup {r}]
  <2>1. CASE ~SetLimit(s)
    BY <1>1, <1>2, <2>1 DEF UlimitFunc, UlimitStep, UlimitReturn, ShowAll, NextOption
  <2>2. CASE SetLimit(s)
    BY <1>1, <1>2, <2>2 DEF SetLimit
  <2> QED BY <2>1, <2>2
<1>4. d = c \/ (d.at = c.at /\ d.options = c.options /\ d.limit = c.limit /\ d.j = c.j)
  BY <1>2, <1>3 DEF ActiveCall
<1>5. ToShow = Remains(c) /\ ToShow' = Remains(d)
  <2>1. ToShow' = Remains(call[Main])'
    BY DEF ToShow, Remains, ShownFrom
  <2> QED BY <1>1, <2>1, ToShowIs DEF Remains, ShownFrom
<1> QED BY <1>4, <1>5 DEF Remains

\* One sequence after the other
LEMMA ConcatIs ==
  ASSUME NEW S, NEW s \in Seq(S), NEW t \in Seq(S), NEW l, l = Len(s), NEW m, m = Len(t),
         NEW a, a = s \o t
  PROVE  /\ a \in Seq(S) /\ Len(a) = l + m
         /\ \A i \in 1..(l + m) : a[i] = IF i <= l THEN s[i] ELSE t[i - l]
<1>1. /\ s \o t \in Seq(S) /\ Len(s \o t) = Len(s) + Len(t)
      /\ \A i \in 1..(Len(s) + Len(t)) : (s \o t)[i] = IF i <= Len(s) THEN s[i] ELSE t[i - Len(s)]
  BY ConcatProperties
<1> QED BY <1>1

\* A line that is printed first is one of those that are repeated.
LEMMA RepeatedFirst ==
  ASSUME NEW p \in Text, NEW x \in STRING, NEW n \in Nat
  PROVE  (p \o <<x>>) \o Repeated(x, n) = p \o Repeated(x, n + 1)
<1>1. PICK y, r, s : y = <<x>> /\ r = Repeated(x, n) /\ s = Repeated(x, n + 1)
  OBVIOUS
<1>2. p \in Seq(STRING) /\ y \in Seq(STRING) /\ Len(y) = 1 /\ y[1] = x
  BY <1>1, OneElement DEF Text
<1>3. r \in Seq(STRING) /\ Len(r) = n
  BY <1>1, RepeatedIsText DEF Text
<1>4. s \in Seq(STRING) /\ Len(s) = n + 1
  <2>1. n + 1 \in Nat
    OBVIOUS
  <2> QED BY <1>1, <2>1, RepeatedIsText DEF Text
<1>5. (\A k \in 1..n : r[k] = x) /\ (\A k \in 1..(n + 1) : s[k] = x)
  BY <1>1 DEF Repeated
<1>6. PICK q : q = p \o y
  OBVIOUS
<1>7. PICK l : l = Len(p)
  OBVIOUS
<1>8. l \in Nat
  BY <1>2, <1>7
<1>9. /\ q \in Seq(STRING) /\ Len(q) = l + 1
      /\ \A k \in 1..(l + 1) : q[k] = IF k <= l THEN p[k] ELSE y[k - l]
  <2>1. PICK i : i = Len(y)
    OBVIOUS
  <2>2. p \in Seq(STRING) /\ y \in Seq(STRING) /\ l = Len(p) /\ q = p \o y
    BY <1>2, <1>6, <1>7
  <2>3. /\ q \in Seq(STRING) /\ Len(q) = l + i
        /\ \A k \in 1..(l + i) : q[k] = IF k <= l THEN p[k] ELSE y[k - l]
    BY <2>1, <2>2, ConcatIs
  <2> QED BY <1>2, <2>1, <2>3
<1>10. q[l + 1] = x
  <2>1. l + 1 \in 1..(l + 1) /\ ~(l + 1 <= l) /\ (l + 1) - l = 1
    BY <1>8
  <2> QED BY <1>2, <1>9, <2>1
<1>11. PICK a, b : a = q \o r /\ b = p \o s
  OBVIOUS
<1>12. /\ a \in Seq(STRING) /\ Len(a) = (l + 1) + n
       /\ \A k \in 1..((l + 1) + n) : a[k] = IF k <= l + 1 THEN q[k] ELSE r[k - (l + 1)]
  <2>1. PICK i : i = Len(q)
    OBVIOUS
  <2>2. q \in Seq(STRING) /\ r \in Seq(STRING) /\ n = Len(r) /\ a = q \o r
    BY <1>3, <1>9, <1>11
  <2>3. /\ a \in Seq(STRING) /\ Len(a) = i + n
        /\ \A k \in 1..(i + n) : a[k] = IF k <= i THEN q[k] ELSE r[k - i]
    BY <2>1, <2>2, ConcatIs
  <2> QED BY <1>9, <2>1, <2>3
<1>13. /\ b \in Seq(STRING) /\ Len(b) = l + (n + 1)
       /\ \A k \in 1..(l + (n + 1)) : b[k] = IF k <= l THEN p[k] ELSE s[k - l]
  <2>1. PICK i : i = Len(s)
    OBVIOUS
  <2>2. p \in Seq(STRING) /\ s \in Seq(STRING) /\ l = Len(p) /\ b = p \o s
    BY <1>2, <1>4, <1>7, <1>11
  <2>3. /\ b \in Seq(STRING) /\ Len(b) = l + i
        /\ \A k \in 1..(l + i) : b[k] = IF k <= l THEN p[k] ELSE s[k - l]
    BY <2>1, <2>2, ConcatIs
  <2> QED BY <1>4, <2>1, <2>3
<1>14. Len(a) = Len(b)
  BY <1>8, <1>12, <1>13
<1>15. ASSUME NEW k \in 1..Len(a) PROVE a[k] = b[k]
  <2>1. k \in Nat /\ k \in 1..((l + 1) + n) /\ k \in 1..(l + (n + 1)) /\ k >= 1
    BY <1>8, <1>12
  <2>2. CASE k <= l
    <3>1. k <= l + 1 /\ k \in 1..(l + 1)
      BY <1>8, <2>1, <2>2
    <3>2. a[k] = q[k] /\ q[k] = p[k]
      BY <1>9, <1>12, <2>1, <2>2, <3>1
    <3> QED BY <1>13, <2>1, <2>2, <3>2
  <2>3. CASE k = l + 1
    <3>1. k - l = 1 /\ 1 \in 1..(n + 1) /\ ~(k <= l) /\ k <= l + 1
      BY <1>8, <2>3
    <3>2. a[k] = x
      BY <1>10, <1>12, <2>1, <2>3, <3>1
    <3>3. b[k] = x
      BY <1>5, <1>13, <2>1, <3>1
    <3> QED BY <3>2, <3>3
  <2>4. CASE k > l + 1
    <3>1. k - (l + 1) \in 1..n /\ k - l \in 1..(n + 1) /\ ~(k <= l) /\ ~(k <= l + 1)
      BY <1>8, <2>1, <2>4
    <3>2. a[k] = x
      BY <1>5, <1>12, <2>1, <3>1
    <3>3. b[k] = x
      BY <1>5, <1>13, <2>1, <3>1
    <3> QED BY <3>2, <3>3
  <2> QED BY <1>8, <2>1, <2>2, <2>3, <2>4
<1>16. a = b
  BY <1>12, <1>13, <1>14, <1>15, SeqEqual
<1> QED BY <1>1, <1>6, <1>11, <1>16

\* Nothing printed
LEMMA PrintedNone ==
  ASSUME NEW st \in Outside
  PROVE  /\ Printing(st, <<>>) = st
         /\ \A x : Repeated(x, 0) = <<>>
<1>1. <<>> \in Text /\ st.printed \in Text
  BY DEF Text, Outside
<1>2. PICK t : t = Printing(st, <<>>)
  OBVIOUS
<1>3. /\ t \in Outside /\ (t.done <=> st.done) /\ t.printed = st.printed \o <<>>
      /\ t.disk = st.disk /\ (t.eof <=> st.eof)
  BY <1>1, <1>2, PrintingIs
<1>4. st.printed \o <<>> = st.printed
  BY <1>1 DEF Text
<1>5. t = st
  BY <1>3, <1>4, OutsideEqual
<1>6. ASSUME NEW x PROVE Repeated(x, 0) = <<>>
  BY DEF Repeated
<1> QED BY <1>2, <1>5, <1>6

\* ulimit begins ...
LEMMA UlimitBeginPlan ==
  ASSUME StackInv, StreamsInv, StreamsInv', UlimitInv, stack # <<>>, NEW w, IsPlan(w),
         UNCHANGED <<command, start>>, UlimitBegin
  PROVE  PlanInv'
<1>1. PICK n, f, o, c : n = Len(stack) /\ f = Top /\ o = Top.outer /\ c = Meaning[f.line]
  OBVIOUS
<1>2. At("ulimit", "begin") /\ UNCHANGED <<open, disk, eof, console>>
  BY DEF UlimitBegin
<1>3. /\ w[n] = Effect(f.line, Now(o)) /\ f.line \in Commands /\ c.op = "ulimit" /\ Command = c
      /\ f \in FrameType /\ f.outer = o
  BY <1>1, <1>2, BeginsAs
<1>4. w[n] = Printing(Now(o), Repeated(Shown, Shows(c.options, c.limit)))
  BY <1>1, <1>3 DEF Effect
<1>5. PICK k : k = Shows(c.options, c.limit)
  OBVIOUS
<1>6. ToShow' = k
  BY <1>3, <1>5, RemainsAll DEF UlimitBegin
<1>7. PICK g : g = [f EXCEPT !.at = "limits"]
  OBVIOUS
<1>8. stack' = Append(Front(stack), g)
  BY <1>1, <1>7 DEF UlimitBegin, Goto
<1>9. g \in FrameType /\ g.at = "limits" /\ g.outer = o
  BY <1>3, <1>7 DEF FrameType, Place
<1>10. Now(o)' = Now(o)
  BY <1>2 DEF Now, TextOf
<1>11. Leaves(n, g)' = Printing(Now(o)', Repeated(Shown, ToShow'))
  BY <1>9 DEF Leaves, Printing, Repeated
<1>12. Leaves(n, g)' = w[n]
  BY <1>4, <1>5, <1>6, <1>10, <1>11
<1> QED BY <1>1, <1>2, <1>8, <1>9, <1>12, PlanMoves

\* ... prints what it shows, one letter after the other ...
LEMMA UlimitLetterPlan ==
  ASSUME StackInv, StreamsInv, StreamsInv', UlimitInv, stack # <<>>, NEW w, IsPlan(w),
         UNCHANGED <<command, start>>, UlimitLetter
  PROVE  PlanInv'
<1>1. PICK n, f, o : n = Len(stack) /\ f = Top /\ o = Top.outer
  OBVIOUS
<1>2. At("ulimit", "limits") /\ UlimitStep(Main) /\ stack' = stack /\ UNCHANGED <<disk, eof>>
  BY DEF UlimitLetter
<1>3. /\ w[n] = Leaves(n, f) /\ f \in FrameType /\ FrameOK(f) /\ out = OutOf(f) /\ f.outer = o
      /\ o = Console \/ o \in DOMAIN open
  BY <1>1, TopLeaves
<1>4. f.at = "limits"
  BY <1>1, <1>2 DEF At
<1>5. out = o
  BY <1>3, <1>4 DEF OutOf, Redirects
<1>6. PICK a, k, l : a = (IF PrintsLine(Main) THEN <<Shown>> ELSE <<>>) /\ k = ToShow /\ l = ToShow'
  OBVIOUS
<1>7. k \in Nat /\ l \in Nat /\ k = l + (IF PrintsLine(Main) THEN 1 ELSE 0)
  BY <1>2, <1>6, RemainsFewer
<1>8. Shown \in STRING /\ a \in Text
  <2>1. Shown \in STRING
    BY RedirectAssumption
  <2>3. <<>> \in Text
    BY DEF Text
  <2>2. <<Shown>> \in Text
    BY <2>1, OneElement DEF Text
  <2> QED BY <1>6, <2>1, <2>2, <2>3
<1>9. Write(o, a)
  BY <1>5, <1>6 DEF UlimitLetter, Puts
<1>10. PICK st : st = Now(o)
  OBVIOUS
<1>11. st \in Outside /\ st.printed \in Text
  BY <1>3, <1>10, NowIs, OutsideBut
<1>12. Now(o)' = Printing(st, a)
  BY <1>2, <1>3, <1>8, <1>9, <1>10, NowPrinted
<1>13. Repeated(Shown, k) \in Text /\ Repeated(Shown, l) \in Text
  BY <1>7, <1>8, RepeatedIsText
<1>14. (st.printed \o a) \o Repeated(Shown, l) = st.printed \o Repeated(Shown, k)
  <2>1. CASE PrintsLine(Main)
    BY <1>6, <1>7, <1>8, <1>11, <2>1, RepeatedFirst
  <2>2. CASE ~PrintsLine(Main)
    <3>1. st.printed \o <<>> = st.printed
      BY <1>11 DEF Text
    <3>2. a = <<>>
      BY <1>6, <2>2
    <3>3. k = l + 0
      BY <1>7, <2>2
    <3>4. k = l
      BY <1>7, <3>3
    <3> QED BY <3>1, <3>2, <3>4
  <2> QED BY <2>1, <2>2
<1>15. Printing(Printing(st, a), Repeated(Shown, l)) = Printing(st, Repeated(Shown, k))
  <2>1. PICK x, y : x = Repeated(Shown, l) /\ y = Repeated(Shown, k)
    OBVIOUS
  <2>2. PICK s, t : s = Printing(st, a) /\ t = Printing(s, x)
    OBVIOUS
  <2>3. PICK u : u = Printing(st, y)
    OBVIOUS
  <2>4. x \in Text /\ y \in Text /\ (st.printed \o a) \o x = st.printed \o y
    BY <1>13, <1>14, <2>1
  <2>5. /\ s \in Outside /\ (s.done <=> st.done) /\ s.printed = st.printed \o a
        /\ s.disk = st.disk /\ (s.eof <=> st.eof)
    BY <1>8, <1>11, <2>2, PrintingIs
  <2>6. /\ t \in Outside /\ (t.done <=> s.done) /\ t.printed = s.printed \o x
        /\ t.disk = s.disk /\ (t.eof <=> s.eof)
    BY <2>2, <2>4, <2>5, PrintingIs
  <2>7. /\ u \in Outside /\ (u.done <=> st.done) /\ u.printed = st.printed \o y
        /\ u.disk = st.disk /\ (u.eof <=> st.eof)
    BY <1>11, <2>3, <2>4, PrintingIs
  <2>8. t = u
    BY <2>4, <2>5, <2>6, <2>7, OutsideEqual
  <2> QED BY <2>1, <2>2, <2>3, <2>8
<1>16. w[n] = Printing(st, Repeated(Shown, k))
  BY <1>3, <1>4, <1>6, <1>10 DEF Leaves
<1>17. Leaves(n, f)' = Printing(Now(o)', Repeated(Shown, ToShow'))
  BY <1>3, <1>4 DEF Leaves, Printing, Repeated
<1>18. Leaves(n, f)' = w[n]
  BY <1>6, <1>12, <1>15, <1>16, <1>17
<1>19. OthersKept
  BY <1>5, <1>9, OthersWritten
<1>20. IsPlan(w)'
  BY <1>1, <1>2, <1>18, <1>19, PlanStays
<1> QED BY <1>2, <1>20 DEF PlanInv

\* ... and returns when nothing is left to print.
LEMMA UlimitEndPlan ==
  ASSUME StackInv, StreamsInv, stack # <<>>, NEW w, IsPlan(w), UNCHANGED <<command, start>>, UlimitEnd
  PROVE  PlanInv'
<1>1. PICK n, f, o : n = Len(stack) /\ f = Top /\ o = Top.outer
  OBVIOUS
<1>2. At("ulimit", "limits") /\ call[Main].at = "done" /\ Leave /\ UNCHANGED <<open, disk, eof, console>>
  BY DEF UlimitEnd, UlimitReturn
<1>3. w[n] = Leaves(n, f) /\ f.at = "limits" /\ f.outer = o /\ Now(o) \in Outside
  BY <1>1, <1>2, TopLeaves DEF At, Known
<1>4. ToShow = 0
  BY <1>2 DEF ToShow
<1>5. w[n] = Printing(Now(o), Repeated(Shown, 0))
  BY <1>3, <1>4 DEF Leaves
<1>6. w[n] = Now(o)
  BY <1>3, <1>5, PrintedNone
<1> QED BY <1>1, <1>2, <1>6, PlanLeaves

\* sleep begins.
LEMMA SleepPlan ==
  ASSUME StackInv, StreamsInv, stack # <<>>, NEW w, IsPlan(w), UNCHANGED <<command, start>>, SleepFunc
  PROVE  PlanInv'
<1>1. PICK n, f, o, c : n = Len(stack) /\ f = Top /\ o = Top.outer /\ c = Meaning[f.line]
  OBVIOUS
<1>2. At("sleep", "begin") /\ UNCHANGED <<open, disk, eof, console>>
  BY DEF SleepFunc, streamsOnly
<1>3. w[n] = Effect(f.line, Now(o)) /\ f.line \in Commands /\ c.op = "sleep" /\ f \in FrameType /\ f.outer = o
  BY <1>1, <1>2, BeginsAs
<1>4. w[n] = Now(o)
  BY <1>1, <1>3 DEF Effect
<1>5. PICK g : g = [f EXCEPT !.at = "sleeping"]
  OBVIOUS
<1>6. stack' = Append(Front(stack), g)
  BY <1>1, <1>5 DEF SleepFunc, Goto
<1>7. g \in FrameType /\ g.at = "sleeping" /\ g.outer = o
  BY <1>3, <1>5 DEF FrameType, Place
<1>8. Now(o)' = Now(o)
  BY <1>2 DEF Now, TextOf
<1>9. Leaves(n, g)' = Now(o)'
  BY <1>7 DEF Leaves
<1>10. Leaves(n, g)' = w[n]
  BY <1>4, <1>8, <1>9
<1> QED BY <1>1, <1>2, <1>6, <1>7, <1>10, PlanMoves

-----------------------------------------------------------------------------
(* The plan is kept.                                                       *)

\* A line that is typed makes a plan.
LEMMA TypePlan ==
  ASSUME StackInv, StreamsInv, NEW line \in STRING, Type(line)
  PROVE  PlanInv'
<1>1. /\ stack = <<>> /\ stack' = <<Frame(line, out)>> /\ console' = <<>> /\ command' = line
      /\ start' = [disk |-> disk, eof |-> eof] /\ UNCHANGED <<out, open, disk, eof>>
  BY DEF Type
<1>2. out = Console
  BY <1>1 DEF StackInv, StackOK
<1>3. PICK f, n : f = Frame(line, Console) /\ n = 1
  OBVIOUS
<1>4. f.at = "begin" /\ f.line = line /\ f.outer = Console
  BY <1>3 DEF Frame
<1>5. stack' = <<f>> /\ Len(stack') = n /\ Top' = f /\ stack' # <<>>
  BY <1>1, <1>2, <1>3 DEF Top, Last
<1>6. PICK st : st = [done |-> TRUE, printed |-> <<>>, disk |-> disk, eof |-> eof]
  OBVIOUS
<1>7. st \in Outside
  <2>1. <<>> \in Text
    BY DEF Text
  <2> QED BY <1>6, <2>1 DEF Outside, StreamsInv
<1>8. Now(Console)' = st
  BY <1>1, <1>6 DEF Now, TextOf
<1>9. Outcome' = Promised(MaxDepth, line, st)
  <2>1. start'.disk = disk /\ start'.eof = eof
    BY <1>1
  <2> QED BY <1>1, <1>6, <2>1 DEF Outcome
<1>10. PICK x : x = Outcome'
  OBVIOUS
<1>11. CASE x.done
  <2>1. x \in Known
    BY <1>7, <1>9, <1>10, <1>11, PromisedIsOutside DEF Known
  <2>2. PICK w : w = [k \in Nat |-> x]
    OBVIOUS
  <2>3. w \in [Nat -> Known] /\ w[n] = x /\ w[1] = x
    BY <1>3, <2>1, <2>2
  <2>4. Leaves(n, f)' = Promised(Fuel(n), line, st)
    BY <1>4, <1>8 DEF Leaves
  <2>5. Fuel(n) = MaxDepth
    BY <1>3, PromiseAssumption DEF Fuel
  <2>6. w[n] = Leaves(n, Top)'
    BY <1>5, <1>9, <1>10, <2>3, <2>4, <2>5
  <2>7. \A k \in 1..(n - 1) : FALSE
    BY <1>3
  <2>8. IsPlan(w)'
    BY <1>5, <1>10, <2>3, <2>6, <2>7 DEF IsPlan
  <2> QED BY <1>5, <2>8 DEF PlanInv
<1>12. CASE ~x.done
  BY <1>10, <1>12 DEF PlanInv
<1> QED BY <1>11, <1>12

\* When nothing of the streams changes, the outside stays as it is.
LEMMA AlikeStays ==
  ASSUME UNCHANGED <<command, start, open, disk, eof, console>>, Alike(Now(Console))
  PROVE  Alike(Now(Console))'
<1>1. Now(Console)' = Now(Console)
  BY DEF Now, TextOf
<1>2. Outcome' = Outcome
  BY OutcomeStays
<1> QED BY <1>1, <1>2 DEF Alike

\* Where all calls only have to return, they do.
LEMMA EndingPlan ==
  ASSUME StackInv, StreamsInv, stack # <<>>, Ending, UNCHANGED <<command, start>>, CallStep
  PROVE  PlanInv'
<1>1. /\ Len(stack) \in Nat \ {0} /\ stack' = Front(stack) => Len(stack') = Len(stack) - 1
      /\ Top = stack[Len(stack)] /\ FrameOK(Top)
      /\ \A k \in 1..(Len(stack) - 1) : Front(stack)[k] = stack[k]
  BY AroundTop, TopIs DEF StackInv, Top
<1>2. Top.at = "end"
  BY <1>1 DEF Ending
<1>3. Top.line \in Commands /\ Command.op = "eval"
  BY <1>1, <1>2 DEF FrameOK, Op, Command
<1>4. EvalEnd
  BY <1>2, <1>3 DEF CallStep, Return, Unknown, EvalTooLong, SleepRefused, EvalEnd, EchoFunc, ExecFunc,
       EvalCapture, EvalRestore, EvalOutput, ListRecordsOpen, ListRecordsDbl, ListRecordsClose,
       CpSource, CpTarget, CpCopy, CpClose, UlimitBegin, UlimitLetter, UlimitEnd,
       SleepFunc, SleepTick, SleepEnd, At
<1>5. stack' = Front(stack) /\ UNCHANGED <<open, disk, eof, console>>
  BY <1>4 DEF EvalEnd, Leave
<1>6. Alike(Now(Console))'
  BY <1>5, AlikeStays DEF Ending
<1>7. \A k \in 1..Len(stack') : stack'[k].at = "end"
  <2>1. Len(stack') = Len(stack) - 1
    BY <1>1, <1>5
  <2>2. \A k \in 1..(Len(stack) - 1) : k \in 1..Len(stack)
    BY <1>1
  <2> QED BY <1>1, <1>5, <2>1, <2>2 DEF Ending
<1> QED BY <1>6, <1>7 DEF PlanInv, Ending

\* A step of something else leaves the plan as it is.
LEMMA PlanKeeps ==
  ASSUME StackInv, PlanInv, UNCHANGED <<command, start>>, short => short', refused => refused',
         UNCHANGED <<stack, open, disk, eof, console>>, ToShow' = ToShow
  PROVE  PlanInv'
<1>1. Outcome' = Outcome
  BY OutcomeStays
<1>2. SUFFICES ASSUME ~short, ~refused, Outcome.done PROVE PlanInv'
  BY <1>1 DEF PlanInv
<1>3. CASE stack = <<>>
  BY <1>2, <1>3, AlikeStays DEF PlanInv
<1>4. CASE stack # <<>> /\ Ending
  <2>1. Ending'
    BY <1>4, AlikeStays DEF Ending
  <2> QED BY <1>4, <2>1 DEF PlanInv
<1>5. ASSUME stack # <<>>, NEW w, IsPlan(w) PROVE PlanInv'
  <2>1. PICK n, f : n = Len(stack) /\ f = Top
    OBVIOUS
  <2>2. OthersKept
    BY DEF OthersKept, TextOf
  <2>3. Leaves(n, f)' = Leaves(n, f)
    BY DEF Leaves, Now, TextOf, Copying, SourceOf, AfterCall, Follow
  <2>4. w[n] = Leaves(n, f)
    BY <1>5, <2>1 DEF IsPlan
  <2>5. IsPlan(w)'
    BY <1>5, <2>1, <2>2, <2>3, <2>4, PlanStays
  <2> QED BY <1>5, <2>5 DEF PlanInv
<1> QED BY <1>2, <1>3, <1>4, <1>5 DEF PlanInv

\* Each step of a command
LEMMA CallPlan ==
  ASSUME StackInv, StreamsInv, StreamsInv', UlimitInv, stack # <<>>, NEW w, IsPlan(w), Run,
         ~short', ~refused', PlanInv
  PROVE  PlanInv'
<1>1. UNCHANGED <<command, start>> /\ CallStep
  BY DEF Run
<1>2. /\ At("cp", "begin") => ~Opens(Command.source)
      /\ At("cp", "target") => ~Opens(Command.target)
      /\ At("listRecords", "begin") => ~Opens(Command.file)
      /\ At("exec", "begin") => (Top.line \notin Long => out = Console)
      /\ At("cp", "copy") => ~TargetFails
      /\ ~short /\ ~refused
  BY DEF Run
<1>3. CASE Return \/ SleepEnd
  BY <1>1, <1>3, ReturnPlan
<1>4. CASE EchoFunc
  BY <1>1, <1>4, EchoPlan
<1>5. CASE ExecFunc
  <2>1. At("exec", "begin")
    BY <1>5 DEF ExecFunc
  <2> QED BY <1>1, <1>2, <1>5, <2>1, ExecPlan
<1>6. CASE EvalCapture
  BY <1>1, <1>6, EvalCapturePlan
<1>7. CASE EvalRestore
  BY <1>1, <1>7, EvalRestorePlan
<1>8. CASE EvalOutput
  BY <1>1, <1>8, EvalOutputPlan
<1>9. CASE ListRecordsOpen
  <2>1. At("listRecords", "begin")
    BY <1>9 DEF ListRecordsOpen
  <2> QED BY <1>1, <1>2, <1>9, <2>1, ListRecordsOpenPlan
<1>10. CASE ListRecordsDbl
  BY <1>1, <1>10, ListRecordsDblPlan
<1>11. CASE ListRecordsClose
  BY <1>1, <1>11, ListRecordsClosePlan
<1>12. CASE CpSource
  <2>1. At("cp", "begin")
    BY <1>12 DEF CpSource
  <2> QED BY <1>1, <1>2, <1>12, <2>1, CpSourcePlan
<1>13. CASE CpTarget
  <2>1. At("cp", "target")
    BY <1>13 DEF CpTarget
  <2> QED BY <1>1, <1>2, <1>13, <2>1, CpTargetPlan
<1>14. CASE CpCopy
  <2>1. At("cp", "copy")
    BY <1>14 DEF CpCopy
  <2> QED BY <1>1, <1>2, <1>14, <2>1, CpCopyPlan
<1>15. CASE CpClose
  BY <1>1, <1>15, CpClosePlan
<1>16. CASE UlimitBegin
  BY <1>1, <1>16, UlimitBeginPlan
<1>17. CASE UlimitLetter
  BY <1>1, <1>17, UlimitLetterPlan
<1>18. CASE UlimitEnd
  BY <1>1, <1>18, UlimitEndPlan
<1>19. CASE SleepFunc
  BY <1>1, <1>19, SleepPlan
<1>20. CASE SleepTick
  <2>1. UNCHANGED <<stack, open, disk, eof, console, call>>
    BY <1>20 DEF SleepTick, streamsOnly, limitVars
  <2>2. ToShow' = ToShow
    BY <2>1 DEF ToShow
  <2>3. (short => short') /\ (refused => refused')
    BY DEF Run
  <2> QED BY <1>1, <2>1, <2>2, <2>3, PlanKeeps
<1> QED BY <1>1, <1>3, <1>4, <1>5, <1>6, <1>7, <1>8, <1>9, <1>10, <1>11, <1>12, <1>13, <1>14,
           <1>15, <1>16, <1>17, <1>18, <1>19, <1>20 DEF CallStep

\* Every step
LEMMA PlanKept ==
  ASSUME session \in Sessions, StackInv, StreamsInv, StreamsInv', UlimitInv, PlanInv, [Next]_vars
  PROVE  PlanInv'
<1>1. ASSUME NEW line \in session.lines, Type(line) PROVE PlanInv'
  BY <1>1, ShellAssumption, TypePlan
<1>2. CASE Run
  <2>1. UNCHANGED <<command, start>> /\ CallStep /\ stack # <<>>
    BY <1>2 DEF Run, CallStep, Return, Unknown, EvalTooLong, SleepRefused, EvalEnd, EchoFunc, ExecFunc,
       EvalCapture, EvalRestore, EvalOutput, ListRecordsOpen, ListRecordsDbl, ListRecordsClose,
       CpSource, CpTarget, CpCopy, CpClose, UlimitBegin, UlimitLetter, UlimitEnd,
       SleepFunc, SleepTick, SleepEnd, At
  <2>2. Outcome' = Outcome
    BY <2>1, OutcomeStays
  <2>3. CASE ~short' /\ ~refused' /\ Outcome.done
    <3>1. ~short /\ ~refused
      BY <1>2, <2>3 DEF Run
    <3>2. Ending \/ \E w : IsPlan(w)
      BY <2>1, <2>3, <3>1 DEF PlanInv
    <3>3. CASE Ending
      BY <2>1, <3>3, EndingPlan
    <3>4. ASSUME NEW w, IsPlan(w) PROVE PlanInv'
      BY <1>2, <2>1, <2>3, <3>4, CallPlan
    <3> QED BY <3>2, <3>3, <3>4
  <2>4. CASE ~(~short' /\ ~refused' /\ Outcome.done)
    BY <2>2, <2>4 DEF PlanInv
  <2> QED BY <2>3, <2>4
<1>3. CASE UNCHANGED vars \/ Signal
  <2>1. UNCHANGED <<command, start, short, refused, stack, open, disk, eof, console, call>>
    BY <1>3 DEF Signal, SleepAgain, vars, limitVars, streamVars, historyVars, streamsOnly
  <2>2. ToShow' = ToShow
    BY <2>1 DEF ToShow
  <2> QED BY <2>1, <2>2, PlanKeeps
<1>4. ASSUME NEW s \in Shells \ {Main}, Peer(s) PROVE PlanInv'
  <2>1. UNCHANGED <<command, start, short, refused, stack, open, disk, eof, console>>
    BY <1>4 DEF Peer, streamVars, historyVars
  <2>2. \/ \E options, limit : UlimitFunc(s, options, limit)
        \/ UlimitStep(s) \/ UlimitReturn(s)
    BY <1>4 DEF Peer
  <2>3. ToShow' = ToShow
    BY <2>2, RemainsSame
  <2> QED BY <2>1, <2>3, PlanKeeps
<1> QED BY <1>1, <1>2, <1>3, <1>4 DEF Next

\* What was typed does what it promises, at any depth of evals, for any files
\* and limits, and whatever other shells do: a command that has returned has
\* printed what the commands it stands for print, and has written the files
\* they write, and no others.
THEOREM PromiseCorrect == Spec => []CommandsKeepPromise
<1>1. Init => PlanInv
  BY DEF Init, PlanInv
<1>2. ShellInv /\ UlimitInv /\ PlanInv /\ [Next]_vars /\ ShellInv' => PlanInv'
  BY PlanKept DEF ShellInv
<1>3. PlanInv => CommandsKeepPromise
  <2> SUFFICES ASSUME stack = <<>>, command # None, Alike(Now(Console)) PROVE KeepsPromise
    BY DEF PlanInv, CommandsKeepPromise
  <2>1. Now(Console).printed = console /\ Now(Console).disk = disk /\ Now(Console).eof = eof
    BY DEF Now, TextOf
  <2> QED BY <2>1 DEF Alike, KeepsPromise
<1>4. Spec => []UlimitInv
  BY ShellsSetLimits, InvHolds, PTL
<1> QED BY <1>1, <1>2, <1>3, <1>4, ShellInvHolds, PTL DEF Spec
=============================================================================
