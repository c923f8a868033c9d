------------------------------- MODULE Ulimit -------------------------------
(***************************************************************************)
(* ulimit.c: the shell function ulimit [-options] [limit], which reads and *)
(* sets the limits of the process one option letter after the other.  Each *)
(* shell has a thread; the limits belong to all of them.                   *)
(***************************************************************************)
EXTENDS Integers, Sequences

CONSTANTS
  Shells,       \* threads that run a shell
  Resources,    \* the option letters of the limits this system has
  Unit,         \* [Resources -> Nat]: what a limit is given in, 1 << shift
  RlimValues    \* the number of values of rlim_t, 2^64

ASSUME UlimitAssumption ==
  /\ {"f", "n"} \subseteq Resources /\ Resources \subseteq STRING \ {"S", "H", "a"}
  /\ Unit \in [Resources -> Nat] /\ RlimValues \in Nat \ {0}

VARIABLES
  limits,     \* [Resources -> [cur, max]]: the limits of the process
  root,       \* the process may raise its hard limits
  call        \* [Shells -> the active call, or NoUlimit]

limitVars == <<limits, root, call>>

RLIM_INFINITY == RlimValues - 1
Rlimit == {l \in [cur : 0..RLIM_INFINITY, max : 0..RLIM_INFINITY] : l.cur <= l.max}

NoUlimit == [at |-> "none"]

\* The argument limit: "missing", a "number", "unlimited", or anything else
LimitArgs == [kind : {"missing", "number", "unlimited", "bad"}, n : Nat]
Limit(kind, n) == [kind |-> kind, n |-> n]

Letters(options) == {options[k] : k \in 1..Len(options)}

-----------------------------------------------------------------------------
\* Soft, hard or both: soft when neither is given.
Which(options) ==
  IF {"S", "H"} \cap Letters(options) = {} THEN {"S"} ELSE {"S", "H"} \cap Letters(options)

\* No letter but S and H, each counted once: the file size.
Selected(options) ==
  IF /\ Letters(options) \subseteq {"S", "H"}
     /\ \A j, k \in 1..Len(options) : options[j] = options[k] => j = k
  THEN <<"f">> ELSE options

\* -a shows all limits and sets none, whatever else is given.
UlimitFunc(s, options, limit) ==
  call' = [call EXCEPT ![s] =
    [at |-> IF "a" \in Letters(options) THEN "all" ELSE "option",
     which |-> Which(options), options |-> Selected(options), limit |-> limit,
     j |-> 1, got |-> [r \in Resources |-> [cur |-> 0, max |-> 0]], disturbed |-> {}]]

Asks(s) == call[s].options[call[s].j]

\* In these steps the limits of a letter are printed, or of all letters.
PrintsLine(s) ==
  \/ call[s].at = "all"
  \/ /\ call[s].at = "option" /\ call[s].j <= Len(call[s].options)
     /\ Asks(s) \in Resources /\ call[s].limit.kind = "missing"

ShowAll(s) ==
  /\ call[s].at = "all"
  /\ call' = [call EXCEPT ![s].at = "done"]
  /\ UNCHANGED <<limits, root>>

\* getrlimit fills in both limits of the letter.
Getrlimit(s) ==
  [call[s] EXCEPT !.got = [call[s].got EXCEPT ![Asks(s)] = limits[Asks(s)]],
                  !.disturbed = call[s].disturbed \ {Asks(s)}]

\* The next letter: S, H and unknown ones are skipped, the limits of others
\* are read, and shown when there is no new one.  What is not a number ends
\* the call.
AfterOption(s) ==
  IF call[s].j > Len(call[s].options) THEN [call[s] EXCEPT !.at = "done"]
  ELSE IF Asks(s) \notin Resources THEN [call[s] EXCEPT !.j = call[s].j + 1]
  ELSE CASE call[s].limit.kind = "missing" -> [Getrlimit(s) EXCEPT !.j = call[s].j + 1]
         [] call[s].limit.kind = "bad" -> [Getrlimit(s) EXCEPT !.at = "done"]
         [] OTHER -> [Getrlimit(s) EXCEPT !.at = "set"]

NextOption(s) ==
  /\ call[s].at = "option"
  /\ call' = [call EXCEPT ![s] = AfterOption(s)]
  /\ UNCHANGED <<limits, root>>

\* strtoul takes what is too large for the largest number.
Parsed(n) == IF n >= RlimValues THEN RlimValues - 1 ELSE n

\* The number is shifted to bytes in rlim_t and loses the bits that do not fit.
Newlimit(limit, r) ==
  IF limit.kind = "unlimited" THEN RLIM_INFINITY ELSE (Parsed(limit.n) * Unit[r]) % RlimValues

\* What the kernel accepts
Setrlimit(old, new) == new.cur <= new.max /\ (root \/ new.max <= old.max)

\* Mutant: the structure of the option before is filled in again.
ReusedRlimit(s) ==
  LET new == Newlimit(call[s].limit, Asks(s))
      of == IF call[s].options[1] \in Resources THEN call[s].options[1] ELSE Asks(s)
  IN  [cur |-> IF "S" \in call[s].which THEN new ELSE call[s].got[of].cur,
       max |-> IF "H" \in call[s].which THEN new ELSE call[s].got[of].max]

\* The limits that were read, with one or both replaced
Replaced(s) ==
  LET new == Newlimit(call[s].limit, Asks(s))
  IN  [cur |-> IF "S" \in call[s].which THEN new ELSE call[s].got[Asks(s)].cur,
       max |-> IF "H" \in call[s].which THEN new ELSE call[s].got[Asks(s)].max]

\* A failure ends the call with the letters behind it still to do.  disturbed
\* is history: what others have set since this call read it.
SetLimit(s) ==
  /\ call[s].at = "set"
  /\ IF Setrlimit(limits[Asks(s)], Replaced(s))
     THEN /\ limits' = [limits EXCEPT ![Asks(s)] = Replaced(s)]
          /\ call' = [t \in Shells |->
               IF t = s THEN [call[t] EXCEPT !.j = @ + 1, !.at = "option"]
               ELSE IF call[t] = NoUlimit THEN NoUlimit
               ELSE [call[t] EXCEPT !.disturbed = @ \cup {Asks(s)}]]
     ELSE call' = [call EXCEPT ![s].at = "done"] /\ UNCHANGED limits
  /\ UNCHANGED root

UlimitReturn(s) ==
  /\ call[s].at = "done"
  /\ call' = [call EXCEPT ![s] = NoUlimit]
  /\ UNCHANGED <<limits, root>>

UlimitStep(s) == ShowAll(s) \/ NextOption(s) \/ SetLimit(s)

-----------------------------------------------------------------------------
(* Properties.                                                             *)

UlimitTypeOK ==
  /\ limits \in [Resources -> Rlimit]
  /\ \A s \in Shells : call[s].at \in {"none", "all", "option", "set", "done"}

Overflows(limit, r) == limit.n * Unit[r] >= RlimValues
Wanted(limit, r) == IF limit.kind = "unlimited" THEN RLIM_INFINITY ELSE limit.n * Unit[r]

\* Between reading and writing nothing is lost that others do not set just then.
ReadIsCurrent ==
  \A s \in Shells :
    call[s].at = "set" /\ Asks(s) \notin call[s].disturbed =>
      call[s].got[Asks(s)] = limits[Asks(s)]

\* The limit of a letter that has been passed and does not come again
Kept(s, k) ==
  LET r == call[s].options[k]
      asked == Wanted(call[s].limit, r)
      got == call[s].got[r]
  IN  /\ r \in Resources \ call[s].disturbed
      /\ ~Overflows(call[s].limit, r)
      /\ \A i \in (k + 1)..Len(call[s].options) : call[s].options[i] # r
      => /\ limits[r].cur = IF "S" \in call[s].which THEN asked ELSE got.cur
         /\ limits[r].max = IF "H" \in call[s].which THEN asked ELSE got.max

\* ulimit "set system limits" (README:50): every letter it has passed has the
\* limit that was asked for, soft or hard as asked, and the other one as it
\* was - also when a later letter fails and the call ends half done, and when
\* another shell sets other limits or set this one before.  Not so for a
\* number that overflows, nor when others set the same limit at the same time.
LimitsAsAsked ==
  /\ ReadIsCurrent
  /\ \A s \in Shells :
       call[s] # NoUlimit /\ call[s].limit.kind \in {"number", "unlimited"} /\ call[s].at # "all" =>
         \A k \in 1..(call[s].j - 1) : Kept(s, k)
=============================================================================
