------------------------------ MODULE Threads ------------------------------
(***************************************************************************)
(* threads.c: the shell functions epicsThreadSetPriority,                  *)
(* epicsThreadGetAffinity and epicsThreadSetAffinity, called from one or   *)
(* more shells.  A shell is a thread; calls into base and the kernel are   *)
(* separate steps.                                                         *)
(***************************************************************************)
EXTENDS Integers, Sequences

CONSTANTS
  Thread, Shell,
  Names,          \* names and numbers of threads the user gives; others are unknown
  Numbered,       \* [numbers -> Thread]: the threads they are the ids of
  Lists,          \* affinity lists the user gives
  Prios,          \* priorities the user gives, see StrToPrio
  Diffs,
  NCpu            \* CPU_SETSIZE

Cpu == 0..(NCpu - 1)
MinPrio == 0
MaxPrio == 100

ASSUME ThreadsAssumption ==
  /\ Shell \subseteq Thread
  /\ Numbered \in [DOMAIN Numbered -> Thread]
  /\ NCpu \in Nat \ {0}
  /\ Diffs \subseteq Int
  /\ Lists \subseteq Seq([sign : {"", "+", "-"}, first : Nat, last : Int]) \ {<<>>}
  /\ \A prio \in Prios :
       /\ prio.kind \in {"number", "level", "thread"}
       /\ prio.kind = "number" => prio.value \in Int
       /\ prio.kind = "level" => prio.value \in MinPrio..MaxPrio

VARIABLES
  affinity,    \* thread -> its CPUs (kernel)
  priority,    \* thread -> its priority
  errVerbose,  \* global of base
  call,        \* shell -> the call it executes, see Idle
  printed,     \* what epicsThreadPrintAffinityList printed last, and of what set
  overlapped   \* history: two shells have been in calls at the same time

vars == <<affinity, priority, errVerbose, call, printed, overlapped>>

Idle == [pc |-> "idle"]

-----------------------------------------------------------------------------
(* Affinity lists: elements with an optional sign and a range.  A list     *)
(* that ends in a separator has an empty last element, or only a sign.     *)

Element(sign, first, last) == [sign |-> sign, first |-> first, last |-> last]
Empty == Element("", 0, -1)
HasNumber(element) == element.last # -1

\* Mutant: ranges are printed without their last CPU.
RangeShort(cpuset, first) ==
  CHOOSE last \in first..(NCpu - 1) :
    /\ first..last \subseteq cpuset
    /\ last + 1 \notin cpuset \/ (last = first + 1 /\ last + 2 \notin cpuset)

RangeFrom(cpuset, first) ==
  CHOOSE last \in first..(NCpu - 1) : first..last \subseteq cpuset /\ last + 1 \notin cpuset

StartsRun(cpuset, cpu) == cpu \in cpuset /\ cpu - 1 \notin cpuset
RunAt(cpuset, cpu) == Element("", cpu, RangeFrom(cpuset, cpu))

\* The runs of consecutive CPUs in ascending order: the list after n CPUs
PrintAffinityList(cpuset) ==
  LET list[n \in 0..NCpu] ==
        IF n = 0 THEN <<>>
        ELSE LET before == list[n - 1]
             IN  IF StartsRun(cpuset, n - 1) THEN Append(before, RunAt(cpuset, n - 1)) ELSE before
  IN  list[NCpu]

Effect(sign, range, cpuset) == IF sign = "-" THEN cpuset \ range ELSE cpuset \cup range

\* The CPUs element number k stands for.  At the end of the string scanf
\* returns EOF, which counts as success: a last element without number repeats the
\* first CPU of the element before it, or takes any number from the stack if
\* there is none.
Ranges(cpulist, k) ==
  IF k < Len(cpulist) \/ HasNumber(cpulist[k])
  THEN {(cpulist[k].first..cpulist[k].last) \cap Cpu}
  ELSE LET numbers == {j \in 1..(k - 1) : HasNumber(cpulist[j])}
       IN  IF numbers = {} THEN {{}} \cup {{cpu} : cpu \in Cpu}
           ELSE {{cpulist[CHOOSE j \in numbers : \A i \in numbers : i <= j].first} \cap Cpu}

\* What an element makes of a sign and a set: the sign of an element stays for
\* the elements after it, unless it is not kept.
After(element, p, kept, range) ==
  LET old == IF kept THEN p.sign ELSE ""
      sign == IF element.sign = "" THEN old ELSE element.sign
  IN  [sign |-> sign, set |-> Effect(sign, range, p.set)]

\* The separator, stored with its terminating zero into one char, may
\* overwrite the sign.
Applied(cpulist, k, results) ==
  {After(cpulist[k], p, kept, range) :
     p \in results, kept \in BOOLEAN, range \in Ranges(cpulist, k)}

\* All results a build can give
ParseAffinityList(cpulist, cpuset) ==
  LET start == {[sign |-> "", set |-> IF cpulist[1].sign = "" THEN {} ELSE cpuset]}
      run[k \in 0..Len(cpulist)] ==
        IF k = 0 THEN start ELSE LET results == run[k - 1] IN Applied(cpulist, k, results)
  IN  {p.set : p \in run[Len(cpulist)]}

-----------------------------------------------------------------------------
(* Priorities.                                                             *)

Step == 2       \* external: distance of the levels of the POSIX scheduler

\* External: unchanged if there is no level below, above
LevelBelow(p) == IF p - Step < 0 THEN p ELSE p - Step
LevelAbove(p) == IF p + Step > 99 THEN p ELSE p + Step

\* The two loops of epicsThreadStrToPrio on a pair of priority and diff
Lower(q) ==
  IF q[2] < 0 /\ q[1] > MinPrio THEN <<LevelBelow(q[1]), q[2] + 1>> ELSE q

Raise(q) ==
  IF q[2] > 0 /\ q[1] < MaxPrio THEN <<LevelAbove(q[1]), q[2] - 1>> ELSE q

Lowered(q, turns) ==
  LET down[k \in 0..turns] == IF k = 0 THEN q ELSE LET r == down[k - 1] IN Lower(r)
  IN  down[turns]

Raised(q, turns) ==
  LET up[k \in 0..turns] == IF k = 0 THEN q ELSE LET r == up[k - 1] IN Raise(r)
  IN  up[turns]

\* The test that ends the first loop counts diff up once more.
Shifted(p, diff) ==
  LET turns == IF diff < 0 THEN -diff ELSE diff + 1
      q == Lowered(<<p, diff>>, turns)
  IN  Raised(<<q[1], q[2] + 1>>, turns)[1]

\* Mutant: numbers are not checked.
StrToPrioUnchecked(prio, diff) ==
  CASE prio.kind = "number" -> prio.value
    [] prio.kind = "level" -> Shifted(prio.value, diff)
    [] prio.kind = "thread" -> IF prio.value \in Thread THEN Shifted(priority[prio.value], diff)
                                                       ELSE -1

\* prio is [kind, value]: a number; a name with the priority it stands for;
\* the name of a thread, whose priority is taken; anything else.
StrToPrio(prio, diff) ==
  CASE prio.kind = "number" -> IF prio.value \in MinPrio..MaxPrio THEN prio.value ELSE -1
    [] prio.kind = "level" -> Shifted(prio.value, diff)
    [] prio.kind = "thread" -> IF prio.value \in Thread THEN Shifted(priority[prio.value], diff)
                                                       ELSE -1

-----------------------------------------------------------------------------
(* The calls.                                                              *)

Init ==
  /\ affinity = [t \in Thread |-> Cpu]
  /\ priority = [t \in Thread |-> 50]
  /\ errVerbose = 0
  /\ call = [sh \in Shell |-> Idle]
  /\ printed = [list |-> PrintAffinityList(Cpu), set |-> Cpu]
  /\ overlapped = FALSE

\* A call begins at pc with the given locals.
Begins(sh, locals) ==
  /\ call' = [call EXCEPT ![sh] = locals]
  /\ overlapped' = (overlapped \/ \E o \in Shell : call[o] # Idle)

GoesOn(sh, from, to) ==
  /\ call[sh].pc = from
  /\ call' = [call EXCEPT ![sh].pc = to]
  /\ UNCHANGED overlapped

Returns(sh, from) ==
  /\ call[sh].pc = from
  /\ call' = [call EXCEPT ![sh] = Idle]
  /\ UNCHANGED overlapped

\* Mutant: the calling thread is meant, whatever name is given.
AlwaysCaller(sh, name) == sh

\* A number is taken for an id, whatever it is; anything else is looked up.
IsFound(name) == name \in Thread \cup DOMAIN Numbered
Id(name) == IF name \in DOMAIN Numbered THEN Numbered[name] ELSE name

\* epicsThreadGetAffinity and epicsThreadSetAffinity take NULL, which is
\* what the lookup gives for an unknown name, for the calling thread.
Target(sh, name) == IF IsFound(name) THEN Id(name) ELSE sh

Show(cpuset) == printed' = [list |-> PrintAffinityList(cpuset), set |-> cpuset]

GetAffinityFunc(sh, name) ==
  /\ Show(affinity[Target(sh, name)])
  /\ UNCHANGED <<affinity, priority, errVerbose, call, overlapped>>

\* The affinity is read and the list applied to the copy ...
SetAffinityFunc(sh, name, cpulist) ==
  /\ \E cpuset \in ParseAffinityList(cpulist, affinity[Target(sh, name)]) :
       Begins(sh, [pc |-> "set", name |-> name, list |-> cpulist, cpuset |-> cpuset,
                   before |-> affinity])
  /\ UNCHANGED <<affinity, priority, errVerbose, printed>>

\* ... the copy written back (the kernel refuses an empty set) ...
SetAffinity(sh) ==
  /\ call[sh].pc = "set"
  /\ IF call[sh].cpuset = {} THEN Returns(sh, "set") /\ UNCHANGED affinity
     ELSE /\ affinity' = [affinity EXCEPT ![Target(sh, call[sh].name)] = call[sh].cpuset]
          /\ GoesOn(sh, "set", "print")
  /\ UNCHANGED <<priority, errVerbose, printed>>

\* ... and what the kernel made of it read and printed.
PrintAffinity(sh) ==
  /\ Returns(sh, "print")
  /\ Show(affinity[Target(sh, call[sh].name)])
  /\ UNCHANGED <<affinity, priority, errVerbose>>

\* errVerbose is saved first; unknown threads and priorities end the call.
SetPriorityFunc(sh, name, prio, diff) ==
  /\ IsFound(name)
  /\ StrToPrio(prio, diff) >= 0
  /\ Begins(sh, [pc |-> "verbose", name |-> Id(name), prio |-> prio, diff |-> diff,
                 old |-> errVerbose, new |-> StrToPrio(prio, diff)])
  /\ UNCHANGED <<affinity, priority, errVerbose, printed>>

SetVerbose(sh) ==
  /\ GoesOn(sh, "verbose", "priority")
  /\ errVerbose' = 1
  /\ UNCHANGED <<affinity, priority, printed>>

SetPriority(sh) ==
  /\ GoesOn(sh, "priority", "restore")
  /\ priority' = [priority EXCEPT ![call[sh].name] = call[sh].new]
  /\ UNCHANGED <<affinity, errVerbose, printed>>

\* Mutant: errVerbose is not restored.
ForgetVerbose(sh) ==
  /\ Returns(sh, "restore")
  /\ UNCHANGED <<errVerbose, affinity, priority, printed>>

RestoreVerbose(sh) ==
  /\ Returns(sh, "restore")
  /\ errVerbose' = call[sh].old
  /\ UNCHANGED <<affinity, priority, printed>>

ShellStep(sh) ==
  \/ /\ call[sh] = Idle
     /\ \E name \in Names : \/ GetAffinityFunc(sh, name)
                            \/ \E list \in Lists : SetAffinityFunc(sh, name, list)
                            \/ \E prio \in Prios, diff \in Diffs :
                                 SetPriorityFunc(sh, name, prio, diff)
  \/ SetAffinity(sh) \/ PrintAffinity(sh)
  \/ SetVerbose(sh) \/ SetPriority(sh) \/ RestoreVerbose(sh)

Next == \E sh \in Shell : ShellStep(sh)

Spec == Init /\ [][Next]_vars

-----------------------------------------------------------------------------
(* Properties.                                                             *)

TypeOK ==
  /\ affinity \in [Thread -> (SUBSET Cpu) \ {{}}]
  /\ priority \in [Thread -> MinPrio..MaxPrio]
  /\ errVerbose \in {0, 1}
  /\ DOMAIN call = Shell

\* The list epicsThreadPrintAffinityList prints, given back to
\* epicsThreadSetAffinity, stands for the set it was printed for, whatever
\* the affinity is by then: runs that end at the last CPU and runs of two
\* included.
PrintedListReadsBack ==
  \A cpuset \in {{}, Cpu} : ParseAffinityList(printed.list, cpuset) = {printed.set}

\* When epicsThreadSetAffinity has written its set, only the named thread
\* has changed since it read the affinity - unless calls overlap.
AffinityAsAsked ==
  \A sh \in Shell :
    call[sh].pc = "print" /\ ~overlapped =>
      LET c == call[sh]
      IN  \A t \in Thread :
            IF t = Id(c.name) THEN affinity[t] \in ParseAffinityList(c.list, c.before[t])
                              ELSE affinity[t] = c.before[t]

\* epicsThreadSetPriority leaves errVerbose as it was, unless calls of
\* two shells overlap.
ErrVerboseRestored ==
  (\A sh \in Shell : call[sh] = Idle) /\ ~overlapped => errVerbose = 0

\* "Thread %s not found." (threads.c:80): a call with an unknown name
\* changes no affinity.
UnknownChangesNothing ==
  [][\A t \in Thread : affinity'[t] # affinity[t] =>
       \E sh \in Shell : call[sh].pc = "set" /\ Id(call[sh].name) = t]_vars

\* "[+/-diff]" (threads.c:61): a priority level without a difference is the
\* priority the thread gets.
NoDiffNoShift ==
  \A sh \in Shell :
    call[sh].pc = "restore" /\ call[sh].diff = 0 /\ call[sh].prio.kind = "level" =>
      call[sh].new = call[sh].prio.value
=============================================================================
