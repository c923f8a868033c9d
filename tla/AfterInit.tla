----------------------------- MODULE AfterInit -----------------------------
(***************************************************************************)
(* afterInit.c: the commands given to afterInit, atInit and atInitStage    *)
(* are kept in one linked list; the init hook afterInitHook walks the list *)
(* at every announcement and runs the items of the announced stage.        *)
(*                                                                         *)
(* Items are numbered by the order of their allocation.  link is the       *)
(* memory the list lives in: link[0] is the variable cmdlist, link[i] the  *)
(* field next of item i, and the value 0 is NULL.  cmdlast points to one   *)
(* of these cells.                                                         *)
(***************************************************************************)
EXTENDS IocLifecycle, FiniteSets

CONSTANTS
  MaxItems,   \* bound on the successful registrations
  Hooks,      \* hook names the startup script passes to atInitStage
  Words       \* first words of command lines; NoCommand is cmdword[1] = NULL

ASSUME ItemsAssumption == MaxItems \in Nat

NoHook == -1
NoCommand == "NULL"

VARIABLES
  link, cmdlast,
  when,        \* item -> hook number
  cmd,         \* item -> the text that will be given to iocshCmd
  count,       \* items allocated so far
  hooked,      \* ~first_time: afterInitHook is registered with base
  state,       \* afterInitHook's argument, or NoHook outside of it
  item,        \* afterInitHook's cursor
  running,     \* inside iocshCmd
  ran,         \* history: the items run in this announcement
  known        \* history: the value of count when it was announced

listVars == <<link, cmdlast, when, cmd, count, hooked>>
walkVars == <<state, item, running, ran, known>>
vars == <<iocVars, listVars, walkVars>>

Item == 1..MaxItems
Ran == {ran[k] : k \in 1..Len(ran)}

Init ==
  /\ IocInit
  /\ link = [c \in 0..MaxItems |-> 0]
  /\ cmdlast = 0
  /\ when = [i \in Item |-> 0]
  /\ cmd = [i \in Item |-> NoCommand]
  /\ count = 0
  /\ hooked = FALSE
  /\ state = NoHook
  /\ item = 0
  /\ running = FALSE
  /\ ran = <<>>
  /\ known = 0

-----------------------------------------------------------------------------
(* Hook names.  A user's name is its parts: optional "initHook", optional  *)
(* "At", optional "After" and the rest.  Entry k+1 of hookMap is hook k.   *)

HookName(after, base) == [after |-> after, base |-> base]

HookMap == <<
  HookName(FALSE, "IocBuild"), HookName(FALSE, "Beginning"),
  HookName(TRUE, "CallbackInit"), HookName(TRUE, "CaLinkInit"),
  HookName(TRUE, "InitDrvSup"), HookName(TRUE, "InitRecSup"),
  HookName(TRUE, "InitDevSup"), HookName(TRUE, "InitDatabase"),
  HookName(TRUE, "FinishDevSup"), HookName(TRUE, "ScanInit"),
  HookName(TRUE, "InitialProcess"), HookName(TRUE, "CaServerInit"),
  HookName(TRUE, "IocBuilt"), HookName(FALSE, "IocRun"),
  HookName(TRUE, "DatabaseRunning"), HookName(TRUE, "CaServerRunning"),
  HookName(TRUE, "IocRunning"), HookName(FALSE, "IocPause"),
  HookName(TRUE, "CaServerPaused"), HookName(TRUE, "DatabasePaused"),
  HookName(TRUE, "IocPaused"), HookName(FALSE, "Shutdown"),
  HookName(TRUE, "CloseLinks"), HookName(TRUE, "StopScan"),
  HookName(TRUE, "StopCallback"), HookName(TRUE, "StopLinks"),
  HookName(FALSE, "BeforeFree"), HookName(TRUE, "Shutdown"),
  HookName(FALSE, "InterruptAccept"), HookName(FALSE, "End") >>

\* The prefixes "initHook" and "At" are skipped; "After" may be left out of
\* the names that have it, and no other name may have it.
Matches(name, s) ==
  /\ name.base = HookMap[s + 1].base
  /\ name.after => HookMap[s + 1].after

\* hookNameToNumber(name) returns s: the first entry that matches.
HookNameToNumber(name, s) ==
  /\ Matches(name, s)
  /\ \A t \in 0..(s - 1) : ~Matches(name, t)

-----------------------------------------------------------------------------
(* Registration.                                                           *)

IsShutdownHook(w) == AtIocPause <= w /\ w < AfterInterruptAccept

\* Mutant: cmdlast is moved to the prepended item although others follow it.
PrependMovesTail(n) ==
  /\ link' = [link EXCEPT ![0] = n, ![n] = link[0]]
  /\ cmdlast' = n

\* Mutant: shutdown commands are kept in the order they are given.
PrependAtEnd(n) ==
  /\ link' = [link EXCEPT ![cmdlast] = n, ![n] = 0]
  /\ cmdlast' = n

Prepend(n) ==
  /\ link' = [link EXCEPT ![0] = n, ![n] = link[0]]
  /\ cmdlast' = IF link[0] = 0 THEN n ELSE cmdlast

AppendItem(n) ==
  /\ link' = [link EXCEPT ![cmdlast] = n, ![n] = 0]
  /\ cmdlast' = n

\* A function of the shell can be called at the prompt or by a startup
\* script (no lifecycle call is on its way) and by a command that is run.
ShellReady == running \/ (state = NoHook /\ agenda = <<>>)

\* atInitStageIocsh with the newItem it calls.
AtInitStageIocsh(w, c) ==
  /\ ShellReady
  /\ ~interruptAccept
  /\ hooked' = TRUE
  /\ count < MaxItems
  /\ count' = count + 1
  /\ when' = [when EXCEPT ![count'] = w]
  /\ cmd' = [cmd EXCEPT ![count'] = IF c = NoCommand THEN "(null)" ELSE c]
  /\ IF IsShutdownHook(w) THEN Prepend(count') ELSE AppendItem(count')
  /\ UNCHANGED <<iocVars, walkVars>>

\* newItem when malloc fails: the hook is registered all the same.
MallocFails ==
  /\ ShellReady
  /\ ~interruptAccept
  /\ hooked' = TRUE
  /\ UNCHANGED <<iocVars, link, cmdlast, when, cmd, count, walkVars>>

\* The usage checks look at av[0], which is the name of the function itself
\* (or the hook): they never hold, whatever the command is.
AfterInitFunc(c) == AtInitStageIocsh(AfterIocRunning, c)

AtInitFunc(c) == AtInitStageIocsh(AtBeginning, c)

\* Mutant: the result of hookNameToNumber is not checked for -1.
AtInitStageUnchecked(name, c) ==
  \E w \in Stage \cup {-1} :
    /\ IF w = -1 THEN \A s \in Stage : ~Matches(name, s) ELSE HookNameToNumber(name, w)
    /\ AtInitStageIocsh(w, c)

AtInitStageFunc(name, c) ==
  \E w \in Stage : HookNameToNumber(name, w) /\ AtInitStageIocsh(w, c)

Register ==
  \/ \E c \in Words : \/ AfterInitFunc(c)
                      \/ AtInitFunc(c)
                      \/ \E name \in Hooks : AtInitStageFunc(name, c)
  \/ MallocFails

-----------------------------------------------------------------------------
(* The announcements and the walk.                                         *)

\* Left out: a command of the list that itself pauses, runs or shuts down the
\* IOC, whose announcements enter afterInitHook a second time inside the first.
LifecycleCall ==
  /\ state = NoHook
  /\ IocLifecycleCall
  /\ UNCHANGED <<listVars, walkVars>>

\* initHookAnnounce before afterInitHook is registered
AnnounceUnheard ==
  /\ state = NoHook /\ ~hooked
  /\ \E s \in Stage : IocAnnounce(s)
  /\ UNCHANGED <<listVars, walkVars>>

AfterInitHook(s) ==
  /\ state = NoHook /\ hooked
  /\ IocAnnounce(s)
  /\ state' = s
  /\ item' = link[0]
  /\ ran' = <<>>
  /\ known' = count
  /\ UNCHANGED <<listVars, running>>

InLoop == state # NoHook /\ item # 0 /\ ~running

WalkSkip ==
  /\ InLoop
  /\ when[item] # state
  /\ item' = link[item]
  /\ UNCHANGED <<iocVars, listVars, state, running, ran, known>>

\* Mutant: the loop skips only the items of earlier stages.
RunLaterStages ==
  /\ InLoop
  /\ when[item] >= state
  /\ running' = TRUE
  /\ ran' = Append(ran, item)
  /\ UNCHANGED <<iocVars, listVars, state, item, known>>

WalkRun ==
  /\ InLoop
  /\ when[item] = state
  /\ running' = TRUE
  /\ ran' = Append(ran, item)
  /\ UNCHANGED <<iocVars, listVars, state, item, known>>

\* Mutant: the loop ends with the first command it has run.
ReturnBreaks ==
  /\ running
  /\ running' = FALSE
  /\ item' = 0
  /\ UNCHANGED <<iocVars, listVars, state, ran, known>>

\* Mutant: the command is run again.
ReturnStays ==
  /\ running
  /\ running' = FALSE
  /\ UNCHANGED <<iocVars, listVars, state, item, ran, known>>

\* iocshCmd returns; only now the loop reads item->next
WalkReturn ==
  /\ running
  /\ running' = FALSE
  /\ item' = link[item]
  /\ UNCHANGED <<iocVars, listVars, state, ran, known>>

WalkDone ==
  /\ state # NoHook /\ item = 0
  /\ state' = NoHook
  /\ ran' = <<>>
  /\ known' = 0
  /\ UNCHANGED <<iocVars, listVars, item, running>>

Walk == WalkSkip \/ WalkRun \/ WalkReturn \/ WalkDone

Next ==
  \/ Register
  \/ LifecycleCall
  \/ AnnounceUnheard
  \/ \E s \in Stage : AfterInitHook(s)
  \/ Walk

\* The thread that announces goes on as long as the commands it runs return.
Spec == Init /\ [][Next]_vars /\ WF_vars(Walk)

-----------------------------------------------------------------------------
(* Properties.                                                             *)

TypeOK ==
  /\ IocTypeOK
  /\ link \in [0..MaxItems -> 0..MaxItems]
  /\ cmdlast \in 0..MaxItems
  /\ when \in [Item -> Stage]
  /\ cmd \in [Item -> Words \cup {NoCommand, "(null)"}]
  /\ count \in 0..MaxItems
  /\ hooked \in BOOLEAN
  /\ state \in Stage \cup {NoHook}
  /\ item \in 0..MaxItems
  /\ running \in BOOLEAN
  /\ ran \in Seq(Item)
  /\ known \in 0..MaxItems

\* The order commands should run in when item i is for hook w[i]: those for
\* shutting down first, latest first; then the others as they were given.
\* Cell 0 comes before all.
InOrder(w, i, j) ==
  /\ j # 0
  /\ \/ i = 0
     \/ IF IsShutdownHook(w[j]) THEN IsShutdownHook(w[i]) /\ i > j
                                ELSE IsShutdownHook(w[i]) \/ i < j

\* Cells 0..n are one list in this order that ends in the cell `last`.
IsList(next, last, n, w) ==
  /\ last \in 0..n
  /\ next[last] = 0
  /\ \A i \in 0..n :
       IF next[i] = 0 THEN \A j \in 1..n : ~InOrder(w, i, j)
       ELSE /\ next[i] \in 1..n
            /\ InOrder(w, i, next[i])
            /\ \A j \in 1..n : ~(InOrder(w, i, j) /\ InOrder(w, j, next[i]))

\* newItem keeps one acyclic list of all items, in running order, whatever
\* mix of prepended and appended items it has seen, and cmdlast points to
\* its last cell: no item is ever cut off or reached twice.
ListInv == IsList(link, cmdlast, count, when)

Precedes(i, j) == InOrder(when, i, j)

\* The loop of afterInitHook is past item i.
Passed(i) == item = 0 \/ Precedes(i, item) \/ (i = item /\ running)

\* afterInitHook has run exactly the items of its stage that its cursor has
\* passed, although the commands it ran may have queued new ones: those are
\* missed only if they are shutdown commands queued during the announcement
\* of their own stage (newItem puts them in front of the cursor).
WalkInv ==
  /\ item \in 0..count
  /\ running => item # 0 /\ when[item] = state
  /\ count > 0 => hooked
  /\ IF state = NoHook
     THEN item = 0 /\ ~running /\ ran = <<>>
     ELSE /\ known \in 0..count
          /\ \A i \in 1..count :
               i \in Ran <=> /\ when[i] = state
                             /\ Passed(i)
                             /\ IsShutdownHook(state) => i <= known
          /\ item # 0 /\ IsShutdownHook(when[item]) => item <= known

\* Within one announcement commands run in the order of the queue, none of
\* them twice (afterInitHook and newItem together).
RunInOrder ==
  /\ Ran \subseteq 1..count
  /\ \A k, l \in 1..Len(ran) : k < l => Precedes(ran[k], ran[l])

\* When afterInitHook leaves its loop it has run every command that was
\* queued for the stage before the announcement.
NoneLeftOut ==
  state # NoHook /\ item = 0 =>
    \A i \in 1..known : when[i] = state => i \in Ran

\* The registration functions refuse a call without a command ("usage:
\* afterInit command, args...", afterInit.c:233, 248 and 266).
OnlyCommandsQueued == \A i \in 1..count : cmd[i] # "(null)"

-----------------------------------------------------------------------------
(* afterInit.c implements the queues of InitCommands.                      *)

Placed(before, k, s) == IF IsShutdownHook(s) THEN <<k>> \o before ELSE Append(before, k)

\* The items of S, all of them for stage s, in running order.
Sorted(S, s) ==
  LET sorted[k \in 0..MaxItems] ==
        IF k = 0 THEN <<>>
        ELSE IF k \in S THEN Placed(sorted[k - 1], k, s)
        ELSE sorted[k - 1]
  IN  sorted[MaxItems]

Given(s) == {i \in 1..count : when[i] = s}
NotPassed == {i \in Given(state) : ~Passed(i)}

Queues == INSTANCE InitCommands WITH
  ShutdownStage <- {s \in Stage : IsShutdownHook(s)},
  NoStage <- NoHook,
  queue <- [s \in Stage |-> Sorted(Given(s), s)],
  stage <- state,
  todo <- Sorted(NotPassed, state),
  running <- IF running THEN item ELSE 0

\* The list with its in-place walk behaves as one queue for every stage, and
\* an announcement that has begun ends (InitCommands' fairness included).
QueuesSpec == Queues!Spec
=============================================================================
