# Verification of iocsh_utilities

`iocsh_utilities` is a library of shell functions for EPICS IOCs: a startup
script or a person at the `iocsh` prompt calls them, and some of them leave
something behind that acts later (an init hook, a signal handler, a changed
menu).  There is no central process; the functions share global state of EPICS
base (`interruptAccept`, `pdbbase`, `errVerbose`), the environment, the file
system and the kernel's tables.  The modules here model the functions that have
logic of their own, and everything they share with others is modelled as far
as `src/` relies on it (marked *external*).

Contents: 1 inventory, 2 modules, 3 runs, 4 fairness, 5 proofs, 6 where the
code does not do what it says, 7 what is left out, 8 plan.

## 1. Inventory

| Component | State | Operations | Interacts with | What is hard | What makes it correct |
|---|---|---|---|---|---|
| `afterInit.c`: afterInit, atInit, atInitStage | one linked list of commands (`cmdlist`, `cmdlast`, `next`), the flag that the hook is registered | three registration functions; the init hook that walks the list and runs commands | `initHookRegister`, `interruptAccept`, `iocshCmd` | commands change the list that is being walked; prepended and appended items; stages announced more than once; `malloc` fails | the list is never cut; each announcement runs exactly its commands, in order, once |
| `addScan.c`: addScan, rmScan | the two arrays of `menuScan`, the strings they point to | insert a rate, remove a rate | `pdbbase`, records that hold choice numbers, `interruptAccept` | insertion and removal in place, ownership of strings, records loaded before | order kept, no string freed twice or leaked, fixed choices untouched |
| `updateMenuConvert.c` | `menuConvert` | append the tables that are missing | `bptList`, records with LINR | called again after more tables or records | every table has one choice; records keep their table |
| `termSig.c` | seven saved `sigaction`s | install, handle a signal | kernel, all threads, `epicsExitCallAtExits` | a signal between any two steps and in any thread | exit handlers before death; the process still dies |
| `threads.c` | affinity of threads, priorities, `errVerbose` | show affinity, set affinity, set priority | several shells, kernel, thread lookup | read-modify-write by two shells, lists with signs, ranges and missing numbers, unknown names | the named thread alone gets what was asked; globals restored |
| `ifEnvSet.c`, `epicsEnvUnset.c` | one environment variable | compare, set, unset | `glob.c`'s algorithm, environment | pattern search with a single way back, operators in any mix, limits of `strtol` | the variable follows the condition; the search ends |
| `glob.c` | pointers into pattern and text | epicsStrGlobMatch | ifEnvSet (a copy), dbll, dbla, dbli, cal | as above | same answer as trying all readings |
| `disctools.c` | the file system, open streams | rm, mv, mkdir, rmdir; cp; ls/ll/dir; umask, chmod | other processes, `glob(3)`, the stdout of the shell | files that come and go while rm works; names that are patterns; hidden files; files that cannot be opened; files and directories in one list | removes what was asked and nothing else; copies what it names; lists all, files first; ends |
| `ulimit.c` | resource limits, a `struct rlimit` that is read, changed and written back | print, set | kernel, other shells | several limits in one call, units, soft and hard, refusals in the middle | the letters it has passed have the limit asked for, the others are as they were |
| `eval.c`, `listRecords.c`, `echo.c` | the stdout of a shell's thread, a memory stream, a file | run a command and run what it prints; list into a file; print | `iocshCmd`, each other, everything that prints | nested calls, commands that redirect stdout themselves, no free descriptor | stdout is as before on every way out; streams are closed; every command does what it stands for |
| `exec.c` | a command line buffer; the time left to sleep | exec, !, sleep | `system`, `nanosleep`, signals, the stdout of the shell | a stdout without descriptor; interrupted sleep | the program prints where the shell prints; the sleep is as long as asked |
| `dbll.c`, `dbla.c`, `dbli.c` | a cursor into the database | list links, aliases, infos | the database (read only), `glob.c` | record types without records, aliases, targets and patterns with and without field | what the pattern and the letters ask for, nothing twice |
| `cal.c` | none | list channels | locks and lists of the CA server | lock order | base's code, not modelled |
| `setMaxArrayBytes.c`, `caFieldSize.c` | a variable, an init hook | set EPICS_CA_MAX_ARRAY_BYTES at a stage | init hooks, records, CA server | the hook must see all records and come before the server reads the variable | the server's limit is enough for every loaded array |
| `mlock.c`, `winunixconv.c`, `bootNotify.c`, build files | none | single calls, text | - | nothing to interleave | not modelled |

The hazards of the code, each at the line where it bites and with the
properties that cover it, are the list `hazards` of `PROJECT.json`.

How the components meet: `iocInit` and its relatives announce init hooks and
set `interruptAccept`; afterInit listens, while addScan, rmScan,
updateMenuConvert and the registration functions refuse to work when the flag
is set.  This is the one module several components share, `IocLifecycle`.
The two menus meet in the records that hold numbers into both (`Menus`), and
setMaxArrayBytes, an init hook, looks at the same records.
`ifEnvSet` and the lists of the database meet `glob.c` through the search
(`GlobMatch`).  eval, listRecords, echo, exec, cp and ulimit meet in the stdout
of the shell that runs them, in the files and descriptors of the process, and in
each other, as eval runs any command (`Redirect`).  termSig, threads and the
rest of disctools each meet only the kernel and other threads or processes.

## 2. Modules

```
InitCommands  <-- refined by --  AfterInit --extends--> IocLifecycle
                                 AfterInitProofs, MCAfterInit
ScanRates     <-- refined by --  ScanMenu ---extends--> IocLifecycle
                                 ConvertMenu -extends--> IocLifecycle
                                 ArrayBytes --extends--> IocLifecycle
                                 Menus = ScanMenu + ConvertMenu + ArrayBytes
                                         + records;  MCMenus
                                         MenusProofs
TermSig, MCTermSig, TermSigProofs      Threads, MCThreads, ThreadsProofs
Disc, MCDisc, DiscProofs
GlobMatch <--extends-- IfEnvSet, DbLists;  Selection <--extends-- DbLists, DirList
                       Patterns = IfEnvSet + DbLists + DirList;  MCPatterns
                       PatternsProofs
Ulimit <--extends-- Redirect <--extends-- Shell <--extends-- ShellPromise;  MCShell
                                          ShellProofs (Ulimit, Redirect, Shell)
Recursion: lemmas about loops, for all modules of proofs
```

* **IocLifecycle** (external): `iocInit`, `iocPause`, `iocRun`, `iocShutdown`
  as sequences of announcements, each with the value `interruptAccept` has then.
  The sequences are a constant, so nothing depends on one version of base.
* **AfterInit** models `afterInit.c` down to its pointers: `link[0]` is
  `cmdlist`, `link[i]` the field `next` of the i-th allocated item, `cmdlast`
  the cell it points to.  `AtInitStageIocsh` is `atInitStageIocsh` with
  `newItem`; `MallocFails` is the same call when `malloc` fails (the hook stays
  registered).  `AfterInitHook`, `WalkSkip`, `WalkRun`, `WalkReturn` and
  `WalkDone` are the steps of the loop in `afterInitHook`; between `WalkRun`
  and `WalkReturn` the command runs, which may call the registration functions.
  `HookNameToNumber` has the whole table of names with the optional prefixes.
  The texts of commands are abstract, except that a missing command becomes
  `"(null)"`.  `ran` and `known` are history variables.
* **InitCommands** is the promise: a queue per stage, announced, run from the
  front, to which running commands may add.
* **AfterInitProofs**, **MenusProofs**, **TermSigProofs**, **ThreadsProofs**,
  **PatternsProofs**, **DiscProofs**, **ShellProofs** and **Recursion**: section 5.
* **ScanMenu** models both arrays of `menuScan`, including the place behind the
  last choice that `rmScan` leaves behind, and the strings with their addresses
  (`copy` tells equal strings apart, `live` is what is allocated).  An argument
  has two values: what `sscanf` reads from it and what `strtod` reads later from
  the string that is kept, without its leading zeros; `nan` and hexadecimal
  arguments differ there.
* **ScanRates** is its promise: a set of rates.  **ConvertMenu** models
  `updateMenuConvert` and the external list of tables.  **ArrayBytes** models the
  hook `setMaxArrayBytes` with `caFieldSize` as one step at its stage, and the
  CA server that takes the limit at a later one (external).  **Menus** composes the
  three with a startup script that loads records at any time, which keep the
  numbers of their choices in SCAN and LINR.
* **TermSig** models registrar and handler as one step per `sigaction`,
  `epicsExitCallAtExits` (begin and end) and `raise`.  A thread has a stack of
  active handlers, each blocking its own signal.  Delivery, blocking and the
  default action are external, as is an exit in the usual way (`EpicsExit`).
  `termSig.c` is commented out in the Makefile.
* **Threads** models the three shell functions with a step per call into the
  kernel or base, for several shells.  `ParseAffinityList` returns the *set* of
  results a build can give: the sign character is read with a conversion that
  stores two characters into one, and at the end of the list `scanf` leaves a
  number unset; both are choices.
* **GlobMatch** models the loops of `epicsStrGlobMatch`, pointer by pointer;
  `match` in `ifEnvSet.c` is the same code.  **IfEnvSet** puts the parsing of
  the condition, the comparison and the assignment around it, and has
  `epicsEnvUnset`.
* **DbLists** models dbll with its second pattern (`AltMatch`) and the mask of
  its letters, dbla, and dbli with the cursor that the static database library
  (external) moves: `NextInfo`, `NextRecord` and `NextRecordType` are the three
  nested loops of `dbNextMatchingInfo`.  A database is a sequence of record
  types, each a sequence of records, some of them aliases.
* **DirList** models dir, ll and ls: the list of paths that grows with each
  argument and loses what is no directory, the count of files, the columns, and
  what is left for the loop over directories.  The file system stands still.
* **Selection**: the elements of a sequence at chosen places, which both use.
* **Patterns** composes the three functions that take patterns: one shell calls
  them, one after the other.
* **Ulimit** models ulimit letter by letter, for several shells that share the
  limits: `NextOption` reads, `SetLimit` writes back, and others come between.
  `rlim_t` has `RlimValues` values.  The kernel's answer is `Setrlimit` (external).
* **Redirect** models the commands that redirect or use the stdout of a shell:
  eval, listRecords, echo, exec, cp, sleep, and ulimit from the module before,
  whose `n` limits the streams that can be open.  A shell's calls are a stack of
  frames; `IocshCmd` pushes one, `out` is what `epicsSetThreadStdout` has set.
  What is printed is a sequence of lines and `Meaning` says what a line does as a
  command, so that eval can run what another command printed.  eval gives all of it
  to `iocshCmd` at once: of several lines `Joined` says which make a command, by
  their first word, and which.  Writing to a file of `Filling` may fail at any time,
  which cp looks at and leaves its loop (`TargetFails`).
* **Shell** composes them: a person types any command when the last has returned,
  other shells run ulimit meanwhile, signals interrupt a sleep.
* **ShellPromise** says what a line stands for (`Promised`): the lines printed and
  the files left, as a function of the outside before, without streams or a stack.
  The promise of an eval is made of those of the lines it runs, up to `MaxDepth`
  evals inside each other; the step-by-step commands are held to it
  (`CommandsKeepPromise`).
* **Disc** models rm with its recursion (a stack of frames, each with what is
  left of its `globresult`), mv with the `stat` before the `rename`, mkdir and
  rmdir on a tree of paths.  A pattern is a name with the set of names it
  matches (`Reads`).  Another process can create and remove files at any step.
  `began` is a history variable: the tree a call of rm began with, as long as
  nothing else has changed it, against which `AllAskedRemoved` judges what is left.

The `map` of `PROJECT.json` gives for every definition the lines it stands for.
Operators under a comment `Mutant:` are wrong variants of the definition that
follows them: with one of them in its place, the property that is listed with
it in `PROJECT.json` is violated.  They are used nowhere else.

## 3. Runs

To check one: `tlc -config AfterInit.cfg MCAfterInit`.

| Run (module, cfg) | Instance | Shows |
|---|---|---|
| after_init (MCAfterInit, AfterInit.cfg) | 4 registrations; 4 hook names, one of them unknown; shortened lifecycle calls | the list is well formed (`ListInv`), the walk runs what it should (`WalkInv`, `RunInOrder`, `NoneLeftOut`), all of it implements InitCommands with its fairness (`QueuesSpec`) |
| menus (MCMenus, Menus.cfg) | up to 7 choices, 6 arguments including nan, 0x10, 0 and text; 2 tables to load besides the one in the menu; 1 record with four arrays, one of a type without support; a limit that is enough and one that is not | order, ownership, fixed choices, rates as a set; every loaded table is a choice once, also after a second call with something or nothing to add (`TablesSelectable`); LINR stays; the CA server's limit is enough (`ArraysServed`) |
| termsig (MCTermSig, TermSig.cfg) | 2 threads, 3 signals, 2 sent | one signal is a clean exit, unless it comes in main's own `epicsExit` (`OneSignalIsClean`); old handlers come back; the process dies |
| threads (MCThreads, Threads.cfg) | 2 shells acting on 1 thread by name or number, 3 CPUs, 6 lists, 4 priorities, 2 differences | printed lists read back; the change is the one asked for; `errVerbose` restored |
| patterns (MCPatterns, Patterns.cfg) | all patterns of up to 3 of `a b ? *` on all texts of up to 4 of `a b`; numbers with a sign, white space in front, in decimal, octal and hexadecimal, and strings that only look like one, with all kinds of operators; largest long 20; a database of 3 types (one empty), 4 records and an alias, 782 patterns of `a b * . VAL` with 6 filters, 13 lists of patterns for infos; 1 to 3 of 9 arguments of ls | the search is glob matching and ends; the variable follows the condition; dbll lists what is asked for (`LinksListed`), dbli loses nothing behind the first record type (`LaterInfosListed`), ls lists all, files first (`ListedFilesFirst`) |
| disc (MCDisc, Disc.cfg) | 8 paths, 3 trees, 7 command lines for rm; unbounded interference, refusals by the kernel | the frames of the recursion are nested (`TypeOK`); nothing but what was asked is removed; all of it is; rm ends |
| shell (MCShell, Shell.cfg) | 43 commands, evals up to three deep, 6 files, one of them not writable, one a directory, one on a disk that may be full; 2 shells, 2 limits of 2 bits, 2 descriptors; 2 signals | every command returns, prints and writes what it stands for, restores stdout, closes its streams; limits and sleeps are as asked |
| no_command, termsig_race, priority_diff, unknown_thread, infos_listed | as above or smaller | section 6 |

Why the bounds are enough to meet the cases that matter:

* `MaxItems = 4`: two prepended and two appended items in any mix, queued
  before or during an announcement; cutting a list or running twice needs
  three.  The real stages are about thirty, but items only compare stages for
  equality and for belonging to shutdown, and the agenda has one of each kind,
  one that is announced again, and both values of `interruptAccept`.  The proofs have no
  bound.
* `MaxChoices = 7`: five choices in the file and two more, so that a rate is
  added before, between and behind others, and removed and added again; twenty
  and more rates do not behave differently because the search compares with
  one at a time.
* Two threads and three signals let a second signal hit the same thread inside
  the handler, another thread, and a signal whose handler is or is not yet
  restored.  `MaxSent` bounds only signals from outside; what `raise` sends is
  not counted.
* Three CPUs give runs of length one, two and three and runs that end at the
  last CPU; the lists have each sign, a range past the last CPU, an empty last
  element, a last element of a sign only, and a blank list.  More shells than two meet in the same pairs.
* A wrong way back in a search needs one `*`, a partial match and a second
  try: pattern `*ab` on `aab` is in the instance.  20 as largest long makes 21
  and 22 overflow to the same number.
* The database has a record type without records between two others, a record
  without infos and an alias; targets with and without field meet all patterns
  with and without field.
* Up to three columns and up to nine names give full and partly filled last
  rows; arguments come in all orders, which the exceptions of `ListedFilesFirst`
  are about, and with `/` behind directories, files, nothing, and several of them.
* Evals three deep (`twice`, `deep`): one inside another, and one whose output is
  an eval.  Two descriptors let cp just work; one leak, or `ulimit n 1`, makes it
  fail at either file.  Two bits for `rlim_t` make 2 blocks overflow.  A sleep of
  three units can be interrupted at its beginning, in the middle and late.  In
  three sessions different commands are typed, in any order and number, which
  keeps the evals from being multiplied with the limits.
* The tree has two levels of directories, a hidden file and a directory `[d]`
  whose name matches `d`.

`CHECK_DEADLOCK FALSE` is set for TermSig only, where the process may be dead.

Exceptions that properties name, because the code does something else there:
overlapping calls of two shells (`AffinityAsAsked`, `ErrVerboseRestored`: an
update can be lost, `errVerbose` can stay set); signals before the registrar
is through (`early`: some handlers have not been saved) and while main is in the
exit handlers of its own `epicsExit` (`OneSignalIsClean`: `epicsExitCallAtExits`
then returns at once, and the process is ended with the handlers half run); `~` between two numbers, numbers that are no longs, and
`<`, `>` on text (`VariableAsAsked`); hidden files and directories whose
names are patterns (`AllAskedRemoved`: `Excused`, and `OnlyAskedRemoved`), and calls of
rm that something disturbs (`AllAskedRemoved`); scan rates in
hexadecimal or nan (`SortedDescending`); the choice numbers that records keep
in SCAN (`RecordsKeepTable` is about LINR only); limits that another shell sets
between reading and writing, and numbers that overflow (`LimitsAsAsked`);
programs run in an eval and files for which no descriptor or no room on the disk
is left (`CommandsKeepPromise`); the source of a cp whose target cannot be opened (`StreamsClosed`);
targets without field for patterns of fields other than VAL (`LinksListed`);
in the short format, directories or names that are gone in front of files, and in
both formats arguments with `/` behind others (`ListedFilesFirst`: `FilesInFront`,
`SlashInFront`).

## 4. Fairness

* AfterInit: weak fairness of `Walk`.  `afterInitHook` is a loop in the thread
  that calls `iocInit`; it goes on as long as the commands return.
  Registrations and lifecycle calls have no fairness.
* TermSig: each thread with an active handler goes on, exit handlers return
  and the kernel delivers a signal that some thread does not block.  Nothing
  makes a signal be sent or the shell exit.
* IfEnvSet and Disc: a shell that has called a function runs it.  Other
  processes may act or not, for ever.
* Shell: weak fairness of `Run`, one step of the command that runs.  A shell goes
  on with what it has begun, and time passes in a sleep.  `MaxSignals` bounds
  the signals of one sleep, but `CommandReturns` would not need it: each unit of
  time that has passed is gone.
* Menus and Threads have no liveness property and no fairness.

## 5. Proofs

`AfterInitProofs` proves, for every `MaxItems`, agenda and set of hook names
and words (the assumptions are `ItemsAssumption`, a natural number, and
`AgendaAssumption`, sequences of announcements):

* `TypeCorrect`: `Spec => []TypeOK`.
* `ListCorrect`: `Spec => []ListInv`.  `InOrder` is the order commands should
  run in; it is total (`TotalOrder`) and the list has one end (`OneEnd`).  A new
  item is before all others or behind all others (`NewItemInOrder`), from which
  `PrependKeepsList` and `AppendKeepsList` follow.  The list is described by
  what lies between a cell and its successor (nothing), never by a path, so
  that no induction over the data is needed.
* `WalkCorrect`, `OrderCorrect`, `CompletenessCorrect`: `Spec => []WalkInv`,
  `[]RunInOrder` and `[]NoneLeftOut`.  None of them is inductive alone:
  `RunInOrder` needs to know that everything that has run is before the cursor,
  and that needs the list to be ordered beyond it.  The inductive invariant is
  `TypeOK /\ ListInv /\ WalkInv /\ RunInOrder`.  `Advance`: what a cursor has
  passed when it moves on; `First`: what the start of the list has passed
  (nothing).  Registrations (`RegisterKeepsWalk`) are the interesting case: an
  appended item is ahead of every cursor, a prepended one behind.  The second
  explains the only commands an announcement misses, shutdown commands queued
  for their own stage while it is announced.
* `QueuesCorrect`: `Spec => Queues!Safety`, the initial state and the steps of
  InitCommands.  The queue of a stage is the sequence of its items in running
  order, and what an announcement has still to run is the part of it the cursor
  has not passed (`Sorted`, `Given`, `NotPassed` in AfterInit).  A registration is
  a `Give` (`RegisterGives`), the entry of the hook an `Announce`
  (`HookAnnounces`), a turn of the loop a `RunNext` and a `Return`, the turn of an
  item of another stage is not seen, and the end of the loop is a `Finish`: the
  queue is empty then (`WalkRunsQueue`).  That the cursor is at the head of what is
  left follows from `ListInv` and `WalkInv`.  `Sorted` is a recursive function;
  what it gives for one item more (`SortedNew`) and for its first item
  (`SortedFirst`) is proved with the module Recursion.

The other modules of proofs are laid out in the same way: lemmas about the
operators, one lemma per action that says what it keeps, an invariant that is
inductive, and the theorems that follow from it.

| Module | Inductive invariant | Theorems (of `Spec`) |
|---|---|---|
| TermSigProofs | `TermSigInv` | `TypeOK`, `OriginalsRestored`, `OneSignalIsClean` |
| MenusProofs | `MenusInv` | `TypeOK`, `SortedDescending`, `StringsOwned`, `FixedChoicesKept`, `RatesSpec`, `TablesSelectable`, `RecordsKeepTable`, `ArraysServed` |
| ShellProofs | `UlimitInv`; `ShellInv`; `PlanInv` | `LimitsAsAsked` of ulimit alone; `TypeOK`, `StdoutRestored`, `StreamsClosed`, `SleepsAsAsked`, `LimitsAsAsked`, `CommandsKeepPromise` of Shell |
| PatternsProofs | `IfEnvSetInv`; `LinksInv`, `DbliInv`, `FilesInv` | `TypeOK`, `MatchIsGlob`, `VariableAsAsked` of ifEnvSet; `LinksListed`, `LaterInfosListed`, `ListedFilesFirst` of the shell that runs them all |
| ThreadsProofs | `ThreadsInv` | `TypeOK`, `AffinityAsAsked`, `PrintedListReadsBack`, `ErrVerboseRestored` |
| DiscProofs | `DiscInv`, `LeftInv` | `TypeOK`, `OnlyAskedRemoved`, `AllAskedRemoved` |

*Why these invariants.*

* `TermSigInv`: `OneSignalIsClean` speaks of the end, when the process is dead.
  `SavedInv` ties `old` and `sigact` to `original` while the registrar goes through
  its list, `RestoredInv` says which signals every active handler has put back,
  and `OneSignal` where the single signal is: not delivered (`Fresh`), with one
  handler (`InHandler`), or behind it, when the exit handlers are done (`Handled`).
* `MenusInv`: `Owned` says place by place what `StringsOwned` says of sets:
  each string has one place in the menu.  `RatesSpec` is the refinement of
  `ScanRates`: a step changes the set of rates by one, or not at all.
  `ConvertInv` adds that no table is listed twice, none has two choices and each that
  `updateMenuConvert` has seen has one (`UpdatedHavePlace`), and
  `ArrayInv` that as long as the CA server has not taken its limit, this is enough
  or the hook is still to come.
* `UlimitInv`: that a limit is written back as it was read needs that nobody else
  set it since (`ReadIsCurrent`), and that a letter passed keeps its limit needs
  where a call is in its letters.  A step changes one call, and what it sets
  becomes *disturbed* for the others, so that one shell remains to be looked at.
* `ShellInv`: `StackInv` says of each frame which streams it holds and what its
  caller's stdout was; no two frames hold the same stream, so that a return closes
  what the frame opened and nothing else, whatever it has called.  In the shell
  each step of each command is a step of ulimit or leaves the limits alone, which
  carries `LimitsAsAsked` into evals.
* `PlanInv`: `CommandsKeepPromise` compares with the promise only when everything
  has returned.  In between, each call on the stack has a state of the outside that
  it will leave (a plan, `IsPlan`): the lowest leaves `Outcome`; an eval that waits
  leaves what its own rest makes of what the call above it leaves (`AfterCall`); the
  topmost leaves what is still to come from the point it has reached (`Leaves`).
  Every step keeps that plan, or adds to it the call that it begins.  This needs that
  a step changes no text to which a waiting call will restore stdout
  (`OthersKept`), which follows from `StackInv`: no two frames hold the same
  stream.  A plan is followed until descriptors run out or a program runs in an
  eval, the exceptions of the property.
* `IfEnvSetInv`: `SearchInv` says that the search has not missed a match: the text
  matches the pattern exactly if one of the readings still open does.  That one
  place to go back to is enough is proved there, for every pattern.
* `DbliInv`: what is listed is what the types, the records and the infos before the
  cursor add (`CursorOK`).  The lists of the property are flattened sequences of
  selections; `FirstInfoKeeps`, `NextInfoKeeps`, `NextRecordKeeps` and
  `NextTypeKeeps` say that moving the cursor by one adds what lies between.
* `LinksInv`: dbll is one step, and the work is in what it computes.  A pattern with
  a dot matches a target with a dot exactly if the parts in front of it and behind it
  match (`GlobOfParts`: the target has no other dot, so only this place of it can be
  the pattern's), which makes one comparison with `match` or `AltMatch` the two
  of `PointsTo` (`TargetMatched`); the mask is what the letters ask for
  (`FilterAsAsked`); records are visited once, fields have names of their own and
  hence no line is printed twice (`NamesDiffer`).
* `FilesInv`: ls is one step as well.  If the arguments with `/` come first, `offs` is
  at the end of what is found, and `gl_pathv` is what each argument wants, one
  behind the other (`PathvIsFound`).  If files are in front, the first `numfiles`
  entries are the files; the index of the columns is a bijection from the cells
  that are filled to these entries (`CellsAre`, from the uniqueness of quotient and
  remainder), so that each name is printed as often as it was found (`AsOften`).
* `ThreadsInv`: what a call between two of its steps has read and computed
  (`CallsOK`), which is current as long as no other call overlaps (`Alone`).
* `DiscInv` has for a call of rm that its frames are nested (`Nested`, which `TypeOK`
  asks for), and that every path in its hands is asked for, or below a directory
  whose name has wildcards (`FramesAsked`).  `LeftInv` is the
  converse, for the tree that it began with: what its words stand for, and what
  the directories it is in contain, is dealt with for good or still in hand
  (`WordsDealt`, `FramesDealt`), whatever the depth of the recursion.  When
  `rmdir` fails there is something in the directory (`SomethingInIt`) that is
  dealt with, hence excused, and what excuses it excuses the directory
  (`ExcusedAbove`).  That the tree stays one is a matter of the system calls and used
  as a lemma only; for rename it is a proof about the names of paths (`RenamedIsTree`).

*Assumptions.*  Each module states what it needs of its constants next to them
(`...Assumption`), and every run checks it.  They say what kind of thing a
constant is; those that say more:
the fixed choices and rates of `menuScan` are sorted in the menu file that base
brings (`ScanAssumption`); what `sscanf` reads and `strtod` reads later agree
except for hexadecimal numbers (same place); breakpoint tables in `menuConvert`
are there once (`ConvertAssumption`); the stage at which the CA server takes its
limit comes behind the one of the hook (`ArrayAssumption`); an ifEnvSet condition
is split where the code splits it, so that its rest does not begin with another
operator (`IfEnvSetAssumption`); the signals of `termSig.c` are different
(`TermSigAssumption`); the last letter of a recursive pattern is `*`, which stands
for all names without a leading dot (`DiscAssumption`).  `AffinityCorrect` has the
hypothesis that `Names` are those of threads or their numbers: without it the property is false
(unknown_thread, section 6).  In a database the names of records are unique, as are
those of the fields of a record, and have no dots, so that a target has one at
most (`DbListsAssumption`); what `glob(3)` finds has names that are not empty
(`DirListAssumption`).

*Loops.*  `Recursion` shows that a function which is defined by recursion on
`0..n` exists (`RecursiveFunction`) and that what holds at 0 and is kept by each
turn holds at n (`InductionUpTo`), both with the set of places at which something
holds instead of a predicate.  With them the loops of the code (`Shifted`,
`ParseAffinityList`, `Glob`, `Exact`, the numbers of ifEnvSet) are proved for
every input.

*What the attempts corrected.*  Two properties were false where no run had
looked, and say now what holds: `VariableAsAsked` at the number just beyond
`MaxLong`, which `strtol` saturates to the same value (`Overflows`); and
`AllAskedRemoved` for `rm -r d d/.h`, where the hidden file that keeps `d` is
removed after `d` was tried, so that `d` stays without a reason that can still
be seen.  What excuses a directory is now judged in the tree rm began with.
Both cases are in the instances of the runs.
The promise of the shell was wrong for lines too long for the buffers of eval and
exec (`Long` says nothing of other commands), for the echo of nothing, and for
ulimit with several letters, of which each is shown.  `ListedFilesFirst` had
exceptions that were too narrow: names that are neither file nor directory, and
arguments with `/` that find nothing, disturb the order as well.

*Only model-checked.*

* Liveness (`CommandReturns`, `RmReturns`, `SignalTerminates`, `Returns` and the
  fairness of `QueuesSpec`): the prover has neither ENABLED nor fairness.

Every invariant that a passing run checks is also proved, and so are the safety
parts of the refinements.

## 6. Where the code does not do what it says

Each of these has a run that ends in a counterexample.

* **no_command**: `afterInit`, `atInit` and `atInitStage` test `av[0]`, which is
  always set, where `av[1]` is meant.  Without a command `(null)` is queued and
  run as one.
* **termsig_race**: the handler restores all dispositions before it calls the
  exit handlers; another signal in between kills the process without them.
* **priority_diff**: `while (diff++ < 0 ...)` counts once too often; a priority
  level without a difference gives the next one above.
* **unknown_thread**: `epicsThreadSetAffinity` of an unknown name prints that
  there is no such thread, and changes the affinity of the shell itself.
* **infos_listed**: dbli starts at the first record type, but not at a record of
  it; its loops then go to the second type.  The infos of the first type in
  the database are never listed.

Met while modelling, and in the models, without a run of their own:

* `addScan` after `dbLoadRecords` moves slower rates up by one and loaded records
  stay at their number: they scan at another rate.  README asks only for "before
  iocInit".
* In `ifEnvSet` a comparison with `<` or `>` of something that is no number is
  false, but leaves the variable instead of setting its else value.
* A signal while main is in `epicsExit` ends the process with the exit handlers half
  run: `epicsExitCallAtExits` finds them begun and returns at once
  (`src/termSig.c:56`), and `raise` follows.
* An exec inside an eval gets `>&-1`, because a memory stream has no
  descriptor, and its output is lost; exec without arguments has `2>2` for
  `2>&2` and makes a file `2` in the working directory.
* cp leaves its source open when the target cannot be opened, and empties a file
  that is copied to itself.
* ulimit shifts a limit into its unit without a check, takes an empty limit for
  0, and loses what another shell sets between its reading and its writing.
* The short format of ls counts the files and prints that many entries from the
  front of `gl_pathv`: `ls d f` with a directory `d` and a file `f` prints `d` among
  the files and then takes `f` for a directory, although the code means to "do
  directories later" (`src/disctools.c:216`); a name that does not exist in front
  does the same.  An argument with `/` behind others removes those of theirs that
  are no directories.
* dbll with a field other than `VAL` or `*` does not show targets without field,
  not even if a pattern like `V*` matches `VAL`.

## 7. Not modelled

* Variants for vxWorks and EPICS 3.13 (functions called by address, the system
  clock rate), which other builds do not compile.
* The text of commands: `afterInit.c` builds it in a fixed buffer.
* Registration from two threads at once: the list has no lock, and startup
  scripts are run by one thread.
* Commands of the list of afterInit that pause, run or shut down the IOC themselves
  and so enter `afterInitHook` inside `afterInitHook`.
* Of `threads.c`, errors of the kernel other than an empty CPU set, threads that end
  between lookup and use, and numbers that are the id of no thread, which the code
  takes for one.
* Of `disctools.c` umask and chmod (an octal number and one system call each), the
  layout of `ll`, and the columns in which `ls` prints what is inside a directory;
  directories that `glob` cannot read, which would look empty to rm.
* Of `ifEnvSet.c`, the vertical tab as white space in front of a number.
* The characters of exec's command line, the escapes of echo and the layout of
  what ulimit prints; `dbl`, which listRecords calls.
* `cal`: it changes nothing and prints lists of the CA server under two of the
  server's locks.  Whether that order of locks can block, and what may happen to
  the lists meanwhile, is decided in EPICS base, of which `src/` shows nothing.
* `mlock` (two system calls), `bootNotify` (vxWorks only: a text for `rsh`),
  `winunixconv` (replaces `\` by `/` in a variable; not in the Makefile), build
  files and registrars.

## 8. Plan

Order of the modules was: AfterInit with its promise and proofs (the most
intricate state), Menus, TermSig, Threads, IfEnvSet, Disc, then Ulimit, Redirect
and Shell, DbLists and DirList.  Every function with logic of its own that other
code than base decides is modelled, and every invariant of the runs is proved.
What could follow is another process that changes directories while ls reads
them.

New modules share runs with those of the same file where they can, so that all
runs together stay short enough to be repeated with every change.
