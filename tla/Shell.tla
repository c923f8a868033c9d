------------------------------- MODULE Shell --------------------------------
(***************************************************************************)
(* A shell that runs the commands of Redirect, one after the other, while  *)
(* other shells set limits.                                                *)
(***************************************************************************)
EXTENDS Redirect

CONSTANTS
  Sessions,     \* [root, lines, peer]: what is typed in this shell, [options, limit] of
                \* ulimit in the others
  Contents,     \* [Files -> text or Absent]: the files at the beginning
  InitialLimits \* [Resources -> Rlimit]

ASSUME ShellAssumption ==
  /\ Sessions \subseteq [root : BOOLEAN, lines : SUBSET STRING,
                         peer : SUBSET [options : Seq(STRING), limit : LimitArgs]]
  /\ Contents \in [Files -> Text]
  /\ InitialLimits \in [Resources -> Rlimit]

VARIABLES
  session,      \* bound: the one of Sessions that this behaviour is
  command,      \* history: the line typed last, or None
  start,        \* history: disk and eof when it was typed
  short,        \* history: since then descriptors or a disk did not suffice for a file
  refused,      \* history: since then a program had no stdout
  leaked        \* history: sources of cp whose target could not be opened

historyVars == <<session, command, start, short, refused, leaked>>
vars == <<limitVars, streamVars, historyVars>>

Init ==
  /\ session \in Sessions
  /\ limits = InitialLimits /\ root = session.root /\ call = [s \in Shells |-> NoUlimit]
  /\ out = Console /\ open = [i \in {} |-> None] /\ disk = Contents /\ eof = FALSE
  /\ console = <<>> /\ stack = <<>> /\ timer = NoTimer
  /\ command = None /\ start = [disk |-> Contents, eof |-> FALSE]
  /\ short = FALSE /\ refused = FALSE /\ leaked = {}

\* iocsh reads a line and runs it.
Type(line) ==
  /\ stack = <<>>
  /\ stack' = <<Frame(line, out)>> /\ console' = <<>>
  /\ command' = line /\ start' = [disk |-> disk, eof |-> eof]
  /\ short' = FALSE /\ refused' = FALSE
  /\ UNCHANGED <<limitVars, out, open, disk, eof, timer, session, leaked>>

Opens(file) == file # None /\ ~DescriptorFree

Run ==
  /\ CallStep
  /\ short' = (short \/ (At("cp", "begin") /\ Opens(Command.source))
                     \/ (At("cp", "target") /\ Opens(Command.target))
                     \/ (At("listRecords", "begin") /\ Opens(Command.file))
                     \/ (At("cp", "copy") /\ TargetFails))
  /\ refused' = (refused \/ (At("exec", "begin") /\ Top.line \notin Long /\ out # Console))
  /\ leaked' = IF At("cp", "target") /\ Len(stack') < Len(stack)
               THEN leaked \cup ({Top.source} \ {Console}) ELSE leaked
  /\ UNCHANGED <<session, command, start>>

\* The other shells
Peer(s) ==
  /\ \/ /\ call[s] = NoUlimit /\ \E c \in session.peer : UlimitFunc(s, c.options, c.limit)
        /\ UNCHANGED <<limits, root>>
     \/ UlimitStep(s)
     \/ UlimitReturn(s)
  /\ UNCHANGED <<streamVars, historyVars>>

\* A signal that is handled arrives during a sleep.
Signal == SleepAgain /\ UNCHANGED historyVars

Next ==
  \/ \E line \in session.lines : Type(line)
  \/ Run
  \/ Signal
  \/ \E s \in Shells \ {Main} : Peer(s)

\* iocsh goes on with the command it runs; nobody has to type another.
Spec == Init /\ [][Next]_vars /\ WF_vars(Run)

-----------------------------------------------------------------------------
(* Properties.                                                             *)

TypeOK ==
  /\ UlimitTypeOK
  /\ out \in {Console} \cup DOMAIN open
  /\ \A i \in DOMAIN open : open[i].file \in Files \cup {Memory}
  /\ eof \in BOOLEAN
  /\ \A k \in 1..Len(stack) :
       stack[k].at \in {"begin", "captured", "output", "end", "list", "close", "target", "copy",
                       "limits", "sleeping"}

\* Signals neither shorten a sleep nor begin it again.
SleepsAsAsked == At("sleep", "sleeping") => timer.slept + timer.left = Command.time

\* On every way out a command leaves stdout as it found it.
StdoutRestored == [][Len(stack') < Len(stack) => out' = Top.outer]_vars

\* When nothing runs all streams are closed but the sources of cp whose
\* target could not be opened.
StreamsClosed == stack = <<>> => DOMAIN open = leaked

\* Every command returns, also when all descriptors are used up.
CommandReturns == stack # <<>> ~> stack = <<>>
=============================================================================
