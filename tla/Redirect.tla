------------------------------ MODULE Redirect ------------------------------
(***************************************************************************)
(* Commands of one shell that redirect its standard output or copy streams *)
(* and may run each other: eval.c, listRecords.c, exec.c, echo.c, cp of    *)
(* disctools.c, and ulimit.c of the module Ulimit, which limits the files  *)
(* that can be opened.                                                     *)
(*                                                                         *)
(* What is typed or printed is a sequence of lines; Meaning says what a    *)
(* line does as a command.                                                 *)
(***************************************************************************)
EXTENDS Ulimit, FiniteSets, SequencesExt

CONSTANTS
  Main,       \* the shell whose commands are modelled here
  Meaning,    \* [lines -> [op, ...]]: what a line does when it is run
  Joined,     \* [texts of several lines -> line]: those that begin with the name of a command
              \* and the line that does the same
  Long,       \* lines whose words, quoted, do not fit in the command line buffer
  Typed,      \* what is read from stdin by cp without a source
  Listing,    \* the lines that dbl prints
  Shown,      \* the line that ulimit prints of a limit
  Files, ReadOnly, Directories,
  Filling,    \* files on a disk that may be full at any time
  MaxSignals  \* bound: signals during one call of sleep

None == "none"
Commands == DOMAIN Meaning
Blank == " "
Text == Seq(STRING)

Meanings ==
  [op : {"echo", "exec"}, text : STRING]
  \cup [op : {"eval"}, of : STRING]
  \cup [op : {"listRecords"}, file : Files \cup {None}]
  \cup [op : {"cp"}, source : Files \cup {None}, target : Files \cup {None}]
  \cup [op : {"ulimit"}, options : Seq(STRING), limit : LimitArgs]
  \cup [op : {"sleep"}, time : Int]

ASSUME RedirectAssumption ==
  /\ Main \in Shells /\ MaxSignals \in Nat
  /\ Meaning \in [Commands -> Meanings] /\ Commands \subseteq STRING
  /\ Typed \in Text /\ Listing \in Text /\ Shown \in STRING
  /\ ReadOnly \subseteq Files /\ Directories \subseteq Files /\ Filling \subseteq Files
  /\ \A text \in DOMAIN Joined : text \in Text /\ Joined[text] \in STRING
  /\ Long \subseteq Commands /\ Blank \in STRING \ Commands /\ None \notin Files

VARIABLES
  out,        \* the stream the thread has as stdout
  open,       \* [streams -> [file, text]]: open streams, whose text is written when they are closed
  disk,       \* [Files -> text or Absent]
  eof,        \* the end of stdin has been read
  console,    \* what has been printed since the last command was typed
  stack,      \* the active calls, the innermost last
  timer       \* sleeptime of sleep, what is left of it; history: slept and signals

streamVars == <<out, open, disk, eof, console, stack, timer>>

Absent == <<"no such file">>
Memory == "memory"
Console == 0
ErrorFile == "2"               \* the file of exec without arguments

-----------------------------------------------------------------------------
(* Streams.                                                                *)

NewStream == CHOOSE i \in 1..(Cardinality(DOMAIN open) + 1) :
               i \notin DOMAIN open /\ \A j \in 1..(i - 1) : j \in DOMAIN open
Opened(i, file) ==
  [j \in DOMAIN open \cup {i} |-> IF j = i THEN [file |-> file, text |-> <<>>] ELSE open[j]]

\* A memory stream is no descriptor.
DescriptorFree == Cardinality({i \in DOMAIN open : open[i].file # Memory}) < limits["n"].cur

CanRead(file) == file \in Directories \/ disk[file] # Absent
CanWrite(file) == file \notin Directories \cup ReadOnly

Write(stream, lines) ==
  IF stream = Console THEN console' = console \o lines /\ UNCHANGED open
  ELSE /\ open' = [i \in DOMAIN open |->
                     IF i = stream THEN [open[i] EXCEPT !.text = @ \o lines] ELSE open[i]]
       /\ UNCHANGED console

Puts(lines) == Write(out, lines)

Without(streams) == [i \in DOMAIN open \ streams |-> open[i]]

-----------------------------------------------------------------------------
(* Calls.  outer and the flags in the first frame are history.             *)

Frame(line, stdout) ==
  [line |-> line, at |-> "begin", stream |-> Console, orig |-> Console, source |-> Console,
   buffer |-> <<>>, outer |-> stdout]

Top == Last(stack)
Command == Meaning[Top.line]
At(op, place) == stack # <<>> /\ Top.line \in Commands /\ Command.op = op /\ Top.at = place

Goto(frame) == stack' = Append(Front(stack), frame)
Leave == stack' = Front(stack)

\* iocshCmd: the frame waits at the place until the command has returned.
IocshCmd(frame, line) == stack' = Front(stack) \o <<frame, Frame(line, out')>>

\* What a text does when it is run as one command: the newlines are part of
\* its words.  A blank line does nothing.
LineOf(text) ==
  IF Len(text) = 1 THEN text[1] ELSE IF text \in DOMAIN Joined THEN Joined[text] ELSE Blank

\* A blank line and a name of no command do nothing.
Unknown ==
  /\ stack # <<>> /\ Top.line \notin Commands
  /\ Leave /\ UNCHANGED <<limitVars, timer, out, open, disk, eof, console>>

EchoFunc ==
  /\ At("echo", "begin")
  /\ Puts(<<Command.text>>) /\ Leave
  /\ UNCHANGED <<limitVars, timer, out, disk, eof>>

\* The program writes to the descriptor of stdout.  A memory stream has none:
\* the command line then has >&-1, and the system shell refuses it or runs the
\* program with stdout closed.  Without arguments 2>2 makes a file.
ExecFunc ==
  /\ At("exec", "begin")
  /\ LET runs == Top.line \notin Long
         made == [disk EXCEPT ![ErrorFile] = <<>>]
     IN  /\ console' = IF runs /\ Command.text # None /\ out = Console
                       THEN Append(console, Command.text) ELSE console
         /\ disk' \in IF ~runs \/ Command.text # None THEN {disk}
                      ELSE IF out = Console THEN {made} ELSE {disk, made}
  /\ Leave
  /\ UNCHANGED <<limitVars, timer, out, open, eof>>

\* Trailing white space is cut off.
Trimmed(text) ==
  SubSeq(text, 1, CHOOSE n \in 0..Len(text) :
                    (n = 0 \/ text[n] # Blank) /\ \A k \in (n + 1)..Len(text) : text[k] = Blank)

EvalTooLong ==
  /\ At("eval", "begin") /\ Top.line \in Long
  /\ Leave /\ UNCHANGED <<limitVars, timer, out, open, disk, eof, console>>

\* Mutant: stdout is restored to that of the process.
EvalRestoresConsole ==
  /\ At("eval", "begin") /\ Top.line \notin Long
  /\ open' = Opened(NewStream, Memory)
  /\ out' = NewStream
  /\ IocshCmd([Top EXCEPT !.at = "captured", !.stream = NewStream], Command.of)
  /\ UNCHANGED <<limitVars, timer, disk, eof, console>>

EvalCapture ==
  /\ At("eval", "begin") /\ Top.line \notin Long
  /\ open' = Opened(NewStream, Memory)
  /\ out' = NewStream
  /\ IocshCmd([Top EXCEPT !.at = "captured", !.stream = NewStream, !.orig = out], Command.of)
  /\ UNCHANGED <<limitVars, timer, disk, eof, console>>

\* Mutant: the stream is closed but stays stdout.
EvalKeepsStdout ==
  /\ At("eval", "captured")
  /\ open' = Without({Top.stream})
  /\ Goto([Top EXCEPT !.at = "output", !.buffer = Trimmed(open[Top.stream].text)])
  /\ UNCHANGED <<limitVars, timer, out, disk, eof, console>>

\* Mutant: the memory stream is not closed.
EvalNotClosed ==
  /\ At("eval", "captured")
  /\ out' = Top.orig
  /\ Goto([Top EXCEPT !.at = "output", !.buffer = Trimmed(open[Top.stream].text)])
  /\ UNCHANGED <<limitVars, timer, open, disk, eof, console>>

EvalRestore ==
  /\ At("eval", "captured")
  /\ out' = Top.orig
  /\ open' = Without({Top.stream})
  /\ Goto([Top EXCEPT !.at = "output", !.buffer = Trimmed(open[Top.stream].text)])
  /\ UNCHANGED <<limitVars, timer, disk, eof, console>>

\* All that was captured is run as one command.
EvalOutput ==
  /\ At("eval", "output")
  /\ UNCHANGED <<limitVars, timer, out, open, disk, eof, console>>
  /\ IocshCmd([Top EXCEPT !.at = "end"], LineOf(Top.buffer))

\* Mutant: the output is run again when its command has returned.
EvalAgain ==
  /\ At("eval", "end")
  /\ Goto([Top EXCEPT !.at = "output"])
  /\ UNCHANGED <<limitVars, timer, out, open, disk, eof, console>>

EvalEnd ==
  /\ At("eval", "end")
  /\ Leave /\ UNCHANGED <<limitVars, timer, out, open, disk, eof, console>>

ListRecordsOpen ==
  /\ At("listRecords", "begin")
  /\ LET file == Command.file IN
       IF file = None THEN Goto([Top EXCEPT !.at = "list"]) /\ UNCHANGED <<open, disk, out>>
       ELSE IF ~CanWrite(file) \/ ~DescriptorFree THEN Leave /\ UNCHANGED <<open, disk, out>>
       ELSE /\ open' = Opened(NewStream, file) /\ disk' = [disk EXCEPT ![file] = <<>>]
            /\ out' = NewStream
            /\ Goto([Top EXCEPT !.at = "list", !.stream = NewStream, !.orig = out])
  /\ UNCHANGED <<limitVars, timer, eof, console>>

ListRecordsDbl ==
  /\ At("listRecords", "list")
  /\ Puts(Listing)
  /\ IF Top.stream = Console THEN Leave ELSE Goto([Top EXCEPT !.at = "close"])
  /\ UNCHANGED <<limitVars, timer, out, disk, eof>>

\* The file is closed while it is still stdout, then stdout is restored.
ListRecordsClose ==
  /\ At("listRecords", "close")
  /\ open' = Without({Top.stream})
  /\ disk' = [disk EXCEPT ![open[Top.stream].file] = open[Top.stream].text]
  /\ out' = Top.orig
  /\ Leave
  /\ UNCHANGED <<limitVars, timer, eof, console>>

-----------------------------------------------------------------------------
(* cp.  The source stays open when the target cannot be opened.            *)

CpSource ==
  /\ At("cp", "begin")
  /\ LET source == Command.source IN
       IF source = None THEN Goto([Top EXCEPT !.at = "target"]) /\ UNCHANGED open
       ELSE IF ~CanRead(source) \/ ~DescriptorFree THEN Leave /\ UNCHANGED open
       ELSE /\ open' = Opened(NewStream, source)
            /\ Goto([Top EXCEPT !.at = "target", !.source = NewStream])
  /\ UNCHANGED <<limitVars, timer, out, disk, eof, console>>

CpTarget ==
  /\ At("cp", "target")
  /\ LET target == Command.target IN
       IF target = None THEN Goto([Top EXCEPT !.at = "copy"]) /\ UNCHANGED <<open, disk>>
       ELSE IF ~CanWrite(target) \/ ~DescriptorFree THEN Leave /\ UNCHANGED <<open, disk>>
       ELSE /\ open' = Opened(NewStream, target) /\ disk' = [disk EXCEPT ![target] = <<>>]
            /\ Goto([Top EXCEPT !.at = "copy", !.stream = NewStream])
  /\ UNCHANGED <<limitVars, timer, out, eof, console>>

\* What is read: nothing from a directory, which fails, nor from stdin after
\* its end.
Source ==
  IF Command.source = None THEN IF eof THEN <<>> ELSE Typed
  ELSE IF Command.source \in Directories THEN <<>> ELSE disk[Command.source]

\* Mutant: without target it is copied to stdout of the process.
CpToProcess ==
  /\ At("cp", "copy")
  /\ Write(Top.stream, Source)
  /\ eof' = (eof \/ Command.source = None)
  /\ Goto([Top EXCEPT !.at = "close"])
  /\ UNCHANGED <<limitVars, timer, out, disk>>

\* ferror(targetfile): a part of the text has been written, and what is left
\* in the source is not read.
TargetFails ==
  /\ Command.target \in Filling
  /\ \E n \in 0..(Len(Source) - 1) : Write(Top.stream, SubSeq(Source, 1, n))
  /\ eof' \in {eof, eof \/ Command.source = None}

CpCopy ==
  /\ At("cp", "copy")
  /\ \/ /\ Write(IF Command.target = None THEN out ELSE Top.stream, Source)
        /\ eof' = (eof \/ Command.source = None)
     \/ TargetFails
  /\ Goto([Top EXCEPT !.at = "close"])
  /\ UNCHANGED <<limitVars, timer, out, disk>>

CpClose ==
  /\ At("cp", "close")
  /\ open' = Without({Top.source, Top.stream})
  /\ disk' = IF Command.target = None THEN disk
             ELSE [disk EXCEPT ![Command.target] = open[Top.stream].text]
  /\ Leave
  /\ UNCHANGED <<limitVars, timer, out, eof, console>>

-----------------------------------------------------------------------------
(* ulimit in this shell prints to the same stdout.                         *)

UlimitBegin ==
  /\ At("ulimit", "begin")
  /\ UlimitFunc(Main, Command.options, Command.limit)
  /\ Goto([Top EXCEPT !.at = "limits"])
  /\ UNCHANGED <<limits, root, timer, out, open, disk, eof, console>>

UlimitLetter ==
  /\ At("ulimit", "limits") /\ call[Main].at # "done"
  /\ Puts(IF PrintsLine(Main) THEN <<Shown>> ELSE <<>>)
  /\ UlimitStep(Main)
  /\ UNCHANGED <<timer, out, disk, eof, stack>>

UlimitEnd ==
  /\ At("ulimit", "limits") /\ UlimitReturn(Main)
  /\ Leave
  /\ UNCHANGED <<timer, out, open, disk, eof, console>>

-----------------------------------------------------------------------------
(* sleep calls nanosleep until no signal interrupts it.                    *)

NoTimer == [sleeptime |-> 0, left |-> 0, slept |-> 0, signals |-> 0]
streamsOnly == <<out, open, disk, eof, console>>

\* A negative time is an error that is no EINTR.
SleepRefused ==
  /\ At("sleep", "begin") /\ Command.time < 0
  /\ Leave /\ UNCHANGED <<limitVars, timer, streamsOnly>>

SleepFunc ==
  /\ At("sleep", "begin") /\ Command.time >= 0
  /\ timer' = [NoTimer EXCEPT !.sleeptime = Command.time, !.left = Command.time]
  /\ Goto([Top EXCEPT !.at = "sleeping"])
  /\ UNCHANGED <<limitVars, streamsOnly>>

\* External: time passes.
SleepTick ==
  /\ At("sleep", "sleeping") /\ timer.left > 0
  /\ timer' = [timer EXCEPT !.left = @ - 1, !.slept = @ + 1]
  /\ UNCHANGED <<limitVars, streamsOnly, stack>>

\* Mutant: the same time is slept again.
AllOfIt == timer.sleeptime

\* EINTR: nanosleep has stored what is left in sleeptime.
Remaining == timer.left

SleepAgain ==
  /\ At("sleep", "sleeping") /\ timer.left > 0 /\ timer.signals < MaxSignals
  /\ timer' = [timer EXCEPT !.sleeptime = Remaining, !.left = Remaining, !.signals = @ + 1]
  /\ UNCHANGED <<limitVars, streamsOnly, stack>>

SleepEnd ==
  /\ At("sleep", "sleeping") /\ timer.left = 0
  /\ timer' = NoTimer /\ Leave
  /\ UNCHANGED <<limitVars, streamsOnly>>

Return == Unknown \/ EvalTooLong \/ EvalEnd \/ SleepRefused

CallStep ==
  \/ EchoFunc \/ ExecFunc \/ Return
  \/ EvalCapture \/ EvalRestore \/ EvalOutput
  \/ ListRecordsOpen \/ ListRecordsDbl \/ ListRecordsClose
  \/ CpSource \/ CpTarget \/ CpCopy \/ CpClose
  \/ UlimitBegin \/ UlimitLetter \/ UlimitEnd
  \/ SleepFunc \/ SleepTick \/ SleepEnd
=============================================================================
