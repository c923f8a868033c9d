---------------------------- MODULE ShellPromise ----------------------------
(***************************************************************************)
(* What the commands of a shell promise: the lines they print and the      *)
(* files they leave.  The promise of an eval is that of the commands it    *)
(* stands for; evals that are nested more than MaxDepth deep, or without   *)
(* an end, are left open.                                                  *)
(***************************************************************************)
EXTENDS Shell

CONSTANT MaxDepth   \* bound on the nesting

ASSUME PromiseAssumption == MaxDepth \in Nat

\* The state of the outside: the lines printed so far, the files, the end of
\* stdin; and that it is known.
Outside == [done : BOOLEAN, printed : Text, disk : [Files -> Text], eof : BOOLEAN]

Printing(st, lines) == [st EXCEPT !.printed = @ \o lines]
Storing(st, file, text) == [st EXCEPT !.disk[file] = text]

\* The lines ulimit shows: all limits as one, or one for each letter.
Shows(options, limit) ==
  IF "a" \in Letters(options) THEN 1
  ELSE IF limit.kind # "missing" THEN 0
  ELSE Cardinality({k \in 1..Len(Selected(options)) : Selected(options)[k] \in Resources})

Repeated(line, n) == [k \in 1..n |-> line]

\* What cp reads; the file it copies to itself is empty by then.
Reads(c, st) ==
  CASE c.source = None -> IF st.eof THEN <<>> ELSE Typed
    [] c.source # None -> IF c.source \in Directories \cup {c.target} THEN <<>>
                          ELSE st.disk[c.source]

CanCopy(c, st) ==
  /\ c.source \in Directories \cup {None} \/ st.disk[c.source] # Absent
  /\ c.target = None \/ CanWrite(c.target)

Copied(c, st) ==
  LET read == [st EXCEPT !.eof = @ \/ c.source = None]
  IN  IF c.target = None THEN Printing(read, Reads(c, st))
                         ELSE Storing(read, c.target, Reads(c, st))

\* What every command but eval does
Effect(line, st) ==
  IF line \notin Commands THEN st
  ELSE LET c == Meaning[line] IN
    CASE c.op = "echo" -> Printing(st, <<c.text>>)
      [] c.op = "exec" /\ line \notin Long /\ c.text # None -> Printing(st, <<c.text>>)
      [] c.op = "listRecords" /\ c.file = None -> Printing(st, Listing)
      [] c.op = "listRecords" /\ c.file # None /\ CanWrite(c.file) -> Storing(st, c.file, Listing)
      [] c.op = "cp" /\ CanCopy(c, st) -> Copied(c, st)
      [] c.op = "ulimit" -> Printing(st, Repeated(Shown, Shows(c.options, c.limit)))
      [] OTHER -> st

Evals(line) == line \in Commands /\ Meaning[line].op = "eval" /\ line \notin Long

\* eval runs what its command has printed, and prints what this prints.
Ran(run, line, st) ==
  IF ~Evals(line) THEN Effect(line, st)
  ELSE LET inner == run[<<Meaning[line].of, [st EXCEPT !.printed = <<>>]>>]
           lines == Trimmed(inner.printed)
           after == [inner EXCEPT !.printed = st.printed]
       IN  run[<<LineOf(lines), after>>]

Promise ==
  LET promise[d \in 0..MaxDepth] ==
        [x \in STRING \X Outside |-> IF d = 0 THEN [x[2] EXCEPT !.done = FALSE]
                                     ELSE Ran(promise[d - 1], x[1], x[2])]
  IN  promise

\* Nested to the depth d at most
Promised(d, line, st) ==
  IF d \in 0..MaxDepth THEN Promise[d][<<line, st>>] ELSE [st EXCEPT !.done = FALSE]

Outcome ==
  Promised(MaxDepth, command,
           [done |-> TRUE, printed |-> <<>>, disk |-> start.disk, eof |-> start.eof])

KeepsPromise ==
  /\ console = Outcome.printed /\ eof = Outcome.eof
  /\ \A file \in Files \ {ErrorFile} : disk[file] = Outcome.disk[file]

-----------------------------------------------------------------------------
\* Evals in evals, of commands that redirect stdout themselves, cp from and to
\* anything, files that cannot be opened: when a command has returned it has
\* printed what it stands for and nothing else, and changed the files it
\* names.  Not if descriptors or the disk ran out or a program ran in an eval.
CommandsKeepPromise ==
  stack = <<>> /\ command # None /\ ~short /\ ~refused /\ Outcome.done => KeepsPromise
=============================================================================
