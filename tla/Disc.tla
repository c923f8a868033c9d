-------------------------------- MODULE Disc --------------------------------
(***************************************************************************)
(* disctools.c: rm, mv, mkdir and rmdir, called from one or more shells    *)
(* while other processes use the same directories.  Every system call is a *)
(* step.                                                                   *)
(*                                                                         *)
(* The file system (external) is the tree below the working directory of   *)
(* the IOC: a path is the sequence of its names.                           *)
(***************************************************************************)
EXTENDS Integers, SequencesExt

CONSTANTS
  Path,           \* bound on the tree: the paths that can exist
  InitialTrees,
  Hidden,         \* the names with a leading dot
  Reads,          \* what glob takes a name for when it stands in a pattern:
                  \* the set of names it matches
  Shell,
  Commands        \* command lines for rm: sequences of words, see Word

Names == {Last(p) : p \in Path}
Kind == {"file", "dir"}

\* What a word is to rm; an option has the letter r or has not; every word
\* can be a path.
Word == [type : {"option", "--", "file"}, r : BOOLEAN, path : Seq(STRING) \ {<<>>}]

\* Files and directories, each in a directory that exists
IsTree(t) ==
  /\ t \in [DOMAIN t -> Kind] /\ DOMAIN t \subseteq Path
  /\ \A p \in DOMAIN t : Len(p) > 1 => Front(p) \in DOMAIN t /\ t[Front(p)] = "dir"

ASSUME DiscAssumption ==
  /\ Path \subseteq Seq(STRING) \ {<<>>}
  /\ \A t \in InitialTrees : IsTree(t)
  /\ Reads["*"] = Names \ Hidden
  /\ Commands \subseteq Seq(Word)

VARIABLES
  tree,       \* path -> file or dir, for the paths that exist
  call,       \* shell -> the active call, or Idle
  began       \* history: shell -> the tree its call of rm began with, unless
              \* something else has changed it since, malloc has failed or the
              \* kernel has refused to remove something

vars == <<tree, call, began>>

Exists(p) == p \in DOMAIN tree
IsDir(p) == p = <<>> \/ (Exists(p) /\ tree[p] = "dir")
Below(p) == {q \in DOMAIN tree : IsStrictPrefix(p, q)}

Without(p) == [q \in DOMAIN tree \ {p} |-> tree[q]]
With(p, kind) == [q \in DOMAIN tree \cup {p} |-> IF q = p THEN kind ELSE tree[q]]

Idle == [func |-> "none"]
InRm(sh) == call[sh].func = "rm"

\* A shell changes the tree: others are disturbed if it is another tree.
Changes(sh, new) ==
  /\ tree' = new
  /\ began' = [o \in Shell |-> IF o = sh \/ new = tree THEN began[o] ELSE {}]

Init ==
  /\ tree \in InitialTrees
  /\ call = [sh \in Shell |-> Idle]
  /\ began = [sh \in Shell |-> {}]

-----------------------------------------------------------------------------
(* mkdir, rmdir, mv.                                                       *)

\* mkdir(2)
CanCreate(p) == p \in Path /\ ~Exists(p) /\ IsDir(IF Len(p) = 1 THEN <<>> ELSE Front(p))

MkdirFunc(sh, p) ==
  /\ CanCreate(p)
  /\ Changes(sh, With(p, "dir"))
  /\ UNCHANGED call

\* External: the tree after rmdir(2), which takes only empty directories
Rmdir(p) == IF IsDir(p) /\ Below(p) = {} THEN Without(p) ELSE tree

RmdirFunc(sh, p) ==
  /\ Changes(sh, Rmdir(p))
  /\ UNCHANGED call

\* External: rename(2).  What is below moves along; a file or an empty
\* directory in the place is replaced.
CanRename(old, new) ==
  /\ Exists(old)
  /\ ~IsStrictPrefix(old, new)
  /\ CanCreate(new) \/ /\ Exists(new) /\ new # old
                       /\ tree[new] = tree[old] /\ Below(new) = {}

Renamed(old, new) ==
  LET moved == {old} \cup Below(old)
      to(q) == new \o SubSeq(q, Len(old) + 1, Len(q))
      origin(p) == CHOOSE q \in moved : to(q) = p
      targets == {to(q) : q \in moved}
  IN  [p \in (DOMAIN tree \ moved) \cup targets |->
         IF p \in targets THEN tree[origin(p)] ELSE tree[p]]

\* stat first: into an existing directory the file goes under its own name,
\* which is the whole path it was given with.
MvFunc(sh, old, new) ==
  /\ call' = [call EXCEPT ![sh] = [func |-> "mv", old |-> old,
                                   new |-> IF IsDir(new) THEN new \o old ELSE new]]
  /\ UNCHANGED <<tree, began>>

MvRename(sh) ==
  /\ call[sh].func = "mv"
  /\ LET c == call[sh]
         fits == CanRename(c.old, c.new) /\ DOMAIN Renamed(c.old, c.new) \subseteq Path
     IN  Changes(sh, IF fits THEN Renamed(c.old, c.new) ELSE tree)
  /\ call' = [call EXCEPT ![sh] = Idle]

-----------------------------------------------------------------------------
(* rm.                                                                     *)

IsPlain(p) == \A k \in 1..Len(p) : Reads[p[k]] = {p[k]}

\* A name without wildcards is taken as it is, even if there is no such file.
Glob(pattern) ==
  IF IsPlain(pattern) THEN {pattern}
  ELSE {p \in DOMAIN tree : Len(p) = Len(pattern) /\ \A k \in 1..Len(p) : p[k] \in Reads[pattern[k]]}

\* Mutant: the pass over the options ends at the first file.
FlagsInFront(args) ==
  \E k \in 1..Len(args) : /\ args[k].type = "option" /\ args[k].r
                          /\ \A j \in 1..(k - 1) : args[j].type = "option"

\* The first pass over the words: flags.r, from any option before a --
Flags(args) ==
  \E k \in 1..Len(args) : /\ args[k].type = "option" /\ args[k].r
                          /\ \A j \in 1..(k - 1) : args[j].type # "--"

RmFunc(sh, args) ==
  /\ call' = [call EXCEPT ![sh] = [func |-> "rm", args |-> args, r |-> Flags(args),
                                   next |-> 1, endflags |-> FALSE, frames |-> <<>>]]
  /\ began' = [began EXCEPT ![sh] = {tree}]
  /\ UNCHANGED tree

\* An active call of rmPriv: the directory it was called for (<<>> if it was
\* called by rmFunc) and what is left of its globresult
Frame(of, todo) == [of |-> of, todo |-> todo]

Frames(sh) == call[sh].frames
Todo(sh) == IF InRm(sh) /\ Frames(sh) # <<>> THEN Last(Frames(sh)).todo ELSE {}
SetFrames(sh, frames) == call' = [call EXCEPT ![sh].frames = frames]

\* The second pass: the next word, if it is no option, is given to rmPriv.
RmNext(sh) ==
  /\ InRm(sh) /\ Frames(sh) = <<>>
  /\ call[sh].next <= Len(call[sh].args)
  /\ LET word == call[sh].args[call[sh].next]
         skips == ~call[sh].endflags /\ word.type # "file"
     IN  call' = [call EXCEPT ![sh].next = @ + 1,
                              ![sh].endflags = @ \/ word.type = "--",
                              ![sh].frames = IF skips THEN <<>> ELSE <<Frame(<<>>, Glob(word.path))>>]
  /\ UNCHANGED <<tree, began>>

\* Mutant: directories are entered without -r.
RmAlways(sh, p) ==
  /\ p \in Todo(sh)
  /\ LET f == Last(Frames(sh))
         rest == Append(Front(Frames(sh)), Frame(f.of, f.todo \ {p}))
     IN  \/ ~IsDir(p) /\ SetFrames(sh, rest) /\ Changes(sh, Without(p))
         \/ IsDir(p) /\ SetFrames(sh, Append(rest, Frame(p, Glob(Append(p, "*"))))) /\ Changes(sh, tree)

\* Mutant: what cannot be removed is tried again.
RmRetries(sh, p) ==
  /\ p \in Todo(sh)
  /\ LET f == Last(Frames(sh))
         rest == Append(Front(Frames(sh)), Frame(f.of, f.todo \ {p}))
     IN  \/ Exists(p) /\ ~IsDir(p) /\ SetFrames(sh, rest) /\ Changes(sh, Without(p))
         \/ ~Exists(p) /\ SetFrames(sh, Frames(sh)) /\ Changes(sh, tree)
         \/ /\ IsDir(p) /\ call[sh].r
            /\ SetFrames(sh, Append(rest, Frame(p, Glob(Append(p, "*")))))
            /\ Changes(sh, tree)

\* Mutant: "/*" is missing behind the name of the directory.
RmSamePattern(sh, p) ==
  /\ p \in Todo(sh)
  /\ LET f == Last(Frames(sh))
         rest == Append(Front(Frames(sh)), Frame(f.of, f.todo \ {p}))
     IN  \/ ~IsDir(p) /\ SetFrames(sh, rest) /\ Changes(sh, Without(p))
         \/ IsDir(p) /\ ~call[sh].r /\ SetFrames(sh, rest) /\ Changes(sh, tree)
         \/ IsDir(p) /\ call[sh].r /\ SetFrames(sh, Append(rest, Frame(p, Glob(p)))) /\ Changes(sh, tree)

\* One turn of the loop of rmPriv: unlink, or for a directory the recursive
\* call with a new pattern.  Where unlink is refused for another reason, or
\* malloc for the pattern fails, the path stays and is done with.
RmUnlink(sh, p) ==
  /\ p \in Todo(sh)
  /\ LET f == Last(Frames(sh))
         rest == Append(Front(Frames(sh)), Frame(f.of, f.todo \ {p}))
     IN  \/ ~IsDir(p) /\ SetFrames(sh, rest) /\ Changes(sh, Without(p))
         \/ IsDir(p) /\ ~call[sh].r /\ SetFrames(sh, rest) /\ Changes(sh, tree)
         \/ /\ IsDir(p) /\ call[sh].r
            /\ SetFrames(sh, Append(rest, Frame(p, Glob(Append(p, "*")))))
            /\ Changes(sh, tree)
         \/ /\ SetFrames(sh, rest)
            /\ began' = [began EXCEPT ![sh] = {}]
            /\ UNCHANGED tree

\* rmPriv returns; its caller removes the directory it was called for, unless
\* rmdir is refused.
RmReturn(sh) ==
  /\ InRm(sh) /\ Frames(sh) # <<>>
  /\ Last(Frames(sh)).todo = {}
  /\ SetFrames(sh, Front(Frames(sh)))
  /\ \/ Changes(sh, IF Last(Frames(sh)).of = <<>> THEN tree ELSE Rmdir(Last(Frames(sh)).of))
     \/ /\ Last(Frames(sh)).of # <<>>
        /\ began' = [began EXCEPT ![sh] = {}]
        /\ UNCHANGED tree

RmEnds(sh) == InRm(sh) /\ Frames(sh) = <<>> /\ call[sh].next > Len(call[sh].args)

RmDone(sh) ==
  /\ RmEnds(sh)
  /\ call' = [call EXCEPT ![sh] = Idle]
  /\ began' = [began EXCEPT ![sh] = {}]
  /\ UNCHANGED tree

-----------------------------------------------------------------------------
\* External: another process uses the directories.
OtherProcess(p) ==
  /\ \/ \E kind \in Kind : CanCreate(p) /\ tree' = With(p, kind)
     \/ Exists(p) /\ ~IsDir(p) /\ tree' = Without(p)
     \/ tree' = Rmdir(p) /\ tree' # tree
  /\ began' = [sh \in Shell |-> {}]
  /\ UNCHANGED call

Goes(sh) ==
  MvRename(sh) \/ RmNext(sh) \/ (\E p \in Todo(sh) : RmUnlink(sh, p)) \/ RmReturn(sh) \/ RmDone(sh)

Next ==
  \/ \E sh \in Shell :
       \/ Goes(sh)
       \/ /\ call[sh] = Idle
          /\ \/ \E p \in Path : \/ MkdirFunc(sh, p) \/ RmdirFunc(sh, p)
                               \/ \E q \in Path : MvFunc(sh, p, q)
             \/ \E args \in Commands : RmFunc(sh, args)
  \/ \E p \in Path : OtherProcess(p)

\* A shell that has called a function runs it.
Spec == Init /\ [][Next]_vars /\ \A sh \in Shell : WF_vars(Goes(sh))

-----------------------------------------------------------------------------
(* Properties.                                                             *)

\* The words of a command line that are files: all after the first --
IsOperand(args, k) == args[k].type = "file" \/ \E j \in 1..(k - 1) : args[j].type = "--"

Recursive(args) ==
  \E k \in 1..Len(args) : args[k].type = "option" /\ args[k].r /\ ~IsOperand(args, k)

\* The active calls of rmPriv, of which the first has paths of as many names
\* as its word: each further one is for a directory that the one it is called
\* from has taken out of its globresult, and has paths of one name more.
Nested(frames, length) ==
  /\ \A f \in 1..Len(frames) : \A q \in frames[f].todo : Len(q) = length + f - 1
  /\ \A f \in 2..Len(frames) :
       Len(frames[f].of) = length + f - 2 /\ frames[f].of \notin frames[f - 1].todo

\* A call of rm that has got to the word next knows from the words before it
\* whether options have ended and from all of them whether it goes into
\* directories, and the directories it is in are nested one in the other.
TypeOK ==
  /\ tree \in [DOMAIN tree -> Kind] /\ DOMAIN tree \subseteq Path
  /\ DOMAIN call = Shell
  /\ \A sh \in Shell :
       LET c == call[sh] IN
       InRm(sh) =>
         /\ c.args \in Commands /\ c.next \in 1..(Len(c.args) + 1)
         /\ c.r <=> Recursive(c.args)
         /\ c.endflags <=> \E j \in 1..(c.next - 1) : c.args[j].type = "--"
         /\ \A f \in 1..Len(c.frames) : c.frames[f].of # <<>> <=> f > 1
         /\ Len(c.frames) > 1 => c.r
         /\ Nested(c.frames, Len(c.args[c.next - 1].path))

\* The path is what one of the words stands for.
Meant(p, args) ==
  \E k \in 1..Len(args) :
    /\ IsOperand(args, k)
    /\ Len(p) = Len(args[k].path)
    /\ \A j \in 1..Len(p) : p[j] \in Reads[args[k].path[j]]

\* What a step of rm takes away is what its arguments stand for or, with -r
\* alone, a directory or what is below it and is not hidden; but where the
\* name of a directory on the way has wildcards of its own, any file may be hit.
RemovesAsked(sh) ==
  InRm(sh) /\ tree' # tree /\ call'[sh] # call[sh] =>
    \A p \in DOMAIN tree \ DOMAIN tree' :
      LET recursive == Recursive(call[sh].args)
      IN  \/ Meant(p, call[sh].args) /\ (tree[p] = "file" \/ recursive)
          \/ /\ recursive /\ Last(p) \notin Hidden
             /\ \E n \in 1..(Len(p) - 1) : Meant(SubSeq(p, 1, n), call[sh].args)
          \/ \E f \in 1..Len(Frames(sh)) : ~IsPlain(Frames(sh)[f].of)

\* rm removes only what it is asked to, with the one exception above.
OnlyAskedRemoved == [][\A sh \in Shell : RemovesAsked(sh)]_vars

\* Something that rm -r does not see when it empties p: what is hidden, and
\* what is in a directory whose name has wildcards
Excused(p, before) ==
  \E q \in DOMAIN before :
    IsPrefix(p, q) /\ (~IsPlain(q) \/ (q # p /\ Last(q) \in Hidden))

\* A call of rm that nothing disturbs leaves of what its arguments stand for
\* only directories: all of them without -r, and with -r those that were
\* excused when it began.
AllAskedRemoved ==
  \A sh \in Shell :
    RmEnds(sh) =>
      \A before \in began[sh], p \in DOMAIN tree :
        Meant(p, call[sh].args) =>
          tree[p] = "dir" /\ (Recursive(call[sh].args) => Excused(p, before))

\* Every call of rm ends, whatever others make or take away meanwhile.
RmReturns == \A sh \in Shell : InRm(sh) ~> ~InRm(sh)
=============================================================================
