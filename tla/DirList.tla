------------------------------- MODULE DirList -------------------------------
(***************************************************************************)
(* dir, ll and ls of disctools.c: the paths that glob(3) finds for the     *)
(* arguments, first the files, then what is in the directories.  The file  *)
(* system does not change meanwhile.                                       *)
(***************************************************************************)
EXTENDS Selection, SequencesExt

CONSTANT
  Listings    \* [long, cols, args, kind]: what is typed, the columns that fit, the kind of
              \* each name.  An argument is [dironly, paths]: whether it ends in /, and what
              \* glob finds for it, [name, slash], or the argument itself

PathEntry == [name : STRING \ {""}, slash : BOOLEAN]

ASSUME DirListAssumption ==
  \A q \in Listings : /\ q.long \in BOOLEAN /\ q.cols \in Nat \ {0}
                      /\ q.args \in Seq([dironly : BOOLEAN, paths : Seq(PathEntry)]) /\ q.args # <<>>

VARIABLES
  listing,    \* the call, or NoListing
  files,      \* the names printed as files
  sections    \* the directories whose entries are printed, or that cannot be read

dirVars == <<listing, files, sections>>

NoListing == [args |-> <<>>]
Marked == [name |-> "", slash |-> FALSE]     \* an entry of gl_pathv that is done

DirInit == listing = NoListing /\ files = <<>> /\ sections = <<>>

\* GLOB_APPEND.  An argument with / wants directories: what is no directory is
\* removed from offs on, which is not moved by arguments without /.
Glob3(found, arg) ==
  LET all == found.pathv \o arg.paths
  IN  IF ~arg.dironly \/ arg.paths = <<>> THEN [found EXCEPT !.pathv = all]
      ELSE [pathv |-> [k \in 1..Len(all) |->
                         IF k > found.offs /\ ~all[k].slash THEN Marked ELSE all[k]],
            offs |-> Len(all)]

Pathv(args) ==
  LET found[k \in 0..Len(args)] ==
        IF k = 0 THEN [pathv |-> <<>>, offs |-> 0] ELSE Glob3(found[k - 1], args[k])
  IN  found[Len(args)].pathv

\* lstat: a path with a / is never a file.
IsFile(p, kind) == p # Marked /\ ~p.slash /\ kind[p.name] = "file"

FilesIn(paths, kind) == {k \in DOMAIN paths : IsFile(paths[k], kind)}
Done(paths) == {k \in DOMAIN paths : paths[k] = Marked}

NamesOf(paths) == [k \in 1..Len(paths) |-> paths[k].name]

\* Mutant: the last row is lost when it is not full.
RowsShort(numfiles, cols) == numfiles \div cols

Rows(numfiles, cols) == (numfiles - 1) \div cols + 1

\* The short format prints the first numfiles entries in columns, row by row,
\* and marks them as done.
Columns(pathv, numfiles, cols) ==
  LET rows == Rows(numfiles, cols)
      index(n) == (n - 1) \div cols + ((n - 1) % cols) * rows + 1
      cells == [n \in 1..(rows * cols) |-> index(n)]
      printed == Selected(cells, {n \in DOMAIN cells : cells[n] <= numfiles})
  IN  [k \in 1..Len(printed) |-> pathv[printed[k]]]

NotDone(paths) == Selected(paths, DOMAIN paths \ Done(paths))

\* What is printed of a directory, in columns of its own, is not modelled: only
\* which directories are gone through.
DirFunc(q) ==
  LET pathv == Pathv(q.args)
      plain == Selected(pathv, FilesIn(pathv, q.kind))
      numfiles == Len(plain)
      \* what is left for the loop over directories
      behind == IF q.long THEN Selected(pathv, DOMAIN pathv \ FilesIn(pathv, q.kind))
                ELSE SubSeq(pathv, numfiles + 1, Len(pathv))
      shown == IF q.long \/ numfiles = 0 THEN plain ELSE Columns(pathv, numfiles, q.cols)
  IN  /\ listing' = q
      /\ files' = NamesOf(NotDone(shown))
      /\ sections' = NamesOf(NotDone(behind))

DirReturn == listing # NoListing /\ listing' = NoListing /\ files' = <<>> /\ sections' = <<>>

DirNext ==
  \/ listing = NoListing /\ \E q \in Listings : DirFunc(q)
  \/ DirReturn

DirSpec == DirInit /\ [][DirNext]_dirVars

-----------------------------------------------------------------------------
(* Properties.                                                             *)

\* What glob finds, with Marked for what an argument with / does not want
Wanted(arg) ==
  [n \in DOMAIN arg.paths |-> IF arg.dironly /\ ~arg.paths[n].slash THEN Marked ELSE arg.paths[n]]
Found(args) == FlattenSeq([k \in DOMAIN args |-> Wanted(args[k])])

\* The files are listed first, all of them and each once whatever number of
\* columns fits, then the directories in their order.
FilesThenDirectories ==
  LET found == Found(listing.args)
      plain == FilesIn(found, listing.kind)
      names == NamesOf(Selected(found, plain))
      times(s, name) == Cardinality({k \in 1..Len(s) : s[k] = name})
  IN  /\ Len(files) = Len(names)
      /\ \A k \in 1..Len(names) : times(files, names[k]) = times(names, names[k])
      /\ sections = NamesOf(Selected(found, DOMAIN found \ (plain \cup Done(found))))

\* What the code handles: in the short format, names of files in front of
\* all others; an argument with / in front of those without.
FilesInFront ==
  LET found == Found(listing.args)
      plain == FilesIn(found, listing.kind)
  IN  \A j, k \in DOMAIN found : j < k /\ k \in plain => j \in plain
SlashInFront ==
  \A j, k \in DOMAIN listing.args : j < k /\ listing.args[k].dironly => listing.args[j].dironly

\* Files and directories are listed as they should if the arguments come in an
\* order the code handles.
ListedFilesFirst ==
  listing # NoListing /\ SlashInFront /\ (listing.long \/ FilesInFront) => FilesThenDirectories
=============================================================================
