------------------------------ MODULE Patterns ------------------------------
(***************************************************************************)
(* The functions that take patterns, in one shell: ifEnvSet, dbll, dbla    *)
(* and dbli, and ls.                                                       *)
(***************************************************************************)
EXTENDS IfEnvSet, DbLists, DirList

\* One shell runs the functions, one after the other.
ShellInit == Init /\ ListInit /\ DirInit
ShellNext ==
  \/ query = NoQuery /\ listing = NoListing /\ Next /\ UNCHANGED <<listVars, dirVars>>
  \/ call = Idle /\ listing = NoListing /\ ListNext /\ UNCHANGED <<vars, dirVars>>
  \/ call = Idle /\ query = NoQuery /\ DirNext /\ UNCHANGED <<vars, listVars>>
ShellSpec ==
  ShellInit /\ [][ShellNext]_<<vars, listVars, dirVars>> /\ WF_vars(Matching \/ Compare \/ Return)
=============================================================================
