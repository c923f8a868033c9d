------------------------------- MODULE MCDisc -------------------------------
(* A directory d with files, a hidden file and a directory in it, and a    *)
(* directory whose name [d] glob takes for d.                              *)
EXTENDS Disc

MCPath == {<<"f">>, <<"[d]">>, <<"[d]", "f">>, <<"d">>, <<"d", "f">>, <<"d", ".h">>,
           <<"d", "d">>, <<"d", "d", "f">>}

Tree(files, dirs) == [p \in files \cup dirs |-> IF p \in files THEN "file" ELSE "dir"]

MCTrees ==
  { Tree({<<"f">>, <<"d", "f">>, <<"d", "d", "f">>}, {<<"d">>, <<"d", "d">>}),
    Tree({<<"d", "f">>, <<"d", ".h">>}, {<<"d">>}),
    Tree({<<"d", "f">>}, {<<"d">>, <<"[d]">>}) }

\* \[d\] is how a user names [d].
MCReads ==
  [n \in {"f", "d", ".h", "[d]", "\\[d\\]", "*", "-r", "-f", "--"} |->
     CASE n = "*" -> {"f", "d", "[d]"} [] n \in {"f", "d", ".h", "-r", "-f", "--"} -> {n}
       [] n = "[d]" -> {"d"} [] n = "\\[d\\]" -> {"[d]"}]

File(p) == [type |-> "file", r |-> FALSE, path |-> p]
OptionR == [type |-> "option", r |-> TRUE, path |-> <<"-r">>]
OptionF == [type |-> "option", r |-> FALSE, path |-> <<"-f">>]
EndFlags == [type |-> "--", r |-> FALSE, path |-> <<"--">>]

MCCommands ==
  { <<File(<<"f">>), File(<<"d">>)>>,
    <<File(<<"d">>), OptionR>>,
    <<OptionR, File(<<"*">>)>>,
    <<OptionR, File(<<"\\[d\\]">>)>>,
    <<OptionF, File(<<"d", ".h">>), File(<<"d", "*">>)>>,
    <<OptionF, EndFlags, OptionR, File(<<"d">>)>>,
    <<OptionR, File(<<"d">>), File(<<"d", ".h">>)>> }
=============================================================================
