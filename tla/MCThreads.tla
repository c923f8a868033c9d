----------------------------- MODULE MCThreads -----------------------------
(* Two shells and a third thread; three CPUs.                              *)
EXTENDS Threads

MCLists ==
  { <<Element("", 0, 1)>>,                             \* 0-1
    <<Element("+", 2, 2)>>,                            \* +2
    <<Element("-", 0, 0), Element("", 2, 7)>>,         \* -0,2-7
    <<Element("", 1, 1), Element("-", 1, 1), Empty>>,  \* 1,-1,
    <<Element("", 0, 1), Element("+", 0, -1)>>,        \* 0-1,+
    <<Empty>> }                                        \* one blank

MCPrios ==
  { [kind |-> "number", value |-> 101], [kind |-> "level", value |-> 0],
    [kind |-> "thread", value |-> "a"], [kind |-> "thread", value |-> "x"] }

\* "1" stands for the id of the thread w.
MCNumbered == [number \in {"1"} |-> "w"]

MCDiffs == {-1, 0}
=============================================================================
