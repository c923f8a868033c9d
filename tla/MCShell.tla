------------------------------ MODULE MCShell -------------------------------
(* Commands of every kind, alone and in evals up to three deep.            *)
EXTENDS ShellPromise

Num(n) == Limit("number", n)
Missing == Limit("missing", 0)

MCLines ==
  {"hi", "say", "blank", "meta", "once", "twice", "deep", "empty", "long", "prog", "sh",
   "evalprog", "evalsh", "list", "listfile", "listro", "evallist", "evalrecords", "cat", "source",
   "copy", "same", "back", "run", "type", "dir", "ro", "todir", "show", "evalshow", "all",
   "each", "fewer", "more", "both", "size", "hard", "bad", "wait", "evalwait", "negative",
   "save", "keep", "load"}

MCMeaning ==
  LET Echo(text) == [op |-> "echo", text |-> text]
      Exec(text) == [op |-> "exec", text |-> text]
      Eval(of) == [op |-> "eval", of |-> of]
      ListRecords(file) == [op |-> "listRecords", file |-> file]
      Cp(source, target) == [op |-> "cp", source |-> source, target |-> target]
      Set(options, limit) == [op |-> "ulimit", options |-> options, limit |-> limit]
  IN  [line \in MCLines |->
        CASE line = "hi" -> Echo("hello")
          [] line = "say" -> Echo("hi")
          [] line = "blank" -> Echo(Blank)
          [] line = "meta" -> Echo("twice")
          [] line = "once" -> Eval("say")
          [] line = "twice" -> Eval("once")
          [] line = "deep" -> Eval("meta")
          [] line = "empty" -> Eval("blank")
          [] line = "long" -> Eval("say")
          [] line = "prog" -> Exec("hi")
          [] line = "sh" -> Exec(None)
          [] line = "evalprog" -> Eval("prog")
          [] line = "evalsh" -> Eval("sh")
          [] line = "list" -> ListRecords(None)
          [] line = "listfile" -> ListRecords("f")
          [] line = "listro" -> ListRecords("ro")
          [] line = "evallist" -> Eval("listfile")
          [] line = "evalrecords" -> Eval("list")
          [] line = "cat" -> Cp("script", None)
          [] line = "source" -> Eval("cat")
          [] line = "copy" -> Cp("script", "f")
          [] line = "same" -> Cp("f", "f")
          [] line = "back" -> Cp("f", None)
          [] line = "run" -> Eval("back")
          [] line = "type" -> Cp(None, "f")
          [] line = "dir" -> Cp("d", "f")
          [] line = "ro" -> Cp("f", "ro")
          [] line = "todir" -> Cp("script", "d")
          [] line = "show" -> Set(<<"H", "n">>, Missing)
          [] line = "evalshow" -> Eval("show")
          [] line = "each" -> Set(<<"n", "x", "H", "f">>, Missing)
          [] line = "all" -> Set(<<"a">>, Num(1))
          [] line = "fewer" -> Set(<<"n">>, Num(1))
          [] line = "more" -> Set(<<"S", "n">>, Limit("unlimited", 0))
          [] line = "both" -> Set(<<"n", "x", "f">>, Num(1))
          [] line = "size" -> Set(<<>>, Num(2))
          [] line = "hard" -> Set(<<"H", "f", "n">>, Limit("unlimited", 0))
          [] line = "bad" -> Set(<<"f", "n">>, Limit("bad", 0))
          [] line = "wait" -> [op |-> "sleep", time |-> 3]
          [] line = "evalwait" -> Eval("wait")
          [] line = "negative" -> [op |-> "sleep", time |-> -1]
          [] line = "save" -> Cp("script", "full")
          [] line = "keep" -> Cp(None, "full")
          [] line = "load" -> Cp("full", None)]

MCFiles == {"script", "f", "ro", "d", "full", "2"}
MCContents == [file \in MCFiles |-> CASE file = "script" -> <<"listfile", Blank>>
                                      [] file = "ro" -> <<"kept">>
                                      [] OTHER -> Absent]
MCUnit == [r \in {"f", "n"} |-> IF r = "f" THEN 2 ELSE 1]
MCLimits == [r \in {"f", "n"} |-> [cur |-> 2, max |-> 2]]

\* Evals and files; limits set by two shells at once; descriptors running out;
\* a disk that is full.
MCSessions ==
  LET Call(options, limit) == [options |-> options, limit |-> limit]
      setting == {"size", "both", "more", "hard", "bad", "all", "evalshow"}
      filling == {"save", "keep", "load"}
  IN  [root : {FALSE}, lines : {MCLines \ (setting \cup filling \cup {"fewer"})}, peer : {{}}]
      \cup [root : BOOLEAN, lines : {setting},
            peer : {{Call(<<"S", "n">>, Num(2)), Call(<<"H", "f">>, Num(1))}}]
      \cup [root : {FALSE}, lines : {{"fewer", "more", "copy", "ro", "sh", "evallist", "listfile"}},
            peer : {{Call(<<"S", "n">>, Num(0))}}]
      \cup [root : {FALSE}, lines : {filling}, peer : {{}}]
\* "hi" whose word is followed by a newline and more words
MCJoined == [text \in {<<"hi", "say">>} |-> "hi"]
MCTyped == <<"hi", "say">>
MCListing == <<"rec1", "rec2">>
=============================================================================
