----------------------------- MODULE MCPatterns -----------------------------
(* All patterns of up to three characters on all strings of up to four,    *)
(* and a choice of operators with numbers in one and two digits; lists of  *)
(* a small database; up to three arguments of ls in all orders.            *)
EXTENDS Patterns

Strings(chars, n) == UNION {[1..k -> chars] : k \in 0..n}

\* 1 in several bases, with a sign and behind white space, 10 and 0x, which is
\* no number, numbers on both sides of the largest long
MCNumbers == {<<>>, <<"1">>, <<"0", "1">>, <<"+", "1">>, <<" ", "1">>, <<"0", "x", "1">>, <<"-", "0", "X", "1">>,
              <<"1", "0">>, <<"0", "1", "2">>, <<"0", "x", "A">>, <<"0", "x">>, <<"0", "8">>, <<"-", "1">>,
              <<"2", "0">>, <<"2", "1">>, <<"2", "2">>, <<"a">>}
MCArguments == Strings({"a", "b"}, 4) \cup MCNumbers

MCConditions ==
  [nots : {0}, ops : {<<"~">>}, text : Strings({"a", "b", "?", "*"}, 3)]
  \cup [nots : {1}, ops : {<<"~">>}, text : {<<"a", "*", "b">>, <<"?">>, <<"1">>, <<"=">>}]
  \cup [nots : 0..2, ops : {<<>>, <<"<">>, <<">">>, <<"=", "<">>, <<"<", ">">>, <<"=", "=">>},
        text : MCNumbers \cup {<<"a", "b">>}]

Choice(named, value, elsevalue) == [named |-> named, value |-> value, elsevalue |-> elsevalue]
MCVariables == {Choice(TRUE, "v", "w"), Choice(TRUE, None, None), Choice(FALSE, "v", "w")}

\* Records a and b, an alias c of a, a type without records
MCDatabase ==
  LET Link(field, kind, type, pp, target) ==
        [field |-> field, kind |-> kind, type |-> type, pp |-> pp, target |-> target]
      Record(name, infos, links) ==
        [name |-> name, alias |-> <<>>, infos |-> infos, links |-> links]
  IN  << <<Record(<<"a">>, <<<<"x">>>>,
                  <<Link("INP", "i", "DB_LINK", FALSE, <<"b">>),
                    Link("FLNK", "f", "DB_LINK", FALSE, <<"b", "b">>)>>),
           [name |-> <<"c">>, alias |-> <<"a">>, infos |-> <<>>,
            links |-> <<Link("INP", "i", "DB_LINK", FALSE, <<"b">>)>>]>>,
         <<>>,
         <<Record(<<"b">>, <<<<"x">>, <<"x", "y">>>>,
                  <<Link("INPA", "i", "CA_LINK", FALSE, <<"a", ".", "V">>),
                    Link("INPB", "i", "PN_LINK", FALSE, <<"a">>),
                    Link("INPC", "i", "CONSTANT", FALSE, <<"a">>),
                    Link("INPD", "i", "PV_LINK", TRUE, <<"a", ".", "S">>)>>),
           Record(<<"b", "b">>, <<>>,
                  <<Link("OUT", "o", "DB_LINK", TRUE, <<"b", ".", "S">>),
                    Link("OUTA", "o", "CA_LINK", FALSE, <<"b", "b">>)>>),
           Record(<<"d">>, <<<<"y">>>>, <<>>)>> >>

MCQueries ==
  LET Query(of, match, types, patterns) ==
        [of |-> of, match |-> match, types |-> types, patterns |-> patterns]
      matches == {Missing} \cup Strings({"a", "b", "*", ".", "V"}, 4)
      letters == {{}, {"p"}, {"i", "d"}, {"o", "p"}, {"c"}, {"f", "i", "p"}}
  IN  {Query("dbll", m, t, <<>>) : m \in matches, t \in letters}
      \cup {Query("dbla", m, {}, <<>>) : m \in {Missing} \cup Strings({"a", "c", "*"}, 2)}
      \cup {Query("dbli", Missing, {}, p) : p \in Strings({<<"x">>, <<"x", "*">>, <<"?">>}, 2)}

\* A file or a directory by its name, several by *, those with / at the end
MCListings ==
  LET Path(name, slash) == [name |-> name, slash |-> slash]
      plain(paths) == [dironly |-> FALSE, paths |-> paths]
      slashed(paths) == [dironly |-> TRUE, paths |-> paths]
      arguments == {plain(<<Path("f", FALSE)>>), plain(<<Path("d", FALSE)>>),
                    plain(<<Path("d", FALSE), Path("f", FALSE), Path("g", FALSE)>>),
                    plain(<<Path("f", FALSE), Path("g", FALSE)>>), plain(<<Path("none", FALSE)>>),
                    slashed(<<Path("d", TRUE)>>), slashed(<<Path("d", TRUE), Path("f", FALSE)>>),
                    slashed(<<Path("none", FALSE)>>), slashed(<<>>)}
  IN  [long : BOOLEAN, cols : 1..3, args : UNION {[1..n -> arguments] : n \in 1..3},
       kind : {[name \in {"f", "g", "d", "none"} |->
                  CASE name \in {"f", "g"} -> "file" [] name = "d" -> "dir" [] OTHER -> "absent"]}]
=============================================================================
