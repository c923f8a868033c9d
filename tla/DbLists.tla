------------------------------- MODULE DbLists -------------------------------
(***************************************************************************)
(* dbll.c, dbla.c and dbli.c: what they list of the records, with the      *)
(* search of GlobMatch.  A name is a sequence of characters; the character *)
(* V stands for the field VAL.                                             *)
(***************************************************************************)
EXTENDS GlobMatch, Selection, SequencesExt

CONSTANTS
  Database,   \* the record types, each the sequence of its records:
              \* [name, alias, infos, links]; alias is the name an alias stands for, or <<>>
  Queries     \* [of, match, types, patterns]: the lists that are asked for

Missing == <<"NULL">>     \* no pattern is given

LinkField == [field : STRING, kind : {"i", "o", "f"}, pp : BOOLEAN, target : Seq(Chars),
              type : {"PN_LINK", "PV_LINK", "DB_LINK", "CA_LINK", "CONSTANT"}]
DbRecord == [name : Seq(Chars), alias : Seq(Chars), infos : Seq(Seq(Chars)), links : Seq(LinkField)]
DbQuery == [of : {"dbll", "dbla", "dbli"}, match : {Missing} \cup Seq(Chars \ {"NULL"}),
            types : SUBSET STRING, patterns : Seq(Seq(Chars))]

\* The names of records are unique, those of the fields within a record.  They
\* have no dots, so that a target has one at most, in front of its field.  A
\* character is a string.
ASSUME DbListsAssumption ==
  /\ Database \in Seq(Seq(DbRecord)) /\ Len(Database) > 0
  /\ \A t, u \in DOMAIN Database : \A r \in DOMAIN Database[t], s \in DOMAIN Database[u] :
       Database[t][r].name = Database[u][s].name => t = u /\ r = s
  /\ \A t \in DOMAIN Database : \A r \in DOMAIN Database[t] :
       LET links == Database[t][r].links IN \A j, k \in DOMAIN links :
         /\ links[j].field = links[k].field => j = k
         /\ \A d, e \in DOMAIN links[j].target :
              links[j].target[d] = "." /\ links[j].target[e] = "." => d = e
  /\ Queries \subseteq DbQuery
  /\ {"*", ".", "V", "NULL"} \subseteq STRING

VARIABLES
  query,      \* the list asked for, or NoQuery
  cursor,     \* DBENTRY of dbli: type, record and info, 0 for none
  step,       \* where dbNextMatchingInfo is: "info", "record", "type", or "done"
  listed      \* the lines printed

listVars == <<query, cursor, step, listed>>

NoQuery == [of |-> "nothing"]

ListInit ==
  /\ query = NoQuery /\ cursor = [type |-> 0, record |-> 0, info |-> 0]
  /\ step = "done" /\ listed = <<>>

Records == FlattenSeq(Database)
IsAlias(record) == record.alias # <<>>

-----------------------------------------------------------------------------
(* dbll: links [field, kind, type, pp, target] to matching targets.        *)

Dot(s) == SelectInSeq(s, LAMBDA c : c = ".")
Has(s) == Dot(s) # 0
Field(s) == SubSeq(s, Dot(s), Len(s))

\* Mutant: .* behind a record name is not taken for any field.
AltMatchVal(match) ==
  IF ~Has(match) THEN match \o <<".", "*">>
  ELSE IF Field(match) = <<".", "V">> THEN SubSeq(match, 1, Dot(match) - 1) ELSE Missing

\* What targets are compared with that have no field, or have one, other than
\* the pattern
AltMatch(match) ==
  IF ~Has(match) THEN match \o <<".", "*">>
  ELSE IF Field(match) \in {<<".", "V">>, <<".", "*">>} THEN SubSeq(match, 1, Dot(match) - 1)
  ELSE Missing

MatchesTarget(target, match) ==
  \/ match \in {Missing, <<>>, <<"*">>}
  \/ IF Has(target) = Has(match) THEN Glob(target, match)
     ELSE AltMatch(match) # Missing /\ Glob(target, AltMatch(match))

\* The filter; a group none of whose letters is given is not filtered.
Typemask(types) ==
  types \cup (IF types \cap {"i", "o", "f"} = {} THEN {"i", "o", "f"} ELSE {})
        \cup (IF types \cap {"c", "d"} = {} THEN {"c", "d"} ELSE {})

Processes(link) == link.pp \/ (link.kind = "i" /\ link.type = "PN_LINK") \/ link.kind = "f"

PassesFilter(link, mask) ==
  /\ CASE link.type \in {"PN_LINK", "PV_LINK", "DB_LINK"} -> "d" \in mask
       [] link.type = "CA_LINK" -> "c" \in mask
       [] OTHER -> FALSE
  /\ link.kind \in mask
  /\ "p" \in mask => Processes(link)

LinksOf(record, q) ==
  LET isShown(l) == PassesFilter(l, Typemask(q.types)) /\ MatchesTarget(l.target, q.match)
      shown == Selected(record.links, {k \in DOMAIN record.links : isShown(record.links[k])})
  IN  [k \in 1..Len(shown) |-> <<record.name, shown[k].field, Processes(shown[k])>>]

Dbll(q) ==
  LET shown == Selected(Records, {k \in DOMAIN Records : ~IsAlias(Records[k])})
  IN  listed' = FlattenSeq([k \in 1..Len(shown) |-> LinksOf(shown[k], q)])

\* dbla finds an alias by its name or by that of its record.
Dbla(q) ==
  LET isShown(r) == /\ IsAlias(r)
                    /\ q.match = Missing \/ Glob(r.alias, q.match) \/ Glob(r.name, q.match)
      shown == Selected(Records, {k \in DOMAIN Records : isShown(Records[k])})
  IN  listed' = [k \in 1..Len(shown) |-> <<shown[k].name, shown[k].alias>>]

-----------------------------------------------------------------------------
(* dbli: the infos of all records, with one call of dbNextMatchingInfo for *)
(* each that matches.                                                      *)

InfosAt(type, record) == Database[type][record].infos

\* Mutant: an info is listed once for each pattern.
ListedPerPattern(type, record, info) ==
  LET name == InfosAt(type, record)[info]
      line == <<Database[type][record].name, name>>
      hits == {k \in DOMAIN query.patterns : Glob(name, query.patterns[k])}
  IN  listed \o IF query.patterns = <<>> THEN <<line>> ELSE [k \in 1..Cardinality(hits) |-> line]

\* The info is listed if it matches one of the patterns, or there are none.
Listed(type, record, info) ==
  LET name == InfosAt(type, record)[info]
      matches(p) == Glob(name, p)
  IN  IF query.patterns = <<>> \/ SelectInSeq(query.patterns, matches) # 0
      THEN Append(listed, <<Database[type][record].name, name>>) ELSE listed

At(type, record, info) == cursor' = [type |-> type, record |-> record, info |-> info]

\* dbFirstInfo
FirstInfo(type, record) ==
  IF InfosAt(type, record) # <<>>
  THEN At(type, record, 1) /\ step' = "info" /\ listed' = Listed(type, record, 1)
  ELSE At(type, record, 0) /\ step' = "record" /\ UNCHANGED listed

\* dbNextInfo finds none when there is no current info.
NextInfo ==
  /\ step = "info"
  /\ LET t == cursor.type  r == cursor.record  i == cursor.info IN
       IF i > 0 /\ i < Len(InfosAt(t, r))
       THEN At(t, r, i + 1) /\ listed' = Listed(t, r, i + 1) /\ UNCHANGED step
       ELSE step' = "record" /\ UNCHANGED <<cursor, listed>>
  /\ UNCHANGED query

\* dbNextRecord finds none when there is no current record.
NextRecord ==
  /\ step = "record"
  /\ LET t == cursor.type  r == cursor.record IN
       IF r > 0 /\ r < Len(Database[t]) THEN FirstInfo(t, r + 1)
       ELSE At(t, 0, 0) /\ step' = "type" /\ UNCHANGED listed
  /\ UNCHANGED query

\* dbNextRecordType and dbFirstRecord, until a type has records
NextRecordType ==
  /\ step = "type"
  /\ LET t == cursor.type + 1 IN
       IF t > Len(Database) THEN step' = "done" /\ UNCHANGED <<cursor, listed>>
       ELSE IF Database[t] # <<>> THEN FirstInfo(t, 1)
       ELSE At(t, 0, 0) /\ UNCHANGED <<step, listed>>
  /\ UNCHANGED query

\* dbFirstRecordType; then dbNextMatchingInfo looks for the next info.
Dbli == At(1, 0, 0) /\ step' = "info" /\ listed' = <<>>

List(q) ==
  /\ query' = q
  /\ CASE q.of = "dbll" -> Dbll(q) /\ UNCHANGED <<cursor, step>>
       [] q.of = "dbla" -> Dbla(q) /\ UNCHANGED <<cursor, step>>
       [] q.of = "dbli" -> Dbli

ListReturn ==
  /\ query # NoQuery /\ step = "done"
  /\ query' = NoQuery /\ listed' = <<>> /\ cursor' = [type |-> 0, record |-> 0, info |-> 0]
  /\ UNCHANGED step

ListNext ==
  \/ query = NoQuery /\ \E q \in Queries : List(q)
  \/ NextInfo \/ NextRecord \/ NextRecordType \/ ListReturn

ListSpec == ListInit /\ [][ListNext]_listVars

-----------------------------------------------------------------------------
(* Properties.                                                             *)

Answered(of) == query # NoQuery /\ step = "done" /\ query.of = of
NoneTwice == \A j, k \in 1..Len(listed) : listed[j] = listed[k] => j = k
Lines == {listed[k] : k \in 1..Len(listed)}

\* A pattern or a target in two parts; without a field a pattern stands for
\* any and a target for VAL.
Parts(s, field) ==
  IF Has(s) THEN [record |-> SubSeq(s, 1, Dot(s) - 1), field |-> SubSeq(s, Dot(s) + 1, Len(s))]
            ELSE [record |-> s, field |-> field]

PointsTo(target, match) ==
  LET t == Parts(target, <<"V">>)
      m == Parts(match, <<"*">>)
  IN  match \in {Missing, <<>>} \/ (Glob(t.record, m.record) /\ Glob(t.field, m.field))

\* The letters of the filter, as the comment explains them (dbll.c:209-215)
AskedFor(link, types) ==
  /\ types \cap {"i", "o", "f"} # {} => link.kind \in types
  /\ types \cap {"c", "d"} # {} => (IF link.type = "CA_LINK" THEN "c" ELSE "d") \in types
  /\ "p" \in types => Processes(link)

\* All links, by type, record and number
LinksIn(t, r) == {<<t, r, k>> : k \in 1..Len(Database[t][r].links)}
AllLinks == UNION {UNION {LinksIn(t, r) : r \in 1..Len(Database[t])} : t \in 1..Len(Database)}
RecordAt(k) == Database[k[1]][k[2]]
LinkAt(k) == RecordAt(k).links[k[3]]

\* A target without field is shown for .VAL and .* only.
ImplicitField(target, match) ==
  ~Has(target) /\ Has(match) /\ Field(match) \notin {<<".", "V">>, <<".", "*">>}

\* dbll lists the links that its pattern and its letters ask for, from every
\* record once and not from its aliases again: all links to a record, those to
\* a field, also those to VAL that do not name it (dbll.c:202-207).
LinksListed ==
  Answered("dbll") =>
    LET pointing == {k \in AllLinks : LET l == LinkAt(k) IN
          /\ ~IsAlias(RecordAt(k)) /\ l.type # "CONSTANT" /\ AskedFor(l, query.types)
          /\ PointsTo(l.target, query.match) /\ ~ImplicitField(l.target, query.match)}
    IN  /\ NoneTwice
        /\ Lines = {<<RecordAt(k).name, LinkAt(k).field, Processes(LinkAt(k))>> : k \in pointing}

\* The lines of the matching infos of a record, of all records of a type, and of
\* those of the types from the first on, in the order of the database
InfoLines(record) == [k \in DOMAIN record.infos |-> <<record.name, record.infos[k]>>]
AskedInfos(record, patterns) ==
  {k \in DOMAIN record.infos : patterns = <<>> \/ \E n \in DOMAIN patterns :
                                                     Glob(record.infos[k], patterns[n])}
InfosOfRecord(record, patterns) == Selected(InfoLines(record), AskedInfos(record, patterns))
InfosOfType(records, patterns) ==
  FlattenSeq([r \in DOMAIN records |-> InfosOfRecord(records[r], patterns)])
InfosFrom(first, patterns) ==
  FlattenSeq([t \in DOMAIN Database |->
                IF t < first THEN <<>> ELSE InfosOfType(Database[t], patterns)])

\* Over empty types, records without infos and aliases dbli loses no info
\* behind those of the first record type and lists none twice, although
\* several patterns may match.
LaterInfosListed == Answered("dbli") => listed = InfosFrom(2, query.patterns)

\* "list info fields (filtered by pattern)" (README:35): of all records.
InfosListed == Answered("dbli") => listed = InfosFrom(1, query.patterns)
=============================================================================
