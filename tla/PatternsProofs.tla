--------------------------- MODULE PatternsProofs ---------------------------
(***************************************************************************)
(* Proofs about the functions that take patterns, for any strings:         *)
(*   - the search answers what the pattern stands for;                     *)
(*   - ifEnvSet sets, unsets or leaves the variable as the condition asks; *)
(*   - dbli lists what follows the cursor and is asked for, dbll each link *)
(*     that is asked for once;                                             *)
(*   - ls lists the files in front, each once, then the directories, if    *)
(*     the arguments come in an order that it handles.                     *)
(***************************************************************************)
EXTENDS Patterns, Recursion, SequenceTheorems, FiniteSetTheorems, FunctionTheorems

-----------------------------------------------------------------------------
(* What a pattern stands for, place by place.                              *)

\* The recursion that defines the places of a pattern
LEMMA PlacesAre ==
  ASSUME NEW s \in Seq(Chars), NEW p \in Seq(Chars)
  PROVE  /\ Places(s, p) \in [0..Len(p) -> SUBSET (1..(Len(s) + 1))]
         /\ Places(s, p)[0] = {Len(s) + 1}
         /\ \A k \in 1..Len(p) :
              Places(s, p)[k] = Before(s, p[Len(p) + 1 - k], Places(s, p)[k - 1])
<1> DEFINE n == Len(p)
           S == SUBSET (1..(Len(s) + 1))
           start == {Len(s) + 1}
           more == [x \in (1..n) \X S |-> Before(s, p[n + 1 - x[1]], x[2])]
           IsPlaces(f) == f = [k \in 0..n |-> IF k = 0 THEN start
                                             ELSE Before(s, p[n + 1 - k], f[k - 1])]
           places == CHOOSE f : IsPlaces(f)
<1>1. n \in Nat /\ Len(s) \in Nat
  OBVIOUS
<1>2. start \in S /\ more \in [(1..n) \X S -> S]
  <2>1. \A c, rest : Before(s, c, rest) \in S
    BY <1>1 DEF Before
  <2>2. start \in S
    BY <1>1
  <2> HIDE DEF S
  <2> QED BY <2>1, <2>2
<1>3. PICK f : IsRecursive(f, n, S, start, more)
  <2> HIDE DEF S, start, more, n
  <2> QED BY <1>1, <1>2, RecursiveFunction
<1>4. \A k \in 1..n : f[k] = Before(s, p[n + 1 - k], f[k - 1])
  <2> TAKE k \in 1..n
  <2>1. f[k] = more[<<k, f[k - 1]>>]
    BY <1>3 DEF IsRecursive
  <2>2. k - 1 \in 0..n
    BY <1>1
  <2>3. f[k - 1] \in S
    BY <1>3, <2>2 DEF IsRecursive
  <2> DEFINE rest == f[k - 1]
  <2> HIDE DEF rest, S, n
  <2>4. more[<<k, rest>>] = Before(s, p[n + 1 - k], rest)
    BY <2>3 DEF rest
  <2> QED BY <2>1, <2>4 DEF rest
<1>5. IsPlaces(f)
  <2>1. f[0] = start /\ f \in [0..n -> S]
    BY <1>3 DEF IsRecursive
  <2>2. \A k \in 0..n : k = 0 \/ k \in 1..n
    BY <1>1
  <2> HIDE DEF n, S, start
  <2> QED BY <1>4, <2>1, <2>2
<1>6. IsPlaces(places)
  <2> HIDE DEF IsPlaces
  <2> QED BY <1>5
<1>7. Places(s, p) = places
  BY DEF Places
<1> HIDE DEF places
<1>8. places = f
  <2>1. places = [k \in 0..n |-> places[k]] /\ f = [k \in 0..n |-> f[k]]
    <3> HIDE DEF n, start
    <3> QED BY <1>5, <1>6
  <2> DEFINE T == {k \in 0..n : places[k] = f[k]}
  <2>2. 0 \in T
    BY <1>1, <1>5, <1>6
  <2>3. \A k \in 1..n : k - 1 \in T => k \in T
    <3> TAKE k \in 1..n
    <3>1. k \in 0..n /\ k # 0
      BY <1>1
    <3> HIDE DEF n, start
    <3> QED BY <1>5, <1>6, <3>1
  <2>4. \A k \in 0..n : k \in T
    <3> HIDE DEF T, n
    <3> QED BY <1>1, <2>2, <2>3, InductionUpTo
  <2>5. \A k \in 0..n : places[k] = f[k]
    BY <2>4
  <2> HIDE DEF n, S, T
  <2> QED BY <2>1, <2>5
<1>9. f \in [0..n -> S] /\ f[0] = start
  BY <1>3 DEF IsRecursive
<1> QED BY <1>4, <1>7, <1>8, <1>9

\* The rest of s from place i is what the rest of p from place j stands for.
Stands(s, p, i, j) == i \in Places(s, p)[Len(p) + 1 - j]

\* Nothing stands for nothing.
LEMMA StandsAtEnd ==
  ASSUME NEW s \in Seq(Chars), NEW p \in Seq(Chars), NEW i
  PROVE  Stands(s, p, i, Len(p) + 1) <=> i = Len(s) + 1
<1>1. Len(p) + 1 - (Len(p) + 1) = 0
  OBVIOUS
<1> QED BY <1>1, PlacesAre DEF Stands

\* Only places of s have a rest.
LEMMA StandsInside ==
  ASSUME NEW s \in Seq(Chars), NEW p \in Seq(Chars), NEW i, NEW j \in 1..(Len(p) + 1),
         Stands(s, p, i, j)
  PROVE  i \in 1..(Len(s) + 1)
<1>1. Len(p) + 1 - j \in 0..Len(p)
  OBVIOUS
<1> QED BY <1>1, PlacesAre DEF Stands

\* One character of the pattern: what stands from it on.
LEMMA StandsBefore ==
  ASSUME NEW s \in Seq(Chars), NEW p \in Seq(Chars), NEW i, NEW j \in 1..Len(p)
  PROVE  Stands(s, p, i, j) <=> i \in Before(s, p[j], {k \in 1..(Len(s) + 1) : Stands(s, p, k, j + 1)})
<1> DEFINE k == Len(p) + 1 - j
<1>1. k \in 1..Len(p) /\ Len(p) + 1 - k = j /\ Len(p) + 1 - (j + 1) = k - 1 /\ k - 1 \in 0..Len(p)
  OBVIOUS
<1> HIDE DEF k
<1>2. Places(s, p)[k] = Before(s, p[j], Places(s, p)[k - 1])
  BY <1>1, PlacesAre
<1>3. Places(s, p)[k - 1] \in SUBSET (1..(Len(s) + 1))
  BY <1>1, PlacesAre
<1>4. Places(s, p)[k - 1] = {l \in 1..(Len(s) + 1) : Stands(s, p, l, j + 1)}
  BY <1>1, <1>3 DEF Stands
<1> QED BY <1>2, <1>4 DEF Stands, k

\* A * stands for any number of characters, none included.
LEMMA StandsStar ==
  ASSUME NEW s \in Seq(Chars), NEW p \in Seq(Chars), NEW i \in 1..(Len(s) + 1),
         NEW j \in 1..Len(p), p[j] = "*"
  PROVE  Stands(s, p, i, j) <=> \E k \in i..(Len(s) + 1) : Stands(s, p, k, j + 1)
<1>1. Stands(s, p, i, j) <=> \E k \in {l \in 1..(Len(s) + 1) : Stands(s, p, l, j + 1)} : i <= k
  BY StandsBefore DEF Before
<1> QED BY <1>1

\* Any other character stands for itself, ? for any.
LEMMA StandsOne ==
  ASSUME NEW s \in Seq(Chars), NEW p \in Seq(Chars), NEW i \in 1..(Len(s) + 1),
         NEW j \in 1..Len(p), p[j] # "*"
  PROVE  Stands(s, p, i, j) <=> i <= Len(s) /\ p[j] \in {"?", s[i]} /\ Stands(s, p, i + 1, j + 1)
<1> QED BY StandsBefore DEF Before

-----------------------------------------------------------------------------
(* The search behind a *.                                                  *)

\* The search is at i and j; the last * is behind it, and what follows the *
\* at m is tried at c - 1.  The whole pattern stands for the whole string if
\* what follows that * stands for the rest from here on or later, and the
\* try has consumed as many characters as any such try would.
Try(s, p, i, j, c, m) ==
  /\ m \in 1..j /\ c \in 2..(i + 1) /\ i - (c - 1) = j - m
  /\ Stands(s, p, 1, 1) <=> \E k \in (c - 1)..(Len(s) + 1) : Stands(s, p, k, m)
  /\ Stands(s, p, i, j) => Stands(s, p, c - 1, m)
  /\ \A k \in (c - 1)..(Len(s) + 1) : Stands(s, p, k, m) => Stands(s, p, k + (j - m), j)

\* The first try behind a *
LEMMA FirstTry ==
  ASSUME NEW s \in Seq(Chars), NEW p \in Seq(Chars), NEW i \in 1..(Len(s) + 1),
         NEW j \in 1..(Len(p) + 1),
         Stands(s, p, 1, 1) <=> \E k \in i..(Len(s) + 1) : Stands(s, p, k, j)
  PROVE  Try(s, p, i, j, i + 1, j)
<1>1. i + 1 \in 2..(i + 1) /\ (i + 1) - 1 = i /\ i - i = j - j /\ j \in 1..j
  OBVIOUS
<1>2. \A k \in i..(Len(s) + 1) : k + (j - j) = k
  OBVIOUS
<1> QED BY <1>1, <1>2 DEF Try

\* A * is reached: only what follows it matters from here on.  This is why
\* the search need not go back behind the last *.
LEMMA TryReachesStar ==
  ASSUME NEW s \in Seq(Chars), NEW p \in Seq(Chars), NEW i \in 1..(Len(s) + 1),
         NEW j \in 1..Len(p), p[j] = "*", NEW c, NEW m, Try(s, p, i, j, c, m)
  PROVE  Stands(s, p, 1, 1) <=> \E k \in i..(Len(s) + 1) : Stands(s, p, k, j + 1)
<1>1. m \in 1..j /\ c \in 2..(i + 1) /\ i - (c - 1) = j - m /\ j \in 1..(Len(p) + 1)
      /\ Len(s) \in Nat
  BY DEF Try
<1>2. ASSUME NEW k \in i..(Len(s) + 1), Stands(s, p, k, j + 1)
      PROVE  Stands(s, p, 1, 1)
  <2>1. Stands(s, p, i, j)
    BY <1>2, StandsStar
  <2>2. c - 1 \in (c - 1)..(Len(s) + 1)
    BY <1>1
  <2> QED BY <2>1, <2>2 DEF Try
<1>3. ASSUME Stands(s, p, 1, 1)
      PROVE  \E k \in i..(Len(s) + 1) : Stands(s, p, k, j + 1)
  <2>1. PICK k \in (c - 1)..(Len(s) + 1) : Stands(s, p, k, m)
    BY <1>3 DEF Try
  <2>2. Stands(s, p, k + (j - m), j)
    BY <2>1 DEF Try
  <2>3. k + (j - m) \in 1..(Len(s) + 1)
    BY <1>1, <2>2, StandsInside
  <2>4. PICK l \in (k + (j - m))..(Len(s) + 1) : Stands(s, p, l, j + 1)
    BY <2>2, <2>3, StandsStar
  <2>5. l \in i..(Len(s) + 1)
    BY <1>1, <2>3
  <2> QED BY <2>4, <2>5
<1> QED BY <1>2, <1>3

\* The try goes on behind a character that fits.
LEMMA TryGoesOn ==
  ASSUME NEW s \in Seq(Chars), NEW p \in Seq(Chars), NEW i \in 1..Len(s),
         NEW j \in 1..Len(p), p[j] # "*", p[j] \in {"?", s[i]},
         NEW c, NEW m, Try(s, p, i, j, c, m)
  PROVE  Try(s, p, i + 1, j + 1, c, m)
<1>1. m \in 1..j /\ c \in 2..(i + 1) /\ i - (c - 1) = j - m /\ j \in 1..(Len(p) + 1)
      /\ i \in 1..(Len(s) + 1)
  BY DEF Try
<1>2. m \in 1..(j + 1) /\ c \in 2..((i + 1) + 1) /\ (i + 1) - (c - 1) = (j + 1) - m
  BY <1>1
<1>3. Stands(s, p, i + 1, j + 1) => Stands(s, p, c - 1, m)
  BY <1>1, StandsOne DEF Try
<1>4. ASSUME NEW k \in (c - 1)..(Len(s) + 1), Stands(s, p, k, m)
      PROVE  Stands(s, p, k + ((j + 1) - m), j + 1)
  <2> DEFINE l == k + (j - m)
  <2>1. Stands(s, p, l, j)
    BY <1>4 DEF Try
  <2>2. l \in 1..(Len(s) + 1) /\ l + 1 = k + ((j + 1) - m)
    BY <1>1, <2>1, StandsInside
  <2> HIDE DEF l
  <2>3. Stands(s, p, l + 1, j + 1)
    BY <2>1, <2>2, StandsOne
  <2> QED BY <2>2, <2>3
<1> QED BY <1>2, <1>3, <1>4 DEF Try

\* The try fails: the next begins one character later.
LEMMA TryFails ==
  ASSUME NEW s \in Seq(Chars), NEW p \in Seq(Chars), NEW i \in 1..Len(s),
         NEW j \in 1..(Len(p) + 1), NEW c, NEW m, Try(s, p, i, j, c, m), ~Stands(s, p, i, j)
  PROVE  Try(s, p, c, m, c + 1, m)
<1>1. m \in 1..j /\ c \in 2..(i + 1) /\ i - (c - 1) = j - m
  BY DEF Try
<1>2. c \in 1..(Len(s) + 1) /\ m \in 1..(Len(p) + 1) /\ c - 1 \in (c - 1)..(Len(s) + 1)
      /\ (c - 1) + (j - m) = i
  BY <1>1
<1>3. ~Stands(s, p, c - 1, m)
  BY <1>2 DEF Try
<1>4. \A k \in (c - 1)..(Len(s) + 1) : k = c - 1 \/ k \in c..(Len(s) + 1)
  BY <1>2
<1>5. \A k \in c..(Len(s) + 1) : k \in (c - 1)..(Len(s) + 1)
  BY <1>2
<1>6. Stands(s, p, 1, 1) <=> \E k \in c..(Len(s) + 1) : Stands(s, p, k, m)
  BY <1>3, <1>4, <1>5 DEF Try
<1> QED BY <1>2, <1>6, FirstTry

\* The string has ended: this try is the only one left.
LEMMA LastTry ==
  ASSUME NEW s \in Seq(Chars), NEW p \in Seq(Chars), NEW j \in 1..(Len(p) + 1),
         NEW c, NEW m, Try(s, p, Len(s) + 1, j, c, m)
  PROVE  Stands(s, p, 1, 1) <=> Stands(s, p, Len(s) + 1, j)
<1>1. m \in 1..j /\ c \in 2..((Len(s) + 1) + 1) /\ (Len(s) + 1) - (c - 1) = j - m
      /\ c - 1 \in (c - 1)..(Len(s) + 1)
  BY DEF Try
<1>2. ASSUME Stands(s, p, Len(s) + 1, j)
      PROVE  Stands(s, p, 1, 1)
  BY <1>1, <1>2 DEF Try
<1>3. ASSUME Stands(s, p, 1, 1)
      PROVE  Stands(s, p, Len(s) + 1, j)
  <2>1. PICK k \in (c - 1)..(Len(s) + 1) : Stands(s, p, k, m)
    BY <1>3 DEF Try
  <2>2. Stands(s, p, k + (j - m), j)
    BY <2>1 DEF Try
  <2>3. k + (j - m) \in 1..(Len(s) + 1)
    BY <1>1, <2>2, StandsInside
  <2>4. k + (j - m) = Len(s) + 1
    BY <1>1, <2>3
  <2> QED BY <2>2, <2>4
<1> QED BY <1>2, <1>3

-----------------------------------------------------------------------------
(* The search.                                                             *)

SearchTypes ==
  /\ text \in Seq(Chars) /\ wildcard \in Seq(Chars)
  /\ PointersInside
  /\ at \in {"scan", "stars", "rest", "done"}
  /\ matched \in BOOLEAN

\* The whole pattern stands for the whole string exactly if what is left of
\* it stands for what is left of the string.
Undecided(i, j) == Stands(text, wildcard, 1, 1) <=> Stands(text, wildcard, i, j)

SearchOK ==
  /\ at = "scan" => mp = NULL /\ Undecided(str, pattern)
  /\ at = "stars" /\ mp = NULL =>
       /\ Undecided(str, pattern)
       /\ Char(text, str) = NUL \/ Char(wildcard, pattern) = "*"
  /\ at = "stars" /\ mp # NULL => Try(text, wildcard, str, pattern, cp, mp)
  /\ at = "rest" => Undecided(Len(text) + 1, pattern)
  /\ at = "done" => (matched <=> Stands(text, wildcard, 1, 1))

SearchInv == SearchTypes /\ SearchOK

\* A character is behind a pointer unless it points to the terminating zero.
LEMMA CharInside ==
  ASSUME NEW s \in Seq(Chars), NEW i \in 1..(Len(s) + 1)
  PROVE  /\ Char(s, i) = NUL => i = Len(s) + 1
         /\ Char(s, i) # NUL => i \in 1..Len(s) /\ Char(s, i) = s[i]
         /\ i \in 1..Len(s) => Char(s, i) = s[i] /\ s[i] # NUL
BY DEF Char, Chars

\* At the end of the string, at a star, at a character or at one that differs: the
\* search has not missed a match.
LEMMA ScanKeeps ==
  ASSUME SearchInv, Scan
  PROVE  SearchInv'
<1> USE DEF SearchInv, SearchTypes, PointersInside
<1>1. text' = text /\ wildcard' = wildcard /\ cp' = cp /\ mp' = mp /\ at = "scan"
      /\ mp = NULL /\ Undecided(str, pattern)
  BY DEF Scan, SearchOK
<1>2. CASE Char(text, str) # NUL /\ Char(wildcard, pattern) # "*" /\ Fits
  <2>1. str' = str + 1 /\ pattern' = pattern + 1 /\ at' = "scan" /\ matched' = matched
    BY <1>1, <1>2 DEF Scan, Advance
  <2>2. /\ str \in 1..Len(text) /\ pattern \in 1..Len(wildcard)
        /\ wildcard[pattern] # "*" /\ wildcard[pattern] \in {"?", text[str]}
    BY <1>2, CharInside DEF Fits, NUL
  <2>3. Undecided(str + 1, pattern + 1)
    BY <1>1, <2>2, StandsOne DEF Undecided
  <2> QED BY <1>1, <2>1, <2>2, <2>3 DEF SearchOK, Undecided
<1>3. CASE Char(text, str) # NUL /\ Char(wildcard, pattern) # "*" /\ ~Fits
  <2>1. str' = str /\ pattern' = pattern /\ at' = "done" /\ matched' = FALSE
    BY <1>1, <1>3 DEF Scan, Answer
  <2>2. ~Stands(text, wildcard, str, pattern)
    BY <1>3, CharInside, StandsOne, StandsAtEnd DEF Fits
  <2> QED BY <1>1, <2>1, <2>2 DEF SearchOK, Undecided
<1>4. CASE ~(Char(text, str) # NUL /\ Char(wildcard, pattern) # "*")
  <2>1. at' = "stars" /\ str' = str /\ pattern' = pattern /\ matched' = matched
    BY <1>1, <1>4 DEF Scan
  <2> QED BY <1>1, <1>4, <2>1 DEF SearchOK, Undecided
<1> QED BY <1>2, <1>3, <1>4

\* A star is stored as the place to go back to; at the end of the pattern all is
\* decided.
LEMMA StarKeeps ==
  ASSUME SearchInv, Star
  PROVE  SearchInv'
<1> USE DEF SearchInv, SearchTypes, PointersInside
<1>1. /\ text' = text /\ wildcard' = wildcard /\ str' = str /\ at = "stars"
      /\ pattern' = pattern + 1
      /\ str \in 1..Len(text) /\ pattern \in 1..Len(wildcard) /\ wildcard[pattern] = "*"
  BY CharInside DEF Star, NUL
<1>2. /\ Stands(text, wildcard, 1, 1) <=>
           \E k \in str..(Len(text) + 1) : Stands(text, wildcard, k, pattern + 1)
  <2>1. CASE mp = NULL
    BY <1>1, <2>1, StandsStar DEF SearchOK, Undecided
  <2>2. CASE mp # NULL
    BY <1>1, <2>2, TryReachesStar DEF SearchOK
  <2> QED BY <2>1, <2>2
<1>3. CASE Char(wildcard, pattern + 1) = NUL
  <2>1. at' = "done" /\ matched' = TRUE
    BY <1>3 DEF Star, Answer
  <2>2. pattern + 1 = Len(wildcard) + 1
    BY <1>1, <1>3, CharInside
  <2>3. Stands(text, wildcard, Len(text) + 1, pattern + 1) /\ Len(text) + 1 \in str..(Len(text) + 1)
    BY <1>1, <2>2, StandsAtEnd
  <2> QED BY <1>1, <1>2, <2>1, <2>3 DEF SearchOK
<1>4. CASE Char(wildcard, pattern + 1) # NUL
  <2>1. at' = at /\ matched' = matched /\ mp' = pattern + 1 /\ cp' = str + 1
    BY <1>4 DEF Star
  <2>2. Try(text, wildcard, str, pattern + 1, str + 1, pattern + 1)
    BY <1>1, <1>2, FirstTry
  <2>3. pattern + 1 # NULL
    BY <1>1 DEF NULL
  <2> QED BY <1>1, <2>1, <2>2, <2>3 DEF SearchOK
<1> QED BY <1>3, <1>4

\* A character that matches is passed.
LEMMA SameKeeps ==
  ASSUME SearchInv, Same
  PROVE  SearchInv'
<1> USE DEF SearchInv, SearchTypes, PointersInside
<1>1. /\ text' = text /\ wildcard' = wildcard /\ cp' = cp /\ mp' = mp
      /\ at = "stars" /\ at' = at /\ matched' = matched
      /\ str' = str + 1 /\ pattern' = pattern + 1
      /\ Char(text, str) # NUL /\ Char(wildcard, pattern) # "*" /\ Fits
  BY DEF Same, Advance
<1>2. /\ str \in 1..Len(text) /\ pattern \in 1..Len(wildcard)
      /\ wildcard[pattern] # "*" /\ wildcard[pattern] \in {"?", text[str]}
  BY <1>1, CharInside DEF Fits, NUL
<1>3. mp # NULL /\ Try(text, wildcard, str, pattern, cp, mp)
  BY <1>1 DEF SearchOK
<1>4. Try(text, wildcard, str + 1, pattern + 1, cp, mp)
  BY <1>2, <1>3, TryGoesOn
<1> QED BY <1>1, <1>2, <1>3, <1>4 DEF SearchOK

\* At a character that does not match the search goes back to the last star, and
\* one character further in the string.
LEMMA BackKeeps ==
  ASSUME SearchInv, Back
  PROVE  SearchInv'
<1> USE DEF SearchInv, SearchTypes, PointersInside
<1>1. /\ text' = text /\ wildcard' = wildcard /\ mp' = mp
      /\ at = "stars" /\ at' = at /\ matched' = matched
      /\ str' = cp /\ pattern' = mp /\ cp' = cp + 1
      /\ Char(text, str) # NUL /\ Char(wildcard, pattern) # "*" /\ ~Fits
  BY DEF Back
<1>2. str \in 1..Len(text) /\ ~Stands(text, wildcard, str, pattern)
  BY <1>1, CharInside, StandsOne, StandsAtEnd DEF Fits
<1>3. mp # NULL /\ Try(text, wildcard, str, pattern, cp, mp)
  BY <1>1 DEF SearchOK
<1>4. Try(text, wildcard, cp, mp, cp + 1, mp)
  BY <1>2, <1>3, TryFails
<1>5. cp \in 1..(Len(text) + 1) /\ mp \in 1..(Len(wildcard) + 1)
  BY <1>2, <1>3 DEF Try
<1> QED BY <1>1, <1>3, <1>4, <1>5 DEF SearchOK

\* At the end of the string the stars that are left in the pattern are passed.
LEMMA RestKeeps ==
  ASSUME SearchInv, Rest
  PROVE  SearchInv'
<1> USE DEF SearchInv, SearchTypes, PointersInside
<1>1. /\ text' = text /\ wildcard' = wildcard /\ str' = str /\ cp' = cp /\ mp' = mp
  BY DEF Rest
<1>2. Undecided(Len(text) + 1, pattern)
  <2>1. CASE at = "rest"
    BY <2>1 DEF SearchOK
  <2>2. CASE at = "stars"
    <3>1. str = Len(text) + 1
      BY <2>2, CharInside DEF Rest
    <3>2. CASE mp = NULL
      BY <2>2, <3>1, <3>2 DEF SearchOK
    <3>3. CASE mp # NULL
      BY <2>2, <3>1, <3>3, LastTry DEF SearchOK, Undecided
    <3> QED BY <3>2, <3>3
  <2> QED BY <2>1, <2>2 DEF Rest
<1> DEFINE end == Len(text) + 1
<1>3. end \in 1..(Len(text) + 1) /\ ~(end <= Len(text))
  OBVIOUS
<1>4. CASE Char(wildcard, pattern) = "*"
  <2>1. pattern' = pattern + 1 /\ at' = "rest" /\ matched' = matched
    BY <1>4 DEF Rest
  <2>2. pattern \in 1..Len(wildcard) /\ wildcard[pattern] = "*"
    BY <1>4, CharInside DEF NUL
  <2>3. \A k : k \in end..(Len(text) + 1) <=> k = end
    OBVIOUS
  <2>4. Undecided(end, pattern + 1)
    <3> HIDE DEF end
    <3> QED BY <1>2, <1>3, <2>2, <2>3, StandsStar DEF Undecided, end
  <2> QED BY <1>1, <2>1, <2>2, <2>4 DEF SearchOK, Undecided
<1>5. CASE Char(wildcard, pattern) # "*"
  <2>1. pattern' = pattern /\ at' = "done" /\ matched' = (Char(wildcard, pattern) = NUL)
    BY <1>5 DEF Rest, Answer
  <2>2. Stands(text, wildcard, end, pattern) <=> Char(wildcard, pattern) = NUL
    <3>1. CASE pattern = Len(wildcard) + 1
      BY <3>1, CharInside, StandsAtEnd
    <3>2. CASE pattern \in 1..Len(wildcard)
      BY <1>3, <1>5, <3>2, CharInside, StandsOne
    <3> QED BY <3>1, <3>2
  <2> QED BY <1>1, <1>2, <2>1, <2>2 DEF SearchOK, Undecided
<1> QED BY <1>4, <1>5

-----------------------------------------------------------------------------
(* The condition.                                                          *)

\* The first place behind the characters
LEMMA BehindIs ==
  ASSUME NEW S, NUL \notin S, NEW s \in Seq(S), NEW k \in 1..(Len(s) + 1),
         NEW e \in k..(Len(s) + 1), NEW chars,
         Char(s, e) \notin chars, \A j \in k..(e - 1) : s[j] \in chars
  PROVE  Behind(s, k, chars) = e
<1> DEFINE IsBehind(i) == Char(s, i) \notin chars /\ \A j \in k..(i - 1) : s[j] \in chars
<1>1. ASSUME NEW i \in k..(Len(s) + 1), IsBehind(i)
      PROVE  i = e
  <2>1. CASE i < e
    <3>1. i \in k..(e - 1) /\ i <= Len(s)
      BY <2>1
    <3> QED BY <1>1, <3>1 DEF Char
  <2>2. CASE e < i
    <3>1. e \in k..(i - 1) /\ e <= Len(s)
      BY <2>2
    <3> QED BY <1>1, <3>1 DEF Char
  <2> QED BY <2>1, <2>2
<1>2. IsBehind(e)
  OBVIOUS
<1>3. Behind(s, k, chars) = CHOOSE i \in k..(Len(s) + 1) : IsBehind(i)
  BY DEF Behind
<1> HIDE DEF IsBehind
<1> QED BY <1>1, <1>2, <1>3

\* Three sequences, one behind the other
LEMMA ThreeParts ==
  ASSUME NEW S, NEW a \in Seq(S), NEW b \in Seq(S), NEW c \in Seq(S), NEW w, w = a \o b \o c
  PROVE  /\ w \in Seq(S) /\ Len(w) = Len(a) + Len(b) + Len(c)
         /\ \A k \in 1..Len(a) : w[k] = a[k]
         /\ \A k \in 1..Len(b) : w[Len(a) + k] = b[k]
         /\ \A k \in 1..Len(c) : w[Len(a) + Len(b) + k] = c[k]
         /\ SubSeq(w, Len(a) + Len(b) + 1, Len(w)) = c
<1> DEFINE d == a \o b
<1>1. /\ d \in Seq(S) /\ Len(d) = Len(a) + Len(b)
      /\ \A i \in 1..(Len(a) + Len(b)) : d[i] = IF i <= Len(a) THEN a[i] ELSE b[i - Len(a)]
  BY ConcatProperties
<1>2. /\ Len(a) \in Nat /\ Len(b) \in Nat /\ Len(c) \in Nat
  OBVIOUS
<1> HIDE DEF d
<1>3. /\ w \in Seq(S) /\ Len(w) = Len(d) + Len(c)
      /\ \A i \in 1..(Len(d) + Len(c)) : w[i] = IF i <= Len(d) THEN d[i] ELSE c[i - Len(d)]
  <2>1. d \in Seq(S)
    BY <1>1
  <2>2. w = d \o c
    BY DEF d
  <2> QED BY <2>1, <2>2, ConcatProperties
<1>4. Len(w) = Len(a) + Len(b) + Len(c)
  BY <1>1, <1>2, <1>3
<1>5. \A k \in 1..Len(a) : w[k] = a[k]
  BY <1>1, <1>2, <1>3
<1>6. \A k \in 1..Len(b) : w[Len(a) + k] = b[k]
  <2> TAKE k \in 1..Len(b)
  <2>1. w[Len(a) + k] = d[Len(a) + k]
    BY <1>1, <1>2, <1>3
  <2>2. (Len(a) + k) - Len(a) = k /\ Len(a) + k \in 1..(Len(a) + Len(b)) /\ ~(Len(a) + k <= Len(a))
    BY <1>2
  <2>3. d[Len(a) + k] = b[(Len(a) + k) - Len(a)]
    BY <1>1, <2>2
  <2> QED BY <2>1, <2>2, <2>3
<1>7. \A k \in 1..Len(c) : w[Len(a) + Len(b) + k] = c[k]
  <2> TAKE k \in 1..Len(c)
  <2>1. /\ (Len(d) + k) - Len(d) = k /\ Len(d) + k \in 1..(Len(d) + Len(c)) /\ ~(Len(d) + k <= Len(d))
        /\ Len(a) + Len(b) + k = Len(d) + k
    BY <1>1, <1>2
  <2>2. w[Len(d) + k] = c[(Len(d) + k) - Len(d)]
    BY <1>3, <2>1
  <2> QED BY <2>1, <2>2
<1>8. SubSeq(w, Len(a) + Len(b) + 1, Len(w)) = c
  <2> DEFINE m == Len(a) + Len(b)
  <2>1. m \in Nat /\ Len(w) = m + Len(c) /\ \A k \in 1..Len(c) : w[m + k] = c[k]
    BY <1>2, <1>4, <1>7
  <2> HIDE DEF m
  <2> DEFINE e == SubSeq(w, m + 1, Len(w))
  <2>2. \A i \in (m + 1)..Len(w) : w[i] \in S
    BY <1>3, <2>1
  <2>3. /\ e \in Seq(S) /\ Len(e) = IF m + 1 <= Len(w) THEN Len(w) - (m + 1) + 1 ELSE 0
        /\ \A i \in 1..(Len(w) - (m + 1) + 1) : e[i] = w[m + 1 + i - 1]
    BY <1>2, <2>1, <2>2, SubSeqProperties
  <2>4. Len(w) - (m + 1) + 1 = Len(c) /\ \A i \in 1..Len(c) : m + 1 + i - 1 = m + i
    BY <1>2, <2>1
  <2> HIDE DEF e
  <2>5. Len(e) = Len(c)
    BY <1>2, <2>1, <2>3
  <2>6. \A i \in 1..Len(c) : e[i] = c[i]
    BY <2>1, <2>3, <2>4
  <2>7. e = c
    BY <2>3, <2>5, <2>6, SeqEqual
  <2> QED BY <2>7 DEF e, m
<1> QED BY <1>3, <1>4, <1>5, <1>6, <1>7, <1>8

\* A sequence of one element
LEMMA OneElement == ASSUME NEW S, NEW e \in S PROVE <<e>> \in Seq(S)
OBVIOUS

\* What Operators makes of n times !, of other operators, and of a text
LEMMA OperatorsOf ==
  ASSUME NEW S, NUL \notin S, NEW n \in Nat, NEW ops \in Seq(S), NEW txt \in Seq(S), "!" \in S,
         (\A k \in 1..Len(ops) : ops[k] \in {"<", "=", ">"}) \/ (Len(ops) = 1 /\ ops[1] = "~"),
         Len(ops) = 0 => Char(txt, 1) \notin {"!", "~"},
         (Len(ops) = 1 /\ ops[1] = "~") \/ Char(txt, 1) \notin {"<", "=", ">"}
  PROVE  Operators([k \in 1..n |-> "!"] \o ops \o txt) =
           [not |-> n % 2 = 1, ops |-> Elements(ops), text |-> txt]
<1> DEFINE m == Len(ops)
           marks == [k \in 1..n |-> "!"]
           w == marks \o ops \o txt
<1>2. marks \in Seq(S) /\ Len(marks) = n /\ \A k \in 1..n : marks[k] = "!"
  OBVIOUS
<1>3. /\ w \in Seq(S) /\ Len(w) = n + m + Len(txt)
      /\ \A k \in 1..n : w[k] = "!"
      /\ \A k \in 1..m : w[n + k] = ops[k]
      /\ \A k \in 1..Len(txt) : w[n + m + k] = txt[k]
      /\ SubSeq(w, n + m + 1, Len(w)) = txt
  <2> HIDE DEF marks
  <2>1. marks \in Seq(S) /\ w = marks \o ops \o txt
    BY <1>2
  <2> HIDE DEF w
  <2>2. /\ w \in Seq(S) /\ Len(w) = Len(marks) + Len(ops) + Len(txt)
        /\ \A k \in 1..Len(marks) : w[k] = marks[k]
        /\ \A k \in 1..Len(ops) : w[Len(marks) + k] = ops[k]
        /\ \A k \in 1..Len(txt) : w[Len(marks) + Len(ops) + k] = txt[k]
        /\ SubSeq(w, Len(marks) + Len(ops) + 1, Len(w)) = txt
    BY <2>1, ThreeParts
  <2> QED BY <1>2, <2>2
<1> HIDE DEF w, marks
<1>4. m \in Nat /\ Len(txt) \in Nat
  OBVIOUS
<1> HIDE DEF m
<1>5. Char(w, n + m + 1) = Char(txt, 1)
  BY <1>3, <1>4 DEF Char
<1>6. \A k \in 1..m : Char(w, n + k) = ops[k]
  BY <1>3, <1>4 DEF Char
<1>7. Behind(w, 1, {"!"}) = n + 1
  <2>1. Char(w, n + 1) # "!"
    <3>1. CASE m = 0
      BY <1>5, <3>1 DEF m
    <3>2. CASE m > 0
      <4>1. Char(w, n + 1) = ops[1]
        BY <1>4, <1>6, <3>2
      <4>2. ops[1] # "!"
        BY <1>4, <3>2 DEF m
      <4> QED BY <4>1, <4>2
    <3> QED BY <1>4, <3>1, <3>2
  <2>2. 1 \in 1..(Len(w) + 1) /\ n + 1 \in 1..(Len(w) + 1) /\ (n + 1) - 1 = n
    BY <1>3, <1>4
  <2>3. \A j \in 1..((n + 1) - 1) : w[j] \in {"!"}
    BY <1>3, <2>2
  <2>4. Char(w, n + 1) \notin {"!"}
    BY <2>1
  <2> QED BY <1>3, <2>2, <2>3, <2>4, BehindIs
<1> DEFINE e == IF Char(w, n + 1) = "~" THEN (n + 1) + 1 ELSE Behind(w, n + 1, {"<", "=", ">"})
<1>8. e = n + m + 1
  <2>1. CASE m = 1 /\ ops[1] = "~"
    <3>1. Char(w, n + 1) = "~"
      BY <1>6, <2>1
    <3> QED BY <2>1, <3>1
  <2>2. CASE ~(m = 1 /\ ops[1] = "~")
    <3>1. \A k \in 1..m : ops[k] \in {"<", "=", ">"}
      BY <2>2 DEF m
    <3>2. Char(w, n + 1) # "~"
      <4>1. CASE m = 0
        BY <1>5, <4>1 DEF m
      <4>2. CASE m > 0
        BY <1>4, <1>6, <3>1, <4>2
      <4> QED BY <1>4, <4>1, <4>2
    <3>3. Char(w, n + m + 1) \notin {"<", "=", ">"}
      BY <1>5, <2>2 DEF m
    <3> DEFINE first == n + 1
               x == n + m + 1
    <3>4. first \in 1..(Len(w) + 1) /\ x \in first..(Len(w) + 1) /\ w \in Seq(S)
      BY <1>3, <1>4
    <3>5. \A j \in first..(x - 1) : w[j] \in {"<", "=", ">"}
      <4> TAKE j \in first..(x - 1)
      <4>1. j - n \in 1..m /\ n + (j - n) = j
        BY <1>4
      <4>2. w[n + (j - n)] = ops[j - n]
        BY <1>3, <4>1
      <4> QED BY <3>1, <4>1, <4>2
    <3>6. Char(w, x) \notin {"<", "=", ">"}
      BY <3>3
    <3> HIDE DEF first, x
    <3>7. Behind(w, first, {"<", "=", ">"}) = x
      BY <3>4, <3>5, <3>6, BehindIs
    <3> QED BY <3>2, <3>7 DEF first, x
  <2> QED BY <2>1, <2>2
<1>9. Operators(w) = [not |-> ((n + 1) - 1) % 2 = 1, ops |-> {w[k] : k \in (n + 1)..(e - 1)},
                      text |-> SubSeq(w, e, Len(w))]
  BY <1>7 DEF Operators, From
<1> HIDE DEF e
<1>10. {w[k] : k \in (n + 1)..(e - 1)} = Elements(ops)
  <2>1. /\ \A j \in (n + 1)..(e - 1) : j - n \in 1..m /\ n + (j - n) = j
        /\ \A k \in 1..m : n + k \in (n + 1)..(e - 1)
    BY <1>4, <1>8
  <2>2. \A j \in (n + 1)..(e - 1) : \E k \in 1..m : w[j] = ops[k]
    BY <1>3, <2>1
  <2>3. \A k \in 1..m : n + k \in (n + 1)..(e - 1) /\ ops[k] = w[n + k]
    BY <1>3, <2>1
  <2>4. Elements(ops) = {ops[k] : k \in 1..m}
    BY DEF Elements, m
  <2>5. {w[k] : k \in (n + 1)..(e - 1)} \subseteq {ops[k] : k \in 1..m}
    BY <2>2
  <2>6. {ops[k] : k \in 1..m} \subseteq {w[k] : k \in (n + 1)..(e - 1)}
    BY <2>3
  <2> QED BY <2>4, <2>5, <2>6
<1>11. (n + 1) - 1 = n /\ n + m + 1 = e
  BY <1>4, <1>8
<1> QED BY <1>3, <1>9, <1>10, <1>11 DEF w, marks

\* What ifEnvSet makes of a condition: whether it negates, the operators, and
\* the text
LEMMA OperatorsRead ==
  ASSUME NEW c \in Conditions
  PROVE  Operators(Written(c)) = [not |-> c.nots % 2 = 1, ops |-> Elements(c.ops), text |-> c.text]
<1> DEFINE S == Chars \cup {"!", "<", "=", ">", "~"}
<1>1. c.nots \in Nat /\ c.ops \in Seq({"<", "=", ">"}) \cup {<<"~">>} /\ c.text \in Seq(Chars)
  BY IfEnvSetAssumption
<1>2. <<"~">> \in Seq({"~"})
  BY OneElement
<1>3. c.ops \in Seq(S) /\ c.text \in Seq(S) /\ NUL \notin S /\ "!" \in S
  <2>1. NUL \notin S /\ "!" \in S
    BY DEF Chars, NUL
  <2>2. Chars \subseteq S /\ {"<", "=", ">"} \subseteq S /\ {"~"} \subseteq S
    OBVIOUS
  <2> HIDE DEF S
  <2>3. c.text \in Seq(S)
    BY <1>1, <2>2
  <2>4. c.ops \in Seq(S)
    <3>1. CASE c.ops \in Seq({"<", "=", ">"})
      BY <2>2, <3>1
    <3>2. CASE c.ops = <<"~">>
      BY <1>2, <2>2, <3>2
    <3> QED BY <1>1, <3>1, <3>2
  <2> QED BY <2>1, <2>3, <2>4
<1>4. CASE c.ops = <<"~">>
  <2>1. Len(c.ops) = 1 /\ c.ops[1] = "~"
    BY <1>4
  <2> HIDE DEF S
  <2> QED BY <1>1, <1>3, <2>1, OperatorsOf DEF Written
<1>5. CASE c.ops # <<"~">>
  <2>1. c.ops \in Seq({"<", "=", ">"}) /\ Char(c.text, 1) \notin {"<", "=", ">"}
    BY <1>1, <1>5, IfEnvSetAssumption
  <2>2. \A k \in 1..Len(c.ops) : c.ops[k] \in {"<", "=", ">"}
    BY <2>1
  <2>3. Len(c.ops) = 0 => Char(c.text, 1) \notin {"!", "~"}
    BY <2>1, IfEnvSetAssumption
  <2> HIDE DEF S
  <2> QED BY <1>1, <1>3, <2>1, <2>2, <2>3, OperatorsOf DEF Written
<1> QED BY <1>4, <1>5
-----------------------------------------------------------------------------
(* Numbers.                                                                *)

\* Nothing but white space, a sign and a prefix is left out of the digits.
LEMMA DigitsOf ==
  ASSUME NEW s \in Seq(Chars)
  PROVE  Len(Digits(s)) \in Nat /\ (s = <<>> => Len(Digits(s)) = 0)
<1> DEFINE e == Behind(s, 1, White)
           IsBehind(i) == Char(s, i) \notin White /\ \A j \in 1..(i - 1) : s[j] \in White
<1>1. e \in 1..(Len(s) + 1)
  <2>1. \E i \in 1..(Len(s) + 1) : IsBehind(i)
    <3> DEFINE T == {i \in 1..(Len(s) + 1) : Char(s, i) \notin White}
    <3>0. Len(s) \in Nat /\ Len(s) + 1 \in 1..(Len(s) + 1) /\ ~(Len(s) + 1 <= Len(s))
      OBVIOUS
    <3>0a. "NUL" \notin White
      BY DEF White
    <3>1. Len(s) \in Nat /\ Len(s) + 1 \in T
      BY <3>0, <3>0a DEF Char, NUL
    <3>2. T \in SUBSET Nat /\ T # {}
      BY <3>1
    <3>3. PICK i \in T : \A j \in T : i <= j
      <4> HIDE DEF T
      <4> QED BY <3>2, LeastNat
    <3>4. \A j \in 1..(i - 1) : s[j] \in White
      BY <3>1, <3>3 DEF Char
    <3> QED BY <3>3, <3>4
  <2>2. e = CHOOSE i \in 1..(Len(s) + 1) : IsBehind(i)
    BY DEF Behind
  <2> HIDE DEF e, IsBehind
  <2> QED BY <2>1, <2>2
<1> HIDE DEF e
<1>2. Unpadded(s) \in Seq(Chars) /\ Len(Unpadded(s)) <= Len(s)
  <2>1. Unpadded(s) = SubSeq(s, e, Len(s))
    BY DEF Unpadded, From, e
  <2> QED BY <1>1, <2>1
<1> DEFINE u == Unpadded(s)
           w == Unsigned(s)
<1> HIDE DEF u
<1>3. w \in Seq(Chars) /\ Len(w) <= Len(s)
  <2>1. w = u \/ w = SubSeq(u, 2, Len(u))
    BY DEF Unsigned, From, u, w
  <2>2. u \in Seq(Chars) /\ Len(u) <= Len(s) /\ Len(u) \in Nat
    BY <1>2 DEF u
  <2> DEFINE r == SubSeq(u, 2, Len(u))
  <2>3. r \in Seq(Chars) /\ Len(r) <= Len(u)
    BY <2>2
  <2> HIDE DEF w, u, r
  <2>4. CASE w = r
    <3>1. Len(r) \in Nat /\ Len(s) \in Nat
      BY <2>3
    <3> QED BY <2>2, <2>3, <2>4, <3>1
  <2>5. CASE w = u
    BY <2>2, <2>5
  <2> QED BY <2>1, <2>4, <2>5 DEF r
<1> HIDE DEF w
<1>4. Digits(s) = w \/ Digits(s) = SubSeq(w, 3, Len(w))
  BY DEF Digits, From, w
<1>5. SubSeq(w, 3, Len(w)) \in Seq(Chars) /\ Len(SubSeq(w, 3, Len(w))) <= Len(w)
  BY <1>3
<1> QED BY <1>3, <1>4, <1>5

\* Every digit has a value.
LEMMA DigitsHaveValues == DigitValue \in [Digit -> Int]
<1>1. /\ Len(Numerals) = 16 /\ Len(Capitals) = 6
  BY DEF Numerals, Capitals
<1>2. ASSUME NEW d \in Digit
      PROVE  \E v \in 0..15 : d = Numerals[v + 1] \/ (v > 9 /\ d = Capitals[v - 9])
  <2>1. CASE d \in Elements(Numerals)
    <3>1. PICK k \in 1..16 : d = Numerals[k]
      BY <1>1, <2>1 DEF Elements
    <3>2. k - 1 \in 0..15 /\ (k - 1) + 1 = k
      OBVIOUS
    <3> QED BY <3>1, <3>2
  <2>2. CASE d \in Elements(Capitals)
    <3>1. PICK k \in 1..6 : d = Capitals[k]
      BY <1>1, <2>2 DEF Elements
    <3>2. k + 9 \in 0..15 /\ k + 9 > 9 /\ (k + 9) - 9 = k
      OBVIOUS
    <3> QED BY <3>1, <3>2
  <2> QED BY <2>1, <2>2 DEF Digit
<1> DEFINE Value(d) == CHOOSE v \in 0..15 : d = Numerals[v + 1] \/ (v > 9 /\ d = Capitals[v - 9])
<1>3. ASSUME NEW d \in Digit
      PROVE  Value(d) \in Int
  <2> DEFINE IsValue(v) == d = Numerals[v + 1] \/ (v > 9 /\ d = Capitals[v - 9])
  <2>1. \E v \in 0..15 : IsValue(v)
    BY <1>2
  <2>2. Value(d) = CHOOSE v \in 0..15 : IsValue(v)
    OBVIOUS
  <2> HIDE DEF IsValue, Value
  <2> QED BY <2>1, <2>2
<1>4. DigitValue = [d \in Digit |-> Value(d)]
  BY DEF DigitValue
<1> HIDE DEF Value
<1> QED BY <1>3, <1>4

\* A number is an integer.
LEMMA ExactIsInteger ==
  ASSUME NEW s \in Seq(Chars), IsNumber(s)
  PROVE  Exact(s) \in Int
<1> DEFINE d == Digits(s)
           n == Len(d)
           more == [x \in (1..n) \X Int |-> Base(s) * x[2] + DigitValue[d[x[1]]]]
           IsValue(f) == f = [k \in 0..n |-> IF k = 0 THEN 0
                                            ELSE Base(s) * f[k - 1] + DigitValue[d[k]]]
           value == CHOOSE f : IsValue(f)
<1>1. n \in Nat
  BY DigitsOf
<1>2. \A k \in 1..n : DigitValue[d[k]] \in Int
  <2> TAKE k \in 1..n
  <2>1. d[k] \in Elements(d)
    BY DEF Elements
  <2>2. s = <<>> => n = 0
    BY DigitsOf
  <2>3. d[k] \in Digit
    <3> HIDE DEF d, n
    <3>1. s # <<>>
      BY <1>1, <2>2
    <3> QED BY <2>1, <3>1 DEF IsNumber, d
  <2> HIDE DEF d
  <2> QED BY <2>3, DigitsHaveValues
<1> HIDE DEF d, n
<1>3. more \in [(1..n) \X Int -> Int]
  <2>1. \A k \in 1..n, x \in Int : Base(s) * x + DigitValue[d[k]] \in Int
    BY <1>2 DEF Base
  <2> QED BY <2>1
<1>4. PICK f : IsRecursive(f, n, Int, 0, more)
  <2> DEFINE S == Int
  <2>1. 0 \in S /\ more \in [(1..n) \X S -> S]
    BY <1>3
  <2>2. S = Int
    OBVIOUS
  <2> HIDE DEF more, S
  <2>3. \E f : IsRecursive(f, n, S, 0, more)
    BY <1>1, <2>1, RecursiveFunction
  <2> QED BY <2>2, <2>3
<1>5. \A k \in 1..n : f[k] = Base(s) * f[k - 1] + DigitValue[d[k]]
  <2> TAKE k \in 1..n
  <2>1. f[k] = more[<<k, f[k - 1]>>]
    BY <1>4 DEF IsRecursive
  <2>2. k - 1 \in 0..n
    BY <1>1
  <2>3. f[k - 1] \in Int
    BY <1>4, <2>2 DEF IsRecursive
  <2> DEFINE x == f[k - 1]
  <2> HIDE DEF x
  <2>4. more[<<k, x>>] = Base(s) * x + DigitValue[d[k]]
    BY <2>3 DEF x
  <2> QED BY <2>1, <2>4 DEF x
<1>6. f \in [0..n -> Int] /\ f[0] = 0
  BY <1>4 DEF IsRecursive
<1>7. IsValue(f)
  <2>1. \A k \in 0..n : k = 0 \/ k \in 1..n
    BY <1>1
  <2> QED BY <1>5, <1>6, <2>1
<1>8. IsValue(value)
  <2> HIDE DEF IsValue
  <2> QED BY <1>7
<1>9. Exact(s) = IF Char(Unpadded(s), 1) = "-" THEN -value[n] ELSE value[n]
  BY DEF Exact, d, n
<1> HIDE DEF value
<1>10. value[n] \in Int
  <2> DEFINE T == {k \in 0..n : value[k] \in Int}
  <2>1. 0 \in T
    BY <1>1, <1>8
  <2>2. \A k \in 1..n : k - 1 \in T => k \in T
    <3> TAKE k \in 1..n
    <3>1. k \in 0..n /\ k # 0
      BY <1>1
    <3>2. value[k] = Base(s) * value[k - 1] + DigitValue[d[k]]
      BY <1>8, <3>1
    <3> HAVE k - 1 \in T
    <3>3. value[k - 1] \in Int
      OBVIOUS
    <3>4. Base(s) * value[k - 1] + DigitValue[d[k]] \in Int
      BY <1>2, <3>3 DEF Base
    <3> QED BY <3>1, <3>2, <3>4
  <2>3. n \in 0..n
    BY <1>1
  <2>4. \A k \in 0..n : k \in T
    <3> HIDE DEF T
    <3> QED BY <1>1, <2>1, <2>2, InductionUpTo
  <2> QED BY <2>3, <2>4
<1> QED BY <1>9, <1>10

\* strtol keeps the order of two numbers unless it takes them for equal.
LEMMA StrtolKeepsOrder ==
  ASSUME NEW s \in Seq(Chars), IsNumber(s), NEW t \in Seq(Chars), IsNumber(t),
         Exact(s) = Exact(t) \/ Strtol(s) # Strtol(t)
  PROVE  /\ Strtol(s) = Strtol(t) <=> Exact(s) = Exact(t)
         /\ Strtol(s) < Strtol(t) <=> Exact(s) < Exact(t)
         /\ Strtol(s) > Strtol(t) <=> Exact(s) > Exact(t)
<1>1. Exact(s) \in Int /\ Exact(t) \in Int /\ MaxLong \in Nat
  BY ExactIsInteger, IfEnvSetAssumption
<1> QED BY <1>1 DEF Strtol

-----------------------------------------------------------------------------
(* A pattern stands for itself.                                            *)

\* The reference definition of a pattern is that of a pattern from its first
\* character.
LEMMA GlobIsStands ==
  ASSUME NEW s \in Seq(Chars), NEW p \in Seq(Chars)
  PROVE  Glob(s, p) <=> Stands(s, p, 1, 1)
<1>1. Len(p) + 1 - 1 = Len(p)
  OBVIOUS
<1> QED BY <1>1 DEF Glob, Stands

\* Every string is matched by itself: what is compared as a pattern matches an
\* equal text, with stars and question marks in it too.
LEMMA StandsForItself ==
  ASSUME NEW s \in Seq(Chars)
  PROVE  Stands(s, s, 1, 1)
<1> DEFINE n == Len(s)
           T == {k \in 0..n : Stands(s, s, n + 1 - k, n + 1 - k)}
<1>1. n \in Nat
  OBVIOUS
<1>2. 0 \in T
  <2>1. n + 1 - 0 = n + 1 /\ 0 \in 0..n
    BY <1>1
  <2>2. Stands(s, s, n + 1, n + 1)
    BY StandsAtEnd
  <2> QED BY <2>1, <2>2
<1>3. ASSUME NEW k \in 1..n, k - 1 \in T
      PROVE  k \in T
  <2> DEFINE i == n + 1 - k
  <2>1. i \in 1..n /\ i \in 1..(n + 1) /\ i + 1 \in i..(n + 1) /\ n + 1 - (k - 1) = i + 1
    BY <1>1
  <2>2. Stands(s, s, i + 1, i + 1)
    BY <1>3, <2>1
  <2> HIDE DEF i
  <2>3. Stands(s, s, i, i)
    <3>1. CASE s[i] = "*"
      BY <2>1, <2>2, <3>1, StandsStar
    <3>2. CASE s[i] # "*"
      <4>1. i <= Len(s)
        BY <2>1
      <4> QED BY <2>1, <2>2, <3>2, <4>1, StandsOne
    <3> QED BY <3>1, <3>2
  <2> QED BY <2>3 DEF i
<1>4. n \in T
  <2>1. \A k \in 1..n : k - 1 \in T => k \in T
    BY <1>3
  <2>2. n \in 0..n
    BY <1>1
  <2> HIDE DEF T, n
  <2> QED BY <1>1, <1>2, <2>1, <2>2, InductionUpTo
<1>5. n + 1 - n = 1
  BY <1>1
<1> QED BY <1>4, <1>5
-----------------------------------------------------------------------------
(* The calls.                                                              *)

Values == {None} \cup UNION {{v.value, v.elsevalue} : v \in Variables}

\* A call keeps its arguments, and match has been called with them if the
\* condition has a ~; as long as the call runs, the variable is as it was.
CallOK ==
  /\ call # Idle =>
       /\ call.argument \in Arguments /\ call.asked \in Conditions /\ call.choice \in Variables
       /\ call.op = Operators(Written(call.asked))
       /\ call.numbers = Reading(call.argument, call.op.text)
       /\ "~" \in call.op.ops => text = call.argument /\ wildcard = call.op.text
       /\ result = "pending" => env = before
  /\ result \in {"pending", "true", "false"}
  /\ at # "done" => call # Idle /\ result = "pending"
  /\ result # "pending" => call # Idle
  /\ env \in Values

IfEnvSetInv == SearchInv /\ CallOK /\ VariableAsAsked

\* A call is not mistaken for none.
LEMMA CallIsNotIdle ==
  ASSUME NEW a, NEW o, NEW k, NEW c, NEW n
  PROVE  [argument |-> a, op |-> o, asked |-> k, choice |-> c, numbers |-> n] # Idle
BY DEF Idle

\* What the code computes is what the usage text says of the condition.
LEMMA ComparedAsAsked ==
  ASSUME SearchInv, CallOK, call # Idle, at = "done", ~NeedsNumbers,
         ~("~" \in call.op.ops /\ Numeric), ~(Numeric /\ Overflows)
  PROVE  (Compared # call.op.not) <=> Holds(call.argument, call.asked)
<1> DEFINE a == call.argument
           c == call.asked
           t == c.text
<1>1. /\ call.op = [not |-> c.nots % 2 = 1, ops |-> Elements(c.ops), text |-> t]
      /\ a \in Seq(Chars) /\ t \in Seq(Chars) /\ c.nots \in Nat
      /\ c.ops \in Seq({"<", "=", ">"}) \cup {<<"~">>}
  BY OperatorsRead, IfEnvSetAssumption DEF CallOK
<1>2. call.op.text = t /\ call.op.ops = Elements(c.ops) /\ call.op.not = (c.nots % 2 = 1)
  BY <1>1
<1>3. "~" \in Elements(c.ops) => (matched <=> Glob(a, t))
  BY <1>2, GlobIsStands DEF CallOK, SearchInv, SearchTypes, SearchOK
<1>4. a = t => Glob(a, t)
  BY <1>1, StandsForItself, GlobIsStands
<1> DEFINE numbers == Numbers(a, t)
           compared == \/ "<" \in Elements(c.ops) /\ Number(a) < Number(t)
                       \/ "=" \in Elements(c.ops) /\ Number(a) = Number(t)
                       \/ ">" \in Elements(c.ops) /\ Number(a) > Number(t)
           equal == IF numbers THEN Number(a) = Number(t) ELSE a = t
           plain == CASE c.ops = <<"~">> -> Glob(a, t)
                      [] c.ops = <<>> -> equal
                      [] OTHER -> IF numbers THEN compared ELSE a = t
           tests == Elements(c.ops) \cap {"<", "=", ">"}
<1>5. Numeric <=> numbers
  <2>1. <<Strtol(a), Strtol(t)>> # <<>>
    OBVIOUS
  <2> QED BY <1>2, <2>1 DEF CallOK, Reading, Numeric
<1>6. numbers => /\ Number(a) = Exact(a) /\ Number(t) = Exact(t)
                 /\ Strtol(a) = Strtol(t) <=> Exact(a) = Exact(t)
                 /\ Strtol(a) < Strtol(t) <=> Exact(a) < Exact(t)
                 /\ Strtol(a) > Strtol(t) <=> Exact(a) > Exact(t)
  BY <1>1, <1>2, <1>5, StrtolKeepsOrder DEF Number, Overflows, Numbers
<1>6a. numbers => call.numbers[1] = Strtol(a) /\ call.numbers[2] = Strtol(t)
  BY <1>2 DEF CallOK, Reading
<1>7. Compared <=> \/ "~" \in Elements(c.ops) /\ matched
                   \/ IF numbers THEN \/ Strtol(a) = Strtol(t) /\ (tests = {} \/ "=" \in tests)
                                      \/ Strtol(a) < Strtol(t) /\ "<" \in tests
                                      \/ Strtol(a) > Strtol(t) /\ ">" \in tests
                                 ELSE a = t
  BY <1>2, <1>5, <1>6a DEF Compared
<1>8. Holds(a, c) <=> (plain <=> (c.nots % 2 = 0))
  <2>1. Holds(a, c) <=> (plain = (c.nots % 2 = 0))
    BY DEF Holds
  <2>2. plain \in BOOLEAN
    <3>1. Glob(a, t) \in BOOLEAN
      BY DEF Glob
    <3>2. equal \in BOOLEAN /\ compared \in BOOLEAN
      OBVIOUS
    <3> HIDE DEF equal, compared
    <3> QED BY <3>1, <3>2
  <2> HIDE DEF plain
  <2> QED BY <2>1, <2>2
<1>9. Compared <=> plain
  <2>1. CASE c.ops = <<"~">>
    <3>1. "~" \in Elements(c.ops)
      BY <2>1 DEF Elements
    <3>2. ~numbers
      BY <1>2, <1>5, <3>1
    <3> QED BY <1>3, <1>4, <1>7, <2>1, <3>1, <3>2
  <2>2. CASE c.ops = <<>>
    <3>1. Elements(c.ops) = {}
      BY <2>2 DEF Elements
    <3>2. c.ops # <<"~">>
      BY <2>2
    <3>3. plain <=> equal
      BY <2>2, <3>2
    <3> QED BY <1>6, <1>7, <3>1, <3>3
  <2>3. CASE c.ops # <<"~">> /\ c.ops # <<>>
    <3>1. c.ops \in Seq({"<", "=", ">"})
      BY <1>1, <2>3
    <3>2. Elements(c.ops) \subseteq {"<", "=", ">"} /\ Elements(c.ops) # {}
      <4>1. 1 \in 1..Len(c.ops)
        BY <2>3, <3>1
      <4>2. c.ops[1] \in Elements(c.ops)
        BY <4>1 DEF Elements
      <4>3. \A k \in 1..Len(c.ops) : c.ops[k] \in {"<", "=", ">"}
        BY <3>1
      <4> QED BY <4>2, <4>3 DEF Elements
    <3>3. "~" \notin Elements(c.ops) /\ tests = Elements(c.ops)
      BY <3>2
    <3>4. plain <=> IF numbers THEN compared ELSE a = t
      BY <2>3
    <3> QED BY <1>6, <1>7, <3>2, <3>3, <3>4
  <2> QED BY <2>1, <2>2, <2>3
<1>10. (c.nots % 2 = 1) <=> ~(c.nots % 2 = 0)
  BY <1>1
<1>11. Compared \in BOOLEAN
  BY DEF Compared
<1> HIDE DEF plain
<1> QED BY <1>2, <1>8, <1>9, <1>10, <1>11

\* The comparison gives the variable what was asked for.
LEMMA CompareKeeps ==
  ASSUME IfEnvSetInv, Compare
  PROVE  IfEnvSetInv'
<1> USE DEF IfEnvSetInv
<1>1. /\ call # Idle /\ at = "done" /\ result = "pending" /\ env = before
      /\ call' = call /\ before' = before /\ UNCHANGED globVars
      /\ call.choice \in Variables
  BY DEF Compare, CallOK
<1>2. SearchInv'
  BY <1>1 DEF SearchInv, SearchTypes, SearchOK, PointersInside, Undecided, globVars
<1> DEFINE holds == Compared # call.op.not
<1>3. CASE NeedsNumbers
  <2>1. env' = env /\ result' = "false"
    BY <1>3 DEF Compare
  <2>2. CallOK'
    BY <1>1, <2>1 DEF CallOK, globVars, Values
  <2>3. NeedsNumbers'
    BY <1>1, <1>3 DEF NeedsNumbers, Numeric
  <2>4. VariableAsAsked'
    BY <2>3 DEF VariableAsAsked
  <2> QED BY <1>2, <2>2, <2>4
<1>4. CASE ~NeedsNumbers
  <2>1. result' = (IF holds THEN "true" ELSE "false") /\ Assign(holds)
    BY <1>4 DEF Compare
  <2> HIDE DEF holds
  <2> DEFINE value == IF holds THEN call.choice.value ELSE call.choice.elsevalue
  <2>2. env' = IF call.choice.named /\ (holds \/ value # None) THEN value ELSE env
    BY <2>1 DEF Assign
  <2>3. value \in Values /\ env \in Values
    BY <1>1 DEF Values, CallOK
  <2>4. CallOK'
    <3>1. env' \in Values
      BY <2>2, <2>3
    <3> HIDE DEF value
    <3> QED BY <1>1, <2>1, <3>1 DEF CallOK, globVars, Values
  <2>5. ASSUME ~("~" \in call.op.ops /\ Numeric), ~(Numeric /\ Overflows)
        PROVE  env' = Asked(Holds(call.argument, call.asked))
               /\ (result' = "true" <=> Holds(call.argument, call.asked))
    <3>1. holds <=> Holds(call.argument, call.asked)
      BY <1>1, <1>4, <2>5, ComparedAsAsked DEF holds
    <3>2. env' = Asked(Holds(call.argument, call.asked))
      BY <1>1, <2>2, <3>1 DEF Asked
    <3>3. result' = "true" <=> holds
      BY <2>1
    <3> QED BY <3>1, <3>2, <3>3
  <2>6. VariableAsAsked'
    BY <1>1, <2>5 DEF VariableAsAsked, Asked, Numeric, Overflows
  <2> QED BY <1>2, <2>4, <2>6
<1> QED BY <1>3, <1>4

\* A call begins: what is compared is the text of the condition without its
\* operators.
LEMMA BeginKeeps ==
  ASSUME IfEnvSetInv, call = Idle, NEW argument \in Arguments, NEW asked \in Conditions,
         NEW choice \in Variables, IfEnvSet(argument, asked, choice)
  PROVE  IfEnvSetInv'
<1> USE DEF IfEnvSetInv
<1> DEFINE op == Operators(Written(asked))
<1>1. /\ call' = [argument |-> argument, op |-> op, asked |-> asked, choice |-> choice,
                   numbers |-> Reading(argument, op.text)]
      /\ IF "~" \in op.ops THEN StartMatch(argument, op.text) ELSE UNCHANGED globVars
      /\ before' = env /\ env' = env /\ result' = result
  BY DEF IfEnvSet
<1>2. result = "pending" /\ at = "done"
  BY DEF CallOK
<1>3. argument \in Seq(Chars) /\ op.text \in Seq(Chars)
  <2>1. op.text = asked.text
    BY OperatorsRead
  <2> QED BY <2>1, IfEnvSetAssumption
<1> HIDE DEF op
<1>4. SearchInv'
  <2>1. CASE "~" \in op.ops
    <3>1. /\ text' = argument /\ wildcard' = op.text /\ str' = 1 /\ pattern' = 1
          /\ cp' = NULL /\ mp' = NULL /\ at' = "scan" /\ matched' = FALSE
      BY <1>1, <2>1 DEF StartMatch
    <3>2. 1 \in 1..(Len(argument) + 1) /\ 1 \in 1..(Len(op.text) + 1)
      BY <1>3
    <3> QED BY <1>3, <3>1, <3>2 DEF SearchInv, SearchTypes, SearchOK, PointersInside, Undecided
  <2>2. CASE "~" \notin op.ops
    BY <1>1, <2>2 DEF SearchInv, SearchTypes, SearchOK, PointersInside, Undecided, globVars
  <2> QED BY <2>1, <2>2
<1>5. CallOK'
  <2>1. call' # Idle
    BY <1>1, CallIsNotIdle
  <2>2. /\ call'.argument = argument /\ call'.op = op /\ call'.asked = asked
        /\ call'.choice = choice
        /\ call'.numbers = Reading(call'.argument, call'.op.text)
    BY <1>1
  <2>3. "~" \in op.ops => text' = argument /\ wildcard' = op.text
    BY <1>1 DEF StartMatch
  <2>4. call'.op = Operators(Written(call'.asked))
    BY <2>2 DEF op
  <2> QED BY <1>1, <1>2, <2>1, <2>2, <2>3, <2>4 DEF CallOK, Values
<1>6. VariableAsAsked'
  BY <1>1, <1>2 DEF VariableAsAsked
<1> QED BY <1>4, <1>5, <1>6

\* A step of the search leaves the call as it is.
LEMMA MatchingKeeps ==
  ASSUME IfEnvSetInv, Matching
  PROVE  IfEnvSetInv'
<1> USE DEF IfEnvSetInv
<1>1. Match /\ UNCHANGED ifVars
  BY DEF Matching
<1>2. SearchInv'
  BY <1>1, ScanKeeps, StarKeeps, SameKeeps, BackKeeps, RestKeeps DEF Match
<1>3. text' = text /\ wildcard' = wildcard /\ at # "done"
  BY <1>1 DEF Match, Scan, Star, Same, Back, Rest
<1>4. CallOK'
  BY <1>1, <1>3 DEF CallOK, ifVars, Values
<1>5. VariableAsAsked'
  BY <1>1, <1>3 DEF CallOK, VariableAsAsked, ifVars
<1> QED BY <1>2, <1>4, <1>5

\* The function returns.
LEMMA ReturnKeeps ==
  ASSUME IfEnvSetInv, Return
  PROVE  IfEnvSetInv'
<1> USE DEF IfEnvSetInv
<1>1. /\ call' = Idle /\ result' = "pending" /\ env' = env /\ at' = at
      /\ text' = <<>> /\ wildcard' = <<>> /\ str' = 1 /\ pattern' = 1 /\ matched' = TRUE
      /\ at = "done"
  BY DEF Return, CallOK
<1>2. <<>> \in Seq(Chars) /\ Len(<<>>) = 0
  OBVIOUS
<1>3. Stands(<<>>, <<>>, 1, 1)
  BY <1>2, StandsForItself
<1>4. SearchInv'
  BY <1>1, <1>2, <1>3 DEF SearchInv, SearchTypes, SearchOK, PointersInside
<1>5. CallOK' /\ VariableAsAsked'
  BY <1>1 DEF CallOK, VariableAsAsked, Values
<1> QED BY <1>4, <1>5

\* The inductive invariant
LEMMA InvHolds == Spec => []IfEnvSetInv
<1>1. Init => IfEnvSetInv
  <2> SUFFICES ASSUME Init PROVE IfEnvSetInv
    OBVIOUS
  <2>1. <<>> \in Seq(Chars) /\ Len(<<>>) = 0
    OBVIOUS
  <2>2. Stands(<<>>, <<>>, 1, 1)
    BY <2>1, StandsForItself
  <2>3. SearchInv
    BY <2>1, <2>2 DEF Init, NoCall, SearchInv, SearchTypes, SearchOK, PointersInside
  <2>4. CallOK /\ VariableAsAsked
    BY DEF Init, NoCall, CallOK, VariableAsAsked, Values
  <2> QED BY <2>3, <2>4 DEF IfEnvSetInv
<1>2. IfEnvSetInv /\ [Next]_vars => IfEnvSetInv'
  <2> SUFFICES ASSUME IfEnvSetInv, [Next]_vars PROVE IfEnvSetInv'
    OBVIOUS
  <2>1. CASE EpicsEnvUnset
    <3>1. /\ call = Idle /\ call' = call /\ result' = result /\ env' = None
          /\ UNCHANGED globVars
      BY <2>1 DEF EpicsEnvUnset
    <3>2. SearchInv'
      BY <3>1 DEF IfEnvSetInv, SearchInv, SearchTypes, SearchOK, PointersInside, Undecided, globVars
    <3>3. CallOK' /\ VariableAsAsked'
      BY <3>1 DEF IfEnvSetInv, CallOK, VariableAsAsked, Values, globVars
    <3> QED BY <3>2, <3>3 DEF IfEnvSetInv
  <2>2. CASE /\ call = Idle
             /\ \E argument \in Arguments, asked \in Conditions, choice \in Variables :
                  IfEnvSet(argument, asked, choice)
    BY <2>2, BeginKeeps
  <2>3. CASE Matching
    BY <2>3, MatchingKeeps
  <2>4. CASE Compare
    BY <2>4, CompareKeeps
  <2>5. CASE Return
    BY <2>5, ReturnKeeps
  <2>6. CASE UNCHANGED vars
    <3>1. UNCHANGED globVars /\ UNCHANGED ifVars
      BY <2>6 DEF vars
    <3>2. SearchInv'
      BY <3>1 DEF IfEnvSetInv, SearchInv, SearchTypes, SearchOK, PointersInside, Undecided, globVars
    <3>3. CallOK'
      BY <3>1 DEF IfEnvSetInv, CallOK, Values, globVars, ifVars
    <3>4. VariableAsAsked'
      BY <3>1 DEF IfEnvSetInv, VariableAsAsked, NeedsNumbers, Numeric, Overflows, Asked, ifVars
    <3> QED BY <3>2, <3>3, <3>4 DEF IfEnvSetInv
  <2> QED BY <2>1, <2>2, <2>3, <2>4, <2>5, <2>6 DEF Next
<1> QED BY <1>1, <1>2, PTL DEF Spec

\* The variables of every state have their types; no pointer of match leaves
\* its string.
THEOREM TypeCorrect == Spec => []TypeOK
<1>1. IfEnvSetInv => TypeOK
  BY DEF IfEnvSetInv, SearchInv, SearchTypes, CallOK, Values, TypeOK
<1> QED BY <1>1, InvHolds, PTL

\* For all strings and patterns, the search of match, which never goes back
\* behind the last *, answers what trying every reading of the pattern
\* answers (epicsStrGlobMatch and match).
THEOREM MatchCorrect == Spec => []MatchIsGlob
<1>1. IfEnvSetInv => MatchIsGlob
  <2> SUFFICES ASSUME IfEnvSetInv, at = "done" PROVE matched = Glob(text, wildcard)
    BY DEF MatchIsGlob
  <2>1. matched <=> Glob(text, wildcard)
    BY GlobIsStands DEF IfEnvSetInv, SearchInv, SearchTypes, SearchOK
  <2>2. matched \in BOOLEAN /\ Glob(text, wildcard) \in BOOLEAN
    BY DEF IfEnvSetInv, SearchInv, SearchTypes, Glob
  <2> QED BY <2>1, <2>2
<1> QED BY <1>1, InvHolds, PTL

\* ifEnvSet sets, unsets or leaves the variable as its condition says, for
\* any strings, number of ! and combination of <, = and >, and any size of long,
\* where both strings are numbers as strtol reads them with base 0 (decimal,
\* octal and hexadecimal digits, a sign, white space in front) or are texts.
\* Not covered: < and > for what is no number, ~ between two numbers, and two
\* different numbers of which one is no long.
THEOREM VariableCorrect == Spec => []VariableAsAsked
<1>1. IfEnvSetInv => VariableAsAsked
  BY DEF IfEnvSetInv
<1> QED BY <1>1, InvHolds, PTL

-----------------------------------------------------------------------------
(* Sequences put together.                                                 *)

\* f[k] is what the first k sequences make.
Joins(f, ss, S) ==
  /\ f \in [0..Len(ss) -> Seq(S)] /\ f[0] = <<>>
  /\ \A k \in 1..Len(ss) : f[k] = f[k - 1] \o ss[k]

\* FlattenSeq joins the sequences one by one.
LEMMA FlattenIs ==
  ASSUME NEW S, NEW ss \in Seq(Seq(S))
  PROVE  \E f : Joins(f, ss, S) /\ FlattenSeq(ss) = f[Len(ss)]
<1> DEFINE n == Len(ss)
           join == [x \in (1..n) \X Seq(S) |-> x[2] \o ss[x[1]]]
           IsFlat(g) == g = [i \in 1..n |-> IF i = 1 THEN ss[i] ELSE g[i - 1] \o ss[i]]
           flat == CHOOSE g : IsFlat(g)
<1>1. n \in Nat /\ <<>> \in Seq(S)
  OBVIOUS
<1>2. join \in [(1..n) \X Seq(S) -> Seq(S)]
  OBVIOUS
<1>3. PICK f : IsRecursive(f, n, Seq(S), <<>>, join)
  <2> HIDE DEF join, n
  <2> QED BY <1>1, <1>2, RecursiveFunction
<1>4. \A k \in 1..n : f[k] = f[k - 1] \o ss[k]
  <2> TAKE k \in 1..n
  <2>1. k - 1 \in 0..n
    BY <1>1
  <2>2. f[k - 1] \in Seq(S) /\ f[k] = join[<<k, f[k - 1]>>]
    BY <1>3, <2>1 DEF IsRecursive
  <2> QED BY <2>2
<1>5. Joins(f, ss, S)
  BY <1>3, <1>4 DEF Joins, IsRecursive
<1>6. CASE n = 0
  BY <1>5, <1>6 DEF FlattenSeq, Joins
<1>7. CASE n # 0
  <2> DEFINE g == [i \in 1..n |-> f[i]]
  <2>1. f[1] = ss[1]
    <3>1. f[1] = <<>> \o ss[1] /\ ss[1] \in Seq(S)
      <4>1. 1 \in 1..n /\ 1 - 1 = 0
        BY <1>1, <1>7
      <4>2. f[1] = f[1 - 1] \o ss[1]
        BY <1>4, <4>1
      <4>3. f[1 - 1] = <<>>
        BY <1>5, <4>1 DEF Joins
      <4> QED BY <4>1, <4>2, <4>3
    <3> QED BY <3>1
  <2>2. IsFlat(g)
    <3>1. \A i \in 1..n : i # 1 => i - 1 \in 1..n
      BY <1>1
    <3> HIDE DEF n
    <3> QED BY <1>4, <2>1, <3>1
  <2>3. IsFlat(flat)
    <3> HIDE DEF IsFlat
    <3> QED BY <2>2
  <2>4. FlattenSeq(ss) = flat[n]
    BY <1>7 DEF FlattenSeq
  <2> HIDE DEF flat
  <2> DEFINE T == {k \in 0..n : k = 0 \/ flat[k] = f[k]}
  <2>5. 0 \in T
    BY <1>1
  <2>6. ASSUME NEW k \in 1..n, k - 1 \in T PROVE k \in T
    <3>1. flat[k] = IF k = 1 THEN ss[k] ELSE flat[k - 1] \o ss[k]
      BY <2>3
    <3>2. CASE k = 1
      BY <2>1, <3>1, <3>2
    <3>3. CASE k # 1
      <4>1. flat[k - 1] = f[k - 1]
        BY <1>1, <2>6, <3>3
      <4>2. f[k] = f[k - 1] \o ss[k]
        BY <1>4
      <4>3. flat[k] = flat[k - 1] \o ss[k]
        BY <3>1, <3>3
      <4>4. flat[k] = f[k]
        BY <4>1, <4>2, <4>3
      <4> QED BY <1>1, <4>4
    <3> QED BY <3>2, <3>3
  <2>7. n \in T
    <3>1. n \in 0..n /\ \A k \in 1..n : k - 1 \in T => k \in T
      <4>1. n \in 0..n
        BY <1>1
      <4> HIDE DEF T, n
      <4> QED BY <2>6, <4>1
    <3> HIDE DEF T, n
    <3> QED BY <1>1, <2>5, <3>1, InductionUpTo
  <2> QED BY <1>5, <1>7, <2>4, <2>7
<1> QED BY <1>6, <1>7

\* f[k] is what is chosen from the first k elements.
Chooses(f, s, I, S) ==
  /\ f \in [0..Len(s) -> Seq(S)] /\ f[0] = <<>>
  /\ \A k \in 1..Len(s) : f[k] = IF k \in I THEN Append(f[k - 1], s[k]) ELSE f[k - 1]

\* The recursion that defines Selected
LEMMA SelectedIs ==
  ASSUME NEW S, NEW s \in Seq(S), NEW I
  PROVE  \E f : Chooses(f, s, I, S) /\ Selected(s, I) = f[Len(s)]
<1> DEFINE n == Len(s)
           choose == [x \in (1..n) \X Seq(S) |-> IF x[1] \in I THEN Append(x[2], s[x[1]]) ELSE x[2]]
           IsChosen(g) == g = [k \in 0..n |-> IF k = 0 THEN <<>>
                                ELSE IF k \in I THEN Append(g[k - 1], s[k]) ELSE g[k - 1]]
           chosen == CHOOSE g : IsChosen(g)
<1>1. n \in Nat /\ <<>> \in Seq(S)
  OBVIOUS
<1>2. choose \in [(1..n) \X Seq(S) -> Seq(S)]
  OBVIOUS
<1>3. PICK f : IsRecursive(f, n, Seq(S), <<>>, choose)
  <2> HIDE DEF choose, n
  <2> QED BY <1>1, <1>2, RecursiveFunction
<1>4. \A k \in 1..n : f[k] = IF k \in I THEN Append(f[k - 1], s[k]) ELSE f[k - 1]
  <2> TAKE k \in 1..n
  <2>1. k - 1 \in 0..n
    BY <1>1
  <2>2. f[k - 1] \in Seq(S) /\ f[k] = choose[<<k, f[k - 1]>>]
    BY <1>3, <2>1 DEF IsRecursive
  <2> QED BY <2>2
<1>5. Chooses(f, s, I, S)
  BY <1>3, <1>4 DEF Chooses, IsRecursive
<1>6. IsChosen(f)
  <2>1. f = [k \in 0..n |-> f[k]] /\ f[0] = <<>> /\ \A k \in 0..n : k = 0 \/ k \in 1..n
    BY <1>1, <1>5 DEF Chooses
  <2> HIDE DEF n
  <2> QED BY <1>4, <2>1
<1>7. IsChosen(chosen)
  <2> HIDE DEF IsChosen
  <2> QED BY <1>6
<1>8. Selected(s, I) = chosen[n]
  BY DEF Selected
<1> HIDE DEF chosen
<1> DEFINE T == {k \in 0..n : chosen[k] = f[k]}
<1>9. 0 \in T
  BY <1>1, <1>5, <1>7 DEF Chooses
<1>10. ASSUME NEW k \in 1..n, k - 1 \in T PROVE k \in T
  <2>1. chosen[k] = IF k = 0 THEN <<>> ELSE IF k \in I THEN Append(chosen[k - 1], s[k]) ELSE chosen[k - 1]
    <3>1. k \in 0..n
      BY <1>1
    <3> HIDE DEF n
    <3> QED BY <1>7, <3>1
  <2>2. k # 0
    BY <1>1
  <2> QED BY <1>4, <1>10, <2>1, <2>2
<1>11. n \in T
  <2>1. n \in 0..n /\ \A k \in 1..n : k - 1 \in T => k \in T
    BY <1>1, <1>10
  <2> HIDE DEF T, n
  <2> QED BY <1>1, <1>9, <2>1, InductionUpTo
<1> QED BY <1>5, <1>8, <1>11

-----------------------------------------------------------------------------
(* The elements of sequences put together.                                 *)

\* \o and Append, by names that can be kept folded
Cat(a, b) == a \o b
Add(a, e) == Append(a, e)

NoRepeat(s) == \A j, k \in 1..Len(s) : s[j] = s[k] => j = k

\* One element more
Adds(w, a, e) ==
  /\ \A x : x \in Elements(w) <=> x \in Elements(a) \/ x = e
  /\ NoRepeat(a) /\ e \notin Elements(a) => NoRepeat(w)
\* Append adds the element behind the others.
LEMMA ElementsOfAppend ==
  ASSUME NEW S, NEW a \in Seq(S), NEW e, e \in S, NEW w, w = Add(a, e)
  PROVE  Adds(w, a, e)
<1>1. /\ w \in Seq(S) /\ Len(w) = Len(a) + 1 /\ w[Len(a) + 1] = e /\ Len(a) \in Nat
      /\ \A k \in 1..Len(a) : w[k] = a[k]
  BY AppendProperties DEF Add
<1>2. \A k : k \in 1..Len(w) <=> k \in 1..Len(a) \/ k = Len(a) + 1
  BY <1>1
<1>3. \A x : x \in Elements(w) <=> x \in Elements(a) \/ x = e
  BY <1>1, <1>2 DEF Elements
<1>4. ASSUME NoRepeat(a), e \notin Elements(a) PROVE NoRepeat(w)
  BY <1>1, <1>2, <1>4 DEF Elements, NoRepeat
<1> QED BY <1>3, <1>4 DEF Adds

\* Two sequences, one behind the other
LEMMA ElementsOfConcat ==
  ASSUME NEW S, NEW a \in Seq(S), NEW b \in Seq(S), NEW w, w = Cat(a, b)
  PROVE  /\ w \in Seq(S) /\ Elements(w) = Elements(a) \cup Elements(b)
         /\ NoRepeat(a) /\ NoRepeat(b) /\ Elements(a) \cap Elements(b) = {} => NoRepeat(w)
<1>1. /\ w \in Seq(S) /\ Len(w) = Len(a) + Len(b) /\ Len(a) \in Nat /\ Len(b) \in Nat
      /\ \A i \in 1..(Len(a) + Len(b)) : w[i] = IF i <= Len(a) THEN a[i] ELSE b[i - Len(a)]
  BY ConcatProperties DEF Cat
<1>2. \A k \in 1..Len(a) : k \in 1..Len(w) /\ w[k] = a[k]
  BY <1>1
<1>3. \A k \in 1..Len(b) : Len(a) + k \in 1..Len(w) /\ w[Len(a) + k] = b[k]
  <2> TAKE k \in 1..Len(b)
  <2>1. Len(a) + k \in 1..(Len(a) + Len(b)) /\ ~(Len(a) + k <= Len(a)) /\ (Len(a) + k) - Len(a) = k
    BY <1>1
  <2>2. w[Len(a) + k] = b[(Len(a) + k) - Len(a)]
    BY <1>1, <2>1
  <2> QED BY <1>1, <2>1, <2>2
<1>4. \A k \in 1..Len(w) : \/ k \in 1..Len(a) /\ w[k] = a[k]
                           \/ k - Len(a) \in 1..Len(b) /\ w[k] = b[k - Len(a)]
  BY <1>1
<1>5. Elements(w) = Elements(a) \cup Elements(b)
  <2>1. Elements(w) \subseteq Elements(a) \cup Elements(b)
    BY <1>4 DEF Elements
  <2>2. Elements(a) \subseteq Elements(w)
    BY <1>2 DEF Elements
  <2>3. Elements(b) \subseteq Elements(w)
    BY <1>3 DEF Elements
  <2> QED BY <2>1, <2>2, <2>3
<1>6. ASSUME NoRepeat(a), NoRepeat(b), Elements(a) \cap Elements(b) = {} PROVE NoRepeat(w)
  <2> SUFFICES ASSUME NEW j \in 1..Len(w), NEW k \in 1..Len(w), w[j] = w[k] PROVE j = k
    BY DEF NoRepeat
  <2>1. \A m \in 1..Len(a), n \in 1..Len(b) : a[m] # b[n]
    BY <1>6 DEF Elements
  <2>2. CASE j \in 1..Len(a)
    <3>1. w[j] = a[j]
      BY <1>2, <2>2
    <3>2. k \in 1..Len(a) /\ w[k] = a[k]
      BY <1>4, <2>1, <2>2, <3>1
    <3> QED BY <1>6, <2>2, <3>1, <3>2 DEF NoRepeat
  <2>3. CASE j \notin 1..Len(a)
    <3>1. j - Len(a) \in 1..Len(b) /\ w[j] = b[j - Len(a)]
      BY <1>4, <2>3
    <3>2. k - Len(a) \in 1..Len(b) /\ w[k] = b[k - Len(a)]
      BY <1>4, <2>1, <3>1
    <3>3. j - Len(a) = k - Len(a)
      BY <1>6, <3>1, <3>2 DEF NoRepeat
    <3> QED BY <1>1, <3>3
  <2> QED BY <2>2, <2>3
<1> QED BY <1>1, <1>5, <1>6

\* What is chosen, and each once if each is there once
LEMMA ElementsOfSelected ==
  ASSUME NEW S, NEW s \in Seq(S), NEW I
  PROVE  /\ Selected(s, I) \in Seq(S)
         /\ Elements(Selected(s, I)) = {s[k] : k \in I \cap (1..Len(s))}
         /\ NoRepeat(s) => NoRepeat(Selected(s, I))
<1> DEFINE n == Len(s)
<1>1. n \in Nat /\ \A k \in 1..n : s[k] \in S
  OBVIOUS
<1>2. PICK f : Chooses(f, s, I, S) /\ Selected(s, I) = f[n]
  BY SelectedIs
<1>3. f \in [0..n -> Seq(S)] /\ f[0] = <<>>
      /\ \A k \in 1..n : f[k] = IF k \in I THEN Append(f[k - 1], s[k]) ELSE f[k - 1]
  BY <1>2 DEF Chooses
<1> DEFINE Good(k) == /\ Elements(f[k]) = {s[j] : j \in I \cap (1..k)}
                      /\ NoRepeat(s) => NoRepeat(f[k])
           T == {k \in 0..n : Good(k)}
<1>4. 0 \in T
  <2>1. Elements(f[0]) = {} /\ NoRepeat(f[0])
    BY <1>3 DEF Elements, NoRepeat
  <2>2. I \cap (1..0) = {} /\ 0 \in 0..n
    BY <1>1
  <2> QED BY <2>1, <2>2
<1>5. ASSUME NEW k \in 1..n, k - 1 \in T PROVE k \in T
  <2>1. k - 1 \in 0..n /\ k \in 0..n
    BY <1>1
  <2>2. f[k - 1] \in Seq(S) /\ s[k] \in S
    BY <1>1, <1>3, <2>1
  <2>3. \A j : j \in 1..k <=> j \in 1..(k - 1) \/ j = k
    BY <1>1
  <2>4. Good(k - 1)
    BY <1>5
  <2>5. CASE k \in I
    <3>1. f[k] = Add(f[k - 1], s[k])
      BY <1>3, <2>5 DEF Add
    <3>2. /\ Elements(f[k]) = Elements(f[k - 1]) \cup {s[k]}
          /\ NoRepeat(f[k - 1]) /\ s[k] \notin Elements(f[k - 1]) => NoRepeat(f[k])
      <4>1. PICK a, e, w : a = f[k - 1] /\ e = s[k] /\ w = f[k]
        OBVIOUS
      <4>2. a \in Seq(S) /\ e \in S /\ w = Add(a, e)
        BY <2>2, <3>1, <4>1
      <4>3. Adds(w, a, e)
        BY <4>2, ElementsOfAppend
      <4> QED BY <4>1, <4>3 DEF Adds
    <3>3. ASSUME NoRepeat(s) PROVE s[k] \notin Elements(f[k - 1])
      <4>1. \A j \in 1..(k - 1) : j \in 1..n /\ j # k
        BY <1>1
      <4> QED BY <2>4, <3>3, <4>1 DEF NoRepeat
    <3> QED BY <2>1, <2>3, <2>4, <2>5, <3>2, <3>3
  <2>6. CASE k \notin I
    <3>1. f[k] = f[k - 1]
      BY <1>3, <2>6
    <3> QED BY <2>1, <2>3, <2>4, <2>6, <3>1
  <2> QED BY <2>5, <2>6
<1>6. n \in T
  <2>1. \A k \in 1..n : k - 1 \in T => k \in T
    BY <1>5
  <2>2. n \in 0..n
    BY <1>1
  <2> HIDE DEF T, n
  <2> QED BY <1>1, <1>4, <2>1, <2>2, InductionUpTo
<1>7. f[n] \in Seq(S)
  BY <1>1, <1>3
<1> QED BY <1>2, <1>6, <1>7

\* What is in sequences that are joined, and each once if no two share any
LEMMA ElementsOfFlattened ==
  ASSUME NEW S, NEW ss \in Seq(Seq(S))
  PROVE  /\ FlattenSeq(ss) \in Seq(S)
         /\ Elements(FlattenSeq(ss)) = UNION {Elements(ss[k]) : k \in 1..Len(ss)}
         /\ /\ \A k \in 1..Len(ss) : NoRepeat(ss[k])
            /\ \A j, k \in 1..Len(ss) : j # k => Elements(ss[j]) \cap Elements(ss[k]) = {}
            => NoRepeat(FlattenSeq(ss))
<1> DEFINE n == Len(ss)
           Apart == /\ \A k \in 1..n : NoRepeat(ss[k])
                    /\ \A j, k \in 1..n : j # k => Elements(ss[j]) \cap Elements(ss[k]) = {}
<1>1. n \in Nat /\ \A k \in 1..n : ss[k] \in Seq(S)
  OBVIOUS
<1>2. PICK f : Joins(f, ss, S) /\ FlattenSeq(ss) = f[n]
  BY FlattenIs
<1>3. f \in [0..n -> Seq(S)] /\ f[0] = <<>> /\ \A k \in 1..n : f[k] = f[k - 1] \o ss[k]
  BY <1>2 DEF Joins
<1> DEFINE Good(k) == /\ Elements(f[k]) = UNION {Elements(ss[j]) : j \in 1..k}
                      /\ Apart => NoRepeat(f[k])
           T == {k \in 0..n : Good(k)}
<1>4. 0 \in T
  <2>1. Elements(f[0]) = {} /\ NoRepeat(f[0])
    BY <1>3 DEF Elements, NoRepeat
  <2>2. 1..0 = {} /\ 0 \in 0..n
    BY <1>1
  <2> QED BY <2>1, <2>2
<1>5. ASSUME NEW k \in 1..n, k - 1 \in T PROVE k \in T
  <2>1. k - 1 \in 0..n /\ k \in 0..n
    BY <1>1
  <2>2. f[k - 1] \in Seq(S) /\ ss[k] \in Seq(S)
    BY <1>1, <1>3, <2>1
  <2>3. \A j : j \in 1..k <=> j \in 1..(k - 1) \/ j = k
    BY <1>1
  <2>4. Good(k - 1)
    BY <1>5
  <2>5. f[k] = Cat(f[k - 1], ss[k])
    BY <1>3 DEF Cat
  <2>6. /\ Elements(f[k]) = Elements(f[k - 1]) \cup Elements(ss[k])
        /\ NoRepeat(f[k - 1]) /\ NoRepeat(ss[k]) /\ Elements(f[k - 1]) \cap Elements(ss[k]) = {} => NoRepeat(f[k])
    <3>1. PICK a, b, w : a = f[k - 1] /\ b = ss[k] /\ w = f[k]
      OBVIOUS
    <3>2. a \in Seq(S) /\ b \in Seq(S) /\ w = Cat(a, b)
      BY <2>2, <2>5, <3>1
    <3>3. /\ Elements(w) = Elements(a) \cup Elements(b)
          /\ NoRepeat(a) /\ NoRepeat(b) /\ Elements(a) \cap Elements(b) = {} => NoRepeat(w)
      BY <3>2, ElementsOfConcat
    <3> QED BY <3>1, <3>3
  <2>7. Elements(f[k]) = UNION {Elements(ss[j]) : j \in 1..k}
    BY <2>3, <2>4, <2>6
  <2>8. ASSUME Apart PROVE Elements(f[k - 1]) \cap Elements(ss[k]) = {}
    <3>1. \A j \in 1..(k - 1) : j \in 1..n /\ j # k
      BY <1>1
    <3> QED BY <2>4, <2>8, <3>1
  <2> QED BY <2>1, <2>4, <2>6, <2>7, <2>8
<1>6. n \in T
  <2>1. \A k \in 1..n : k - 1 \in T => k \in T
    BY <1>5
  <2>2. n \in 0..n
    BY <1>1
  <2> HIDE DEF T, n
  <2> QED BY <1>1, <1>4, <2>1, <2>2, InductionUpTo
<1>7. f[n] \in Seq(S)
  BY <1>1, <1>3
<1> QED BY <1>2, <1>6, <1>7

-----------------------------------------------------------------------------
(* dbli: what is listed before the cursor.                                 *)

InfoLine == Seq(Chars) \X Seq(Chars)

\* What the first infos of a record, the first records of a type and the first
\* types add to the list
ByInfo(record, patterns) ==
  CHOOSE f : /\ Chooses(f, InfoLines(record), AskedInfos(record, patterns), InfoLine)
             /\ InfosOfRecord(record, patterns) = f[Len(InfoLines(record))]
ByRecord(records, patterns) ==
  CHOOSE f : /\ Joins(f, [r \in DOMAIN records |-> InfosOfRecord(records[r], patterns)], InfoLine)
             /\ InfosOfType(records, patterns) =
                  f[Len([r \in DOMAIN records |-> InfosOfRecord(records[r], patterns)])]
LaterInfos(t, patterns) == IF t < 2 THEN <<>> ELSE InfosOfType(Database[t], patterns)
ByType(patterns) ==
  CHOOSE f : /\ Joins(f, [t \in DOMAIN Database |-> LaterInfos(t, patterns)], InfoLine)
             /\ InfosFrom(2, patterns) =
                  f[Len([t \in DOMAIN Database |-> LaterInfos(t, patterns)])]

\* Info by info
LEMMA ByInfoIs ==
  ASSUME NEW record \in DbRecord, NEW patterns
  PROVE  LET f == ByInfo(record, patterns)  n == Len(record.infos) IN
         /\ f \in [0..n -> Seq(InfoLine)] /\ f[0] = <<>>
         /\ \A k \in 1..n : f[k] = IF k \in AskedInfos(record, patterns)
                                   THEN Append(f[k - 1], <<record.name, record.infos[k]>>) ELSE f[k - 1]
         /\ f[n] = InfosOfRecord(record, patterns)
<1> DEFINE lines == InfoLines(record)
<1>1. record.infos \in Seq(Seq(Chars)) /\ record.name \in Seq(Chars)
  BY DEF DbRecord
<1>2. /\ lines \in Seq(InfoLine) /\ Len(lines) = Len(record.infos)
      /\ \A k \in 1..Len(record.infos) : lines[k] = <<record.name, record.infos[k]>>
  <2> DEFINE infos == record.infos
  <2>1. infos \in Seq(Seq(Chars)) /\ DOMAIN infos = 1..Len(infos) /\ Len(infos) \in Nat
    BY <1>1
  <2>2. lines = [k \in DOMAIN infos |-> <<record.name, infos[k]>>]
    BY DEF InfoLines
  <2> HIDE DEF infos, lines
  <2>3. \A k \in 1..Len(infos) : <<record.name, infos[k]>> \in InfoLine
    BY <1>1, <2>1 DEF InfoLine
  <2>4. lines \in [1..Len(infos) -> InfoLine]
    BY <2>1, <2>2, <2>3
  <2> QED BY <2>1, <2>2, <2>4 DEF infos
<1> HIDE DEF lines
<1> DEFINE Is(f) == /\ Chooses(f, lines, AskedInfos(record, patterns), InfoLine)
                    /\ InfosOfRecord(record, patterns) = f[Len(lines)]
<1>3. \E f : Is(f)
  BY <1>2, SelectedIs DEF InfosOfRecord, lines
<1>4. Is(ByInfo(record, patterns))
  <2>1. ByInfo(record, patterns) = CHOOSE f : Is(f)
    BY DEF ByInfo, lines
  <2> HIDE DEF Is
  <2> QED BY <1>3, <2>1
<1> QED BY <1>2, <1>4 DEF Chooses

\* Record by record
LEMMA ByRecordIs ==
  ASSUME NEW records \in Seq(DbRecord), NEW patterns
  PROVE  LET f == ByRecord(records, patterns)  n == Len(records) IN
         /\ f \in [0..n -> Seq(InfoLine)] /\ f[0] = <<>>
         /\ \A k \in 1..n : f[k] = f[k - 1] \o InfosOfRecord(records[k], patterns)
         /\ f[n] = InfosOfType(records, patterns)
<1> DEFINE parts == [r \in DOMAIN records |-> InfosOfRecord(records[r], patterns)]
<1>1. \A r \in 1..Len(records) : InfosOfRecord(records[r], patterns) \in Seq(InfoLine)
  <2> TAKE r \in 1..Len(records)
  <2>1. records[r] \in DbRecord /\ Len(records[r].infos) \in Nat
    <3>1. records[r] \in DbRecord
      OBVIOUS
    <3>2. records[r].infos \in Seq(Seq(Chars))
      BY <3>1 DEF DbRecord
    <3> QED BY <3>1, <3>2
  <2>2. Len(records[r].infos) \in 0..Len(records[r].infos)
    BY <2>1
  <2> QED BY <2>1, <2>2, ByInfoIs
<1>2. /\ parts \in Seq(Seq(InfoLine)) /\ Len(parts) = Len(records)
      /\ \A k \in 1..Len(records) : parts[k] = InfosOfRecord(records[k], patterns)
  BY <1>1
<1>3. InfosOfType(records, patterns) = FlattenSeq(parts)
  BY DEF InfosOfType
<1> DEFINE Is(f) == Joins(f, parts, InfoLine) /\ InfosOfType(records, patterns) = f[Len(parts)]
<1>4. ByRecord(records, patterns) = CHOOSE f : Is(f)
  BY DEF ByRecord
<1> HIDE DEF parts
<1>5. \E f : Is(f)
  BY <1>2, <1>3, FlattenIs
<1>6. Is(ByRecord(records, patterns))
  <2> HIDE DEF Is
  <2> QED BY <1>4, <1>5
<1> QED BY <1>2, <1>6 DEF Joins

\* Type by type, from the second on
LEMMA ByTypeIs ==
  ASSUME NEW patterns
  PROVE  LET f == ByType(patterns)  n == Len(Database) IN
         /\ f \in [0..n -> Seq(InfoLine)] /\ f[0] = <<>>
         /\ \A k \in 1..n : f[k] = f[k - 1] \o LaterInfos(k, patterns)
         /\ f[n] = InfosFrom(2, patterns)
<1> DEFINE parts == [t \in DOMAIN Database |-> LaterInfos(t, patterns)]
<1>1. \A t \in 1..Len(Database) : LaterInfos(t, patterns) \in Seq(InfoLine)
  <2> TAKE t \in 1..Len(Database)
  <2>1. Database[t] \in Seq(DbRecord)
    BY DbListsAssumption
  <2>2. Len(Database[t]) \in 0..Len(Database[t])
    BY <2>1
  <2>3. InfosOfType(Database[t], patterns) \in Seq(InfoLine)
    <3> DEFINE f == ByRecord(Database[t], patterns)
               n == Len(Database[t])
    <3>1. f \in [0..n -> Seq(InfoLine)] /\ f[n] = InfosOfType(Database[t], patterns) /\ n \in 0..n
      BY <2>1, <2>2, ByRecordIs
    <3> HIDE DEF f, n
    <3> QED BY <3>1
  <2>4. <<>> \in Seq(InfoLine)
    OBVIOUS
  <2> QED BY <2>3, <2>4 DEF LaterInfos
<1>2. /\ parts \in Seq(Seq(InfoLine)) /\ Len(parts) = Len(Database)
      /\ \A k \in 1..Len(Database) : parts[k] = LaterInfos(k, patterns)
  <2>1. Database \in Seq(Seq(DbRecord))
    BY DbListsAssumption
  <2>2. DOMAIN Database = 1..Len(Database) /\ Len(Database) \in Nat
    BY <2>1
  <2>3. parts \in [1..Len(Database) -> Seq(InfoLine)]
    BY <1>1, <2>2
  <2> QED BY <2>2, <2>3
<1>3. InfosFrom(2, patterns) = FlattenSeq(parts)
  BY DEF InfosFrom, LaterInfos
<1> DEFINE Is(f) == Joins(f, parts, InfoLine) /\ InfosFrom(2, patterns) = f[Len(parts)]
<1>4. ByType(patterns) = CHOOSE f : Is(f)
  BY DEF ByType
<1> HIDE DEF parts
<1>5. \E f : Is(f)
  BY <1>2, <1>3, FlattenIs
<1>6. Is(ByType(patterns))
  <2> HIDE DEF Is
  <2> QED BY <1>4, <1>5
<1> QED BY <1>2, <1>6 DEF Joins

-----------------------------------------------------------------------------
(* dbli: the cursor.                                                       *)

\* All that dbli lists in front of a record
ListedBefore(t, r, patterns) == ByType(patterns)[t - 1] \o ByRecord(Database[t], patterns)[r - 1]

\* The cursor has not been anywhere, is at an info, or behind the last one.
CursorAt(t, r, i, loop, lines, patterns) ==
  /\ t \in 1..Len(Database)
  /\ loop \in {"info", "record"} =>
       \/ t = 1 /\ r = 0 /\ i = 0 /\ lines = <<>>
       \/ /\ t > 1 /\ r \in 1..Len(Database[t])
          /\ i \in 0..Len(InfosAt(t, r)) /\ (loop = "info" => i > 0)
          /\ lines = ListedBefore(t, r, patterns) \o
                        IF loop = "info" THEN ByInfo(Database[t][r], patterns)[i]
                        ELSE InfosOfRecord(Database[t][r], patterns)
  /\ loop = "type" => lines = ByType(patterns)[t]
  /\ loop = "done" => lines = InfosFrom(2, patterns)

CursorOK == CursorAt(cursor.type, cursor.record, cursor.info, step, listed, query.patterns)

DbliInv == query # NoQuery => query \in Queries /\ (query.of = "dbli" => CursorOK)

\* The types, records and infos that the cursor can be at
LEMMA DatabaseIs ==
  /\ Len(Database) \in Nat \ {0} /\ DOMAIN Database = 1..Len(Database)
  /\ \A t \in 1..Len(Database) : /\ Database[t] \in Seq(DbRecord) /\ Len(Database[t]) \in Nat
       /\ \A r \in 1..Len(Database[t]) : /\ Database[t][r] \in DbRecord
            /\ InfosAt(t, r) \in Seq(Seq(Chars)) /\ Len(InfosAt(t, r)) \in Nat
            /\ Database[t][r].name \in Seq(Chars)
<1>1. Database \in Seq(Seq(DbRecord)) /\ Len(Database) > 0
  BY DbListsAssumption
<1>2. Len(Database) \in Nat \ {0} /\ DOMAIN Database = 1..Len(Database)
  BY <1>1
<1>3. ASSUME NEW t \in 1..Len(Database)
      PROVE  Database[t] \in Seq(DbRecord) /\ Len(Database[t]) \in Nat
  BY <1>1
<1>4. ASSUME NEW t \in 1..Len(Database), NEW r \in 1..Len(Database[t])
      PROVE  /\ Database[t][r] \in DbRecord
             /\ InfosAt(t, r) \in Seq(Seq(Chars)) /\ Len(InfosAt(t, r)) \in Nat
             /\ Database[t][r].name \in Seq(Chars)
  <2> DEFINE records == Database[t]
  <2>1. records \in Seq(DbRecord)
    BY <1>3
  <2>2. records[r] \in DbRecord
    BY <2>1
  <2> HIDE DEF records
  <2>3. records[r].infos \in Seq(Seq(Chars)) /\ records[r].name \in Seq(Chars)
    BY <2>2 DEF DbRecord
  <2> QED BY <2>2, <2>3 DEF InfosAt, records
<1> QED BY <1>2, <1>3, <1>4

\* The queries are typed.
LEMMA QueryIs ==
  ASSUME NEW q \in Queries
  PROVE  /\ q.of \in {"dbll", "dbla", "dbli"} /\ q.match \in {Missing} \cup Seq(Chars \ {"NULL"})
         /\ q.patterns \in Seq(Seq(Chars)) /\ q # NoQuery
BY DbListsAssumption DEF DbQuery, NoQuery

\* SelectInSeq finds one of the patterns that match if there is one.
LEMMA ListedIfAsked ==
  ASSUME NEW t \in 1..Len(Database), NEW r \in 1..Len(Database[t]), NEW i \in 1..Len(InfosAt(t, r)),
         query \in Queries
  PROVE  Listed(t, r, i) = IF i \in AskedInfos(Database[t][r], query.patterns)
                           THEN Append(listed, <<Database[t][r].name, InfosAt(t, r)[i]>>) ELSE listed
<1> DEFINE name == InfosAt(t, r)[i]
           patterns == query.patterns
           hits == {k \in 1..Len(patterns) : Glob(name, patterns[k])}
           found == IF hits # {} THEN Min(hits) ELSE 0
<1>1. patterns \in Seq(Seq(Chars))
  BY QueryIs
<1>2. found # 0 <=> hits # {}
  <2>1. hits \in SUBSET Nat /\ 0 \notin hits
    BY <1>1
  <2> SUFFICES ASSUME hits # {} PROVE found \in hits
    BY <2>1
  <2> HIDE DEF hits
  <2>2. \E n \in hits : \A m \in hits : n <= m
    BY <2>1, LeastNat
  <2>3. Min(hits) \in hits
    BY <2>2 DEF Min
  <2> QED BY <2>3
<1>3. Listed(t, r, i) = IF patterns = <<>> \/ found # 0
                        THEN Append(listed, <<Database[t][r].name, name>>) ELSE listed
  BY DEF Listed, SelectInSeq
<1>4. i \in AskedInfos(Database[t][r], patterns) <=> patterns = <<>> \/ hits # {}
  <2>1. DOMAIN patterns = 1..Len(patterns)
    BY <1>1
  <2>2. i \in DOMAIN Database[t][r].infos
    BY DatabaseIs DEF InfosAt
  <2> HIDE DEF patterns
  <2> QED BY <2>1, <2>2 DEF AskedInfos, InfosAt
<1> QED BY <1>2, <1>3, <1>4

\* Appending to the second of two sequences
LEMMA AppendBehind ==
  ASSUME NEW S, NEW a \in Seq(S), NEW b \in Seq(S), NEW e \in S
  PROVE  Add(Cat(a, b), e) = Cat(a, Add(b, e))
<1>1. PICK last : last = <<e>>
  OBVIOUS
<1>2. b \o last = Append(b, e) /\ (a \o b) \o last = Append(a \o b, e)
  BY <1>1
<1>3. last \in Seq(S)
  BY <1>1
<1>4. (a \o b) \o last = a \o (b \o last)
  BY <1>3, ConcatAssociative
<1> QED BY <1>2, <1>4 DEF Cat, Add

\* An info more is listed or not.
LEMMA ListedGoesOn ==
  ASSUME NEW t \in 1..Len(Database), NEW r \in 1..Len(Database[t]), NEW i \in 1..Len(InfosAt(t, r)),
         query \in Queries, NEW front \in Seq(InfoLine),
         listed = front \o ByInfo(Database[t][r], query.patterns)[i - 1]
  PROVE  Listed(t, r, i) = front \o ByInfo(Database[t][r], query.patterns)[i]
<1> DEFINE f == ByInfo(Database[t][r], query.patterns)
           line == <<Database[t][r].name, InfosAt(t, r)[i]>>
           asked == i \in AskedInfos(Database[t][r], query.patterns)
           n == Len(InfosAt(t, r))
<1>1. /\ f \in [0..n -> Seq(InfoLine)]
      /\ f[i] = IF asked THEN Append(f[i - 1], line) ELSE f[i - 1]
  BY ByInfoIs, DatabaseIs DEF InfosAt
<1>2. line \in InfoLine /\ i - 1 \in 0..n
  <2>1. Database[t][r].name \in Seq(Chars) /\ InfosAt(t, r) \in Seq(Seq(Chars)) /\ n \in Nat
    BY DatabaseIs
  <2>2. InfosAt(t, r)[i] \in Seq(Chars) /\ i - 1 \in 0..n
    BY <2>1
  <2> QED BY <2>1, <2>2 DEF InfoLine
<1>3. Listed(t, r, i) = IF asked THEN Append(listed, line) ELSE listed
  BY ListedIfAsked
<1> HIDE DEF f, line, asked, n
<1>4. PICK S, a, b, e : S = InfoLine /\ a = front /\ b = f[i - 1] /\ e = line
  OBVIOUS
<1>5. a \in Seq(S) /\ b \in Seq(S) /\ e \in S
  BY <1>1, <1>2, <1>4
<1>6. Add(Cat(a, b), e) = Cat(a, Add(b, e))
  BY <1>5, AppendBehind
<1>7. Append(front \o f[i - 1], line) = front \o Append(f[i - 1], line)
  BY <1>4, <1>6 DEF Cat, Add
<1> QED BY <1>1, <1>3, <1>7 DEF f

\* What is listed before a record is a list.
LEMMA BeforeIs ==
  ASSUME NEW t \in 1..Len(Database), NEW r \in 1..Len(Database[t]), NEW patterns
  PROVE  /\ ListedBefore(t, r, patterns) \in Seq(InfoLine)
         /\ InfosOfRecord(Database[t][r], patterns) \in Seq(InfoLine)
         /\ ByInfo(Database[t][r], patterns)[0] = <<>>
         /\ ByInfo(Database[t][r], patterns)[Len(InfosAt(t, r))] = InfosOfRecord(Database[t][r], patterns)
<1> DEFINE f == ByType(patterns)
           g == ByRecord(Database[t], patterns)
           h == ByInfo(Database[t][r], patterns)
           n == Len(InfosAt(t, r))
<1>1. f \in [0..Len(Database) -> Seq(InfoLine)] /\ t - 1 \in 0..Len(Database)
  BY ByTypeIs, DatabaseIs
<1>2. g \in [0..Len(Database[t]) -> Seq(InfoLine)] /\ r - 1 \in 0..Len(Database[t])
  <2>1. Database[t] \in Seq(DbRecord) /\ Len(Database[t]) \in Nat
    BY DatabaseIs
  <2>2. g \in [0..Len(Database[t]) -> Seq(InfoLine)]
    BY <2>1, ByRecordIs
  <2>3. r - 1 \in 0..Len(Database[t])
    BY <2>1
  <2> QED BY <2>2, <2>3
<1>3. h \in [0..n -> Seq(InfoLine)] /\ h[0] = <<>> /\ h[n] = InfosOfRecord(Database[t][r], patterns)
      /\ n \in 0..n
  <2>1. n \in Nat
    BY DatabaseIs
  <2> QED BY <2>1, ByInfoIs, DatabaseIs DEF InfosAt
<1> HIDE DEF f, g, h, n
<1>4. f[t - 1] \in Seq(InfoLine) /\ g[r - 1] \in Seq(InfoLine) /\ h[n] \in Seq(InfoLine)
  BY <1>1, <1>2, <1>3
<1>5. f[t - 1] \o g[r - 1] \in Seq(InfoLine)
  BY <1>4
<1> QED BY <1>3, <1>4, <1>5 DEF ListedBefore, f, g, h, n

\* dbFirstInfo: at the first info of a record, or behind the record
LEMMA FirstInfoKeeps ==
  ASSUME NEW t \in 2..Len(Database), NEW r \in 1..Len(Database[t]), query \in Queries, query' = query,
         listed = ListedBefore(t, r, query.patterns), FirstInfo(t, r)
  PROVE  CursorOK'
<1>1. t \in 1..Len(Database) /\ t > 1 /\ DOMAIN Database = 1..Len(Database)
  BY DatabaseIs
<1> DEFINE front == ListedBefore(t, r, query.patterns)
           infos == InfosAt(t, r)
           f == ByInfo(Database[t][r], query.patterns)
<1>2. /\ front \in Seq(InfoLine) /\ f[0] = <<>> /\ infos \in Seq(Seq(Chars)) /\ Len(infos) \in Nat
      /\ f[Len(infos)] = InfosOfRecord(Database[t][r], query.patterns)
  <2>1. infos \in Seq(Seq(Chars)) /\ Len(infos) \in Nat
    BY <1>1, DatabaseIs
  <2> QED BY <1>1, <2>1, BeforeIs
<1>3. front = front \o <<>>
  BY <1>2
<1>4. CASE infos # <<>>
  <2>1. cursor' = [type |-> t, record |-> r, info |-> 1] /\ step' = "info" /\ listed' = Listed(t, r, 1)
    BY <1>4 DEF FirstInfo, At
  <2>2. 1 \in 1..Len(infos) /\ 1 - 1 = 0
    BY <1>2, <1>4
  <2>3. listed = front \o f[1 - 1]
    BY <1>2, <1>3, <2>2
  <2>4. listed' = front \o f[1]
    BY <1>1, <1>2, <2>1, <2>2, <2>3, ListedGoesOn
  <2>5. 1 \in 0..Len(infos) /\ cursor'.type = t /\ cursor'.record = r /\ cursor'.info = 1
    BY <1>2, <2>1, <2>2
  <2>6. CursorAt(t, r, 1, "info", listed', query.patterns)
    BY <1>1, <2>4, <2>5 DEF CursorAt
  <2> QED BY <2>1, <2>5, <2>6 DEF CursorOK
<1>5. CASE infos = <<>>
  <2>1. cursor' = [type |-> t, record |-> r, info |-> 0] /\ step' = "record" /\ listed' = listed
    BY <1>5 DEF FirstInfo, At
  <2>2. InfosOfRecord(Database[t][r], query.patterns) = <<>> /\ 0 \in 0..Len(infos)
    BY <1>2, <1>5
  <2>3. listed' = front \o InfosOfRecord(Database[t][r], query.patterns)
    BY <1>3, <2>1, <2>2
  <2>4. CursorAt(t, r, 0, "record", listed', query.patterns)
    BY <1>1, <2>2, <2>3 DEF CursorAt
  <2> QED BY <2>1, <2>4 DEF CursorOK
<1> QED BY <1>4, <1>5

\* dbNextInfo
LEMMA NextInfoKeeps ==
  ASSUME CursorOK, query \in Queries, NextInfo
  PROVE  CursorOK'
<1> DEFINE t == cursor.type  r == cursor.record  i == cursor.info
<1>1. PICK t0, r0, i0 : t0 = t /\ r0 = r /\ i0 = i
  OBVIOUS
<1>2. CursorAt(t0, r0, i0, "info", listed, query.patterns) /\ query' = query
  BY <1>1 DEF CursorOK, NextInfo
<1>3. CASE i0 > 0 /\ i0 < Len(InfosAt(t0, r0))
  <2>1. cursor' = [type |-> t0, record |-> r0, info |-> i0 + 1] /\ step' = "info"
        /\ listed' = Listed(t0, r0, i0 + 1)
    BY <1>1, <1>3 DEF NextInfo, At
  <2>2. /\ t0 \in 1..Len(Database) /\ t0 > 1 /\ r0 \in 1..Len(Database[t0])
        /\ i0 \in 0..Len(InfosAt(t0, r0))
        /\ listed = ListedBefore(t0, r0, query.patterns) \o ByInfo(Database[t0][r0], query.patterns)[i0]
    <3>1. i0 # 0
      BY <1>3
    <3> QED BY <1>2, <3>1 DEF CursorAt
  <2>3. i0 + 1 \in 1..Len(InfosAt(t0, r0)) /\ (i0 + 1) - 1 = i0 /\ i0 + 1 \in 0..Len(InfosAt(t0, r0))
        /\ i0 + 1 > 0
    BY <1>3, <2>2
  <2>4. PICK front : front = ListedBefore(t0, r0, query.patterns)
    OBVIOUS
  <2>5. front \in Seq(InfoLine)
    BY <2>2, <2>4, BeforeIs
  <2>6. Listed(t0, r0, i0 + 1) = front \o ByInfo(Database[t0][r0], query.patterns)[i0 + 1]
    <3>1. listed = front \o ByInfo(Database[t0][r0], query.patterns)[(i0 + 1) - 1]
      BY <2>2, <2>3, <2>4
    <3> QED BY <2>2, <2>3, <2>5, <3>1, ListedGoesOn
  <2>7. CursorAt(t0, r0, i0 + 1, "info", listed', query.patterns)
    BY <2>1, <2>2, <2>3, <2>4, <2>6 DEF CursorAt
  <2> QED BY <1>2, <2>1, <2>7 DEF CursorOK
<1>4. CASE ~(i0 > 0 /\ i0 < Len(InfosAt(t0, r0)))
  <2>1. cursor' = cursor /\ step' = "record" /\ listed' = listed
    BY <1>1, <1>4 DEF NextInfo
  <2>2. CursorAt(t0, r0, i0, "record", listed, query.patterns)
    <3>1. CASE t0 = 1 /\ r0 = 0 /\ i0 = 0 /\ listed = <<>>
      BY <1>2, <3>1 DEF CursorAt
    <3>2. CASE ~(t0 = 1 /\ r0 = 0 /\ i0 = 0 /\ listed = <<>>)
      <4>1. /\ t0 \in 1..Len(Database) /\ t0 > 1 /\ r0 \in 1..Len(Database[t0])
            /\ i0 \in 0..Len(InfosAt(t0, r0)) /\ i0 > 0
            /\ listed = ListedBefore(t0, r0, query.patterns) \o ByInfo(Database[t0][r0], query.patterns)[i0]
        BY <1>2, <3>2 DEF CursorAt
      <4>2. Len(InfosAt(t0, r0)) \in Nat
        BY <4>1, DatabaseIs
      <4>3. i0 = Len(InfosAt(t0, r0))
        BY <1>4, <4>1, <4>2
      <4>4. ByInfo(Database[t0][r0], query.patterns)[i0] = InfosOfRecord(Database[t0][r0], query.patterns)
        BY <4>1, <4>3, BeforeIs
      <4> QED BY <4>1, <4>4 DEF CursorAt
    <3> QED BY <3>1, <3>2
  <2> QED BY <1>1, <1>2, <2>1, <2>2 DEF CursorOK
<1> QED BY <1>3, <1>4

\* A record more of a type
LEMMA BeforeGoesOn ==
  ASSUME NEW t \in 1..Len(Database), NEW r \in 1..Len(Database[t]), NEW patterns
  PROVE  LET all == ListedBefore(t, r, patterns) \o InfosOfRecord(Database[t][r], patterns) IN
         /\ r < Len(Database[t]) => all = ListedBefore(t, r + 1, patterns)
         /\ r = Len(Database[t]) /\ t > 1 => all = ByType(patterns)[t]
<1> DEFINE f == ByType(patterns)
           g == ByRecord(Database[t], patterns)
           infos == InfosOfRecord(Database[t][r], patterns)
           n == Len(Database[t])
<1>1. Database[t] \in Seq(DbRecord) /\ n \in Nat
  BY DatabaseIs
<1>2. f \in [0..Len(Database) -> Seq(InfoLine)] /\ f[t] = f[t - 1] \o LaterInfos(t, patterns)
  BY ByTypeIs
<1>3. g \in [0..n -> Seq(InfoLine)] /\ g[r] = g[r - 1] \o infos /\ g[n] = InfosOfType(Database[t], patterns)
  BY <1>1, ByRecordIs
<1>4. infos \in Seq(InfoLine)
  BY BeforeIs
<1>5. t - 1 \in 0..Len(Database) /\ r - 1 \in 0..n /\ (r + 1) - 1 = r
  BY <1>1, DatabaseIs
<1> HIDE DEF f, g, infos, n
<1>6. PICK a, b : a = f[t - 1] /\ b = g[r - 1]
  OBVIOUS
<1>7. a \in Seq(InfoLine) /\ b \in Seq(InfoLine)
  BY <1>2, <1>3, <1>5, <1>6
<1>8. (a \o b) \o infos = a \o (b \o infos)
  <2>1. PICK S, c : S = InfoLine /\ c = infos
    OBVIOUS
  <2>2. a \in Seq(S) /\ b \in Seq(S) /\ c \in Seq(S)
    BY <1>4, <1>7, <2>1
  <2>3. (a \o b) \o c = a \o (b \o c)
    BY <2>2, ConcatAssociative
  <2> QED BY <2>1, <2>3
<1>9. ListedBefore(t, r, patterns) \o infos = f[t - 1] \o g[r]
  BY <1>3, <1>6, <1>8 DEF ListedBefore, f, g
<1>10. ListedBefore(t, r + 1, patterns) = f[t - 1] \o g[r]
  BY <1>5 DEF ListedBefore, f, g
<1>11. ASSUME r = n, t > 1 PROVE f[t - 1] \o g[r] = f[t]
  <2>1. ~(t < 2)
    BY <1>11
  <2> QED BY <1>2, <1>3, <1>11, <2>1 DEF LaterInfos
<1> QED BY <1>9, <1>10, <1>11 DEF infos, f, n

\* dbNextRecord
LEMMA NextRecordKeeps ==
  ASSUME CursorOK, query \in Queries, NextRecord
  PROVE  CursorOK'
<1> DEFINE t == cursor.type  r == cursor.record
<1>1. PICK t0, r0, i0 : t0 = t /\ r0 = r /\ i0 = cursor.info
  OBVIOUS
<1>2. CursorAt(t0, r0, i0, "record", listed, query.patterns) /\ query' = query
  BY <1>1 DEF CursorOK, NextRecord
<1>3. CASE t0 = 1 /\ r0 = 0 /\ i0 = 0 /\ listed = <<>>
  <2>1. cursor' = [type |-> t0, record |-> 0, info |-> 0] /\ step' = "type" /\ listed' = listed
    BY <1>1, <1>3 DEF NextRecord, At
  <2>2. ByType(query.patterns)[1] = <<>>
    <3> DEFINE f == ByType(query.patterns)
    <3>1. PICK k \in 1..Len(Database) : k = 1
      BY DatabaseIs
    <3>2. f[0] = <<>> /\ f[k] = f[k - 1] \o LaterInfos(k, query.patterns)
      BY ByTypeIs
    <3>3. LaterInfos(k, query.patterns) = <<>>
      BY <3>1 DEF LaterInfos
    <3> HIDE DEF f
    <3>4. f[k] = <<>> \o <<>>
      BY <3>1, <3>2, <3>3
    <3> QED BY <3>1, <3>4 DEF f
  <2>3. CursorAt(t0, 0, 0, "type", listed', query.patterns)
    BY <1>2, <1>3, <2>1, <2>2 DEF CursorAt
  <2> QED BY <1>2, <2>1, <2>3 DEF CursorOK
<1>4. CASE ~(t0 = 1 /\ r0 = 0 /\ i0 = 0 /\ listed = <<>>)
  <2>1. /\ t0 \in 1..Len(Database) /\ t0 > 1 /\ r0 \in 1..Len(Database[t0])
        /\ listed = ListedBefore(t0, r0, query.patterns) \o InfosOfRecord(Database[t0][r0], query.patterns)
    BY <1>2, <1>4 DEF CursorAt
  <2>2. Len(Database[t0]) \in Nat /\ Len(Database) \in Nat
    BY <2>1, DatabaseIs
  <2>3. CASE r0 < Len(Database[t0])
    <3>1. FirstInfo(t0, r0 + 1)
      BY <1>1, <2>1, <2>3 DEF NextRecord
    <3>2. t0 \in 2..Len(Database) /\ r0 + 1 \in 1..Len(Database[t0])
      BY <2>1, <2>2, <2>3
    <3>3. listed = ListedBefore(t0, r0 + 1, query.patterns)
      BY <2>1, <2>3, BeforeGoesOn
    <3> QED BY <1>2, <3>1, <3>2, <3>3, FirstInfoKeeps
  <2>4. CASE ~(r0 < Len(Database[t0]))
    <3>1. cursor' = [type |-> t0, record |-> 0, info |-> 0] /\ step' = "type" /\ listed' = listed
      BY <1>1, <2>4 DEF NextRecord, At
    <3>2. r0 = Len(Database[t0])
      BY <2>1, <2>2, <2>4
    <3>3. listed = ByType(query.patterns)[t0]
      BY <2>1, <3>2, BeforeGoesOn
    <3>4. CursorAt(t0, 0, 0, "type", listed', query.patterns)
      BY <2>1, <3>1, <3>3 DEF CursorAt
    <3> QED BY <1>2, <3>1, <3>4 DEF CursorOK
  <2> QED BY <2>3, <2>4
<1> QED BY <1>3, <1>4

\* dbNextRecordType and dbFirstRecord
LEMMA NextTypeKeeps ==
  ASSUME CursorOK, query \in Queries, NextRecordType
  PROVE  CursorOK'
<1>1. PICK t : t = cursor.type
  OBVIOUS
<1>2. CursorAt(t, cursor.record, cursor.info, "type", listed, query.patterns) /\ query' = query
  BY <1>1 DEF CursorOK, NextRecordType
<1>3. t \in 1..Len(Database) /\ listed = ByType(query.patterns)[t] /\ Len(Database) \in Nat
  BY <1>2, DatabaseIs DEF CursorAt
<1>4. CASE t + 1 > Len(Database)
  <2>1. cursor' = cursor /\ step' = "done" /\ listed' = listed
    BY <1>1, <1>4 DEF NextRecordType
  <2>2. t = Len(Database)
    BY <1>3, <1>4
  <2>3. listed = InfosFrom(2, query.patterns)
    BY <1>3, <2>2, ByTypeIs
  <2>4. CursorAt(t, cursor.record, cursor.info, "done", listed, query.patterns)
    BY <1>3, <2>3 DEF CursorAt
  <2> QED BY <1>1, <1>2, <2>1, <2>4 DEF CursorOK
<1>5. CASE ~(t + 1 > Len(Database))
  <2>1. t + 1 \in 1..Len(Database) /\ t + 1 \in 2..Len(Database) /\ (t + 1) - 1 = t /\ ~(t + 1 < 2)
        /\ t + 1 > 1
    BY <1>3, <1>5
  <2>2. Database[t + 1] \in Seq(DbRecord) /\ Len(Database[t + 1]) \in Nat
    BY <2>1, DatabaseIs
  <2> DEFINE f == ByType(query.patterns)
             g == ByRecord(Database[t + 1], query.patterns)
  <2>3. /\ f \in [0..Len(Database) -> Seq(InfoLine)]
        /\ f[t + 1] = f[(t + 1) - 1] \o LaterInfos(t + 1, query.patterns)
    BY <2>1, ByTypeIs
  <2>4. g[0] = <<>> /\ g[Len(Database[t + 1])] = InfosOfType(Database[t + 1], query.patterns)
    BY <2>2, ByRecordIs
  <2>5. f[t] \in Seq(InfoLine) /\ f[t] \o <<>> = f[t]
    <3>1. t \in 0..Len(Database)
      BY <1>3
    <3>2. f[t] \in Seq(InfoLine)
      BY <2>3, <3>1
    <3> QED BY <3>2
  <2>6. CASE Database[t + 1] # <<>>
    <3>1. FirstInfo(t + 1, 1)
      BY <1>1, <1>5, <2>6 DEF NextRecordType
    <3>2. 1 \in 1..Len(Database[t + 1]) /\ 1 - 1 = 0
      BY <2>2, <2>6
    <3>3. listed = ListedBefore(t + 1, 1, query.patterns)
      <4>1. ListedBefore(t + 1, 1, query.patterns) = f[t] \o g[0]
        BY <2>1, <3>2 DEF ListedBefore
      <4> HIDE DEF f, g
      <4> QED BY <1>3, <2>4, <2>5, <4>1 DEF f
    <3> QED BY <1>2, <2>1, <3>1, <3>2, <3>3, FirstInfoKeeps
  <2>7. CASE Database[t + 1] = <<>>
    <3>1. cursor' = [type |-> t + 1, record |-> 0, info |-> 0] /\ step' = step /\ listed' = listed
      BY <1>1, <1>5, <2>7 DEF NextRecordType, At
    <3>2. LaterInfos(t + 1, query.patterns) = <<>>
      <4>1. Len(Database[t + 1]) = 0
        BY <2>7
      <4>2. InfosOfType(Database[t + 1], query.patterns) = <<>>
        BY <2>4, <4>1
      <4> QED BY <2>1, <4>2 DEF LaterInfos
    <3>3. listed = f[t + 1]
      BY <1>3, <2>1, <2>3, <2>5, <3>2
    <3>4. step = "type"
      BY DEF NextRecordType
    <3>5. CursorAt(t + 1, 0, 0, "type", listed', query.patterns)
      BY <2>1, <3>1, <3>3 DEF CursorAt
    <3> QED BY <1>2, <3>1, <3>4, <3>5 DEF CursorOK
  <2> QED BY <2>6, <2>7
<1> QED BY <1>4, <1>5

\* Every step
LEMMA DbliKeeps == DbliInv /\ [ListNext]_listVars => DbliInv'
<1> SUFFICES ASSUME DbliInv, [ListNext]_listVars PROVE DbliInv'
  OBVIOUS
<1>1. CASE query = NoQuery /\ \E q \in Queries : List(q)
  <2>1. PICK q \in Queries : List(q)
    BY <1>1
  <2>2. query' = q
    BY <2>1 DEF List
  <2>3. CASE q.of = "dbli"
    <3>1. cursor' = [type |-> 1, record |-> 0, info |-> 0] /\ step' = "info" /\ listed' = <<>>
      BY <2>1, <2>3 DEF List, Dbli, At
    <3>2. CursorAt(1, 0, 0, "info", <<>>, q.patterns)
      BY DatabaseIs DEF CursorAt
    <3>3. CursorOK'
      BY <2>2, <3>1, <3>2 DEF CursorOK
    <3> QED BY <2>2, <3>3 DEF DbliInv
  <2> QED BY <2>2, <2>3 DEF DbliInv
<1>2. CASE NextInfo \/ NextRecord \/ NextRecordType
  <2>1. query' = query
    BY <1>2 DEF NextInfo, NextRecord, NextRecordType
  <2>2. ASSUME query # NoQuery, query.of = "dbli" PROVE CursorOK'
    BY <1>2, <2>2, NextInfoKeeps, NextRecordKeeps, NextTypeKeeps DEF DbliInv
  <2> QED BY <2>1, <2>2 DEF DbliInv
<1>3. CASE ListReturn
  BY <1>3 DEF ListReturn, DbliInv
<1>4. CASE UNCHANGED listVars
  BY <1>4 DEF listVars, DbliInv, CursorOK
<1> QED BY <1>1, <1>2, <1>3, <1>4 DEF ListNext

\* The steps of dbll, dbla and dbli are those of the shell.
LEMMA ShellRunsLists == ShellSpec => ListSpec
<1>1. ShellInit => ListInit
  BY DEF ShellInit
<1>2. [ShellNext]_<<vars, listVars, dirVars>> => [ListNext]_listVars
  BY DEF ShellNext, listVars, dirVars, vars
<1> QED BY <1>1, <1>2, PTL DEF ShellSpec, ListSpec

\* Over empty types, records without infos and aliases dbli lists every matching
\* info behind those of the first record type, in their order and once each.
THEOREM LaterInfosCorrect == ShellSpec => []LaterInfosListed
<1>1. ListInit => DbliInv
  BY DEF ListInit, DbliInv
<1>2. DbliInv => LaterInfosListed
  BY DEF DbliInv, LaterInfosListed, Answered, CursorOK, CursorAt
<1> QED BY <1>1, <1>2, DbliKeeps, ShellRunsLists, PTL DEF ListSpec

-----------------------------------------------------------------------------
(* A pattern in two parts.                                                 *)

\* From the last place back to the first
LEMMA InductionDownFrom ==
  ASSUME NEW n \in Nat, NEW T, n \in T, \A j \in 1..(n - 1) : j + 1 \in T => j \in T
  PROVE  \A j \in 1..n : j \in T
<1> DEFINE U == {k \in 0..(n - 1) : n - k \in T}
<1>1. CASE n = 0
  BY <1>1
<1>2. CASE n # 0
  <2>1. n - 1 \in Nat /\ 0 \in U
    BY <1>2
  <2>2. \A k \in 1..(n - 1) : k - 1 \in U => k \in U
    <3> TAKE k \in 1..(n - 1)
    <3>1. n - k \in 1..(n - 1) /\ n - (k - 1) = (n - k) + 1 /\ k \in 0..(n - 1)
      OBVIOUS
    <3> QED BY <3>1
  <2>3. \A k \in 0..(n - 1) : k \in U
    <3>1. PICK m : m = n - 1
      OBVIOUS
    <3> HIDE DEF U
    <3>2. m \in Nat /\ 0 \in U /\ \A k \in 1..m : k - 1 \in U => k \in U
      BY <2>1, <2>2, <3>1
    <3> QED BY <3>1, <3>2, InductionUpTo
  <2>4. \A j \in 1..n : n - j \in 0..(n - 1) /\ n - (n - j) = j
    OBVIOUS
  <2> QED BY <2>3, <2>4
<1> QED BY <1>1, <1>2

\* A part of a sequence, and what it is
Part(s, i, j) == SubSeq(s, i, j)

IsPart(u, s, i, j) ==
  /\ u \in Seq(Chars) /\ Len(u) = (IF i <= j THEN j - i + 1 ELSE 0)
  /\ \A k \in 1..(j - i + 1) : u[k] = s[i + k - 1]

\* SubSeq takes the characters from i to j.
LEMMA PartIs ==
  ASSUME NEW s \in Seq(Chars), NEW i \in 1..(Len(s) + 1), NEW j \in 0..Len(s), NEW u, u = Part(s, i, j)
  PROVE  IsPart(u, s, i, j)
BY SubSeqProperties DEF Part, IsPart

AsBehind(s, p, m, k, u, q) ==
  \A j \in 1..(Len(q) + 1), i \in 1..(Len(u) + 1) : Stands(u, q, i, j) <=> Stands(s, p, m + i, k + j)

\* The rests of a string and of a pattern are a string and a pattern themselves.
LEMMA StandsBehind ==
  ASSUME NEW s \in Seq(Chars), NEW p \in Seq(Chars), NEW m \in 0..Len(s), NEW k \in 0..Len(p),
         NEW u, u = Part(s, m + 1, Len(s)), NEW q, q = Part(p, k + 1, Len(p))
  PROVE  AsBehind(s, p, m, k, u, q)
<1>1. /\ u \in Seq(Chars) /\ Len(u) = Len(s) - m /\ \A i \in 1..Len(u) : u[i] = s[m + i]
      /\ q \in Seq(Chars) /\ Len(q) = Len(p) - k /\ \A j \in 1..Len(q) : q[j] = p[k + j]
      /\ Len(u) \in Nat /\ Len(q) \in Nat /\ Len(s) \in Nat /\ Len(p) \in Nat
  BY SubSeqProperties DEF Part
<1> DEFINE T == {j \in 1..(Len(q) + 1) :
                   \A i \in 1..(Len(u) + 1) : Stands(u, q, i, j) <=> Stands(s, p, m + i, k + j)}
<1>2. Len(q) + 1 \in T
  <2>1. Len(q) + 1 \in 1..(Len(q) + 1) /\ k + (Len(q) + 1) = Len(p) + 1
    <3>1. Len(q) \in Nat /\ Len(q) = Len(p) - k /\ k \in Nat /\ Len(p) \in Nat
      BY <1>1
    <3> QED BY <3>1
  <2> SUFFICES ASSUME NEW i \in 1..(Len(u) + 1)
               PROVE  Stands(u, q, i, Len(q) + 1) <=> Stands(s, p, m + i, Len(p) + 1)
    BY <2>1
  <2>2. i = Len(u) + 1 <=> m + i = Len(s) + 1
    <3>1. Len(u) \in Nat /\ Len(u) = Len(s) - m /\ m \in Nat /\ Len(s) \in Nat /\ i \in Nat
      BY <1>1
    <3> QED BY <3>1
  <2>3. Stands(u, q, i, Len(q) + 1) <=> i = Len(u) + 1
    BY <1>1, StandsAtEnd
  <2>4. Stands(s, p, m + i, Len(p) + 1) <=> m + i = Len(s) + 1
    BY StandsAtEnd
  <2> QED BY <2>2, <2>3, <2>4
<1>3. ASSUME NEW j \in 1..Len(q), j + 1 \in T
      PROVE  j \in T
  <2>1. j \in 1..(Len(q) + 1) /\ k + j \in 1..Len(p) /\ q[j] = p[k + j] /\ k + (j + 1) = (k + j) + 1
    <3> HIDE DEF T
    <3>1. q[j] = p[k + j]
      BY <1>1
    <3>2. j \in 1..(Len(q) + 1) /\ k + j \in 1..Len(p)
      BY <1>1
    <3>3. k + (j + 1) = (k + j) + 1
      BY <1>1
    <3> QED BY <3>1, <3>2, <3>3
  <2>2. \A i \in 1..(Len(u) + 1) : Stands(u, q, i, j + 1) <=> Stands(s, p, m + i, (k + j) + 1)
    BY <1>3, <2>1
  <2> SUFFICES ASSUME NEW i \in 1..(Len(u) + 1)
               PROVE  Stands(u, q, i, j) <=> Stands(s, p, m + i, k + j)
    BY <2>1
  <2>3. m + i \in 1..(Len(s) + 1)
    BY <1>1
  <2>4. CASE q[j] = "*"
    <3>1. Stands(u, q, i, j) <=> \E l \in i..(Len(u) + 1) : Stands(u, q, l, j + 1)
      BY <1>1, <2>4, StandsStar
    <3>2. Stands(s, p, m + i, k + j) <=> \E l \in (m + i)..(Len(s) + 1) : Stands(s, p, l, (k + j) + 1)
      BY <2>1, <2>3, <2>4, StandsStar
    <3>3. \A l \in i..(Len(u) + 1) : l \in 1..(Len(u) + 1) /\ m + l \in (m + i)..(Len(s) + 1)
      BY <1>1
    <3>4. \A l \in (m + i)..(Len(s) + 1) : l - m \in i..(Len(u) + 1) /\ m + (l - m) = l
      BY <1>1
    <3>5. ASSUME NEW l \in i..(Len(u) + 1), Stands(u, q, l, j + 1)
          PROVE  Stands(s, p, m + i, k + j)
      BY <2>2, <3>2, <3>3, <3>5
    <3>6. ASSUME NEW l \in (m + i)..(Len(s) + 1), Stands(s, p, l, (k + j) + 1)
          PROVE  Stands(u, q, i, j)
      <4>1. Stands(u, q, l - m, j + 1)
        BY <2>2, <3>3, <3>4, <3>6
      <4> QED BY <3>1, <3>4, <4>1
    <3> QED BY <3>1, <3>2, <3>5, <3>6
  <2>5. CASE q[j] # "*"
    <3>1. Stands(u, q, i, j) <=> i <= Len(u) /\ q[j] \in {"?", u[i]} /\ Stands(u, q, i + 1, j + 1)
      BY <1>1, <2>5, StandsOne
    <3>2. Stands(s, p, m + i, k + j) <=>
            m + i <= Len(s) /\ p[k + j] \in {"?", s[m + i]} /\ Stands(s, p, (m + i) + 1, (k + j) + 1)
      BY <2>1, <2>3, <2>5, StandsOne
    <3>3. i <= Len(u) <=> m + i <= Len(s)
      BY <1>1
    <3>4. ASSUME i <= Len(u) PROVE /\ i \in 1..Len(u) /\ i + 1 \in 1..(Len(u) + 1)
                                   /\ m + (i + 1) = (m + i) + 1
      BY <1>1, <3>4
    <3>5. ASSUME i <= Len(u) PROVE /\ u[i] = s[m + i]
                                   /\ Stands(u, q, i + 1, j + 1) <=> Stands(s, p, (m + i) + 1, (k + j) + 1)
      <4>1. u[i] = s[m + i]
        BY <1>1, <3>4, <3>5
      <4>2. Stands(u, q, i + 1, j + 1) <=> Stands(s, p, m + (i + 1), (k + j) + 1)
        BY <2>2, <3>4, <3>5
      <4> QED BY <3>4, <3>5, <4>1, <4>2
    <3> QED BY <2>1, <3>1, <3>2, <3>3, <3>5
  <2> QED BY <2>4, <2>5
<1>4. PICK n : n = Len(q) + 1
  OBVIOUS
<1>5. n \in Nat /\ n \in T /\ \A j \in 1..(n - 1) : j + 1 \in T => j \in T
  <2>1. n \in Nat /\ n - 1 = Len(q)
    <3>1. Len(q) \in Nat
      BY <1>1
    <3> QED BY <1>4, <3>1
  <2> HIDE DEF T
  <2> QED BY <1>2, <1>3, <1>4, <2>1
<1>6. \A j \in 1..n : j \in T
  <2> HIDE DEF T
  <2> QED BY <1>5, InductionDownFrom
<1> QED BY <1>4, <1>6 DEF AsBehind

CutAt(s, p, m, k, u, q) ==
  \A j \in 1..k, i \in 1..(Len(s) + 1) :
    Stands(s, p, i, j) <=> i <= m /\ Stands(u, q, i, j) /\ Stands(s, p, m + 1, k + 1)

\* A character of a pattern that only one place of a string fits cuts both.
LEMMA StandsUpTo ==
  ASSUME NEW s \in Seq(Chars), NEW p \in Seq(Chars), NEW m \in 1..Len(s), NEW k \in 1..Len(p),
         p[k] = ".", \A i \in 1..Len(s) : s[i] = "." <=> i = m,
         NEW u, u = Part(s, 1, m - 1), NEW q, q = Part(p, 1, k - 1)
  PROVE  CutAt(s, p, m, k, u, q)
<1>1. /\ u \in Seq(Chars) /\ Len(u) = m - 1 /\ \A i \in 1..(m - 1) : u[i] = s[i]
      /\ q \in Seq(Chars) /\ Len(q) = k - 1 /\ \A j \in 1..(k - 1) : q[j] = p[j]
      /\ Len(s) \in Nat /\ Len(p) \in Nat
  BY SubSeqProperties DEF Part
<1> DEFINE back == Stands(s, p, m + 1, k + 1)
           T == {j \in 1..k : \A i \in 1..(Len(s) + 1) :
                   Stands(s, p, i, j) <=> i <= m /\ Stands(u, q, i, j) /\ back}
<1>2. k \in T
  <2>1. k \in 1..k /\ Len(q) + 1 = k /\ Len(u) + 1 = m
    BY <1>1
  <2> SUFFICES ASSUME NEW i \in 1..(Len(s) + 1)
               PROVE  Stands(s, p, i, k) <=> i <= m /\ Stands(u, q, i, k) /\ back
    BY <2>1
  <2>2. Stands(u, q, i, k) <=> i = m
    <3>1. Stands(u, q, i, Len(q) + 1) <=> i = Len(u) + 1
      BY <1>1, StandsAtEnd
    <3> QED BY <2>1, <3>1
  <2>3. Stands(s, p, i, k) <=> i <= Len(s) /\ p[k] \in {"?", s[i]} /\ Stands(s, p, i + 1, k + 1)
    BY StandsOne
  <2>4. i <= Len(s) /\ p[k] \in {"?", s[i]} <=> i = m
    BY <1>1
  <2> QED BY <2>2, <2>3, <2>4
<1>3. ASSUME NEW j \in 1..(k - 1), j + 1 \in T
      PROVE  j \in T
  <2>1. j \in 1..k /\ j \in 1..Len(p) /\ j \in 1..Len(q) /\ q[j] = p[j]
    BY <1>1
  <2>2. \A i \in 1..(Len(s) + 1) : Stands(s, p, i, j + 1) <=> i <= m /\ Stands(u, q, i, j + 1) /\ back
    BY <1>3
  <2> SUFFICES ASSUME NEW i \in 1..(Len(s) + 1)
               PROVE  Stands(s, p, i, j) <=> i <= m /\ Stands(u, q, i, j) /\ back
    BY <2>1
  <2> HIDE DEF back
  <2>3. i <= m => i \in 1..(Len(u) + 1)
    BY <1>1
  <2>4. CASE p[j] = "*"
    <3>1. Stands(s, p, i, j) <=> \E l \in i..(Len(s) + 1) : Stands(s, p, l, j + 1)
      BY <2>1, <2>4, StandsStar
    <3>2. i <= m => (Stands(u, q, i, j) <=> \E l \in i..(Len(u) + 1) : Stands(u, q, l, j + 1))
      BY <1>1, <2>1, <2>3, <2>4, StandsStar
    <3>3. \A l \in i..(Len(s) + 1) : l \in 1..(Len(s) + 1) /\ (l <= m => i <= m /\ l \in i..(Len(u) + 1))
      BY <1>1
    <3>4. \A l \in i..(Len(u) + 1) : l \in i..(Len(s) + 1) /\ l <= m
      BY <1>1
    <3> QED BY <2>2, <3>1, <3>2, <3>3, <3>4
  <2>5. CASE p[j] # "*"
    <3>1. Stands(s, p, i, j) <=> i <= Len(s) /\ p[j] \in {"?", s[i]} /\ Stands(s, p, i + 1, j + 1)
      BY <2>1, <2>5, StandsOne
    <3>2. i <= m => (Stands(u, q, i, j) <=>
            i <= Len(u) /\ q[j] \in {"?", u[i]} /\ Stands(u, q, i + 1, j + 1))
      BY <1>1, <2>1, <2>3, <2>5, StandsOne
    <3>3. i <= Len(s) => (Stands(s, p, i + 1, j + 1) <=> i + 1 <= m /\ Stands(u, q, i + 1, j + 1) /\ back)
      <4>1. i <= Len(s) => i + 1 \in 1..(Len(s) + 1)
        BY <1>1
      <4> QED BY <2>2, <4>1
    <3>4. /\ i + 1 <= m <=> i <= m /\ i <= Len(u)
          /\ i + 1 <= m => i <= Len(s) /\ u[i] = s[i]
      BY <1>1
    <3> QED BY <2>1, <3>1, <3>2, <3>3, <3>4
  <2> QED BY <2>4, <2>5
<1>4. \A j \in 1..k : j \in T
  <2>1. k \in Nat
    BY <1>1
  <2> HIDE DEF T
  <2> QED BY <1>2, <1>3, <2>1, InductionDownFrom
<1> QED BY <1>4 DEF CutAt

\* A pattern with a dot stands for a string with one if its parts do.
LEMMA GlobOfParts ==
  ASSUME NEW s \in Seq(Chars), NEW p \in Seq(Chars), NEW m \in 1..Len(s), NEW k \in 1..Len(p),
         p[k] = ".", \A i \in 1..Len(s) : s[i] = "." <=> i = m
  PROVE  Glob(s, p) <=> /\ Glob(SubSeq(s, 1, m - 1), SubSeq(p, 1, k - 1))
                        /\ Glob(SubSeq(s, m + 1, Len(s)), SubSeq(p, k + 1, Len(p)))
<1>1. PICK u, q, v, r : /\ u = Part(s, 1, m - 1) /\ q = Part(p, 1, k - 1)
                        /\ v = Part(s, m + 1, Len(s)) /\ r = Part(p, k + 1, Len(p))
  OBVIOUS
<1>2. u \in Seq(Chars) /\ q \in Seq(Chars) /\ v \in Seq(Chars) /\ r \in Seq(Chars)
  BY <1>1 DEF Part
<1>3. Stands(s, p, 1, 1) <=> Stands(u, q, 1, 1) /\ Stands(s, p, m + 1, k + 1)
  <2>1. 1 \in 1..k /\ 1 \in 1..(Len(s) + 1) /\ 1 <= m
    OBVIOUS
  <2>2. CutAt(s, p, m, k, u, q)
    BY <1>1, StandsUpTo
  <2> QED BY <2>1, <2>2 DEF CutAt
<1>4. Stands(v, r, 1, 1) <=> Stands(s, p, m + 1, k + 1)
  <2>1. m \in 0..Len(s) /\ k \in 0..Len(p) /\ 1 \in 1..(Len(v) + 1) /\ 1 \in 1..(Len(r) + 1)
    BY <1>2
  <2>2. AsBehind(s, p, m, k, v, r)
    BY <1>1, <2>1, StandsBehind
  <2> QED BY <2>1, <2>2 DEF AsBehind
<1>5. Glob(s, p) <=> Glob(u, q) /\ Glob(v, r)
  BY <1>2, <1>3, <1>4, GlobIsStands
<1> QED BY <1>1, <1>5 DEF Part

-----------------------------------------------------------------------------
(* dbll: the targets.                                                      *)

\* The characters that have a meaning
LEMMA CharsAre == {"*", ".", "V", "NULL"} \subseteq Chars
BY DbListsAssumption DEF Chars, NUL

\* The first dot
LEMMA DotIs ==
  ASSUME NEW s \in Seq(Chars)
  PROVE  /\ Has(s) => Dot(s) \in 1..Len(s) /\ s[Dot(s)] = "." /\ \A i \in 1..(Dot(s) - 1) : s[i] # "."
         /\ ~Has(s) => \A i \in 1..Len(s) : s[i] # "."
<1> DEFINE dots == {i \in 1..Len(s) : s[i] = "."}
<1>1. Dot(s) = IF dots # {} THEN Min(dots) ELSE 0
  BY DEF Dot, SelectInSeq
<1>2. dots \in SUBSET Nat /\ 0 \notin dots
  OBVIOUS
<1>3. CASE dots = {}
  BY <1>1, <1>3 DEF Has
<1>4. CASE dots # {}
  <2>1. \E n \in dots : \A m \in dots : n <= m
    <3> HIDE DEF dots
    <3> QED BY <1>2, <1>4, LeastNat
  <2>2. Dot(s) \in dots /\ \A m \in dots : Dot(s) <= m
    <3> HIDE DEF dots
    <3> QED BY <1>1, <1>4, <2>1 DEF Min
  <2>3. PICK d : d = Dot(s)
    OBVIOUS
  <2>4. d \in 1..Len(s) /\ s[d] = "." /\ d # 0
    BY <2>2, <2>3
  <2>5. \A i \in 1..(d - 1) : s[i] # "."
    <3> SUFFICES ASSUME NEW i \in 1..(d - 1), s[i] = "." PROVE FALSE
      OBVIOUS
    <3>1. i \in dots /\ ~(d <= i)
      BY <2>4
    <3> QED BY <2>2, <2>3, <3>1
  <2> QED BY <2>3, <2>4, <2>5 DEF Has
<1> QED BY <1>3, <1>4

\* A * alone stands for anything.
LEMMA GlobAny ==
  ASSUME NEW s \in Seq(Chars), NEW p, p = <<"*">>
  PROVE  Glob(s, p)
<1>1. p \in Seq(Chars) /\ Len(p) = 1 /\ p[1] = "*" /\ 1 \in 1..Len(p)
  BY CharsAre
<1>2. 1 \in 1..(Len(s) + 1) /\ Len(s) + 1 \in 1..(Len(s) + 1)
  OBVIOUS
<1>3. Stands(s, p, Len(s) + 1, Len(p) + 1)
  BY <1>1, StandsAtEnd
<1>4. Stands(s, p, 1, 1) <=> \E k \in 1..(Len(s) + 1) : Stands(s, p, k, 1 + 1)
  BY <1>1, <1>2, StandsStar
<1> QED BY <1>1, <1>2, <1>3, <1>4, GlobIsStands

\* Both parts
AsParts(target, match) ==
  LET t == Parts(target, <<"V">>)
      m == Parts(match, <<"*">>)
  IN  Glob(target, match) <=> Glob(t.record, m.record) /\ Glob(t.field, m.field)

OneDot(target) ==
  \A d, e \in DOMAIN target : target[d] = "." /\ target[e] = "." => d = e

\* A target and a pattern that both have fields
LEMMA BothFields ==
  ASSUME NEW target \in Seq(Chars), NEW match \in Seq(Chars), Has(target), Has(match), OneDot(target)
  PROVE  AsParts(target, match)
<1>1. PICK m, k : m = Dot(target) /\ k = Dot(match)
  OBVIOUS
<1>2. m \in 1..Len(target) /\ k \in 1..Len(match) /\ target[m] = "." /\ match[k] = "."
  BY <1>1, DotIs
<1>3. \A i \in 1..Len(target) : target[i] = "." <=> i = m
  <2>1. DOMAIN target = 1..Len(target)
    OBVIOUS
  <2> QED BY <1>2, <2>1 DEF OneDot
<1>4. Glob(target, match) <=>
        /\ Glob(SubSeq(target, 1, m - 1), SubSeq(match, 1, k - 1))
        /\ Glob(SubSeq(target, m + 1, Len(target)), SubSeq(match, k + 1, Len(match)))
  BY <1>2, <1>3, GlobOfParts
<1> QED BY <1>1, <1>4 DEF AsParts, Parts

\* The parts are strings.
LEMMA PartsAre ==
  ASSUME NEW s \in Seq(Chars), NEW field \in Seq(Chars)
  PROVE  Parts(s, field).record \in Seq(Chars) /\ Parts(s, field).field \in Seq(Chars)
<1>1. ASSUME Has(s)
      PROVE  SubSeq(s, 1, Dot(s) - 1) \in Seq(Chars) /\ SubSeq(s, Dot(s) + 1, Len(s)) \in Seq(Chars)
  <2>1. PICK d : d = Dot(s)
    OBVIOUS
  <2>2. d \in 1..Len(s)
    BY <1>1, <2>1, DotIs
  <2>3. SubSeq(s, 1, d - 1) \in Seq(Chars) /\ SubSeq(s, d + 1, Len(s)) \in Seq(Chars)
    BY <2>2
  <2> QED BY <2>1, <2>3
<1> QED BY <1>1 DEF Parts

\* A pattern without field and a target with one
LEMMA TargetHasField ==
  ASSUME NEW target \in Seq(Chars), NEW match \in Seq(Chars), Has(target), ~Has(match), OneDot(target)
  PROVE  /\ Glob(target, AltMatch(match)) <=> Glob(Parts(target, <<"V">>).record, match)
         /\ AltMatch(match) # Missing
<1>1. PICK wild : wild = <<".", "*">>
  OBVIOUS
<1>2. PICK p, n : p = match \o wild /\ n = Len(match)
  OBVIOUS
<1>3. /\ p \in Seq(Chars) /\ Len(p) = n + 2 /\ p[n + 1] = "." /\ p[n + 2] = "*" /\ n \in Nat
      /\ \A i \in 1..n : p[i] = match[i]
  <2>1. wild \in Seq(Chars) /\ Len(wild) = 2 /\ wild[1] = "." /\ wild[2] = "*"
    BY <1>1, CharsAre
  <2>2. p \in Seq(Chars) /\ Len(p) = n + Len(wild) /\ n \in Nat
        /\ \A i \in 1..(n + Len(wild)) : p[i] = IF i <= n THEN match[i] ELSE wild[i - n]
    <3>1. wild \in Seq(Chars)
      BY <2>1
    <3> QED BY <1>2, <3>1, ConcatProperties
  <2>3. /\ n + 1 \in 1..(n + Len(wild)) /\ ~(n + 1 <= n) /\ (n + 1) - n = 1
        /\ n + 2 \in 1..(n + Len(wild)) /\ ~(n + 2 <= n) /\ (n + 2) - n = 2
    BY <2>1, <2>2
  <2>4. p[n + 1] = wild[(n + 1) - n] /\ p[n + 2] = wild[(n + 2) - n]
    BY <2>2, <2>3
  <2>5. \A i \in 1..n : i \in 1..(n + Len(wild)) /\ i <= n
    BY <2>1, <2>2
  <2> QED BY <2>1, <2>2, <2>3, <2>4, <2>5
<1>4. AltMatch(match) = p
  <2>1. AltMatch(match) = match \o <<".", "*">>
    BY DEF AltMatch
  <2> QED BY <1>1, <1>2, <2>1
<1>5. Has(p) /\ Dot(p) = n + 1
  <2>1. n + 1 \in 1..Len(p)
    BY <1>3
  <2>2. Has(p)
    BY <1>3, <2>1, DotIs
  <2>3. PICK d : d = Dot(p)
    OBVIOUS
  <2>4. d \in 1..Len(p) /\ p[d] = "." /\ \A i \in 1..(d - 1) : p[i] # "."
    BY <1>3, <2>2, <2>3, DotIs
  <2>5. \A i \in 1..n : p[i] # "."
    BY <1>2, <1>3, DotIs
  <2>6. p[n + 2] # "."
    BY <1>3
  <2>7. d \notin 1..n /\ d # n + 2 /\ n \in Nat
    BY <1>3, <2>4, <2>5, <2>6
  <2>8. d = n + 1
    BY <1>3, <2>4, <2>7
  <2> QED BY <2>2, <2>3, <2>8
<1>6. Parts(p, <<"*">>).record = match /\ Parts(p, <<"*">>).field = <<"*">>
  <2>1. PICK a, b : a = Part(p, 1, (n + 1) - 1) /\ b = Part(p, (n + 1) + 1, Len(p))
    OBVIOUS
  <2>2. a = match
    <3>1. 1 \in 1..(Len(p) + 1) /\ (n + 1) - 1 \in 0..Len(p) /\ (n + 1) - 1 = n
      BY <1>3
    <3>2. IsPart(a, p, 1, n)
      BY <1>3, <2>1, <3>1, PartIs
    <3>3. a \in Seq(Chars) /\ Len(a) = n
      BY <1>3, <3>2 DEF IsPart
    <3>4. \A i \in 1..n : a[i] = match[i]
      <4> TAKE i \in 1..n
      <4>1. i \in 1..(n - 1 + 1) /\ 1 + i - 1 = i
        BY <1>3
      <4>2. a[i] = p[1 + i - 1]
        BY <3>2, <4>1 DEF IsPart
      <4> QED BY <1>3, <4>1, <4>2
    <3> QED BY <1>2, <3>3, <3>4
  <2>3. b = <<"*">>
    <3>1. (n + 1) + 1 \in 1..(Len(p) + 1) /\ Len(p) \in 0..Len(p) /\ (n + 1) + 1 = n + 2
      BY <1>3
    <3>2. IsPart(b, p, n + 2, Len(p))
      BY <1>3, <2>1, <3>1, PartIs
    <3>3. b \in Seq(Chars) /\ Len(b) = 1
      BY <1>3, <3>2 DEF IsPart
    <3>4. 1 \in 1..(Len(p) - (n + 2) + 1) /\ (n + 2) + 1 - 1 = n + 2
      BY <1>3
    <3>5. b[1] = p[(n + 2) + 1 - 1]
      BY <3>2, <3>4 DEF IsPart
    <3> QED BY <1>3, <3>3, <3>4, <3>5
  <2>4. Parts(p, <<"*">>) = [record |-> Part(p, 1, (n + 1) - 1), field |-> Part(p, (n + 1) + 1, Len(p))]
    BY <1>5, Zenon DEF Parts, Part
  <2> QED BY <2>1, <2>2, <2>3, <2>4
<1>7. AsParts(target, p)
  BY <1>3, <1>5, BothFields
<1>8. Glob(Parts(target, <<"V">>).field, <<"*">>)
  <2>1. Parts(target, <<"V">>).field \in Seq(Chars)
    <3>1. PICK v : v = <<"V">>
      OBVIOUS
    <3>2. v \in Seq(Chars)
      BY <3>1, CharsAre
    <3> QED BY <3>1, <3>2, PartsAre
  <2> QED BY <2>1, GlobAny
<1>9. p # Missing
  <2>1. Len(p) # 1
    BY <1>3
  <2>2. Len(Missing) = 1
    BY DEF Missing
  <2> QED BY <2>1, <2>2
<1> QED BY <1>4, <1>6, <1>7, <1>8, <1>9 DEF AsParts

\* A pattern with a field and a target without
LEMMA PatternHasField ==
  ASSUME NEW target \in Seq(Chars), NEW match \in Seq(Chars \ {"NULL"}), ~Has(target), Has(match)
  PROVE  (AltMatch(match) # Missing /\ Glob(target, AltMatch(match))) <=>
           /\ Glob(target, Parts(match, <<"*">>).record) /\ Glob(<<"V">>, Parts(match, <<"*">>).field)
           /\ Field(match) \in {<<".", "V">>, <<".", "*">>}
<1>1. PICK d, a, b, f : /\ d = Dot(match) /\ a = Part(match, 1, d - 1)
                        /\ b = Part(match, d + 1, Len(match)) /\ f = Part(match, d, Len(match))
  OBVIOUS
<1>2. match \in Seq(Chars) /\ d \in 1..Len(match) /\ match[d] = "." /\ Len(match) \in Nat
  <2>1. match \in Seq(Chars)
    OBVIOUS
  <2> QED BY <1>1, <2>1, DotIs
<1>3. /\ Parts(match, <<"*">>).record = a /\ Parts(match, <<"*">>).field = b /\ Field(match) = f
      /\ AltMatch(match) = IF f \in {<<".", "V">>, <<".", "*">>} THEN a ELSE Missing
  BY <1>1 DEF Parts, Field, AltMatch, Part
<1>4. a # Missing
  <2>1. IsPart(a, match, 1, d - 1)
    <3>1. 1 \in 1..(Len(match) + 1) /\ d - 1 \in 0..Len(match)
      BY <1>2
    <3> QED BY <1>1, <1>2, <3>1, PartIs
  <2> SUFFICES ASSUME a = <<"NULL">> PROVE FALSE
    BY DEF Missing
  <2>2. Len(a) = 1 /\ a[1] = "NULL"
    OBVIOUS
  <2>3. 1 <= d - 1
    BY <1>2, <2>1, <2>2 DEF IsPart
  <2>4. 1 \in 1..(d - 1 - 1 + 1) /\ 1 + 1 - 1 = 1 /\ 1 \in 1..Len(match)
    BY <1>2, <2>3
  <2>5. a[1] = match[1]
    <3>1. a[1] = match[1 + 1 - 1]
      BY <2>1, <2>4 DEF IsPart
    <3> QED BY <2>4, <3>1
  <2>6. match[1] \in Chars \ {"NULL"}
    BY <2>4
  <2> QED BY <2>2, <2>5, <2>6
<1>5. ASSUME f \in {<<".", "V">>, <<".", "*">>} PROVE Glob(<<"V">>, b)
  <2>1. IsPart(f, match, d, Len(match))
    <3>1. d \in 1..(Len(match) + 1) /\ Len(match) \in 0..Len(match)
      BY <1>2
    <3> QED BY <1>1, <1>2, <3>1, PartIs
  <2>2. Len(match) = d + 1
    <3>1. Len(f) = 2
      BY <1>5
    <3>2. Len(f) = (IF d <= Len(match) THEN Len(match) - d + 1 ELSE 0)
      BY <2>1 DEF IsPart
    <3>3. PICK l : l = Len(match)
      OBVIOUS
    <3>4. 2 = l - d + 1 /\ l \in Nat /\ d \in Nat
      <4>1. l \in Nat /\ d \in Nat /\ d <= l
        BY <1>2, <3>3
      <4>2. Len(f) = l - d + 1
        BY <3>2, <3>3, <4>1
      <4>3. PICK m : m = Len(f) /\ m = 2
        BY <3>1
      <4> QED BY <4>1, <4>2, <4>3
    <3>5. l = d + 1
      BY <3>4
    <3> QED BY <3>3, <3>5
  <2>3. IsPart(b, match, d + 1, Len(match))
    <3>1. d + 1 \in 1..(Len(match) + 1) /\ Len(match) \in 0..Len(match)
      BY <1>2, <2>2
    <3> QED BY <1>1, <1>2, <3>1, PartIs
  <2>4. b \in Seq(Chars) /\ Len(b) = 1 /\ b[1] = f[2]
    <3>1. 1 \in 1..(Len(match) - (d + 1) + 1) /\ (d + 1) + 1 - 1 = d + 1
          /\ 2 \in 1..(Len(match) - d + 1) /\ d + 2 - 1 = d + 1
      BY <1>2, <2>2
    <3>2. b[1] = match[(d + 1) + 1 - 1] /\ f[2] = match[d + 2 - 1]
      BY <2>1, <2>3, <3>1 DEF IsPart
    <3>3. b \in Seq(Chars) /\ Len(b) = 1
      BY <1>2, <2>2, <2>3 DEF IsPart
    <3> QED BY <3>1, <3>2, <3>3
  <2>5. PICK v : v = <<"V">> /\ v \in Seq(Chars)
    <3>1. <<"V">> \in Seq(Chars)
      BY CharsAre
    <3> QED BY <3>1
  <2>6. b = v \/ b = <<"*">>
    BY <1>5, <2>4, <2>5
  <2> QED BY <2>5, <2>6, GlobAny, StandsForItself, GlobIsStands
<1> QED BY <1>3, <1>4, <1>5

\* The comparison of targets is that of their parts, but for targets without
\* field: they are shown for .VAL and .* only.
LEMMA TargetMatched ==
  ASSUME NEW target \in Seq(Chars), NEW match \in {Missing} \cup Seq(Chars \ {"NULL"}), OneDot(target)
  PROVE  MatchesTarget(target, match) <=> PointsTo(target, match) /\ ~ImplicitField(target, match)
<1> DEFINE t == Parts(target, <<"V">>)
           m == Parts(match, <<"*">>)
<1>1. PICK v, any : v = <<"V">> /\ any = <<"*">> /\ v \in Seq(Chars) /\ any \in Seq(Chars)
  <2>1. <<"V">> \in Seq(Chars) /\ <<"*">> \in Seq(Chars)
    BY CharsAre
  <2> QED BY <2>1
<1>2. match \in Seq(Chars)
  <2>1. Missing \in Seq(Chars)
    BY CharsAre DEF Missing
  <2> QED BY <2>1
<1>3. t.record \in Seq(Chars) /\ t.field \in Seq(Chars)
  BY <1>1, PartsAre
<1>4. ASSUME match \in {Missing, <<>>, any} PROVE ~Has(match)
  <2>1. \A i \in 1..Len(match) : match[i] # "."
    BY <1>1, <1>4 DEF Missing
  <2> QED BY <1>2, <2>1, DotIs
<1>5. ~Has(match) => m.record = match /\ m.field = any
  BY <1>1 DEF Parts
<1>6. ~Has(target) => t.record = target /\ t.field = v
  BY <1>1 DEF Parts
<1>7. \A s \in Seq(Chars) : Glob(s, any)
  BY <1>1, GlobAny
<1>8. PointsTo(target, match) <=> match \in {Missing, <<>>} \/ (Glob(t.record, m.record) /\ Glob(t.field, m.field))
  BY DEF PointsTo
<1>9. MatchesTarget(target, match) <=>
        \/ match \in {Missing, <<>>, any}
        \/ IF Has(target) = Has(match) THEN Glob(target, match)
           ELSE AltMatch(match) # Missing /\ Glob(target, AltMatch(match))
  BY <1>1 DEF MatchesTarget
<1>10. Has(target) \in BOOLEAN /\ Has(match) \in BOOLEAN
  BY DEF Has
<1> HIDE DEF t, m
<1>11. CASE match \in {Missing, <<>>, any}
  <2>1. PointsTo(target, match)
    BY <1>3, <1>4, <1>5, <1>7, <1>8, <1>11
  <2> QED BY <1>4, <1>9, <1>11, <2>1 DEF ImplicitField
<1>12. CASE match \notin {Missing, <<>>, any}
  <2>1. CASE Has(target) /\ Has(match)
    <3>1. AsParts(target, match)
      BY <1>2, <2>1, BothFields
    <3> QED BY <1>8, <1>9, <1>12, <2>1, <3>1 DEF AsParts, ImplicitField, t, m
  <2>2. CASE ~Has(target) /\ ~Has(match)
    <3>1. Glob(t.field, m.field)
      BY <1>3, <1>5, <1>7, <2>2
    <3>2. ~ImplicitField(target, match)
      BY <2>2 DEF ImplicitField
    <3>3. PointsTo(target, match) <=> Glob(target, match)
      BY <1>5, <1>6, <1>8, <1>12, <2>2, <3>1
    <3>4. MatchesTarget(target, match) <=> Glob(target, match)
      BY <1>9, <1>10, <1>12, <2>2
    <3> QED BY <3>2, <3>3, <3>4
  <2>3. CASE Has(target) /\ ~Has(match)
    <3>1. /\ Glob(target, AltMatch(match)) <=> Glob(t.record, match)
          /\ AltMatch(match) # Missing
      BY <1>2, <2>3, TargetHasField DEF t
    <3>2. Glob(t.field, m.field)
      BY <1>3, <1>5, <1>7, <2>3
    <3> QED BY <1>5, <1>8, <1>9, <1>12, <2>3, <3>1, <3>2 DEF ImplicitField
  <2>4. CASE ~Has(target) /\ Has(match)
    <3>1. match \in Seq(Chars \ {"NULL"})
      BY <1>12
    <3>2. (AltMatch(match) # Missing /\ Glob(target, AltMatch(match))) <=>
             /\ Glob(target, m.record) /\ Glob(v, m.field)
             /\ Field(match) \in {<<".", "V">>, <<".", "*">>}
      BY <1>1, <2>4, <3>1, PatternHasField DEF m
    <3> QED BY <1>6, <1>8, <1>9, <1>12, <2>4, <3>2 DEF ImplicitField
  <2> QED BY <1>10, <2>1, <2>2, <2>3, <2>4
<1> QED BY <1>11, <1>12

-----------------------------------------------------------------------------
(* dbll: the list.                                                         *)

\* The masks are the letters of the filter as they are explained, constants aside.
LEMMA FilterAsAsked ==
  ASSUME NEW link \in LinkField, NEW types
  PROVE  PassesFilter(link, Typemask(types)) <=> link.type # "CONSTANT" /\ AskedFor(link, types)
<1>1. /\ link.kind \in {"i", "o", "f"}
      /\ link.type \in {"PN_LINK", "PV_LINK", "DB_LINK", "CA_LINK", "CONSTANT"}
  BY DEF LinkField
<1>2. "p" \in Typemask(types) <=> "p" \in types
  BY DEF Typemask
<1>3. link.kind \in Typemask(types) <=> (types \cap {"i", "o", "f"} # {} => link.kind \in types)
  BY <1>1 DEF Typemask
<1>4. \A c \in {"c", "d"} : c \in Typemask(types) <=> (types \cap {"c", "d"} # {} => c \in types)
  BY DEF Typemask
<1>5. CASE link.type \in {"PN_LINK", "PV_LINK", "DB_LINK"}
  BY <1>2, <1>3, <1>4, <1>5 DEF PassesFilter, AskedFor
<1>6. CASE link.type = "CA_LINK"
  BY <1>2, <1>3, <1>4, <1>6 DEF PassesFilter, AskedFor
<1>7. CASE link.type = "CONSTANT"
  BY <1>7 DEF PassesFilter
<1> QED BY <1>1, <1>5, <1>6, <1>7

LinkLine == Seq(Chars) \X STRING \X BOOLEAN

\* A record whose links have names of their own and simple targets
RecordOK(record) ==
  /\ record \in DbRecord
  /\ \A j, k \in 1..Len(record.links) : record.links[j].field = record.links[k].field => j = k
  /\ \A k \in 1..Len(record.links) : OneDot(record.links[k].target)

AskedLink(l, q) ==
  l.type # "CONSTANT" /\ AskedFor(l, q.types) /\ PointsTo(l.target, q.match) /\ ~ImplicitField(l.target, q.match)
LineOf(record, l) == <<record.name, l.field, Processes(l)>>

\* The links of a record
LinksAre(lines, record, q) ==
  /\ lines \in Seq(LinkLine) /\ NoRepeat(lines)
  /\ \A x : x \in Elements(lines) <=> \E k \in 1..Len(record.links) :
                                        AskedLink(record.links[k], q) /\ x = LineOf(record, record.links[k])

\* Those that are asked for, each once
LEMMA LinksOfIs ==
  ASSUME NEW record, RecordOK(record), NEW q \in Queries
  PROVE  LinksAre(LinksOf(record, q), record, q)
<1> DEFINE links == record.links
           isShown(l) == PassesFilter(l, Typemask(q.types)) /\ MatchesTarget(l.target, q.match)
           I == {k \in DOMAIN links : isShown(links[k])}
           shown == Selected(links, I)
           lines == LinksOf(record, q)
<1>1. links \in Seq(LinkField) /\ record.name \in Seq(Chars)
  BY DEF RecordOK, DbRecord
<1>2. DOMAIN links = 1..Len(links) /\ Len(links) \in Nat /\ \A k \in 1..Len(links) : links[k] \in LinkField
  <2> HIDE DEF links
  <2> QED BY <1>1
<1>3. lines = [k \in 1..Len(shown) |-> LineOf(record, shown[k])]
  BY DEF LinksOf, LineOf
<1> HIDE DEF links
<1>4. ASSUME NEW k \in 1..Len(links) PROVE isShown(links[k]) <=> AskedLink(links[k], q)
  <2>1. PICK l : l = links[k]
    OBVIOUS
  <2>2. l \in LinkField /\ OneDot(l.target)
    BY <1>2, <2>1 DEF RecordOK, links
  <2>3. l.target \in Seq(Chars) /\ q.match \in {Missing} \cup Seq(Chars \ {"NULL"})
    BY <2>2, QueryIs DEF LinkField
  <2>4. PassesFilter(l, Typemask(q.types)) <=> l.type # "CONSTANT" /\ AskedFor(l, q.types)
    BY <2>2, FilterAsAsked
  <2>5. MatchesTarget(l.target, q.match) <=> PointsTo(l.target, q.match) /\ ~ImplicitField(l.target, q.match)
    BY <2>2, <2>3, TargetMatched
  <2> QED BY <2>1, <2>4, <2>5 DEF AskedLink
<1>5. /\ shown \in Seq(LinkField) /\ Elements(shown) = {links[k] : k \in I \cap (1..Len(links))}
      /\ NoRepeat(links) => NoRepeat(shown)
  BY <1>1, ElementsOfSelected
<1>6. NoRepeat(links)
  BY DEF RecordOK, NoRepeat, links
<1>7. \A l : l \in Elements(shown) <=> \E k \in 1..Len(links) : AskedLink(links[k], q) /\ l = links[k]
  <2>1. \A k : k \in I \cap (1..Len(links)) <=> k \in 1..Len(links) /\ AskedLink(links[k], q)
    <3> HIDE DEF isShown
    <3> QED BY <1>2, <1>4
  <2> HIDE DEF I
  <2> QED BY <1>5, <2>1
<1> HIDE DEF shown, lines
<1>8. DOMAIN shown = 1..Len(shown) /\ Len(shown) \in Nat /\ \A k \in 1..Len(shown) : shown[k] \in LinkField
  BY <1>5
<1>9. lines \in Seq(LinkLine) /\ Len(lines) = Len(shown)
      /\ \A k \in 1..Len(shown) : lines[k] = LineOf(record, shown[k])
  <2>1. \A l \in LinkField : LineOf(record, l) \in LinkLine
    <3> TAKE l \in LinkField
    <3>1. l.field \in STRING
      BY DEF LinkField
    <3>2. Processes(l) \in BOOLEAN
      BY DEF Processes
    <3> QED BY <1>1, <3>1, <3>2 DEF LineOf, LinkLine
  <2> QED BY <1>3, <1>8, <2>1
<1>10. NoRepeat(lines)
  <2> SUFFICES ASSUME NEW j \in 1..Len(shown), NEW k \in 1..Len(shown), lines[j] = lines[k] PROVE j = k
    BY <1>9 DEF NoRepeat
  <2>1. shown[j].field = shown[k].field
    BY <1>9 DEF LineOf
  <2>2. shown[j] \in Elements(shown) /\ shown[k] \in Elements(shown)
    BY DEF Elements
  <2>3. PICK m \in 1..Len(links), n \in 1..Len(links) : shown[j] = links[m] /\ shown[k] = links[n]
    BY <1>7, <2>2
  <2>4. m = n
    BY <2>1, <2>3 DEF RecordOK, links
  <2> QED BY <1>5, <1>6, <2>3, <2>4 DEF NoRepeat
<1>11. \A x : x \in Elements(lines) <=> \E l \in Elements(shown) : x = LineOf(record, l)
  <2>1. \A x : x \in Elements(lines) <=> \E k \in 1..Len(shown) : x = LineOf(record, shown[k])
    BY <1>9 DEF Elements
  <2> QED BY <2>1 DEF Elements
<1> QED BY <1>7, <1>9, <1>10, <1>11 DEF LinksAre, links, lines

\* No two records have the same name.
LEMMA NamesDiffer ==
  \A t, u \in 1..Len(Database) : \A r \in 1..Len(Database[t]), s \in 1..Len(Database[u]) :
    Database[t][r].name = Database[u][s].name => t = u /\ r = s
<1>1. Database \in Seq(Seq(DbRecord)) /\ DOMAIN Database = 1..Len(Database)
  BY DbListsAssumption
<1>2. \A t \in 1..Len(Database) : DOMAIN Database[t] = 1..Len(Database[t])
  BY <1>1
<1>3. \A t, u \in DOMAIN Database : \A r \in DOMAIN Database[t], s \in DOMAIN Database[u] :
        Database[t][r].name = Database[u][s].name => t = u /\ r = s
  BY DbListsAssumption
<1> TAKE t, u \in 1..Len(Database)
<1> TAKE r \in 1..Len(Database[t]), s \in 1..Len(Database[u])
<1>4. t \in DOMAIN Database /\ u \in DOMAIN Database /\ r \in DOMAIN Database[t] /\ s \in DOMAIN Database[u]
  BY <1>1, <1>2
<1> HAVE Database[t][r].name = Database[u][s].name
<1> QED BY <1>3, <1>4

\* All records, each once
LEMMA RecordsAre ==
  /\ Records \in Seq(DbRecord) /\ NoRepeat(Records)
  /\ \A x : x \in Elements(Records) <=> \E t \in 1..Len(Database) : \E r \in 1..Len(Database[t]) : x = Database[t][r]
<1>1. Database \in Seq(Seq(DbRecord)) /\ DOMAIN Database = 1..Len(Database)
  BY DbListsAssumption
<1>2. \A t \in 1..Len(Database) : Database[t] \in Seq(DbRecord) /\ DOMAIN Database[t] = 1..Len(Database[t])
  BY <1>1
<1>3. \A t, u \in 1..Len(Database) : \A r \in 1..Len(Database[t]), s \in 1..Len(Database[u]) :
        Database[t][r].name = Database[u][s].name => t = u /\ r = s
  BY NamesDiffer
<1>4. \A t \in 1..Len(Database) : NoRepeat(Database[t])
  BY <1>3 DEF NoRepeat
<1>5. \A t, u \in 1..Len(Database) : t # u => Elements(Database[t]) \cap Elements(Database[u]) = {}
  BY <1>3 DEF Elements
<1>6. /\ Records \in Seq(DbRecord) /\ Elements(Records) = UNION {Elements(Database[t]) : t \in 1..Len(Database)}
      /\ NoRepeat(Records)
  BY <1>1, <1>4, <1>5, ElementsOfFlattened DEF Records
<1>7. \A x : x \in Elements(Records) <=> \E t \in 1..Len(Database) : x \in Elements(Database[t])
  BY <1>6
<1>8. \A t \in 1..Len(Database) : \A x :
        x \in Elements(Database[t]) <=> \E r \in 1..Len(Database[t]) : x = Database[t][r]
  BY DEF Elements
<1>9. ASSUME NEW x
      PROVE  x \in Elements(Records) <=> \E t \in 1..Len(Database) : \E r \in 1..Len(Database[t]) : x = Database[t][r]
  <2>1. x \in Elements(Records) <=> \E t \in 1..Len(Database) : x \in Elements(Database[t])
    BY <1>7
  <2>2. \A t \in 1..Len(Database) : x \in Elements(Database[t]) <=> \E r \in 1..Len(Database[t]) : x = Database[t][r]
    BY <1>8
  <2> QED BY <2>1, <2>2
<1> QED BY <1>6, <1>9

\* Every record is as it should be and has a name of its own.
LEMMA EachRecordIs ==
  /\ \A x \in Elements(Records) : RecordOK(x)
  /\ \A x, y \in Elements(Records) : x.name = y.name => x = y
<1>1. Database \in Seq(Seq(DbRecord)) /\ DOMAIN Database = 1..Len(Database)
  BY DbListsAssumption
<1>2. \A t \in 1..Len(Database) : Database[t] \in Seq(DbRecord) /\ DOMAIN Database[t] = 1..Len(Database[t])
  BY <1>1
<1>3. ASSUME NEW t \in 1..Len(Database), NEW r \in 1..Len(Database[t])
      PROVE  RecordOK(Database[t][r])
  <2>1. Database[t][r] \in DbRecord
    BY <1>2
  <2> DEFINE links == Database[t][r].links
  <2>2. links \in Seq(LinkField)
    BY <2>1 DEF DbRecord
  <2>3. \A j, k \in DOMAIN links :
          /\ links[j].field = links[k].field => j = k
          /\ \A d, e \in DOMAIN links[j].target :
               links[j].target[d] = "." /\ links[j].target[e] = "." => d = e
    <3>1. t \in DOMAIN Database /\ r \in DOMAIN Database[t]
      BY <1>1, <1>2
    <3> QED BY <3>1, DbListsAssumption
  <2> HIDE DEF links
  <2>4. DOMAIN links = 1..Len(links)
    BY <2>2
  <2> QED BY <2>1, <2>3, <2>4 DEF RecordOK, OneDot, links
<1>4. \A t, u \in 1..Len(Database) : \A r \in 1..Len(Database[t]), s \in 1..Len(Database[u]) :
        Database[t][r].name = Database[u][s].name => t = u /\ r = s
  BY NamesDiffer
<1>5. \A x, y \in Elements(Records) : x.name = y.name => x = y
  BY <1>4, RecordsAre
<1> QED BY <1>3, <1>5, RecordsAre

\* What dbll prints
LEMMA DbllLists ==
  ASSUME NEW q \in Queries, Dbll(q), NEW lines, lines = listed'
  PROVE  /\ NoRepeat(lines)
         /\ \A x : x \in Elements(lines) <=>
              \E record \in Elements(Records) : ~IsAlias(record) /\ \E k \in 1..Len(record.links) :
                AskedLink(record.links[k], q) /\ x = LineOf(record, record.links[k])
<1> DEFINE I == {k \in DOMAIN Records : ~IsAlias(Records[k])}
           shown == Selected(Records, I)
           parts == [k \in 1..Len(shown) |-> LinksOf(shown[k], q)]
<1>1. lines = FlattenSeq(parts)
  BY DEF Dbll
<1>2. /\ shown \in Seq(DbRecord) /\ NoRepeat(shown)
      /\ Elements(shown) = {Records[k] : k \in I \cap (1..Len(Records))}
  BY RecordsAre, ElementsOfSelected
<1>3. \A x : x \in Elements(shown) <=> x \in Elements(Records) /\ ~IsAlias(x)
  <2>1. DOMAIN Records = 1..Len(Records)
    BY RecordsAre
  <2> QED BY <1>2, <2>1 DEF Elements
<1> HIDE DEF shown
<1>4. \A k \in 1..Len(shown) : shown[k] \in Elements(shown) /\ RecordOK(shown[k])
  <2>1. \A k \in 1..Len(shown) : shown[k] \in Elements(shown)
    BY DEF Elements
  <2> QED BY <1>3, <2>1, EachRecordIs
<1>5. \A k \in 1..Len(shown) : LinksAre(LinksOf(shown[k], q), shown[k], q)
  BY <1>4, LinksOfIs
<1>6. Len(shown) \in Nat
  BY <1>2
<1>7. parts \in Seq(Seq(LinkLine)) /\ Len(parts) = Len(shown)
      /\ \A k \in 1..Len(shown) : LinksAre(parts[k], shown[k], q)
  <2>1. \A k \in 1..Len(shown) : LinksOf(shown[k], q) \in Seq(LinkLine)
    BY <1>5 DEF LinksAre
  <2> QED BY <1>5, <1>6, <2>1
<1> HIDE DEF parts
<1>8. \A k \in 1..Len(parts) : NoRepeat(parts[k])
  BY <1>7 DEF LinksAre
<1>9. \A j, k \in 1..Len(parts) : j # k => Elements(parts[j]) \cap Elements(parts[k]) = {}
  <2> SUFFICES ASSUME NEW j \in 1..Len(parts), NEW k \in 1..Len(parts),
                      NEW x, x \in Elements(parts[j]), x \in Elements(parts[k])
               PROVE  j = k
    OBVIOUS
  <2>1. x[1] = shown[j].name /\ x[1] = shown[k].name
    <3>1. LinksAre(parts[j], shown[j], q) /\ LinksAre(parts[k], shown[k], q)
      BY <1>7
    <3>2. PICK m : x = LineOf(shown[j], shown[j].links[m])
      BY <3>1 DEF LinksAre
    <3>3. PICK n : x = LineOf(shown[k], shown[k].links[n])
      BY <3>1 DEF LinksAre
    <3> QED BY <3>2, <3>3 DEF LineOf
  <2>2. shown[j] = shown[k]
    BY <1>3, <1>4, <1>7, <2>1, EachRecordIs
  <2> QED BY <1>2, <1>7, <2>2 DEF NoRepeat
<1>10. /\ NoRepeat(lines)
       /\ Elements(lines) = UNION {Elements(parts[k]) : k \in 1..Len(parts)}
  BY <1>1, <1>7, <1>8, <1>9, ElementsOfFlattened
<1>11. \A x : x \in Elements(lines) <=>
         \E k \in 1..Len(shown) : \E n \in 1..Len(shown[k].links) :
           AskedLink(shown[k].links[n], q) /\ x = LineOf(shown[k], shown[k].links[n])
  <2>1. \A x : x \in Elements(lines) <=> \E k \in 1..Len(shown) : x \in Elements(parts[k])
    BY <1>7, <1>10
  <2>2. \A k \in 1..Len(shown) : \A x : x \in Elements(parts[k]) <=>
          \E n \in 1..Len(shown[k].links) :
            AskedLink(shown[k].links[n], q) /\ x = LineOf(shown[k], shown[k].links[n])
    BY <1>7 DEF LinksAre
  <2> SUFFICES ASSUME NEW x
               PROVE  x \in Elements(lines) <=>
                        \E k \in 1..Len(shown) : \E n \in 1..Len(shown[k].links) :
                          AskedLink(shown[k].links[n], q) /\ x = LineOf(shown[k], shown[k].links[n])
    OBVIOUS
  <2>3. x \in Elements(lines) <=> \E k \in 1..Len(shown) : x \in Elements(parts[k])
    BY <2>1
  <2>4. \A k \in 1..Len(shown) : x \in Elements(parts[k]) <=>
          \E n \in 1..Len(shown[k].links) :
            AskedLink(shown[k].links[n], q) /\ x = LineOf(shown[k], shown[k].links[n])
    BY <2>2
  <2> QED BY <2>3, <2>4
<1>12. \A x : x \in Elements(lines) <=>
         \E record \in Elements(shown) : \E n \in 1..Len(record.links) :
           AskedLink(record.links[n], q) /\ x = LineOf(record, record.links[n])
  BY <1>11 DEF Elements
<1> QED BY <1>3, <1>10, <1>12

\* The lines of dbll do not change until it returns.
LinksInv ==
  /\ step # "done" => query # NoQuery /\ query.of = "dbli"
  /\ query # NoQuery => query \in Queries
  /\ query # NoQuery /\ query.of = "dbll" =>
       /\ NoRepeat(listed)
       /\ \A x : x \in Elements(listed) <=>
            \E record \in Elements(Records) : ~IsAlias(record) /\ \E k \in 1..Len(record.links) :
              AskedLink(record.links[k], query) /\ x = LineOf(record, record.links[k])

\* Each step keeps the invariant.
LEMMA LinksKeep == LinksInv /\ [ListNext]_listVars => LinksInv'
<1> SUFFICES ASSUME LinksInv, [ListNext]_listVars PROVE LinksInv'
  OBVIOUS
<1>1. CASE query = NoQuery /\ \E q \in Queries : List(q)
  <2>1. PICK q \in Queries : List(q)
    BY <1>1
  <2>2. query' = q /\ step = "done"
    BY <1>1, <2>1 DEF List, LinksInv
  <2>3. q.of \in {"dbll", "dbla", "dbli"} /\ q # NoQuery
    BY QueryIs
  <2>4. CASE q.of = "dbll"
    <3>1. Dbll(q) /\ step' = "done"
      BY <2>1, <2>2, <2>4 DEF List
    <3>2. PICK lines : lines = listed'
      OBVIOUS
    <3>3. /\ NoRepeat(lines)
          /\ \A x : x \in Elements(lines) <=>
               \E record \in Elements(Records) : ~IsAlias(record) /\ \E k \in 1..Len(record.links) :
                 AskedLink(record.links[k], q) /\ x = LineOf(record, record.links[k])
      BY <3>1, <3>2, DbllLists
    <3> QED BY <2>2, <2>3, <3>1, <3>2, <3>3 DEF LinksInv
  <2>5. CASE q.of = "dbla"
    <3>1. step' = step
      BY <2>1, <2>5 DEF List
    <3> QED BY <2>2, <2>5, <3>1 DEF LinksInv
  <2>6. CASE q.of = "dbli"
    BY <2>2, <2>3, <2>6 DEF LinksInv
  <2> QED BY <2>3, <2>4, <2>5, <2>6
<1>2. CASE NextInfo \/ NextRecord \/ NextRecordType
  <2>1. query' = query /\ step # "done"
    BY <1>2 DEF NextInfo, NextRecord, NextRecordType
  <2>2. query # NoQuery /\ query.of = "dbli"
    BY <2>1 DEF LinksInv
  <2> QED BY <2>1, <2>2 DEF LinksInv
<1>3. CASE ListReturn
  BY <1>3 DEF ListReturn, LinksInv
<1>4. CASE UNCHANGED listVars
  BY <1>4 DEF listVars, LinksInv
<1> QED BY <1>1, <1>2, <1>3, <1>4 DEF ListNext

\* For every database, pattern and filter dbll lists the links that are asked
\* for, once each, and no others.
THEOREM LinksCorrect == ShellSpec => []LinksListed
<1>1. ListInit => LinksInv
  BY DEF ListInit, LinksInv
<1>2. LinksInv => LinksListed
  <2> SUFFICES ASSUME LinksInv, Answered("dbll") PROVE LinksListed
    BY DEF LinksListed
  <2> DEFINE pointing == {k \in AllLinks : LET l == LinkAt(k) IN
                /\ ~IsAlias(RecordAt(k)) /\ l.type # "CONSTANT" /\ AskedFor(l, query.types)
                /\ PointsTo(l.target, query.match) /\ ~ImplicitField(l.target, query.match)}
             all == {<<RecordAt(k).name, LinkAt(k).field, Processes(LinkAt(k))>> : k \in pointing}
  <2>1. query # NoQuery /\ query.of = "dbll"
    BY DEF Answered
  <2>2. NoneTwice /\ Lines = Elements(listed)
    BY <2>1 DEF LinksInv, NoRepeat, NoneTwice, Lines, Elements
  <2>3. \A k : k \in AllLinks <=> \E t \in 1..Len(Database) : \E r \in 1..Len(Database[t]) :
                                    \E n \in 1..Len(Database[t][r].links) : k = <<t, r, n>>
    BY DEF AllLinks, LinksIn
  <2>4. \A t, r, n : LET k == <<t, r, n>> IN
          RecordAt(k) = Database[t][r] /\ LinkAt(k) = Database[t][r].links[n]
    BY DEF RecordAt, LinkAt
  <2>5. \A k : k \in pointing <=> k \in AllLinks /\ ~IsAlias(RecordAt(k)) /\ AskedLink(LinkAt(k), query)
    BY DEF AskedLink
  <2>6. \A x : x \in all <=> \E k \in pointing : x = LineOf(RecordAt(k), LinkAt(k))
    BY DEF LineOf
  <2> HIDE DEF pointing, all
  <2>7. \A x : x \in Lines <=>
          \E record \in Elements(Records) : ~IsAlias(record) /\ \E n \in 1..Len(record.links) :
            AskedLink(record.links[n], query) /\ x = LineOf(record, record.links[n])
    BY <2>1, <2>2 DEF LinksInv
  <2>8. \A x : x \in Lines <=> x \in all
    <3>1. ASSUME NEW x, x \in Lines PROVE x \in all
      <4>1. PICK record \in Elements(Records), n \in Nat :
              /\ ~IsAlias(record) /\ n \in 1..Len(record.links) /\ AskedLink(record.links[n], query)
              /\ x = LineOf(record, record.links[n])
        <5>1. PICK record \in Elements(Records) : ~IsAlias(record) /\ \E n \in 1..Len(record.links) :
                AskedLink(record.links[n], query) /\ x = LineOf(record, record.links[n])
          BY <2>7, <3>1
        <5> QED BY <5>1
      <4>2. PICK t, r : t \in 1..Len(Database) /\ r \in 1..Len(Database[t]) /\ record = Database[t][r]
        BY RecordsAre
      <4>3. PICK k : k = <<t, r, n>>
        OBVIOUS
      <4>4. k \in AllLinks /\ RecordAt(k) = record /\ LinkAt(k) = record.links[n]
        <5>1. n \in 1..Len(Database[t][r].links)
          BY <4>1, <4>2
        <5>2. k \in AllLinks
          BY <2>3, <4>2, <4>3, <5>1
        <5>3. RecordAt(k) = Database[t][r] /\ LinkAt(k) = Database[t][r].links[n]
          BY <2>4, <4>3
        <5> QED BY <4>2, <5>2, <5>3
      <4>5. k \in pointing
        BY <2>5, <4>1, <4>4
      <4> QED BY <2>6, <4>1, <4>4, <4>5
    <3>2. ASSUME NEW x, x \in all PROVE x \in Lines
      <4>1. PICK k \in pointing : x = LineOf(RecordAt(k), LinkAt(k))
        BY <2>6, <3>2
      <4>2. k \in AllLinks /\ ~IsAlias(RecordAt(k)) /\ AskedLink(LinkAt(k), query)
        BY <2>5
      <4>3. PICK t, r, n : /\ t \in 1..Len(Database) /\ r \in 1..Len(Database[t])
                           /\ n \in 1..Len(Database[t][r].links) /\ k = <<t, r, n>>
        BY <2>3, <4>2
      <4>4. PICK record : record = Database[t][r]
        OBVIOUS
      <4>5. RecordAt(k) = record /\ LinkAt(k) = record.links[n] /\ n \in 1..Len(record.links)
        BY <2>4, <4>3, <4>4
      <4>6. record \in Elements(Records)
        BY <4>3, <4>4, RecordsAre
      <4> QED BY <2>7, <4>1, <4>2, <4>5, <4>6
    <3> QED BY <3>1, <3>2
  <2>9. Lines = all
    BY <2>8
  <2> QED BY <2>2, <2>9 DEF LinksListed, pointing, all
<1> QED BY <1>1, <1>2, LinksKeep, ShellRunsLists, PTL DEF ListSpec

-----------------------------------------------------------------------------
(* ls: what glob finds.                                                    *)

\* An argument, an entry of gl_pathv, and what is found so far
DirArg == [dironly : BOOLEAN, paths : Seq(PathEntry)]
Entry == PathEntry \cup {Marked}
Globbed == [pathv : Seq(Entry), offs : Nat]

\* What an argument adds; offs is where it should be as long as all arguments
\* end in /.
Adding(after, found, arg) ==
  /\ after \in Globbed
  /\ ~arg.dironly => after.pathv = Cat(found.pathv, Wanted(arg))
  /\ arg.dironly /\ found.offs = Len(found.pathv) =>
       after.pathv = Cat(found.pathv, Wanted(arg)) /\ after.offs = Len(after.pathv)

\* The entries that an argument adds
LEMMA EntriesWanted ==
  ASSUME NEW arg \in DirArg
  PROVE  /\ Wanted(arg) \in Seq(Entry) /\ Len(Wanted(arg)) = Len(arg.paths)
         /\ \A n \in 1..Len(arg.paths) :
              Wanted(arg)[n] = IF arg.dironly /\ ~arg.paths[n].slash THEN Marked ELSE arg.paths[n]
<1> DEFINE paths == arg.paths
<1>1. paths \in Seq(PathEntry)
  BY DEF DirArg
<1>2. Wanted(arg) = [n \in DOMAIN paths |-> IF arg.dironly /\ ~paths[n].slash THEN Marked ELSE paths[n]]
  BY DEF Wanted
<1> HIDE DEF paths
<1>3. DOMAIN paths = 1..Len(paths) /\ Len(paths) \in Nat /\ \A n \in 1..Len(paths) : paths[n] \in PathEntry
  BY <1>1
<1>4. Wanted(arg) \in [1..Len(paths) -> Entry]
  BY <1>2, <1>3 DEF Entry
<1> QED BY <1>2, <1>3, <1>4 DEF paths

\* glob adds them to what is found (disctools.c:186-202).
LEMMA Glob3Adds ==
  ASSUME NEW found \in Globbed, NEW arg \in DirArg
  PROVE  Adding(Glob3(found, arg), found, arg)
<1>1. PICK a, b, all, w, offs : /\ a = found.pathv /\ b = arg.paths /\ all = Cat(a, b)
                                /\ w = Wanted(arg) /\ offs = found.offs
  OBVIOUS
<1>2. a \in Seq(Entry) /\ b \in Seq(PathEntry) /\ b \in Seq(Entry) /\ offs \in Nat /\ arg.dironly \in BOOLEAN
  <2>1. b \in Seq(PathEntry)
    BY <1>1 DEF DirArg
  <2>2. b \in Seq(Entry)
    BY <2>1 DEF Entry
  <2> QED BY <1>1, <2>1, <2>2 DEF Globbed, DirArg
<1>3. /\ all \in Seq(Entry) /\ Len(all) = Len(a) + Len(b) /\ Len(a) \in Nat /\ Len(b) \in Nat
      /\ \A i \in 1..(Len(a) + Len(b)) : all[i] = IF i <= Len(a) THEN a[i] ELSE b[i - Len(a)]
  <2>1. all = Cat(a, b) /\ a \in Seq(Entry) /\ b \in Seq(Entry)
    BY <1>1, <1>2
  <2> QED BY <2>1, ConcatProperties DEF Cat
<1>4. /\ w \in Seq(Entry) /\ Len(w) = Len(b)
      /\ \A n \in 1..Len(b) : w[n] = IF arg.dironly /\ ~b[n].slash THEN Marked ELSE b[n]
  BY <1>1, EntriesWanted
<1> DEFINE marked == [k \in 1..Len(all) |-> IF k > offs /\ ~all[k].slash THEN Marked ELSE all[k]]
<1>5. Glob3(found, arg) = IF ~arg.dironly \/ b = <<>> THEN [found EXCEPT !.pathv = all]
                          ELSE [pathv |-> marked, offs |-> Len(all)]
  BY <1>1 DEF Glob3, Cat
<1>6. marked \in Seq(Entry) /\ Len(marked) = Len(all)
  <2>1. \A k \in 1..Len(all) : all[k] \in Entry
    BY <1>3
  <2>2. Marked \in Entry
    BY DEF Entry
  <2>3. Len(all) \in Nat
    BY <1>3
  <2> QED BY <2>1, <2>2, <2>3
<1>7. ASSUME ~arg.dironly \/ b = <<>> PROVE w = b
  <2>1. \A n \in 1..Len(b) : w[n] = b[n]
    BY <1>4, <1>7
  <2> QED BY <1>2, <1>4, <2>1
<1>8. ASSUME arg.dironly, offs = Len(a) PROVE marked = Cat(a, w)
  <2>1. PICK aw : aw = Cat(a, w)
    OBVIOUS
  <2>2. /\ aw \in Seq(Entry) /\ Len(aw) = Len(a) + Len(w)
        /\ \A i \in 1..(Len(a) + Len(w)) : aw[i] = IF i <= Len(a) THEN a[i] ELSE w[i - Len(a)]
    BY <1>2, <1>4, <2>1, ConcatProperties DEF Cat
  <2>3. ASSUME NEW i \in 1..Len(all) PROVE marked[i] = aw[i]
    <3>1. marked[i] = IF i > offs /\ ~all[i].slash THEN Marked ELSE all[i]
      OBVIOUS
    <3> HIDE DEF marked
    <3>2. CASE i <= Len(a)
      BY <1>3, <1>4, <1>8, <2>2, <3>1, <3>2
    <3>3. CASE ~(i <= Len(a))
      <4>1. i - Len(a) \in 1..Len(b) /\ i > offs
        BY <1>2, <1>3, <1>8, <3>3
      <4>2. all[i] = b[i - Len(a)] /\ aw[i] = w[i - Len(a)]
        BY <1>3, <1>4, <2>2, <3>3
      <4> QED BY <1>4, <1>8, <3>1, <4>1, <4>2
    <3> QED BY <3>2, <3>3
  <2> HIDE DEF marked
  <2>4. Len(aw) = Len(all) /\ Len(marked) = Len(all)
    BY <1>3, <1>4, <1>6, <2>2
  <2> QED BY <1>6, <2>1, <2>2, <2>3, <2>4
<1> HIDE DEF marked
<1>9. CASE ~arg.dironly \/ b = <<>>
  <2>1. PICK after : after = Glob3(found, arg)
    OBVIOUS
  <2>2. after = [found EXCEPT !.pathv = all]
    BY <1>5, <1>9, <2>1
  <2>3. after \in Globbed /\ after.pathv = all /\ after.offs = offs
    BY <1>1, <1>3, <2>2 DEF Globbed
  <2>4. all = Cat(found.pathv, Wanted(arg))
    BY <1>1, <1>7, <1>9
  <2>5. ASSUME arg.dironly PROVE Len(all) = Len(a)
    <3>1. Len(b) = 0
      BY <1>9, <2>5
    <3> QED BY <1>3, <3>1
  <2> QED BY <1>1, <2>1, <2>3, <2>4, <2>5 DEF Adding
<1>10. CASE arg.dironly /\ b # <<>>
  <2>1. PICK after : after = Glob3(found, arg)
    OBVIOUS
  <2>2. after = [pathv |-> marked, offs |-> Len(all)]
    BY <1>5, <1>10, <2>1
  <2>3. after \in Globbed /\ after.pathv = marked /\ after.offs = Len(marked)
    BY <1>3, <1>6, <2>2 DEF Globbed
  <2> QED BY <1>1, <1>8, <1>10, <2>1, <2>3 DEF Adding
<1> QED BY <1>2, <1>9, <1>10

\* An argument with / is in front of those without.
InOrder(args) == \A j, k \in 1..Len(args) : j < k /\ args[k].dironly => args[j].dironly

\* Then gl_pathv is what glob finds for the arguments, one behind the other.
LEMMA PathvIsFound ==
  ASSUME NEW args \in Seq(DirArg), InOrder(args)
  PROVE  Pathv(args) = Found(args) /\ Found(args) \in Seq(Entry)
<1> DEFINE n == Len(args)
           start == [pathv |-> <<>>, offs |-> 0]
           more == [x \in (1..n) \X Globbed |-> Glob3(x[2], args[x[1]])]
           IsFound(g) == g = [k \in 0..n |-> IF k = 0 THEN start ELSE Glob3(g[k - 1], args[k])]
           found == CHOOSE g : IsFound(g)
           parts == [k \in DOMAIN args |-> Wanted(args[k])]
<1>1. n \in Nat /\ DOMAIN args = 1..n /\ \A k \in 1..n : args[k] \in DirArg
  OBVIOUS
<1>2. start \in Globbed
  BY DEF Globbed
<1>3. more \in [(1..n) \X Globbed -> Globbed]
  BY <1>1, Glob3Adds DEF Adding
<1>4. PICK f : IsRecursive(f, n, Globbed, start, more)
  <2> HIDE DEF start, more, n
  <2> QED BY <1>1, <1>2, <1>3, RecursiveFunction
<1>5. \A k \in 1..n : f[k - 1] \in Globbed /\ f[k] = Glob3(f[k - 1], args[k])
  <2> TAKE k \in 1..n
  <2>1. k - 1 \in 0..n
    BY <1>1
  <2>2. f[k - 1] \in Globbed /\ f[k] = more[<<k, f[k - 1]>>]
    BY <1>4, <2>1 DEF IsRecursive
  <2> QED BY <2>2
<1>6. f[0] = start /\ f \in [0..n -> Globbed]
  BY <1>4 DEF IsRecursive
<1>7. IsFound(f)
  <2>1. f = [k \in 0..n |-> f[k]] /\ \A k \in 0..n : k = 0 \/ k \in 1..n
    BY <1>1, <1>6
  <2> HIDE DEF n, start
  <2> QED BY <1>5, <1>6, <2>1
<1>8. IsFound(found)
  <2> HIDE DEF IsFound
  <2> QED BY <1>7
<1>9. Pathv(args) = found[n].pathv
  BY DEF Pathv
<1>10. parts \in Seq(Seq(Entry)) /\ Len(parts) = n /\ \A k \in 1..n : parts[k] = Wanted(args[k])
  <2>1. \A k \in 1..n : Wanted(args[k]) \in Seq(Entry)
    BY <1>1, EntriesWanted
  <2> HIDE DEF n
  <2> QED BY <1>1, <2>1
<1>11. Found(args) = FlattenSeq(parts)
  BY DEF Found
<1> HIDE DEF found, parts
<1>12. PICK h : Joins(h, parts, Entry) /\ FlattenSeq(parts) = h[n]
  BY <1>10, FlattenIs
<1>13. h \in [0..n -> Seq(Entry)] /\ h[0] = <<>> /\ \A k \in 1..n : h[k] = Cat(h[k - 1], Wanted(args[k]))
  BY <1>10, <1>12 DEF Joins, Cat
<1> DEFINE Good(k) == /\ found[k] \in Globbed /\ found[k].pathv = h[k]
                      /\ (\A j \in 1..k : args[j].dironly) => found[k].offs = Len(found[k].pathv)
           T == {k \in 0..n : Good(k)}
<1>14. 0 \in T
  <2>1. 0 \in 0..n
    BY <1>1
  <2>2. found[0] = start
    BY <1>8, <2>1
  <2>3. start.pathv = <<>> /\ start.offs = 0
    OBVIOUS
  <2> HIDE DEF start
  <2> QED BY <1>2, <1>13, <2>1, <2>2, <2>3
<1>15. ASSUME NEW k \in 1..n, k - 1 \in T PROVE k \in T
  <2>1. k \in 0..n /\ k # 0 /\ k - 1 \in 0..n
    BY <1>1
  <2>2. found[k] = Glob3(found[k - 1], args[k])
    BY <1>8, <2>1
  <2>3. Good(k - 1)
    BY <1>15
  <2>4. PICK soFar, after, arg : soFar = found[k - 1] /\ after = found[k] /\ arg = args[k]
    OBVIOUS
  <2>5. soFar \in Globbed /\ arg \in DirArg /\ after = Glob3(soFar, arg)
    BY <1>1, <2>2, <2>3, <2>4
  <2>6. Adding(after, soFar, arg)
    BY <2>5, Glob3Adds
  <2>7. arg.dironly => soFar.offs = Len(soFar.pathv)
    <3> SUFFICES ASSUME arg.dironly PROVE \A j \in 1..(k - 1) : args[j].dironly
      BY <2>3, <2>4
    <3>1. \A j \in 1..(k - 1) : j \in 1..n /\ j < k
      BY <1>1
    <3> QED BY <2>4, <3>1 DEF InOrder
  <2>8. after.pathv = Cat(soFar.pathv, Wanted(arg)) /\ after \in Globbed
    BY <2>6, <2>7 DEF Adding
  <2>9. soFar.pathv = h[k - 1] /\ h[k] = Cat(h[k - 1], Wanted(arg))
    BY <1>13, <2>3, <2>4
  <2>10. ASSUME \A j \in 1..k : args[j].dironly PROVE after.offs = Len(after.pathv)
    <3>1. k \in 1..k
      BY <1>1
    <3>2. arg.dironly
      BY <2>4, <2>10, <3>1
    <3> QED BY <2>6, <2>7, <3>2 DEF Adding
  <2>11. Good(k)
    BY <2>4, <2>8, <2>9, <2>10
  <2> QED BY <2>1, <2>11
<1>16. n \in T
  <2>1. \A k \in 1..n : k - 1 \in T => k \in T
    BY <1>15
  <2>2. n \in 0..n
    BY <1>1
  <2> HIDE DEF T, n
  <2> QED BY <1>1, <1>14, <2>1, <2>2, InductionUpTo
<1>17. h[n] \in Seq(Entry)
  <2>1. n \in 0..n
    BY <1>1
  <2> QED BY <1>13, <2>1
<1> QED BY <1>9, <1>11, <1>12, <1>16, <1>17

-----------------------------------------------------------------------------
(* Elements chosen from a sequence.                                        *)

\* What is chosen from the same first elements is the same.
LEMMA SameChoice ==
  ASSUME NEW S, NEW s \in Seq(S), NEW t \in Seq(S), NEW I, NEW J, NEW f, NEW g,
         Chooses(f, s, I, S), Chooses(g, t, J, S), NEW n \in Nat, n <= Len(s), n <= Len(t),
         \A k \in 1..n : s[k] = t[k] /\ (k \in I <=> k \in J)
  PROVE  f[n] = g[n]
<1> DEFINE T == {k \in 0..n : f[k] = g[k]}
<1>1. Len(s) \in Nat /\ Len(t) \in Nat
  OBVIOUS
<1>2. 0 \in T
  BY DEF Chooses
<1>3. ASSUME NEW k \in 1..n, k - 1 \in T PROVE k \in T
  <2>1. k \in 1..Len(s) /\ k \in 1..Len(t) /\ k \in 0..n
    BY <1>1
  <2>2. f[k] = (IF k \in I THEN Append(f[k - 1], s[k]) ELSE f[k - 1])
        /\ g[k] = (IF k \in J THEN Append(g[k - 1], t[k]) ELSE g[k - 1])
    BY <2>1 DEF Chooses
  <2>3. f[k - 1] = g[k - 1] /\ s[k] = t[k] /\ (k \in I <=> k \in J)
    BY <1>3
  <2> QED BY <2>1, <2>2, <2>3
<1>4. n \in T
  <2>1. \A k \in 1..n : k - 1 \in T => k \in T
    BY <1>3
  <2>2. n \in 0..n
    OBVIOUS
  <2> HIDE DEF T
  <2> QED BY <1>2, <2>1, <2>2, InductionUpTo
<1> QED BY <1>4

\* One element more to choose from
LEMMA SelectedOfAppend ==
  ASSUME NEW S, NEW s \in Seq(S), NEW e, e \in S, NEW w, w = Add(s, e), NEW I
  PROVE  Selected(w, I) = IF Len(s) + 1 \in I THEN Add(Selected(s, I), e) ELSE Selected(s, I)
<1> DEFINE n == Len(s)
<1>1. /\ w \in Seq(S) /\ Len(w) = n + 1 /\ w[n + 1] = e /\ n \in Nat
      /\ \A k \in 1..n : w[k] = s[k]
  BY AppendProperties DEF Add
<1>2. PICK f : Chooses(f, s, I, S) /\ Selected(s, I) = f[n]
  BY SelectedIs
<1>3. PICK g : Chooses(g, w, I, S) /\ Selected(w, I) = g[Len(w)]
  BY <1>1, SelectedIs
<1> HIDE DEF n
<1>4. f[n] = g[n]
  <2>1. n <= Len(s) /\ n <= Len(w) /\ \A k \in 1..n : s[k] = w[k]
    BY <1>1 DEF n
  <2> QED BY <1>1, <1>2, <1>3, <2>1, SameChoice
<1>5. g[n + 1] = IF n + 1 \in I THEN Append(g[(n + 1) - 1], w[n + 1]) ELSE g[(n + 1) - 1]
  <2>1. n + 1 \in 1..Len(w)
    BY <1>1
  <2> QED BY <1>3, <2>1 DEF Chooses
<1>6. (n + 1) - 1 = n
  BY <1>1
<1> QED BY <1>1, <1>2, <1>3, <1>4, <1>5, <1>6 DEF Add, n

\* A run of elements
LEMMA SelectedRun ==
  ASSUME NEW S, NEW s \in Seq(S), NEW b \in 0..Len(s), NEW a \in 0..b, NEW w, w = Selected(s, (a + 1)..b)
  PROVE  w \in Seq(S) /\ Len(w) = b - a /\ \A i \in 1..(b - a) : w[i] = s[a + i]
<1> DEFINE n == Len(s)
           I == (a + 1)..b
           many(k) == IF k <= a THEN 0 ELSE IF k <= b THEN k - a ELSE b - a
<1>1. n \in Nat /\ a \in Nat /\ b \in Nat /\ a <= b /\ b <= n
  OBVIOUS
<1>2. PICK f : Chooses(f, s, I, S) /\ w = f[n]
  BY SelectedIs
<1>3. f \in [0..n -> Seq(S)] /\ f[0] = <<>>
      /\ \A k \in 1..n : f[k] = IF k \in I THEN Append(f[k - 1], s[k]) ELSE f[k - 1]
  BY <1>2 DEF Chooses
<1> DEFINE Good(k) == Len(f[k]) = many(k) /\ \A i \in 1..many(k) : f[k][i] = s[a + i]
           T == {k \in 0..n : Good(k)}
<1>4. 0 \in T
  BY <1>1, <1>3
<1>5. ASSUME NEW k \in 1..n, k - 1 \in T PROVE k \in T
  <2>1. k \in 0..n /\ k - 1 \in 0..n /\ f[k - 1] \in Seq(S) /\ s[k] \in S
    BY <1>1, <1>3
  <2>2. PICK p, r, l : p = f[k - 1] /\ r = f[k] /\ l = many(k - 1)
    OBVIOUS
  <2>3. p \in Seq(S) /\ Len(p) = l /\ \A i \in 1..l : p[i] = s[a + i]
    BY <1>5, <2>1, <2>2
  <2>4. CASE k \in I
    <3>1. r = Append(p, s[k])
      BY <1>3, <2>2, <2>4
    <3>2. many(k) = l + 1 /\ a + (l + 1) = k /\ l \in Nat
      BY <1>1, <2>2, <2>4
    <3>3. Len(r) = l + 1 /\ r[l + 1] = s[k] /\ \A i \in 1..l : r[i] = p[i]
      BY <2>1, <2>3, <3>1, AppendProperties
    <3>4. \A i \in 1..(l + 1) : r[i] = s[a + i]
      <4> TAKE i \in 1..(l + 1)
      <4>1. i \in 1..l \/ i = l + 1
        BY <3>2
      <4> QED BY <2>3, <3>2, <3>3, <4>1
    <3>5. Good(k)
      BY <2>2, <3>2, <3>3, <3>4
    <3> QED BY <2>1, <3>5
  <2>5. CASE k \notin I
    <3>1. r = p
      BY <1>3, <2>2, <2>5
    <3>2. many(k) = l
      BY <1>1, <2>2, <2>5
    <3>3. Good(k)
      BY <2>2, <2>3, <3>1, <3>2
    <3> QED BY <2>1, <3>3
  <2> QED BY <2>4, <2>5
<1>6. n \in T
  <2>1. \A k \in 1..n : k - 1 \in T => k \in T
    BY <1>5
  <2>2. n \in 0..n
    BY <1>1
  <2> HIDE DEF T, n
  <2> QED BY <1>1, <1>4, <2>1, <2>2, InductionUpTo
<1>7. many(n) = b - a
  BY <1>1
<1>8. f[n] \in Seq(S)
  <2>1. n \in 0..n
    BY <1>1
  <2> HIDE DEF n
  <2> QED BY <1>3, <2>1
<1> QED BY <1>2, <1>6, <1>7, <1>8

\* All elements
LEMMA SelectedAll ==
  ASSUME NEW S, NEW s \in Seq(S)
  PROVE  Selected(s, 1..Len(s)) = s
<1>1. PICK w, n : w = Selected(s, (0 + 1)..n) /\ n = Len(s)
  OBVIOUS
<1>2. n \in 0..Len(s) /\ 0 \in 0..n
  BY <1>1
<1>3. w \in Seq(S) /\ Len(w) = n - 0 /\ \A i \in 1..(n - 0) : w[i] = s[0 + i]
  BY <1>1, <1>2, SelectedRun
<1>4. n - 0 = n /\ \A i \in 1..n : 0 + i = i
  BY <1>2
<1>5. w = s
  BY <1>1, <1>3, <1>4
<1>6. 0 + 1 = 1
  OBVIOUS
<1> QED BY <1>1, <1>5, <1>6

\* The entries that are not done, of one entry more
LEMMA NotDoneOfAppend ==
  ASSUME NEW s \in Seq(Entry), NEW e, e \in Entry, NEW w, w = Add(s, e)
  PROVE  NotDone(w) = IF e = Marked THEN NotDone(s) ELSE Add(NotDone(s), e)
<1> DEFINE n == Len(s)
           I == DOMAIN w \ Done(w)
           J == DOMAIN s \ Done(s)
<1>1. /\ w \in Seq(Entry) /\ Len(w) = n + 1 /\ w[n + 1] = e /\ n \in Nat
      /\ \A k \in 1..n : w[k] = s[k]
  BY AppendProperties DEF Add
<1>2. DOMAIN w = 1..(n + 1) /\ DOMAIN s = 1..n
  BY <1>1
<1>3. n + 1 \in I <=> e # Marked
  BY <1>1, <1>2 DEF Done
<1>4. \A k \in 1..n : k \in I <=> k \in J
  BY <1>1, <1>2 DEF Done
<1>5. NotDone(w) = Selected(w, I) /\ NotDone(s) = Selected(s, J)
  BY DEF NotDone
<1> HIDE DEF I, J
<1>6. Selected(s, I) = Selected(s, J)
  <2>1. PICK f : Chooses(f, s, I, Entry) /\ Selected(s, I) = f[Len(s)]
    BY SelectedIs
  <2>2. PICK g : Chooses(g, s, J, Entry) /\ Selected(s, J) = g[Len(s)]
    BY SelectedIs
  <2>3. f[n] = g[n]
    <3>1. n <= Len(s)
      BY <1>1
    <3> HIDE DEF n
    <3> QED BY <1>1, <1>4, <2>1, <2>2, <3>1, SameChoice
  <2> QED BY <2>1, <2>2, <2>3
<1>7. Selected(w, I) = IF n + 1 \in I THEN Add(Selected(s, I), e) ELSE Selected(s, I)
  BY SelectedOfAppend
<1> QED BY <1>3, <1>5, <1>6, <1>7

\* First a choice and then what is not done of it is one choice.
LEMMA NotDoneOfSelected ==
  ASSUME NEW s \in Seq(Entry), NEW I
  PROVE  NotDone(Selected(s, I)) = Selected(s, I \ Done(s))
<1> DEFINE n == Len(s)
           J == I \ Done(s)
<1>1. n \in Nat /\ DOMAIN s = 1..n /\ \A k \in 1..n : s[k] \in Entry
  OBVIOUS
<1>2. PICK f : Chooses(f, s, I, Entry) /\ Selected(s, I) = f[n]
  BY SelectedIs
<1>3. PICK g : Chooses(g, s, J, Entry) /\ Selected(s, J) = g[n]
  BY SelectedIs
<1>4. f \in [0..n -> Seq(Entry)] /\ f[0] = <<>>
      /\ \A k \in 1..n : f[k] = IF k \in I THEN Append(f[k - 1], s[k]) ELSE f[k - 1]
  BY <1>2 DEF Chooses
<1>5. g[0] = <<>> /\ \A k \in 1..n : g[k] = IF k \in J THEN Append(g[k - 1], s[k]) ELSE g[k - 1]
  BY <1>3 DEF Chooses
<1>6. \A k \in 1..n : k \in J <=> k \in I /\ s[k] # Marked
  BY <1>1 DEF Done
<1> HIDE DEF J
<1> DEFINE T == {k \in 0..n : NotDone(f[k]) = g[k]}
<1>7. 0 \in T
  <2>1. PICK none : none = <<>>
    OBVIOUS
  <2>2. none \in Seq(Entry) /\ Len(none) = 0
    BY <2>1
  <2>3. PICK h : Chooses(h, none, DOMAIN none \ Done(none), Entry)
                 /\ Selected(none, DOMAIN none \ Done(none)) = h[Len(none)]
    BY <2>2, SelectedIs
  <2>4. NotDone(none) = none
    BY <2>1, <2>2, <2>3 DEF NotDone, Chooses
  <2>5. 0 \in 0..n
    BY <1>1
  <2> QED BY <1>4, <1>5, <2>1, <2>4, <2>5
<1>8. ASSUME NEW k \in 1..n, k - 1 \in T PROVE k \in T
  <2>1. k \in 0..n /\ k - 1 \in 0..n
    BY <1>1
  <2>2. PICK p, r, e : p = f[k - 1] /\ r = f[k] /\ e = s[k]
    OBVIOUS
  <2>3. p \in Seq(Entry) /\ e \in Entry /\ NotDone(p) = g[k - 1]
    BY <1>1, <1>4, <1>8, <2>1, <2>2
  <2>4. CASE k \in I
    <3>1. r = Add(p, e)
      BY <1>4, <2>2, <2>4 DEF Add
    <3>2. NotDone(r) = IF e = Marked THEN NotDone(p) ELSE Add(NotDone(p), e)
      BY <2>3, <3>1, NotDoneOfAppend
    <3>3. g[k] = IF e = Marked THEN g[k - 1] ELSE Add(g[k - 1], e)
      BY <1>5, <1>6, <2>2, <2>4 DEF Add
    <3> QED BY <2>1, <2>2, <2>3, <3>2, <3>3
  <2>5. CASE k \notin I
    <3>1. r = p /\ g[k] = g[k - 1]
      BY <1>4, <1>5, <1>6, <2>2, <2>5
    <3> QED BY <2>1, <2>2, <2>3, <3>1
  <2> QED BY <2>4, <2>5
<1>9. n \in T
  <2>1. \A k \in 1..n : k - 1 \in T => k \in T
    BY <1>8
  <2>2. n \in 0..n
    BY <1>1
  <2> HIDE DEF T, n
  <2> QED BY <1>1, <1>7, <2>1, <2>2, InductionUpTo
<1> QED BY <1>2, <1>3, <1>9 DEF J

-----------------------------------------------------------------------------
(* Columns.                                                                *)

\* Division with remainder
LEMMA Division ==
  ASSUME NEW a \in Nat, NEW b \in Nat \ {0}, NEW q, q = a \div b, NEW r, r = a % b
  PROVE  q \in Nat /\ r \in 0..(b - 1) /\ a = q * b + r
<1>1. a \div b \in Nat /\ a % b \in 0..(b - 1)
  OBVIOUS
<1>2. a = b * (a \div b) + (a % b)
  OBVIOUS
<1>3. q \in Nat /\ r \in 0..(b - 1) /\ a = b * q + r
  BY <1>1, <1>2
<1> QED BY <1>3

\* More of the same is not less.
LEMMA TimesMore ==
  ASSUME NEW a \in Nat, NEW c \in Nat, NEW b \in Nat, a <= c
  PROVE  a * b \in Nat /\ c * b \in Nat /\ a * b <= c * b
<1>1. PICK d \in Nat : c = a + d
  <2>1. c - a \in Nat /\ c = a + (c - a)
    OBVIOUS
  <2> QED BY <2>1
<1>2. (a + d) * b = a * b + d * b
  OBVIOUS
<1>3. a * b \in Nat /\ d * b \in Nat
  OBVIOUS
<1> QED BY <1>1, <1>2, <1>3

\* There is one way only to divide.
LEMMA OneDivision ==
  ASSUME NEW b \in Nat \ {0}, NEW q \in Nat, NEW p \in Nat, NEW r \in 0..(b - 1), NEW s \in 0..(b - 1),
         q * b + r = p * b + s
  PROVE  q = p /\ r = s
<1>1. ASSUME NEW x \in Nat, NEW y \in Nat, NEW u \in 0..(b - 1), NEW v \in 0..(b - 1), x < y
      PROVE  x * b + u < y * b + v
  <2>1. (x + 1) * b \in Nat /\ y * b \in Nat /\ (x + 1) * b <= y * b
    BY <1>1, TimesMore
  <2>2. (x + 1) * b = x * b + b /\ x * b \in Nat
    OBVIOUS
  <2> QED BY <2>1, <2>2
<1>2. q * b \in Nat /\ p * b \in Nat
  OBVIOUS
<1>3. q = p
  <2>1. ~(q < p)
    BY <1>1, <1>2
  <2>2. ~(p < q)
    BY <1>1, <1>2
  <2> QED BY <2>1, <2>2
<1> QED BY <1>2, <1>3

\* The place that the n-th cell of the columns shows
Shows(n, rows, cols) == (n - 1) \div cols + ((n - 1) % cols) * rows + 1

\* Every place is shown once.
ShowsAll(all, rows, cols) ==
  /\ all \in Nat
  /\ \A n \in 1..all : Shows(n, rows, cols) \in Nat \ {0}
  /\ \A n, m \in 1..all : Shows(n, rows, cols) = Shows(m, rows, cols) => n = m
  /\ \A k \in 1..all : \E n \in 1..all : Shows(n, rows, cols) = k

\* The index of disctools.c:243 is a bijection.
LEMMA CellsAre ==
  ASSUME NEW rows \in Nat \ {0}, NEW cols \in Nat \ {0}, NEW all, all = rows * cols
  PROVE  ShowsAll(all, rows, cols)
<1>1. rows * cols \in Nat /\ rows * cols = cols * rows
  OBVIOUS
<1>2. all = rows * cols
  OBVIOUS
<1>3. ASSUME NEW n \in 1..all
      PROVE  \E q \in 0..(rows - 1), r \in 0..(cols - 1) :
               n = q * cols + r + 1 /\ Shows(n, rows, cols) = q + r * rows + 1
  <2>1. n - 1 \in Nat
    BY <1>1, <1>2
  <2>2. PICK q, r : q = (n - 1) \div cols /\ r = (n - 1) % cols
    OBVIOUS
  <2>3. q \in Nat /\ r \in 0..(cols - 1) /\ n - 1 = q * cols + r
    BY <2>1, <2>2, Division
  <2>4. q < rows
    <3>1. ASSUME rows <= q PROVE FALSE
      <4>1. rows * cols <= q * cols /\ q * cols \in Nat
        BY <2>3, <3>1, TimesMore
      <4> QED BY <1>1, <1>2, <2>3, <4>1
    <3> QED BY <2>3, <3>1
  <2>5. q \in 0..(rows - 1) /\ n = q * cols + r + 1
    <3>1. q * cols \in Nat
      BY <2>3
    <3> QED BY <1>1, <1>2, <2>3, <2>4, <3>1
  <2> QED BY <2>2, <2>3, <2>5 DEF Shows
<1>4. \A n \in 1..all : Shows(n, rows, cols) \in Nat \ {0}
  <2> TAKE n \in 1..all
  <2>1. PICK q \in 0..(rows - 1), r \in 0..(cols - 1) : Shows(n, rows, cols) = q + r * rows + 1
    BY <1>3
  <2>2. r * rows \in Nat
    OBVIOUS
  <2> QED BY <2>1, <2>2
<1>5. ASSUME NEW n \in 1..all, NEW m \in 1..all, Shows(n, rows, cols) = Shows(m, rows, cols)
      PROVE  n = m
  <2>1. PICK q \in 0..(rows - 1), r \in 0..(cols - 1) :
          n = q * cols + r + 1 /\ Shows(n, rows, cols) = q + r * rows + 1
    BY <1>3
  <2>2. PICK p \in 0..(rows - 1), s \in 0..(cols - 1) :
          m = p * cols + s + 1 /\ Shows(m, rows, cols) = p + s * rows + 1
    BY <1>3
  <2>3. r * rows \in Nat /\ s * rows \in Nat
    OBVIOUS
  <2>4. r * rows + q = s * rows + p
    BY <1>5, <2>1, <2>2, <2>3
  <2>5. r = s /\ q = p
    <3>1. r \in Nat /\ s \in Nat
      OBVIOUS
    <3> QED BY <2>4, <3>1, OneDivision
  <2> QED BY <2>1, <2>2, <2>5
<1>6. ASSUME NEW k \in 1..all
      PROVE  \E n \in 1..all : Shows(n, rows, cols) = k
  <2>1. k - 1 \in Nat
    BY <1>1, <1>2
  <2>2. PICK r, q : r = (k - 1) \div rows /\ q = (k - 1) % rows
    OBVIOUS
  <2>3. r \in Nat /\ q \in 0..(rows - 1) /\ k - 1 = r * rows + q
    BY <2>1, <2>2, Division
  <2>4. r * rows \in Nat /\ q * cols \in Nat
    BY <2>3
  <2>5. r < cols
    <3>1. ASSUME cols <= r PROVE FALSE
      <4>1. cols * rows <= r * rows
        BY <2>3, <3>1, TimesMore
      <4> QED BY <1>1, <1>2, <2>3, <2>4, <4>1
    <3> QED BY <2>3, <3>1
  <2>6. PICK n : n = q * cols + r + 1
    OBVIOUS
  <2>7. n \in 1..all
    <3>1. (q + 1) * cols = q * cols + cols /\ q + 1 \in Nat /\ q + 1 <= rows
      BY <2>3
    <3>2. (q + 1) * cols <= rows * cols /\ rows * cols \in Nat
      BY <3>1, TimesMore
    <3>3. q * cols + cols <= all
      BY <1>2, <3>1, <3>2
    <3> QED BY <1>1, <1>2, <2>3, <2>4, <2>5, <2>6, <3>3
  <2>8. PICK p \in 0..(rows - 1), s \in 0..(cols - 1) :
          n = p * cols + s + 1 /\ Shows(n, rows, cols) = p + s * rows + 1
    BY <1>3, <2>7
  <2>9. p = q /\ s = r
    <3>1. p * cols \in Nat
      OBVIOUS
    <3>2. p * cols + s = q * cols + r
      BY <2>3, <2>4, <2>6, <2>8, <3>1
    <3>3. p \in Nat /\ q \in Nat /\ s \in 0..(cols - 1) /\ r \in 0..(cols - 1)
      BY <2>3, <2>5
    <3> QED BY <3>2, <3>3, OneDivision
  <2>10. Shows(n, rows, cols) = k
    BY <2>3, <2>4, <2>8, <2>9
  <2> QED BY <2>7, <2>10
<1> QED BY <1>1, <1>2, <1>4, <1>5, <1>6 DEF ShowsAll

\* A sequence in which each of some numbers is once has as many elements.
LEMMA AsLongAsItsElements ==
  ASSUME NEW s \in Seq(Nat), NEW m \in Nat, NoRepeat(s), Elements(s) = 1..m
  PROVE  Len(s) = m
<1>1. Len(s) \in Nat /\ DOMAIN s = 1..Len(s) /\ s \in [1..Len(s) -> Nat]
  OBVIOUS
<1>2. s \in [1..Len(s) -> 1..m]
  <2>1. \A k \in 1..Len(s) : s[k] \in 1..m
    BY DEF Elements
  <2> QED BY <1>1, <2>1
<1>3. s \in Bijection(1..Len(s), 1..m)
  <2>1. \A j, k \in 1..Len(s) : s[j] = s[k] => j = k
    BY DEF NoRepeat
  <2>2. \A x \in 1..m : \E k \in 1..Len(s) : s[k] = x
    BY DEF Elements
  <2> QED BY <1>2, <2>1, <2>2, Fun_IsBij
<1>4. ExistsBijection(1..Len(s), 1..m)
  BY <1>3 DEF ExistsBijection
<1>5. PICK n, S, T : n = Len(s) /\ S = 1..n /\ T = 1..m
  OBVIOUS
<1>6. IsFiniteSet(S) /\ Cardinality(S) = n
  <2>1. 1 \in Int /\ n \in Int /\ (IF 1 > n THEN 0 ELSE n - 1 + 1) = n
    BY <1>1, <1>5
  <2> QED BY <1>5, <2>1, FS_Interval
<1>7. Cardinality(T) = m
  <2>1. 1 \in Int /\ m \in Int /\ (IF 1 > m THEN 0 ELSE m - 1 + 1) = m
    OBVIOUS
  <2> QED BY <1>5, <2>1, FS_Interval
<1>8. Cardinality(T) = Cardinality(S)
  <2>1. ExistsBijection(S, T)
    BY <1>4, <1>5
  <2> QED BY <1>6, <2>1, FS_Bijection
<1> QED BY <1>5, <1>6, <1>7, <1>8

\* The rows hold all files.
LEMMA RowsHoldAll ==
  ASSUME NEW m \in Nat \ {0}, NEW cols \in Nat \ {0}, NEW rows, rows = Rows(m, cols)
  PROVE  rows \in Nat \ {0} /\ m <= rows * cols
<1> DEFINE q == (m - 1) \div cols
           r == (m - 1) % cols
<1>1. m - 1 \in Nat
  OBVIOUS
<1>2. rows = q + 1
  BY DEF Rows
<1>3. q \in Nat /\ r \in 0..(cols - 1) /\ m - 1 = q * cols + r
  <2>1. q \in Nat /\ r \in 0..(cols - 1)
    BY <1>1
  <2>2. m - 1 = cols * q + r
    BY <1>1
  <2> HIDE DEF q, r
  <2> QED BY <2>1, <2>2
<1> HIDE DEF q, r
<1>5. (q + 1) * cols = q * cols + cols /\ q * cols \in Nat
  BY <1>3
<1>6. m <= (q + 1) * cols
  BY <1>3, <1>5
<1> QED BY <1>2, <1>3, <1>6

\* The entries at the places of printed, which has each place once
ArePrinted(printed, pathv, m, shown) ==
  /\ printed \in Seq(Nat) /\ NoRepeat(printed) /\ Elements(printed) = 1..m /\ Len(printed) = m
  /\ shown = [k \in 1..Len(printed) |-> pathv[printed[k]]]

\* Columns prints the first m entries, each once.
LEMMA ColumnsShow ==
  ASSUME NEW pathv, NEW m \in Nat \ {0}, NEW cols \in Nat \ {0}
  PROVE  \E printed : ArePrinted(printed, pathv, m, Columns(pathv, m, cols))
<1> DEFINE rows == Rows(m, cols)
           cells == [n \in 1..(rows * cols) |-> Shows(n, rows, cols)]
           I == {n \in DOMAIN cells : cells[n] <= m}
           printed == Selected(cells, I)
<1>1. Columns(pathv, m, cols) = [k \in 1..Len(printed) |-> pathv[printed[k]]]
  BY DEF Columns, Shows
<1>2. rows \in Nat \ {0} /\ m <= rows * cols
  BY RowsHoldAll
<1> HIDE DEF rows
<1>3. PICK all : all = rows * cols
  OBVIOUS
<1>4. /\ all \in Nat
      /\ \A n \in 1..all : Shows(n, rows, cols) \in Nat \ {0}
      /\ \A n, k \in 1..all : Shows(n, rows, cols) = Shows(k, rows, cols) => n = k
      /\ \A k \in 1..all : \E n \in 1..all : Shows(n, rows, cols) = k
  <2>1. PICK r : r = rows
    OBVIOUS
  <2>2. ShowsAll(all, r, cols)
    BY <1>2, <1>3, <2>1, CellsAre
  <2> QED BY <2>1, <2>2 DEF ShowsAll
<1>5. cells \in Seq(Nat) /\ Len(cells) = all /\ DOMAIN cells = 1..all
      /\ \A n \in 1..all : cells[n] = Shows(n, rows, cols)
  BY <1>3, <1>4
<1> HIDE DEF cells
<1>6. /\ printed \in Seq(Nat) /\ Elements(printed) = {cells[n] : n \in I \cap (1..Len(cells))}
      /\ NoRepeat(cells) => NoRepeat(printed)
  BY <1>5, ElementsOfSelected
<1> HIDE DEF printed
<1>7. NoRepeat(printed)
  <2>1. NoRepeat(cells)
    BY <1>4, <1>5 DEF NoRepeat
  <2> QED BY <1>6, <2>1
<1>8. Elements(printed) = 1..m
  <2>1. \A n : n \in I \cap (1..Len(cells)) <=> n \in 1..all /\ cells[n] <= m
    BY <1>5
  <2>2. ASSUME NEW x \in Elements(printed) PROVE x \in 1..m
    <3>1. PICK n : n \in 1..all /\ cells[n] <= m /\ x = cells[n]
      BY <1>6, <2>1
    <3> QED BY <1>4, <1>5, <3>1
  <2>3. ASSUME NEW x \in 1..m PROVE x \in Elements(printed)
    <3>1. x \in 1..all
      BY <1>2, <1>3, <1>4
    <3>2. PICK n \in 1..all : Shows(n, rows, cols) = x
      BY <1>4, <3>1
    <3>3. cells[n] = x /\ x <= m
      BY <1>5, <3>2
    <3>4. n \in I \cap (1..Len(cells))
      BY <2>1, <3>3
    <3> QED BY <1>6, <3>3, <3>4
  <2> QED BY <2>2, <2>3
<1>9. Len(printed) = m
  BY <1>6, <1>7, <1>8, AsLongAsItsElements
<1> QED BY <1>1, <1>6, <1>7, <1>8, <1>9 DEF ArePrinted

-----------------------------------------------------------------------------
(* ls: files and directories.                                              *)

\* Numbers without a gap below them start a sequence.
LEMMA StartsAre ==
  ASSUME NEW n \in Nat, NEW I, I \subseteq 1..n, \A j, k \in 1..n : j < k /\ k \in I => j \in I
  PROVE  \E m \in 0..n : I = 1..m
<1> DEFINE Empty(k) == k \in 1..n /\ k \in I
           T == {k \in 0..n : \E m \in 0..k : \A j \in 1..k : j \in I <=> j <= m}
<1>1. 0 \in T
  <2>1. 0 \in 0..n /\ 0 \in 0..0 /\ \A j \in 1..0 : FALSE
    OBVIOUS
  <2> QED BY <2>1
<1>2. ASSUME NEW k \in 1..n, k - 1 \in T PROVE k \in T
  <2>1. PICK m \in 0..(k - 1) : \A j \in 1..(k - 1) : j \in I <=> j <= m
    BY <1>2
  <2>2. k \in 0..n /\ \A j \in 1..k : j \in 1..(k - 1) \/ j = k
    OBVIOUS
  <2>3. CASE k \in I
    <3>1. \A j \in 1..k : j \in I /\ j <= k
      <4> TAKE j \in 1..k
      <4>1. j < k => j \in 1..n /\ j \in I
        BY <2>3
      <4> QED BY <2>3, <4>1
    <3>2. k \in 0..k
      OBVIOUS
    <3> QED BY <2>2, <3>1, <3>2
  <2>4. CASE k \notin I
    <3>1. \A j \in 1..k : j \in I <=> j <= m
      BY <2>1, <2>2, <2>4
    <3>2. m \in 0..k
      OBVIOUS
    <3> QED BY <2>2, <3>1, <3>2
  <2> QED BY <2>3, <2>4
<1>3. n \in T
  <2>1. \A k \in 1..n : k - 1 \in T => k \in T
    BY <1>2
  <2>2. n \in 0..n
    OBVIOUS
  <2> HIDE DEF T
  <2> QED BY <1>1, <2>1, <2>2, InductionUpTo
<1>4. PICK m \in 0..n : \A j \in 1..n : j \in I <=> j <= m
  BY <1>3
<1>5. \A j : j \in I <=> j \in 1..m
  <2> TAKE j
  <2>1. j \in I => j \in 1..n
    OBVIOUS
  <2>2. j \in 1..m => j \in 1..n
    OBVIOUS
  <2>3. j \in 1..n => (j \in 1..m <=> j <= m)
    OBVIOUS
  <2> QED BY <1>4, <2>1, <2>2, <2>3
<1>6. I = 1..m
  BY <1>5
<1> QED BY <1>6

\* The names of entries
LEMMA NamesAre ==
  ASSUME NEW s \in Seq(Entry)
  PROVE  Len(NamesOf(s)) = Len(s) /\ \A k \in 1..Len(s) : NamesOf(s)[k] = s[k].name
<1> DEFINE S == {e.name : e \in Entry}
<1>1. NamesOf(s) \in [1..Len(s) -> S]
  BY DEF NamesOf
<1>2. Len(s) \in Nat
  OBVIOUS
<1> QED BY <1>1, <1>2 DEF NamesOf

\* How often a name is among the first m
Times(s, m, name) == Cardinality({k \in 1..m : s[k] = name})

\* A sequence whose first m elements are those of another one at some places
TakenFrom(s, t, places, m) == \A k \in 1..m : s[k] = t[places[k]]

\* A name is as often in a sequence as in one that shows its elements, each once.
LEMMA AsOften ==
  ASSUME NEW m \in Nat, NEW places \in Seq(Nat), NoRepeat(places), Elements(places) = 1..m, Len(places) = m,
         NEW s, NEW t, TakenFrom(s, t, places, m), NEW x
  PROVE  Times(s, m, x) = Times(t, m, x)
<1> DEFINE A == {k \in 1..m : s[k] = x}
           B == {k \in 1..m : t[k] = x}
           f == [k \in A |-> places[k]]
<1>1. \A k \in 1..m : places[k] \in 1..m
  BY DEF Elements
<1>2. f \in [A -> B]
  BY <1>1 DEF TakenFrom
<1>3. \A j, k \in A : f[j] = f[k] => j = k
  BY DEF NoRepeat
<1>4. \A y \in B : \E k \in A : f[k] = y
  <2> TAKE y \in B
  <2>1. PICK k \in 1..m : places[k] = y
    BY DEF Elements
  <2>2. k \in A
    BY <2>1 DEF TakenFrom
  <2> QED BY <2>1, <2>2
<1>5. IsFiniteSet(1..m) /\ A \subseteq 1..m
  <2>1. 1 \in Int /\ m \in Int
    OBVIOUS
  <2> QED BY <2>1, FS_Interval
<1> HIDE DEF A, B, f
<1>6. IsFiniteSet(A)
  BY <1>5, FS_Subset
<1>7. ExistsBijection(A, B)
  <2>1. f \in Bijection(A, B)
    BY <1>2, <1>3, <1>4, Fun_IsBij
  <2> QED BY <2>1 DEF ExistsBijection
<1>8. Cardinality(B) = Cardinality(A)
  BY <1>6, <1>7, FS_Bijection
<1> QED BY <1>8 DEF A, B, Times

\* The first elements
LEMMA SelectedFirst ==
  ASSUME NEW S, NEW s \in Seq(S), NEW l \in 0..Len(s), NEW w, w = Selected(s, 1..l)
  PROVE  w \in Seq(S) /\ Len(w) = l /\ \A i \in 1..l : w[i] = s[i]
<1>1. l \in Nat /\ 0 \in 0..l /\ 0 + 1 = 1
  OBVIOUS
<1>2. w = Selected(s, (0 + 1)..l)
  BY <1>1
<1>3. w \in Seq(S) /\ Len(w) = l - 0 /\ \A i \in 1..(l - 0) : w[i] = s[0 + i]
  BY <1>1, <1>2, SelectedRun
<1>4. l - 0 = l /\ \A i \in 1..l : 0 + i = i
  BY <1>1
<1> QED BY <1>3, <1>4

\* The first m entries are not done and have these names.
HaveNames(paths, names, m) == \A k \in 1..m : paths[k] # Marked /\ names[k] = paths[k].name

\* The columns print the names of the first m entries, each as often as they have it.
LEMMA ColumnsAsOften ==
  ASSUME NEW paths \in Seq(Entry), NEW n \in Nat, n = Len(paths), NEW m \in 1..n,
         NEW cols \in Nat \ {0}, NEW shown, shown = Columns(paths, m, cols), NEW fs, fs = NamesOf(NotDone(shown)),
         NEW names, HaveNames(paths, names, m)
  PROVE  Len(fs) = m /\ \A x : Times(fs, m, x) = Times(names, m, x)
<1>1. m \in Nat /\ m \in Nat \ {0} /\ \A k \in 1..n : paths[k] \in Entry
  OBVIOUS
<1>2. \A k \in 1..m : paths[k] # Marked /\ names[k] = paths[k].name
  BY DEF HaveNames
<1>3. PICK printed : ArePrinted(printed, paths, m, shown)
  BY <1>1, ColumnsShow
<1>4. /\ printed \in Seq(Nat) /\ NoRepeat(printed) /\ Elements(printed) = 1..m /\ Len(printed) = m
      /\ shown = [k \in 1..m |-> paths[printed[k]]]
  BY <1>3 DEF ArePrinted
<1>5. \A k \in 1..m : printed[k] \in 1..m /\ printed[k] \in 1..n
  <2>1. \A k \in 1..m : printed[k] \in 1..m
    BY <1>4 DEF Elements
  <2> QED BY <2>1
<1>6. shown \in Seq(Entry) /\ Len(shown) = m /\ \A k \in 1..m : shown[k] = paths[printed[k]] /\ shown[k] # Marked
  <2>1. shown \in [1..m -> Entry]
    BY <1>1, <1>4, <1>5
  <2>2. \A k \in 1..m : shown[k] = paths[printed[k]]
    BY <1>4
  <2>3. \A k \in 1..m : shown[k] # Marked
    BY <1>2, <1>5, <2>2
  <2>4. shown \in Seq(Entry) /\ Len(shown) = m
    BY <1>1, <2>1
  <2> QED BY <2>2, <2>3, <2>4
<1>7. NotDone(shown) = shown
  <2>1. DOMAIN shown \ Done(shown) = 1..Len(shown)
    BY <1>6 DEF Done
  <2> QED BY <1>6, <2>1, SelectedAll DEF NotDone
<1>8. Len(fs) = m /\ \A k \in 1..m : fs[k] = shown[k].name
  BY <1>6, <1>7, NamesAre
<1>9. TakenFrom(fs, names, printed, m)
  <2> SUFFICES ASSUME NEW k \in 1..m PROVE fs[k] = names[printed[k]]
    BY DEF TakenFrom
  <2>1. names[printed[k]] = paths[printed[k]].name
    BY <1>5, <1>2
  <2> QED BY <1>6, <1>8, <2>1
<1> SUFFICES ASSUME NEW x
             PROVE  Times(fs, m, x) = Times(names, m, x)
  BY <1>8
<1> QED BY <1>1, <1>4, <1>9, AsOften

\* Files and directories are listed as they should, of entries in this order.
AsListed(paths, kind, fs, ss) ==
  LET plain == FilesIn(paths, kind)
      names == NamesOf(Selected(paths, plain))
  IN  /\ Len(fs) = Len(names)
      /\ \A k \in 1..Len(names) : Times(fs, Len(fs), names[k]) = Times(names, Len(names), names[k])
      /\ ss = NamesOf(Selected(paths, DOMAIN paths \ (plain \cup Done(paths))))

\* The long format
LEMMA LongLists ==
  ASSUME NEW paths \in Seq(Entry), NEW kind, NEW I, I = FilesIn(paths, kind),
         NEW fs, fs = NamesOf(NotDone(Selected(paths, I))),
         NEW ss, ss = NamesOf(NotDone(Selected(paths, DOMAIN paths \ I)))
  PROVE  AsListed(paths, kind, fs, ss)
<1>1. I \ Done(paths) = I
  BY DEF FilesIn, IsFile, Done
<1>2. (DOMAIN paths \ I) \ Done(paths) = DOMAIN paths \ (I \cup Done(paths))
  OBVIOUS
<1>3. fs = NamesOf(Selected(paths, I))
  BY <1>1, NotDoneOfSelected
<1>4. ss = NamesOf(Selected(paths, DOMAIN paths \ (I \cup Done(paths))))
  <2>1. NotDone(Selected(paths, DOMAIN paths \ I)) = Selected(paths, (DOMAIN paths \ I) \ Done(paths))
    BY NotDoneOfSelected
  <2> QED BY <1>2, <2>1
<1> QED BY <1>3, <1>4 DEF AsListed

\* The short format, with the files in front
LEMMA ShortLists ==
  ASSUME NEW paths \in Seq(Entry), NEW kind, NEW I, I = FilesIn(paths, kind),
         \A j, k \in DOMAIN paths : j < k /\ k \in I => j \in I,
         NEW cols \in Nat \ {0}, NEW m, m = Len(Selected(paths, I)),
         NEW shown, shown = (IF m = 0 THEN Selected(paths, I) ELSE Columns(paths, m, cols)),
         NEW fs, fs = NamesOf(NotDone(shown)),
         NEW ss, ss = NamesOf(NotDone(SubSeq(paths, m + 1, Len(paths))))
  PROVE  AsListed(paths, kind, fs, ss)
<1>1. PICK n : n = Len(paths)
  OBVIOUS
<1>2. n \in Nat /\ DOMAIN paths = 1..n /\ \A k \in 1..n : paths[k] \in Entry
  BY <1>1
<1>3. PICK l \in 0..n : I = 1..l
  <2>1. I \subseteq 1..n
    BY <1>2 DEF FilesIn
  <2>2. \A j, k \in 1..n : j < k /\ k \in I => j \in I
    BY <1>2
  <2> QED BY <1>2, <2>1, <2>2, StartsAre
<1>4. PICK plain : plain = Selected(paths, I)
  OBVIOUS
<1>5. plain \in Seq(Entry) /\ Len(plain) = l /\ \A i \in 1..l : plain[i] = paths[i]
  <2>1. plain = Selected(paths, 1..l) /\ l \in 0..Len(paths)
    BY <1>1, <1>3, <1>4
  <2> QED BY <2>1, SelectedFirst
<1>6. m = l /\ m \in 0..n
  BY <1>3, <1>4, <1>5
<1>7. \A k \in 1..m : paths[k] # Marked
  BY <1>3, <1>6 DEF FilesIn, IsFile
<1>8. ss = NamesOf(Selected(paths, DOMAIN paths \ (I \cup Done(paths))))
  <2>1. PICK rest : rest = Selected(paths, (m + 1)..n)
    OBVIOUS
  <2>2. rest \in Seq(Entry) /\ Len(rest) = n - m /\ \A i \in 1..(n - m) : rest[i] = paths[m + i]
    <3>1. n \in 0..Len(paths) /\ m \in 0..n
      BY <1>1, <1>2, <1>6
    <3> QED BY <2>1, <3>1, SelectedRun
  <2>3. SubSeq(paths, m + 1, n) = rest
    <3>1. PICK sub : sub = SubSeq(paths, m + 1, n)
      OBVIOUS
    <3>2. sub = [i \in 1..(n - m) |-> paths[m + i]]
      <4>1. m \in Int /\ n \in Int /\ n - (m + 1) + 1 = n - m
        BY <1>2, <1>6
      <4>2. \A i \in 1..(n - m) : m + 1 + i - 1 = m + i
        BY <1>2, <1>6
      <4>3. sub = [i \in 1..(n - (m + 1) + 1) |-> paths[m + 1 + i - 1]]
        BY <3>1, <4>1 DEF SubSeq
      <4> QED BY <4>1, <4>2, <4>3
    <3>3. rest = [i \in 1..(n - m) |-> rest[i]]
      BY <2>2
    <3> QED BY <2>2, <3>1, <3>2, <3>3
  <2>4. ((m + 1)..n) \ Done(paths) = DOMAIN paths \ (I \cup Done(paths))
    <3>1. \A k : k \in (m + 1)..n <=> k \in 1..n /\ k \notin 1..m
      BY <1>2, <1>6
    <3> QED BY <1>2, <1>3, <1>6, <3>1
  <2>5. NotDone(rest) = Selected(paths, ((m + 1)..n) \ Done(paths))
    BY <2>1, NotDoneOfSelected
  <2> QED BY <1>1, <2>3, <2>4, <2>5
<1>9. PICK names : names = NamesOf(plain)
  OBVIOUS
<1>10. Len(names) = m /\ \A k \in 1..m : names[k] = paths[k].name
  BY <1>5, <1>6, <1>9, NamesAre
<1>11. Len(fs) = m /\ \A x : Times(fs, m, x) = Times(names, m, x)
  <2>1. CASE m = 0
    <3>1. I \ Done(paths) = I
      BY DEF FilesIn, IsFile, Done
    <3>2. NotDone(plain) = plain
      BY <1>4, <3>1, NotDoneOfSelected
    <3>3. fs = names
      BY <1>4, <1>9, <2>1, <3>2
    <3> QED BY <1>10, <3>3
  <2>2. CASE m # 0
    <3>1. m \in Nat \ {0} /\ shown = Columns(paths, m, cols)
      BY <1>2, <1>6, <2>2
    <3>2. m \in 1..n /\ n \in Nat /\ n = Len(paths)
      BY <1>1, <1>2, <1>6, <2>2
    <3>3. HaveNames(paths, names, m)
      BY <1>7, <1>10 DEF HaveNames
    <3> QED BY <3>1, <3>2, <3>3, ColumnsAsOften
  <2> QED BY <2>1, <2>2
<1>12. ASSUME NEW x
       PROVE  Times(fs, Len(fs), x) = Times(names, Len(names), x)
  BY <1>10, <1>11
<1>13. names = NamesOf(Selected(paths, FilesIn(paths, kind)))
  BY <1>4, <1>9
<1>14. ss = NamesOf(Selected(paths, DOMAIN paths \ (FilesIn(paths, kind) \cup Done(paths))))
  BY <1>8
<1>15. Len(fs) = Len(names)
  BY <1>10, <1>11
<1> QED BY <1>12, <1>13, <1>14, <1>15 DEF AsListed

-----------------------------------------------------------------------------
(* ls: the invariant.                                                      *)

\* A call lists files and directories as they should, if the arguments come in
\* an order that the code handles.
FilesInv ==
  listing # NoListing =>
    /\ listing \in Listings
    /\ SlashInFront /\ (listing.long \/ FilesInFront) =>
         AsListed(Found(listing.args), listing.kind, files, sections)

\* One call
LEMMA DirFuncLists ==
  ASSUME NEW q \in Listings, DirFunc(q)
  PROVE  FilesInv'
<1>1. PICK args, kind : args = q.args /\ kind = q.kind
  OBVIOUS
<1>2. args \in Seq(DirArg) /\ q.cols \in Nat \ {0} /\ q.long \in BOOLEAN
  BY <1>1, DirListAssumption DEF DirArg
<1>3. listing' = q
  BY DEF DirFunc
<1>4. SUFFICES ASSUME SlashInFront', q.long \/ FilesInFront'
               PROVE  AsListed(Found(args), kind, files', sections')
  BY <1>1, <1>3 DEF FilesInv
<1>5. InOrder(args)
  <2>1. DOMAIN args = 1..Len(args)
    BY <1>2
  <2> QED BY <1>1, <1>3, <1>4, <2>1 DEF SlashInFront, InOrder
<1>6. PICK paths, I, m : paths = Found(args) /\ I = FilesIn(paths, kind) /\ m = Len(Selected(paths, I))
  OBVIOUS
<1>7. paths = Pathv(args) /\ paths \in Seq(Entry)
  BY <1>2, <1>5, <1>6, PathvIsFound
<1>8. /\ files' = NamesOf(NotDone(IF q.long \/ m = 0 THEN Selected(paths, I) ELSE Columns(paths, m, q.cols)))
      /\ sections' = NamesOf(NotDone(IF q.long THEN Selected(paths, DOMAIN paths \ I)
                                     ELSE SubSeq(paths, m + 1, Len(paths))))
  BY <1>1, <1>6, <1>7 DEF DirFunc
<1>9. CASE q.long
  <2>1. files' = NamesOf(NotDone(Selected(paths, I))) /\ sections' = NamesOf(NotDone(Selected(paths, DOMAIN paths \ I)))
    BY <1>8, <1>9
  <2>2. PICK fs, ss : fs = files' /\ ss = sections'
    OBVIOUS
  <2>3. AsListed(paths, kind, fs, ss)
    BY <1>6, <1>7, <2>1, <2>2, LongLists
  <2> QED BY <1>6, <2>2, <2>3
<1>10. CASE ~q.long
  <2>1. \A j, k \in DOMAIN paths : j < k /\ k \in I => j \in I
    BY <1>1, <1>3, <1>4, <1>6, <1>10 DEF FilesInFront
  <2>2. PICK shown, fs, ss, cols : /\ shown = (IF m = 0 THEN Selected(paths, I) ELSE Columns(paths, m, cols))
                                   /\ fs = files' /\ ss = sections' /\ cols = q.cols
    OBVIOUS
  <2>3. fs = NamesOf(NotDone(shown)) /\ ss = NamesOf(NotDone(SubSeq(paths, m + 1, Len(paths))))
    BY <1>8, <1>10, <2>2
  <2>4. cols \in Nat \ {0}
    BY <1>2, <2>2
  <2>5. AsListed(paths, kind, fs, ss)
    BY <1>6, <1>7, <2>1, <2>2, <2>3, <2>4, ShortLists
  <2> QED BY <1>6, <2>2, <2>5
<1> QED BY <1>9, <1>10

\* Each step keeps the invariant.
LEMMA FilesKeep == FilesInv /\ [DirNext]_dirVars => FilesInv'
<1> SUFFICES ASSUME FilesInv, [DirNext]_dirVars PROVE FilesInv'
  OBVIOUS
<1>1. CASE \E q \in Listings : DirFunc(q)
  BY <1>1, DirFuncLists
<1>2. CASE DirReturn
  BY <1>2 DEF DirReturn, FilesInv
<1>3. CASE UNCHANGED dirVars
  BY <1>3 DEF dirVars, FilesInv, SlashInFront, FilesInFront
<1> QED BY <1>1, <1>2, <1>3 DEF DirNext

\* The shell runs ls as DirSpec says.
LEMMA ShellRunsLs == ShellSpec => DirSpec
<1>1. ShellInit => DirInit
  BY DEF ShellInit
<1>2. [ShellNext]_<<vars, listVars, dirVars>> => [DirNext]_dirVars
  BY DEF ShellNext
<1> QED BY <1>1, <1>2, PTL DEF ShellSpec, DirSpec

\* ls lists first the files, each once whatever number of columns fits, then the
\* directories in their order, if the arguments come in an order that the code
\* handles: any file system, any arguments, any width (disctools.c:172-280).
THEOREM FilesCorrect == ShellSpec => []ListedFilesFirst
<1>1. DirInit => FilesInv
  BY DEF DirInit, FilesInv
<1>2. FilesInv => ListedFilesFirst
  BY DEF FilesInv, ListedFilesFirst, FilesThenDirectories, AsListed, Times
<1> QED BY <1>1, <1>2, FilesKeep, ShellRunsLs, PTL DEF DirSpec
=============================================================================
