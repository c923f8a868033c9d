----------------------------- MODULE GlobMatch -----------------------------
(***************************************************************************)
(* epicsStrGlobMatch (glob.c) and its copy match (ifEnvSet.c): a string is *)
(* compared with a pattern of characters, ? and *, with two pointers that  *)
(* only ever go back to the last * that was seen.                          *)
(*                                                                         *)
(* A string is the sequence of its characters; the terminating zero is     *)
(* behind the last.  A pointer is an index.                                *)
(***************************************************************************)
EXTENDS Integers, Sequences

VARIABLES
  text,       \* what the argument str points to when the call begins
  wildcard,   \* what the argument pattern points to
  str, pattern, cp, mp,
  at,         \* the loop it is in: "scan", "stars", "rest", or "done"
  matched     \* the value returned

globVars == <<text, wildcard, str, pattern, cp, mp, at, matched>>

NUL == "NUL"
Chars == STRING \ {NUL}
NULL == 0
Char(s, i) == IF i <= Len(s) THEN s[i] ELSE NUL

\* No call is active.
NoCall == /\ text = <<>> /\ wildcard = <<>>
          /\ str = 1 /\ pattern = 1 /\ cp = NULL /\ mp = NULL
          /\ at = "done" /\ matched = TRUE

StartMatch(s, p) ==
  /\ text' = s /\ wildcard' = p
  /\ str' = 1 /\ pattern' = 1 /\ cp' = NULL /\ mp' = NULL
  /\ at' = "scan" /\ matched' = FALSE

Answer(m) == at' = "done" /\ matched' = m

\* The character under pattern stands for the one under str.
Fits == Char(wildcard, pattern) \in {Char(text, str), "?"}

Advance == str' = str + 1 /\ pattern' = pattern + 1

\* The first loop: the part before the first *
Scan ==
  /\ at = "scan"
  /\ IF Char(text, str) # NUL /\ Char(wildcard, pattern) # "*"
     THEN IF Fits THEN Advance /\ UNCHANGED <<at, matched>>
                  ELSE Answer(FALSE) /\ UNCHANGED <<str, pattern>>
     ELSE at' = "stars" /\ UNCHANGED <<str, pattern, matched>>
  /\ UNCHANGED <<text, wildcard, cp, mp>>

\* Mutant: the place behind the * is not kept.
StarForgets ==
  /\ at = "stars" /\ Char(text, str) # NUL
  /\ Char(wildcard, pattern) = "*"
  /\ pattern' = pattern + 1
  /\ cp' = str + 1
  /\ IF Char(wildcard, pattern + 1) = NUL THEN Answer(TRUE) ELSE UNCHANGED <<at, matched>>
  /\ UNCHANGED <<text, wildcard, str, mp>>

\* The second loop comes to a *: what follows is tried here first.
Star ==
  /\ at = "stars" /\ Char(text, str) # NUL
  /\ Char(wildcard, pattern) = "*"
  /\ pattern' = pattern + 1
  /\ IF Char(wildcard, pattern + 1) = NUL
     THEN Answer(TRUE) /\ UNCHANGED <<cp, mp>>
     ELSE mp' = pattern + 1 /\ cp' = str + 1 /\ UNCHANGED <<at, matched>>
  /\ UNCHANGED <<text, wildcard, str>>

Same ==
  /\ at = "stars" /\ Char(text, str) # NUL
  /\ Char(wildcard, pattern) # "*" /\ Fits
  /\ Advance
  /\ UNCHANGED <<text, wildcard, cp, mp, at, matched>>

\* Mutant: what follows the * is tried at the same place again.
BackSame ==
  /\ at = "stars" /\ Char(text, str) # NUL
  /\ Char(wildcard, pattern) # "*" /\ ~Fits
  /\ pattern' = mp /\ str' = cp
  /\ UNCHANGED <<text, wildcard, cp, mp, at, matched>>

\* Mutant: the next try starts behind the character that did not fit.
BackFar ==
  /\ at = "stars" /\ Char(text, str) # NUL
  /\ Char(wildcard, pattern) # "*" /\ ~Fits
  /\ pattern' = mp /\ str' = str + 1
  /\ UNCHANGED <<text, wildcard, cp, mp, at, matched>>

\* The * has to stand for one character more.
Back ==
  /\ at = "stars" /\ Char(text, str) # NUL
  /\ Char(wildcard, pattern) # "*" /\ ~Fits
  /\ pattern' = mp /\ str' = cp /\ cp' = cp + 1
  /\ UNCHANGED <<text, wildcard, mp, at, matched>>

\* The string has ended; only * may be left.
Rest ==
  /\ \/ at = "stars" /\ Char(text, str) = NUL
     \/ at = "rest"
  /\ IF Char(wildcard, pattern) = "*"
     THEN pattern' = pattern + 1 /\ at' = "rest" /\ UNCHANGED matched
     ELSE Answer(Char(wildcard, pattern) = NUL) /\ UNCHANGED pattern
  /\ UNCHANGED <<text, wildcard, str, cp, mp>>

Match == Scan \/ Star \/ Same \/ Back \/ Rest

-----------------------------------------------------------------------------
(* What a pattern stands for.                                              *)

\* The places of s from which the character c and then what stands for the
\* text from one of the places in rest can be read
Before(s, c, rest) ==
  IF c = "*" THEN {i \in 1..(Len(s) + 1) : \E j \in rest : i <= j}
             ELSE {i \in 1..Len(s) : c \in {"?", s[i]} /\ i + 1 \in rest}

\* For each k the places of s whose rest the last k characters of p stand for
Places(s, p) ==
  LET places[k \in 0..Len(p)] ==
        IF k = 0 THEN {Len(s) + 1}
        ELSE LET rest == places[k - 1] IN Before(s, p[Len(p) + 1 - k], rest)
  IN  places

Glob(s, p) == 1 \in Places(s, p)[Len(p)]

\* Although it never goes back behind the last *, the search answers what
\* trying every way to read the pattern answers.
MatchIsGlob == at = "done" => matched = Glob(text, wildcard)

\* The search never follows a pointer it has not set nor one beyond the end
\* of its string.
PointersInside ==
  /\ str \in 1..(Len(text) + 1)
  /\ pattern \in 1..(Len(wildcard) + 1)
=============================================================================
