------------------------------ MODULE IfEnvSet ------------------------------
(***************************************************************************)
(* ifEnvSet.c with epicsEnvUnset.c: ifEnvSet argument, condition,          *)
(* variable, value, else_value.  A condition is operators and text; the    *)
(* operator ~ uses the search of GlobMatch.                                *)
(***************************************************************************)
EXTENDS GlobMatch

CONSTANTS
  Arguments,     \* strings a script passes
  Conditions,    \* conditions: the number of !, other operators, and text
  Variables,     \* [named, value, elsevalue]: whether a variable is given, and its values
  MaxLong        \* the largest long

\* A text that began with an operator could not be told from the operators.
ASSUME IfEnvSetAssumption ==
  /\ Arguments \subseteq Seq(Chars)
  /\ \A c \in Conditions : /\ c.nots \in Nat
                           /\ c.ops \in Seq({"<", "=", ">"}) \cup {<<"~">>}
                           /\ c.text \in Seq(Chars)
                           /\ c.ops = <<>> => Char(c.text, 1) \notin {"!", "~"}
                           /\ c.ops # <<"~">> => Char(c.text, 1) \notin {"<", "=", ">"}
  /\ MaxLong \in Nat

None == "(none)"

VARIABLES
  env,        \* the variable in the environment, None when it is not set
  call,       \* the active call, or Idle
  before,     \* history: env when it began
  result      \* what it returns, or "pending"

ifVars == <<env, call, before, result>>
vars == <<globVars, ifVars>>

Idle == [argument |-> None]

-----------------------------------------------------------------------------
(* Strings and numbers.  strtol with base 0 skips white space, takes a     *)
(* sign, 0x for hexadecimal and a leading 0 for octal, and stops at        *)
(* MaxLong.                                                                *)

Elements(s) == {s[k] : k \in 1..Len(s)}
From(s, k) == SubSeq(s, k, Len(s))

\* The first place from k on that holds none of the characters
Behind(s, k, chars) ==
  CHOOSE i \in k..(Len(s) + 1) : Char(s, i) \notin chars /\ \A j \in k..(i - 1) : s[j] \in chars

White == {" ", "\t", "\n", "\f", "\r"}    \* and the vertical tab
Numerals == <<"0", "1", "2", "3", "4", "5", "6", "7", "8", "9", "a", "b", "c", "d", "e", "f">>
Capitals == <<"A", "B", "C", "D", "E", "F">>
Digit == Elements(Numerals) \cup Elements(Capitals)
DigitValue ==
  [d \in Digit |-> CHOOSE v \in 0..15 : d = Numerals[v + 1] \/ (v > 9 /\ d = Capitals[v - 9])]

Unpadded(s) == From(s, Behind(s, 1, White))

\* The digits of s behind its sign, and the base they are read in
Unsigned(s) == LET u == Unpadded(s) IN IF Char(u, 1) \in {"+", "-"} THEN From(u, 2) ELSE u
Base(s) == LET u == Unsigned(s) IN
             IF Char(u, 1) # "0" THEN 10 ELSE IF Char(u, 2) \in {"x", "X"} THEN 16 ELSE 8
Digits(s) == IF Base(s) = 16 THEN From(Unsigned(s), 3) ELSE Unsigned(s)

\* strtol leaves nothing of s.  It leaves nothing of an empty string either.
IsNumber(s) ==
  LET n == Digits(s)
      base == Base(s)
  IN  \/ s = <<>>
      \/ n # <<>> /\ \A d \in Elements(n) : d \in Digit /\ DigitValue[d] < base

Exact(s) ==
  LET n == Digits(s)
      base == Base(s)
      value[k \in 0..Len(n)] == IF k = 0 THEN 0 ELSE base * value[k - 1] + DigitValue[n[k]]
  IN  IF Char(Unpadded(s), 1) = "-" THEN -value[Len(n)] ELSE value[Len(n)]

Strtol(s) ==
  IF Exact(s) > MaxLong THEN MaxLong
  ELSE IF Exact(s) < -MaxLong - 1 THEN -MaxLong - 1 ELSE Exact(s)

-----------------------------------------------------------------------------
(* The condition: any number of !, then ~ or any number of <, = and >.     *)

Operators(condition) ==
  LET n == Behind(condition, 1, {"!"})
      e == IF Char(condition, n) = "~" THEN n + 1 ELSE Behind(condition, n, {"<", "=", ">"})
  IN  [not |-> (n - 1) % 2 = 1, ops |-> {condition[k] : k \in n..(e - 1)},
       text |-> From(condition, e)]

-----------------------------------------------------------------------------
Init == NoCall /\ env = None /\ call = Idle /\ before = None /\ result = "pending"

\* The condition as the script writes it
Written(asked) == [k \in 1..asked.nots |-> "!"] \o asked.ops \o asked.text

\* Both strings are numbers, the second one of a condition that has a text.
Numbers(argument, condition) == condition # <<>> /\ IsNumber(condition) /\ IsNumber(argument)

\* num_arg and num_condition
Reading(argument, condition) ==
  IF Numbers(argument, condition) THEN <<Strtol(argument), Strtol(condition)>> ELSE <<>>

\* Without argument or condition nothing happens; without ~ match is not
\* called.  What strtol will read is a matter of the arguments alone.
IfEnvSet(argument, asked, choice) ==
  /\ LET op == Operators(Written(asked)) IN
       /\ call' = [argument |-> argument, op |-> op, asked |-> asked, choice |-> choice,
                   numbers |-> Reading(argument, op.text)]
       /\ IF "~" \in op.ops THEN StartMatch(argument, op.text) ELSE UNCHANGED globVars
  /\ before' = env
  /\ UNCHANGED <<env, result>>

Matching == Match /\ UNCHANGED ifVars

Numeric == call.numbers # <<>>

\* The comparisons, before the negation.  The result of ~ is only one more
\* way to be true.
Compared ==
  LET x == call.numbers[1]
      y == call.numbers[2]
      tests == call.op.ops \cap {"<", "=", ">"}
  IN  \/ "~" \in call.op.ops /\ matched
      \/ IF Numeric
         THEN \/ x = y /\ (tests = {} \/ "=" \in tests)
              \/ x < y /\ "<" \in tests
              \/ x > y /\ ">" \in tests
         ELSE call.argument = call.op.text

NeedsNumbers == ~Numeric /\ call.op.ops \cap {"<", ">"} # {}

\* Mutant: the variable is unset whenever there is no value to give it.
UnsetsElse(holds) ==
  LET value == IF holds THEN call.choice.value ELSE call.choice.elsevalue
  IN  env' = IF call.choice.named THEN value ELSE env

\* epicsEnvSet, or epicsEnvUnset: a missing value unsets the variable, a
\* missing else_value leaves it.
Assign(holds) ==
  LET value == IF holds THEN call.choice.value ELSE call.choice.elsevalue
  IN  env' = IF call.choice.named /\ (holds \/ value # None) THEN value ELSE env

\* < and > on other than numbers: a message and the end, as if false.
Compare ==
  /\ call # Idle /\ at = "done" /\ result = "pending"
  /\ IF NeedsNumbers THEN result' = "false" /\ UNCHANGED env
     ELSE LET holds == Compared # call.op.not IN
            /\ result' = IF holds THEN "true" ELSE "false"
            /\ Assign(holds)
  /\ UNCHANGED <<globVars, call, before>>

\* The pointers go out of scope.
Return ==
  /\ result # "pending"
  /\ call' = Idle /\ result' = "pending" /\ before' = None
  /\ text' = <<>> /\ wildcard' = <<>> /\ str' = 1 /\ pattern' = 1 /\ cp' = NULL /\ mp' = NULL
  /\ matched' = TRUE
  /\ UNCHANGED <<env, at>>

\* The shell function epicsEnvUnset with the name of the variable
EpicsEnvUnset ==
  /\ call = Idle
  /\ env' = None
  /\ UNCHANGED <<globVars, call, before, result>>

Next ==
  \/ EpicsEnvUnset
  \/ /\ call = Idle
     /\ \E argument \in Arguments, asked \in Conditions, choice \in Variables :
          IfEnvSet(argument, asked, choice)
  \/ Matching
  \/ Compare
  \/ Return

\* The shell runs the function to its end.
Spec == Init /\ [][Next]_vars /\ WF_vars(Matching \/ Compare \/ Return)

-----------------------------------------------------------------------------
(* Properties.                                                             *)

TypeOK ==
  /\ PointersInside
  /\ at \in {"scan", "stars", "rest", "done"}
  /\ env \in {None} \cup UNION {{v.value, v.elsevalue} : v \in Variables}
  /\ result \in {"pending", "true", "false"}

\* What the usage text says of a condition.  Numbers have no limit here.
Number(s) == IF IsNumber(s) THEN Exact(s) ELSE 0

Holds(argument, c) ==
  LET numbers == Numbers(argument, c.text)
      compared == \/ "<" \in Elements(c.ops) /\ Number(argument) < Number(c.text)
                  \/ "=" \in Elements(c.ops) /\ Number(argument) = Number(c.text)
                  \/ ">" \in Elements(c.ops) /\ Number(argument) > Number(c.text)
      equal == IF numbers THEN Number(argument) = Number(c.text) ELSE argument = c.text
      plain == CASE c.ops = <<"~">> -> Glob(argument, c.text)
                 [] c.ops = <<>> -> equal
                 [] OTHER -> IF numbers THEN compared ELSE argument = c.text
  IN  plain = (c.nots % 2 = 0)

\* What the call should have made of the variable.
Asked(holds) ==
  CASE ~call.choice.named -> before
    [] call.choice.named /\ holds -> call.choice.value
    [] OTHER -> IF call.choice.elsevalue = None THEN before ELSE call.choice.elsevalue

\* Two numbers that strtol cuts down to the same long
Overflows ==
  /\ Number(call.argument) # Number(call.op.text)
  /\ Strtol(call.argument) = Strtol(call.op.text)

\* ifEnvSet sets, unsets or leaves the variable as its condition says, with
\* any combination of operators - with three exceptions: < and > for what is
\* no number, ~ between two numbers, which also holds when they are equal,
\* and two numbers of which one is no long, when strtol takes them for equal.
VariableAsAsked ==
  result # "pending" /\ ~NeedsNumbers /\ ~("~" \in call.op.ops /\ Numeric) /\ ~(Numeric /\ Overflows) =>
    /\ env = Asked(Holds(call.argument, call.asked))
    /\ result = "true" <=> Holds(call.argument, call.asked)

\* The function ends: the search of match cannot go back for ever.
Returns == call # Idle ~> call = Idle
=============================================================================
