---------------------------- MODULE InitCommands ----------------------------
(***************************************************************************)
(* What afterInit, atInit and atInitStage promise: every stage of iocInit  *)
(* has a queue of commands.  When the stage is announced its commands run  *)
(* one after the other, in the order they were given - in the reverse      *)
(* order for the stages that take the IOC down.  A command that runs may   *)
(* queue more commands.                                                    *)
(***************************************************************************)
EXTENDS Integers, Sequences

CONSTANTS
  Stage,            \* stages a command can be queued for
  ShutdownStage,    \* those whose commands run last in, first out
  NoStage,
  MaxItems          \* bound on the number of registrations

VARIABLES
  queue,      \* for every stage the commands given so far, in running order
  count,      \* commands are named by the order they were given in
  stage,      \* the stage being announced, or NoStage
  todo,       \* what this announcement has still to run
  running     \* the command that runs, or 0

vars == <<queue, count, stage, todo, running>>

Init ==
  /\ queue = [s \in Stage |-> <<>>]
  /\ count = 0
  /\ stage = NoStage
  /\ todo = <<>>
  /\ running = 0

Give(s) ==
  /\ stage = NoStage \/ running # 0
  /\ count < MaxItems
  /\ count' = count + 1
  /\ queue' = [queue EXCEPT ![s] =
                 IF s \in ShutdownStage THEN <<count'>> \o @ ELSE Append(@, count')]
  /\ todo' = IF s = stage /\ s \notin ShutdownStage THEN Append(todo, count') ELSE todo
  /\ UNCHANGED <<stage, running>>

Announce(s) ==
  /\ stage = NoStage
  /\ stage' = s
  /\ todo' = queue[s]
  /\ UNCHANGED <<queue, count, running>>

RunNext ==
  /\ stage # NoStage /\ running = 0
  /\ todo # <<>>
  /\ running' = Head(todo)
  /\ todo' = Tail(todo)
  /\ UNCHANGED <<queue, count, stage>>

Return ==
  /\ running # 0
  /\ running' = 0
  /\ UNCHANGED <<queue, count, stage, todo>>

Finish ==
  /\ stage # NoStage /\ running = 0
  /\ todo = <<>>
  /\ stage' = NoStage
  /\ UNCHANGED <<queue, count, todo, running>>

Next ==
  \/ \E s \in Stage : Give(s) \/ Announce(s)
  \/ RunNext
  \/ Return
  \/ Finish

Safety == Init /\ [][Next]_vars

\* An announcement that has begun runs what it has to run and ends.
Spec == Safety /\ WF_vars(RunNext \/ Return \/ Finish)
=============================================================================
