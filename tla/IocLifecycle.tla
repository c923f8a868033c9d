---------------------------- MODULE IocLifecycle ----------------------------
(***************************************************************************)
(* EPICS base as the utilities see it (external: modelled from how src/    *)
(* uses it).  iocInit, iocPause, iocRun and iocShutdown each announce a    *)
(* sequence of init hooks to the functions registered with                 *)
(* initHookRegister; on the way they set and clear interruptAccept, the    *)
(* flag addScan.c, afterInit.c and updateMenuConvert.c take for "iocInit   *)
(* has been called".                                                       *)
(***************************************************************************)
EXTENDS Integers, Sequences

CONSTANT
  Agenda    \* the stages each lifecycle call announces, in order, each with
            \* the value interruptAccept has while it is announced

\* enum initHookState of initHooks.h (EPICS base 7.0.3.1 and later)
Stage == 0..29
AtBeginning == 1
AfterIocRunning == 16
AtIocPause == 17
AfterInterruptAccept == 28

LifecycleOp == {"iocInit", "iocPause", "iocRun", "iocShutdown"}
Announcement == [stage : Stage, accept : BOOLEAN]

ASSUME AgendaAssumption == Agenda \in [LifecycleOp -> Seq(Announcement)]

IocState == {"void", "running", "paused", "stopped"}

VARIABLES
  iocState,         \* what the lifecycle calls check before they start
  agenda,           \* announcements the current lifecycle call has left
  interruptAccept

iocVars == <<iocState, agenda, interruptAccept>>

IocTypeOK ==
  /\ iocState \in IocState
  /\ agenda \in Seq(Announcement)
  /\ interruptAccept \in BOOLEAN

IocInit ==
  /\ iocState = "void"
  /\ agenda = <<>>
  /\ interruptAccept = FALSE

IocCall(op, from, to) ==
  /\ agenda = <<>>
  /\ iocState \in from
  /\ iocState' = to
  /\ agenda' = Agenda[op]
  /\ UNCHANGED interruptAccept

IocLifecycleCall ==
  \/ IocCall("iocInit", {"void", "stopped"}, "running")
  \/ IocCall("iocPause", {"running"}, "paused")
  \/ IocCall("iocRun", {"paused"}, "running")
  \/ IocCall("iocShutdown", {"running", "paused"}, "stopped")

\* Base reaches the next announcement; its listeners are called with `stage`.
IocAnnounce(stage) ==
  /\ agenda # <<>>
  /\ stage = Head(agenda).stage
  /\ interruptAccept' = Head(agenda).accept
  /\ agenda' = Tail(agenda)
  /\ UNCHANGED iocState
=============================================================================
