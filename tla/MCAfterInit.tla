---------------------------- MODULE MCAfterInit ----------------------------
(***************************************************************************)
(* A small instance of AfterInit: short lifecycle calls that still contain *)
(* a normal stage, a stage announced twice, the stages with and without    *)
(* interruptAccept, and shutdown stages.                                   *)
(***************************************************************************)
EXTENDS AfterInit

Ann(s, a) == [stage |-> s, accept |-> a]

MCAgenda ==
  [op \in LifecycleOp |->
     CASE op = "iocInit" -> <<Ann(AtBeginning, FALSE), Ann(AfterIocRunning, TRUE)>>
       [] op = "iocPause" -> <<Ann(AtIocPause, TRUE), Ann(20, FALSE)>>
       [] op = "iocRun" -> <<Ann(AfterIocRunning, TRUE)>>
       [] op = "iocShutdown" -> <<Ann(21, TRUE), Ann(27, FALSE)>>]

\* IocPause; IocPaused for AfterIocPaused; Shutdown, which is not AfterShutdown;
\* and AfterIocPause, which does not exist
MCHooks == {HookName(FALSE, "IocPause"), HookName(FALSE, "IocPaused"),
            HookName(FALSE, "Shutdown"), HookName(TRUE, "IocPause")}

MCWords == {"c"}
MCWordsOrNone == {"c", NoCommand}

=============================================================================
