------------------------------ MODULE MCMenus ------------------------------
(* A small instance of Menus: rates in tenths of a second.                  *)
EXTENDS Menus

Ann(s, a) == [stage |-> s, accept |-> a]

MCAgenda ==
  [op \in LifecycleOp |->
     CASE op = "iocInit" -> <<Ann(AfterFinishDevSup, FALSE), Ann(AfterCaServerInit, TRUE)>>
       [] op = "iocPause" -> <<Ann(20, FALSE)>>
       [] op = "iocRun" -> <<Ann(AfterIocRunning, TRUE)>>
       [] op = "iocShutdown" -> <<Ann(21, FALSE)>>]

\* A waveform with two arrays of characters and one of doubles; the field of
\* a type without support does not count.
Array(type, elements, prset) == [type |-> type, elements |-> elements, prset |-> prset]
MCArrays == [r \in Records |-> {Array("char", 0, TRUE), Array("char", 9, TRUE),
                                Array("double", 3, TRUE), Array("double", 99, FALSE)}]
MCCtrlSize == [type \in {"char", "double"} |-> IF type = "char" THEN 22 ELSE 88]
MCValueSize == [type \in {"char", "double"} |-> IF type = "char" THEN 1 ELSE 8]

MCInitialRates == <<100, 20>>

Number(r) == [scanned |-> r, kept |-> r]

\* 5, 2, 0x10, nan, 0 and "fast"
MCArgs == {Number(50), Number(20), [scanned |-> 160, kept |-> 0], Number(NaN),
           Number(0), [scanned |-> NoNumber, kept |-> 0]}

MCConvert == <<"NO CONVERSION", "typeKdegF">>
=============================================================================
