----------------------------- MODULE MCTermSig -----------------------------
(* Two threads and three of the seven signals.                              *)
EXTENDS TermSig

MCSignals == <<"SIGHUP", "SIGINT", "SIGTERM">>
=============================================================================
