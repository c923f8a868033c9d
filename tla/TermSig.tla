------------------------------ MODULE TermSig ------------------------------
(***************************************************************************)
(* termSig.c: termSigRegistrar replaces the handlers of seven signals;     *)
(* termSigHandler puts the old ones back, calls epicsExitCallAtExits and   *)
(* sends the signal again.  Signals can arrive between any two of these    *)
(* calls, in any thread.                                                   *)
(*                                                                         *)
(* External (kernel and EPICS base): delivery of signals, their default    *)
(* action, blocking of a signal while its handler runs, and                *)
(* epicsExitCallAtExits, which runs the exit handlers in the first thread  *)
(* that calls it and returns at once to all later callers.                 *)
(***************************************************************************)
EXTENDS Integers, Sequences

CONSTANTS
  Thread, main,     \* main is the thread that runs termSigRegistrar
  Signals,          \* the signals, in the order the code goes through them
  MaxSent           \* bound on the signals sent from outside

N == Len(Signals)
Signal == {Signals[k] : k \in 1..N}

ASSUME TermSigAssumption ==
  /\ main \in Thread
  /\ Signals \in Seq(STRING)
  /\ \A j, k \in 1..N : Signals[j] = Signals[k] => j = k
  /\ MaxSent \in Nat

Disposition == {"default", "ignore", "termSigHandler"}

VARIABLES
  original,    \* the dispositions the process was started with
  sigact,      \* the current ones
  old,         \* old_handler_...: zero, which is "default", until they are saved
  installed,   \* sigaction calls of termSigRegistrar that are done
  frames,      \* thread -> its active calls of termSigHandler, innermost last
  pending,     \* signals sent to the process
  raised,      \* thread -> signals raised to the thread
  exits,       \* the exit handlers: "idle", "running", "done"
  leaving,     \* main is in epicsExit: "no", "handlers", "exit"
  death,       \* "no", "signal", "exit"
  sent,        \* history: number of signals sent
  early        \* history: one was sent before termSigRegistrar was through

sigVars == <<original, sigact, old, installed>>
vars == <<sigVars, frames, pending, raised, exits, leaving, death, sent, early>>

\* What a frame does next: restore Signals[pc], or one of these
CallExits == N + 1
InExits == N + 2
Raise == N + 3
Return == N + 4

Init ==
  /\ original \in [Signal -> {"default", "ignore"}]
  /\ sigact = original
  /\ old = [s \in Signal |-> "default"]
  /\ installed = 0
  /\ frames = [t \in Thread |-> <<>>]
  /\ pending = {}
  /\ raised = [t \in Thread |-> {}]
  /\ exits = "idle"
  /\ leaving = "no"
  /\ death = "no"
  /\ sent = 0
  /\ early = FALSE

Alive == death = "no"
Undisturbed(t) == Alive /\ frames[t] = <<>>

\* Mutant: the old handler is read after the new one is installed.
InstallThenSave ==
  /\ Undisturbed(main) /\ leaving = "no"
  /\ installed < N
  /\ LET s == Signals[installed + 1] IN
       /\ sigact' = [sigact EXCEPT ![s] = "termSigHandler"]
       /\ old' = [old EXCEPT ![s] = sigact'[s]]
  /\ installed' = installed + 1
  /\ UNCHANGED <<original, frames, pending, raised, exits, leaving, death, sent, early>>

\* termSigRegistrar, one sigaction after the other
Install ==
  /\ Undisturbed(main) /\ leaving = "no"
  /\ installed < N
  /\ LET s == Signals[installed + 1] IN
       /\ old' = [old EXCEPT ![s] = sigact[s]]
       /\ sigact' = [sigact EXCEPT ![s] = "termSigHandler"]
  /\ installed' = installed + 1
  /\ UNCHANGED <<original, frames, pending, raised, exits, leaving, death, sent, early>>

\* External: another process, a timer, a terminal
Send(s) ==
  /\ Alive
  /\ sent < MaxSent
  /\ sent' = sent + 1
  /\ early' = (early \/ installed < N)
  /\ pending' = pending \cup {s}
  /\ UNCHANGED <<sigVars, frames, raised, exits, leaving, death>>

Blocked(t, s) == \E k \in 1..Len(frames[t]) : frames[t][k].sig = s

\* External: the kernel delivers s to t.
Deliver(t, s) ==
  /\ Alive
  /\ ~Blocked(t, s)
  /\ \/ /\ s \in raised[t]
        /\ raised' = [raised EXCEPT ![t] = @ \ {s}]
        /\ UNCHANGED pending
     \/ /\ s \in pending
        /\ pending' = pending \ {s}
        /\ UNCHANGED raised
  /\ death' = IF sigact[s] = "default" THEN "signal" ELSE "no"
  /\ frames' = IF sigact[s] = "termSigHandler"
               THEN [frames EXCEPT ![t] = Append(@, [sig |-> s, pc |-> 1])]
               ELSE frames
  /\ UNCHANGED <<sigVars, exits, leaving, sent, early>>

Top(t) == frames[t][Len(frames[t])]

\* The innermost call of termSigHandler in t is at pc and goes on to next.
Goes(t, pc, next) ==
  /\ Alive
  /\ frames[t] # <<>>
  /\ Top(t).pc = pc
  /\ frames' = [frames EXCEPT ![t][Len(frames[t])].pc = next]

\* Mutant: the handler of its own signal stays installed.
RestoreOthers(t) ==
  /\ \E k \in 1..N :
       /\ Goes(t, k, k + 1)
       /\ sigact' = IF Signals[k] = Top(t).sig THEN sigact
                    ELSE [sigact EXCEPT ![Signals[k]] = old[Signals[k]]]
  /\ UNCHANGED <<original, old, installed, pending, raised, exits, leaving, death, sent, early>>

Restore(t) ==
  /\ \E k \in 1..N :
       /\ Goes(t, k, k + 1)
       /\ sigact' = [sigact EXCEPT ![Signals[k]] = old[Signals[k]]]
  /\ UNCHANGED <<original, old, installed, pending, raised, exits, leaving, death, sent, early>>

\* Mutant: the exit handlers are started in a thread of their own.
ExitsInBackground(t) ==
  /\ Goes(t, CallExits, Raise)
  /\ exits' = IF exits = "idle" THEN "running" ELSE exits
  /\ UNCHANGED <<sigVars, pending, raised, leaving, death, sent, early>>

EpicsExitCallAtExits(t) ==
  /\ \/ exits = "idle" /\ Goes(t, CallExits, InExits) /\ exits' = "running"
     \/ exits # "idle" /\ Goes(t, CallExits, Raise) /\ UNCHANGED exits
  /\ UNCHANGED <<sigVars, pending, raised, leaving, death, sent, early>>

ExitsReturn(t) ==
  /\ Goes(t, InExits, Raise)
  /\ exits' = "done"
  /\ UNCHANGED <<sigVars, pending, raised, leaving, death, sent, early>>

\* Mutant: the signal is not sent again.
RaiseNothing(t) ==
  /\ Goes(t, Raise, Return)
  /\ UNCHANGED <<sigVars, raised, pending, exits, leaving, death, sent, early>>

\* raise sends to the calling thread, which still blocks the signal.
RaiseAgain(t) ==
  /\ Goes(t, Raise, Return)
  /\ raised' = [raised EXCEPT ![t] = @ \cup {Top(t).sig}]
  /\ UNCHANGED <<sigVars, pending, exits, leaving, death, sent, early>>

ReturnFrom(t) ==
  /\ Alive
  /\ frames[t] # <<>>
  /\ Top(t).pc = Return
  /\ frames' = [frames EXCEPT ![t] = SubSeq(@, 1, Len(@) - 1)]
  /\ UNCHANGED <<sigVars, pending, raised, exits, leaving, death, sent, early>>

Handler(t) ==
  Restore(t) \/ EpicsExitCallAtExits(t) \/ ExitsReturn(t) \/ RaiseAgain(t) \/ ReturnFrom(t)

\* External: the shell ends and main calls epicsExit: exit handlers, exit().
EpicsExit ==
  /\ Undisturbed(main) /\ installed = N
  /\ \/ /\ leaving = "no"
        /\ IF exits = "idle" THEN leaving' = "handlers" /\ exits' = "running"
                             ELSE leaving' = "exit" /\ UNCHANGED exits
        /\ UNCHANGED death
     \/ /\ leaving = "handlers"
        /\ leaving' = "exit" /\ exits' = "done"
        /\ UNCHANGED death
     \/ /\ leaving = "exit"
        /\ death' = "exit"
        /\ UNCHANGED <<leaving, exits>>
  /\ UNCHANGED <<sigVars, frames, pending, raised, sent, early>>

Next ==
  \/ Install
  \/ EpicsExit
  \/ \E s \in Signal : Send(s)
  \/ \E t \in Thread : Handler(t) \/ \E s \in Signal : Deliver(t, s)

\* Threads run, exit handlers return and the kernel delivers what it can.
Spec ==
  /\ Init /\ [][Next]_vars
  /\ \A t \in Thread : WF_vars(Handler(t)) /\ \A s \in Signal : WF_vars(Deliver(t, s))

-----------------------------------------------------------------------------
(* Properties.                                                             *)

\* Types.  In particular termSigHandler is never among the saved dispositions.
TypeOK ==
  /\ original \in [Signal -> {"default", "ignore"}]
  /\ sigact \in [Signal -> Disposition]
  /\ old \in [Signal -> {"default", "ignore"}]
  /\ installed \in 0..N
  /\ \A t \in Thread : \A k \in 1..Len(frames[t]) :
       frames[t][k] \in [sig : Signal, pc : 1..Return]
  /\ pending \subseteq Signal
  /\ raised \in [Thread -> SUBSET Signal]
  /\ exits \in {"idle", "running", "done"}
  /\ leaving \in {"no", "handlers", "exit"}
  /\ death \in {"no", "signal", "exit"}
  /\ sent \in 0..MaxSent
  /\ early \in BOOLEAN

\* "call epicsExitCallAtExits() even when ioc terminates with a signal": when
\* a single signal, sent after termSigRegistrar, ends the process, all exit
\* handlers have returned, whichever thread it interrupts, also when main is
\* about to call epicsExit or is past its exit handlers.  One case is excepted:
\* a signal that comes while main runs the exit handlers in epicsExit.  Then
\* epicsExitCallAtExits (termSig.c:56) returns at once and the signal that is
\* raised again ends the process with the handlers half run.
OneSignalIsClean ==
  death = "signal" /\ sent = 1 /\ ~early => exits = "done" \/ leaving = "handlers"

\* termSigHandler restores what termSigRegistrar found: once a call of it
\* is past its last sigaction all signals have the dispositions the process
\* was started with, also when calls in several threads overlap.
OriginalsRestored ==
  ~early /\ (\E t \in Thread : frames[t] # <<>> /\ Top(t).pc > N) =>
    sigact = original

\* termSigHandler does not keep the process from dying: a signal with the
\* default action, sent to it, ends it.
SignalTerminates ==
  \A s \in Signal : (s \in pending /\ original[s] = "default") ~> ~Alive

\* "make sure that exit handlers are called even at signal termination"
\* (termSig.c:73), once the handlers are installed.
ExitHandlersCalled == death = "signal" /\ ~early => exits # "idle"
=============================================================================
