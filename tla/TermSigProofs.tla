--------------------------- MODULE TermSigProofs ---------------------------
(***************************************************************************)
(* termSig.c for any threads, any list of signals and any number of them   *)
(* sent: what the handlers restore, and that one signal is a clean exit.   *)
(***************************************************************************)
EXTENDS TermSig, SequenceTheorems, TLAPS

FrameType == [sig : Signal, pc : 1..Return]

\* TypeOK, with the calls as sequences
TermSigType ==
  /\ frames \in [Thread -> Seq(FrameType)]
  /\ original \in [Signal -> {"default", "ignore"}]
  /\ sigact \in [Signal -> Disposition]
  /\ old \in [Signal -> {"default", "ignore"}]
  /\ installed \in 0..N
  /\ pending \subseteq Signal
  /\ raised \in [Thread -> SUBSET Signal]
  /\ exits \in {"idle", "running", "done"}
  /\ leaving \in {"no", "handlers", "exit"}
  /\ death \in {"no", "signal", "exit"}
  /\ sent \in 0..MaxSent
  /\ early \in BOOLEAN
  /\ \A k \in (installed + 1)..N : sigact[Signals[k]] # "termSigHandler"

-----------------------------------------------------------------------------
(* Types.                                                                  *)

\* The signals of the list are signals.
LEMMA SignalsOfList ==
  /\ N \in Nat
  /\ \A k \in 1..N : Signals[k] \in Signal
BY TermSigAssumption DEF N, Signal

\* What holds of every place of the list holds of every signal.
LEMMA SignalIsListed == \A s \in Signal : \E k \in 1..N : Signals[k] = s
BY DEF Signal

\* The types with sequences are those TLC checks.
LEMMA TypeOKHolds == TermSigType => TypeOK
<1> SUFFICES ASSUME TermSigType, NEW t \in Thread, NEW k \in 1..Len(frames[t])
             PROVE  frames[t][k] \in [sig : Signal, pc : 1..Return]
  BY DEF TermSigType, TypeOK
<1>1. frames[t][k] \in FrameType
  BY DEF TermSigType
<1> QED BY <1>1 DEF FrameType

\* One step of a call of termSigHandler changes the innermost frame of its
\* thread and nothing else.
LEMMA GoesChanges ==
  ASSUME TermSigType, NEW t \in Thread, NEW pc \in 1..Return, NEW next \in 1..Return,
         Goes(t, pc, next)
  PROVE  /\ frames' \in [Thread -> Seq(FrameType)]
         /\ frames[t] # <<>> /\ Len(frames[t]) \in Nat \ {0}
         /\ Top(t) \in FrameType /\ Top(t).pc = pc
         /\ \A u \in Thread : Len(frames'[u]) = Len(frames[u])
         /\ \A u \in Thread : \A k \in 1..Len(frames[u]) :
              /\ frames'[u][k].sig = frames[u][k].sig
              /\ frames'[u][k].pc =
                   IF u = t /\ k = Len(frames[t]) THEN next ELSE frames[u][k].pc
<1> DEFINE n == Len(frames[t])
<1>1. frames[t] \in Seq(FrameType) /\ frames[t] # <<>> /\ n \in Nat \ {0} /\ n \in 1..n
  BY DEF Goes, TermSigType
<1>2. Top(t) \in FrameType /\ Top(t).pc = pc
  BY <1>1 DEF Goes, Top
<1> DEFINE new == [frames[t][n] EXCEPT !.pc = next]
           seq == [frames[t] EXCEPT ![n] = new]
<1>3. frames' = [frames EXCEPT ![t] = seq]
  BY <1>1 DEF Goes
<1>4. new \in FrameType /\ new.sig = frames[t][n].sig /\ new.pc = next
  <2>1. frames[t][n] \in FrameType
    BY <1>1
  <2> QED BY <2>1 DEF FrameType, Return
<1>5. seq \in Seq(FrameType) /\ Len(seq) = n /\ \A k \in 1..n : seq[k] = IF k = n THEN new ELSE frames[t][k]
  <2> HIDE DEF new
  <2> QED BY <1>1, <1>4
<1>6. frames \in [Thread -> Seq(FrameType)]
  BY DEF TermSigType
<1>7. /\ frames' \in [Thread -> Seq(FrameType)]
      /\ \A u \in Thread : frames'[u] = IF u = t THEN seq ELSE frames[u]
  <2> HIDE DEF seq
  <2> QED BY <1>3, <1>5, <1>6
<1> HIDE DEF seq, new
<1>8. \A u \in Thread : Len(frames'[u]) = Len(frames[u])
  BY <1>5, <1>7
<1>9. ASSUME NEW u \in Thread, NEW k \in 1..Len(frames[u])
      PROVE  /\ frames'[u][k].sig = frames[u][k].sig
             /\ frames'[u][k].pc = IF u = t /\ k = Len(frames[t]) THEN next ELSE frames[u][k].pc
  BY <1>4, <1>5, <1>7
<1> QED BY <1>1, <1>2, <1>7, <1>8, <1>9

\* A signal that is delivered to its handler makes a new innermost frame.
LEMMA DeliverChanges ==
  ASSUME TermSigType, NEW t \in Thread, NEW s \in Signal, Deliver(t, s)
  PROVE  /\ frames' \in [Thread -> Seq(FrameType)]
         /\ \A u \in Thread : \A k \in 1..Len(frames[u]) : frames'[u][k] = frames[u][k]
         /\ \A u \in Thread :
              IF u = t /\ sigact[s] = "termSigHandler"
              THEN Len(frames'[u]) = Len(frames[u]) + 1
                   /\ frames'[u][Len(frames[u]) + 1] = [sig |-> s, pc |-> 1]
              ELSE frames'[u] = frames[u]
<1> DEFINE new == [sig |-> s, pc |-> 1]
<1>1. new \in FrameType
  BY SignalsOfList DEF FrameType, Return
<1>2. frames \in [Thread -> Seq(FrameType)] /\ frames[t] \in Seq(FrameType)
  BY DEF TermSigType
<1>3. frames' = IF sigact[s] = "termSigHandler"
                THEN [frames EXCEPT ![t] = Append(frames[t], new)] ELSE frames
  BY <1>2 DEF Deliver
<1> HIDE DEF new
<1>4. /\ Append(frames[t], new) \in Seq(FrameType)
      /\ Len(Append(frames[t], new)) = Len(frames[t]) + 1
      /\ \A k \in 1..Len(frames[t]) : Append(frames[t], new)[k] = frames[t][k]
      /\ Append(frames[t], new)[Len(frames[t]) + 1] = new
  <2> DEFINE seq == frames[t]
  <2>1. seq \in Seq(FrameType)
    BY <1>2
  <2> HIDE DEF seq
  <2>2. Len(seq) \in Nat
    BY <2>1
  <2>3. Append(seq, new) \in Seq(FrameType) /\ Len(Append(seq, new)) = Len(seq) + 1
    BY <1>1, <2>1
  <2>4. \A k \in 1..Len(seq) : Append(seq, new)[k] = seq[k]
    BY <1>1, <2>1, <2>2
  <2>5. Append(seq, new)[Len(seq) + 1] = new
    BY <1>1, <2>1, <2>2
  <2> QED BY <2>3, <2>4, <2>5 DEF seq
<1>5. CASE sigact[s] = "termSigHandler"
  BY <1>2, <1>3, <1>4, <1>5 DEF new
<1>6. CASE sigact[s] # "termSigHandler"
  BY <1>2, <1>3, <1>6
<1> QED BY <1>5, <1>6

\* A call that returns leaves the frames around it.
LEMMA ReturnChanges ==
  ASSUME TermSigType, NEW t \in Thread, ReturnFrom(t)
  PROVE  /\ frames' \in [Thread -> Seq(FrameType)]
         /\ frames[t] # <<>> /\ Len(frames[t]) \in Nat \ {0} /\ Top(t).pc = Return
         /\ Len(frames'[t]) = Len(frames[t]) - 1
         /\ \A k \in 1..(Len(frames[t]) - 1) : frames'[t][k] = frames[t][k]
         /\ \A u \in Thread \ {t} : frames'[u] = frames[u]
<1>1. frames \in [Thread -> Seq(FrameType)] /\ frames[t] \in Seq(FrameType) /\ frames[t] # <<>>
  BY DEF TermSigType, ReturnFrom
<1> DEFINE n == Len(frames[t])
           seq == SubSeq(frames[t], 1, n - 1)
<1>2. n \in Nat \ {0}
  BY <1>1
<1>3. seq \in Seq(FrameType) /\ Len(seq) = n - 1 /\ \A k \in 1..(n - 1) : seq[k] = frames[t][k]
  <2>1. \A k \in 1..(n - 1) : frames[t][k] \in FrameType
    BY <1>1
  <2> QED BY <1>2, <2>1, SubSeqProperties
<1>4. frames' = [frames EXCEPT ![t] = seq]
  BY <1>1 DEF ReturnFrom
<1> HIDE DEF seq
<1> QED BY <1>1, <1>2, <1>3, <1>4 DEF ReturnFrom

\* All variables keep their types.
LEMMA TypesHold == Spec => []TermSigType
<1> USE SignalsOfList, TermSigAssumption
<1>1. Init => TermSigType
  <2> SUFFICES ASSUME Init PROVE TermSigType
    OBVIOUS
  <2>1. frames \in [Thread -> Seq(FrameType)] /\ \A t \in Thread : Len(frames[t]) = 0
    BY DEF Init
  <2>3. sigact \in [Signal -> Disposition] /\ old \in [Signal -> {"default", "ignore"}]
    BY DEF Init, Disposition
  <2>4. \A k \in 1..N : sigact[Signals[k]] \in {"default", "ignore"}
    BY DEF Init
  <2>5. raised \in [Thread -> SUBSET Signal] /\ installed \in 0..N /\ sent \in 0..MaxSent
    BY DEF Init
  <2>6. \A k \in (installed + 1)..N : sigact[Signals[k]] # "termSigHandler"
    BY <2>4 DEF Init
  <2> QED BY <2>1, <2>3, <2>5, <2>6 DEF Init, TermSigType
<1>2. TermSigType /\ [Next]_vars => TermSigType'
  <2> SUFFICES ASSUME TermSigType, [Next]_vars PROVE TermSigType'
    OBVIOUS
  <2>2. CASE Install
    <3>1. installed + 1 \in 1..N /\ Signals[installed + 1] \in Signal
      BY <2>2 DEF Install, TermSigType
    <3>2. sigact[Signals[installed + 1]] \in {"default", "ignore"}
      BY <3>1 DEF TermSigType, Disposition
    <3> DEFINE s == Signals[installed + 1]
    <3>3. old' = [old EXCEPT ![s] = sigact[s]] /\ sigact' = [sigact EXCEPT ![s] = "termSigHandler"]
      BY <2>2 DEF Install
    <3>4. \A k \in (installed + 2)..N : Signals[k] # s /\ Signals[k] \in Signal
      BY <3>1 DEF TermSigType
    <3>5. installed' = installed + 1
      BY <2>2 DEF Install
    <3>6. old' \in [Signal -> {"default", "ignore"}] /\ sigact' \in [Signal -> Disposition]
      BY <3>1, <3>2, <3>3 DEF TermSigType, Disposition
    <3>7. \A k \in (installed' + 1)..N : sigact'[Signals[k]] # "termSigHandler"
      BY <3>1, <3>3, <3>4, <3>5 DEF TermSigType
    <3> QED BY <2>2, <3>1, <3>5, <3>6, <3>7 DEF Install, TermSigType
  <2>3. CASE EpicsExit
    BY <2>3 DEF EpicsExit, TermSigType, sigVars
  <2>4. ASSUME NEW s \in Signal, Send(s)
        PROVE  TermSigType'
    BY <2>4 DEF Send, TermSigType, sigVars
  <2>5. ASSUME NEW t \in Thread, NEW s \in Signal, Deliver(t, s)
        PROVE  TermSigType'
    <3>1. frames' \in [Thread -> Seq(FrameType)]
      BY <2>5, DeliverChanges
    <3>2. raised' \in [Thread -> SUBSET Signal] /\ pending' \subseteq Signal
      <4>1. raised' = raised \/ raised' = [raised EXCEPT ![t] = raised[t] \ {s}]
        BY <2>5 DEF Deliver, TermSigType
      <4>2. pending' \subseteq pending
        BY <2>5 DEF Deliver
      <4> QED BY <4>1, <4>2 DEF TermSigType
    <3>3. death' \in {"no", "signal"}
      BY <2>5 DEF Deliver
    <3> QED BY <2>5, <3>1, <3>2, <3>3 DEF Deliver, TermSigType, sigVars
  <2>6. ASSUME NEW t \in Thread, Restore(t)
        PROVE  TermSigType'
    <3>1. PICK k \in 1..N : /\ Goes(t, k, k + 1)
                            /\ sigact' = [sigact EXCEPT ![Signals[k]] = old[Signals[k]]]
      BY <2>6 DEF Restore
    <3>2. frames' \in [Thread -> Seq(FrameType)]
      <4>1. k \in 1..Return /\ k + 1 \in 1..Return
        BY DEF Return
      <4> QED BY <3>1, <4>1, GoesChanges
    <3>3. old[Signals[k]] \in Disposition
      BY DEF TermSigType, Disposition
    <3>4. sigact' \in [Signal -> Disposition]
      BY <3>1, <3>3 DEF TermSigType
    <3>5. \A j \in (installed + 1)..N : sigact'[Signals[j]] # "termSigHandler"
      BY <3>1 DEF TermSigType
    <3> QED BY <2>6, <3>2, <3>4, <3>5 DEF Restore, TermSigType
  <2>7. ASSUME NEW t \in Thread, EpicsExitCallAtExits(t)
        PROVE  TermSigType'
    <3>1. frames' \in [Thread -> Seq(FrameType)]
      BY <2>7, GoesChanges DEF EpicsExitCallAtExits, CallExits, InExits, Raise, Return
    <3> QED BY <2>7, <3>1 DEF EpicsExitCallAtExits, TermSigType, sigVars
  <2>8. ASSUME NEW t \in Thread, ExitsReturn(t)
        PROVE  TermSigType'
    <3>1. frames' \in [Thread -> Seq(FrameType)]
      BY <2>8, GoesChanges DEF ExitsReturn, InExits, Raise, Return
    <3> QED BY <2>8, <3>1 DEF ExitsReturn, TermSigType, sigVars
  <2>9. ASSUME NEW t \in Thread, RaiseAgain(t)
        PROVE  TermSigType'
    <3>1. frames' \in [Thread -> Seq(FrameType)] /\ Top(t) \in FrameType
      BY <2>9, GoesChanges DEF RaiseAgain, Raise, Return
    <3>2. Top(t).sig \in Signal
      BY <3>1 DEF FrameType
    <3> QED BY <2>9, <3>1, <3>2 DEF RaiseAgain, TermSigType, sigVars
  <2>10. ASSUME NEW t \in Thread, ReturnFrom(t)
         PROVE  TermSigType'
    BY <2>10, ReturnChanges DEF ReturnFrom, TermSigType, sigVars
  <2>11. CASE UNCHANGED vars
    BY <2>11 DEF vars, sigVars, TermSigType
  <2> QED
    BY <2>2, <2>3, <2>4, <2>5, <2>6, <2>7, <2>8, <2>9, <2>10, <2>11 DEF Next, Handler
<1> QED BY <1>1, <1>2, PTL DEF Spec

-----------------------------------------------------------------------------
(* The inductive invariant.                                                *)

\* Undisturbed by a signal before termSigRegistrar was through: there is no
\* signal yet, what is saved is what the process was started with, and a
\* signal has the new handler or, once restored, its old action.
SavedInv ==
  ~early =>
    /\ installed < N => pending = {} /\ \A t \in Thread : raised[t] = {} /\ frames[t] = <<>>
    /\ \A k \in 1..N :
         IF k <= installed
         THEN /\ old[Signals[k]] = original[Signals[k]]
              /\ sigact[Signals[k]] \in {"termSigHandler", original[Signals[k]]}
         ELSE sigact[Signals[k]] = original[Signals[k]]

\* Every active call has restored the signals it is past.
RestoredInv ==
  ~early =>
    \A t \in Thread : \A k \in 1..Len(frames[t]) : \A j \in 1..N :
      j < frames[t][k].pc => sigact[Signals[j]] = original[Signals[j]]

\* The exit handlers, when a call of the handler is at pc, or none has begun
\* (1), or it has returned (Return): main runs them, or has run them, in
\* epicsExit, or else the call does.
ExitsAt(pc) ==
  CASE leaving = "handlers" -> exits = "running" /\ pc # InExits
    [] leaving # "handlers" /\ pc = InExits -> exits = "running"
    [] leaving # "handlers" /\ pc > InExits -> exits = "done"
    [] OTHER -> exits = IF leaving = "no" THEN "idle" ELSE "done"

\* The one signal has not been delivered ...
Fresh ==
  /\ \A t \in Thread : frames[t] = <<>> /\ raised[t] = {}
  /\ ExitsAt(1) /\ death = "no"
  /\ \A k \in 1..installed : sigact[Signals[k]] = "termSigHandler"
  /\ pending # {} => sent = 1 /\ \E s \in Signal : pending = {s}

\* ... its handler runs in t ...
Handling(t) ==
  LET f == frames[t][1] IN
    /\ Len(frames[t]) = 1
    /\ raised[t] = IF f.pc = Return THEN {f.sig} ELSE {}
    /\ ExitsAt(f.pc)
    /\ \A u \in Thread \ {t} : frames[u] = <<>> /\ raised[u] = {}

InHandler == sent = 1 /\ pending = {} /\ death = "no" /\ \E t \in Thread : Handling(t)

\* ... or the handler has returned.
Handled ==
  /\ installed = N /\ sent = 1 /\ pending = {} /\ ExitsAt(Return) /\ death # "exit"
  /\ \A t \in Thread : frames[t] = <<>>
  /\ \A k \in 1..N : sigact[Signals[k]] = original[Signals[k]]

\* main may have come to exit() at any time.
OneSignal == ~early /\ sent <= 1 => Fresh \/ InHandler \/ Handled \/ death = "exit"

TermSigInv == TermSigType /\ SavedInv /\ RestoredInv /\ OneSignal

\* A call of the handler is active only when all handlers are installed.
LEMMA ActiveWhenInstalled ==
  ASSUME TermSigType, SavedInv, ~early, NEW t \in Thread,
         frames[t] # <<>> \/ raised[t] # {} \/ pending # {}
  PROVE  installed = N
BY SignalsOfList DEF TermSigType, SavedInv

\* The steps of a call of the handler in t
LEMMA HandlerGoes ==
  ASSUME TermSigType, NEW t \in Thread, Handler(t)
  PROVE  frames[t] # <<>> /\ UNCHANGED <<original, old, installed, leaving, death, sent, early, pending>>
BY DEF Handler, Restore, EpicsExitCallAtExits, ExitsReturn, RaiseAgain, ReturnFrom, Goes, sigVars

\* Restore puts back what was saved of one signal.
LEMMA RestoreChanges ==
  ASSUME TermSigType, SavedInv, ~early, NEW t \in Thread, Restore(t)
  PROVE  \E k \in 1..N :
           /\ Goes(t, k, k + 1)
           /\ sigact'[Signals[k]] = original[Signals[k]]
           /\ \A j \in 1..N : j # k => sigact'[Signals[j]] = sigact[Signals[j]]
<1> USE SignalsOfList, TermSigAssumption
<1>1. PICK k \in 1..N : /\ Goes(t, k, k + 1)
                        /\ sigact' = [sigact EXCEPT ![Signals[k]] = old[Signals[k]]]
  BY DEF Restore
<1>2. frames[t] # <<>>
  BY <1>1 DEF Goes
<1>3. k <= installed
  BY <1>2, ActiveWhenInstalled
<1>4. old[Signals[k]] = original[Signals[k]]
  BY <1>3 DEF SavedInv
<1>5. \A j \in 1..N : j # k => Signals[j] # Signals[k] /\ Signals[j] \in Signal
  OBVIOUS
<1>6. sigact \in [Signal -> Disposition] /\ Signals[k] \in Signal
  BY DEF TermSigType
<1> QED BY <1>1, <1>4, <1>5, <1>6

\* What is saved stays what the process was started with.
LEMMA SavedKept ==
  ASSUME TermSigType, SavedInv, [Next]_vars
  PROVE  SavedInv'
<1> USE SignalsOfList, TermSigAssumption
<1> SUFFICES ASSUME ~early' PROVE SavedInv'
  BY DEF SavedInv
<1>1. CASE Install
  <2> DEFINE s == Signals[installed + 1]
  <2>1. ~early /\ installed < N /\ installed + 1 \in 1..N /\ installed' = installed + 1
    BY <1>1 DEF Install, TermSigType
  <2>2. pending = {} /\ \A t \in Thread : raised[t] = {} /\ frames[t] = <<>>
    BY <2>1 DEF SavedInv
  <2>3. old' = [old EXCEPT ![s] = sigact[s]] /\ sigact' = [sigact EXCEPT ![s] = "termSigHandler"]
    BY <1>1 DEF Install
  <2>4. sigact[s] = original[s] /\ s \in Signal
    <3>1. ~(installed + 1 <= installed)
      BY DEF TermSigType
    <3> QED BY <2>1, <3>1 DEF SavedInv
  <2>5. \A k \in 1..N : k # installed + 1 => Signals[k] # s /\ Signals[k] \in Signal
    BY <2>1
  <2>6. /\ old'[s] = original[s] /\ sigact'[s] = "termSigHandler"
        /\ \A k \in 1..N : k # installed + 1 => /\ old'[Signals[k]] = old[Signals[k]]
                                               /\ sigact'[Signals[k]] = sigact[Signals[k]]
    BY <2>3, <2>4, <2>5 DEF TermSigType
  <2>7. original' = original /\ pending' = pending /\ raised' = raised /\ frames' = frames
    BY <1>1 DEF Install
  <2> QED BY <2>1, <2>2, <2>6, <2>7 DEF SavedInv, TermSigType
<1>2. ASSUME NEW s \in Signal, Send(s)
      PROVE  SavedInv'
  <2>1. ~early /\ ~(installed < N)
    BY <1>2 DEF Send, TermSigType
  <2> QED BY <1>2, <2>1 DEF Send, SavedInv, sigVars
<1>3. ASSUME NEW t \in Thread, NEW s \in Signal, Deliver(t, s)
      PROVE  SavedInv'
  <2>1. ~early /\ UNCHANGED sigVars /\ (raised[t] # {} \/ pending # {})
    BY <1>3 DEF Deliver
  <2>2. installed = N
    BY <2>1, ActiveWhenInstalled
  <2> QED BY <2>1, <2>2 DEF SavedInv, sigVars
<1>4. ASSUME NEW t \in Thread, Handler(t)
      PROVE  SavedInv'
  <2>1. ~early /\ installed = N /\ UNCHANGED <<original, old, installed>>
    BY <1>4, HandlerGoes, ActiveWhenInstalled
  <2>2. CASE Restore(t)
    <3>1. PICK k \in 1..N : /\ sigact'[Signals[k]] = original[Signals[k]]
                            /\ \A j \in 1..N : j # k => sigact'[Signals[j]] = sigact[Signals[j]]
      BY <2>1, <2>2, RestoreChanges
    <3> QED BY <2>1, <3>1 DEF SavedInv
  <2>3. CASE ~Restore(t)
    <3>1. sigact' = sigact
      BY <1>4, <2>3 DEF Handler, EpicsExitCallAtExits, ExitsReturn, RaiseAgain, ReturnFrom, sigVars
    <3> QED BY <2>1, <3>1 DEF SavedInv
  <2> QED BY <2>2, <2>3
<1>5. CASE EpicsExit
  BY <1>5 DEF EpicsExit, SavedInv, sigVars
<1>6. CASE UNCHANGED vars
  BY <1>6 DEF vars, sigVars, SavedInv
<1> QED BY <1>1, <1>2, <1>3, <1>4, <1>5, <1>6 DEF Next

\* What is past stays restored.
LEMMA RestoredKept ==
  ASSUME TermSigType, SavedInv, RestoredInv, [Next]_vars
  PROVE  RestoredInv'
<1> USE SignalsOfList
<1> SUFFICES ASSUME ~early', NEW t \in Thread, NEW k \in 1..Len(frames'[t]), NEW j \in 1..N,
                    j < frames'[t][k].pc
             PROVE  sigact'[Signals[j]] = original'[Signals[j]]
  BY DEF RestoredInv
<1> DEFINE Kept == /\ k \in 1..Len(frames[t]) /\ j < frames[t][k].pc
                   /\ UNCHANGED <<sigact, original>>
<1>1. ~early
  BY DEF Next, Install, EpicsExit, Send, Deliver, Handler, Restore, EpicsExitCallAtExits,
         ExitsReturn, RaiseAgain, ReturnFrom, vars, TermSigType
<1>2. Kept => sigact'[Signals[j]] = original'[Signals[j]]
  BY <1>1 DEF RestoredInv
<1> HIDE DEF Kept
<1>3. CASE Install
  <2>1. frames[t] = <<>> /\ frames' = frames
    BY <1>1, <1>3 DEF Install, SavedInv
  <2> QED BY <2>1
<1>4. ASSUME NEW s \in Signal, Send(s)
      PROVE  Kept
  BY <1>4 DEF Send, sigVars, Kept
<1>5. ASSUME NEW u \in Thread, NEW s \in Signal, Deliver(u, s)
      PROVE  Kept
  <2>1. Len(frames[t]) \in Nat
    BY DEF TermSigType
  <2>2. k \in 1..Len(frames[t]) /\ frames'[t][k] = frames[t][k]
    <3>1. /\ \A l \in 1..Len(frames[t]) : frames'[t][l] = frames[t][l]
          /\ \/ /\ Len(frames'[t]) = Len(frames[t]) + 1
                /\ frames'[t][Len(frames[t]) + 1] = [sig |-> s, pc |-> 1]
             \/ frames'[t] = frames[t]
      BY <1>5, DeliverChanges
    <3>2. [sig |-> s, pc |-> 1].pc = 1
      OBVIOUS
    <3> QED BY <2>1, <3>1, <3>2
  <2> QED BY <1>5, <2>2 DEF Deliver, sigVars, Kept
<1>6. ASSUME NEW u \in Thread, Restore(u)
      PROVE  sigact'[Signals[j]] = original'[Signals[j]]
  <2>1. PICK i \in 1..N : /\ Goes(u, i, i + 1)
                          /\ sigact'[Signals[i]] = original[Signals[i]]
                          /\ \A l \in 1..N : l # i => sigact'[Signals[l]] = sigact[Signals[l]]
    BY <1>1, <1>6, RestoreChanges
  <2>2. i \in 1..Return /\ i + 1 \in 1..Return
    BY DEF Return
  <2>3. /\ k \in 1..Len(frames[t])
        /\ frames'[t][k].pc = IF t = u /\ k = Len(frames[u]) THEN i + 1 ELSE frames[t][k].pc
        /\ frames[u] # <<>> /\ Len(frames[u]) \in Nat \ {0} /\ Top(u).pc = i
    BY <2>1, <2>2, GoesChanges
  <2>4. t = u /\ k = Len(frames[u]) => frames[t][k].pc = i
    BY <2>3 DEF Top
  <2>5. j = i \/ j < frames[t][k].pc
    BY <2>3, <2>4
  <2>6. original' = original
    BY <1>6 DEF Restore
  <2> QED BY <1>1, <2>1, <2>3, <2>5, <2>6 DEF RestoredInv
<1>7. ASSUME NEW u \in Thread, NEW pc \in (N + 1)..Return, NEW next \in (N + 1)..Return,
             Goes(u, pc, next), UNCHANGED <<sigact, original>>
      PROVE  Kept
  <2>1. pc \in 1..Return /\ next \in 1..Return
    BY DEF Return
  <2>2. /\ k \in 1..Len(frames[t])
        /\ frames'[t][k].pc = IF t = u /\ k = Len(frames[u]) THEN next ELSE frames[t][k].pc
        /\ Len(frames[u]) \in Nat \ {0} /\ Top(u).pc = pc
    BY <1>7, <2>1, GoesChanges
  <2>3. t = u /\ k = Len(frames[u]) => frames[t][k].pc = pc
    BY <2>2 DEF Top
  <2> QED BY <1>7, <2>2, <2>3 DEF Kept
<1>8. ASSUME NEW u \in Thread, EpicsExitCallAtExits(u) \/ ExitsReturn(u) \/ RaiseAgain(u)
      PROVE  Kept
  <2>1. CallExits \in (N + 1)..Return /\ InExits \in (N + 1)..Return /\ Raise \in (N + 1)..Return
        /\ Return \in (N + 1)..Return
    BY DEF CallExits, InExits, Raise, Return
  <2> QED BY <1>7, <1>8, <2>1 DEF EpicsExitCallAtExits, ExitsReturn, RaiseAgain, sigVars
<1>9. ASSUME NEW u \in Thread, ReturnFrom(u)
      PROVE  Kept
  <2>1. k \in 1..Len(frames[t]) /\ frames'[t][k] = frames[t][k]
    BY <1>9, ReturnChanges
  <2> QED BY <1>9, <2>1 DEF ReturnFrom, sigVars, Kept
<1>10. CASE EpicsExit
  <2>1. Kept
    BY <1>10 DEF EpicsExit, sigVars, Kept
  <2> QED BY <1>2, <2>1
<1>11. CASE UNCHANGED vars
  <2>1. Kept
    BY <1>11 DEF vars, sigVars, Kept
  <2> QED BY <1>2, <2>1
<1> QED
  BY <1>2, <1>3, <1>4, <1>5, <1>6, <1>8, <1>9, <1>10, <1>11 DEF Next, Handler

\* A call of the handler whose thread has no other is the whole of Handling.
LEMMA OneSignalStep ==
  ASSUME TermSigInv, ~early, NEW t \in Thread, Handling(t), pending = {},
         NEW u \in Thread, Handler(u)
  PROVE  \/ Handling(t)'
         \/ /\ ExitsAt(Return)' /\ \A v \in Thread : frames'[v] = <<>>
            /\ \A k \in 1..N : sigact'[Signals[k]] = original'[Signals[k]]
<1> USE SignalsOfList
<1> DEFINE f == frames[t][1]
<1>1. /\ u = t /\ frames[t] # <<>> /\ Len(frames[t]) = 1 /\ Top(t) = f
      /\ f \in FrameType
      /\ \A v \in Thread \ {t} : frames[v] = <<>> /\ raised[v] = {}
  <2>1. u = t /\ frames[t] # <<>> /\ Len(frames[t]) = 1
    BY HandlerGoes DEF Handling, TermSigInv
  <2> QED BY <2>1 DEF Handling, Top, TermSigInv, TermSigType
<1>2. /\ raised[t] = IF f.pc = Return THEN {f.sig} ELSE {}
      /\ ExitsAt(f.pc)
  BY DEF Handling
<1>2a. leaving' = leaving
  BY HandlerGoes DEF TermSigInv
<1>3. f.pc \in 1..Return /\ f.sig \in Signal
  BY <1>1 DEF FrameType
<1>4. ASSUME NEW pc \in 1..Return, NEW next \in 1..Return, Goes(t, pc, next),
             ExitsAt(next)',
             raised'[t] = IF next = Return THEN {f.sig} ELSE {},
             \A v \in Thread \ {t} : raised'[v] = raised[v]
      PROVE  Handling(t)'
  <2>1. /\ frames' \in [Thread -> Seq(FrameType)]
        /\ Len(frames'[t]) = 1
        /\ frames'[t][1].sig = f.sig /\ frames'[t][1].pc = next
        /\ \A v \in Thread \ {t} : Len(frames'[v]) = Len(frames[v])
    BY <1>1, <1>4, GoesChanges DEF TermSigInv
  <2>2. \A v \in Thread \ {t} : frames'[v] = <<>>
    <3> SUFFICES ASSUME NEW v \in Thread \ {t} PROVE frames'[v] = <<>>
      OBVIOUS
    <3>1. frames'[v] \in Seq(FrameType) /\ Len(frames'[v]) = 0
      BY <1>1, <2>1
    <3> QED BY <3>1, EmptySeq
  <2> QED BY <1>1, <1>4, <2>1, <2>2 DEF Handling
<1>5. CASE Restore(t)
  <2>1. PICK k \in 1..N : Goes(t, k, k + 1)
    BY <1>5 DEF Restore
  <2>2. f.pc = k
    BY <1>1, <2>1 DEF Goes
  <2>3. k \in 1..Return /\ k + 1 \in 1..Return /\ k + 1 # Return /\ k # Return
    BY DEF Return
  <2>4. exits' = exits /\ raised' = raised
    BY <1>5 DEF Restore
  <2>5. ExitsAt(k + 1)'
    BY <1>2, <1>2a, <2>2, <2>4 DEF ExitsAt, InExits
  <2> QED BY <1>2, <1>4, <2>1, <2>2, <2>3, <2>4, <2>5
<1>6. CASE EpicsExitCallAtExits(t)
  <2>1. f.pc = CallExits
    BY <1>1, <1>6 DEF EpicsExitCallAtExits, Goes
  <2>2. f.pc # Return /\ raised' = raised
    BY <1>6, <2>1 DEF CallExits, Return, EpicsExitCallAtExits
  <2>3. CallExits \in 1..Return /\ InExits \in 1..Return /\ Raise \in 1..Return
        /\ InExits # Return /\ Raise # Return
    BY DEF CallExits, InExits, Raise, Return
  <2>4. CASE exits = "idle" /\ Goes(t, CallExits, InExits) /\ exits' = "running"
    <3>1. ExitsAt(InExits)'
      BY <1>2, <1>2a, <2>1, <2>4 DEF ExitsAt, CallExits, InExits
    <3> QED BY <1>2, <1>4, <2>2, <2>3, <2>4, <3>1
  <2>5. CASE exits # "idle" /\ Goes(t, CallExits, Raise) /\ UNCHANGED exits
    <3>1. ExitsAt(Raise)'
      BY <1>2, <1>2a, <2>1, <2>5 DEF ExitsAt, CallExits, InExits, Raise
    <3> QED BY <1>2, <1>4, <2>2, <2>3, <2>5, <3>1
  <2> QED BY <1>6, <2>4, <2>5 DEF EpicsExitCallAtExits
<1>7. CASE ExitsReturn(t)
  <2>1. f.pc = InExits /\ Goes(t, InExits, Raise) /\ exits' = "done" /\ raised' = raised
    BY <1>1, <1>7 DEF ExitsReturn, Goes
  <2>2. InExits \in 1..Return /\ Raise \in 1..Return /\ Raise # Return /\ InExits # Return
    BY DEF InExits, Raise, Return
  <2>3. ExitsAt(Raise)'
    BY <1>2, <1>2a, <2>1 DEF ExitsAt, InExits, Raise
  <2> QED BY <1>2, <1>4, <2>1, <2>2, <2>3
<1>8. CASE RaiseAgain(t)
  <2>1. f.pc = Raise /\ Goes(t, Raise, Return) /\ exits' = exits
    BY <1>1, <1>8 DEF RaiseAgain, Goes
  <2>2. Raise \in 1..Return /\ Return \in 1..Return /\ Raise # Return
    BY DEF Raise, Return
  <2>3. raised' = [raised EXCEPT ![t] = raised[t] \cup {f.sig}] /\ raised \in [Thread -> SUBSET Signal]
    BY <1>1, <1>8 DEF RaiseAgain, TermSigInv, TermSigType
  <2>4. raised'[t] = {f.sig} /\ \A v \in Thread \ {t} : raised'[v] = raised[v]
    BY <1>2, <2>1, <2>2, <2>3
  <2>5. ExitsAt(Return)'
    BY <1>2, <1>2a, <2>1 DEF ExitsAt, InExits, Raise, Return
  <2> QED BY <1>2, <1>4, <2>1, <2>2, <2>4, <2>5
<1>9. CASE ReturnFrom(t)
  <2>1. f.pc = Return /\ UNCHANGED <<sigact, original, exits>>
    BY <1>1, <1>9 DEF ReturnFrom, sigVars
  <2>2. ExitsAt(Return)'
    BY <1>2, <1>2a, <2>1 DEF ExitsAt
  <2>3. \A k \in 1..N : sigact[Signals[k]] = original[Signals[k]]
    <3>1. 1 \in 1..Len(frames[t]) /\ \A k \in 1..N : k < frames[t][1].pc
      BY <1>1, <2>1 DEF Return
    <3> QED BY <3>1 DEF TermSigInv, RestoredInv
  <2>4. frames'[t] = <<>>
    <3>1. frames' \in [Thread -> Seq(FrameType)] /\ Len(frames'[t]) = Len(frames[t]) - 1
      BY <1>9, ReturnChanges DEF TermSigInv
    <3>2. frames'[t] \in Seq(FrameType) /\ Len(frames'[t]) = 0
      BY <1>1, <3>1
    <3> QED BY <3>2, EmptySeq
  <2>5. \A v \in Thread : frames'[v] = <<>>
    <3>1. \A v \in Thread \ {t} : frames'[v] = frames[v]
      BY <1>9, ReturnChanges DEF TermSigInv
    <3> QED BY <1>1, <2>4, <3>1
  <2> QED BY <2>1, <2>2, <2>3, <2>5
<1> QED BY <1>1, <1>5, <1>6, <1>7, <1>8, <1>9 DEF Handler

\* One signal goes from Fresh by InHandler to Handled.
LEMMA OneSignalKept ==
  ASSUME TermSigInv, [Next]_vars
  PROVE  OneSignal'
<1> USE SignalsOfList
<1> SUFFICES ASSUME ~early', sent' <= 1
             PROVE  Fresh' \/ InHandler' \/ Handled' \/ death' = "exit"
  BY DEF OneSignal
<1> TermSigType /\ SavedInv
  BY DEF TermSigInv
<1>1. ~early /\ sent <= 1
  <2> USE DEF TermSigType
  <2>1. ASSUME NEW s \in Signal, Send(s) PROVE ~early /\ sent <= 1
    BY <2>1 DEF Send
  <2>2. ASSUME NEW t \in Thread, NEW s \in Signal, Deliver(t, s) PROVE ~early /\ sent <= 1
    BY <2>2 DEF Deliver
  <2>3. ASSUME NEW t \in Thread, Handler(t) PROVE ~early /\ sent <= 1
    BY <2>3, HandlerGoes
  <2>4. CASE Install \/ EpicsExit \/ UNCHANGED vars
    BY <2>4 DEF Install, EpicsExit, vars
  <2> QED BY <2>1, <2>2, <2>3, <2>4 DEF Next
<1>2. Fresh \/ InHandler \/ Handled \/ death = "exit"
  BY <1>1 DEF TermSigInv, OneSignal
<1>2a. CASE death = "exit"
  <2>1. ASSUME NEW t \in Thread, Handler(t) PROVE FALSE
    BY <1>2a, <2>1 DEF Handler, Restore, EpicsExitCallAtExits, ExitsReturn, RaiseAgain,
                       ReturnFrom, Goes, Alive
  <2>2. ~Install /\ ~EpicsExit /\ \A s \in Signal : ~Send(s) /\ \A t \in Thread : ~Deliver(t, s)
    BY <1>2a DEF Install, EpicsExit, Send, Deliver, Undisturbed, Alive
  <2>3. UNCHANGED vars
    BY <2>1, <2>2 DEF Next
  <2> QED BY <1>2a, <2>3 DEF vars
<1> SUFFICES ASSUME death # "exit" PROVE Fresh' \/ InHandler' \/ Handled' \/ death' = "exit"
  BY <1>2a
<1>3. CASE UNCHANGED vars
  BY <1>2, <1>3 DEF vars, sigVars, Fresh, InHandler, Handled, Handling, ExitsAt
<1>3a. CASE EpicsExit
  <2> UNCHANGED <<sigVars, frames, pending, raised, sent>> /\ frames[main] = <<>> /\ death = "no"
    BY <1>3a DEF EpicsExit, Undisturbed, Alive
  <2>1. \/ death' = "exit"
        \/ death' = "no" /\ \A pc \in 1..Return : ExitsAt(pc) => ExitsAt(pc)'
    BY <1>3a DEF EpicsExit, ExitsAt, TermSigType, CallExits, InExits, Raise, Return
  <2>2. 1 \in 1..Return /\ Return \in 1..Return
    BY DEF Return
  <2>3. ASSUME death' = "no", Fresh PROVE Fresh'
    BY <2>1, <2>2, <2>3 DEF Fresh, sigVars
  <2>4. ASSUME death' = "no", NEW t \in Thread, Handling(t) PROVE Handling(t)'
    <3>1. frames[t][1] \in FrameType
      BY <2>4 DEF Handling, TermSigType
    <3> QED BY <2>1, <2>4, <3>1 DEF Handling, FrameType
  <2>5. ASSUME death' = "no", Handled PROVE Handled'
    BY <2>1, <2>2, <2>5 DEF Handled, sigVars
  <2> QED BY <1>2, <2>1, <2>3, <2>4, <2>5 DEF InHandler
<1>4. CASE Install
  <2>1. installed + 1 \in 1..N /\ installed' = installed + 1 /\ pending = {}
    BY <1>1, <1>4 DEF Install, TermSigType, SavedInv
  <2>2. \A t \in Thread : frames[t] = <<>>
    BY <1>1, <1>4 DEF Install, SavedInv
  <2>3. Fresh
    <3>1. \A t \in Thread : Len(frames[t]) # 1
      BY <2>2
    <3>2. ~InHandler
      BY <3>1 DEF InHandler, Handling
    <3>3. ~Handled
      BY <1>4 DEF Install, Handled
    <3> QED BY <1>2, <3>2, <3>3
  <2>4. sigact' = [sigact EXCEPT ![Signals[installed + 1]] = "termSigHandler"]
    BY <1>4 DEF Install
  <2>5. \A k \in 1..installed' : sigact'[Signals[k]] = "termSigHandler"
    BY <2>1, <2>3, <2>4 DEF Fresh, TermSigType
  <2> QED BY <1>4, <2>1, <2>3, <2>5 DEF Install, Fresh, ExitsAt
<1>5. ASSUME NEW s \in Signal, Send(s)
      PROVE  Fresh'
  <2>1. sent = 0 /\ sent' = 1
    BY <1>5 DEF Send, TermSigType
  <2>2. Fresh /\ pending = {}
    BY <1>2, <2>1 DEF Fresh, InHandler, Handled
  <2> QED BY <1>5, <2>1, <2>2 DEF Send, Fresh, ExitsAt, sigVars
<1>6. ASSUME NEW t \in Thread, NEW s \in Signal, Deliver(t, s)
      PROVE  Fresh' \/ InHandler' \/ Handled'
  <2> UNCHANGED <<sigVars, exits, sent, leaving>>
    BY <1>6 DEF Deliver
  <2> USE DEF ExitsAt
  <2>1. PICK k \in 1..N : Signals[k] = s
    BY SignalIsListed
  <2>2. CASE Fresh
    <3>1. s \in pending /\ sent = 1 /\ pending' = {} /\ raised' = raised
      BY <1>6, <2>2 DEF Deliver, Fresh
    <3>2. installed = N
      BY <1>1, <3>1, ActiveWhenInstalled
    <3>3. sigact[s] = "termSigHandler"
      BY <2>1, <2>2, <3>2 DEF Fresh
    <3>4. Len(frames[t]) = 0 /\ \A u \in Thread : frames[u] = <<>> /\ raised[u] = {}
      BY <2>2 DEF Fresh
    <3>5. /\ Len(frames'[t]) = 1 /\ frames'[t][1] = [sig |-> s, pc |-> 1]
          /\ \A u \in Thread \ {t} : frames'[u] = <<>>
      <4>1. /\ Len(frames'[t]) = Len(frames[t]) + 1
            /\ frames'[t][Len(frames[t]) + 1] = [sig |-> s, pc |-> 1]
        BY <1>6, <3>3, DeliverChanges
      <4>2. \A u \in Thread \ {t} : frames'[u] = frames[u]
        BY <1>6, DeliverChanges
      <4> HIDE <1>6
      <4> QED BY <3>4, <4>1, <4>2
    <3>6. [sig |-> s, pc |-> 1].pc = 1
      OBVIOUS
    <3>7. 1 <= CallExits /\ 1 # Return
      BY DEF CallExits, Return
    <3>8. Handling(t)'
      BY <2>2, <3>1, <3>4, <3>5, <3>6, <3>7 DEF Handling, Fresh
    <3>9. death' = "no"
      BY <1>6, <3>3 DEF Deliver
    <3> QED BY <3>1, <3>8, <3>9 DEF InHandler
  <2>3. CASE InHandler
    <3>1. PICK u \in Thread : Handling(u) /\ pending = {}
      BY <2>3 DEF InHandler
    <3>2. t = u /\ s = frames[u][1].sig /\ 1 \in 1..Len(frames[u])
      BY <1>6, <3>1 DEF Deliver, Handling
    <3> QED BY <1>6, <3>2 DEF Deliver, Blocked
  <2>4. CASE Handled
    <3>1. sigact[s] = original[s] /\ sigact[s] # "termSigHandler"
      BY <2>1, <2>4 DEF Handled, TermSigType
    <3>2. frames' = frames /\ pending' = {}
      BY <1>6, <2>4, <3>1 DEF Deliver, Handled
    <3>3. death' # "exit"
      BY <1>6 DEF Deliver
    <3> QED BY <2>4, <3>2, <3>3 DEF Handled, sigVars
  <2> QED BY <1>2, <2>2, <2>3, <2>4
<1>7. ASSUME NEW u \in Thread, Handler(u)
      PROVE  InHandler' \/ Handled'
  <2>1. frames[u] # <<>> /\ UNCHANGED <<original, installed, death, sent, pending>>
    BY <1>7, HandlerGoes
  <2>2. InHandler /\ installed = N
    BY <1>1, <1>2, <2>1, ActiveWhenInstalled DEF Fresh, Handled
  <2>3. PICK t \in Thread : Handling(t) /\ pending = {} /\ sent = 1 /\ death = "no"
    BY <2>2 DEF InHandler
  <2>4. \/ Handling(t)'
        \/ /\ ExitsAt(Return)' /\ \A v \in Thread : frames'[v] = <<>>
           /\ \A k \in 1..N : sigact'[Signals[k]] = original'[Signals[k]]
    BY <1>1, <1>7, <2>3, OneSignalStep
  <2> QED BY <2>1, <2>2, <2>3, <2>4 DEF InHandler, Handled
<1> QED BY <1>1, <1>3, <1>3a, <1>4, <1>5, <1>6, <1>7 DEF Next

-----------------------------------------------------------------------------
(* The theorems.                                                           *)

\* TermSigInv is inductive.
LEMMA InvHolds == Spec => []TermSigInv
<1>1. Init => SavedInv /\ RestoredInv /\ OneSignal
  <2> SUFFICES ASSUME Init PROVE SavedInv /\ RestoredInv /\ OneSignal
    OBVIOUS
  <2>1. installed = 0 /\ N \in Nat /\ \A k \in 1..N : ~(k <= installed)
    BY SignalsOfList DEF Init
  <2>2. \A t \in Thread : frames[t] = <<>> /\ raised[t] = {}
    BY DEF Init
  <2>3. SavedInv
    BY <2>1, <2>2 DEF Init, SavedInv
  <2>4. RestoredInv
    BY <2>2 DEF RestoredInv
  <2>5. Fresh
    <3>1. 1 # InExits /\ ~(1 > InExits)
      BY SignalsOfList DEF InExits
    <3> QED BY <2>1, <2>2, <3>1 DEF Init, Fresh, ExitsAt
  <2> QED BY <2>3, <2>4, <2>5 DEF OneSignal
<1>2. TermSigInv /\ [Next]_vars /\ TermSigType' => TermSigInv'
  BY SavedKept, RestoredKept, OneSignalKept DEF TermSigInv
<1> QED BY <1>1, <1>2, TypesHold, PTL DEF Spec, TermSigInv

\* All variables keep their types, whatever signals interrupt: the handler is
\* never saved as the disposition it replaces, so restoring removes it.
THEOREM TypeCorrect == Spec => []TypeOK
BY TypesHold, TypeOKHolds, PTL

\* Once a call of termSigHandler is past its last sigaction all signals have
\* the dispositions the process was started with, in any number of threads.
THEOREM OriginalsCorrect == Spec => []OriginalsRestored
<1>1. TermSigInv => OriginalsRestored
  <2> SUFFICES ASSUME TermSigInv, ~early, NEW t \in Thread, frames[t] # <<>>, Top(t).pc > N
               PROVE  sigact = original
    BY DEF OriginalsRestored
  <2>1. frames[t] \in Seq(FrameType) /\ Len(frames[t]) \in 1..Len(frames[t])
    BY DEF TermSigInv, TermSigType
  <2>2. Top(t) \in FrameType
    BY <2>1 DEF Top
  <2>3. \A k \in 1..N : k < Top(t).pc
    BY <2>2, SignalsOfList DEF FrameType
  <2>4. \A k \in 1..N : sigact[Signals[k]] = original[Signals[k]]
    BY <2>1, <2>3 DEF TermSigInv, RestoredInv, Top
  <2>5. \A s \in Signal : sigact[s] = original[s]
    BY <2>4, SignalIsListed
  <2> QED BY <2>5 DEF TermSigInv, TermSigType
<1> QED BY <1>1, InvHolds, PTL

\* A single signal after termSigRegistrar ends the process only after all
\* exit handlers have returned, whichever of any number of threads it hits,
\* unless main is running them in epicsExit at that time.
THEOREM OneSignalCorrect == Spec => []OneSignalIsClean
<1>1. TermSigInv => OneSignalIsClean
  <2> SUFFICES ASSUME TermSigInv, death = "signal", sent = 1, ~early, leaving # "handlers"
               PROVE  exits = "done"
    BY DEF OneSignalIsClean
  <2>1. Handled
    BY DEF TermSigInv, OneSignal, Fresh, InHandler
  <2>2. Return > InExits
    BY SignalsOfList DEF Return, InExits
  <2> QED BY <2>1, <2>2 DEF Handled, ExitsAt
<1> QED BY <1>1, InvHolds, PTL
=============================================================================
