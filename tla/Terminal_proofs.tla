-------------------------- MODULE Terminal_proofs --------------------------
(* Theorems about Terminal, for every set of threads and number of retries.  *)
(* TerminalInv is inductive.  A thread that connects is the only one to, for *)
(* all its labels mean that it holds the connect lock (LocksHeld); so no     *)
(* other thread raises the flag, makes or closes the session meanwhile       *)
(* (ConnectingIsDown, SessionMade), and probes can only lower the flag.      *)
EXTENDS Terminal, TLAPS

\* Initially nothing is held and nothing is believed.
LEMMA InitInv == Init => TerminalInv
  <1> SUFFICES ASSUME Init PROVE TerminalInv
    OBVIOUS
  <1> USE TerminalAssumption DEF Init
  <1>1. TerminalTypeOK
    <2>1. tries \in [Thread -> 0..Retries] /\ asked \in 0..MaxRequests
      OBVIOUS
    <2>2. pc \in [Thread -> Label] /\ goal \in [Thread -> Goals] /\ loaded \in [Thread -> CachedSpec]
      BY DEF Label, Goals, CachedSpec
    <2> QED
      BY <2>1, <2>2 DEF TerminalTypeOK, CachedSpec, Condition, Session
  <1>2. LocksHeld /\ ConnectingIsDown
    BY DEF LocksHeld, HoldsConnect, ConnectingIsDown, InNative, Connecting
  <1>3. SessionMade /\ ConnectedHasSession
    BY DEF SessionMade, ConnectedHasSession
  <1> QED
    BY <1>1, <1>2, <1>3 DEF TerminalInv

\* Every step of a thread keeps the invariant.
LEMMA StepInv == ASSUME NEW r \in Thread, TerminalInv, Step(r) PROVE TerminalInv'
  <1> USE TerminalAssumption
      DEF TerminalInv, TerminalTypeOK, LocksHeld, HoldsConnect, ConnectingIsDown,
          SessionMade, ConnectedHasSession, CachedSpec, Condition, Session, Goals,
          Label, Waiting, InNative, Connecting, Goto, flags, locks, frame, world
  <1>1. CASE CheckHealth(r)
    BY <1>1 DEF CheckHealth
  <1>2. CASE EnterConnect(r)
    BY <1>2 DEF EnterConnect, AfterConnect
  <1>3. CASE TakeCallLock(r)
    BY <1>3 DEF TakeCallLock, Native
  <1>4. CASE Probe(r)
    BY <1>4 DEF Probe
  <1>5. CASE Alive(r)
    BY <1>5 DEF Alive, AfterConnect
  <1>6. CASE Dead(r)
    <2>1. TerminalTypeOK'
      BY <1>6 DEF Dead
    <2>2. LocksHeld' /\ ConnectingIsDown'
      BY <1>6 DEF Dead
    <2>3. SessionMade' /\ ConnectedHasSession'
      BY <1>6 DEF Dead
    <2> QED  BY <2>1, <2>2, <2>3
  <1>7. CASE Attempt(r)
    BY <1>7 DEF Attempt, Aged
  <1>8. CASE Joined(r)
    BY <1>8 DEF Joined, AfterConnect
  <1>9. CASE Teardown(r) \/ TeardownRaises(r)
    <2> HIDE DEF TerminalInv
    <2>1. GoesOn(r) /\ session' \in {"closed", session}
      BY <1>9 DEF Teardown, TeardownRaises
    <2> USE DEF TerminalInv
    <2>2. session' \in Session
      BY <2>1
    <2>3. CASE MoreTries(r)
      <3>1. tries' \in [Thread -> 0..Retries]
        BY <2>1, <2>3 DEF GoesOn, MoreTries, TryAgain
      <3>2. TerminalTypeOK'
        BY <2>1, <2>2, <2>3, <3>1 DEF GoesOn, TryAgain
      <3>3. LocksHeld' /\ ConnectingIsDown' /\ SessionMade' /\ ConnectedHasSession'
        BY <2>1, <2>3 DEF GoesOn, TryAgain
      <3> QED  BY <3>2, <3>3
    <2>4. CASE ~MoreTries(r)
      <3>1. TerminalTypeOK'
        BY <2>1, <2>2, <2>4 DEF GoesOn, GiveUp
      <3>2. LocksHeld'
        BY <2>1, <2>4 DEF GoesOn, GiveUp
      <3>3. ConnectingIsDown' /\ SessionMade' /\ ConnectedHasSession'
        BY <2>1, <2>4 DEF GoesOn, GiveUp
      <3> QED  BY <3>1, <3>2, <3>3
    <2> QED  BY <2>3, <2>4
  <1>10. CASE Lookup(r)
    BY <1>10 DEF Lookup
  <1>11. CASE Call(r)
    BY <1>11 DEF Call
  <1>12. CASE Store(r)
    BY <1>12 DEF Store
  <1>13. CASE AttemptRaises(r)
    <2>1. TerminalTypeOK'
      BY <1>13 DEF AttemptRaises
    <2>2. LocksHeld'
      BY <1>13 DEF AttemptRaises
    <2>3. ConnectingIsDown' /\ SessionMade' /\ ConnectedHasSession'
      BY <1>13 DEF AttemptRaises
    <2> QED  BY <2>1, <2>2, <2>3
  <1> QED
    BY <1>1, <1>2, <1>3, <1>4, <1>5, <1>6, <1>7, <1>8, <1>9, <1>10, <1>11, <1>12, <1>13
       DEF Step

\* So do requests, the start and the end of the process, time and the terminal.
LEMMA NextInv == TerminalInv /\ [Next]_vars => TerminalInv'
  <1> SUFFICES ASSUME TerminalInv, [Next]_vars PROVE TerminalInv'
    OBVIOUS
  <1> USE TerminalAssumption
      DEF TerminalInv, TerminalTypeOK, LocksHeld, HoldsConnect, ConnectingIsDown,
          SessionMade, ConnectedHasSession, CachedSpec, Condition, Session, Goals,
          Label, Waiting, InNative, Connecting, Goto, flags, locks, frame, world
  <1>1. CASE \E r \in Thread : Step(r)
    BY <1>1, StepInv
  <1>2. ASSUME NEW r \in Thread, Request(r) PROVE TerminalInv'
    <2>1. asked' \in 0..MaxRequests
      BY <1>2 DEF Request, Begin
    <2>2. TerminalTypeOK'
      BY <1>2, <2>1 DEF Request, Begin
    <2>3. LocksHeld'
      BY <1>2 DEF Request, Begin
    <2>4. ConnectingIsDown' /\ SessionMade' /\ ConnectedHasSession'
      BY <1>2 DEF Request, Begin
    <2> QED  BY <2>2, <2>3, <2>4
  <1>3. ASSUME NEW r \in Thread, Boot(r) PROVE TerminalInv'
    <2>1. asked' \in 0..MaxRequests
      BY <1>3 DEF Boot, Begin
    <2>2. TerminalTypeOK'
      BY <1>3, <2>1 DEF Boot, Begin
    <2>3. LocksHeld' /\ ConnectingIsDown' /\ SessionMade' /\ ConnectedHasSession'
      BY <1>3 DEF Boot, Begin, AllIdle
    <2> QED  BY <2>2, <2>3
  <1>4. CASE Stop \/ StopRaises
    <2>1. /\ UNCHANGED <<pc, frame, locks, trusted, symbols, terminal, asked>>
          /\ up' = FALSE /\ connected' \in BOOLEAN
          /\ session' \in {"closed", session} /\ AllIdle
          /\ connected' => connected /\ session' = session
      BY <1>4 DEF Stop, StopRaises
    <2>2. TerminalTypeOK'
      BY <2>1
    <2>3. LocksHeld'
      BY <2>1
    <2>4. \A t \in Thread : pc'[t] = "idle"
      BY <2>1 DEF AllIdle
    <2>5. ConnectingIsDown' /\ SessionMade'
      BY <2>4
    <2>6. ConnectedHasSession'
      BY <2>1
    <2> QED  BY <2>2, <2>3, <2>5, <2>6
  <1>5. CASE TrustExpires
    <2>1. TerminalTypeOK'
      BY <1>5 DEF TrustExpires
    <2>2. LocksHeld' /\ ConnectingIsDown' /\ SessionMade' /\ ConnectedHasSession'
      BY <1>5 DEF TrustExpires
    <2> QED  BY <2>1, <2>2
  <1>6. CASE SymbolsExpire
    BY <1>6 DEF SymbolsExpire
  <1>7. CASE TerminalChanges
    BY <1>7 DEF TerminalChanges
  <1>8. CASE UNCHANGED vars
    BY <1>8 DEF vars
  <1> QED
    BY <1>1, <1>2, <1>3, <1>4, <1>5, <1>6, <1>7, <1>8 DEF Next

\* Locks, flags and session agree in every reachable state, and all variables
\* keep their types (terminal.py:124-215).
THEOREM SessionState == Spec => []TerminalInv
  BY InitInv, NextInv, PTL DEF Spec

\* Every variable keeps its type; no attempt to connect is numbered beyond
\* connect_retries (terminal.py:94-97, 168-169).
THEOREM TypesHold == Spec => []TerminalTypeOK
  <1>1. TerminalInv => TerminalTypeOK
    BY DEF TerminalInv
  <1> QED
    BY <1>1, SessionState, PTL

\* The native library is never entered by two threads at once, however many there
\* are: connect, probes, operations and shutdown alike (terminal.py:147-151, 217-222).
THEOREM NativeCallsExclude == Spec => []OneNativeCall
  <1>1. TerminalInv => OneNativeCall
    BY DEF TerminalInv, LocksHeld, OneNativeCall
  <1> QED
    BY <1>1, SessionState, PTL

\* The connect lock is never let go over a session that was opened and not logged in,
\* whichever thread opened it: the one that lets go has a session, or has closed
\* what there was.  Only a native call that raises in that step prevents it
\* (terminal.py:168-203).
THEOREM NothingHalfOpen == Spec => NoHalfOpenSession
  <1>1. ASSUME TerminalInv, [Next]_vars, NEW t \in Thread,
               connectLock = t, connectLock' = NoThread,
               ~AttemptRaises(t), ~TeardownRaises(t)
        PROVE  session' # "half"
    <2> USE <1>1, TerminalAssumption
        DEF TerminalInv, LocksHeld, HoldsConnect, Goto, flags, locks, frame, world
    <2>1. ~UNCHANGED connectLock
      OBVIOUS
    <2>2. PICK r \in Thread : Step(r)
      BY <2>1 DEF Next, Request, Boot, Begin, Stop, StopRaises, TrustExpires,
         SymbolsExpire, TerminalChanges, vars
    <2>3. CASE Alive(r)
      BY <2>1, <2>3 DEF Alive, SessionMade
    <2>4. CASE Joined(r)
      BY <2>4 DEF Joined, SessionMade
    <2>5. CASE Teardown(r)
      BY <2>5 DEF Teardown
    <2>6. CASE AttemptRaises(r) \/ TeardownRaises(r)
      <3>1. HoldsConnect(r)
        BY <2>6 DEF AttemptRaises, TeardownRaises, GoesOn, Connecting
      <3>2. r = t
        BY <3>1
      <3> QED  BY <2>6, <3>2
    <2> QED
      BY <2>1, <2>2, <2>3, <2>4, <2>5, <2>6
         DEF Step, CheckHealth, EnterConnect, TakeCallLock, Probe, Dead, Attempt,
             Lookup, Call, Store
  <1>2. TerminalInv /\ [Next]_vars => [ConnectEnds => session' # "half"]_vars
    BY <1>1 DEF ConnectEnds
  <1> QED
    BY <1>2, SessionState, PTL DEF Spec, NoHalfOpenSession

\* The connected flag is never up without a session that was logged in, although
\* probes write it outside the connect lock (terminal.py:146-158, 203).
THEOREM FlagIsTrue == Spec => []ConnectedHasSession
  <1>1. TerminalInv => ConnectedHasSession
    BY DEF TerminalInv
  <1> QED
    BY <1>1, SessionState, PTL

\* The two locks never have everyone waiting for everyone.  Whoever has the call lock
\* is inside a native call, and waits for nothing; if nobody has, whoever has the
\* connect lock is past the wait for it, and can take the call lock if that is what
\* it needs (terminal.py:94-97, 162-222).
THEOREM NobodyDeadlocks == Spec => []SomeoneCanMove
  <1>1. ASSUME TerminalInv PROVE SomeoneCanMove
    <2> SUFFICES ASSUME NEW r \in Thread, pc[r] # "idle"
                 PROVE  \E t \in Thread : CanMove(t)
      BY DEF SomeoneCanMove
    <2> USE <1>1 DEF TerminalInv, TerminalTypeOK, LocksHeld
    <2>1. CASE callLock # NoThread
      <3>1. callLock \in Thread /\ pc[callLock] \in InNative
        BY <2>1
      <3> QED
        BY <3>1 DEF CanMove, InNative, Waiting
    <2>2. CASE callLock = NoThread /\ connectLock # NoThread
      <3>1. connectLock \in Thread /\ HoldsConnect(connectLock)
        BY <2>2
      <3> QED
        BY <2>2, <3>1 DEF CanMove, HoldsConnect, Connecting
    <2>3. CASE callLock = NoThread /\ connectLock = NoThread
      BY <2>3 DEF CanMove
    <2> QED  BY <2>1, <2>2, <2>3
  <1>2. TerminalInv => SomeoneCanMove
    BY <1>1
  <1> QED
    BY <1>2, SessionState, PTL

-----------------------------------------------------------------------------
\* Calls in a session.

\* Only the thread that connects changes what the session is, and it holds the lock
\* that the others would need on their way to a call.
LEMMA CallSession ==
    TerminalInv /\ NoConnectOverCall /\ CallHasSession /\ [Next]_vars => CallHasSession'
  <1> SUFFICES ASSUME TerminalInv, NoConnectOverCall, CallHasSession, [Next]_vars,
                      NEW t \in Thread, pc'[t] \in {"want_call", "calling"}
               PROVE  session' \in {"live", "lost"}
    BY DEF CallHasSession
  <1> USE DEF TerminalInv, TerminalTypeOK, LocksHeld, HoldsConnect, SessionMade,
              ConnectedHasSession, CallHasSession, NoConnectOverCall, Goto,
              AfterConnect, Connecting, Waiting, InNative, flags, locks, frame, world
  <1>1. ASSUME NEW r \in Thread, CheckHealth(r) \/ EnterConnect(r)
        PROVE  session' \in {"live", "lost"}
    BY <1>1 DEF CheckHealth, EnterConnect
  <1>2. ASSUME NEW r \in Thread, TakeCallLock(r) PROVE session' \in {"live", "lost"}
    BY <1>2 DEF TakeCallLock, Native
  <1>3. ASSUME NEW r \in Thread, Probe(r) \/ Alive(r) \/ Dead(r)
        PROVE  session' \in {"live", "lost"}
    BY <1>3 DEF Probe, Alive, Dead
  <1>4. ASSUME NEW r \in Thread,
               Attempt(r) \/ AttemptRaises(r) \/ Teardown(r) \/ TeardownRaises(r)
        PROVE  FALSE
    <2>1. pc[r] \in {"attempting", "tearing"}
      BY <1>4 DEF Attempt, AttemptRaises, Teardown, TeardownRaises, GoesOn
    <2>2. t # r => pc'[t] = pc[t]
      BY <1>4 DEF Attempt, AttemptRaises, Teardown, TeardownRaises, GoesOn, TryAgain, GiveUp
    <2>3. pc'[r] \in {"joined", "want_teardown", "want_attempt", "idle"}
      BY <1>4 DEF Attempt, AttemptRaises, Teardown, TeardownRaises, GoesOn, TryAgain, GiveUp
    <2> QED  BY <2>1, <2>2, <2>3
  <1>5. ASSUME NEW r \in Thread, Joined(r) PROVE session' \in {"live", "lost"}
    BY <1>5 DEF Joined
  <1>6. ASSUME NEW r \in Thread, Lookup(r) \/ Call(r) \/ Store(r)
        PROVE  session' \in {"live", "lost"}
    BY <1>6 DEF Lookup, Call, Store
  <1>7. ASSUME NEW r \in Thread, Request(r) \/ Boot(r)
        PROVE  session' \in {"live", "lost"}
    BY <1>7 DEF Request, Boot, Begin, AllIdle
  <1>8. CASE Stop \/ StopRaises
    BY <1>8 DEF Stop, StopRaises, AllIdle
  <1>9. CASE TerminalChanges
    BY <1>9 DEF TerminalChanges
  <1>10. CASE TrustExpires \/ SymbolsExpire \/ UNCHANGED vars
    BY <1>10 DEF TrustExpires, SymbolsExpire, vars
  <1> QED
    BY <1>1, <1>2, <1>3, <1>4, <1>5, <1>6, <1>7, <1>8, <1>9, <1>10 DEF Next, Step

\* What _session() says it guarantees holds of every call over which nobody connects:
\* no native call of an operation is made without a session that was logged in
\* (terminal.py:218-222).
THEOREM CallsGuaranteed == Spec /\ []NoConnectOverCall => []CallsAreLoggedIn
  <1>1. Init => CallHasSession
    BY DEF Init, CallHasSession
  <1>2. TerminalInv /\ NoConnectOverCall /\ CallHasSession /\ [Next]_vars
        => CallHasSession'
    BY CallSession
  <1>3. CallHasSession => CallsAreLoggedIn
    BY DEF CallHasSession, CallsAreLoggedIn
  <1> QED
    BY <1>1, <1>2, <1>3, SessionState, PTL DEF Spec

\* With one thread, which cannot connect over its own call, it holds outright.
THEOREM CallsGuaranteedAlone ==
    (\A r, t \in Thread : r = t) => (Spec => []CallsAreLoggedIn)
  <1> SUFFICES ASSUME \A r, t \in Thread : r = t
               PROVE  Spec => []CallsAreLoggedIn
    OBVIOUS
  <1>1. NoConnectOverCall
    BY DEF NoConnectOverCall
  <1> QED
    BY <1>1, CallsGuaranteed, PTL
=============================================================================
