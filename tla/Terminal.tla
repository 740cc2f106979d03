------------------------------ MODULE Terminal ------------------------------
(* MT5Terminal (terminal.py): the one session with the native terminal,      *)
(* shared by the threads of the bridge.  connectLock is held while           *)
(* connecting, callLock during every native call; the flags and the symbol   *)
(* cache are also read and written outside them.  A step of a thread is what *)
(* it does between two points where another thread may come in.              *)
(*                                                                           *)
(* goal[r] is what thread r is after: "load" (symbol_spec, then a call: tick *)
(* and candles), "call" (account, positions, send_order), "health" (the      *)
(* endpoint's is_connected) or "boot" (the connect of the lifespan).         *)
EXTENDS Integers

CONSTANTS
    Thread,         \* threads of the bridge
    NoThread,       \* the holder of a free lock
    Retries,        \* connect_retries
    MaxRequests     \* bound: requests and boots in a behaviour

ASSUME TerminalAssumption ==
    /\ NoThread \notin Thread
    /\ Retries \in Nat \ {0}
    /\ MaxRequests \in Nat

VARIABLES
    up,             \* the bridge accepts requests
    connected,      \* _connected
    trusted,        \* _last_verified is less than the check interval ago
    symbols,        \* _symbols: the cached spec, by the session it is from
    connectLock,    \* _connect_lock
    callLock,       \* _call_lock
    pc, goal,
    tries,          \* attempt, in connect
    loaded,         \* value, in get_or_set
    terminal,       \* external: what initialize and login would meet
    session,        \* external: the session the native library holds
    asked           \* how many requests and boots there have been

flags == <<up, connected, trusted, symbols>>
locks == <<connectLock, callLock>>
frame == <<goal, tries, loaded>>
world == <<terminal, session>>
vars == <<flags, locks, pc, frame, world, asked>>

\* A terminal that is not healthy may make any native call raise.  A spec is of the
\* session logged in last, or of another one.
CachedSpec == {"none", "old", "current"}
Condition == {"down", "refusing", "healthy"}
Session == {"closed", "half", "live", "lost"}
Goals == {"load", "call", "health", "boot"}

\* The native calls, each with the label of a thread that waits to make it.
Waiting == {"want_probe", "want_attempt", "want_teardown", "want_call"}
Native == [want_probe |-> "probing", want_attempt |-> "attempting",
           want_teardown |-> "tearing", want_call |-> "calling"]
InNative == {"probing", "attempting", "tearing", "calling"}
Connecting == {"want_attempt", "attempting", "joined", "want_teardown", "tearing"}
Label == Waiting \cup InNative \cup
         {"idle", "lookup", "checking", "connecting", "alive", "dead", "joined", "store"}

Goto(r, label) == pc' = [pc EXCEPT ![r] = label]
AfterConnect(r) == Goto(r, IF goal[r] = "boot" THEN "idle" ELSE "want_call")
Aged(spec) == IF spec = "current" THEN "old" ELSE spec
AllIdle == \A r \in Thread : pc[r] = "idle"
-----------------------------------------------------------------------------
Init ==
    /\ up = FALSE /\ connected = FALSE /\ trusted = FALSE /\ symbols = "none"
    /\ connectLock = NoThread /\ callLock = NoThread
    /\ pc = [r \in Thread |-> "idle"]
    /\ goal = [r \in Thread |-> "call"]
    /\ tries = [r \in Thread |-> 0]
    /\ loaded = [r \in Thread |-> "none"]
    /\ terminal \in Condition /\ session = "closed"
    /\ asked = 0

-----------------------------------------------------------------------------
\* Requests and the life of the process.

Begin(r, g, label) ==
    /\ asked < MaxRequests
    /\ asked' = asked + 1
    /\ goal' = [goal EXCEPT ![r] = g]
    /\ Goto(r, label)
    /\ UNCHANGED <<tries, loaded, locks, terminal>>

Request(r) ==
    /\ up /\ pc[r] = "idle"
    /\ \/ Begin(r, "load", "lookup")
       \/ Begin(r, "call", "connecting")
       \/ Begin(r, "health", "checking")
    /\ UNCHANGED <<flags, session>>

\* A new process: the memory and the library's session of the old one are gone.
Boot(r) ==
    /\ ~up /\ AllIdle
    /\ Begin(r, "boot", "connecting")
    /\ connected' = FALSE /\ trusted' = FALSE /\ symbols' = "none"
    /\ session' = "closed"
    /\ UNCHANGED up

\* The server shuts the terminal down when it has answered its requests.
Stop ==
    /\ up /\ AllIdle
    /\ up' = FALSE
    /\ connected' = FALSE
    /\ session' = IF connected THEN "closed" ELSE session
    /\ UNCHANGED <<trusted, symbols, locks, pc, frame, terminal, asked>>

\* Its shutdown raises, and the process ends as it is.
StopRaises ==
    /\ up /\ AllIdle
    /\ connected /\ terminal # "healthy"
    /\ up' = FALSE
    /\ UNCHANGED <<connected, trusted, symbols, locks, pc, frame, world, asked>>

-----------------------------------------------------------------------------
\* is_connected, by itself and at the head of connect.

CheckHealth(r) ==
    /\ pc[r] = "checking"
    /\ Goto(r, IF connected /\ ~trusted THEN "want_probe" ELSE "idle")
    /\ UNCHANGED <<flags, locks, frame, world, asked>>

\* Mutant of EnterConnect: the flag is believed, however old it is.
EnterOnFlag(r) ==
    /\ pc[r] = "connecting"
    /\ connectLock = NoThread
    /\ IF connected
       THEN AfterConnect(r) /\ UNCHANGED <<connectLock, tries>>
       ELSE /\ connectLock' = r
            /\ tries' = [tries EXCEPT ![r] = 1]
            /\ Goto(r, "want_attempt")
    /\ UNCHANGED <<flags, callLock, goal, loaded, world, asked>>

EnterConnect(r) ==
    /\ pc[r] = "connecting"
    /\ connectLock = NoThread
    /\ IF connected /\ trusted
       THEN AfterConnect(r) /\ UNCHANGED <<connectLock, tries>>
       ELSE /\ connectLock' = r
            /\ tries' = [tries EXCEPT ![r] = 1]
            /\ Goto(r, IF connected THEN "want_probe" ELSE "want_attempt")
    /\ UNCHANGED <<flags, callLock, goal, loaded, world, asked>>

\* Mutant: terminal_info is called without the call lock.
ProbeUnlocked(r) ==
    /\ pc[r] \in Waiting
    /\ callLock = NoThread \/ pc[r] = "want_probe"
    /\ callLock' = r
    /\ Goto(r, Native[pc[r]])
    /\ UNCHANGED <<flags, connectLock, frame, world, asked>>

TakeCallLock(r) ==
    /\ pc[r] \in Waiting
    /\ callLock = NoThread
    /\ callLock' = r
    /\ Goto(r, Native[pc[r]])
    /\ UNCHANGED <<flags, connectLock, frame, world, asked>>

\* terminal_info; that it raises is caught and taken for a dead terminal.
Probe(r) ==
    /\ pc[r] = "probing"
    /\ callLock' = NoThread
    /\ \/ session \in {"half", "live"} /\ Goto(r, "alive")
       \/ ~(terminal = "healthy" /\ session \in {"half", "live"}) /\ Goto(r, "dead")
    /\ UNCHANGED <<flags, connectLock, frame, world, asked>>

\* The answer is written after the call lock is released.
Alive(r) ==
    /\ pc[r] = "alive"
    /\ trusted' = TRUE
    /\ IF goal[r] = "health"
       THEN Goto(r, "idle") /\ UNCHANGED connectLock
       ELSE AfterConnect(r) /\ connectLock' = NoThread
    /\ UNCHANGED <<up, connected, symbols, callLock, frame, world, asked>>

\* Mutant: a dead terminal is reported but the flag stays up.
DeadButConnected(r) ==
    /\ pc[r] = "dead"
    /\ Goto(r, IF goal[r] = "health" THEN "idle" ELSE "want_attempt")
    /\ UNCHANGED <<flags, locks, frame, world, asked>>

Dead(r) ==
    /\ pc[r] = "dead"
    /\ connected' = FALSE
    /\ Goto(r, IF goal[r] = "health" THEN "idle" ELSE "want_attempt")
    /\ UNCHANGED <<up, trusted, symbols, locks, frame, world, asked>>

-----------------------------------------------------------------------------
\* connect.

\* initialize and login, under one hold of the call lock, where neither raises.
Attempt(r) ==
    /\ pc[r] = "attempting"
    /\ callLock' = NoThread
    /\ \/ /\ terminal = "healthy"
          /\ session' = "live"
          /\ symbols' = Aged(symbols)
          /\ loaded' = [t \in Thread |-> Aged(loaded[t])]
          /\ Goto(r, "joined")
       \/ /\ terminal # "healthy"
          /\ session' = IF terminal = "refusing" THEN "half" ELSE session
          /\ Goto(r, "want_teardown")
          /\ UNCHANGED <<symbols, loaded>>
    /\ UNCHANGED <<up, connected, trusted, connectLock, goal, tries, terminal, asked>>

\* initialize, login or last_error raises, which connect does not catch: both locks
\* are released, there is no teardown and no next attempt, and what initialize has
\* opened stays open.
AttemptRaises(r) ==
    /\ pc[r] = "attempting"
    /\ terminal # "healthy"
    /\ session' \in {session} \cup (IF terminal = "refusing" THEN {"half"} ELSE {})
    /\ callLock' = NoThread /\ connectLock' = NoThread
    /\ Goto(r, "idle")
    /\ UNCHANGED <<flags, frame, terminal, asked>>

Joined(r) ==
    /\ pc[r] = "joined"
    /\ connected' = TRUE /\ trusted' = TRUE /\ symbols' = "none"
    /\ connectLock' = NoThread
    /\ up' = TRUE       \* after a boot; otherwise it is
    /\ AfterConnect(r)
    /\ UNCHANGED <<callLock, frame, world, asked>>

\* Mutant: one attempt too many.
OneTryMore(r) == tries[r] <= Retries

MoreTries(r) == tries[r] < Retries

TryAgain(r) ==
    /\ tries' = [tries EXCEPT ![r] = @ + 1]
    /\ Goto(r, "want_attempt")
    /\ UNCHANGED <<connected, connectLock>>

\* Mutant: the connect lock is not released when connect raises.
GiveUpLocked(r) ==
    /\ connected' = FALSE
    /\ Goto(r, "idle")
    /\ UNCHANGED <<tries, connectLock>>

\* TerminalConnectionError.
GiveUp(r) ==
    /\ connected' = FALSE
    /\ connectLock' = NoThread
    /\ Goto(r, "idle")
    /\ UNCHANGED tries

\* Mutant: the last failed attempt is not undone before the error is raised.
TeardownBetweenOnly(r) ==
    /\ pc[r] = "tearing"
    /\ callLock' = NoThread
    /\ session' = IF MoreTries(r) THEN "closed" ELSE session
    /\ IF MoreTries(r) THEN TryAgain(r) ELSE GiveUp(r)
    /\ UNCHANGED <<up, trusted, symbols, goal, loaded, terminal, asked>>

\* After a failed attempt and its teardown: the next one, or none.
GoesOn(r) ==
    /\ pc[r] = "tearing"
    /\ callLock' = NoThread
    /\ IF MoreTries(r) THEN TryAgain(r) ELSE GiveUp(r)
    /\ UNCHANGED <<up, trusted, symbols, goal, loaded, terminal, asked>>

Teardown(r) == GoesOn(r) /\ session' = "closed"

\* That shutdown raises is caught, and leaves the session as it is.
TeardownRaises(r) == GoesOn(r) /\ terminal # "healthy" /\ UNCHANGED session

-----------------------------------------------------------------------------
\* _session around an operation, and the symbol cache.

Lookup(r) ==
    /\ pc[r] = "lookup"
    /\ goal' = [goal EXCEPT ![r] = IF symbols = "none" THEN "load" ELSE "call"]
    /\ Goto(r, "connecting")
    /\ UNCHANGED <<flags, locks, tries, loaded, world, asked>>

\* A load that meets no session, or no such symbol, ends the request.
Call(r) ==
    /\ pc[r] = "calling"
    /\ callLock' = NoThread
    /\ \/ /\ Goto(r, "idle")
          /\ UNCHANGED loaded
       \/ /\ goal[r] = "load" /\ session \in {"half", "live"}
          /\ loaded' = [loaded EXCEPT ![r] = IF session = "live" THEN "current" ELSE "old"]
          /\ Goto(r, "store")
    /\ UNCHANGED <<flags, connectLock, goal, tries, world, asked>>

Store(r) ==
    /\ pc[r] = "store"
    /\ symbols' = loaded[r]
    /\ loaded' = [loaded EXCEPT ![r] = "none"]
    /\ goal' = [goal EXCEPT ![r] = "call"]
    /\ Goto(r, "connecting")
    /\ UNCHANGED <<up, connected, trusted, locks, tries, world, asked>>

-----------------------------------------------------------------------------
\* The passing of time, and the terminal outside.

TrustExpires ==
    /\ trusted
    /\ trusted' = FALSE
    /\ UNCHANGED <<up, connected, symbols, locks, pc, frame, world, asked>>

SymbolsExpire ==
    /\ symbols # "none"
    /\ symbols' = "none"
    /\ UNCHANGED <<up, connected, trusted, locks, pc, frame, world, asked>>

\* A session dies with its terminal; one that comes back may take it up again.
TerminalChanges ==
    /\ \E c \in Condition \ {terminal} : terminal' = c
    /\ session' \in
         CASE terminal' = "down" /\ session = "half" -> {"closed"}
           [] terminal' = "down" /\ session = "live" -> {"lost"}
           [] terminal' = "healthy" /\ session = "lost" -> {"lost", "live"}
           [] OTHER -> {session}
    /\ UNCHANGED <<flags, locks, pc, frame, asked>>

Step(r) ==
    \/ CheckHealth(r) \/ EnterConnect(r) \/ TakeCallLock(r)
    \/ Probe(r) \/ Alive(r) \/ Dead(r)
    \/ Attempt(r) \/ AttemptRaises(r) \/ Joined(r) \/ Teardown(r) \/ TeardownRaises(r)
    \/ Lookup(r) \/ Call(r) \/ Store(r)

Next ==
    \/ \E r \in Thread : Request(r) \/ Boot(r) \/ Step(r)
    \/ Stop \/ StopRaises \/ TrustExpires \/ SymbolsExpire \/ TerminalChanges

\* Every thread that can run does run.
Fairness == \A r \in Thread : WF_vars(Step(r))

Spec == Init /\ [][Next]_vars /\ Fairness

-----------------------------------------------------------------------------
\* Properties.

\* Every variable has its type; no attempt to connect is numbered beyond
\* connect_retries (terminal.py:94-97, 168-169).
TerminalTypeOK ==
    /\ up \in BOOLEAN /\ connected \in BOOLEAN /\ trusted \in BOOLEAN
    /\ symbols \in CachedSpec
    /\ connectLock \in Thread \cup {NoThread} /\ callLock \in Thread \cup {NoThread}
    /\ pc \in [Thread -> Label] /\ goal \in [Thread -> Goals]
    /\ tries \in [Thread -> 0..Retries] /\ loaded \in [Thread -> CachedSpec]
    /\ terminal \in Condition /\ session \in Session
    /\ asked \in 0..MaxRequests

\* The native library is not thread-safe: no two threads are inside it at a time
\* (terminal.py:147-151, 217-222).
OneNativeCall ==
    \A r, t \in Thread : pc[r] \in InNative /\ pc[t] \in InNative => r = t

\* The thread with the connect lock lets go of it, and nothing raises in that step.
ConnectEnds ==
    \E r \in Thread :
        /\ connectLock = r /\ connectLock' = NoThread
        /\ ~AttemptRaises(r) /\ ~TeardownRaises(r)

\* Whoever stops connecting, whether it has joined, has found the connection alive or
\* has given up, leaves no session behind that was opened and not logged in, its own
\* or another thread's, for failed attempts do not leak (terminal.py:194-196).  A
\* native call that raises in that very step is excepted: it may leave one.
NoHalfOpenSession == [][ConnectEnds => session' # "half"]_vars

\* The bridge believes in a connection only when its session was logged in, whatever
\* late answers of probes are written in between (terminal.py:146-158, 203, 211-212).
ConnectedHasSession == connected => session \in {"live", "lost"}

\* The native call of an operation is made in a session that was logged in: what
\* _session() says it guarantees (terminal.py:218-222).
CallsAreLoggedIn == \A r \in Thread : pc[r] = "calling" => session \in {"live", "lost"}

\* No connect runs while an operation is between the end of its own connect and
\* the end of its call.  Nothing in the code sees to it: _session() lets go of
\* the connect lock before it takes the call lock (terminal.py:217-222).
NoConnectOverCall ==
    \A r, t \in Thread :
        pc[r] \in {"want_call", "calling"} => pc[t] \notin {"attempting", "tearing"}

\* No lock that t waits for is held by anyone.
CanMove(t) ==
    /\ pc[t] # "idle"
    /\ pc[t] = "connecting" => connectLock = NoThread
    /\ pc[t] \in Waiting => callLock = NoThread

\* The two locks never have everyone waiting for everyone, and neither is left behind
\* by a thread that is gone: as long as a request is unanswered, some thread can go on,
\* whatever order probes, connects and calls took the locks in (terminal.py:94-97).
SomeoneCanMove == (\A r \in Thread : pc[r] = "idle") \/ \E t \in Thread : CanMove(t)

\* Every request, and every boot, comes to its end: no thread waits for ever for one
\* of the two locks, nor goes round for ever in connect (terminal.py:164, 176, 197).
EveryRequestAnswered == \A r \in Thread : pc[r] # "idle" ~> pc[r] = "idle"

\* With a terminal that works from then on, a request that connects comes to its
\* call with a live session, although it may find the flag up over a session that
\* was lost, or a half-open one left behind.  Only within the check interval, while
\* the flag is trusted without a look, may it go on over a lost session; the second
\* assumption is that nobody does (terminal.py:145-158, 162-203).
HealthyTerminalConnects ==
    \A r \in Thread :
        [](/\ pc[r] \in {"connecting", "want_probe", "want_attempt"}
           /\ goal[r] \in {"load", "call"}
           /\ [](terminal = "healthy" /\ (connected /\ trusted => session = "live"))
           => <>(pc[r] = "want_call" /\ session = "live"))

-----------------------------------------------------------------------------
\* The inductive invariant.

HoldsConnect(r) ==
    \/ pc[r] \in Connecting
    \/ pc[r] \in {"want_probe", "probing", "alive", "dead"} /\ goal[r] # "health"

\* The locks are with the threads whose labels say so, and with no others; a
\* health probe has none.
LocksHeld ==
    \A r \in Thread : /\ pc[r] \in InNative <=> callLock = r
                      /\ HoldsConnect(r) <=> connectLock = r
                      /\ pc[r] = "checking" => goal[r] = "health"
                      /\ pc[r] = "connecting" => goal[r] # "health"

\* Nobody believes in a connection while one is being made.
ConnectingIsDown == \A r \in Thread : pc[r] \in Connecting => ~connected

\* The session that a thread in connect has made, or has found and looks at, is there
\* for as long as it holds the connect lock.
SessionMade ==
    \A r \in Thread :
        \/ pc[r] = "joined"
        \/ pc[r] \in {"want_probe", "probing", "alive"} /\ goal[r] # "health"
        => session \in {"live", "lost"}

\* A thread that is past its connect has a session, as long as nobody connects over it.
CallHasSession ==
    \A r \in Thread : pc[r] \in {"want_call", "calling"} => session \in {"live", "lost"}

\* Locks, flags and session agree, at every step of every thread
\* (terminal.py:124-215).
TerminalInv ==
    /\ TerminalTypeOK /\ LocksHeld /\ ConnectingIsDown
    /\ SessionMade /\ ConnectedHasSession
=============================================================================
