------------------------------- MODULE ApiKey -------------------------------
(* verify_api_key (dependencies.py), which every route runs first: it asks   *)
(* the limiter, compares the key, and reports the outcome to the limiter.    *)
(* The two calls are separate sections of the limiter's lock, so requests in *)
(* other threads come in between.                                            *)
EXTENDS AuthAttemptLimiter

CONSTANT Thread     \* threads that may serve a request at the same time

ASSUME ApiKeyAssumption == IsFiniteSet(Thread)

VARIABLES
    request,    \* where each thread stands, and how its request was answered
    due,        \* ghost: seconds to go of the lock last set, 0 if it is over or lifted
    overtaken,  \* ghost: requests past the check when that lock was first set
    late,       \* ghost: wrong keys judged since, while it has been in force
    wrongAges   \* ghost: ages of the wrong keys judged since the last good key,
                \* restart or MaxFailures of them; those of Window and more are
                \* forgotten

ghosts == <<due, overtaken, late, wrongAges>>
vars == <<limiterVars, request, ghosts>>

\* "right" and "wrong" are requests past the check, by the key they carry.
RequestState == {"idle", "right", "wrong", "ok", "unauthorized", "locked"}

PastCheck(r) == request[r] \in {"right", "wrong"}

InForce == due > 0

Answered(r) == request[r] \in {"ok", "unauthorized", "locked"}

TypeOK ==
    /\ LimiterTypeOK
    /\ request \in [Thread -> RequestState]
    /\ due \in 0..Lockout
    /\ overtaken \subseteq Thread
    /\ late \in Nat
    /\ wrongAges \in Seq(0..Window - 1)

Init ==
    /\ LimiterInit
    /\ request = [r \in Thread |-> "idle"]
    /\ due = 0
    /\ overtaken = {}
    /\ late = 0
    /\ wrongAges = <<>>

Becomes(r, s) == request' = [request EXCEPT ![r] = s]

\* Mutant of Check: an attempt during a lock counts as a failure of its own.
CheckRecordsLocked(r) ==
    /\ request[r] = "idle"
    /\ \/ CheckNotLockedOut /\ \E key \in {"right", "wrong"} : Becomes(r, key)
       \/ LockedOut /\ RecordFailure /\ Becomes(r, "locked")
    /\ UNCHANGED ghosts

\* The first call of verify_api_key.
Check(r) ==
    /\ request[r] = "idle"
    /\ \/ CheckNotLockedOut /\ \E key \in {"right", "wrong"} : Becomes(r, key)
       \/ LockedOut /\ Becomes(r, "locked") /\ UNCHANGED limiterVars
    /\ UNCHANGED ghosts

\* The comparison fails and is reported; the answer is 401.
RejectKey(r) ==
    /\ request[r] = "wrong"
    /\ RecordFailure
    /\ Becomes(r, "unauthorized")
    /\ due' = IF lockLeft' = Lockout THEN Lockout ELSE due
    /\ late' = IF InForce THEN late + 1 ELSE 0
    /\ overtaken' = IF InForce THEN overtaken \ {r}
                    ELSE {q \in Thread \ {r} : PastCheck(q)}
    /\ wrongAges' = IF Len(wrongAges) + 1 >= MaxFailures THEN <<>>
                    ELSE Append(wrongAges, 0)

\* The comparison succeeds and is reported; the route runs.
AcceptKey(r) ==
    /\ request[r] = "right"
    /\ RecordSuccess
    /\ Becomes(r, "ok")
    /\ due' = 0
    /\ overtaken' = {}
    /\ late' = 0
    /\ wrongAges' = <<>>

\* The response is out and the thread is free.
Respond(r) ==
    /\ Answered(r)
    /\ Becomes(r, "idle")
    /\ UNCHANGED <<limiterVars, ghosts>>

Tick ==
    /\ SecondPasses
    /\ wrongAges' = Young([i \in DOMAIN wrongAges |-> wrongAges[i] + 1])
    /\ due' = IF InForce THEN due - 1 ELSE 0
    /\ UNCHANGED <<request, overtaken, late>>

\* A new process: failures, lock and requests of the old one are gone.
Restart ==
    /\ failureAges' = <<>>
    /\ lockLeft' = None
    /\ request' = [r \in Thread |-> "idle"]
    /\ due' = 0
    /\ overtaken' = {}
    /\ late' = 0
    /\ wrongAges' = <<>>

Serve(r) == Check(r) \/ RejectKey(r) \/ AcceptKey(r) \/ Respond(r)

Next ==
    \/ \E r \in Thread : Serve(r)
    \/ Tick
    \/ Restart

\* Nothing is asked of the callers: time passes, that is all.
Fairness == WF_vars(Tick)

Spec == Init /\ [][Next]_vars /\ Fairness
-----------------------------------------------------------------------------
\* The request of r is judged in this step, with 200 or 401.
Judged(r) == PastCheck(r) /\ request'[r] \in {"ok", "unauthorized"}

(* While a lock is in force no request is judged by its key, right or wrong, *)
(* unless it had passed the check before the lock was set (dependencies.py:  *)
(* "once locked out, a caller gets 429s regardless of what key they send").  *)
VerdictPrecedesLock ==
    [][\A r \in Thread : InForce /\ Judged(r) => r \in overtaken]_vars

(* The gap between check and report costs little: during one lock, however   *)
(* often requests already past the check set it again, fewer wrong keys are  *)
(* judged than there are threads.                                            *)
LateFailuresBounded ==
    InForce => late + Cardinality(overtaken) < Cardinality(Thread)

(* A wrong key sets the lock exactly when it is the MaxFailures-th within    *)
(* Window seconds since the last good key, restart or such burst: slow ones  *)
(* never add up to a lock, and no burst goes without one.  (A lock set in    *)
(* this very second cannot be seen to be set again.)                         *)
BurstLocks ==
    [][\A r \in Thread :
         Judged(r) /\ request'[r] = "unauthorized" /\ due # Lockout =>
            (lockLeft' = Lockout <=> Len(wrongAges) + 1 >= MaxFailures)]_vars

(* Every lock ends, although callers that are locked out keep calling and    *)
(* requests already past the check may set it again.                         *)
LockoutEnds == LockedOut ~> ~LockedOut

(* What the proofs use: a lock has its full time, no more and no less, and   *)
(* whoever is past the check meanwhile was overtaken by it.                  *)
LockInv ==
    /\ lockLeft \in 0..Lockout \cup {None}
    /\ due = IF LockedOut THEN lockLeft ELSE 0
    /\ request \in [Thread -> RequestState]
    /\ overtaken \subseteq Thread
    /\ late \in Nat
    /\ InForce => \A r \in Thread : PastCheck(r) => r \in overtaken
    /\ LateFailuresBounded

\* A list of ages is in the order of its times.
OldestFirst(ages) == \A i, j \in DOMAIN ages : i < j => ages[i] >= ages[j]

(* What the proofs of TypeOK and BurstLocks use: the failures that still     *)
(* count are the wrong keys that were judged, although the list keeps the    *)
(* others until the next failure.                                            *)
BurstInv ==
    /\ failureAges \in Seq(0..Window)
    /\ Len(failureAges) < MaxFailures
    /\ OldestFirst(failureAges)
    /\ wrongAges = Recent
=============================================================================
