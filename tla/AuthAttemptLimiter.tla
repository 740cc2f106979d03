------------------------- MODULE AuthAttemptLimiter -------------------------
(* InMemoryAuthAttemptLimiter (guards.py): MaxFailures wrong keys within     *)
(* Window seconds lock every caller out for Lockout seconds.  Each operation *)
(* is one section under the limiter's lock.  Instants are kept by their      *)
(* distance from the present: a failure by its age, the end of the lock by   *)
(* the seconds left to it.                                                   *)
EXTENDS Integers, Sequences, FiniteSets

CONSTANTS
    MaxFailures,    \* max_failures
    Window,         \* window_seconds
    Lockout,        \* lockout_seconds
    None

ASSUME AuthLimiterAssumption ==
    /\ MaxFailures \in Nat \ {0}
    /\ Window \in Nat \ {0}
    /\ Lockout \in Nat \ {0}
    /\ None \notin Nat

VARIABLES
    failureAges,    \* _failure_times, oldest first; an age stops at Window, where it no
                    \* longer counts
    lockLeft        \* _locked_until: seconds left, 0 when it has passed, None if unset

limiterVars == <<failureAges, lockLeft>>

LimiterTypeOK ==
    /\ failureAges \in Seq(0..Window) /\ Len(failureAges) < MaxFailures
    /\ lockLeft \in 0..Lockout \cup {None}

LimiterInit == failureAges = <<>> /\ lockLeft = None

LockedOut == lockLeft # None /\ lockLeft > 0

\* Mutant of CheckNotLockedOut: the last second of a lock counts as over.
CheckEarly ==
    /\ lockLeft \in {None, 0, 1}
    /\ lockLeft' = None
    /\ UNCHANGED failureAges

\* check_not_locked_out, not raising: a lock that has passed is cleared.
CheckNotLockedOut ==
    /\ ~LockedOut
    /\ lockLeft' = None
    /\ UNCHANGED failureAges

\* The ages below Window.  A list is in the order of its times, so keeping those
\* drops its head.
Young(ages) ==
    SubSeq(ages, Cardinality({i \in DOMAIN ages : ages[i] >= Window}) + 1, Len(ages))

\* Mutant of Recent: nothing is pruned.
Unpruned == failureAges

\* The failures that still count.
Recent == Young(failureAges)

\* Mutant of RecordFailure: compares with > where the code has >=.
RecordFailureLate ==
    IF Len(Recent) >= MaxFailures
    THEN lockLeft' = Lockout /\ failureAges' = <<>>
    ELSE failureAges' = Append(Recent, 0) /\ UNCHANGED lockLeft

\* record_failure: the lock is set, or set again, and the list starts afresh.
RecordFailure ==
    IF Len(Recent) + 1 >= MaxFailures
    THEN /\ lockLeft' = Lockout
         /\ failureAges' = <<>>
    ELSE /\ failureAges' = Append(Recent, 0)
         /\ UNCHANGED lockLeft

\* record_success: a good key clears the failures, and a lock in force too.
RecordSuccess == failureAges' = <<>> /\ lockLeft' = None

\* A second of the injected clock.
SecondPasses ==
    /\ failureAges' = [i \in DOMAIN failureAges |->
                         IF failureAges[i] < Window THEN failureAges[i] + 1 ELSE Window]
    /\ lockLeft' = IF LockedOut THEN lockLeft - 1 ELSE lockLeft
=============================================================================
