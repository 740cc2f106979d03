---------------------------- MODULE OrderLimiter ----------------------------
(* InMemoryOrderLimiter (guards.py): at most MaxPerDay orders per UTC date,  *)
(* counted in memory.  Every method is one section under the limiter's lock. *)
EXTENDS Clocks

CONSTANT MaxPerDay  \* max_daily_orders

ASSUME LimiterAssumption == MaxPerDay \in Nat \ {0}

VARIABLES
    quotaDate,      \* _date: the date the count belongs to, 0 before any call
    quotaCount      \* _count

limiterVars == <<quotaDate, quotaCount>>

LimiterTypeOK == quotaDate \in 0..MaxDay /\ quotaCount \in 0..MaxPerDay

LimiterInit == quotaDate = 0 /\ quotaCount = 0

\* Mutant of RolledCount: no roll-over at midnight.
StaleCount == quotaCount

\* The count once _roll_over_if_needed has run.
RolledCount == IF quotaDate = today THEN quotaCount ELSE 0

\* Mutant of HasQuota: compares with > where the code has >=.
HasQuotaOffByOne == RolledCount <= MaxPerDay

HasQuota == RolledCount < MaxPerDay

\* check_and_increment; `quotaCount + 1' is the slot of the day it hands out.
CheckAndIncrement ==
    /\ HasQuota
    /\ quotaDate' = today
    /\ quotaCount' = RolledCount + 1

\* check_and_increment raising DailyLimitReached: it has rolled over already.
RefuseQuota ==
    /\ ~HasQuota
    /\ quotaDate' = today
    /\ quotaCount' = RolledCount
=============================================================================
