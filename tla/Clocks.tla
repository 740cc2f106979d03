------------------------------- MODULE Clocks -------------------------------
(* The clocks the guards read: `now' stands for time.monotonic (token store) *)
(* and for the UTC wall clock in seconds (cooldown), which run at one rate;  *)
(* `today' is the UTC date of the order limiter.  Any tick may be the one    *)
(* that crosses midnight.                                                    *)
EXTENDS Integers

CONSTANTS
    MaxTime,    \* bound: the last second of a run
    MaxDay      \* bound: the last UTC date of a run

VARIABLES now, today

clockVars == <<now, today>>

ASSUME ClocksAssumption == MaxTime \in Nat /\ MaxDay \in Nat \ {0}

ClocksTypeOK == now \in 0..MaxTime /\ today \in 1..MaxDay

ClocksInit == now = 0 /\ today = 1

Tick ==
    /\ now < MaxTime
    /\ now' = now + 1
    /\ today' \in {today, today + 1} \cap (1..MaxDay)
=============================================================================
