--------------------------- MODULE OrderAuthority ---------------------------
(* What the confirmation flow promises, whatever its threads, locks, clocks  *)
(* and restarts do: a token is granted once, for one action; from then on it *)
(* either places that action, once, or is withdrawn for good.                *)
EXTENDS Sequences

CONSTANTS Token, Action, None

VARIABLES
    status,     \* where each token is in its life
    authorised, \* the action a token was granted for, None before that
    placed      \* the orders placed so far, each with its token

authorityVars == <<status, authorised, placed>>

Status == {"unused", "live", "withdrawn", "placed"}

AuthorityTypeOK ==
    /\ status \in [Token -> Status]
    /\ authorised \in [Token -> Action \cup {None}]
    /\ placed \in Seq([token : Token, action : Action])

Init ==
    /\ status = [t \in Token |-> "unused"]
    /\ authorised = [t \in Token |-> None]
    /\ placed = <<>>

\* A preview: a token never used before now stands for some action.  Tokens
\* that have run out may be withdrawn on the occasion.
Grant(t) ==
    /\ status[t] = "unused"
    /\ \E runOut \in SUBSET {u \in Token : status[u] = "live"} :
         status' = [u \in Token |-> IF u = t THEN "live"
                                    ELSE IF u \in runOut THEN "withdrawn"
                                    ELSE status[u]]
    /\ authorised'[t] \in Action
    /\ authorised' = [authorised EXCEPT ![t] = authorised'[t]]
    /\ UNCHANGED placed

\* Expiry, a mismatched or failed call, or a restart: any live tokens end.
Withdraw ==
    /\ \E gone \in SUBSET {u \in Token : status[u] = "live"} :
         status' = [u \in Token |-> IF u \in gone THEN "withdrawn" ELSE status[u]]
    /\ UNCHANGED <<authorised, placed>>

\* An order reaches the terminal: the action its token was granted for.
Place(t) ==
    /\ status[t] = "live"
    /\ status' = [status EXCEPT ![t] = "placed"]
    /\ placed' = Append(placed, [token |-> t, action |-> authorised[t]])
    /\ UNCHANGED authorised

Next ==
    \/ \E t \in Token : Grant(t) \/ Place(t)
    \/ Withdraw

Spec == Init /\ [][Next]_authorityVars
=============================================================================
