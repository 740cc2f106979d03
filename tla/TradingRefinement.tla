-------------------------- MODULE TradingRefinement --------------------------
(* TradingService with confirmation tokens required implements               *)
(* OrderAuthority.                                                           *)
EXTENDS TradingProperties

\* A thread in local state q may still send an order on the strength of t.
Holds(q, t) ==
    q.token = t /\ q.held # None /\ q.order = 0 /\ q.pc # "answered"

Holding(r, t) == Holds(req[r], t)

PlacedBy(t) == {i \in DOMAIN sent : sent[i].token = t}

StatusOf(t) ==
    IF minted[t] = None THEN "unused"
    ELSE IF PlacedBy(t) # {} THEN "placed"
    ELSE IF store[t] # None \/ \E r \in Request : Holding(r, t) THEN "live"
    ELSE "withdrawn"

Authority == INSTANCE OrderAuthority WITH
    Action <- TokenPayload,
    status <- [t \in Token |-> StatusOf(t)],
    authorised <- [t \in Token |->
        IF minted[t] = None THEN None ELSE minted[t].payload],
    placed <- [i \in DOMAIN sent |->
        [token |-> sent[i].token, action |-> sent[i].payload]]

(* Every step of the bridge is a step of the authority or leaves it alone:   *)
(* no interleaving of previews, executions, closes, expiry and restarts      *)
(* grants a token twice, revives a withdrawn one, or places an order that is *)
(* not the one granted.                                                      *)
ImplementsOrderAuthority == Authority!Spec
=============================================================================
