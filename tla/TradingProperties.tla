-------------------------- MODULE TradingProperties --------------------------
(* What the order path of the bridge promises, as properties of              *)
(* TradingService.                                                           *)
EXTENDS TradingService

Opening(i) == sent[i].payload.side # "close"

(* A confirmation token authorises at most one order, however many requests  *)
(* present it at once and however they interleave with its expiry, the sweep *)
(* and a restart (guards.py: "single-use: pop, never peek").                 *)
OneOrderPerToken ==
    RequireToken =>
        \A i, j \in DOMAIN sent : sent[i].token = sent[j].token => i = j

(* Every order sent is the symbol, side, volume and ticket that its token    *)
(* was minted for by a preview of the same process: a token for one lot size *)
(* or one ticket never moves another, an opening token never closes, and no  *)
(* token outlives the process that issued it (TokenPayload, redeem).         *)
OrderMatchesToken ==
    RequireToken =>
        \A i \in DOMAIN sent :
            /\ sent[i].token \in Token
            /\ minted[sent[i].token] # None
            /\ minted[sent[i].token].payload = sent[i].payload
            /\ minted[sent[i].token].boot = sent[i].boot

(* Whatever path led to it, an order that opens exposure is on an allowed    *)
(* symbol, on the broker's volume grid under the ceiling, on a demo account  *)
(* where that is required, and holds a quota unit of its own; a closing      *)
(* order holds none (execute, close).                                        *)
OpensAreGuarded ==
    \A i \in DOMAIN sent :
        IF Opening(i)
        THEN /\ sent[i].payload.symbol \in AllowedSymbol
             /\ VolumeValid(sent[i].payload.symbol, sent[i].payload.volume)
             /\ RequireDemo => sent[i].mode = "demo"
             /\ sent[i].unit # None
             /\ \A j \in DOMAIN sent : sent[j].unit = sent[i].unit => i = j
        ELSE sent[i].unit = None

\* The orders that hold a quota unit of one process and one day.
UnitOrders(b, d) ==
    {i \in DOMAIN sent :
        sent[i].unit # None /\ sent[i].unit.boot = b /\ sent[i].unit.day = d}

(* One process sends at most MaxPerDay orders on the quota of one UTC date,  *)
(* with any number of requests in flight (InMemoryOrderLimiter).             *)
DailyCeiling ==
    \A b \in 0..MaxRestarts, d \in 1..MaxDay :
        Cardinality(UnitOrders(b, d)) <= MaxPerDay

\* The requests that hold a unit of one day and have not sent their order.
UnitHolders(d) ==
    {r \in Request :
        req[r].unit # None /\ req[r].unit.day = d /\ req[r].order = 0}

(* The day's count is exactly the orders sent, plus those about to be sent,  *)
(* on its units: a rejected confirmation, a failed quote, wrong-side stops   *)
(* or a refused request never burn the day's budget (trading.py, the comment *)
(* on check_and_increment).                                                  *)
QuotaSpentOnlyOnOrders ==
    quotaCount = Cardinality(UnitOrders(boot, quotaDate))
               + Cardinality(UnitHolders(quotaDate))

(* A call refused by the demo-only block or the scale-in cooldown has used   *)
(* up neither its token nor a quota unit (trading.py: "a blocked attempt     *)
(* must not burn either").                                                   *)
BlockedCostsNothing ==
    \A r \in Request :
        req[r].verdict \in {"live_blocked", "cooldown"} =>
            req[r].held = None /\ req[r].unit = None

(* Two positions of one symbol that the bridge has opened on a live account  *)
(* and that are open together were opened at least Cooldown seconds apart    *)
(* (ScaleInCooldownGuard, README.md:187).  True while requests come one at a *)
(* time and positions_get answers, and only then.                            *)
NoScaleInTooSoon ==
    tradeMode # "demo" =>
        \A p, q \in positions \ OpenAtBoot :
            p.symbol = q.symbol /\ p.ticket < q.ticket =>
                q.opened - p.opened >= Cooldown

\* The levels of a call lie on their side of its entry price, or touch it.
StopsHold(q) ==
    LET sl == q.stops.sl
        tp == q.stops.tp
    IN  IF q.want.side = "buy"
        THEN (sl # None => sl <= q.price) /\ (tp # None => tp >= q.price)
        ELSE (sl # None => sl >= q.price) /\ (tp # None => tp <= q.price)

(* An order leaves with stops on the right side of the price it leaves with, *)
(* however the market has moved since its preview and whichever way they     *)
(* were rounded; at most they touch that price (_assert_stops_valid, and     *)
(* round_price after it).                                                    *)
StopsGuardEntry ==
    \A r \in Request :
        req[r].pc = "send" /\ req[r].kind = "execute" => StopsHold(req[r])

\* The rows about an order.
RowsAbout(i) == {k \in DOMAIN rows : rows[k].order = i}

(* Every journal row about an order tells what really happened to it: an     *)
(* `executed' or `closed' row is about one filled order of that kind, a      *)
(* `rejected' row about one that send_order raised on, and no order has two. *)
NoPhantomRows ==
    \A k \in DOMAIN rows : rows[k].event # "preview" =>
        /\ rows[k].order \in DOMAIN sent
        /\ RowsAbout(rows[k].order) = {k}
        /\ CASE rows[k].event = "executed" ->
                    sent[rows[k].order].filled /\ Opening(rows[k].order)
             [] rows[k].event = "closed" ->
                    sent[rows[k].order].filled /\ ~Opening(rows[k].order)
             [] OTHER -> sent[rows[k].order].reply # "done"

(* With a journal that accepts its rows, every order handed to the terminal  *)
(* is in the journal by the time its caller gets an answer, filled or not    *)
(* (journal.py: "Every order attempt is recorded"); only the death of the    *)
(* process between the two can lose one.                                     *)
AuditComplete ==
    \A i \in DOMAIN sent :
        \/ RowsAbout(i) # {}
        \/ sent[i].boot < boot
        \/ \E r \in Request : req[r].order = i /\ req[r].pc = "row"
-----------------------------------------------------------------------------
(* What the documentation says and the code does not do.                     *)

(* guards.py:163-165: clamping means the wait can never exceed the           *)
(* configured window, so a call is refused only while some position of its   *)
(* symbol is, in truth, younger than Cooldown.                               *)
CooldownWaitBounded ==
    [][\A r \in Request :
         req[r].verdict # "cooldown" /\ req'[r].verdict = "cooldown" =>
            \E p \in positions :
                p.symbol = req[r].want.symbol /\ now - p.opened < Cooldown]_vars

(* .env.example:51 and README.md:53: the circuit breaker caps the orders the *)
(* bridge sends in a UTC calendar day, no matter how many times it is called.*)
CalendarCeiling ==
    \A d \in 1..MaxDay :
        Cardinality({i \in DOMAIN sent : Opening(i) /\ sent[i].day = d}) <= MaxPerDay

\* Rows of filled orders, and the row of every close, carry a ticket.
HasTicket(row) ==
    \/ row.event \in {"executed", "closed"}
    \/ row.event = "rejected" /\ ~Opening(row.order)

DefaultLimit == 20

\* verify_trades, asked for the newest rows, prints "NO REAL ORDERS".
NoRealOrders ==
    LET shown == Recent(DefaultLimit)
    IN  /\ shown # <<>>
        /\ \A i \in DOMAIN shown : ~HasTicket(shown[i])

(* verify_trades.py:78-82: when it prints that, nothing the bot claims to    *)
(* have executed reached MT5.                                                *)
NoTicketNothingReachedBroker ==
    (\A r \in Request : req[r].pc # "row") /\ NoRealOrders
    => \A i \in DOMAIN sent : ~sent[i].filled
=============================================================================
