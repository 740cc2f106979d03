-------------------------- MODULE TradingInvariants --------------------------
(* The inductive invariants behind the theorems of TradingService_proofs.    *)
(* They relate what each thread holds to the store, the limiter, the account *)
(* and the orders sent, at every step of every method.                       *)
EXTENDS TradingRefinement

BeforeRedeem == {"idle", "issue", "preview_row", "account", "cooldown", "redeem"}
Ordering == {"account", "cooldown", "redeem", "check", "quote", "limit", "send"}
PastDemoCheck == {"cooldown", "redeem", "check", "quote", "limit", "send"}
PastRedeem == {"quote", "limit", "send"}

\* What the local state of one thread says about the path it has come.
ThreadOK(q) ==
    /\ q.pc \in BeforeRedeem => q.held = None
    /\ q.pc \notin {"row", "answered"} => q.order = 0
    /\ q.pc \notin {"send", "row", "answered"} => q.unit = None
    /\ q.pc \in Ordering \cup {"issue"} => q.want # None
    /\ q.pc \in Ordering =>
         \/ /\ q.kind = "execute"
            /\ q.stops # None
            /\ q.want.side # "close"
            /\ q.want.symbol \in AllowedSymbol
            /\ VolumeValid(q.want.symbol, q.want.volume)
            /\ q.pc = "send" => q.unit # None
            /\ RequireDemo /\ q.pc \in PastDemoCheck => tradeMode = "demo"
         \/ /\ q.kind = "close"
            /\ q.want.side = "close"
            /\ q.pc \notin {"account", "cooldown", "limit"}
            /\ q.unit = None
    /\ q.pc \in {"check"} \cup PastRedeem /\ q.held # None => q.token \in Token
    /\ RequireToken /\ q.pc \in PastRedeem =>
         q.held # None /\ q.held.payload = q.want

ThreadInv == \A r \in Request : ThreadOK(req[r])

\* A token in the store is the one its preview minted, in this process.
LiveMinted ==
    \A t \in Token : store[t] # None =>
        /\ minted[t] # None
        /\ minted[t].payload = store[t].payload
        /\ minted[t].boot = boot

\* A token a thread holds has left the store, and its entry is the minted one.
HeldMinted ==
    \A r \in Request, t \in Token : Holding(r, t) =>
        /\ store[t] = None
        /\ minted[t] # None
        /\ minted[t].payload = req[r].held.payload
        /\ minted[t].boot = boot

OneHolder ==
    \A r, s \in Request, t \in Token : Holding(r, t) /\ Holding(s, t) => r = s

\* The token of an order sent is gone from the store and from every thread.
SentSpent ==
    RequireToken =>
        \A i \in DOMAIN sent :
            /\ sent[i].token \in Token
            /\ store[sent[i].token] = None
            /\ \A r \in Request : ~Holding(r, sent[i].token)

TokenInv ==
    /\ LiveMinted
    /\ HeldMinted
    /\ OneHolder
    /\ SentSpent
    /\ OrderMatchesToken
    /\ OneOrderPerToken

\* A quota unit the limiter has handed out by now.
GivenOut(u) ==
    /\ u.slot \in 1..MaxPerDay
    /\ u.boot <= boot
    /\ u.boot = boot =>
         /\ u.day <= quotaDate
         /\ u.day = quotaDate => u.slot <= quotaCount

\* A thread in local state q has a unit and has not sent its order.
HasUnit(q) == q.unit # None /\ q.order = 0

UnitsGivenOut ==
    /\ \A i \in DOMAIN sent : sent[i].unit # None => GivenOut(sent[i].unit)
    /\ \A r \in Request : HasUnit(req[r]) => GivenOut(req[r].unit)

\* No unit is in two places.
UnitsDistinct ==
    /\ \A i, j \in DOMAIN sent :
         sent[i].unit # None /\ sent[i].unit = sent[j].unit => i = j
    /\ \A i \in DOMAIN sent, r \in Request :
         HasUnit(req[r]) => sent[i].unit # req[r].unit
    /\ \A r, s \in Request :
         HasUnit(req[r]) /\ HasUnit(req[s]) /\ req[r].unit = req[s].unit => r = s

QuotaInv == quotaDate <= today /\ UnitsGivenOut /\ UnitsDistinct

\* The units that threads hold are of the process they run in.
UnitsOfThisBoot == \A r \in Request : HasUnit(req[r]) => req[r].unit.boot = boot

SpendInv == UnitsOfThisBoot /\ QuotaSpentOnlyOnOrders

\* What the local state of one thread says about the way its call ends: it has
\* a verdict only then, and a unit it has not used only right before it sends.
PathOK(q) ==
    /\ q.pc # "answered" => q.verdict = "none"
    /\ q.verdict \in {"live_blocked", "cooldown"} => q.held = None /\ q.unit = None
    /\ q.pc \in {"limit", "send"} /\ q.kind = "execute" => StopsHold(q)
    /\ HasUnit(q) => q.pc = "send"

PathInv == \A r \in Request : PathOK(req[r])

\* An order sent is of this process or an earlier one, and a good answer to it
\* was not made up.
SentTrue ==
    \A i \in DOMAIN sent :
        /\ sent[i].boot <= boot
        /\ sent[i].reply = "done" => sent[i].filled

\* A thread about to write its row is the only one to write about its order.
AboutToRecord ==
    /\ \A r \in Request : req[r].pc = "row" =>
         /\ req[r].order \in DOMAIN sent
         /\ RowsAbout(req[r].order) = {}
         /\ req[r].kind = IF Opening(req[r].order) THEN "execute" ELSE "close"
    /\ \A r, s \in Request :
         req[r].pc = "row" /\ req[s].pc = "row" /\ req[r].order = req[s].order => r = s

\* Every fill is reported: the terminal never executes an order it then denies.
FillsReported == \A i \in DOMAIN sent : sent[i].filled => sent[i].reply = "done"

PreviewRows == \A k \in DOMAIN rows : rows[k].event = "preview" => rows[k].order = 0

RecordInv ==
    /\ SentTrue
    /\ AboutToRecord
    /\ PreviewRows
    /\ NoPhantomRows
    /\ JournalEnabled /\ ~JournalMayFail => AuditComplete

(* Everything above, at once: what the theorems of the order path rest on,   *)
(* for every interleaving of preview, execute and close (trading.py).        *)
IndInv ==
    /\ TypeOK /\ ThreadInv /\ TokenInv /\ QuotaInv /\ OpensAreGuarded
    /\ SpendInv /\ PathInv /\ RecordInv
-----------------------------------------------------------------------------
(* The quota against the calendar day.                                       *)

\* No thread takes a unit on one day and sends its order on another.  Nothing
\* in the code sees to it; check_and_increment and send_order are moments
\* apart, with the wait for the terminal's call lock between them.
NoStraddle == \A r \in Request : HasUnit(req[r]) => req[r].unit.day = today

\* The orders a day sees on a quota of another day, and the threads that are
\* about to send one.
Straddled(d) ==
    {i \in DOMAIN sent :
        sent[i].unit # None /\ sent[i].day = d /\ sent[i].unit.day # d}

LateHolders == {r \in Request : HasUnit(req[r]) /\ req[r].unit.day # today}

SentByNow == \A i \in DOMAIN sent : sent[i].day <= today

\* A thread takes no old unit, so those held at midnight are all there are.
FewStraddle ==
    \A d \in 1..MaxDay :
        Cardinality(Straddled(d))
          + (IF d = today THEN Cardinality(LateHolders) ELSE 0)
        <= Cardinality(Request)

CalendarInv == SentByNow /\ FewStraddle

\* The orders that open exposure on one calendar day.
OpenedOn(d) == {i \in DOMAIN sent : Opening(i) /\ sent[i].day = d}

(* What the daily limit makes of CalendarCeiling when nothing is assumed of  *)
(* restarts and midnights: every process of the day has a quota of its own,  *)
(* and every thread may bring one order over midnight (trading.py:218-236,   *)
(* InMemoryOrderLimiter).                                                    *)
CalendarBound ==
    \A d \in 1..MaxDay :
        Cardinality(OpenedOn(d)) <= (MaxRestarts + 1) * MaxPerDay + Cardinality(Request)
-----------------------------------------------------------------------------
(* The scale-in cooldown, while the executes of one symbol pass it one at a  *)
(* time.                                                                     *)

\* The positions the bridge has opened and that are still open.
Opened == positions \ OpenAtBoot

\* A thread in local state q has passed the cooldown check and has its order
\* still before it.
Cleared(q) ==
    q.kind = "execute" /\ q.pc \in {"redeem", "check", "quote", "limit", "send"}

\* No two calls of execute are between that check and send_order at once for
\* one symbol.  No lock of the code sees to it: see cooldown_race.cfg.
OneClearedPerSymbol ==
    \A r, s \in Request :
        Cleared(req[r]) /\ Cleared(req[s]) /\ req[r].want.symbol = req[s].want.symbol
        => r = s

\* Tickets are handed out in the order positions are opened, and a stamp is
\* the opening time on the broker's clock.
StampsInOrder ==
    \A p \in Opened :
        /\ p.ticket <= lastTicket
        /\ p.opened <= now
        /\ p.time_open = p.opened + BrokerOffset

\* What the check has found holds until the order leaves.
ClearedRoom ==
    tradeMode # "demo" =>
        \A r \in Request, p \in Opened :
            Cleared(req[r]) /\ p.symbol = req[r].want.symbol =>
                now - p.opened >= Cooldown

(* What one execute has found at the cooldown check is still true when its   *)
(* order leaves, so two positions opened on a live account are a cooldown    *)
(* apart (trading.py:210-236).  Inductive under OneClearedPerSymbol only.    *)
ScaleInInv == StampsInOrder /\ ClearedRoom /\ NoScaleInTooSoon

\* By its stamp no open position is younger than it is, so the guard makes
\* nobody wait longer than the cooldown.
StampsNotAhead == \A p \in positions : p.time_open <= p.opened
=============================================================================
