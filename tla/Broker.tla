------------------------------- MODULE Broker -------------------------------
(* The MetaTrader 5 terminal and the broker behind it, as the bridge uses    *)
(* them (external code).  The account is a hedging one: every filled order   *)
(* that does not name a position opens a position of its own.                *)
EXTENDS Models, Clocks, FiniteSets

CONSTANTS
    TradeModes,         \* the kinds of account a run may be connected to
    OpenAtBoot,         \* the positions already open when the bridge starts
    BrokerOffset,       \* broker server time minus UTC, in seconds
    Outcomes,           \* the [reply, filled] pairs order_send may end in
    TerminalMayFail     \* may a native call fail to answer?

\* What order_send comes back with.  "done" is TRADE_RETCODE_DONE, "other_code"
\* any other retcode, "nothing" Python's None or an exception out of the call, and
\* "no_session" a connect that fails or raises before it.
Reply == {"done", "other_code", "nothing", "no_session"}

Outcome == [reply : Reply, filled : BOOLEAN]

\* account_info().trade_mode: 0, 1, 2, or a value int() does not read.
TradeMode == {"demo", "contest", "real", "unreadable"}

ASSUME BrokerAssumption ==
    /\ TradeModes \subseteq TradeMode
    /\ OpenAtBoot \subseteq Position
    /\ IsFiniteSet(OpenAtBoot)
    /\ BrokerOffset \in Int
    /\ Outcomes \subseteq Outcome
    /\ \A o \in Outcomes : /\ o.reply = "done" => o.filled
                           /\ o.reply = "no_session" => ~o.filled
    /\ \E o \in Outcomes : ~o.filled
    /\ TerminalMayFail \in BOOLEAN

VARIABLES
    positions,      \* the open positions
    lastTicket,     \* the newest ticket handed out
    tradeMode       \* account_info().trade_mode of the account logged into

brokerVars == <<positions, lastTicket, tradeMode>>

BrokerTypeOK ==
    /\ positions \subseteq Position
    /\ lastTicket \in Nat
    /\ tradeMode \in TradeModes

BrokerInit ==
    /\ positions = OpenAtBoot
    /\ lastTicket = Cardinality(OpenAtBoot)
    /\ tradeMode \in TradeModes

IsOpen(ticket) == \E p \in positions : p.ticket = ticket

\* The position an accepted opening order creates.
NewPosition(payload) ==
    [ticket |-> lastTicket + 1, symbol |-> payload.symbol, side |-> payload.side,
     volume |-> payload.volume, opened |-> now, time_open |-> now + BrokerOffset]

\* Outcomes open to an order.  A closing order names its position, and one
\* that is no longer open cannot be filled.
OutcomesFor(payload) ==
    {o \in Outcomes :
        payload.side = "close" /\ o.filled => IsOpen(payload.ticket)}

\* What an order does to the account.
Fill(payload) ==
    IF payload.side = "close"
    THEN /\ positions' = {p \in positions : p.ticket # payload.ticket}
         /\ UNCHANGED <<lastTicket, tradeMode>>
    ELSE /\ positions' = positions \cup {NewPosition(payload)}
         /\ lastTicket' = lastTicket + 1
         /\ UNCHANGED tradeMode

\* A stop, a target or the operator closes a position behind the bridge's back.
BrokerCloses ==
    \E p \in positions :
        /\ positions' = positions \ {p}
        /\ UNCHANGED <<lastTicket, tradeMode>>
=============================================================================
