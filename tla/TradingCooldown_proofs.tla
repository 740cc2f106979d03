------------------------ MODULE TradingCooldown_proofs ------------------------
(* What the scale-in guard does promise, proved for every value of the       *)
(* constants: the gap that cooldown_race.cfg shows is the only one.          *)
EXTENDS TradingService_proofs

\* What the guard lets through is at least Cooldown seconds behind, whatever
\* the broker's clock is ahead of UTC.
LEMMA NotBlocked ==
    ASSUME TypeOK, BrokerOffset >= 0, StampsInOrder,
           NEW p \in Opened, ~CooldownBlocks(p.symbol, positions)
    PROVE  now - p.opened >= Cooldown
<1>1. /\ p \in positions /\ p.opened \in Int /\ p.opened <= now
      /\ p.time_open = p.opened + BrokerOffset
  BY DEF TypeOK, BrokerTypeOK, Opened, Position, StampsInOrder
<1>2. now \in Int /\ BrokerOffset \in Int /\ Cooldown \in Nat
  BY ClocksAssumption, BrokerAssumption, CooldownAssumption DEF TypeOK, ClocksTypeOK
<1>3. ~(Cooldown - Elapsed(p) > 0)
  BY <1>1 DEF CooldownBlocks
<1>. QED
  BY <1>1, <1>2, <1>3 DEF Elapsed

\* A step that leaves the account alone and clears no thread, or only one for
\* which there is room, keeps the invariant.
LEMMA ScaleInFrame ==
    ASSUME TypeOK, ScaleInInv, UNCHANGED <<clockVars, brokerVars>>,
           \A s \in Request :
             \/ ~Cleared(req'[s])
             \/ Cleared(req[s]) /\ req'[s].want = req[s].want
             \/ tradeMode = "demo"
             \/ \A p \in Opened :
                  p.symbol = req'[s].want.symbol => now - p.opened >= Cooldown
    PROVE  ScaleInInv'
<1>1. UNCHANGED <<positions, lastTicket, tradeMode, now>>
  BY DEF clockVars, brokerVars
<1>2. StampsInOrder' /\ NoScaleInTooSoon'
  BY <1>1 DEF ScaleInInv, StampsInOrder, NoScaleInTooSoon, Opened
<1>3. ClearedRoom'
  BY <1>1 DEF ScaleInInv, ClearedRoom, Opened
<1>. QED
  BY <1>2, <1>3 DEF ScaleInInv

\* The steps of a thread but for the check itself and send_order: they clear
\* no thread, except on a demo account, and no thread changes its mind.
LEMMA ClearedBefore ==
    ASSUME TypeOK, ThreadInv, NEW r \in Request, Call(r) \/ Serve(r),
           ~CheckCooldown(r), ~SendOrder(r)
    PROVE  /\ UNCHANGED <<clockVars, brokerVars>>
           /\ \A s \in Request :
                \/ ~Cleared(req'[s])
                \/ Cleared(req[s]) /\ req'[s].want = req[s].want
                \/ tradeMode = "demo"
<1>. DEFINE Fine(q) == \/ ~Cleared(q)
                       \/ Cleared(req[r]) /\ q.want = req[r].want
                       \/ tradeMode = "demo"
<1>1. req \in [Request -> RequestState] /\ ThreadOK(req[r])
  BY DEF TypeOK, ThreadInv
<1>2. ASSUME NEW q, Becomes(r, q), Fine(q), UNCHANGED <<clockVars, brokerVars>>
      PROVE  /\ UNCHANGED <<clockVars, brokerVars>>
             /\ \A s \in Request :
                  \/ ~Cleared(req'[s])
                  \/ Cleared(req[s]) /\ req'[s].want = req[s].want
                  \/ tradeMode = "demo"
  <2>1. \A s \in Request : req'[s] = IF s = r THEN q ELSE req[s]
    BY <1>1, <1>2 DEF Becomes
  <2>. QED
    BY <1>2, <2>1
<1>3. ASSUME NEW verdict, Answer(r, verdict)
      PROVE  \E q : Becomes(r, q) /\ ~Cleared(q)
  <2>. DEFINE q == [Idle EXCEPT !.pc = "answered", !.kind = req[r].kind,
                                !.held = req[r].held, !.unit = req[r].unit,
                                !.order = req[r].order, !.verdict = verdict]
  <2>1. Becomes(r, q)
    BY <1>3 DEF Answer
  <2>2. ~Cleared(q)
    BY DEF Idle, Cleared
  <2>. QED
    BY <2>1, <2>2
<1>4. ASSUME NEW kind, NEW verdict, Refuse(r, kind, verdict)
      PROVE  \E q : Becomes(r, q) /\ ~Cleared(q)
  <2>. DEFINE q == [Idle EXCEPT !.pc = "answered", !.kind = kind, !.verdict = verdict]
  <2>1. Becomes(r, q)
    BY <1>4 DEF Refuse
  <2>2. ~Cleared(q)
    BY DEF Idle, Cleared
  <2>. QED
    BY <2>1, <2>2
<1>5. ASSUME NEW pc, Goto(r, pc), Cleared(req[r]) \/ req[r].kind # "execute"
      PROVE  \E q : Becomes(r, q) /\ Fine(q)
  <2>. DEFINE q == [req[r] EXCEPT !.pc = pc]
  <2>1. Becomes(r, q) /\ q.kind = req[r].kind /\ q.want = req[r].want
    BY <1>1, <1>5 DEF Goto, RequestState
  <2>2. Fine(q)
    BY <1>5, <2>1 DEF Cleared
  <2>. QED
    BY <2>1, <2>2
<1>6. ASSUME Call(r)
      PROVE  /\ \E q : Becomes(r, q) /\ Fine(q)
             /\ UNCHANGED <<clockVars, brokerVars>>
  <2>1. UNCHANGED <<clockVars, brokerVars>>
    BY <1>6 DEF Call, PreviewOrder, ExecuteOrder, PreviewClose, CloseOrder
  <2>2. ASSUME NEW q, Becomes(r, q), q.kind # "execute" \/ q.pc = "account"
        PROVE  \E p : Becomes(r, p) /\ Fine(p)
    BY <2>2 DEF Cleared
  <2>3. ASSUME NEW intent \in Intents,
               \/ PreviewOrder(r, intent)
               \/ \E token \in KnownToken : ExecuteOrder(r, intent, token)
        PROVE  \E q : Becomes(r, q) /\ Fine(q)
    <3>. HIDE DEF Fine
    <3>. QED
      BY <1>4, <2>2, <2>3 DEF PreviewOrder, ExecuteOrder, Idle, Fine
  <2>4. ASSUME NEW ticket \in Ticket,
               \/ PreviewClose(r, ticket)
               \/ \E token \in KnownToken : CloseOrder(r, ticket, token)
        PROVE  \E q : Becomes(r, q) /\ Fine(q)
    <3>. HIDE DEF Fine
    <3>. QED
      BY <1>4, <2>2, <2>4 DEF PreviewClose, CloseOrder, Idle, Fine
  <2>. QED
    BY <1>6, <2>1, <2>3, <2>4 DEF Call
<1>7. ASSUME \E token \in Token : IssueToken(r, token)
      PROVE  /\ \E q : Becomes(r, q) /\ Fine(q)
             /\ UNCHANGED <<clockVars, brokerVars>>
  <2>1. PICK token \in Token : IssueToken(r, token)
    BY <1>7
  <2>2. CASE Becomes(r, [req[r] EXCEPT !.token = token, !.pc = "preview_row"])
    <3>1. ~Cleared([req[r] EXCEPT !.token = token, !.pc = "preview_row"])
      BY <1>1 DEF Cleared, RequestState
    <3>. QED
      BY <2>1, <2>2, <3>1 DEF IssueToken
  <2>. QED
    BY <1>3, <2>1, <2>2 DEF IssueToken
<1>8. ASSUME RecordPreview(r) \/ RecordOrder(r)
      PROVE  /\ \E q : Becomes(r, q) /\ Fine(q)
             /\ UNCHANGED <<clockVars, brokerVars>>
  BY <1>3, <1>8 DEF RecordPreview, RecordOrder
<1>9. ASSUME ReadAccount(r)
      PROVE  /\ \E q : Becomes(r, q) /\ Fine(q)
             /\ UNCHANGED <<clockVars, brokerVars>>
  <2>1. ASSUME Goto(r, "cooldown") PROVE \E q : Becomes(r, q) /\ ~Cleared(q)
    <3>1. ~Cleared([req[r] EXCEPT !.pc = "cooldown"])
      BY <1>1 DEF Cleared, RequestState
    <3>. QED
      BY <2>1, <3>1 DEF Goto
  <2>2. ASSUME tradeMode = "demo", NEW pc, Goto(r, pc)
        PROVE  \E q : Becomes(r, q) /\ Fine(q)
    BY <2>2 DEF Goto
  <2>. QED
    BY <1>3, <1>9, <2>1, <2>2 DEF ReadAccount, Unavailable
<1>10. ASSUME RedeemPop(r)
       PROVE  /\ \E q : Becomes(r, q) /\ Fine(q)
              /\ UNCHANGED <<clockVars, brokerVars>>
  <2>. DEFINE q == [req[r] EXCEPT !.held = Popped(req[r].token), !.pc = "check"]
  <2>1. Becomes(r, q) /\ q.want = req[r].want /\ q.kind = req[r].kind
        /\ req[r].pc = "redeem"
    BY <1>1, <1>10 DEF RedeemPop, RequestState
  <2>2. Fine(q)
    BY <2>1 DEF Cleared
  <2>. QED
    BY <1>10, <2>1, <2>2 DEF RedeemPop
<1>11. ASSUME CheckToken(r) \/ QuoteEntry(r)
       PROVE  /\ \E q : Becomes(r, q) /\ Fine(q)
              /\ UNCHANGED <<clockVars, brokerVars>>
  <2>1. req[r].pc \in {"check", "quote"}
    BY <1>11 DEF CheckToken, QuoteEntry
  <2>2. Cleared(req[r]) \/ req[r].kind # "execute"
    BY <2>1 DEF Cleared
  <2>3. ASSUME NEW stops, NEW price,
               Becomes(r, [req[r] EXCEPT !.pc = "limit", !.stops = stops,
                                         !.price = price])
        PROVE  \E q : Becomes(r, q) /\ Fine(q)
    <3>. DEFINE q == [req[r] EXCEPT !.pc = "limit", !.stops = stops, !.price = price]
    <3>1. Becomes(r, q) /\ q.want = req[r].want /\ q.kind = req[r].kind
      BY <1>1, <2>3 DEF RequestState
    <3>. QED
      BY <2>2, <3>1 DEF Cleared
  <2>. QED
    BY <1>3, <1>5, <1>11, <2>2, <2>3 DEF CheckToken, QuoteEntry, Unavailable
<1>12. ASSUME TakeQuota(r)
       PROVE  /\ \E q : Becomes(r, q) /\ Fine(q)
              /\ UNCHANGED <<clockVars, brokerVars>>
  <2>. DEFINE q == [req[r] EXCEPT !.pc = "send", !.unit = NextUnit]
  <2>1. req[r].pc = "limit" /\ q.want = req[r].want /\ q.kind = req[r].kind
    BY <1>1, <1>12 DEF TakeQuota, RequestState
  <2>2. Fine(q)
    BY <2>1 DEF Cleared
  <2>. QED
    BY <1>3, <1>12, <2>2 DEF TakeQuota
<1>13. ASSUME Respond(r)
       PROVE  /\ \E q : Becomes(r, q) /\ Fine(q)
              /\ UNCHANGED <<clockVars, brokerVars>>
  BY <1>13 DEF Respond, Idle, Cleared
<1>. HIDE DEF Fine
<1>14. /\ \E q : Becomes(r, q) /\ Fine(q)
       /\ UNCHANGED <<clockVars, brokerVars>>
  BY <1>6, <1>7, <1>8, <1>9, <1>10, <1>11, <1>12, <1>13 DEF Serve
<1>. QED
  BY <1>2, <1>14

\* The check clears a thread only if no open position of its symbol is young.
LEMMA CheckScaleIn ==
    ASSUME TypeOK, ThreadInv, ScaleInInv, BrokerOffset >= 0, ~TerminalMayFail,
           NEW r \in Request, CheckCooldown(r)
    PROVE  ScaleInInv'
<1>1. /\ req \in [Request -> RequestState]
      /\ UNCHANGED <<clockVars, brokerVars>>
  BY DEF TypeOK, CheckCooldown
<1>2. CASE Answer(r, "cooldown")
  <2>1. \A s \in Request :
          \/ ~Cleared(req'[s])
          \/ Cleared(req[s]) /\ req'[s].want = req[s].want
    BY <1>1, <1>2 DEF Answer, Becomes, Idle, Cleared
  <2>. QED
    BY <1>1, <2>1, ScaleInFrame
<1>3. CASE ~CooldownBlocks(req[r].want.symbol, positions) /\ Goto(r, Authorise)
  <2>1. \A s \in Request :
          /\ s # r => req'[s] = req[s]
          /\ req'[s].want = req[s].want
    BY <1>1, <1>3 DEF Goto, Becomes, RequestState
  <2>2. \A p \in Opened :
          p.symbol = req[r].want.symbol => now - p.opened >= Cooldown
    BY <1>3, NotBlocked DEF ScaleInInv
  <2>. QED
    BY <1>1, <2>1, <2>2, ScaleInFrame
<1>. QED
  BY <1>2, <1>3 DEF CheckCooldown, Unavailable

\* An order opens a position for which there was room, and the only thread
\* cleared for its symbol is done.
LEMMA SendScaleIn ==
    ASSUME TypeOK, ThreadInv, ScaleInInv, OneClearedPerSymbol, BrokerOffset \in Nat,
           NEW r \in Request, SendOrder(r)
    PROVE  ScaleInInv'
<1>. DEFINE new == NewPosition(req[r].want)
<1>1. /\ req \in [Request -> RequestState] /\ ThreadOK(req[r])
      /\ req[r].pc = "send"
      /\ UNCHANGED <<now, tradeMode>>
      /\ \A s \in Request : Cleared(req'[s]) => s # r /\ req'[s] = req[s]
  <2>1. UNCHANGED tradeMode
    BY DEF SendOrder, Fill, brokerVars
  <2>. QED
    BY <2>1 DEF TypeOK, ThreadInv, SendOrder, Becomes, RequestState, Cleared, clockVars
<1>2. /\ now \in Int /\ lastTicket \in Nat
      /\ \A p \in positions : p.opened \in Int /\ p.ticket \in Nat
  BY ClocksAssumption
  DEF TypeOK, ClocksTypeOK, BrokerTypeOK, Position
<1>3. CASE positions' \subseteq positions /\ lastTicket' = lastTicket
  <2>1. Opened' \subseteq Opened
    BY <1>3 DEF Opened
  <2>. QED
    BY <1>1, <1>3, <2>1
    DEF ScaleInInv, StampsInOrder, ClearedRoom, NoScaleInTooSoon, Opened
<1>4. CASE /\ req[r].want.side # "close"
           /\ positions' = positions \cup {new}
           /\ lastTicket' = lastTicket + 1
  <2>1. /\ Opened' \subseteq Opened \cup {new}
        /\ new.ticket = lastTicket + 1 /\ new.symbol = req[r].want.symbol
        /\ new.opened = now /\ new.time_open = now + BrokerOffset
    BY <1>4 DEF Opened, NewPosition
  <2>2. \A p \in Opened :
          /\ p \in positions /\ p.ticket <= lastTicket /\ p.opened <= now
          /\ p.time_open = p.opened + BrokerOffset
    BY DEF ScaleInInv, StampsInOrder, Opened
  <2>3. Cleared(req[r])
    BY <1>1, <1>4 DEF ThreadOK, Ordering, Cleared
  <2>. HIDE DEF new
  <2>4. StampsInOrder'
    BY <1>1, <1>2, <1>4, <2>1, <2>2 DEF StampsInOrder
  <2>5. ClearedRoom'
    <3>. SUFFICES ASSUME tradeMode # "demo", NEW s \in Request, NEW p \in Opened',
                         Cleared(req'[s]), p.symbol = req'[s].want.symbol
                  PROVE  now - p.opened >= Cooldown
      BY <1>1 DEF ClearedRoom
    <3>1. s # r /\ req'[s] = req[s]
      BY <1>1
    <3>2. p # new
      BY <2>1, <2>3, <3>1 DEF OneClearedPerSymbol
    <3>. QED
      BY <2>1, <3>1, <3>2 DEF ScaleInInv, ClearedRoom
  <2>6. NoScaleInTooSoon'
    <3>. SUFFICES ASSUME tradeMode # "demo", NEW p \in Opened', NEW q \in Opened',
                         p.symbol = q.symbol, p.ticket < q.ticket
                  PROVE  q.opened - p.opened >= Cooldown
      BY <1>1 DEF NoScaleInTooSoon, Opened
    <3>1. CASE p \in Opened /\ q \in Opened
      BY <3>1 DEF ScaleInInv, NoScaleInTooSoon, Opened
    <3>2. CASE p \in Opened /\ q = new
      BY <2>1, <2>3, <3>2 DEF ScaleInInv, ClearedRoom
    <3>3. p # new
      BY <1>2, <2>1, <2>2
    <3>. QED
      BY <2>1, <3>1, <3>2, <3>3
  <2>. QED
    BY <2>4, <2>5, <2>6 DEF ScaleInInv
<1>. QED
  BY <1>3, <1>4 DEF SendOrder, Fill, brokerVars

\* The clock only makes positions older, and what closes a position only
\* makes room.
LEMMA EnvironmentScaleIn ==
    ASSUME TypeOK, ScaleInInv, Restart \/ TimePasses \/ PositionCloses
    PROVE  ScaleInInv'
<1>1. /\ now \in Int /\ \A p \in positions : p.opened \in Int
      /\ Cooldown \in Nat
  BY ClocksAssumption, CooldownAssumption DEF TypeOK, ClocksTypeOK, BrokerTypeOK, Position
<1>2. /\ positions' \subseteq positions
      /\ UNCHANGED <<lastTicket, tradeMode>>
      /\ now' \in Int /\ now' >= now
  BY <1>1
  DEF Restart, TimePasses, PositionCloses, BrokerCloses, Tick, brokerVars, clockVars
<1>3. \A s \in Request : Cleared(req'[s]) => req'[s] = req[s]
  BY DEF Restart, TimePasses, PositionCloses, serviceVars, Idle, Cleared
<1>4. Opened' \subseteq Opened /\ \A p \in Opened : p.opened \in Int
  BY <1>1, <1>2 DEF Opened
<1>5. StampsInOrder'
  BY <1>1, <1>2, <1>4 DEF ScaleInInv, StampsInOrder
<1>6. ClearedRoom'
  BY <1>1, <1>2, <1>3, <1>4 DEF ScaleInInv, ClearedRoom
<1>7. NoScaleInTooSoon'
  BY <1>2, <1>4 DEF ScaleInInv, NoScaleInTooSoon, Opened
<1>. QED
  BY <1>5, <1>6, <1>7 DEF ScaleInInv

LEMMA StepScaleIn ==
    ASSUME TypeOK, ThreadInv, ScaleInInv, OneClearedPerSymbol, BrokerOffset \in Nat,
           ~TerminalMayFail, [Next]_vars
    PROVE  ScaleInInv'
<1>1. CASE UNCHANGED vars
  <2>1. UNCHANGED <<clockVars, brokerVars, req>>
    BY <1>1 DEF vars, serviceVars
  <2>. QED
    BY <2>1, ScaleInFrame
<1>2. ASSUME NEW r \in Request, Call(r) \/ Serve(r) PROVE ScaleInInv'
  <2>1. CASE CheckCooldown(r)
    BY <2>1, CheckScaleIn
  <2>2. CASE SendOrder(r)
    BY <2>2, SendScaleIn
  <2>3. CASE ~CheckCooldown(r) /\ ~SendOrder(r)
    BY <1>2, <2>3, ClearedBefore, ScaleInFrame
  <2>. QED
    BY <2>1, <2>2, <2>3
<1>. QED
  BY <1>1, <1>2, EnvironmentScaleIn DEF Next

(* On a live account whose broker answers and whose clock is not behind UTC, *)
(* as long as no two executes of one symbol are between the cooldown check   *)
(* and send_order at once: what the check has found stays true until the     *)
(* order leaves, whatever else interleaves (trading.py:210-236).  That       *)
(* overlap is the one hole in ScaleInCooldownGuard.                          *)
THEOREM ScaleInHolds ==
    BrokerOffset >= 0 /\ ~TerminalMayFail
    => (Spec /\ []OneClearedPerSymbol => []ScaleInInv)
<1>. SUFFICES ASSUME BrokerOffset >= 0 /\ ~TerminalMayFail
              PROVE  Spec /\ []OneClearedPerSymbol => []ScaleInInv
  OBVIOUS
<1>1. Init => ScaleInInv
  BY DEF Init, BrokerInit, Idle, Opened, Cleared, ScaleInInv, StampsInOrder,
         ClearedRoom, NoScaleInTooSoon
<1>2. /\ TypeOK /\ ThreadInv /\ ScaleInInv /\ OneClearedPerSymbol /\ [Next]_vars
      => ScaleInInv'
  BY StepScaleIn, BrokerAssumption
<1>. QED
  BY <1>1, <1>2, TypeCorrect, PTL DEF Spec

(* Then any two positions of a symbol that the bridge has opened and that    *)
(* are open together are a cooldown apart (README.md:187).                   *)
THEOREM CooldownHolds ==
    BrokerOffset >= 0 /\ ~TerminalMayFail
    => (Spec /\ []OneClearedPerSymbol => []NoScaleInTooSoon)
<1>. SUFFICES ASSUME BrokerOffset >= 0 /\ ~TerminalMayFail
              PROVE  Spec /\ []OneClearedPerSymbol => []NoScaleInTooSoon
  OBVIOUS
<1>1. Spec /\ []OneClearedPerSymbol => []ScaleInInv
  BY ScaleInHolds
<1>2. ScaleInInv => NoScaleInTooSoon
  BY DEF ScaleInInv
<1>. QED
  BY <1>1, <1>2, PTL

(* With one request at a time both hold of themselves.                       *)
THEOREM CooldownHoldsInTurn ==
    BrokerOffset >= 0 /\ ~TerminalMayFail /\ (\A r, s \in Request : r = s)
    => (Spec => [](ScaleInInv /\ NoScaleInTooSoon))
<1>. SUFFICES ASSUME BrokerOffset >= 0 /\ ~TerminalMayFail,
                     \A r, s \in Request : r = s
              PROVE  Spec => [](ScaleInInv /\ NoScaleInTooSoon)
  OBVIOUS
<1>1. /\ Spec /\ []OneClearedPerSymbol => []ScaleInInv
      /\ Spec /\ []OneClearedPerSymbol => []NoScaleInTooSoon
  BY ScaleInHolds, CooldownHolds
<1>2. OneClearedPerSymbol
  BY DEF OneClearedPerSymbol
<1>. QED
  BY <1>1, <1>2, PTL
-----------------------------------------------------------------------------
(* The other side of the guard: whom it refuses.                             *)

\* What a step does to the account: positions go, or one opens at its time.
LEMMA AccountMoves ==
    ASSUME TypeOK, ThreadInv, [Next]_vars
    PROVE  \/ positions' \subseteq positions
           \/ \E payload : positions' = positions \cup {NewPosition(payload)}
<1>1. CASE UNCHANGED vars
  BY <1>1 DEF vars, brokerVars
<1>2. ASSUME NEW r \in Request, SendOrder(r)
      PROVE  \/ positions' \subseteq positions
             \/ \E payload : positions' = positions \cup {NewPosition(payload)}
  BY <1>2 DEF SendOrder, Fill, brokerVars
<1>3. CASE Restart \/ TimePasses \/ PositionCloses
  BY <1>3 DEF Restart, TimePasses, PositionCloses, BrokerCloses, brokerVars
<1>4. ASSUME NEW r \in Request, NEW q, Quiet(r, q)
      PROVE  positions' \subseteq positions
  BY <1>4 DEF Quiet, brokerVars
<1>5. ASSUME NEW r \in Request,
             (\E token \in Token : IssueToken(r, token)) \/ RedeemPop(r) \/ TakeQuota(r)
      PROVE  positions' \subseteq positions
  BY <1>5 DEF IssueToken, RedeemPop, TakeQuota, brokerVars
<1>. QED
  BY <1>1, <1>2, <1>3, <1>4, <1>5, StepCases

LEMMA StepStamps ==
    ASSUME TypeOK, ThreadInv, StampsNotAhead, BrokerOffset <= 0, [Next]_vars
    PROVE  StampsNotAhead'
<1>1. CASE positions' \subseteq positions
  BY <1>1 DEF StampsNotAhead
<1>2. ASSUME NEW payload, positions' = positions \cup {NewPosition(payload)}
      PROVE  StampsNotAhead'
  <2>1. /\ NewPosition(payload).time_open = now + BrokerOffset
        /\ NewPosition(payload).opened = now
    BY DEF NewPosition
  <2>2. now \in Int /\ BrokerOffset \in Int
    BY ClocksAssumption, BrokerAssumption DEF TypeOK, ClocksTypeOK
  <2>. HIDE DEF NewPosition
  <2>. QED
    BY <1>2, <2>1, <2>2 DEF StampsNotAhead
<1>. QED
  BY <1>1, <1>2, AccountMoves

\* A call is refused for the cooldown by nothing but the check.
LEMMA RefusedByCheck ==
    ASSUME TypeOK, NEW r \in Request, [Next]_vars,
           req[r].verdict # "cooldown", req'[r].verdict = "cooldown"
    PROVE  CheckCooldown(r) /\ Answer(r, "cooldown")
<1>1. req \in [Request -> RequestState]
  BY DEF TypeOK
<1>2. PICK s \in Request : Call(s) \/ Serve(s)
  BY DEF Next, vars, serviceVars, Restart, TimePasses, PositionCloses, Idle
<1>3. ASSUME NEW q, Becomes(s, q), s # r \/ q.verdict # "cooldown"
      PROVE  FALSE
  BY <1>1, <1>3 DEF Becomes
<1>4. ASSUME NEW q, Becomes(s, q), q.verdict = req[s].verdict
      PROVE  FALSE
  BY <1>3, <1>4
<1>5. ASSUME NEW verdict, Answer(s, verdict), s # r \/ verdict # "cooldown"
      PROVE  FALSE
  <2>. DEFINE q == [Idle EXCEPT !.pc = "answered", !.kind = req[s].kind,
                                !.held = req[s].held, !.unit = req[s].unit,
                                !.order = req[s].order, !.verdict = verdict]
  <2>1. Becomes(s, q) /\ q.verdict = verdict
    BY <1>5 DEF Answer, Idle
  <2>. QED
    BY <1>3, <1>5, <2>1
<1>6. ASSUME NEW kind, NEW verdict, Refuse(s, kind, verdict), verdict # "cooldown"
      PROVE  FALSE
  <2>. DEFINE q == [Idle EXCEPT !.pc = "answered", !.kind = kind, !.verdict = verdict]
  <2>1. Becomes(s, q) /\ q.verdict = verdict
    BY <1>6 DEF Refuse, Idle
  <2>. QED
    BY <1>3, <1>6, <2>1
<1>7. ASSUME NEW pc, Goto(s, pc) PROVE FALSE
  BY <1>1, <1>4, <1>7 DEF Goto, RequestState
<1>8. ~Call(s)
  <2>1. ASSUME NEW intent \in Intents,
               \/ PreviewOrder(s, intent)
               \/ \E token \in KnownToken : ExecuteOrder(s, intent, token)
        PROVE  FALSE
    BY <1>3, <1>6, <2>1 DEF PreviewOrder, ExecuteOrder, Idle
  <2>2. ASSUME NEW ticket \in Ticket,
               \/ PreviewClose(s, ticket)
               \/ \E token \in KnownToken : CloseOrder(s, ticket, token)
        PROVE  FALSE
    BY <1>3, <1>6, <2>2 DEF PreviewClose, CloseOrder, Idle
  <2>. QED
    BY <2>1, <2>2 DEF Call
<1>9. \A token \in Token : ~IssueToken(s, token)
  <2>. SUFFICES ASSUME NEW token \in Token, IssueToken(s, token) PROVE FALSE
    OBVIOUS
  <2>1. [req[s] EXCEPT !.token = token, !.pc = "preview_row"].verdict = req[s].verdict
    BY <1>1 DEF RequestState
  <2>. QED
    BY <1>4, <1>5, <2>1 DEF IssueToken
<1>10. ~RecordPreview(s) /\ ~RecordOrder(s) /\ ~ReadAccount(s) /\ ~CheckToken(s)
  BY <1>5, <1>7 DEF RecordPreview, RecordOrder, ReadAccount, CheckToken, Unavailable
<1>11. ~RedeemPop(s) /\ ~TakeQuota(s) /\ ~SendOrder(s) /\ ~Respond(s)
  <2>1. /\ \A held : [req[s] EXCEPT !.held = held, !.pc = "check"].verdict
                      = req[s].verdict
        /\ \A unit : [req[s] EXCEPT !.pc = "send", !.unit = unit].verdict
                      = req[s].verdict
        /\ \A order : [req[s] EXCEPT !.order = order, !.pc = "row"].verdict
                       = req[s].verdict
    BY <1>1 DEF RequestState
  <2>2. Idle.verdict # "cooldown"
    BY DEF Idle
  <2>. QED
    BY <1>3, <1>4, <1>5, <2>1, <2>2 DEF RedeemPop, TakeQuota, SendOrder, Respond
<1>12. ~QuoteEntry(s)
  <2>1. \A stops, price :
          [req[s] EXCEPT !.pc = "limit", !.stops = stops, !.price = price].verdict
          = req[s].verdict
    BY <1>1 DEF RequestState
  <2>. QED
    BY <1>4, <1>5, <1>7, <2>1 DEF QuoteEntry, Unavailable
<1>13. CheckCooldown(s)
  BY <1>2, <1>8, <1>9, <1>10, <1>11, <1>12 DEF Serve
<1>. QED
  BY <1>5, <1>7, <1>13 DEF CheckCooldown, Unavailable

(* guards.py:163-165, where the broker's clock is not ahead of UTC and so    *)
(* were the stamps of the positions found at boot: a call is refused for the *)
(* cooldown only while some position of its symbol is younger than Cooldown, *)
(* with any number of requests at once and a terminal that may fail.         *)
THEOREM RefusalsAreDue ==
    BrokerOffset <= 0 /\ (\A p \in OpenAtBoot : p.time_open <= p.opened)
    => (Spec => CooldownWaitBounded)
<1>. SUFFICES ASSUME BrokerOffset <= 0,
                     \A p \in OpenAtBoot : p.time_open <= p.opened
              PROVE  Spec => CooldownWaitBounded
  OBVIOUS
<1>1. Init => StampsNotAhead
  BY DEF Init, BrokerInit, StampsNotAhead
<1>2. TypeOK /\ ThreadInv /\ StampsNotAhead /\ [Next]_vars => StampsNotAhead'
  BY StepStamps
<1>3. ASSUME TypeOK, StampsNotAhead, [Next]_vars, NEW r \in Request,
             req[r].verdict # "cooldown", req'[r].verdict = "cooldown"
      PROVE  \E p \in positions :
               p.symbol = req[r].want.symbol /\ now - p.opened < Cooldown
  <2>1. CheckCooldown(r) /\ Answer(r, "cooldown")
    BY <1>3, RefusedByCheck
  <2>2. ~\E pc : Goto(r, pc)
    BY <1>3, GotoFields DEF Goto, Becomes, TypeOK, RequestState
  <2>3. ~Answer(r, "unavailable")
    BY <1>3 DEF Answer, Becomes, TypeOK, Idle
  <2>4. PICK p \in positions :
          p.symbol = req[r].want.symbol /\ Cooldown - Elapsed(p) > 0
    BY <2>1, <2>2, <2>3 DEF CheckCooldown, Unavailable, CooldownBlocks
  <2>5. /\ now \in Int /\ p.time_open \in Int /\ p.opened \in Int
        /\ Cooldown \in Nat /\ p.time_open <= p.opened
    BY <1>3, ClocksAssumption, CooldownAssumption
    DEF TypeOK, ClocksTypeOK, BrokerTypeOK, Position, StampsNotAhead
  <2>. QED
    BY <2>4, <2>5 DEF Elapsed
<1>4. TypeOK /\ StampsNotAhead /\ [Next]_vars
      => [\A r \in Request :
            req[r].verdict # "cooldown" /\ req'[r].verdict = "cooldown" =>
              \E p \in positions :
                p.symbol = req[r].want.symbol /\ now - p.opened < Cooldown]_vars
  BY <1>3
<1>. QED
  BY <1>1, <1>2, <1>4, TypeCorrect, PTL DEF Spec, CooldownWaitBounded
=============================================================================
