----------------------- MODULE TradingAccounting_proofs -----------------------
(* What a call uses up, what its answer says and what the journal says of    *)
(* it, proved for every value of the constants.                              *)
EXTENDS TradingService_proofs

-----------------------------------------------------------------------------
(* Rounding                                                                  *)

(* Rounding to the grid never carries a level across a price on the grid.    *)
LEMMA RoundedBelow ==
    ASSUME NEW symbol \in Symbol, NEW level \in Int, NEW entry \in Int,
           entry % SymbolSpec[symbol].grain = 0,
           NEW price \in Rounded(symbol, level)
    PROVE  /\ price \in Int
           /\ level < entry => price <= entry
           /\ level > entry => price >= entry
<1>. DEFINE grain == SymbolSpec[symbol].grain
            k == entry \div grain
            m == level \div grain
<1>1. grain \in Nat \ {0}
  BY ValidationAssumption
<1>2. price \in {level - (level % grain), level - (level % grain) + grain}
  BY ModelsAssumption DEF Rounded
<1>. HIDE DEF grain
<1>3. k \in Int /\ m \in Int /\ level % grain \in 0..grain - 1
  BY <1>1
<1>4. entry = grain * k
  BY <1>1, entry % grain = 0 DEF grain
<1>5. level - (level % grain) = grain * m
  BY <1>1
<1>6. price \in {grain * m, grain * m + grain}
  BY <1>2, <1>5
<1>. HIDE DEF k, m
<1>7. price \in Int
  BY <1>1, <1>3, <1>6
<1>8. ASSUME level < entry PROVE price <= entry
  <2>1. grain * m < grain * k
    BY <1>1, <1>3, <1>4, <1>5, <1>8
  <2>2. m + 1 <= k
    BY <1>1, <1>3, <2>1
  <2>3. grain * (m + 1) <= grain * k
    BY <1>1, <1>3, <2>2
  <2>4. grain * (m + 1) = grain * m + grain
    BY <1>1, <1>3
  <2>. QED
    BY <1>1, <1>3, <1>4, <1>6, <2>1, <2>3, <2>4
<1>9. ASSUME level > entry PROVE price >= entry
  <2>1. grain * m + grain > grain * k
    BY <1>1, <1>3, <1>4, <1>5, <1>9
  <2>2. grain * (m + 1) > grain * k
    BY <1>1, <1>3, <2>1
  <2>3. m + 1 > k
    BY <1>1, <1>3, <2>2
  <2>4. grain * m >= grain * k
    BY <1>1, <1>3, <2>3
  <2>. QED
    BY <1>1, <1>3, <1>4, <1>6, <2>4
<1>. QED
  BY <1>7, <1>8, <1>9

(* Levels that are valid for an entry price of the market hold after they    *)
(* have been rounded.                                                        *)
LEMMA RoundedStopsHold ==
    ASSUME NEW symbol \in Symbol, NEW stops \in Levels, NEW quote \in Quotes,
           NEW q, StopsValid(q.want.side, EntryPrice(quote, q.want.side), stops),
           q.stops \in RoundedStops(symbol, stops),
           q.price = EntryPrice(quote, q.want.side)
    PROVE  StopsHold(q)
<1>. DEFINE entry == EntryPrice(quote, q.want.side)
<1>1. entry \in Int /\ entry % SymbolSpec[symbol].grain = 0
  BY ValidationAssumption, QuoteAssumption DEF EntryPrice
<1>2. /\ q.stops.sl \in Rounded(symbol, stops.sl) /\ stops.sl \in Int \cup {None}
      /\ q.stops.tp \in Rounded(symbol, stops.tp) /\ stops.tp \in Int \cup {None}
  BY DEF RoundedStops, Levels
<1>3. ASSUME NEW level \in Int \cup {None}, NEW price \in Rounded(symbol, level),
             price # None
      PROVE  /\ level # None /\ level \in Int
             /\ level < entry => price <= entry
             /\ level > entry => price >= entry
  <2>1. level # None
    BY <1>3 DEF Rounded
  <2>. QED
    BY <1>1, <1>3, <2>1, RoundedBelow
<1>. HIDE DEF entry
<1>4. q.stops.sl # None =>
        /\ stops.sl # None
        /\ stops.sl < entry => q.stops.sl <= entry
        /\ stops.sl > entry => q.stops.sl >= entry
  BY <1>2, <1>3
<1>5. q.stops.tp # None =>
        /\ stops.tp # None
        /\ stops.tp < entry => q.stops.tp <= entry
        /\ stops.tp > entry => q.stops.tp >= entry
  BY <1>2, <1>3
<1>. QED
  BY <1>4, <1>5 DEF StopsValid, StopsHold, entry
-----------------------------------------------------------------------------
(* The path of one thread                                                    *)

\* PathOK looks at nothing but the thread itself, so others are not disturbed.
LEMMA PathFrame ==
    ASSUME req \in [Request -> RequestState], PathInv,
           NEW r \in Request, NEW q, Becomes(r, q), PathOK(q)
    PROVE  PathInv'
<1>1. \A s \in Request : req'[s] = IF s = r THEN q ELSE req[s]
  BY DEF Becomes
<1>2. \A s \in Request : PathOK(req'[s])
  BY <1>1 DEF PathInv
<1>. QED
  BY <1>2 DEF PathInv

\* A fresh frame carries nothing yet.
LEMMA FreshPath ==
    ASSUME NEW q, q.held = None, q.unit = None, q.order = 0,
           q.pc # "answered" => q.verdict = "none",
           q.pc \notin {"limit", "send"} \/ q.kind = "close"
    PROVE  PathOK(q)
BY DEF PathOK, HasUnit

\* An answer keeps what its call has used up.
LEMMA AnswerPath ==
    ASSUME TypeOK, PathInv, NEW r \in Request, NEW verdict, Answer(r, verdict),
           req[r].pc # "send",
           verdict \in {"live_blocked", "cooldown"} =>
             req[r].held = None /\ req[r].unit = None
    PROVE  PathInv'
<1>. DEFINE q == [Idle EXCEPT !.pc = "answered", !.kind = req[r].kind,
                              !.held = req[r].held, !.unit = req[r].unit,
                              !.order = req[r].order, !.verdict = verdict]
<1>1. /\ q.pc = "answered" /\ q.unit = req[r].unit /\ q.order = req[r].order
      /\ q.held = req[r].held /\ q.verdict = verdict
  BY DEF Idle
<1>2. Becomes(r, q)
  BY DEF Answer
<1>. HIDE DEF q
<1>3. ~HasUnit(q)
  BY <1>1 DEF PathInv, PathOK, HasUnit
<1>4. PathOK(q)
  BY <1>1, <1>3 DEF PathOK
<1>. QED
  BY <1>2, <1>4, PathFrame DEF TypeOK

\* A step to a label other than the limiter's and the sender's.
LEMMA GotoPath ==
    ASSUME TypeOK, PathInv, NEW r \in Request, NEW pc, Goto(r, pc),
           req[r].pc \notin {"answered", "send"}, pc # "limit",
           pc = "send" => req[r].kind = "close"
    PROVE  PathInv'
<1>. DEFINE q == [req[r] EXCEPT !.pc = pc]
<1>1. /\ q.pc = pc /\ q.kind = req[r].kind /\ q.held = req[r].held
      /\ q.unit = req[r].unit /\ q.order = req[r].order
      /\ q.verdict = req[r].verdict
  BY DEF TypeOK, RequestState
<1>2. Becomes(r, q)
  BY DEF Goto
<1>. HIDE DEF q
<1>3. PathOK(q)
  BY <1>1 DEF PathInv, PathOK, HasUnit
<1>. QED
  BY <1>2, <1>3, PathFrame DEF TypeOK

LEMMA CallPath ==
    ASSUME TypeOK, PathInv, NEW r \in Request, Call(r)
    PROVE  PathInv'
<1>1. ASSUME NEW kind, NEW verdict, Refuse(r, kind, verdict),
             verdict \notin {"live_blocked", "cooldown"}
      PROVE  PathInv'
  <2>. DEFINE q == [Idle EXCEPT !.pc = "answered", !.kind = kind, !.verdict = verdict]
  <2>1. /\ q.pc = "answered" /\ q.held = None /\ q.unit = None /\ q.order = 0
        /\ q.verdict = verdict
    BY DEF Idle
  <2>2. Becomes(r, q)
    BY <1>1 DEF Refuse
  <2>. HIDE DEF q
  <2>. QED
    BY <1>1, <2>1, <2>2, FreshPath, PathFrame DEF TypeOK
<1>2. ASSUME NEW q, Becomes(r, q), q.held = None, q.unit = None, q.order = 0,
             q.verdict = "none",
             q.pc \notin {"limit", "send"}
      PROVE  PathInv'
  BY <1>2, FreshPath, PathFrame DEF TypeOK
<1>3. ASSUME NEW intent \in Intents, PreviewOrder(r, intent)
      PROVE  PathInv'
  <2>1. CASE Becomes(r, [Idle EXCEPT !.pc = "issue", !.kind = "preview",
                                     !.want = OpenPayload(intent)])
    BY <1>2, <2>1 DEF Idle
  <2>. QED
    BY <1>1, <1>3, <2>1 DEF PreviewOrder
<1>4. ASSUME NEW intent \in Intents, NEW token, ExecuteOrder(r, intent, token)
      PROVE  PathInv'
  <2>1. CASE Becomes(r, [Idle EXCEPT !.pc = "account", !.kind = "execute",
                                     !.token = token,
                                     !.want = OpenPayload(intent),
                                     !.stops = intent.stops])
    BY <1>2, <2>1 DEF Idle
  <2>. QED
    BY <1>1, <1>4, <2>1 DEF ExecuteOrder
<1>5. ASSUME NEW ticket, PreviewClose(r, ticket)
      PROVE  PathInv'
  <2>1. ASSUME NEW p, Becomes(r, [Idle EXCEPT !.pc = "issue", !.kind = "preview_close",
                                              !.want = ClosePayload(p)])
        PROVE  PathInv'
    BY <1>2, <2>1 DEF Idle
  <2>. QED
    BY <1>1, <1>5, <2>1 DEF PreviewClose
<1>6. ASSUME NEW ticket, NEW token, CloseOrder(r, ticket, token)
      PROVE  PathInv'
  <2>1. ASSUME NEW p, Becomes(r, [Idle EXCEPT !.pc = Authorise, !.kind = "close",
                                              !.token = token, !.want = ClosePayload(p)])
        PROVE  PathInv'
    BY <1>2, <2>1 DEF Idle, Authorise
  <2>. QED
    BY <1>1, <1>6, <2>1 DEF CloseOrder
<1>. QED
  BY <1>3, <1>4, <1>5, <1>6 DEF Call

LEMMA IssuePath ==
    ASSUME TypeOK, ThreadInv, PathInv, NEW r \in Request, NEW token \in Token,
           IssueToken(r, token)
    PROVE  PathInv'
<1>1. req[r].pc = "issue" /\ req \in [Request -> RequestState]
  BY DEF IssueToken, TypeOK
<1>2. CASE Becomes(r, [req[r] EXCEPT !.token = token, !.pc = "preview_row"])
  <2>. DEFINE q == [req[r] EXCEPT !.token = token, !.pc = "preview_row"]
  <2>1. /\ q.pc = "preview_row" /\ q.held = req[r].held /\ q.unit = req[r].unit
        /\ q.order = req[r].order /\ q.verdict = req[r].verdict
    BY <1>1 DEF RequestState
  <2>. HIDE DEF q
  <2>2. PathOK(q)
    BY <1>1, <2>1 DEF PathInv, PathOK, HasUnit
  <2>. QED
    BY <1>1, <1>2, <2>2, PathFrame DEF q
<1>3. CASE Answer(r, "ok")
  BY <1>1, <1>3, AnswerPath
<1>. QED
  BY <1>2, <1>3 DEF IssueToken

LEMMA RedeemPath ==
    ASSUME TypeOK, PathInv, NEW r \in Request, RedeemPop(r)
    PROVE  PathInv'
<1>. DEFINE q == [req[r] EXCEPT !.held = Popped(req[r].token), !.pc = "check"]
<1>1. req[r].pc = "redeem" /\ req \in [Request -> RequestState] /\ Becomes(r, q)
  BY DEF RedeemPop, TypeOK
<1>2. /\ q.pc = "check" /\ q.unit = req[r].unit /\ q.order = req[r].order
      /\ q.verdict = req[r].verdict
  BY <1>1 DEF RequestState
<1>. HIDE DEF q
<1>3. PathOK(q)
  BY <1>1, <1>2 DEF PathInv, PathOK, HasUnit
<1>. QED
  BY <1>1, <1>3, PathFrame

(* The order is priced and its stops are checked at the same quote, and they *)
(* are rounded after that.                                                   *)
LEMMA QuotePath ==
    ASSUME TypeOK, ThreadInv, PathInv, NEW r \in Request, QuoteEntry(r)
    PROVE  PathInv'
<1>1. /\ req[r].pc = "quote" /\ req[r] \in RequestState /\ ThreadOK(req[r])
      /\ PathOK(req[r])
  BY DEF QuoteEntry, TypeOK, ThreadInv, PathInv
<1>2. CASE req[r].kind = "close" /\ Goto(r, "send")
  BY <1>1, <1>2, GotoPath
<1>3. CASE \E verdict \in {"invalid", "unavailable"} : Answer(r, verdict)
  BY <1>1, <1>3, AnswerPath
<1>4. ASSUME req[r].kind = "execute", NEW quote \in Quotes,
             NEW stops \in RoundedStops(req[r].want.symbol, req[r].stops),
             StopsValid(req[r].want.side, EntryPrice(quote, req[r].want.side),
                        req[r].stops),
             Becomes(r, [req[r] EXCEPT !.pc = "limit", !.stops = stops,
                                       !.price = EntryPrice(quote, req[r].want.side)])
      PROVE  PathInv'
  <2>. DEFINE q == [req[r] EXCEPT !.pc = "limit", !.stops = stops,
                                  !.price = EntryPrice(quote, req[r].want.side)]
  <2>1. req[r].stops \in Levels /\ req[r].want.symbol \in Symbol
    BY <1>1, <1>4 DEF ThreadOK, Ordering, RequestState, TokenPayload
  <2>2. /\ q.pc = "limit" /\ q.want = req[r].want /\ q.unit = req[r].unit
        /\ q.order = req[r].order /\ q.verdict = req[r].verdict
        /\ q.stops = stops /\ q.price = EntryPrice(quote, req[r].want.side)
    BY <1>1 DEF RequestState
  <2>. HIDE DEF q
  <2>3. StopsHold(q)
    BY <1>4, <2>1, <2>2, RoundedStopsHold
  <2>4. PathOK(q)
    BY <1>1, <2>2, <2>3 DEF PathOK, HasUnit
  <2>. QED
    BY <1>4, <2>4, PathFrame DEF q, TypeOK
<1>. QED
  BY <1>2, <1>3, <1>4 DEF QuoteEntry, Unavailable

LEMMA LimiterPath ==
    ASSUME TypeOK, ThreadInv, PathInv, NEW r \in Request, TakeQuota(r)
    PROVE  PathInv'
<1>1. /\ req[r].pc = "limit" /\ req[r] \in RequestState /\ ThreadOK(req[r])
      /\ PathOK(req[r])
  BY DEF TakeQuota, TypeOK, ThreadInv, PathInv
<1>2. CASE Answer(r, "limit")
  BY <1>1, <1>2, AnswerPath
<1>3. CASE Becomes(r, [req[r] EXCEPT !.pc = "send", !.unit = NextUnit])
  <2>. DEFINE q == [req[r] EXCEPT !.pc = "send", !.unit = NextUnit]
  <2>1. /\ q.pc = "send" /\ q.kind = req[r].kind /\ q.want = req[r].want
        /\ q.verdict = req[r].verdict
        /\ q.stops = req[r].stops /\ q.price = req[r].price
    BY <1>1 DEF RequestState
  <2>. HIDE DEF q
  <2>2. PathOK(q)
    BY <1>1, <2>1 DEF PathOK, StopsHold
  <2>. QED
    BY <1>3, <2>2, PathFrame DEF q, TypeOK
<1>. QED
  BY <1>2, <1>3 DEF TakeQuota

LEMMA SendPath ==
    ASSUME TypeOK, PathInv, NEW r \in Request, SendOrder(r)
    PROVE  PathInv'
<1>. DEFINE q == [req[r] EXCEPT !.order = Len(sent) + 1, !.pc = "row"]
<1>1. /\ req[r].pc = "send" /\ req[r] \in RequestState /\ PathOK(req[r])
      /\ Becomes(r, q)
  BY DEF SendOrder, TypeOK, PathInv
<1>2. Len(sent) \in Nat
  BY DEF TypeOK
<1>3. /\ q.pc = "row" /\ q.order # 0 /\ q.verdict = req[r].verdict
  BY <1>1, <1>2 DEF RequestState
<1>. HIDE DEF q
<1>4. PathOK(q)
  BY <1>1, <1>3 DEF PathOK, HasUnit
<1>. QED
  BY <1>1, <1>4, PathFrame DEF TypeOK

LEMMA ServePath ==
    ASSUME TypeOK, ThreadInv, PathInv, NEW r \in Request, Serve(r)
    PROVE  PathInv'
<1>0. req \in [Request -> RequestState] /\ ThreadOK(req[r])
  BY DEF TypeOK, ThreadInv
<1>1. CASE RecordPreview(r)
  BY <1>1, AnswerPath DEF RecordPreview
<1>2. CASE ReadAccount(r)
  <2>1. /\ req[r].pc = "account" /\ req[r].held = None /\ req[r].unit = None
    BY <1>0, <1>2 DEF ReadAccount, ThreadOK, BeforeRedeem
  <2>. QED
    BY <1>2, <2>1, AnswerPath, GotoPath DEF ReadAccount, Unavailable, Authorise
<1>3. CASE CheckCooldown(r)
  <2>1. /\ req[r].pc = "cooldown" /\ req[r].held = None /\ req[r].unit = None
    BY <1>0, <1>3 DEF CheckCooldown, ThreadOK, BeforeRedeem
  <2>. QED
    BY <1>3, <2>1, AnswerPath, GotoPath DEF CheckCooldown, Unavailable, Authorise
<1>4. CASE CheckToken(r)
  BY <1>4, AnswerPath, GotoPath DEF CheckToken
<1>5. CASE RecordOrder(r)
  BY <1>5, AnswerPath DEF RecordOrder
<1>6. CASE Respond(r)
  <2>1. PathOK(Idle)
    BY FreshPath DEF Idle
  <2>. QED
    BY <1>0, <1>6, <2>1, PathFrame DEF Respond
<1>. QED
  BY <1>1, <1>2, <1>3, <1>4, <1>5, <1>6, IssuePath, RedeemPath, QuotePath,
     LimiterPath, SendPath DEF Serve

LEMMA StepPath ==
    ASSUME TypeOK, ThreadInv, PathInv, [Next]_vars
    PROVE  PathInv'
<1>1. CASE UNCHANGED req
  BY <1>1 DEF PathInv
<1>2. CASE Restart
  <2>1. PathOK(Idle)
    BY FreshPath DEF Idle
  <2>. QED
    BY <1>2, <2>1 DEF Restart, PathInv
<1>3. UNCHANGED vars \/ TimePasses \/ PositionCloses => UNCHANGED req
  BY DEF vars, TimePasses, PositionCloses, serviceVars
<1>. QED
  BY <1>1, <1>2, <1>3, CallPath, ServePath DEF Next

LEMMA PathInvariant == Spec => []PathInv
<1>1. Init => PathInv
  <2>1. PathOK(Idle)
    BY FreshPath DEF Idle
  <2>. QED
    BY <2>1 DEF Init, PathInv
<1>2. TypeOK /\ ThreadInv /\ PathInv /\ [Next]_vars => PathInv'
  BY StepPath
<1>. QED
  BY <1>1, <1>2, TypeCorrect, PTL DEF Spec

(* A call that the demo-only block or the cooldown turns away has redeemed   *)
(* no token and taken no unit of the quota.                                  *)
THEOREM BlockedKeepsAll == Spec => []BlockedCostsNothing
<1>1. PathInv => BlockedCostsNothing
  BY DEF PathInv, PathOK, BlockedCostsNothing
<1>. QED
  BY <1>1, PathInvariant, PTL

(* However the market has moved since the preview, the stops an order leaves *)
(* with are not on the wrong side of the price it leaves with, on any grid.  *)
THEOREM StopsHoldAtEntry == Spec => []StopsGuardEntry
<1>1. PathInv => StopsGuardEntry
  BY DEF PathInv, PathOK, StopsGuardEntry
<1>. QED
  BY <1>1, PathInvariant, PTL
-----------------------------------------------------------------------------
(* The journal                                                               *)

(* Only the thread that serves r moves.                                      *)
LEMMA OneMoves ==
    ASSUME NEW r \in Request, Call(r) \/ Serve(r)
    PROVE  \E q : Becomes(r, q)
<1>1. ASSUME Call(r) PROVE \E q : Becomes(r, q)
  BY <1>1 DEF Call, PreviewOrder, ExecuteOrder, PreviewClose, CloseOrder, Refuse
<1>2. ASSUME Serve(r) PROVE \E q : Becomes(r, q)
  BY <1>2
  DEF Serve, IssueToken, RecordPreview, ReadAccount, CheckCooldown, RedeemPop,
      CheckToken, QuoteEntry, TakeQuota, SendOrder, RecordOrder, Respond, Goto,
      Answer, Unavailable
<1>. QED
  BY <1>1, <1>2

(* No step but send_order and the row after it concerns a thread that is     *)
(* about to write its row, and none but a preview's writes a row.            *)
LEMMA Bystanders ==
    ASSUME TypeOK, NEW r \in Request, Call(r) \/ Serve(r),
           ~SendOrder(r), ~RecordOrder(r)
    PROVE  /\ req[r].pc \notin {"send", "row"} /\ req'[r].pc # "row"
           /\ UNCHANGED <<sent, boot>>
           /\ \/ rows' = rows
              \/ \E row \in Row : /\ row.event = "preview" /\ row.order = 0
                                  /\ rows' = Append(rows, row)
<1>1. req \in [Request -> RequestState]
  BY DEF TypeOK
<1>2. ASSUME NEW verdict, Answer(r, verdict) PROVE req'[r].pc # "row"
  BY <1>1, <1>2 DEF Answer, Becomes, Idle
<1>3. ASSUME NEW pc, pc # "row", Goto(r, pc) PROVE req'[r].pc # "row"
  BY <1>1, <1>3 DEF Goto, Becomes, RequestState
<1>4. ASSUME NEW kind, NEW verdict, Refuse(r, kind, verdict)
      PROVE  req'[r].pc # "row"
  BY <1>1, <1>4 DEF Refuse, Becomes, Idle
<1>5. CASE Call(r)
  <2>1. req[r] = Idle /\ UNCHANGED <<sent, boot, rows>>
    BY <1>5 DEF Call, PreviewOrder, ExecuteOrder, PreviewClose, CloseOrder
  <2>2. req'[r].pc # "row"
    <3>1. ASSUME NEW q, Becomes(r, q), q.pc # "row" PROVE req'[r].pc # "row"
      BY <1>1, <3>1 DEF Becomes
    <3>. QED
      BY <1>4, <1>5, <3>1
      DEF Call, PreviewOrder, ExecuteOrder, PreviewClose, CloseOrder, Idle, Authorise
  <2>. QED
    BY <2>1, <2>2 DEF Idle
<1>6. CASE RecordPreview(r)
  <2>1. [event |-> "preview", token |-> req[r].token, order |-> 0] \in Row
    BY <1>1 DEF Row, Event, RequestState
  <2>. QED
    BY <1>2, <1>6, <2>1 DEF RecordPreview, Write
<1>7. CASE ReadAccount(r) \/ CheckCooldown(r) \/ CheckToken(r)
  BY <1>2, <1>3, <1>7
  DEF ReadAccount, CheckCooldown, CheckToken, Unavailable, Authorise
<1>8. CASE \E token \in Token : IssueToken(r, token)
  <2>1. PICK token \in Token : IssueToken(r, token)
    BY <1>8
  <2>2. CASE req[r].kind = "preview"
    BY <1>1, <2>1, <2>2 DEF IssueToken, Becomes, RequestState
  <2>3. CASE req[r].kind # "preview"
    BY <1>2, <2>1, <2>3 DEF IssueToken
  <2>. QED
    BY <2>2, <2>3
<1>9. CASE RedeemPop(r) \/ TakeQuota(r)
  BY <1>1, <1>2, <1>9 DEF RedeemPop, TakeQuota, Becomes, RequestState
<1>10. CASE QuoteEntry(r)
  BY <1>1, <1>2, <1>3, <1>10 DEF QuoteEntry, Unavailable, Becomes, RequestState
<1>11. CASE Respond(r)
  BY <1>1, <1>11 DEF Respond, Becomes, Idle
<1>. QED
  BY <1>5, <1>6, <1>7, <1>8, <1>9, <1>10, <1>11 DEF Serve

\* The rows about an order after the step.
RowsNext(i) == {k \in DOMAIN rows' : rows'[k].order = i}

\* The rows of the journal are about orders sent, or are previews.
LEMMA RowOrders ==
    ASSUME RecordInv, NEW k \in DOMAIN rows
    PROVE  IF rows[k].event = "preview" THEN rows[k].order = 0
           ELSE rows[k].order \in DOMAIN sent
BY DEF RecordInv, PreviewRows, NoPhantomRows

\* A row more at the end of the journal.
LEMMA OneRowMore ==
    ASSUME TypeOK, NEW row \in Row, rows' = Append(rows, row)
    PROVE  LET n == Len(rows) + 1
           IN  /\ DOMAIN rows' = DOMAIN rows \cup {n} /\ n \notin DOMAIN rows
               /\ \A k \in DOMAIN rows : rows'[k] = rows[k]
               /\ rows'[n] = row
               /\ \A i : RowsNext(i) = IF i = row.order THEN RowsAbout(i) \cup {n}
                                                         ELSE RowsAbout(i)
<1>. DEFINE n == Len(rows) + 1
<1>1. /\ DOMAIN rows' = DOMAIN rows \cup {n} /\ n \notin DOMAIN rows
      /\ \A k \in DOMAIN rows : rows'[k] = rows[k]
      /\ rows'[n] = row
  BY DEF TypeOK
<1>. HIDE DEF n
<1>2. ASSUME NEW i
      PROVE  RowsNext(i) = IF i = row.order THEN RowsAbout(i) \cup {n}
                                             ELSE RowsAbout(i)
  BY <1>1 DEF RowsAbout, RowsNext
<1>. QED
  BY <1>1, <1>2 DEF n

(* Neither a preview's row nor a thread that has no order to record makes a  *)
(* difference.                                                               *)
LEMMA RecordFrame ==
    ASSUME TypeOK, RecordInv, UNCHANGED <<sent, boot>>,
           \/ rows' = rows
           \/ \E row \in Row : /\ row.event = "preview" /\ row.order = 0
                               /\ rows' = Append(rows, row),
           \A s \in Request :
             req[s].pc = "row" \/ req'[s].pc = "row" => req'[s] = req[s]
    PROVE  RecordInv'
<1>1. 0 \notin DOMAIN sent
  BY DEF TypeOK
<1>2. /\ DOMAIN rows \subseteq DOMAIN rows'
      /\ \A k \in DOMAIN rows : rows'[k] = rows[k]
      /\ \A k \in DOMAIN rows' \ DOMAIN rows :
           rows'[k].event = "preview" /\ rows'[k].order = 0
      /\ \A i \in DOMAIN sent : RowsNext(i) = RowsAbout(i)
  <2>1. CASE rows' = rows
    BY <2>1 DEF RowsAbout, RowsNext
  <2>2. ASSUME NEW row \in Row, row.event = "preview", row.order = 0,
               rows' = Append(rows, row)
        PROVE  <1>2!1 /\ <1>2!2 /\ <1>2!3 /\ <1>2!4
    BY <1>1, <2>2, OneRowMore
  <2>. QED
    BY <2>1, <2>2
<1>3. SentTrue'
  BY DEF RecordInv, SentTrue
<1>4. AboutToRecord'
  <2>1. ASSUME NEW s \in Request, req'[s].pc = "row"
        PROVE  /\ req'[s].order \in DOMAIN sent
               /\ RowsNext(req'[s].order) = {}
               /\ req'[s].kind = IF sent[req'[s].order].payload.side # "close"
                                 THEN "execute" ELSE "close"
    BY <1>2, <2>1 DEF RecordInv, AboutToRecord, Opening
  <2>2. \A s, z \in Request :
          req'[s].pc = "row" /\ req'[z].pc = "row" /\ req'[s].order = req'[z].order
            => s = z
    BY DEF RecordInv, AboutToRecord
  <2>. QED
    BY <2>1, <2>2 DEF AboutToRecord, Opening, RowsAbout, RowsNext
<1>5. PreviewRows'
  BY <1>2 DEF RecordInv, PreviewRows
<1>6. NoPhantomRows'
  BY <1>2 DEF RecordInv, NoPhantomRows, Opening, RowsAbout, RowsNext
<1>7. JournalEnabled /\ ~JournalMayFail => AuditComplete'
  BY <1>2 DEF RecordInv, AuditComplete, RowsAbout, RowsNext
<1>. QED
  BY <1>3, <1>4, <1>5, <1>6, <1>7 DEF RecordInv

LEMMA SendRecord ==
    ASSUME TypeOK, ThreadInv, RecordInv, NEW r \in Request, SendOrder(r)
    PROVE  RecordInv'
<1>1. PICK outcome \in OutcomesFor(req[r].want) :
        sent' = Append(sent, SentBy(r, outcome))
  BY DEF SendOrder
<1>. DEFINE new == SentBy(r, outcome)
            n == Len(sent) + 1
            q == [req[r] EXCEPT !.order = n, !.pc = "row"]
<1>2. /\ req[r] \in RequestState /\ ThreadOK(req[r]) /\ req[r].pc = "send"
      /\ req \in [Request -> RequestState] /\ boot \in Nat
      /\ UNCHANGED <<rows, boot>> /\ Becomes(r, q)
  BY ServiceAssumption DEF TypeOK, ThreadInv, SendOrder
<1>3. /\ new.payload = req[r].want /\ new.boot = boot
      /\ new.reply = "done" => new.filled
  BY <1>1, BrokerAssumption DEF SentBy, OutcomesFor
<1>4. /\ DOMAIN sent' = DOMAIN sent \cup {n} /\ n \notin DOMAIN sent /\ n # 0
      /\ \A i \in DOMAIN sent : sent'[i] = sent[i]
      /\ sent'[n] = new
  <2>. HIDE DEF new
  <2>. QED
    BY <1>1 DEF new, TypeOK
<1>5. /\ req'[r].pc = "row" /\ req'[r].order = n /\ req'[r].kind = req[r].kind
      /\ \A s \in Request : s # r => req'[s] = req[s]
  <2>. HIDE DEF n
  <2>. QED
    BY <1>2 DEF Becomes, RequestState
<1>. HIDE DEF new, n, q
<1>6. req[r].kind = IF new.payload.side # "close" THEN "execute" ELSE "close"
  BY <1>2, <1>3 DEF ThreadOK, Ordering
<1>7. SentTrue'
  BY <1>2, <1>3, <1>4 DEF RecordInv, SentTrue
<1>8. AboutToRecord'
  <2>1. RowsNext(n) = {}
    BY <1>2, <1>4, RowOrders DEF RowsNext
  <2>2. \A s \in Request : s # r /\ req[s].pc = "row" =>
          /\ req[s].order \in DOMAIN sent /\ req[s].order # n
          /\ RowsNext(req[s].order) = {}
          /\ req[s].kind = IF sent'[req[s].order].payload.side # "close"
                           THEN "execute" ELSE "close"
    BY <1>2, <1>4 DEF RecordInv, AboutToRecord, RowsAbout, RowsNext, Opening
  <2>3. ASSUME NEW s \in Request, req'[s].pc = "row"
        PROVE  /\ req'[s].order \in DOMAIN sent'
               /\ RowsNext(req'[s].order) = {}
               /\ req'[s].kind = IF sent'[req'[s].order].payload.side # "close"
                                 THEN "execute" ELSE "close"
    <3>1. CASE s = r
      BY <1>4, <1>5, <1>6, <2>1, <3>1
    <3>2. CASE s # r
      BY <1>4, <1>5, <2>2, <2>3, <3>2
    <3>. QED
      BY <3>1, <3>2
  <2>4. \A s, z \in Request :
          req'[s].pc = "row" /\ req'[z].pc = "row" /\ req'[s].order = req'[z].order
            => s = z
    BY <1>5, <2>2 DEF RecordInv, AboutToRecord
  <2>. QED
    BY <2>3, <2>4 DEF AboutToRecord, Opening, RowsAbout, RowsNext
<1>9. PreviewRows'
  BY <1>2 DEF RecordInv, PreviewRows
<1>10. NoPhantomRows'
  BY <1>2, <1>4 DEF RecordInv, NoPhantomRows, RowsAbout, Opening
<1>11. JournalEnabled /\ ~JournalMayFail => AuditComplete'
  <2>. SUFFICES ASSUME JournalEnabled, ~JournalMayFail, NEW i \in DOMAIN sent'
                PROVE  \/ RowsNext(i) # {}
                       \/ sent'[i].boot < boot'
                       \/ \E s \in Request : req'[s].order = i /\ req'[s].pc = "row"
    BY DEF AuditComplete, RowsAbout, RowsNext
  <2>1. CASE i = n
    BY <1>5, <2>1
  <2>2. CASE i \in DOMAIN sent
    BY <1>2, <1>4, <1>5, <2>2 DEF RecordInv, AuditComplete, RowsAbout, RowsNext
  <2>. QED
    BY <1>4, <2>1, <2>2
<1>. QED
  BY <1>7, <1>8, <1>9, <1>10, <1>11 DEF RecordInv

(* The row of an order: the first about it, and true.                        *)
LEMMA RecordRecord ==
    ASSUME TypeOK, RecordInv, NEW r \in Request, RecordOrder(r)
    PROVE  RecordInv'
<1>. DEFINE i == req[r].order
            row == RowFor(r)
<1>1. /\ req \in [Request -> RequestState] /\ req[r].pc = "row"
      /\ UNCHANGED <<sent, boot>>
  BY DEF RecordOrder, TypeOK
<1>2. /\ i \in DOMAIN sent /\ RowsAbout(i) = {}
      /\ req[r].kind = IF Opening(i) THEN "execute" ELSE "close"
      /\ \A s \in Request : s # r /\ req[s].pc = "row" => req[s].order # i
      /\ sent[i].reply = "done" => sent[i].filled
  BY <1>1 DEF RecordInv, AboutToRecord, SentTrue
<1>3. /\ row \in Row /\ row.order = i /\ row.event # "preview"
      /\ CASE row.event = "executed" -> sent[i].filled /\ Opening(i)
           [] row.event = "closed" -> sent[i].filled /\ ~Opening(i)
           [] OTHER -> sent[i].reply # "done"
  BY <1>1, <1>2 DEF RowFor, Row, Event, RequestState
<1>4. /\ req'[r].pc # "row"
      /\ \A s \in Request : s # r => req'[s] = req[s]
  BY <1>1 DEF RecordOrder, Answer, Becomes, Idle
<1>5. SentTrue'
  BY <1>1 DEF RecordInv, SentTrue
<1>6. CASE rows' = Append(rows, row)
  <2>. DEFINE n == Len(rows) + 1
  <2>. HIDE DEF i, row, n
  <2>1. /\ DOMAIN rows' = DOMAIN rows \cup {n} /\ n \notin DOMAIN rows
        /\ \A k \in DOMAIN rows : rows'[k] = rows[k]
        /\ rows'[n] = row
        /\ \A j : RowsNext(j) = IF j = i THEN RowsAbout(j) \cup {n}
                                         ELSE RowsAbout(j)
    BY <1>3, <1>6, OneRowMore DEF n
  <2>2. \A k \in DOMAIN rows : rows[k].order # i
    BY <1>2 DEF RowsAbout
  <2>3. \A s \in Request : req'[s].pc = "row" =>
          /\ s # r /\ req'[s] = req[s] /\ req[s].order # i
          /\ RowsNext(req[s].order) = RowsAbout(req[s].order)
    BY <1>2, <1>4, <2>1
  <2>4. AboutToRecord'
    BY <1>1, <2>3 DEF RecordInv, AboutToRecord, Opening, RowsAbout, RowsNext
  <2>5. PreviewRows'
    BY <1>3, <2>1 DEF RecordInv, PreviewRows
  <2>6. NoPhantomRows'
    <3>1. ASSUME NEW k \in DOMAIN rows, rows[k].event # "preview"
          PROVE  RowsNext(rows[k].order) = {k}
      BY <2>1, <2>2, <3>1 DEF RecordInv, NoPhantomRows
    <3>2. RowsNext(i) = {n}
      BY <1>2, <2>1
    <3>3. ASSUME NEW k \in DOMAIN rows', rows'[k].event # "preview"
          PROVE  /\ rows'[k].order \in DOMAIN sent
                 /\ RowsNext(rows'[k].order) = {k}
                 /\ CASE rows'[k].event = "executed" ->
                           sent[rows'[k].order].filled
                           /\ sent[rows'[k].order].payload.side # "close"
                      [] rows'[k].event = "closed" ->
                           sent[rows'[k].order].filled
                           /\ ~(sent[rows'[k].order].payload.side # "close")
                      [] OTHER -> sent[rows'[k].order].reply # "done"
      <4>1. CASE k = n
        BY <1>2, <1>3, <2>1, <3>2, <4>1 DEF Opening
      <4>2. CASE k \in DOMAIN rows
        BY <2>1, <3>1, <3>3, <4>2 DEF RecordInv, NoPhantomRows, Opening
      <4>. QED
        BY <2>1, <4>1, <4>2
    <3>. QED
      BY <1>1, <3>3 DEF NoPhantomRows, Opening, RowsAbout, RowsNext
  <2>7. AuditComplete => AuditComplete'
    <3>. SUFFICES ASSUME AuditComplete, NEW j \in DOMAIN sent
                  PROVE  \/ RowsNext(j) # {}
                         \/ sent[j].boot < boot
                         \/ \E s \in Request : req'[s].order = j /\ req'[s].pc = "row"
      BY <1>1 DEF AuditComplete, RowsAbout, RowsNext
    <3>1. CASE j = i
      BY <2>1, <3>1
    <3>2. CASE j # i
      BY <1>4, <2>1, <3>2 DEF AuditComplete, i
    <3>. QED
      BY <3>1, <3>2
  <2>. QED
    BY <1>5, <2>4, <2>5, <2>6, <2>7 DEF RecordInv
<1>7. CASE rows' = rows /\ (~JournalEnabled \/ JournalMayFail)
  <2>1. AboutToRecord'
    BY <1>1, <1>4, <1>7 DEF RecordInv, AboutToRecord, Opening, RowsAbout
  <2>2. PreviewRows' /\ NoPhantomRows'
    BY <1>1, <1>7 DEF RecordInv, PreviewRows, NoPhantomRows, RowsAbout, Opening
  <2>. QED
    BY <1>5, <1>7, <2>1, <2>2 DEF RecordInv
<1>. QED
  BY <1>6, <1>7 DEF RecordOrder, Write

\* The death of the process: its orders become those of an earlier one.
LEMMA RestartRecord ==
    ASSUME TypeOK, RecordInv, Restart
    PROVE  RecordInv'
<1>1. /\ UNCHANGED <<rows, sent>> /\ boot \in Nat /\ boot' = boot + 1
      /\ \A i \in DOMAIN sent : sent[i].boot \in Nat
      /\ \A s \in Request : req'[s].pc # "row"
  <2>1. \A i \in DOMAIN sent : sent[i] \in Sent
    BY DEF TypeOK
  <2>2. boot \in Nat /\ boot' = boot + 1 /\ UNCHANGED <<rows, sent>>
    BY ServiceAssumption DEF Restart, TypeOK
  <2>3. \A s \in Request : req'[s].pc # "row"
    BY DEF Restart, Idle
  <2>4. \A i \in DOMAIN sent : sent[i].boot \in Nat
    BY <2>1 DEF Sent
  <2>. QED
    BY <2>2, <2>3, <2>4
<1>2. SentTrue' /\ AuditComplete'
  BY <1>1 DEF RecordInv, SentTrue, AuditComplete
<1>3. AboutToRecord'
  BY <1>1 DEF AboutToRecord
<1>4. PreviewRows' /\ NoPhantomRows'
  BY <1>1 DEF RecordInv, PreviewRows, NoPhantomRows, RowsAbout, Opening
<1>. QED
  BY <1>2, <1>3, <1>4 DEF RecordInv

LEMMA StepRecord ==
    ASSUME TypeOK, ThreadInv, RecordInv, [Next]_vars
    PROVE  RecordInv'
<1>1. CASE UNCHANGED vars \/ TimePasses \/ PositionCloses
  BY <1>1, RecordFrame DEF vars, TimePasses, PositionCloses, serviceVars
<1>2. ASSUME NEW r \in Request, Call(r) \/ Serve(r), ~SendOrder(r), ~RecordOrder(r)
      PROVE  RecordInv'
  <2>1. \A s \in Request : s # r => req'[s] = req[s]
    BY <1>2, OneMoves DEF Becomes, TypeOK
  <2>2. \A s \in Request :
          req[s].pc = "row" \/ req'[s].pc = "row" => req'[s] = req[s]
    BY <1>2, <2>1, Bystanders
  <2>. QED
    BY <1>2, <2>2, Bystanders, RecordFrame
<1>. QED
  BY <1>1, <1>2, SendRecord, RecordRecord, RestartRecord DEF Next

LEMMA RecordInvariant == Spec => []RecordInv
<1>1. Init => RecordInv
  BY DEF Init, JournalInit, Idle, RecordInv, SentTrue, AboutToRecord, PreviewRows,
         NoPhantomRows, AuditComplete
<1>2. TypeOK /\ ThreadInv /\ RecordInv /\ [Next]_vars => RecordInv'
  BY StepRecord
<1>. QED
  BY <1>1, <1>2, TypeCorrect, PTL DEF Spec

(* No row of the journal is untrue of the order it is about, and none is     *)
(* there twice, whether inserts fail or not and however often the bridge     *)
(* dies.                                                                     *)
THEOREM RowsAreTrue == Spec => []NoPhantomRows
<1>1. RecordInv => NoPhantomRows
  BY DEF RecordInv
<1>. QED
  BY <1>1, RecordInvariant, PTL

(* With a journal that takes its rows, no order of a living process is       *)
(* answered before its row is written.                                       *)
THEOREM AuditHolds ==
    JournalEnabled /\ ~JournalMayFail => (Spec => []AuditComplete)
<1>. SUFFICES ASSUME JournalEnabled /\ ~JournalMayFail
              PROVE  Spec => []AuditComplete
  OBVIOUS
<1>1. RecordInv => AuditComplete
  BY DEF RecordInv
<1>. QED
  BY <1>1, RecordInvariant, PTL

\* Where a fill is always reported, an order without a good answer did nothing.
LEMMA StepReported ==
    ASSUME TypeOK, ThreadInv, FillsReported, [Next]_vars,
           \A o \in Outcomes : o.filled => o.reply = "done"
    PROVE  FillsReported'
<1>1. ASSUME NEW r \in Request, SendOrder(r) PROVE FillsReported'
  <2>1. PICK outcome \in Outcomes : sent' = Append(sent, SentBy(r, outcome))
    BY <1>1 DEF SendOrder, OutcomesFor
  <2>. DEFINE new == SentBy(r, outcome)
  <2>2. new.filled => new.reply = "done"
    BY DEF SentBy
  <2>. HIDE DEF new
  <2>3. sent' = Append(sent, new) /\ sent \in Seq(Sent)
    BY <2>1 DEF new, TypeOK
  <2>. QED
    BY <2>2, <2>3 DEF FillsReported
<1>2. UNCHANGED vars \/ Restart \/ TimePasses \/ PositionCloses => UNCHANGED sent
  BY DEF vars, serviceVars, Restart, TimePasses, PositionCloses
<1>3. ASSUME NEW r \in Request, NEW q, Quiet(r, q) PROVE UNCHANGED sent
  BY <1>3 DEF Quiet
<1>4. ASSUME NEW r \in Request,
             (\E token \in Token : IssueToken(r, token)) \/ RedeemPop(r) \/ TakeQuota(r)
      PROVE  UNCHANGED sent
  BY <1>4 DEF IssueToken, RedeemPop, TakeQuota
<1>5. UNCHANGED sent => FillsReported'
  BY DEF FillsReported
<1>. QED
  BY <1>1, <1>2, <1>3, <1>4, <1>5, StepCases

\* With every order in the journal and every row in view, what verify_trades
\* looks at decides.
LEMMA VerdictFromRows ==
    ASSUME TypeOK, RecordInv, AuditComplete, FillsReported, boot = 0,
           Len(rows) <= DefaultLimit
    PROVE  NoTicketNothingReachedBroker
<1>. SUFFICES ASSUME \A r \in Request : req[r].pc # "row", NoRealOrders,
                     NEW i \in DOMAIN sent, sent[i].filled
              PROVE  FALSE
  BY DEF NoTicketNothingReachedBroker
<1>1. /\ i \in Nat \ {0} /\ sent[i] \in Sent /\ sent[i].reply = "done"
  BY DEF TypeOK, FillsReported
<1>2. ~(sent[i].boot < boot)
  BY <1>1 DEF Sent
<1>3. PICK k \in DOMAIN rows : rows[k].order = i
  BY <1>2 DEF AuditComplete, RowsAbout
<1>4. rows[k].event # "preview"
  BY <1>1, <1>3 DEF RecordInv, PreviewRows
<1>5. rows[k].event \in {"executed", "closed"}
  <2>1. rows[k].event \in Event
    <3>1. rows[k] \in Row
      BY DEF TypeOK
    <3>. QED
      BY <3>1 DEF Row
  <2>2. rows[k].event # "rejected"
    BY <1>1, <1>3, <1>4 DEF RecordInv, NoPhantomRows
  <2>. QED
    BY <1>4, <2>1, <2>2 DEF Event
<1>6. HasTicket(rows[k])
  BY <1>5 DEF HasTicket
<1>. DEFINE j == Len(rows) + 1 - k
<1>7. /\ Len(rows) \in Nat /\ k \in 1..Len(rows) /\ j \in 1..Len(rows)
      /\ Len(rows) + 1 - j = k
  BY DEF TypeOK
<1>8. Recent(DefaultLimit) = [m \in 1..Len(rows) |-> rows[Len(rows) + 1 - m]]
  <2>1. CASE Len(rows) < DefaultLimit
    BY <2>1 DEF Recent
  <2>2. CASE ~(Len(rows) < DefaultLimit)
    <3>1. Len(rows) \in Nat /\ DefaultLimit \in Nat
      BY <1>7 DEF DefaultLimit
    <3>2. Len(rows) = DefaultLimit
      BY <2>2, <3>1
    <3>. QED
      BY <2>2, <3>2 DEF Recent
  <2>. QED
    BY <2>1, <2>2
<1>9. ~HasTicket(rows[k])
  BY <1>7, <1>8 DEF NoRealOrders
<1>. QED
  BY <1>6, <1>9

(* verify_trades.py:78-82 speaks the truth where its reading of the journal  *)
(* is all there is: a journal that takes every row, a bridge that has not    *)
(* been restarted, a terminal that reports every fill it makes, and no more  *)
(* rows than verify_trades asks for.                                         *)
THEOREM VerdictHolds ==
    /\ JournalEnabled /\ ~JournalMayFail
    /\ MaxRestarts = 0
    /\ \A o \in Outcomes : o.filled => o.reply = "done"
    => (Spec => [](Len(rows) <= DefaultLimit => NoTicketNothingReachedBroker))
<1>. SUFFICES ASSUME JournalEnabled, ~JournalMayFail, MaxRestarts = 0,
                     \A o \in Outcomes : o.filled => o.reply = "done"
              PROVE  Spec => [](Len(rows) <= DefaultLimit => NoTicketNothingReachedBroker)
  OBVIOUS
<1>1. Init => FillsReported
  BY DEF Init, FillsReported
<1>2. TypeOK /\ ThreadInv /\ FillsReported /\ [Next]_vars => FillsReported'
  BY StepReported
<1>3. TypeOK /\ RecordInv /\ FillsReported
      => (Len(rows) <= DefaultLimit => NoTicketNothingReachedBroker)
  <2>. SUFFICES ASSUME TypeOK, RecordInv, FillsReported, Len(rows) <= DefaultLimit
                PROVE  NoTicketNothingReachedBroker
    OBVIOUS
  <2>1. AuditComplete
    BY DEF RecordInv
  <2>2. boot = 0
    BY DEF TypeOK
  <2>. QED
    BY <2>1, <2>2, VerdictFromRows
<1>. QED
  BY <1>1, <1>2, <1>3, TypeCorrect, RecordInvariant, PTL DEF Spec
-----------------------------------------------------------------------------
(* What the day's count is spent on                                          *)

\* The sets that are counted are finite, the requests that hold units because
\* their slots are distinct: the number of threads does not matter.
LEMMA CountedFinite ==
    ASSUME TypeOK, QuotaInv, UnitsOfThisBoot, NEW b, NEW d
    PROVE  IsFiniteSet(UnitOrders(b, d)) /\ IsFiniteSet(UnitHolders(d))
<1>1. IsFiniteSet(UnitOrders(b, d))
  <2>1. Len(sent) \in Nat /\ DOMAIN sent = 1..Len(sent)
    BY DEF TypeOK
  <2>2. IsFiniteSet(DOMAIN sent)
    BY <2>1, FS_Interval
  <2>. QED
    BY <2>2, FS_Subset DEF UnitOrders
<1>. DEFINE slot == [r \in UnitHolders(d) |-> req[r].unit.slot]
<1>2. \A r \in UnitHolders(d) :
        /\ r \in Request /\ HasUnit(req[r]) /\ req[r].unit \in Unit
        /\ req[r].unit.boot = boot /\ req[r].unit.day = d
        /\ req[r].unit.slot \in 1..MaxPerDay
  BY UnitTypes DEF UnitHolders, HasUnit, UnitsOfThisBoot, QuotaInv, UnitsGivenOut,
                   GivenOut
<1>3. slot \in [UnitHolders(d) -> 1..MaxPerDay]
  BY <1>2
<1>4. ASSUME NEW r \in UnitHolders(d), NEW s \in UnitHolders(d), slot[r] = slot[s]
      PROVE  r = s
  <2>1. req[r].unit = req[s].unit
    BY <1>2, <1>4 DEF Unit
  <2>. QED
    BY <1>2, <2>1 DEF QuotaInv, UnitsDistinct
<1>5. slot \in Injection(UnitHolders(d), 1..MaxPerDay)
  BY <1>3, <1>4 DEF Injection, IsInjective
<1>6. IsFiniteSet(1..MaxPerDay)
  BY FS_Interval, LimiterAssumption
<1>. HIDE DEF slot
<1>. QED
  BY <1>1, <1>5, <1>6, FS_Injection

\* A step that neither takes a unit nor sends an order.
LEMMA SpendFrame ==
    ASSUME SpendInv, UNCHANGED <<boot, sent, limiterVars>>,
           \A s \in Request :
             /\ HasUnit(req'[s]) <=> HasUnit(req[s])
             /\ HasUnit(req[s]) => req'[s].unit = req[s].unit
    PROVE  SpendInv'
<1>1. UnitsOfThisBoot'
  BY DEF SpendInv, UnitsOfThisBoot
<1>2. UnitOrders(boot, quotaDate)' = UnitOrders(boot, quotaDate)
  BY DEF UnitOrders, limiterVars
<1>3. UnitHolders(quotaDate)' = UnitHolders(quotaDate)
  BY DEF UnitHolders, HasUnit, limiterVars
<1>. QED
  BY <1>1, <1>2, <1>3 DEF SpendInv, QuotaSpentOnlyOnOrders, limiterVars

LEMMA ServeSpend ==
    ASSUME TypeOK, ThreadInv, PathInv, SpendInv, NEW r \in Request,
           Call(r) \/ Serve(r), ~TakeQuota(r), ~SendOrder(r)
    PROVE  SpendInv'
<1>1. /\ \A s \in Request : s # r => req'[s] = req[s]
      /\ ~HasUnit(req[r])
  <2>1. \A s \in Request : s # r => req'[s] = req[s]
    BY OneMoves DEF Becomes, TypeOK
  <2>2. req[r].pc # "send"
    BY Bystanders DEF RecordOrder
  <2>. QED
    BY <2>1, <2>2 DEF PathInv, PathOK
<1>2. /\ HasUnit(req'[r]) => HasUnit(req[r])
      /\ UNCHANGED <<boot, sent, limiterVars>>
  <2>1. CASE (\E token \in Token : IssueToken(r, token)) \/ RedeemPop(r)
    BY <2>1, TokenStepsUnits
  <2>2. CASE \E q : Quiet(r, q)
    BY <2>2 DEF Quiet, Becomes, TypeOK
  <2>. QED
    BY <2>1, <2>2, CallQuiet, ReadAccountQuiet, CheckCooldownQuiet, CheckTokenQuiet,
       QuoteEntryQuiet, RespondQuiet, RecordQuiet DEF Serve
<1>. QED
  BY <1>1, <1>2, SpendFrame

LEMMA LimiterSpend ==
    ASSUME TypeOK, ThreadInv, QuotaInv, SpendInv, NEW r \in Request, TakeQuota(r)
    PROVE  SpendInv'
<1>1. /\ req[r] \in RequestState /\ req \in [Request -> RequestState]
      /\ req[r].pc = "limit" /\ req[r].unit = None /\ req[r].order = 0
      /\ today \in Nat /\ quotaDate \in Nat /\ quotaCount \in Nat /\ boot \in Nat
      /\ quotaDate <= today /\ quotaDate' = today
      /\ UNCHANGED <<boot, sent>>
  BY ClocksAssumption, LimiterAssumption, ServiceAssumption
  DEF TypeOK, ThreadInv, ThreadOK, TakeQuota, CheckAndIncrement, RefuseQuota,
      ClocksTypeOK, LimiterTypeOK, QuotaInv
<1>2. \A s \in Request : s # r => req'[s] = req[s]
  BY <1>1 DEF TakeQuota, Answer, Becomes
<1>3. CASE RefuseQuota /\ Answer(r, "limit")
  <2>1. UNCHANGED limiterVars
    BY <1>1, <1>3, LimiterAssumption
    DEF RefuseQuota, HasQuota, RolledCount, limiterVars
  <2>2. ~HasUnit(req[r]) /\ ~HasUnit(req'[r])
    BY <1>1, <1>3 DEF Answer, Becomes, Idle, HasUnit
  <2>. QED
    BY <1>1, <1>2, <2>1, <2>2, SpendFrame
<1>4. CASE /\ CheckAndIncrement
           /\ Becomes(r, [req[r] EXCEPT !.pc = "send", !.unit = NextUnit])
  <2>1. /\ req'[r].unit = NextUnit /\ req'[r].order = 0
        /\ NextUnit.boot = boot /\ NextUnit.day = today /\ NextUnit # None
    BY <1>1, <1>4, QuotaTypes, ServiceAssumption DEF Becomes, RequestState, NextUnit
  <2>2. UnitsOfThisBoot'
    BY <1>1, <1>2, <2>1 DEF SpendInv, UnitsOfThisBoot, HasUnit
  <2>3. UnitHolders(quotaDate)' = UnitHolders(today) \cup {r}
    BY <1>1, <1>2, <2>1 DEF UnitHolders
  <2>4. UnitOrders(boot, quotaDate)' = UnitOrders(boot, today)
    BY <1>1 DEF UnitOrders
  <2>5. r \notin UnitHolders(today)
    BY <1>1 DEF UnitHolders
  <2>6. Cardinality(UnitHolders(quotaDate))' = Cardinality(UnitHolders(today)) + 1
    BY <2>3, <2>5, CountedFinite, FS_AddElement DEF SpendInv
  <2>7. quotaCount' = RolledCount + 1
    BY <1>4 DEF CheckAndIncrement
  <2>8. /\ Cardinality(UnitOrders(boot, today)) \in Nat
        /\ Cardinality(UnitHolders(today)) \in Nat
    BY CountedFinite, FS_CardinalityType DEF SpendInv
  <2>9. RolledCount = Cardinality(UnitOrders(boot, today))
                        + Cardinality(UnitHolders(today))
    <3>1. CASE quotaDate = today
      BY <3>1 DEF SpendInv, QuotaSpentOnlyOnOrders, RolledCount
    <3>2. CASE quotaDate # today
      <4>1. UnitOrders(boot, today) = {}
        <5>1. ASSUME NEW i \in UnitOrders(boot, today) PROVE FALSE
          <6>1. /\ i \in DOMAIN sent /\ sent[i].unit # None
                /\ sent[i].unit.boot = boot /\ sent[i].unit.day = today
            BY <5>1 DEF UnitOrders
          <6>. QED
            BY <1>1, <3>2, <6>1 DEF QuotaInv, UnitsGivenOut, GivenOut
        <5>. QED
          BY <5>1
      <4>2. UnitHolders(today) = {}
        <5>1. ASSUME NEW s \in UnitHolders(today) PROVE FALSE
          <6>1. s \in Request /\ HasUnit(req[s]) /\ req[s].unit.day = today
            BY <5>1 DEF UnitHolders, HasUnit
          <6>. QED
            BY <1>1, <3>2, <6>1
            DEF SpendInv, UnitsOfThisBoot, QuotaInv, UnitsGivenOut, GivenOut
        <5>. QED
          BY <5>1
      <4>. QED
        BY <3>2, <4>1, <4>2, FS_EmptySet DEF RolledCount
    <3>. QED
      BY <3>1, <3>2
  <2>. QED
    BY <2>2, <2>4, <2>6, <2>7, <2>8, <2>9 DEF SpendInv, QuotaSpentOnlyOnOrders
<1>. QED
  BY <1>3, <1>4 DEF TakeQuota, CheckAndIncrement, RefuseQuota

\* An order takes its unit over from the thread that held it.
LEMMA SendSpend ==
    ASSUME TypeOK, ThreadInv, QuotaInv, SpendInv, NEW r \in Request, SendOrder(r)
    PROVE  SpendInv'
<1>1. PICK outcome \in Outcome, q \in RequestState :
        /\ sent' = Append(sent, SentBy(r, outcome))
        /\ SentBy(r, outcome) \in Sent
        /\ Becomes(r, q) /\ ThreadOK(q)
        /\ q.order # 0
        /\ BrokerTypeOK' /\ UNCHANGED tradeMode
  BY SendShape
<1>. DEFINE new == SentBy(r, outcome)
            n == Len(sent) + 1
<1>2. /\ req \in [Request -> RequestState] /\ sent \in Seq(Sent)
      /\ req[r].pc = "send" /\ req[r].order = 0
      /\ UNCHANGED <<quotaDate, quotaCount, boot>>
      /\ quotaCount \in Nat
  BY LimiterAssumption
  DEF TypeOK, SendOrder, ThreadInv, ThreadOK, limiterVars, LimiterTypeOK
<1>3. /\ new.unit = req[r].unit
      /\ req[r].unit # None => HasUnit(req[r]) /\ req[r].unit.boot = boot
  BY <1>2 DEF SentBy, HasUnit, SpendInv, UnitsOfThisBoot
<1>4. /\ DOMAIN sent' = DOMAIN sent \cup {n}
      /\ n \notin DOMAIN sent
      /\ \A i \in DOMAIN sent : sent'[i] = sent[i]
      /\ sent'[n] = new
  <2>. HIDE DEF new
  <2>. QED
    BY <1>1, <1>2 DEF new
<1>5. /\ req'[r].order # 0
      /\ \A s \in Request : s # r => req'[s] = req[s]
  BY <1>1, <1>2 DEF Becomes
<1>. HIDE DEF new, n
<1>6. UnitsOfThisBoot'
  BY <1>2, <1>5 DEF SpendInv, UnitsOfThisBoot, HasUnit
<1>7. CASE new.unit # None /\ new.unit.day = quotaDate
  <2>1. /\ UnitOrders(boot, quotaDate)' = UnitOrders(boot, quotaDate) \cup {n}
        /\ n \notin UnitOrders(boot, quotaDate)
    BY <1>2, <1>3, <1>4, <1>7 DEF UnitOrders
  <2>2. /\ UnitHolders(quotaDate)' = UnitHolders(quotaDate) \ {r}
        /\ r \in UnitHolders(quotaDate)
    BY <1>2, <1>3, <1>5, <1>7 DEF UnitHolders
  <2>3. /\ IsFiniteSet(UnitOrders(boot, quotaDate))
        /\ IsFiniteSet(UnitHolders(quotaDate))
    BY CountedFinite DEF SpendInv
  <2>4. /\ Cardinality(UnitOrders(boot, quotaDate)) \in Nat
        /\ Cardinality(UnitHolders(quotaDate)) \in Nat
        /\ Cardinality(UnitOrders(boot, quotaDate))'
             = Cardinality(UnitOrders(boot, quotaDate)) + 1
        /\ Cardinality(UnitHolders(quotaDate))'
             = Cardinality(UnitHolders(quotaDate)) - 1
    BY <2>1, <2>2, <2>3, FS_AddElement, FS_RemoveElement, FS_CardinalityType
  <2>. QED
    BY <1>2, <1>6, <2>4 DEF SpendInv, QuotaSpentOnlyOnOrders
<1>8. CASE ~(new.unit # None /\ new.unit.day = quotaDate)
  <2>1. UnitOrders(boot, quotaDate)' = UnitOrders(boot, quotaDate)
    BY <1>2, <1>4, <1>8 DEF UnitOrders
  <2>2. UnitHolders(quotaDate)' = UnitHolders(quotaDate)
    BY <1>2, <1>3, <1>5, <1>8 DEF UnitHolders
  <2>. QED
    BY <1>2, <1>6, <2>1, <2>2 DEF SpendInv, QuotaSpentOnlyOnOrders
<1>. QED
  BY <1>7, <1>8

\* A new process counts from zero: no order and no thread has a unit of it.
LEMMA RestartSpend ==
    ASSUME TypeOK, QuotaInv, Restart
    PROVE  SpendInv'
<1>1. /\ boot \in Nat /\ boot' = boot + 1 /\ quotaCount' = 0 /\ sent' = sent
      /\ \A s \in Request : ~HasUnit(req'[s]) /\ req'[s].unit = None
      /\ \A i \in DOMAIN sent : sent[i].unit # None => sent[i].unit.boot \in Nat
  BY UnitTypes, ServiceAssumption DEF TypeOK, Restart, Idle, HasUnit, Unit
<1>2. UnitOrders(boot, quotaDate)' = {}
  <2>1. ASSUME NEW i \in UnitOrders(boot, quotaDate)' PROVE FALSE
    <3>1. i \in DOMAIN sent /\ sent[i].unit # None /\ sent[i].unit.boot = boot + 1
      BY <1>1, <2>1 DEF UnitOrders
    <3>. QED
      BY <1>1, <3>1 DEF QuotaInv, UnitsGivenOut, GivenOut
  <2>. QED
    BY <2>1
<1>3. UnitHolders(quotaDate)' = {}
  BY <1>1 DEF UnitHolders
<1>. QED
  BY <1>1, <1>2, <1>3, FS_EmptySet
  DEF SpendInv, UnitsOfThisBoot, QuotaSpentOnlyOnOrders

LEMMA StepSpend ==
    ASSUME TypeOK, ThreadInv, QuotaInv, PathInv, SpendInv, [Next]_vars
    PROVE  SpendInv'
<1>1. CASE UNCHANGED vars \/ TimePasses \/ PositionCloses
  BY <1>1, SpendFrame DEF vars, TimePasses, PositionCloses, serviceVars
<1>. QED
  BY <1>1, ServeSpend, LimiterSpend, SendSpend, RestartSpend DEF Next

LEMMA SpendInvariant == Spec => []SpendInv
<1>1. Init => SpendInv
  <2>. SUFFICES ASSUME Init PROVE SpendInv
    OBVIOUS
  <2>1. UnitOrders(boot, quotaDate) = {} /\ UnitHolders(quotaDate) = {}
    BY DEF Init, Idle, UnitOrders, UnitHolders
  <2>2. UnitsOfThisBoot
    BY DEF Init, Idle, HasUnit, UnitsOfThisBoot
  <2>3. quotaCount = 0 /\ Cardinality({}) = 0
    BY FS_EmptySet DEF Init, LimiterInit
  <2>. QED
    BY <2>1, <2>2, <2>3 DEF SpendInv, QuotaSpentOnlyOnOrders
<1>2. /\ TypeOK /\ ThreadInv /\ QuotaInv /\ PathInv /\ SpendInv /\ [Next]_vars
      => SpendInv'
  BY StepSpend
<1>. QED
  BY <1>1, <1>2, TypeCorrect, QuotaInvariant, PathInvariant, PTL DEF Spec

(* The day's count is, at every step, the number of its orders sent or about *)
(* to be sent: nothing else is charged to it, and nothing is charged twice.  *)
THEOREM QuotaAccounted == Spec => []QuotaSpentOnlyOnOrders
<1>1. SpendInv => QuotaSpentOnlyOnOrders
  BY DEF SpendInv
<1>. QED
  BY <1>1, SpendInvariant, PTL

-----------------------------------------------------------------------------
(* The calendar day                                                          *)

\* What a step does to the units of the threads: none but the limiter's gives
\* one, and its unit is of today.
LEMMA UnitsMove ==
    ASSUME TypeOK, ThreadInv, Next, ~TimePasses, \A r \in Request : ~SendOrder(r)
    PROVE  /\ UNCHANGED <<today, sent>>
           /\ \A s \in Request : HasUnit(req'[s]) =>
                \/ HasUnit(req[s]) /\ req'[s].unit = req[s].unit
                \/ req'[s].unit.day = today
<1>1. ASSUME NEW r \in Request, NEW q, Quiet(r, q)
      PROVE  /\ UNCHANGED <<today, sent>>
             /\ \A s \in Request : HasUnit(req'[s]) =>
                  HasUnit(req[s]) /\ req'[s].unit = req[s].unit
  BY <1>1 DEF Quiet, Becomes, TypeOK, clockVars
<1>2. ASSUME NEW r \in Request,
             (\E token \in Token : IssueToken(r, token)) \/ RedeemPop(r)
      PROVE  /\ UNCHANGED <<today, sent>>
             /\ \A s \in Request : HasUnit(req'[s]) =>
                  HasUnit(req[s]) /\ req'[s].unit = req[s].unit
  BY <1>2, TokenStepsUnits DEF clockVars
<1>3. ASSUME NEW r \in Request, TakeQuota(r)
      PROVE  /\ UNCHANGED <<today, sent>>
             /\ \A s \in Request : HasUnit(req'[s]) =>
                  \/ HasUnit(req[s]) /\ req'[s].unit = req[s].unit
                  \/ req'[s].unit.day = today
  <2>1. /\ req \in [Request -> RequestState] /\ req[r].unit = None
        /\ UNCHANGED <<today, sent>>
    BY <1>3 DEF TypeOK, TakeQuota, ThreadInv, ThreadOK, clockVars
  <2>2. CASE Answer(r, "limit")
    BY <2>1, <2>2 DEF Answer, Becomes, Idle, HasUnit
  <2>3. CASE Becomes(r, [req[r] EXCEPT !.pc = "send", !.unit = NextUnit])
    BY <2>1, <2>3 DEF Becomes, RequestState, NextUnit
  <2>. QED
    BY <1>3, <2>1, <2>2, <2>3 DEF TakeQuota
<1>4. CASE Restart
  BY <1>4 DEF Restart, clockVars, Idle, HasUnit
<1>5. CASE PositionCloses
  BY <1>5 DEF PositionCloses, clockVars, serviceVars
<1>. QED
  BY <1>1, <1>2, <1>3, <1>4, <1>5, StepCases

\* The sets that are counted are finite.
LEMMA DaysFinite ==
    ASSUME TypeOK, IsFiniteSet(Request), NEW d
    PROVE  /\ IsFiniteSet(Straddled(d)) /\ Cardinality(Straddled(d)) \in Nat
           /\ IsFiniteSet(LateHolders) /\ Cardinality(LateHolders) \in Nat
           /\ Cardinality(LateHolders) <= Cardinality(Request)
           /\ Cardinality(Request) \in Nat
           /\ IsFiniteSet(OpenedOn(d)) /\ Cardinality(OpenedOn(d)) \in Nat
<1>1. IsFiniteSet(DOMAIN sent)
  <2>1. Len(sent) \in Nat /\ DOMAIN sent = 1..Len(sent)
    BY DEF TypeOK
  <2>. QED
    BY <2>1, FS_Interval
<1>2. /\ Straddled(d) \in SUBSET DOMAIN sent /\ OpenedOn(d) \in SUBSET DOMAIN sent
      /\ LateHolders \in SUBSET Request
  BY DEF Straddled, OpenedOn, LateHolders
<1>. QED
  BY <1>1, <1>2, FS_Subset, FS_CardinalityType

\* A step that sends nothing, on the day it is.
LEMMA CalendarFrame ==
    ASSUME TypeOK, CalendarInv, IsFiniteSet(Request),
           UNCHANGED <<today, sent>>,
           \A s \in Request : HasUnit(req'[s]) =>
             \/ HasUnit(req[s]) /\ req'[s].unit = req[s].unit
             \/ req'[s].unit.day = today
    PROVE  CalendarInv'
<1>1. SentByNow' /\ \A d : Straddled(d)' = Straddled(d)
  BY DEF CalendarInv, SentByNow, Straddled
<1>2. LateHolders' \in SUBSET LateHolders
  BY DEF LateHolders
<1>3. IsFiniteSet(LateHolders) /\ Cardinality(LateHolders) \in Nat
  BY DaysFinite
<1>4. Cardinality(LateHolders)' <= Cardinality(LateHolders)
      /\ Cardinality(LateHolders)' \in Nat
  BY <1>2, <1>3, FS_Subset, FS_CardinalityType
<1>5. ASSUME NEW d \in 1..MaxDay
      PROVE  Cardinality(Straddled(d))'
               + (IF d = today' THEN Cardinality(LateHolders)' ELSE 0)
             <= Cardinality(Request)
  <2>1. /\ Cardinality(Straddled(d)) \in Nat /\ Cardinality(Request) \in Nat
        /\ Cardinality(Straddled(d))' = Cardinality(Straddled(d))
    BY <1>1, DaysFinite
  <2>2. Cardinality(Straddled(d)) + (IF d = today THEN Cardinality(LateHolders) ELSE 0)
          <= Cardinality(Request)
    BY DEF CalendarInv, FewStraddle
  <2>. QED
    BY <1>3, <1>4, <2>1, <2>2
<1>. QED
  BY <1>1, <1>5 DEF CalendarInv, FewStraddle

\* At midnight the threads that hold a unit are late, and there are no more of
\* them than threads.
LEMMA MidnightCalendar ==
    ASSUME TypeOK, CalendarInv, IsFiniteSet(Request), TimePasses
    PROVE  CalendarInv'
<1>1. /\ today \in 1..MaxDay /\ today' \in {today, today + 1}
      /\ MaxDay \in Nat
      /\ UNCHANGED <<req, sent>>
  BY ClocksAssumption DEF TypeOK, ClocksTypeOK, TimePasses, Tick, serviceVars
<1>2. CASE today' = today
  BY <1>1, <1>2, CalendarFrame
<1>3. CASE today' = today + 1
  <2>1. \A i \in DOMAIN sent : sent[i].day \in Nat
    <3>1. \A i \in DOMAIN sent : sent[i] \in Sent
      BY DEF TypeOK
    <3>. QED
      BY <3>1 DEF Sent
  <2>2. SentByNow'
    BY <1>1, <1>3, <2>1 DEF CalendarInv, SentByNow
  <2>3. ASSUME NEW d \in 1..MaxDay
        PROVE  Cardinality(Straddled(d))'
                 + (IF d = today' THEN Cardinality(LateHolders)' ELSE 0)
               <= Cardinality(Request)
    <3>1. Straddled(d)' = Straddled(d)
      BY <1>1 DEF Straddled
    <3>2. Cardinality(Straddled(d)) \in Nat /\ Cardinality(LateHolders) \in Nat
          /\ Cardinality(Request) \in Nat
      BY DaysFinite
    <3>3. CASE d = today + 1
      <4>1. Straddled(d) = {}
        BY <1>1, <2>1, <3>3 DEF Straddled, CalendarInv, SentByNow
      <4>2. LateHolders' \in SUBSET Request
        BY DEF LateHolders
      <4>3. Cardinality(LateHolders)' <= Cardinality(Request)
            /\ Cardinality(LateHolders)' \in Nat
        BY <4>2, FS_Subset, FS_CardinalityType
      <4>. QED
        BY <3>1, <3>2, <4>1, <4>3, FS_EmptySet
    <3>4. CASE d # today + 1
      <4>1. Cardinality(Straddled(d)) <= Cardinality(Request)
        BY <3>2 DEF CalendarInv, FewStraddle
      <4>. QED
        BY <1>3, <3>1, <3>2, <3>4, <4>1
    <3>. QED
      BY <3>3, <3>4
  <2>. QED
    BY <2>2, <2>3 DEF CalendarInv, FewStraddle
<1>. QED
  BY <1>1, <1>2, <1>3

\* A late thread sends its order, and is late no more.
LEMMA SendCalendar ==
    ASSUME TypeOK, ThreadInv, CalendarInv, IsFiniteSet(Request),
           NEW r \in Request, SendOrder(r)
    PROVE  CalendarInv'
<1>1. PICK outcome \in Outcome, q \in RequestState :
        /\ sent' = Append(sent, SentBy(r, outcome))
        /\ SentBy(r, outcome) \in Sent
        /\ Becomes(r, q) /\ ThreadOK(q)
        /\ q.order # 0
        /\ BrokerTypeOK' /\ UNCHANGED tradeMode
  BY SendShape
<1>. DEFINE new == SentBy(r, outcome)
            n == Len(sent) + 1
<1>2. /\ req \in [Request -> RequestState] /\ sent \in Seq(Sent)
      /\ req[r].order = 0 /\ today' = today /\ today \in Nat
  <2>1. req \in [Request -> RequestState] /\ sent \in Seq(Sent) /\ today \in Nat
    BY ClocksAssumption DEF TypeOK, ClocksTypeOK
  <2>2. req[r].pc = "send" /\ today' = today
    BY DEF SendOrder, clockVars
  <2>3. req[r].order = 0
    BY <2>2 DEF ThreadInv, ThreadOK
  <2>. QED
    BY <2>1, <2>2, <2>3
<1>3. /\ DOMAIN sent' = DOMAIN sent \cup {n}
      /\ n \notin DOMAIN sent
      /\ \A i \in DOMAIN sent : sent'[i] = sent[i]
      /\ sent'[n] = new
  <2>. HIDE DEF new
  <2>. QED
    BY <1>1, <1>2 DEF new
<1>4. /\ new.day = today /\ new.unit = req[r].unit
      /\ ~HasUnit(req'[r])
      /\ \A s \in Request : s # r => req'[s] = req[s]
  BY <1>1, <1>2 DEF SentBy, Becomes, HasUnit
<1>. HIDE DEF new, n
<1>5. SentByNow'
  BY <1>2, <1>3, <1>4 DEF CalendarInv, SentByNow
<1>6. LateHolders' = LateHolders \ {r}
  BY <1>2, <1>4 DEF LateHolders
<1>7. ASSUME NEW d \in 1..MaxDay
      PROVE  Cardinality(Straddled(d))'
               + (IF d = today' THEN Cardinality(LateHolders)' ELSE 0)
             <= Cardinality(Request)
  <2>1. /\ IsFiniteSet(Straddled(d)) /\ Cardinality(Straddled(d)) \in Nat
        /\ IsFiniteSet(LateHolders) /\ Cardinality(LateHolders) \in Nat
        /\ Cardinality(Request) \in Nat
    BY DaysFinite
  <2>2. Cardinality(Straddled(d)) + (IF d = today THEN Cardinality(LateHolders) ELSE 0)
          <= Cardinality(Request)
    BY DEF CalendarInv, FewStraddle
  <2>3. CASE d = today /\ new.unit # None /\ new.unit.day # today
    <3>1. Straddled(d)' = Straddled(d) \cup {n} /\ n \notin Straddled(d)
      BY <1>3, <1>4, <2>3 DEF Straddled
    <3>2. r \in LateHolders
      BY <1>2, <1>4, <2>3 DEF LateHolders, HasUnit
    <3>3. /\ Cardinality(Straddled(d))' = Cardinality(Straddled(d)) + 1
          /\ Cardinality(LateHolders)' = Cardinality(LateHolders) - 1
      <4>1. Cardinality(Straddled(d) \cup {n}) = Cardinality(Straddled(d)) + 1
        BY <2>1, <3>1, FS_AddElement
      <4>2. Cardinality(LateHolders \ {r}) = Cardinality(LateHolders) - 1
        BY <2>1, <3>2, FS_RemoveElement
      <4>. QED
        BY <1>6, <3>1, <4>1, <4>2
    <3>. QED
      BY <1>2, <2>1, <2>2, <2>3, <3>3
  <2>4. CASE ~(d = today /\ new.unit # None /\ new.unit.day # today)
    <3>1. Straddled(d)' = Straddled(d)
      BY <1>3, <1>4, <2>4 DEF Straddled
    <3>2. LateHolders' \in SUBSET LateHolders
      BY <1>6
    <3>3. Cardinality(LateHolders)' <= Cardinality(LateHolders)
          /\ Cardinality(LateHolders)' \in Nat
      BY <2>1, <3>2, FS_Subset, FS_CardinalityType
    <3>. QED
      BY <1>2, <2>1, <2>2, <3>1, <3>3
  <2>. QED
    BY <2>3, <2>4
<1>. QED
  BY <1>5, <1>7 DEF CalendarInv, FewStraddle

LEMMA StepCalendar ==
    ASSUME TypeOK, ThreadInv, CalendarInv, IsFiniteSet(Request), [Next]_vars
    PROVE  CalendarInv'
<1>1. CASE UNCHANGED vars
  BY <1>1, CalendarFrame DEF vars, clockVars, serviceVars
<1>. QED
  BY <1>1, MidnightCalendar, SendCalendar, UnitsMove, CalendarFrame

\* The orders of a day are those on its own units, a slot of each process for
\* each, and those that straddle.
LEMMA BoundFromCalendar ==
    ASSUME TypeOK, QuotaInv, OpensAreGuarded, CalendarInv, IsFiniteSet(Request)
    PROVE  CalendarBound
<1>. SUFFICES ASSUME NEW d \in 1..MaxDay
              PROVE  Cardinality(OpenedOn(d))
                       <= (MaxRestarts + 1) * MaxPerDay + Cardinality(Request)
  BY DEF CalendarBound
<1>. DEFINE onTime == {i \in OpenedOn(d) : sent[i].unit.day = d}
            place == [i \in onTime |-> <<sent[i].unit.boot, sent[i].unit.slot>>]
            places == (0..MaxRestarts) \X (1..MaxPerDay)
<1>1. /\ MaxRestarts \in Nat /\ MaxPerDay \in Nat /\ boot \in 0..MaxRestarts
      /\ d \in Nat
  BY ServiceAssumption, LimiterAssumption, ClocksAssumption DEF TypeOK
<1>2. \A i \in OpenedOn(d) :
        /\ i \in DOMAIN sent /\ sent[i].unit # None /\ sent[i].day = d
        /\ sent[i].unit \in Unit
        /\ sent[i].unit.slot \in 1..MaxPerDay /\ sent[i].unit.boot \in 0..MaxRestarts
  <2>. SUFFICES ASSUME NEW i \in OpenedOn(d)
                PROVE  /\ i \in DOMAIN sent /\ sent[i].unit # None /\ sent[i].day = d
                       /\ sent[i].unit \in Unit
                       /\ sent[i].unit.slot \in 1..MaxPerDay
                       /\ sent[i].unit.boot \in 0..MaxRestarts
    OBVIOUS
  <2>1. i \in DOMAIN sent /\ sent[i].unit # None /\ sent[i].day = d
    BY DEF OpenedOn, OpensAreGuarded
  <2>2. sent[i].unit \in Unit /\ GivenOut(sent[i].unit)
    BY <2>1, UnitTypes DEF QuotaInv, UnitsGivenOut
  <2>. QED
    BY <1>1, <2>1, <2>2 DEF GivenOut, Unit
<1>3. place \in [onTime -> places]
  BY <1>2
<1>4. ASSUME NEW i \in onTime, NEW j \in onTime, place[i] = place[j]
      PROVE  i = j
  <2>1. sent[i].unit.boot = sent[j].unit.boot /\ sent[i].unit.slot = sent[j].unit.slot
    BY <1>4
  <2>2. sent[i].unit = sent[j].unit
    BY <1>2, <2>1 DEF Unit
  <2>. QED
    BY <1>2, <2>2 DEF QuotaInv, UnitsDistinct
<1>5. place \in Injection(onTime, places)
  BY <1>3, <1>4 DEF Injection, IsInjective
<1>6. /\ IsFiniteSet(places)
      /\ Cardinality(places) = (MaxRestarts + 1) * MaxPerDay
  <2>1. /\ IsFiniteSet(0..MaxRestarts) /\ Cardinality(0..MaxRestarts) = MaxRestarts + 1
        /\ IsFiniteSet(1..MaxPerDay) /\ Cardinality(1..MaxPerDay) = MaxPerDay
    BY <1>1, FS_Interval
  <2>. DEFINE S == 0..MaxRestarts
              T == 1..MaxPerDay
  <2>2. /\ IsFiniteSet(S \X T)
        /\ Cardinality(S \X T) = Cardinality(S) * Cardinality(T)
    <3>. HIDE DEF S, T
    <3>. QED
      BY <2>1, FS_Product DEF S, T
  <2>. QED
    BY <2>1, <2>2
<1>. HIDE DEF place, places
<1>7. /\ IsFiniteSet(onTime)
      /\ Cardinality(onTime) <= (MaxRestarts + 1) * MaxPerDay
  BY <1>5, <1>6, FS_Injection
<1>8. OpenedOn(d) \in SUBSET (onTime \cup Straddled(d))
  BY <1>2 DEF Straddled
<1>. DEFINE bound == (MaxRestarts + 1) * MaxPerDay
<1>. HIDE DEF onTime
<1>9. /\ IsFiniteSet(Straddled(d)) /\ Cardinality(Straddled(d)) \in Nat
      /\ Cardinality(LateHolders) \in Nat /\ Cardinality(Request) \in Nat
      /\ Cardinality(Straddled(d)) <= Cardinality(Request)
  BY DaysFinite DEF CalendarInv, FewStraddle
<1>10. /\ IsFiniteSet(onTime \cup Straddled(d))
       /\ Cardinality(onTime \cup Straddled(d))
            = Cardinality(onTime) + Cardinality(Straddled(d))
                - Cardinality(onTime \cap Straddled(d))
       /\ Cardinality(onTime \cap Straddled(d)) \in Nat
       /\ Cardinality(onTime) \in Nat
  <2>1. onTime \cap Straddled(d) \in SUBSET onTime
    OBVIOUS
  <2>. QED
    BY <1>7, <1>9, <2>1, FS_Union, FS_Subset, FS_CardinalityType
<1>11. /\ Cardinality(OpenedOn(d)) <= Cardinality(onTime \cup Straddled(d))
       /\ Cardinality(OpenedOn(d)) \in Nat
  BY <1>8, <1>10, FS_Subset, FS_CardinalityType
<1>12. bound \in Nat /\ Cardinality(onTime) <= bound
  BY <1>1, <1>7
<1>. HIDE DEF bound
<1>13. Cardinality(OpenedOn(d)) <= bound + Cardinality(Request)
  BY <1>9, <1>10, <1>11, <1>12
<1>. QED
  BY <1>13 DEF bound

(* Whatever happens, a calendar day sees at most MaxPerDay orders for each   *)
(* process that has lived, and one more for each thread: the true ceiling    *)
(* behind the one that .env.example:51 documents.                            *)
THEOREM CalendarBounded == IsFiniteSet(Request) => (Spec => []CalendarBound)
<1>. SUFFICES ASSUME IsFiniteSet(Request)
              PROVE  Spec => []CalendarBound
  OBVIOUS
<1>1. Init => CalendarInv
  <2>. SUFFICES ASSUME Init PROVE CalendarInv
    OBVIOUS
  <2>1. /\ LateHolders = {} /\ \A d : Straddled(d) = {}
        /\ SentByNow
    BY DEF Init, Idle, LateHolders, HasUnit, Straddled, SentByNow
  <2>2. Cardinality({}) = 0 /\ Cardinality(Request) \in Nat
    BY FS_EmptySet, FS_CardinalityType
  <2>. QED
    BY <2>1, <2>2 DEF CalendarInv, FewStraddle
<1>2. TypeOK /\ ThreadInv /\ CalendarInv /\ [Next]_vars => CalendarInv'
  BY StepCalendar
<1>3. TypeOK /\ QuotaInv /\ OpensAreGuarded /\ CalendarInv => CalendarBound
  BY BoundFromCalendar
<1>. QED
  BY <1>1, <1>2, <1>3, TypeCorrect, QuotaInvariant, GuardsHold, PTL DEF Spec

(* The documented ceiling itself holds of a bridge that is not restarted, as *)
(* long as no request takes its unit before midnight and sends after it.     *)
THEOREM CalendarHolds ==
    MaxRestarts = 0 => (Spec /\ []NoStraddle => []CalendarCeiling)
<1>. SUFFICES ASSUME MaxRestarts = 0
              PROVE  Spec /\ []NoStraddle => []CalendarCeiling
  OBVIOUS
<1>. DEFINE InTime == \A i \in DOMAIN sent :
                        sent[i].unit # None => sent[i].unit.day = sent[i].day
<1>1. Init => InTime
  BY DEF Init
<1>2. TypeOK /\ ThreadInv /\ NoStraddle /\ InTime /\ [Next]_vars => InTime'
  <2>. SUFFICES ASSUME TypeOK, ThreadInv, NoStraddle, InTime, [Next]_vars
                PROVE  InTime'
    OBVIOUS
  <2>1. ASSUME NEW r \in Request, SendOrder(r) PROVE InTime'
    <3>1. PICK outcome \in Outcome, q \in RequestState :
            /\ sent' = Append(sent, SentBy(r, outcome))
            /\ SentBy(r, outcome) \in Sent
            /\ Becomes(r, q) /\ ThreadOK(q)
            /\ q.order # 0
            /\ BrokerTypeOK' /\ UNCHANGED tradeMode
      BY <2>1, SendShape
    <3>. DEFINE new == SentBy(r, outcome)
    <3>2. new.unit # None => new.unit.day = new.day
      <4>1. req[r].order = 0
        BY <2>1 DEF SendOrder, ThreadInv, ThreadOK
      <4>. QED
        BY <4>1 DEF SentBy, NoStraddle, HasUnit
    <3>. HIDE DEF new
    <3>. QED
      BY <3>1, <3>2 DEF new, TypeOK
  <2>2. UNCHANGED vars \/ TimePasses => UNCHANGED sent
    BY DEF vars, TimePasses, serviceVars
  <2>. QED
    BY <2>1, <2>2, UnitsMove
<1>3. ASSUME TypeOK, OpensAreGuarded, QuotaInv, InTime, DailyCeiling
      PROVE  CalendarCeiling
  <2>. SUFFICES ASSUME NEW d \in 1..MaxDay
                PROVE  Cardinality({i \in DOMAIN sent : Opening(i) /\ sent[i].day = d})
                         <= MaxPerDay
    BY DEF CalendarCeiling
  <2>. DEFINE opened == {i \in DOMAIN sent : Opening(i) /\ sent[i].day = d}
  <2>1. opened \in SUBSET UnitOrders(0, d)
    <3>. SUFFICES ASSUME NEW i \in opened PROVE i \in UnitOrders(0, d)
      OBVIOUS
    <3>1. sent[i].unit # None
      BY <1>3 DEF OpensAreGuarded
    <3>2. sent[i].unit \in Unit /\ GivenOut(sent[i].unit) /\ boot \in 0..0
      BY <1>3, <3>1, UnitTypes DEF QuotaInv, UnitsGivenOut, TypeOK
    <3>3. sent[i].unit.boot = 0
      BY <3>2 DEF GivenOut, Unit
    <3>. QED
      BY <1>3, <3>1, <3>3 DEF UnitOrders
  <2>2. Cardinality(UnitOrders(0, d)) <= MaxPerDay
    BY <1>3 DEF DailyCeiling
  <2>3. IsFiniteSet(UnitOrders(0, d))
    <3>1. Len(sent) \in Nat /\ DOMAIN sent = 1..Len(sent)
      BY <1>3 DEF TypeOK
    <3>2. IsFiniteSet(DOMAIN sent)
      BY <3>1, FS_Interval
    <3>. QED
      BY <3>2, FS_Subset DEF UnitOrders
  <2>. HIDE DEF opened
  <2>4. /\ Cardinality(opened) <= Cardinality(UnitOrders(0, d))
        /\ Cardinality(opened) \in Nat /\ Cardinality(UnitOrders(0, d)) \in Nat
    BY <2>1, <2>3, FS_Subset, FS_CardinalityType
  <2>5. Cardinality(opened) <= MaxPerDay
    BY <2>2, <2>4, LimiterAssumption
  <2>. QED
    BY <2>5 DEF opened
<1>4. TypeOK /\ OpensAreGuarded /\ QuotaInv /\ InTime /\ DailyCeiling => CalendarCeiling
  BY <1>3
<1>. QED
  BY <1>1, <1>2, <1>4, TypeCorrect, GuardsHold, QuotaInvariant, CeilingHolds, PTL
  DEF Spec
-----------------------------------------------------------------------------
(* The whole invariant that TLC checks on the audit and core runs holds of   *)
(* every instance of the order path.                                         *)
THEOREM Invariant == Spec => []IndInv
<1>1. /\ TypeOK /\ ThreadInv /\ TokenInv /\ QuotaInv /\ OpensAreGuarded
      /\ SpendInv /\ PathInv /\ RecordInv
      => IndInv
  BY DEF IndInv
<1>. QED
  BY <1>1, TypeCorrect, TokenInvariant, QuotaInvariant, GuardsHold, SpendInvariant,
     PathInvariant, RecordInvariant, PTL
=============================================================================
