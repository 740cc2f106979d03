------------------------ MODULE TradingService_proofs ------------------------
(* What TLC checks of TradingService on small instances, proved for every    *)
(* value of the constants.                                                   *)
EXTENDS TradingInvariants, FiniteSetTheorems, TLAPS

-----------------------------------------------------------------------------
(* Types                                                                     *)

(* Payloads built from a valid intent or an open position are payloads.      *)
LEMMA PayloadTypes ==
    /\ \A intent \in OrderIntent :
         OpenPayload(intent) \in TokenPayload /\ intent.stops \in Levels
    /\ \A p \in Position : ClosePayload(p) \in TokenPayload
BY ModelsAssumption DEF OrderIntent, OpenPayload, Position, ClosePayload,
                        TokenPayload, OrderSide

(* The request updates the actions are written with keep the type of req.    *)
LEMMA IdleType == Idle \in RequestState
BY DEF Idle, RequestState, Pc, Kind, Verdict

(* A request that moves to a well-typed state keeps the type of req.         *)
LEMMA BecomesType ==
    ASSUME req \in [Request -> RequestState], NEW r \in Request,
           NEW q \in RequestState, Becomes(r, q)
    PROVE  req' \in [Request -> RequestState]
BY DEF Becomes

(* Appending a row, or losing it, keeps the journal a sequence of rows.      *)
LEMMA WriteType ==
    ASSUME rows \in Seq(Row), NEW row \in Row, Write(row)
    PROVE  rows' \in Seq(Row)
BY DEF Write

\* What an action leaves alone keeps its type.
LEMMA FrameTypes ==
    /\ ClocksTypeOK /\ UNCHANGED clockVars => ClocksTypeOK'
    /\ StoreTypeOK /\ UNCHANGED store => StoreTypeOK'
    /\ LimiterTypeOK /\ UNCHANGED limiterVars => LimiterTypeOK'
    /\ BrokerTypeOK /\ UNCHANGED brokerVars => BrokerTypeOK'
BY DEF clockVars, limiterVars, brokerVars, ClocksTypeOK, StoreTypeOK,
       LimiterTypeOK, BrokerTypeOK
-----------------------------------------------------------------------------
(* Quiet steps: those that change nothing but the local state of one thread, *)
(* and perhaps the journal.  They take nothing from the store or the limiter *)
(* and send nothing.                                                         *)

Quiet(r, q) ==
    /\ Becomes(r, q)
    /\ q \in RequestState
    /\ ThreadOK(q)
    /\ \A t \in Token : Holds(q, t) => Holding(r, t) /\ q.held = req[r].held
    /\ HasUnit(q) => HasUnit(req[r]) /\ q.unit = req[r].unit
    /\ rows' \in Seq(Row)
    /\ UNCHANGED <<clockVars, store, limiterVars, brokerVars, boot, minted, sent>>

(* The first step of a method is quiet: whether it goes on or refuses the    *)
(* call, it starts from a fresh frame.                                       *)
LEMMA CallQuiet ==
    ASSUME TypeOK, NEW r \in Request, Call(r)
    PROVE  \E q : Quiet(r, q)
<1>0. ASSUME NEW kind \in Kind, NEW verdict \in Verdict, Refuse(r, kind, verdict),
             UNCHANGED <<clockVars, store, limiterVars, brokerVars, rows, boot, minted, sent>>
      PROVE  \E q : Quiet(r, q)
  <2>. DEFINE q == [Idle EXCEPT !.pc = "answered", !.kind = kind, !.verdict = verdict]
  <2>1. q \in RequestState
    BY IdleType DEF RequestState, Pc, Idle
  <2>2. ThreadOK(q)
    BY DEF ThreadOK, Idle, BeforeRedeem, Ordering, PastRedeem
  <2>3. q.held = None /\ q.unit = None
    BY DEF Idle
  <2>4. Becomes(r, q)
    BY <1>0 DEF Refuse
  <2>5. Quiet(r, q)
    <3>. HIDE DEF q
    <3>. QED
      BY <1>0, <2>1, <2>2, <2>3, <2>4 DEF Quiet, Holds, HasUnit, TypeOK
  <2>. QED
    BY <2>5
<1>1. ASSUME NEW intent \in Intents, PreviewOrder(r, intent)
      PROVE  \E q : Quiet(r, q)
  <2>1. CASE \/ Refuse(r, "preview", "invalid")
             \/ Refuse(r, "preview", "unavailable")
    BY <1>0, <1>1, <2>1 DEF PreviewOrder, Kind, Verdict
  <2>. DEFINE q == [Idle EXCEPT !.pc = "issue", !.kind = "preview",
                                !.want = OpenPayload(intent)]
  <2>2. CASE Becomes(r, q)
    <3>1. OpenPayload(intent) \in TokenPayload
      BY PayloadTypes, ServiceAssumption
    <3>2. q \in RequestState
      BY <3>1, IdleType DEF Idle, RequestState, Pc, Kind
    <3>3. ThreadOK(q)
      BY <3>1, EntryAssumption DEF ThreadOK, Idle, BeforeRedeem, Ordering, PastRedeem
    <3>4. q.held = None /\ q.unit = None
      BY DEF Idle
    <3>5. Quiet(r, q)
      <4>. HIDE DEF q
      <4>. QED
        BY <1>1, <2>2, <3>2, <3>3, <3>4
        DEF PreviewOrder, Quiet, Holds, HasUnit, TypeOK
    <3>. QED
      BY <3>5
  <2>. QED
    BY <1>1, <2>1, <2>2 DEF PreviewOrder
<1>2. ASSUME NEW intent \in Intents, NEW token \in KnownToken,
             ExecuteOrder(r, intent, token)
      PROVE  \E q : Quiet(r, q)
  <2>1. CASE \/ Refuse(r, "execute", "invalid")
             \/ Refuse(r, "execute", "unavailable")
    BY <1>0, <1>2, <2>1 DEF ExecuteOrder, Kind, Verdict
  <2>. DEFINE q == [Idle EXCEPT !.pc = "account", !.kind = "execute",
                                !.token = token,
                                !.want = OpenPayload(intent),
                                !.stops = intent.stops]
  <2>2. CASE Valid(intent) /\ Becomes(r, q)
    <3>1. /\ OpenPayload(intent) \in TokenPayload /\ intent.stops \in Levels
          /\ intent \in OrderIntent
      BY PayloadTypes, ServiceAssumption
    <3>2. q \in RequestState
      BY <3>1, IdleType DEF Idle, RequestState, Pc, Kind, KnownToken
    <3>3. /\ OpenPayload(intent).side # "close"
          /\ OpenPayload(intent).symbol \in AllowedSymbol
          /\ VolumeValid(OpenPayload(intent).symbol, OpenPayload(intent).volume)
      BY <2>2, <3>1 DEF OpenPayload, OrderIntent, OrderSide, Valid
    <3>4. /\ q.pc = "account" /\ q.kind = "execute" /\ q.held = None
          /\ q.unit = None /\ q.order = 0 /\ q.want = OpenPayload(intent)
          /\ q.stops = intent.stops
      BY DEF Idle
    <3>5. ThreadOK(q)
      <4>. HIDE DEF q
      <4>. QED
        BY <3>1, <3>3, <3>4, EntryAssumption, ModelsAssumption
        DEF ThreadOK, BeforeRedeem, Ordering, PastDemoCheck, PastRedeem
    <3>6. Quiet(r, q)
      <4>. HIDE DEF q
      <4>. QED
        BY <1>2, <2>2, <3>2, <3>4, <3>5
        DEF ExecuteOrder, Quiet, Holds, HasUnit, TypeOK
    <3>. QED
      BY <3>6
  <2>. QED
    BY <1>2, <2>1, <2>2 DEF ExecuteOrder
<1>3. ASSUME NEW ticket \in Ticket, PreviewClose(r, ticket)
      PROVE  \E q : Quiet(r, q)
  <2>1. CASE Refuse(r, "preview_close", "not_found")
    BY <1>0, <1>3, <2>1 DEF PreviewClose, Kind, Verdict
  <2>2. ASSUME NEW p \in positions,
               Becomes(r, [Idle EXCEPT !.pc = "issue", !.kind = "preview_close",
                                       !.want = ClosePayload(p)])
        PROVE  \E q : Quiet(r, q)
    <3>. DEFINE q == [Idle EXCEPT !.pc = "issue", !.kind = "preview_close",
                                  !.want = ClosePayload(p)]
    <3>1. ClosePayload(p) \in TokenPayload
      BY PayloadTypes DEF TypeOK, BrokerTypeOK
    <3>2. q \in RequestState
      BY <3>1, IdleType DEF Idle, RequestState, Pc, Kind
    <3>3. ThreadOK(q)
      BY <3>1, EntryAssumption DEF ThreadOK, Idle, BeforeRedeem, Ordering, PastRedeem
    <3>4. q.held = None /\ q.unit = None
      BY DEF Idle
    <3>5. Quiet(r, q)
      <4>. HIDE DEF q
      <4>1. Becomes(r, q)
        BY <2>2 DEF q
      <4>. QED
        BY <1>3, <4>1, <3>2, <3>3, <3>4
        DEF PreviewClose, Quiet, Holds, HasUnit, TypeOK
    <3>. QED
      BY <3>5
  <2>. QED
    BY <1>3, <2>1, <2>2 DEF PreviewClose
<1>4. ASSUME NEW ticket \in Ticket, NEW token \in KnownToken,
             CloseOrder(r, ticket, token)
      PROVE  \E q : Quiet(r, q)
  <2>1. CASE Refuse(r, "close", "not_found")
    BY <1>0, <1>4, <2>1 DEF CloseOrder, Kind, Verdict
  <2>2. ASSUME NEW p \in positions,
               Becomes(r, [Idle EXCEPT !.pc = Authorise, !.kind = "close",
                                       !.token = token, !.want = ClosePayload(p)])
        PROVE  \E q : Quiet(r, q)
    <3>. DEFINE q == [Idle EXCEPT !.pc = Authorise, !.kind = "close",
                                  !.token = token, !.want = ClosePayload(p)]
    <3>1. ClosePayload(p) \in TokenPayload /\ ClosePayload(p).side = "close"
      BY PayloadTypes DEF TypeOK, BrokerTypeOK, ClosePayload
    <3>2. q \in RequestState
      BY <3>1, IdleType, ZenonT(30)
      DEF Idle, RequestState, Pc, Kind, KnownToken, Authorise
    <3>4. /\ q.pc = Authorise /\ q.kind = "close" /\ q.held = None
          /\ q.unit = None /\ q.order = 0 /\ q.want = ClosePayload(p)
      BY DEF Idle
    <3>3. ThreadOK(q)
      <4>. HIDE DEF q
      <4>. QED
        BY <3>1, <3>4, EntryAssumption
        DEF ThreadOK, BeforeRedeem, Ordering, PastDemoCheck, PastRedeem, Authorise
    <3>5. Quiet(r, q)
      <4>. HIDE DEF q
      <4>1. Becomes(r, q)
        BY <2>2 DEF q
      <4>. QED
        BY <1>4, <4>1, <3>2, <3>3, <3>4
        DEF CloseOrder, Quiet, Holds, HasUnit, TypeOK
    <3>. QED
      BY <3>5
  <2>. QED
    BY <1>4, <2>1, <2>2 DEF CloseOrder
<1>. QED
  BY <1>1, <1>2, <1>3, <1>4 DEF Call
\* Returning or raising is quiet: the answer keeps what was used up.
LEMMA AnswerQuiet ==
    ASSUME TypeOK, NEW r \in Request, NEW verdict \in Verdict, Answer(r, verdict),
           rows' \in Seq(Row),
           UNCHANGED <<clockVars, store, limiterVars, brokerVars, boot, minted, sent>>
    PROVE  \E q : Quiet(r, q)
<1>. DEFINE q == [Idle EXCEPT !.pc = "answered", !.kind = req[r].kind,
                              !.held = req[r].held, !.unit = req[r].unit,
                              !.order = req[r].order, !.verdict = verdict]
<1>1. q \in RequestState
  BY DEF TypeOK, Idle, RequestState, Pc
<1>2. /\ q.pc = "answered" /\ q.unit = req[r].unit /\ q.order = req[r].order
  BY DEF Idle
<1>3. ThreadOK(q)
  <2>. HIDE DEF q
  <2>. QED
    BY <1>2 DEF ThreadOK, BeforeRedeem, Ordering, PastRedeem
<1>4. Becomes(r, q)
  BY DEF Answer
<1>5. Quiet(r, q)
  <2>. HIDE DEF q
  <2>. QED
    BY <1>1, <1>2, <1>3, <1>4 DEF Quiet, Holds, HasUnit
<1>. QED
  BY <1>5

\* Moving on to the next step of a method is quiet if the path allows it.
LEMMA GotoQuiet ==
    ASSUME TypeOK, NEW r \in Request, NEW pc \in Pc, Goto(r, pc),
           req[r].pc # "answered",
           ThreadOK([req[r] EXCEPT !.pc = pc]),
           UNCHANGED <<clockVars, store, limiterVars, brokerVars, rows, boot, minted, sent>>
    PROVE  \E q : Quiet(r, q)
<1>. DEFINE q == [req[r] EXCEPT !.pc = pc]
<1>1. q \in RequestState
  BY DEF TypeOK, RequestState
<1>2. /\ q.unit = req[r].unit /\ q.order = req[r].order
      /\ q.held = req[r].held /\ q.token = req[r].token
  BY DEF TypeOK, RequestState
<1>3. ThreadOK(q) /\ Becomes(r, q)
  BY DEF Goto
<1>4. Quiet(r, q)
  <2>. HIDE DEF q
  <2>. QED
    BY <1>1, <1>2, <1>3 DEF Quiet, Holds, Holding, HasUnit, TypeOK
<1>. QED
  BY <1>4

\* The local state after a Goto: pc is new, the rest is not.
LEMMA GotoFields ==
    ASSUME TypeOK, NEW r \in Request, NEW pc
    PROVE  LET q == [req[r] EXCEPT !.pc = pc]
           IN  /\ q.pc = pc /\ q.kind = req[r].kind /\ q.want = req[r].want
               /\ q.held = req[r].held /\ q.unit = req[r].unit
               /\ q.order = req[r].order /\ q.token = req[r].token
               /\ q.stops = req[r].stops
BY DEF TypeOK, RequestState

LEMMA ReadAccountQuiet ==
    ASSUME TypeOK, ThreadInv, NEW r \in Request, ReadAccount(r)
    PROVE  \E q : Quiet(r, q)
<1>. rows' \in Seq(Row)
  BY DEF ReadAccount, TypeOK
<1>1. CASE \E verdict \in Verdict : Answer(r, verdict)
  BY <1>1, AnswerQuiet DEF ReadAccount
<1>2. ASSUME NEW pc \in {"cooldown", "redeem", "quote"}, Goto(r, pc),
             RequireDemo => tradeMode = "demo",
             pc = "quote" => ~RequireToken
      PROVE  \E q : Quiet(r, q)
  <2>1. ThreadOK(req[r]) /\ req[r].pc = "account"
    BY DEF ThreadInv, ReadAccount
  <2>. DEFINE q == [req[r] EXCEPT !.pc = pc]
  <2>2. ThreadOK(q)
    <3>1. /\ q.pc = pc /\ q.kind = req[r].kind /\ q.want = req[r].want
          /\ q.held = req[r].held /\ q.unit = req[r].unit
          /\ q.order = req[r].order /\ q.token = req[r].token /\ q.stops = req[r].stops
      BY GotoFields
    <3>. HIDE DEF q
    <3>. QED
      BY <1>2, <2>1, <3>1
      DEF ThreadOK, BeforeRedeem, Ordering, PastDemoCheck, PastRedeem
  <2>. QED
    BY <1>2, <2>1, <2>2, GotoQuiet DEF ReadAccount, Pc
<1>3. CASE tradeMode = "demo" /\ Goto(r, Authorise)
  BY <1>2, <1>3, ServiceAssumption DEF Authorise
<1>4. CASE tradeMode # "demo" /\ ~RequireDemo /\ Goto(r, "cooldown")
  BY <1>2, <1>4
<1>. QED
  BY <1>1, <1>3, <1>4 DEF ReadAccount, Unavailable, Verdict

LEMMA CheckCooldownQuiet ==
    ASSUME TypeOK, ThreadInv, NEW r \in Request, CheckCooldown(r)
    PROVE  \E q : Quiet(r, q)
<1>. rows' \in Seq(Row)
  BY DEF CheckCooldown, TypeOK
<1>1. CASE \E verdict \in Verdict : Answer(r, verdict)
  BY <1>1, AnswerQuiet DEF CheckCooldown
<1>2. CASE Goto(r, Authorise)
  <2>1. ThreadOK(req[r]) /\ req[r].pc = "cooldown"
    BY DEF ThreadInv, CheckCooldown
  <2>. DEFINE q == [req[r] EXCEPT !.pc = Authorise]
  <2>2. ThreadOK(q)
    <3>1. /\ q.pc = Authorise /\ q.kind = req[r].kind /\ q.want = req[r].want
          /\ q.held = req[r].held /\ q.unit = req[r].unit
          /\ q.order = req[r].order /\ q.token = req[r].token /\ q.stops = req[r].stops
      BY GotoFields
    <3>. HIDE DEF q
    <3>. QED
      BY <2>1, <3>1
      DEF ThreadOK, BeforeRedeem, Ordering, PastDemoCheck, PastRedeem, Authorise
  <2>. QED
    BY <1>2, <2>1, <2>2, GotoQuiet DEF CheckCooldown, Pc, Authorise
<1>. QED
  BY <1>1, <1>2 DEF CheckCooldown, Unavailable, Verdict
LEMMA CheckTokenQuiet ==
    ASSUME TypeOK, ThreadInv, NEW r \in Request, CheckToken(r)
    PROVE  \E q : Quiet(r, q)
<1>. rows' \in Seq(Row)
  BY DEF CheckToken, TypeOK
<1>1. CASE Answer(r, "token")
  BY <1>1, AnswerQuiet DEF CheckToken, Verdict
<1>2. CASE Admits(req[r].held, req[r].want) /\ Goto(r, "quote")
  <2>1. ThreadOK(req[r]) /\ req[r].pc = "check"
    BY DEF ThreadInv, CheckToken
  <2>. DEFINE q == [req[r] EXCEPT !.pc = "quote"]
  <2>2. ThreadOK(q)
    <3>1. /\ q.pc = "quote" /\ q.kind = req[r].kind /\ q.want = req[r].want
          /\ q.held = req[r].held /\ q.unit = req[r].unit
          /\ q.order = req[r].order /\ q.token = req[r].token /\ q.stops = req[r].stops
      BY GotoFields
    <3>. HIDE DEF q
    <3>. QED
      BY <1>2, <2>1, <3>1
      DEF ThreadOK, BeforeRedeem, Ordering, PastDemoCheck, PastRedeem, Admits
  <2>. QED
    BY <1>2, <2>1, <2>2, GotoQuiet DEF CheckToken, Pc
<1>. QED
  BY <1>1, <1>2 DEF CheckToken

(* Rounded levels are levels.                                                *)
LEMMA RoundedTypes ==
    ASSUME NEW symbol \in Symbol, NEW stops \in Levels,
           NEW rounded \in RoundedStops(symbol, stops)
    PROVE  rounded \in Levels
<1>1. ASSUME NEW level \in Int \cup {None}
      PROVE  Rounded(symbol, level) \subseteq Int \cup {None}
  <2>1. CASE level = None
    BY <2>1 DEF Rounded
  <2>2. CASE level # None
    <3>1. level \in Int /\ SymbolSpec[symbol].grain \in Nat \ {0}
      BY <1>1, <2>2, ValidationAssumption
    <3>2. level % SymbolSpec[symbol].grain \in Int
      BY <3>1
    <3>. QED
      BY <2>2, <3>1, <3>2 DEF Rounded
  <2>. QED
    BY <2>1, <2>2
<1>. QED
  BY <1>1 DEF RoundedStops, Levels

LEMMA QuoteEntryQuiet ==
    ASSUME TypeOK, ThreadInv, NEW r \in Request, QuoteEntry(r)
    PROVE  \E q : Quiet(r, q)
<1>. rows' \in Seq(Row)
  BY DEF QuoteEntry, TypeOK
<1>1. CASE \E verdict \in Verdict : Answer(r, verdict)
  BY <1>1, AnswerQuiet DEF QuoteEntry
<1>2. ASSUME NEW pc \in {"limit", "send"}, Goto(r, pc),
             req[r].kind = (IF pc = "limit" THEN "execute" ELSE "close")
      PROVE  \E q : Quiet(r, q)
  <2>1. ThreadOK(req[r]) /\ req[r].pc = "quote"
    BY DEF ThreadInv, QuoteEntry
  <2>. DEFINE q == [req[r] EXCEPT !.pc = pc]
  <2>2. ThreadOK(q)
    <3>1. /\ q.pc = pc /\ q.kind = req[r].kind /\ q.want = req[r].want
          /\ q.held = req[r].held /\ q.unit = req[r].unit
          /\ q.order = req[r].order /\ q.token = req[r].token /\ q.stops = req[r].stops
      BY GotoFields
    <3>. HIDE DEF q
    <3>. QED
      BY <1>2, <2>1, <3>1
      DEF ThreadOK, BeforeRedeem, Ordering, PastDemoCheck, PastRedeem
  <2>. QED
    BY <1>2, <2>1, <2>2, GotoQuiet DEF QuoteEntry, Pc
<1>3. CASE req[r].kind = "close" /\ Goto(r, "send")
  BY <1>2, <1>3
<1>4. ASSUME NEW quote \in Quotes, NEW side,
             NEW stops \in RoundedStops(req[r].want.symbol, req[r].stops),
             req[r].kind = "execute",
             Becomes(r, [req[r] EXCEPT !.pc = "limit", !.stops = stops,
                                       !.price = EntryPrice(quote, side)])
      PROVE  \E q : Quiet(r, q)
  <2>1. ThreadOK(req[r]) /\ req[r].pc = "quote" /\ req[r] \in RequestState
    BY DEF ThreadInv, QuoteEntry, TypeOK
  <2>2. req[r].stops \in Levels /\ req[r].want.symbol \in Symbol
    BY <1>4, <2>1 DEF ThreadOK, Ordering, RequestState, TokenPayload
  <2>3. stops \in Levels /\ EntryPrice(quote, side) \in Int
    BY <1>4, <2>2, RoundedTypes, ValidationAssumption DEF EntryPrice
  <2>. DEFINE q == [req[r] EXCEPT !.pc = "limit", !.stops = stops,
                                  !.price = EntryPrice(quote, side)]
  <2>4. /\ q \in RequestState
        /\ q.pc = "limit" /\ q.kind = "execute" /\ q.want = req[r].want
        /\ q.held = req[r].held /\ q.unit = req[r].unit
        /\ q.order = req[r].order /\ q.token = req[r].token /\ q.stops = stops
    BY <1>4, <2>1, <2>3 DEF RequestState, Pc
  <2>5. Becomes(r, q)
    BY <1>4
  <2>. HIDE DEF q
  <2>6. ThreadOK(q)
    BY <1>4, <2>1, <2>3, <2>4, ModelsAssumption
    DEF ThreadOK, BeforeRedeem, Ordering, PastDemoCheck, PastRedeem
  <2>7. Quiet(r, q)
    BY <2>1, <2>4, <2>5, <2>6 DEF Quiet, Holds, Holding, HasUnit, QuoteEntry
  <2>. QED
    BY <2>7
<1>. QED
  BY <1>1, <1>3, <1>4 DEF QuoteEntry, Unavailable, Verdict

LEMMA RespondQuiet ==
    ASSUME TypeOK, NEW r \in Request, Respond(r)
    PROVE  \E q : Quiet(r, q)
<1>1. ThreadOK(Idle) /\ Idle.held = None /\ Idle.unit = None
  BY DEF ThreadOK, Idle, Ordering, PastRedeem
<1>2. Quiet(r, Idle)
  BY <1>1, IdleType DEF Respond, Quiet, Holds, HasUnit, TypeOK
<1>. QED
  BY <1>2

LEMMA RecordQuiet ==
    ASSUME TypeOK, NEW r \in Request, RecordPreview(r) \/ RecordOrder(r)
    PROVE  \E q : Quiet(r, q)
<1>1. CASE RecordPreview(r)
  <2>1. [event |-> "preview", token |-> req[r].token, order |-> 0] \in Row
    BY DEF TypeOK, Row, Event, RequestState
  <2>2. rows' \in Seq(Row)
    BY <1>1, <2>1, WriteType DEF RecordPreview, TypeOK
  <2>. QED
    BY <1>1, <2>2, AnswerQuiet DEF RecordPreview, Verdict
<1>2. CASE RecordOrder(r)
  <2>1. RowFor(r) \in Row
    BY DEF TypeOK, RowFor, Row, Event, RequestState
  <2>2. rows' \in Seq(Row)
    BY <1>2, <2>1, WriteType DEF RecordOrder, TypeOK
  <2>. QED
    BY <1>2, <2>2, AnswerQuiet DEF RecordOrder, Verdict
<1>. QED
  BY <1>1, <1>2

(* Every step of Next is quiet or one of the seven that touch shared state.  *)
LEMMA StepCases ==
    ASSUME TypeOK, ThreadInv, Next
    PROVE  \/ \E r \in Request : \E q : Quiet(r, q)
           \/ \E r \in Request, token \in Token : IssueToken(r, token)
           \/ \E r \in Request : RedeemPop(r) \/ TakeQuota(r) \/ SendOrder(r)
           \/ Restart
           \/ TimePasses
           \/ PositionCloses
BY CallQuiet, ReadAccountQuiet, CheckCooldownQuiet, CheckTokenQuiet,
   QuoteEntryQuiet, RespondQuiet, RecordQuiet DEF Next, Serve
-----------------------------------------------------------------------------
(* Type correctness and the local state of threads                           *)

LEMMA InitInv == Init => TypeOK /\ ThreadInv
<1>. SUFFICES ASSUME Init PROVE TypeOK /\ ThreadInv
  OBVIOUS
<1>1. ClocksTypeOK
  BY ClocksAssumption DEF Init, ClocksInit, ClocksTypeOK
<1>2. StoreTypeOK
  BY DEF Init, StoreInit, EmptyStore, StoreTypeOK
<1>3. LimiterTypeOK
  BY ClocksAssumption, LimiterAssumption DEF Init, LimiterInit, LimiterTypeOK
<1>4. BrokerTypeOK
  BY BrokerAssumption, FS_CardinalityType DEF Init, BrokerInit, BrokerTypeOK
<1>5. req \in [Request -> RequestState]
  BY IdleType DEF Init
<1>6. boot \in 0..MaxRestarts
  BY ServiceAssumption DEF Init
<1>7. TypeOK
  BY <1>1, <1>2, <1>3, <1>4, <1>5, <1>6 DEF Init, JournalInit, TypeOK
<1>8. ThreadInv
  BY DEF Init, ThreadInv, ThreadOK, Idle, Ordering, PastRedeem
<1>. QED
  BY <1>7, <1>8

LEMMA ThreadFrame ==
    ASSUME req \in [Request -> RequestState], ThreadInv, UNCHANGED tradeMode,
           NEW r \in Request, NEW q \in RequestState, Becomes(r, q), ThreadOK(q)
    PROVE  ThreadInv'
BY DEF Becomes, ThreadInv, ThreadOK

LEMMA QuietInv ==
    ASSUME TypeOK, ThreadInv, NEW r \in Request, NEW q, Quiet(r, q)
    PROVE  TypeOK' /\ ThreadInv'
<1>1. TypeOK'
  BY FrameTypes, BecomesType DEF Quiet, TypeOK
<1>2. ThreadInv'
  BY ThreadFrame DEF Quiet, TypeOK, brokerVars
<1>. QED
  BY <1>1, <1>2
LEMMA IssueInv ==
    ASSUME TypeOK, ThreadInv, NEW r \in Request, NEW token \in Token,
           IssueToken(r, token)
    PROVE  TypeOK' /\ ThreadInv'
<1>1. /\ req \in [Request -> RequestState] /\ StoreTypeOK /\ ClocksTypeOK
      /\ ThreadOK(req[r]) /\ req[r].pc = "issue"
  BY DEF TypeOK, ThreadInv, IssueToken
<1>2. req[r].want \in TokenPayload
  BY <1>1 DEF ThreadOK, RequestState
<1>3. StoreTypeOK'
  <2>1. Swept \in [Token -> Entry \cup {None}]
    BY <1>1 DEF Swept, StoreTypeOK
  <2>2. [payload |-> req[r].want, issued |-> now] \in Entry
    BY <1>1, <1>2 DEF Entry, ClocksTypeOK
  <2>. QED
    BY <2>1, <2>2 DEF IssueToken, Issue, StoreTypeOK
<1>4. minted' \in [Token -> Minted \cup {None}]
  <2>1. [payload |-> req[r].want, boot |-> boot] \in Minted
    BY <1>1, <1>2, ServiceAssumption DEF Minted, RequestState, TypeOK
  <2>. QED
    BY <2>1 DEF IssueToken, TypeOK
<1>5. \E q \in RequestState : Becomes(r, q) /\ ThreadOK(q)
  <2>1. CASE req[r].kind = "preview"
    <3>. DEFINE q == [req[r] EXCEPT !.token = token, !.pc = "preview_row"]
    <3>1. q \in RequestState
      BY <1>1, ZenonT(30) DEF RequestState, Pc
    <3>2. /\ q.pc = "preview_row" /\ q.held = req[r].held /\ q.unit = req[r].unit
          /\ q.order = req[r].order
      BY <1>1 DEF RequestState
    <3>3. ThreadOK(q)
      <4>. HIDE DEF q
      <4>. QED
        BY <1>1, <3>2 DEF ThreadOK, BeforeRedeem, Ordering, PastRedeem
    <3>. QED
      BY <2>1, <3>1, <3>3 DEF IssueToken
  <2>2. CASE req[r].kind # "preview"
    <3>. DEFINE q == [Idle EXCEPT !.pc = "answered", !.kind = req[r].kind,
                                  !.held = req[r].held, !.unit = req[r].unit,
                                  !.order = req[r].order, !.verdict = "ok"]
    <3>1. q \in RequestState
      BY <1>1 DEF Idle, RequestState, Pc, Verdict
    <3>2. q.pc = "answered"
      BY DEF Idle
    <3>3. ThreadOK(q)
      <4>. HIDE DEF q
      <4>. QED
        BY <3>2 DEF ThreadOK, BeforeRedeem, Ordering, PastRedeem
    <3>. QED
      BY <2>2, <3>1, <3>3 DEF IssueToken, Answer
  <2>. QED
    BY <2>1, <2>2
<1>6. TypeOK'
  BY <1>3, <1>4, <1>5, BecomesType, FrameTypes DEF IssueToken, TypeOK
<1>7. ThreadInv'
  BY <1>1, <1>5, ThreadFrame DEF IssueToken, brokerVars
<1>. QED
  BY <1>6, <1>7

LEMMA RedeemInv ==
    ASSUME TypeOK, ThreadInv, NEW r \in Request, RedeemPop(r)
    PROVE  TypeOK' /\ ThreadInv'
<1>1. /\ req \in [Request -> RequestState] /\ StoreTypeOK
      /\ ThreadOK(req[r]) /\ req[r].pc = "redeem"
  BY DEF TypeOK, ThreadInv, RedeemPop
<1>. DEFINE q == [req[r] EXCEPT !.held = Popped(req[r].token), !.pc = "check"]
<1>2. Popped(req[r].token) \in Entry \cup {None}
  BY <1>1 DEF Popped, StoreTypeOK
<1>3. q \in RequestState
  BY <1>1, <1>2, ZenonT(30) DEF RequestState, Pc
<1>4. /\ q.pc = "check" /\ q.kind = req[r].kind /\ q.want = req[r].want
      /\ q.unit = req[r].unit /\ q.order = req[r].order
      /\ q.held = Popped(req[r].token) /\ q.token = req[r].token /\ q.stops = req[r].stops
  BY <1>1 DEF RequestState
<1>5. ThreadOK(q)
  <2>. HIDE DEF q
  <2>. QED
    BY <1>1, <1>4 DEF Popped, ThreadOK, BeforeRedeem, Ordering, PastDemoCheck, PastRedeem
<1>6. StoreTypeOK'
  BY <1>1 DEF RedeemPop, Pop, StoreTypeOK
<1>7. TypeOK'
  BY <1>3, <1>6, BecomesType, FrameTypes DEF RedeemPop, TypeOK
<1>8. ThreadInv'
  BY <1>1, <1>3, <1>5, ThreadFrame DEF RedeemPop, brokerVars
<1>. QED
  BY <1>7, <1>8

LEMMA QuotaTypes ==
    ASSUME TypeOK
    PROVE  RolledCount \in 0..MaxPerDay /\ today \in 1..MaxDay /\ NextUnit \in Unit
<1>1. RolledCount \in 0..MaxPerDay /\ today \in 1..MaxDay
  BY LimiterAssumption DEF TypeOK, LimiterTypeOK, ClocksTypeOK, RolledCount
<1>2. NextUnit \in Unit
  BY <1>1, LimiterAssumption, ClocksAssumption, ServiceAssumption
  DEF NextUnit, Unit, TypeOK
<1>. QED
  BY <1>1, <1>2

LEMMA TakeQuotaInv ==
    ASSUME TypeOK, ThreadInv, NEW r \in Request, TakeQuota(r)
    PROVE  TypeOK' /\ ThreadInv'
<1>1. /\ req \in [Request -> RequestState]
      /\ ThreadOK(req[r]) /\ req[r].pc = "limit"
  BY DEF TypeOK, ThreadInv, TakeQuota
<1>2. LimiterTypeOK'
  BY QuotaTypes, LimiterAssumption, ClocksAssumption
  DEF TakeQuota, CheckAndIncrement, RefuseQuota, HasQuota, LimiterTypeOK
<1>3. \E q \in RequestState : Becomes(r, q) /\ ThreadOK(q)
  <2>1. CASE CheckAndIncrement
    <3>. DEFINE q == [req[r] EXCEPT !.pc = "send", !.unit = NextUnit]
    <3>1. q \in RequestState
      BY <1>1, QuotaTypes, ZenonT(30) DEF RequestState, Pc
    <3>2. /\ q.pc = "send" /\ q.kind = req[r].kind /\ q.want = req[r].want
          /\ q.held = req[r].held /\ q.unit = NextUnit /\ q.order = req[r].order
          /\ q.token = req[r].token /\ q.stops = req[r].stops
      BY <1>1 DEF RequestState
    <3>3. NextUnit # None
      BY QuotaTypes, ServiceAssumption
    <3>4. ThreadOK(q)
      <4>. HIDE DEF q
      <4>. QED
        BY <1>1, <3>2, <3>3
        DEF ThreadOK, BeforeRedeem, Ordering, PastDemoCheck, PastRedeem
    <3>5. Becomes(r, q)
      BY <2>1 DEF TakeQuota, CheckAndIncrement, RefuseQuota
    <3>. QED
      BY <3>1, <3>4, <3>5
  <2>2. CASE RefuseQuota /\ Answer(r, "limit")
    <3>. DEFINE q == [Idle EXCEPT !.pc = "answered", !.kind = req[r].kind,
                                  !.held = req[r].held, !.unit = req[r].unit,
                                  !.order = req[r].order, !.verdict = "limit"]
    <3>1. q \in RequestState
      BY <1>1 DEF Idle, RequestState, Pc, Verdict
    <3>2. q.pc = "answered"
      BY DEF Idle
    <3>3. ThreadOK(q)
      <4>. HIDE DEF q
      <4>. QED
        BY <3>2 DEF ThreadOK, BeforeRedeem, Ordering, PastRedeem
    <3>. QED
      BY <2>2, <3>1, <3>3 DEF Answer
  <2>. QED
    BY <2>1, <2>2 DEF TakeQuota
<1>4. TypeOK'
  BY <1>2, <1>3, BecomesType, FrameTypes DEF TakeQuota, TypeOK
<1>5. ThreadInv'
  BY <1>1, <1>3, ThreadFrame DEF TakeQuota, brokerVars
<1>. QED
  BY <1>4, <1>5

(* What send_order does: one order joins `sent', and its thread moves on.    *)
LEMMA SendShape ==
    ASSUME TypeOK, ThreadInv, NEW r \in Request, SendOrder(r)
    PROVE  \E outcome \in Outcome, q \in RequestState :
             /\ sent' = Append(sent, SentBy(r, outcome))
             /\ SentBy(r, outcome) \in Sent
             /\ Becomes(r, q) /\ ThreadOK(q)
             /\ q.order # 0
             /\ BrokerTypeOK' /\ UNCHANGED tradeMode
<1>1. /\ req \in [Request -> RequestState] /\ ThreadOK(req[r])
      /\ req[r].pc = "send" /\ sent \in Seq(Sent)
  BY DEF TypeOK, ThreadInv, SendOrder
<1>2. req[r].want \in TokenPayload
  BY <1>1 DEF ThreadOK, Ordering, RequestState
<1>3. PICK outcome \in OutcomesFor(req[r].want) :
        /\ sent' = Append(sent, SentBy(r, outcome))
        /\ IF outcome.filled THEN Fill(req[r].want) ELSE UNCHANGED brokerVars
  BY DEF SendOrder
<1>4. outcome \in Outcome
  BY BrokerAssumption DEF OutcomesFor
<1>5. SentBy(r, outcome) \in Sent
  BY <1>1, <1>2, <1>4, ServiceAssumption, BrokerAssumption, ClocksAssumption
  DEF SentBy, Sent, RequestState, Outcome, TypeOK, ClocksTypeOK, BrokerTypeOK
<1>6. BrokerTypeOK' /\ UNCHANGED tradeMode
  <2>1. CASE ~outcome.filled
    BY <1>3, <2>1, FrameTypes DEF TypeOK, brokerVars
  <2>2. CASE outcome.filled /\ req[r].want.side = "close"
    BY <1>3, <2>2 DEF Fill, TypeOK, BrokerTypeOK
  <2>3. CASE outcome.filled /\ req[r].want.side # "close"
    <3>1. NewPosition(req[r].want) \in Position
      BY <1>2, <2>3, BrokerAssumption
      DEF NewPosition, Position, TokenPayload, OrderSide, TypeOK, BrokerTypeOK,
          ClocksTypeOK
    <3>. QED
      BY <1>3, <2>3, <3>1 DEF Fill, TypeOK, BrokerTypeOK
  <2>. QED
    BY <2>1, <2>2, <2>3
<1>. DEFINE n == Len(sent) + 1
            q == [req[r] EXCEPT !.order = n, !.pc = "row"]
<1>7. n \in Nat /\ n # 0
  BY <1>1
<1>8. Becomes(r, q)
  BY DEF SendOrder
<1>9. q \in RequestState /\ q.pc = "row" /\ q.order = n
  <2>. HIDE DEF n
  <2>. QED
    BY <1>1, <1>7, ZenonT(30) DEF RequestState, Pc
<1>10. ThreadOK(q)
  <2>. HIDE DEF q
  <2>. QED
    BY <1>9 DEF ThreadOK, BeforeRedeem, Ordering, PastRedeem
<1>. HIDE DEF q, n
<1>. QED
  BY <1>3, <1>4, <1>5, <1>6, <1>7, <1>8, <1>9, <1>10

LEMMA SendInv ==
    ASSUME TypeOK, ThreadInv, NEW r \in Request, SendOrder(r)
    PROVE  TypeOK' /\ ThreadInv'
<1>1. PICK outcome \in Outcome, q \in RequestState :
        /\ sent' = Append(sent, SentBy(r, outcome))
        /\ SentBy(r, outcome) \in Sent
        /\ Becomes(r, q) /\ ThreadOK(q)
        /\ q.order # 0
        /\ BrokerTypeOK' /\ UNCHANGED tradeMode
  BY SendShape
<1>2. sent' \in Seq(Sent)
  BY <1>1 DEF TypeOK
<1>3. TypeOK'
  BY <1>1, <1>2, BecomesType, FrameTypes DEF SendOrder, TypeOK
<1>4. ThreadInv'
  BY <1>1, ThreadFrame DEF TypeOK
<1>. QED
  BY <1>3, <1>4

LEMMA EnvironmentInv ==
    ASSUME TypeOK, ThreadInv, Restart \/ TimePasses \/ PositionCloses
    PROVE  TypeOK' /\ ThreadInv'
<1>1. CASE Restart
  <2>1. StoreTypeOK'
    BY <1>1 DEF Restart, EmptyStore, StoreTypeOK
  <2>2. LimiterTypeOK'
    BY <1>1, LimiterAssumption, ClocksAssumption DEF Restart, LimiterTypeOK
  <2>3. boot' \in 0..MaxRestarts
    BY <1>1, ServiceAssumption DEF Restart, TypeOK
  <2>4. req' \in [Request -> RequestState]
    BY <1>1, IdleType DEF Restart
  <2>5. TypeOK'
    BY <1>1, <2>1, <2>2, <2>3, <2>4, FrameTypes DEF Restart, TypeOK
  <2>6. ThreadInv'
    BY <1>1 DEF Restart, ThreadInv, ThreadOK, Idle, Ordering, PastRedeem
  <2>. QED
    BY <2>5, <2>6
<1>2. CASE TimePasses
  <2>1. ClocksTypeOK'
    BY <1>2, ClocksAssumption DEF TimePasses, Tick, TypeOK, ClocksTypeOK
  <2>. QED
    BY <1>2, <2>1, FrameTypes
    DEF TimePasses, serviceVars, brokerVars, TypeOK, ThreadInv, ThreadOK
<1>3. CASE PositionCloses
  <2>1. BrokerTypeOK' /\ UNCHANGED tradeMode
    BY <1>3 DEF PositionCloses, BrokerCloses, TypeOK, BrokerTypeOK
  <2>. QED
    BY <1>3, <2>1, FrameTypes
    DEF PositionCloses, serviceVars, TypeOK, ThreadInv, ThreadOK
<1>. QED
  BY <1>1, <1>2, <1>3

LEMMA StutterInv ==
    ASSUME TypeOK, ThreadInv, UNCHANGED vars
    PROVE  TypeOK' /\ ThreadInv'
BY FrameTypes DEF vars, serviceVars, brokerVars, TypeOK, ThreadInv, ThreadOK

LEMMA StepInv ==
    ASSUME TypeOK, ThreadInv, [Next]_vars
    PROVE  TypeOK' /\ ThreadInv'
<1>1. CASE UNCHANGED vars
  BY <1>1, StutterInv
<1>2. CASE Next
  BY <1>2, StepCases, QuietInv, IssueInv, RedeemInv, TakeQuotaInv, SendInv,
     EnvironmentInv
<1>. QED
  BY <1>1, <1>2

(* Every variable keeps its type, and every thread the shape of its path.    *)
THEOREM TypeCorrect == Spec => [](TypeOK /\ ThreadInv)
<1>1. TypeOK /\ ThreadInv /\ [Next]_vars => (TypeOK /\ ThreadInv)'
  BY StepInv
<1>. QED
  BY InitInv, <1>1, PTL DEF Spec-----------------------------------------------------------------------------
(* Tokens                                                                    *)

LEMMA InitToken == Init => TokenInv
BY DEF Init, StoreInit, EmptyStore, Idle, TokenInv, LiveMinted, HeldMinted,
       OneHolder, Holding, Holds, SentSpent, OrderMatchesToken, OneOrderPerToken

\* A step that leaves the store, the orders and the ghost of minting alone
\* and gives no thread a token it did not hold.
LEMMA TokenFrame ==
    ASSUME TokenInv, UNCHANGED <<store, boot, minted, sent>>,
           \A s \in Request, t \in Token :
             Holding(s, t)' => Holding(s, t) /\ req'[s].held = req[s].held
    PROVE  TokenInv'
<1>1. LiveMinted' /\ HeldMinted' /\ OneHolder'
  BY DEF TokenInv, LiveMinted, HeldMinted, OneHolder
<1>2. SentSpent'
  BY DEF TokenInv, SentSpent
<1>3. OrderMatchesToken' /\ OneOrderPerToken'
  BY DEF TokenInv, OrderMatchesToken, OneOrderPerToken
<1>. QED
  BY <1>1, <1>2, <1>3 DEF TokenInv

LEMMA QuietToken ==
    ASSUME TypeOK, TokenInv, NEW r \in Request, NEW q, Quiet(r, q)
    PROVE  TokenInv'
<1>1. ASSUME NEW s \in Request, NEW t \in Token, Holding(s, t)'
      PROVE  Holding(s, t) /\ req'[s].held = req[s].held
  BY <1>1 DEF Quiet, Becomes, Holding, TypeOK
<1>. QED
  BY <1>1, TokenFrame DEF Quiet

LEMMA LimiterToken ==
    ASSUME TypeOK, ThreadInv, TokenInv, NEW r \in Request, TakeQuota(r)
    PROVE  TokenInv'
<1>1. req[r].pc = "limit" /\ req \in [Request -> RequestState]
  BY DEF TakeQuota, TypeOK
<1>2. \A t \in Token : Holding(r, t)' => Holding(r, t) /\ req'[r].held = req[r].held
  <2>1. CASE Becomes(r, [req[r] EXCEPT !.pc = "send", !.unit = NextUnit])
    BY <1>1, <2>1 DEF Becomes, Holding, Holds, RequestState
  <2>2. CASE Answer(r, "limit")
    <3>1. req'[r].pc = "answered"
      BY <1>1, <2>2 DEF Answer, Becomes, Idle
    <3>. QED
      BY <3>1 DEF Holding, Holds
  <2>. QED
    BY <2>1, <2>2 DEF TakeQuota
<1>3. \A s \in Request : s # r => req'[s] = req[s]
  BY <1>1 DEF TakeQuota, Answer, Becomes
<1>. QED
  BY <1>2, <1>3, TokenFrame DEF TakeQuota, Holding

(* Issuing a fresh token: nobody holds it, no order has used it.             *)
LEMMA IssueTokenInv ==
    ASSUME TypeOK, ThreadInv, TokenInv, NEW r \in Request, NEW token \in Token,
           IssueToken(r, token)
    PROVE  TokenInv'
<1>1. /\ req \in [Request -> RequestState] /\ StoreTypeOK /\ ClocksTypeOK
      /\ minted \in [Token -> Minted \cup {None}]
      /\ req[r].pc = "issue" /\ minted[token] = None /\ req[r].held = None
      /\ UNCHANGED <<boot, sent>>
  BY DEF TypeOK, IssueToken, ThreadInv, ThreadOK, BeforeRedeem
<1>2. req[r].want \in TokenPayload /\ req[r].want # None
  BY <1>1 DEF ThreadInv, ThreadOK, RequestState
<1>3. \A t \in Token : ~Holding(r, t)'
  <2>1. CASE Becomes(r, [req[r] EXCEPT !.token = token, !.pc = "preview_row"])
    BY <1>1, <2>1 DEF Becomes, Holding, Holds, RequestState
  <2>2. CASE Answer(r, "ok")
    <3>1. req'[r].pc = "answered"
      BY <1>1, <2>2 DEF Answer, Becomes, Idle
    <3>. QED
      BY <3>1 DEF Holding, Holds
  <2>. QED
    BY <2>1, <2>2 DEF IssueToken
<1>4. \A s \in Request : s # r => req'[s] = req[s]
  BY <1>1 DEF IssueToken, Answer, Becomes
<1>5. \A s \in Request, t \in Token :
        Holding(s, t)' => s # r /\ Holding(s, t) /\ req'[s].held = req[s].held
  BY <1>3, <1>4 DEF Holding
<1>6. /\ \A t \in Token : t # token => store'[t] \in {store[t], None}
      /\ store'[token] = [payload |-> req[r].want, issued |-> now]
  BY <1>1 DEF IssueToken, Issue, Swept, StoreTypeOK
<1>7. /\ \A t \in Token : t # token => minted'[t] = minted[t]
      /\ minted'[token] = [payload |-> req[r].want,
                           boot |-> boot]
      /\ minted'[token] # None
  <2>1. [payload |-> req[r].want, boot |-> boot] \in Minted
    BY <1>1, <1>2, ServiceAssumption DEF TypeOK, Minted, RequestState
  <2>. QED
    BY <1>1, <2>1, ServiceAssumption DEF IssueToken
<1>8. LiveMinted'
  BY <1>1, <1>6, <1>7 DEF TokenInv, LiveMinted
<1>9. HeldMinted' /\ OneHolder'
  <2>1. \A s \in Request, t \in Token : Holding(s, t)' => t # token
    BY <1>1, <1>5 DEF TokenInv, HeldMinted
  <2>. QED
    BY <1>1, <1>5, <1>6, <1>7, <2>1 DEF TokenInv, HeldMinted, OneHolder
<1>10. SentSpent' /\ OrderMatchesToken' /\ OneOrderPerToken'
  <2>1. RequireToken => \A i \in DOMAIN sent : sent[i].token # token
    BY <1>1 DEF TokenInv, OrderMatchesToken
  <2>2. SentSpent'
    BY <1>1, <1>5, <1>6, <2>1 DEF TokenInv, SentSpent
  <2>3. OrderMatchesToken' /\ OneOrderPerToken'
    BY <1>1, <1>7, <2>1 DEF TokenInv, OrderMatchesToken, OneOrderPerToken
  <2>. QED
    BY <2>2, <2>3
<1>. QED
  BY <1>8, <1>9, <1>10 DEF TokenInv

(* Popping a token: from the store, where no thread held it, to one thread.  *)
LEMMA RedeemTokenInv ==
    ASSUME TypeOK, ThreadInv, TokenInv, NEW r \in Request, RedeemPop(r)
    PROVE  TokenInv'
<1>. DEFINE token == req[r].token
<1>1. /\ req \in [Request -> RequestState] /\ StoreTypeOK
      /\ req[r].pc = "redeem" /\ req[r].held = None
      /\ UNCHANGED <<boot, minted, sent>>
  BY DEF TypeOK, RedeemPop, ThreadInv, ThreadOK, BeforeRedeem
<1>2. /\ req'[r].token = token
      /\ req'[r].held = Popped(token)
      /\ \A s \in Request : s # r => req'[s] = req[s]
  BY <1>1 DEF RedeemPop, Becomes, RequestState
<1>3. \A t \in Token : store'[t] = IF t = token THEN None ELSE store[t]
  BY <1>1 DEF RedeemPop, Pop
<1>4. \A t \in Token :
        Holding(r, t)' => t = token /\ store[token] # None
                          /\ req'[r].held = store[token]
  BY <1>2 DEF Holding, Holds, Popped
<1>5. \A s \in Request, t \in Token :
        s # r => (Holding(s, t)' <=> Holding(s, t)) /\ req'[s].held = req[s].held
  BY <1>2 DEF Holding
<1>. HIDE DEF token
<1>6. LiveMinted'
  BY <1>1, <1>3 DEF TokenInv, LiveMinted
<1>7. HeldMinted'
  BY <1>1, <1>3, <1>4, <1>5 DEF TokenInv, LiveMinted, HeldMinted
<1>8. OneHolder'
  BY <1>4, <1>5 DEF TokenInv, HeldMinted, OneHolder
<1>9. SentSpent'
  BY <1>1, <1>3, <1>4, <1>5 DEF TokenInv, SentSpent
<1>10. OrderMatchesToken' /\ OneOrderPerToken'
  BY <1>1 DEF TokenInv, OrderMatchesToken, OneOrderPerToken
<1>. QED
  BY <1>6, <1>7, <1>8, <1>9, <1>10 DEF TokenInv

(* Sending: the thread holds its token alone, and lets go of it for good.    *)
LEMMA SendTokenInv ==
    ASSUME TypeOK, ThreadInv, TokenInv, NEW r \in Request, SendOrder(r)
    PROVE  TokenInv'
<1>1. PICK outcome \in Outcome, q \in RequestState :
        /\ sent' = Append(sent, SentBy(r, outcome))
        /\ SentBy(r, outcome) \in Sent
        /\ Becomes(r, q) /\ ThreadOK(q)
        /\ q.order # 0
        /\ BrokerTypeOK' /\ UNCHANGED tradeMode
  BY SendShape
<1>. DEFINE new == SentBy(r, outcome)
            n == Len(sent) + 1
<1>2. /\ req \in [Request -> RequestState] /\ sent \in Seq(Sent)
      /\ req[r].pc = "send" /\ ThreadOK(req[r])
      /\ UNCHANGED <<store, boot, minted>>
  BY DEF TypeOK, SendOrder, ThreadInv
<1>3. /\ new.token = req[r].token /\ new.payload = req[r].want /\ new.boot = boot
  BY DEF SentBy
<1>4. /\ DOMAIN sent' = DOMAIN sent \cup {n}
      /\ n \notin DOMAIN sent
      /\ \A i \in DOMAIN sent : sent'[i] = sent[i]
      /\ sent'[n] = new
  <2>. HIDE DEF new
  <2>. QED
    BY <1>1, <1>2 DEF new
<1>5. \A t \in Token : ~Holding(r, t)'
  BY <1>1, <1>2 DEF Becomes, Holding, Holds
<1>6. \A s \in Request, t \in Token :
        s # r => (Holding(s, t)' <=> Holding(s, t)) /\ req'[s].held = req[s].held
  BY <1>1, <1>2 DEF Becomes, Holding
<1>. HIDE DEF new, n
<1>7. RequireToken =>
        /\ new.token \in Token
        /\ Holding(r, new.token)
        /\ req[r].held.payload = new.payload
  <2>. SUFFICES ASSUME RequireToken
                PROVE  /\ new.token \in Token
                       /\ Holding(r, new.token)
                       /\ req[r].held.payload = new.payload
    OBVIOUS
  <2>1. req[r].held # None /\ req[r].held.payload = req[r].want /\ req[r].order = 0
    BY <1>2 DEF ThreadOK, PastRedeem
  <2>2. req[r].token \in Token
    BY <1>2, <2>1 DEF ThreadOK, PastRedeem
  <2>. QED
    BY <1>2, <1>3, <2>1, <2>2 DEF Holding, Holds
<1>8. LiveMinted' /\ HeldMinted' /\ OneHolder'
  BY <1>2, <1>5, <1>6 DEF TokenInv, LiveMinted, HeldMinted, OneHolder
<1>9. SentSpent'
  BY <1>2, <1>4, <1>5, <1>6, <1>7
  DEF TokenInv, SentSpent, HeldMinted, OneHolder
<1>10. OrderMatchesToken'
  BY <1>2, <1>3, <1>4, <1>7 DEF TokenInv, OrderMatchesToken, HeldMinted
<1>11. OneOrderPerToken'
  BY <1>2, <1>4, <1>7 DEF TokenInv, OneOrderPerToken, SentSpent
<1>. QED
  BY <1>8, <1>9, <1>10, <1>11 DEF TokenInv

LEMMA EnvironmentToken ==
    ASSUME TypeOK, TokenInv, Restart \/ TimePasses \/ PositionCloses
    PROVE  TokenInv'
<1>1. CASE Restart
  <2>1. /\ \A t \in Token : store'[t] = None
        /\ \A s \in Request, t \in Token : ~Holding(s, t)'
        /\ UNCHANGED <<minted, sent>>
    BY <1>1 DEF Restart, EmptyStore, Holding, Holds, Idle
  <2>2. LiveMinted' /\ HeldMinted' /\ OneHolder' /\ SentSpent'
    BY <2>1 DEF TokenInv, LiveMinted, HeldMinted, OneHolder, SentSpent
  <2>3. OrderMatchesToken' /\ OneOrderPerToken'
    BY <2>1 DEF TokenInv, OrderMatchesToken, OneOrderPerToken
  <2>. QED
    BY <2>2, <2>3 DEF TokenInv
<1>2. CASE TimePasses \/ PositionCloses
  BY <1>2, TokenFrame DEF TimePasses, PositionCloses, serviceVars, Holding
<1>. QED
  BY <1>1, <1>2

LEMMA StepToken ==
    ASSUME TypeOK, ThreadInv, TokenInv, [Next]_vars
    PROVE  TokenInv'
<1>1. CASE UNCHANGED vars
  BY <1>1, TokenFrame DEF vars, serviceVars, Holding
<1>2. CASE Next
  BY <1>2, StepCases, QuietToken, IssueTokenInv, RedeemTokenInv, LimiterToken,
     SendTokenInv, EnvironmentToken
<1>. QED
  BY <1>1, <1>2

LEMMA TokenInvariant == Spec => []TokenInv
<1>1. TypeOK /\ ThreadInv /\ TokenInv /\ [Next]_vars => TokenInv'
  BY StepToken
<1>. QED
  BY InitToken, TypeCorrect, <1>1, PTL DEF Spec

(* However requests, expiry and restarts interleave, no token moves money    *)
(* twice.                                                                    *)
THEOREM TokenSpentOnce == Spec => []OneOrderPerToken
<1>1. TokenInv => OneOrderPerToken
  BY DEF TokenInv
<1>. QED
  BY TokenInvariant, <1>1, PTL

(* What a token moves is what its preview, in the same process, described.   *)
THEOREM TokenBindsOrder == Spec => []OrderMatchesToken
<1>1. TokenInv => OrderMatchesToken
  BY DEF TokenInv
<1>. QED
  BY TokenInvariant, <1>1, PTL
-----------------------------------------------------------------------------
(* The daily quota                                                           *)

\* The units that orders and threads carry are units.
LEMMA UnitTypes ==
    ASSUME TypeOK
    PROVE  /\ \A i \in DOMAIN sent : sent[i].unit \in Unit \cup {None}
           /\ \A s \in Request : req[s].unit \in Unit \cup {None}
<1>1. \A i \in DOMAIN sent : sent[i] \in Sent
  BY DEF TypeOK
<1>2. \A s \in Request : req[s] \in RequestState
  BY DEF TypeOK
<1>3. \A i \in DOMAIN sent : sent[i].unit \in Unit \cup {None}
  BY <1>1 DEF Sent
<1>4. \A s \in Request : req[s].unit \in Unit \cup {None}
  BY <1>2 DEF RequestState
<1>. QED
  BY <1>3, <1>4

LEMMA InitQuota == Init => QuotaInv
BY DEF Init, ClocksInit, LimiterInit, Idle, QuotaInv, UnitsGivenOut,
       UnitsDistinct, HasUnit

\* A step that leaves the limiter and the orders alone, does not turn back the
\* date and gives no thread a unit it did not have.
LEMMA QuotaFrame ==
    ASSUME QuotaInv, UNCHANGED <<limiterVars, boot, sent>>, quotaDate <= today',
           \A s \in Request :
             HasUnit(req'[s]) => HasUnit(req[s]) /\ req'[s].unit = req[s].unit
    PROVE  QuotaInv'
<1>1. UnitsGivenOut'
  BY DEF QuotaInv, UnitsGivenOut, GivenOut, limiterVars
<1>2. UnitsDistinct'
  BY DEF QuotaInv, UnitsDistinct
<1>. QED
  BY <1>1, <1>2 DEF QuotaInv, limiterVars

LEMMA QuietQuota ==
    ASSUME TypeOK, QuotaInv, NEW r \in Request, NEW q, Quiet(r, q)
    PROVE  QuotaInv'
<1>1. ASSUME NEW s \in Request, HasUnit(req'[s])
      PROVE  HasUnit(req[s]) /\ req'[s].unit = req[s].unit
  BY <1>1 DEF Quiet, Becomes, TypeOK
<1>. QED
  BY <1>1, QuotaFrame DEF Quiet, clockVars, QuotaInv

\* Issuing and redeeming hand out no unit.
LEMMA TokenStepsUnits ==
    ASSUME TypeOK, ThreadInv, NEW r \in Request,
           (\E token \in Token : IssueToken(r, token)) \/ RedeemPop(r)
    PROVE  /\ \A s \in Request : s # r => req'[s] = req[s]
           /\ ~HasUnit(req'[r])
           /\ UNCHANGED <<clockVars, limiterVars, boot, sent>>
<1>1. req \in [Request -> RequestState] /\ ThreadOK(req[r])
  BY DEF TypeOK, ThreadInv
<1>2. CASE RedeemPop(r)
  <2>1. req'[r].unit = req[r].unit /\ req[r].unit = None
    BY <1>1, <1>2 DEF RedeemPop, Becomes, RequestState, ThreadOK
  <2>. QED
    BY <1>1, <1>2, <2>1 DEF RedeemPop, Becomes, HasUnit
<1>3. ASSUME NEW token \in Token, IssueToken(r, token)
      PROVE  /\ \A s \in Request : s # r => req'[s] = req[s]
             /\ ~HasUnit(req'[r])
             /\ UNCHANGED <<clockVars, limiterVars, boot, sent>>
  <2>1. req[r].unit = None
    BY <1>1, <1>3 DEF IssueToken, ThreadOK
  <2>2. CASE Becomes(r, [req[r] EXCEPT !.token = token, !.pc = "preview_row"])
    <3>1. req'[r].unit = req[r].unit
      BY <1>1, <2>2 DEF Becomes, RequestState
    <3>. QED
      BY <1>1, <1>3, <2>1, <2>2, <3>1 DEF IssueToken, Becomes, HasUnit
  <2>3. CASE Answer(r, "ok")
    <3>1. req'[r].unit = req[r].unit
      BY <1>1, <2>3 DEF Answer, Becomes, Idle
    <3>. QED
      BY <1>1, <1>3, <2>1, <2>3, <3>1 DEF IssueToken, Answer, Becomes, HasUnit
  <2>. QED
    BY <1>3, <2>2, <2>3 DEF IssueToken
<1>. QED
  BY <1>2, <1>3

LEMMA TokenStepsQuota ==
    ASSUME TypeOK, ThreadInv, QuotaInv, NEW r \in Request,
           (\E token \in Token : IssueToken(r, token)) \/ RedeemPop(r)
    PROVE  QuotaInv'
BY TokenStepsUnits, QuotaFrame DEF clockVars, QuotaInv

(* Handing out a unit: it is of the present process and date, and its slot   *)
(* is one above every slot handed out on them.                               *)
LEMMA LimiterQuota ==
    ASSUME TypeOK, ThreadInv, QuotaInv, NEW r \in Request, TakeQuota(r)
    PROVE  QuotaInv'
<1>1. /\ req \in [Request -> RequestState] /\ req[r].pc = "limit"
      /\ req[r].unit = None
      /\ today \in Nat /\ quotaDate \in Nat /\ quotaCount \in Nat /\ boot \in Nat
      /\ UNCHANGED <<today, boot, sent>>
      /\ quotaDate' = today /\ RolledCount \in 0..MaxPerDay
      /\ quotaCount' \in {RolledCount, RolledCount + 1}
  <2>1. /\ req \in [Request -> RequestState]
        /\ today \in Nat /\ quotaDate \in Nat /\ quotaCount \in Nat /\ boot \in Nat
    BY ClocksAssumption, LimiterAssumption, ServiceAssumption
    DEF TypeOK, ClocksTypeOK, LimiterTypeOK
  <2>2. req[r].pc = "limit" /\ UNCHANGED <<today, boot, sent>>
    BY DEF TakeQuota, clockVars
  <2>3. req[r].unit = None
    BY <2>2 DEF ThreadInv, ThreadOK
  <2>4. quotaDate' = today /\ quotaCount' \in {RolledCount, RolledCount + 1}
    BY DEF TakeQuota, CheckAndIncrement, RefuseQuota
  <2>. QED
    BY <2>1, <2>2, <2>3, <2>4, QuotaTypes
<1>2. \A s \in Request : s # r => req'[s] = req[s]
  BY <1>1 DEF TakeQuota, Answer, Becomes
<1>. DEFINE Out(u) ==
              /\ u.slot \in 1..MaxPerDay
              /\ u.boot <= boot
              /\ u.boot = boot =>
                   /\ u.day <= today
                   /\ u.day = today => u.slot <= quotaCount'
<1>3. ASSUME NEW u \in Unit, GivenOut(u)
      PROVE  Out(u) /\ u # NextUnit
  <2>1. u.boot = boot /\ u.day = today => quotaDate = today /\ u.slot <= quotaCount
    BY <1>1, <1>3 DEF GivenOut, QuotaInv, Unit
  <2>2. u # NextUnit
    BY <1>1, <2>1 DEF NextUnit, RolledCount
  <2>3. Out(u)
    <3>1. u.boot = boot => u.day <= today
      BY <1>1, <1>3 DEF GivenOut, QuotaInv, Unit
    <3>2. u.boot = boot /\ u.day = today => u.slot <= quotaCount'
      BY <1>1, <1>3, <2>1 DEF GivenOut, RolledCount, Unit
    <3>. QED
      BY <1>1, <1>3, <3>1, <3>2 DEF GivenOut
  <2>. QED
    BY <2>2, <2>3
<1>4. /\ \A i \in DOMAIN sent : sent[i].unit # None => sent[i].unit \in Unit
      /\ \A s \in Request : HasUnit(req[s]) => req[s].unit \in Unit
  BY UnitTypes DEF HasUnit
<1>5. CASE CheckAndIncrement
  <2>1. Becomes(r, [req[r] EXCEPT !.pc = "send", !.unit = NextUnit])
    BY <1>5 DEF TakeQuota, CheckAndIncrement, RefuseQuota
  <2>2. req'[r].unit = NextUnit
    BY <1>1, <2>1 DEF Becomes, RequestState
  <2>3. Out(NextUnit)
    <3>1. quotaCount' = RolledCount + 1 /\ RolledCount < MaxPerDay
      BY <1>5 DEF CheckAndIncrement, HasQuota
    <3>2. /\ NextUnit.boot = boot /\ NextUnit.day = today
          /\ NextUnit.slot = RolledCount + 1
      BY DEF NextUnit
    <3>. QED
      BY <1>1, <3>1, <3>2, LimiterAssumption
  <2>4. UnitsGivenOut'
    <3>1. \A i \in DOMAIN sent : sent[i].unit # None => Out(sent[i].unit)
      BY <1>3, <1>4 DEF QuotaInv, UnitsGivenOut
    <3>2. \A s \in Request : HasUnit(req[s]) => Out(req[s].unit)
      BY <1>3, <1>4 DEF QuotaInv, UnitsGivenOut
    <3>3. \A s \in Request : HasUnit(req'[s]) => Out(req'[s].unit)
      <4>. HIDE DEF Out
      <4>. QED
        BY <1>2, <2>2, <2>3, <3>2
    <3>. QED
      BY <1>1, <3>1, <3>3 DEF UnitsGivenOut, GivenOut
  <2>5. UnitsDistinct'
    <3>1. \A i \in DOMAIN sent : sent[i].unit # NextUnit
      BY <1>3, <1>4, QuotaTypes, ServiceAssumption DEF QuotaInv, UnitsGivenOut
    <3>2. \A s \in Request : HasUnit(req[s]) => req[s].unit # NextUnit
      BY <1>3, <1>4 DEF QuotaInv, UnitsGivenOut
    <3>. QED
      BY <1>1, <1>2, <2>2, <3>1, <3>2 DEF QuotaInv, UnitsDistinct
  <2>. QED
    BY <1>1, <2>4, <2>5 DEF QuotaInv
<1>6. CASE RefuseQuota /\ Answer(r, "limit")
  <2>1. ~HasUnit(req'[r])
    BY <1>1, <1>6 DEF Answer, Becomes, Idle, HasUnit
  <2>2. UnitsGivenOut'
    <3>1. \A i \in DOMAIN sent : sent[i].unit # None => Out(sent[i].unit)
      BY <1>3, <1>4 DEF QuotaInv, UnitsGivenOut
    <3>2. \A s \in Request : HasUnit(req[s]) => Out(req[s].unit)
      BY <1>3, <1>4 DEF QuotaInv, UnitsGivenOut
    <3>3. \A s \in Request : HasUnit(req'[s]) => Out(req'[s].unit)
      <4>. HIDE DEF Out
      <4>. QED
        BY <1>2, <2>1, <3>2
    <3>. QED
      BY <1>1, <3>1, <3>3 DEF UnitsGivenOut, GivenOut
  <2>3. UnitsDistinct'
    BY <1>1, <1>2, <2>1 DEF QuotaInv, UnitsDistinct
  <2>. QED
    BY <1>1, <2>2, <2>3 DEF QuotaInv
<1>. QED
  BY <1>5, <1>6 DEF TakeQuota

(* Sending: the unit of the thread becomes the unit of the order.            *)
LEMMA SendQuota ==
    ASSUME TypeOK, ThreadInv, QuotaInv, NEW r \in Request, SendOrder(r)
    PROVE  QuotaInv'
<1>1. PICK outcome \in Outcome, q \in RequestState :
        /\ sent' = Append(sent, SentBy(r, outcome))
        /\ SentBy(r, outcome) \in Sent
        /\ Becomes(r, q) /\ ThreadOK(q)
        /\ q.order # 0
        /\ BrokerTypeOK' /\ UNCHANGED tradeMode
  BY SendShape
<1>. DEFINE new == SentBy(r, outcome)
            n == Len(sent) + 1
<1>2. /\ req \in [Request -> RequestState] /\ sent \in Seq(Sent)
      /\ req[r].pc = "send" /\ ThreadOK(req[r])
      /\ UNCHANGED <<limiterVars, clockVars, boot>>
  BY DEF TypeOK, SendOrder, ThreadInv
<1>3. /\ new.unit = req[r].unit
      /\ req[r].unit # None => HasUnit(req[r])
  BY <1>2 DEF SentBy, ThreadOK, HasUnit
<1>4. /\ DOMAIN sent' = DOMAIN sent \cup {n}
      /\ n \notin DOMAIN sent
      /\ \A i \in DOMAIN sent : sent'[i] = sent[i]
      /\ sent'[n] = new
  <2>. HIDE DEF new
  <2>. QED
    BY <1>1, <1>2 DEF new
<1>5. /\ ~HasUnit(req'[r])
      /\ \A s \in Request : s # r => req'[s] = req[s]
  BY <1>1, <1>2 DEF Becomes, HasUnit
<1>. HIDE DEF new, n
<1>6. UnitsGivenOut'
  BY <1>2, <1>3, <1>4, <1>5 DEF QuotaInv, UnitsGivenOut, GivenOut, limiterVars
<1>7. UnitsDistinct'
  <2>1. \A i \in DOMAIN sent : sent[i].unit # None => sent[i].unit # new.unit
    BY <1>3 DEF QuotaInv, UnitsDistinct
  <2>2. \A i, j \in DOMAIN sent' :
          sent'[i].unit # None /\ sent'[i].unit = sent'[j].unit => i = j
    BY <1>4, <2>1 DEF QuotaInv, UnitsDistinct
  <2>3. \A s \in Request : HasUnit(req'[s]) =>
          /\ s # r /\ req'[s] = req[s] /\ HasUnit(req[s])
          /\ req[s].unit # new.unit
          /\ \A i \in DOMAIN sent : sent[i].unit # req[s].unit
    <3>1. \A s \in Request : HasUnit(req'[s]) =>
            s # r /\ req'[s] = req[s] /\ HasUnit(req[s])
      BY <1>5
    <3>2. \A s \in Request : HasUnit(req[s]) =>
            /\ \A i \in DOMAIN sent : sent[i].unit # req[s].unit
            /\ s # r => req[s].unit # new.unit
      BY <1>3 DEF QuotaInv, UnitsDistinct, HasUnit
    <3>. QED
      BY <3>1, <3>2
  <2>4. \A i \in DOMAIN sent', s \in Request :
          HasUnit(req'[s]) => sent'[i].unit # req'[s].unit
    BY <1>4, <2>3
  <2>5. \A s, z \in Request :
          HasUnit(req'[s]) /\ HasUnit(req'[z]) /\ req'[s].unit = req'[z].unit => s = z
    BY <2>3 DEF QuotaInv, UnitsDistinct
  <2>. QED
    BY <2>2, <2>4, <2>5 DEF UnitsDistinct
<1>. QED
  BY <1>2, <1>6, <1>7 DEF QuotaInv, limiterVars, clockVars

LEMMA EnvironmentQuota ==
    ASSUME TypeOK, QuotaInv, Restart \/ TimePasses \/ PositionCloses
    PROVE  QuotaInv'
<1>1. CASE Restart
  <2>1. /\ \A s \in Request : ~HasUnit(req'[s])
        /\ boot' = boot + 1 /\ boot \in Nat /\ quotaDate' = 0 /\ today' = today
        /\ today \in 1..MaxDay
        /\ UNCHANGED sent
    BY <1>1, ServiceAssumption
    DEF Restart, Idle, HasUnit, TypeOK, ClocksTypeOK, clockVars
  <2>2. \A i \in DOMAIN sent : sent[i].unit # None => sent[i].unit \in Unit
    BY UnitTypes
  <2>3. UnitsGivenOut'
    BY <2>1, <2>2 DEF QuotaInv, UnitsGivenOut, GivenOut, Unit
  <2>4. UnitsDistinct'
    BY <2>1 DEF QuotaInv, UnitsDistinct
  <2>. QED
    BY <2>1, <2>3, <2>4, ClocksAssumption DEF QuotaInv
<1>2. CASE TimePasses
  <2>1. quotaDate <= today'
    BY <1>2, ClocksAssumption
    DEF TimePasses, Tick, QuotaInv, TypeOK, ClocksTypeOK, LimiterTypeOK
  <2>. QED
    BY <1>2, <2>1, QuotaFrame DEF TimePasses, serviceVars
<1>3. CASE PositionCloses
  BY <1>3, QuotaFrame DEF PositionCloses, serviceVars, clockVars, QuotaInv
<1>. QED
  BY <1>1, <1>2, <1>3

LEMMA StepQuota ==
    ASSUME TypeOK, ThreadInv, QuotaInv, [Next]_vars
    PROVE  QuotaInv'
<1>1. CASE UNCHANGED vars
  BY <1>1, QuotaFrame DEF vars, serviceVars, clockVars, QuotaInv
<1>2. CASE Next
  BY <1>2, StepCases, QuietQuota, TokenStepsQuota, LimiterQuota, SendQuota,
     EnvironmentQuota
<1>. QED
  BY <1>1, <1>2

LEMMA QuotaInvariant == Spec => []QuotaInv
<1>1. TypeOK /\ ThreadInv /\ QuotaInv /\ [Next]_vars => QuotaInv'
  BY StepQuota
<1>. QED
  BY InitQuota, TypeCorrect, <1>1, PTL DEF Spec

(* The orders of one process and date have distinct slots in 1..MaxPerDay.   *)
LEMMA CeilingFromUnits ==
    ASSUME TypeOK, QuotaInv
    PROVE  DailyCeiling
<1>. SUFFICES ASSUME NEW b \in 0..MaxRestarts, NEW d \in 1..MaxDay
              PROVE  Cardinality(UnitOrders(b, d)) <= MaxPerDay
  BY DEF DailyCeiling
<1>. DEFINE slot == [i \in UnitOrders(b, d) |-> sent[i].unit.slot]
<1>1. \A i \in UnitOrders(b, d) :
        /\ i \in DOMAIN sent /\ sent[i].unit # None /\ sent[i].unit \in Unit
        /\ sent[i].unit.boot = b /\ sent[i].unit.day = d
        /\ sent[i].unit.slot \in 1..MaxPerDay
  BY UnitTypes DEF UnitOrders, QuotaInv, UnitsGivenOut, GivenOut
<1>2. slot \in [UnitOrders(b, d) -> 1..MaxPerDay]
  BY <1>1
<1>3. ASSUME NEW i \in UnitOrders(b, d), NEW j \in UnitOrders(b, d),
             slot[i] = slot[j]
      PROVE  i = j
  <2>1. sent[i].unit = sent[j].unit
    BY <1>1, <1>3 DEF Unit
  <2>. QED
    BY <1>1, <2>1 DEF QuotaInv, UnitsDistinct
<1>4. slot \in Injection(UnitOrders(b, d), 1..MaxPerDay)
  BY <1>2, <1>3 DEF Injection, IsInjective
<1>5. IsFiniteSet(1..MaxPerDay) /\ Cardinality(1..MaxPerDay) = MaxPerDay
  BY FS_Interval, LimiterAssumption
<1>. HIDE DEF slot
<1>6. Cardinality(UnitOrders(b, d)) <= Cardinality(1..MaxPerDay)
  BY <1>4, <1>5, FS_Injection
<1>. QED
  BY <1>5, <1>6

(* Any number of requests in flight, any interleaving: one process never     *)
(* sends more than MaxPerDay orders on the quota of one UTC date.            *)
THEOREM CeilingHolds == Spec => []DailyCeiling
<1>1. TypeOK /\ QuotaInv => DailyCeiling
  BY CeilingFromUnits
<1>. QED
  BY TypeCorrect, QuotaInvariant, <1>1, PTL
-----------------------------------------------------------------------------
(* The guards of an order                                                    *)

\* Only an order sent can disturb what is said of the orders sent.
LEMMA GuardedFrame ==
    ASSUME OpensAreGuarded, UNCHANGED sent
    PROVE  OpensAreGuarded'
BY DEF OpensAreGuarded, Opening

\* The order a thread is about to send has passed the guards of its method.
LEMMA SendGuarded ==
    ASSUME TypeOK, ThreadInv, QuotaInv, OpensAreGuarded,
           NEW r \in Request, SendOrder(r)
    PROVE  OpensAreGuarded'
<1>1. PICK outcome \in Outcome, q \in RequestState :
        /\ sent' = Append(sent, SentBy(r, outcome))
        /\ SentBy(r, outcome) \in Sent
        /\ Becomes(r, q) /\ ThreadOK(q)
        /\ q.order # 0
        /\ BrokerTypeOK' /\ UNCHANGED tradeMode
  BY SendShape
<1>. DEFINE new == SentBy(r, outcome)
            n == Len(sent) + 1
<1>2. sent \in Seq(Sent) /\ req[r].pc = "send" /\ ThreadOK(req[r])
  BY DEF TypeOK, SendOrder, ThreadInv
<1>3. /\ DOMAIN sent' = DOMAIN sent \cup {n}
      /\ n \notin DOMAIN sent
      /\ \A i \in DOMAIN sent : sent'[i] = sent[i]
      /\ sent'[n] = new
  <2>. HIDE DEF new
  <2>. QED
    BY <1>1, <1>2 DEF new
<1>4. /\ new.payload = req[r].want /\ new.unit = req[r].unit
      /\ new.mode = tradeMode
  BY DEF SentBy
<1>5. IF new.payload.side # "close"
      THEN /\ new.payload.symbol \in AllowedSymbol
           /\ VolumeValid(new.payload.symbol, new.payload.volume)
           /\ RequireDemo => new.mode = "demo"
           /\ new.unit # None
      ELSE new.unit = None
  BY <1>2, <1>4 DEF ThreadOK, Ordering, PastDemoCheck
<1>6. \A i \in DOMAIN sent : new.unit # None => sent[i].unit # new.unit
  <2>1. new.unit # None => HasUnit(req[r])
    BY <1>2, <1>4 DEF ThreadOK, HasUnit
  <2>. QED
    BY <1>4, <2>1 DEF QuotaInv, UnitsDistinct
<1>. HIDE DEF new, n
<1>7. \A i \in DOMAIN sent :
        IF sent[i].payload.side # "close"
        THEN /\ sent[i].payload.symbol \in AllowedSymbol
             /\ VolumeValid(sent[i].payload.symbol, sent[i].payload.volume)
             /\ RequireDemo => sent[i].mode = "demo"
             /\ sent[i].unit # None
             /\ \A j \in DOMAIN sent : sent[j].unit = sent[i].unit => i = j
        ELSE sent[i].unit = None
  BY DEF OpensAreGuarded, Opening
<1>. QED
  BY <1>3, <1>5, <1>6, <1>7 DEF OpensAreGuarded, Opening

LEMMA StepGuarded ==
    ASSUME TypeOK, ThreadInv, QuotaInv, OpensAreGuarded, [Next]_vars
    PROVE  OpensAreGuarded'
<1>1. CASE UNCHANGED vars
  BY <1>1, GuardedFrame DEF vars, serviceVars
<1>2. CASE Next
  <2>1. ASSUME NEW r \in Request, NEW q, Quiet(r, q) PROVE UNCHANGED sent
    BY <2>1 DEF Quiet
  <2>2. ASSUME NEW r \in Request,
               \/ \E token \in Token : IssueToken(r, token)
               \/ RedeemPop(r)
               \/ TakeQuota(r)
        PROVE  UNCHANGED sent
    BY <2>2 DEF IssueToken, RedeemPop, TakeQuota
  <2>3. Restart \/ TimePasses \/ PositionCloses => UNCHANGED sent
    BY DEF Restart, TimePasses, PositionCloses, serviceVars
  <2>. QED
    BY <1>2, <2>1, <2>2, <2>3, StepCases, GuardedFrame, SendGuarded
<1>. QED
  BY <1>1, <1>2

(* No interleaving carries an opening order around a guard: it is allowed,   *)
(* on the grid, on a demo account if need be, and paid for by a quota unit   *)
(* that no other order holds.                                                *)
THEOREM GuardsHold == Spec => []OpensAreGuarded
<1>1. Init => OpensAreGuarded
  BY DEF Init, OpensAreGuarded
<1>2. /\ TypeOK /\ ThreadInv /\ QuotaInv /\ OpensAreGuarded /\ [Next]_vars
      => OpensAreGuarded'
  BY StepGuarded
<1>. QED
  BY <1>1, <1>2, TypeCorrect, QuotaInvariant, PTL DEF Spec
=============================================================================
