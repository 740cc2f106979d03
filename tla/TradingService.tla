--------------------------- MODULE TradingService ---------------------------
(* TradingService (trading.py) with its guards, its journal and the account  *)
(* it trades.  FastAPI runs each request in a thread of its own, so the      *)
(* methods of concurrent requests interleave between any two steps that      *)
(* touch shared state; pc says which such step a request is about to take.   *)
(* A step is everything a method does from one shared access to the next.    *)
EXTENDS ConfirmTokenStore, OrderLimiter, ScaleInCooldownGuard, Broker,
        OrderValidation, Journal

CONSTANTS
    Request,        \* threads that may serve a request at the same time
    Intents,        \* the order intents callers may ask for
    RequireToken,   \* require_confirm_token
    RequireDemo,    \* require_demo_account
    MaxSent,        \* bound: orders handed to the terminal in a run
    MaxRestarts     \* bound: crashes or restarts of the bridge process

\* A unit of the daily quota: the slot-th one process `boot' handed out on `day'.
Unit == [boot : Nat, day : Nat, slot : Nat]

\* Ghost: what a preview described when a token was minted for it.
Minted == [payload : TokenPayload, boot : Nat]

ASSUME ServiceAssumption ==
    /\ None \notin Unit
    /\ None \notin Minted
    /\ Intents \subseteq OrderIntent
    /\ RequireToken \in BOOLEAN
    /\ RequireDemo \in BOOLEAN
    /\ MaxSent \in Nat
    /\ MaxRestarts \in Nat

VARIABLES
    req,        \* the local state of the thread serving each request
    boot,       \* ghost: how often the process has been restarted
    minted,     \* ghost: token |-> what its preview described, None if unused
    sent        \* ghost: every order handed to the terminal, in order

serviceVars == <<req, boot, minted, sent>>

vars == <<clockVars, store, limiterVars, brokerVars, rows, serviceVars>>

Kind == {"none", "preview", "preview_close", "execute", "close"}

Pc == {"idle", "issue", "preview_row", "account", "cooldown", "redeem", "check",
       "quote", "limit", "send", "row", "answered"}

Verdict == {"none", "ok", "invalid", "not_found", "unavailable", "live_blocked",
            "cooldown", "token", "limit", "rejected"}

Idle ==
    [pc |-> "idle", kind |-> "none", token |-> None, want |-> None, stops |-> None,
     price |-> None, held |-> None, unit |-> None, order |-> 0, verdict |-> "none"]

RequestState ==
    [pc : Pc, kind : Kind,
     token : Token \cup {None},         \* confirm_token of the call
     want : TokenPayload \cup {None},   \* the action the call describes
     stops : Levels \cup {None},        \* its levels; rounded once it is priced
     price : Int \cup {None},           \* the entry price its order will carry
     held : Entry \cup {None},          \* the entry redeem has popped
     unit : Unit \cup {None},           \* the quota unit the limiter gave it
     order : Nat,                       \* its index in `sent', 0 before that
     verdict : Verdict]                 \* how the call ended

Sent == [token : Token \cup {None}, payload : TokenPayload,
         unit : Unit \cup {None},
         boot : Nat, day : Nat, mode : TradeMode, reply : Reply, filled : BOOLEAN]

Row == [event : Event, token : Token \cup {None}, order : Nat]

TypeOK ==
    /\ ClocksTypeOK
    /\ StoreTypeOK
    /\ LimiterTypeOK
    /\ BrokerTypeOK
    /\ rows \in Seq(Row)
    /\ req \in [Request -> RequestState]
    /\ boot \in 0..MaxRestarts
    /\ minted \in [Token -> Minted \cup {None}]
    /\ sent \in Seq(Sent)

Init ==
    /\ ClocksInit
    /\ StoreInit
    /\ LimiterInit
    /\ BrokerInit
    /\ JournalInit
    /\ req = [r \in Request |-> Idle]
    /\ boot = 0
    /\ minted = [t \in Token |-> None]
    /\ sent = <<>>
-----------------------------------------------------------------------------
(* Helpers                                                                   *)

\* The thread of r moves to the local state q; the others stay where they are.
Becomes(r, q) == req' = [req EXCEPT ![r] = q]

Goto(r, pc) == Becomes(r, [req[r] EXCEPT !.pc = pc])

\* The method returns or raises.  Its frame is gone; what is left, until the
\* response is out, is how it ended and what it used up on the way.
Answer(r, verdict) ==
    Becomes(r, [Idle EXCEPT !.pc = "answered", !.kind = req[r].kind,
                            !.held = req[r].held, !.unit = req[r].unit,
                            !.order = req[r].order, !.verdict = verdict])

\* A request that is turned away by the first step of its method.
Refuse(r, kind, verdict) ==
    Becomes(r, [Idle EXCEPT !.pc = "answered", !.kind = kind, !.verdict = verdict])

\* A native call that fails raises out of the method.
Unavailable(r) == TerminalMayFail /\ Answer(r, "unavailable")

\* Tokens a caller can hold: those it was given, in this or an earlier life of
\* the process, or none.  A made-up string is never a key of the store.
KnownToken == {t \in Token : minted[t] # None} \cup {None}

\* Bounds: a preview starts only if a token is left for it, and an order only
\* if there is room for it in `sent'.
TokenLeft ==
    Cardinality({r \in Request : req[r].pc = "issue"})
        < Cardinality({t \in Token : minted[t] = None})

Sending(r) == req[r].kind \in {"execute", "close"} /\ req[r].pc # "answered"
              /\ req[r].order = 0

RoomToSend ==
    Len(sent) + Cardinality({r \in Request : Sending(r)}) < MaxSent

-----------------------------------------------------------------------------
(* preview and preview_close                                                 *)

\* preview up to issue: validation and one quote, none of them shared.
PreviewOrder(r, intent) ==
    /\ req[r] = Idle
    /\ \/ /\ Valid(intent)
          /\ \E quote \in Quotes :
               StopsValid(intent.side, EntryPrice(quote, intent.side), intent.stops)
          /\ TokenLeft
          /\ Becomes(r, [Idle EXCEPT !.pc = "issue", !.kind = "preview",
                                     !.want = OpenPayload(intent)])
       \/ /\ \/ ~Valid(intent)
             \/ \E quote \in Quotes :
                  ~StopsValid(intent.side, EntryPrice(quote, intent.side), intent.stops)
          /\ Refuse(r, "preview", "invalid")
       \/ TerminalMayFail /\ Refuse(r, "preview", "unavailable")
    /\ UNCHANGED <<clockVars, store, limiterVars, brokerVars, rows, boot, minted, sent>>

\* preview_close up to issue: the position is read here and not again.
PreviewClose(r, ticket) ==
    /\ req[r] = Idle
    /\ \/ /\ TokenLeft
          /\ \E p \in positions :
               /\ p.ticket = ticket
               /\ Becomes(r, [Idle EXCEPT !.pc = "issue", !.kind = "preview_close",
                                          !.want = ClosePayload(p)])
       \/ /\ ~IsOpen(ticket) \/ TerminalMayFail
          /\ Refuse(r, "preview_close", "not_found")
    /\ UNCHANGED <<clockVars, store, limiterVars, brokerVars, rows, boot, minted, sent>>

\* ConfirmTokenStore.issue, with a token never drawn before.
IssueToken(r, token) ==
    /\ req[r].pc = "issue"
    /\ minted[token] = None
    /\ Issue(token, req[r].want)
    /\ minted' = [minted EXCEPT ![token] =
         [payload |-> req[r].want, boot |-> boot]]
    /\ IF req[r].kind = "preview"
       THEN Becomes(r, [req[r] EXCEPT !.token = token, !.pc = "preview_row"])
       ELSE Answer(r, "ok")
    /\ UNCHANGED <<clockVars, limiterVars, brokerVars, rows, boot, sent>>

\* preview records itself; preview_close does not.
RecordPreview(r) ==
    /\ req[r].pc = "preview_row"
    /\ Write([event |-> "preview", token |-> req[r].token, order |-> 0])
    /\ Answer(r, "ok")
    /\ UNCHANGED <<clockVars, store, limiterVars, brokerVars, boot, minted, sent>>
-----------------------------------------------------------------------------
(* execute                                                                   *)

\* execute up to _is_demo_account.
ExecuteOrder(r, intent, token) ==
    /\ req[r] = Idle
    /\ \/ /\ Valid(intent)
          /\ RoomToSend
          /\ Becomes(r, [Idle EXCEPT !.pc = "account", !.kind = "execute",
                                     !.token = token,
                                     !.want = OpenPayload(intent),
                                     !.stops = intent.stops])
       \/ ~Valid(intent) /\ Refuse(r, "execute", "invalid")
       \/ TerminalMayFail /\ Refuse(r, "execute", "unavailable")
    /\ UNCHANGED <<clockVars, store, limiterVars, brokerVars, rows, boot, minted, sent>>

\* The step that follows the account and cooldown checks.
Authorise == IF RequireToken THEN "redeem" ELSE "quote"

\* Mutant of ReadAccount: the token is redeemed before the demo-only block.
RedeemFirst(r) ==
    /\ req[r].pc = "account"
    /\ Pop(req[r].token)
    /\ LET q == [req[r] EXCEPT !.held = Popped(req[r].token)]
       IN  \/ tradeMode = "demo" /\ Becomes(r, [q EXCEPT !.pc = "check"])
           \/ /\ tradeMode # "demo" /\ RequireDemo
              /\ Becomes(r, [q EXCEPT !.pc = "answered", !.verdict = "live_blocked"])
    /\ UNCHANGED <<clockVars, limiterVars, brokerVars, rows, boot, minted, sent>>

\* _is_demo_account and the demo-only block: anything but "demo" is live.
ReadAccount(r) ==
    /\ req[r].pc = "account"
    /\ \/ tradeMode = "demo" /\ Goto(r, Authorise)
       \/ tradeMode # "demo" /\ RequireDemo /\ Answer(r, "live_blocked")
       \/ tradeMode # "demo" /\ ~RequireDemo /\ Goto(r, "cooldown")
       \/ Unavailable(r)
    /\ UNCHANGED <<clockVars, store, limiterVars, brokerVars, rows, boot, minted, sent>>

\* Mutant of CheckCooldown: the token is redeemed before the scale-in guard.
CooldownAfterRedeem(r) ==
    /\ req[r].pc = "cooldown"
    /\ Pop(req[r].token)
    /\ LET q == [req[r] EXCEPT !.held = Popped(req[r].token)]
       IN  IF CooldownBlocks(req[r].want.symbol, positions)
           THEN Becomes(r, [q EXCEPT !.pc = "answered", !.verdict = "cooldown"])
           ELSE Becomes(r, [q EXCEPT !.pc = "check"])
    /\ UNCHANGED <<clockVars, limiterVars, brokerVars, rows, boot, minted, sent>>

\* positions() and the scale-in guard.  positions() turns the None of a failed
\* positions_get into an empty list, which the guard takes for no exposure.
CheckCooldown(r) ==
    /\ req[r].pc = "cooldown"
    /\ \/ \E seen \in {positions} \cup (IF TerminalMayFail THEN {{}} ELSE {}) :
            IF CooldownBlocks(req[r].want.symbol, seen)
            THEN Answer(r, "cooldown")
            ELSE Goto(r, Authorise)
       \/ Unavailable(r)
    /\ UNCHANGED <<clockVars, store, limiterVars, brokerVars, rows, boot, minted, sent>>

\* redeem, the section under the store's lock.
RedeemPop(r) ==
    /\ req[r].pc = "redeem"
    /\ Pop(req[r].token)
    /\ Becomes(r, [req[r] EXCEPT !.held = Popped(req[r].token), !.pc = "check"])
    /\ UNCHANGED <<clockVars, limiterVars, brokerVars, rows, boot, minted, sent>>

\* redeem, after the lock: whatever it finds, the token is spent.
CheckToken(r) ==
    /\ req[r].pc = "check"
    /\ IF Admits(req[r].held, req[r].want)
       THEN Goto(r, "quote")
       ELSE Answer(r, "token")
    /\ UNCHANGED <<clockVars, store, limiterVars, brokerVars, rows, boot, minted, sent>>

\* Mutant of QuoteEntry: the stops were checked in the preview, and that is that.
QuoteUnchecked(r) ==
    /\ req[r].pc = "quote"
    /\ \/ req[r].kind = "close" /\ Goto(r, "send")
       \/ /\ req[r].kind = "execute"
          /\ \E quote \in Quotes, stops \in RoundedStops(req[r].want.symbol, req[r].stops) :
               Becomes(r, [req[r] EXCEPT !.pc = "limit", !.stops = stops,
                             !.price = EntryPrice(quote, req[r].want.side)])
       \/ Unavailable(r)
    /\ UNCHANGED <<clockVars, store, limiterVars, brokerVars, rows, boot, minted, sent>>

\* _entry_quote and, for execute, _assert_stops_valid against that quote and
\* _build_order_payload, which rounds the stops after they were checked.
QuoteEntry(r) ==
    /\ req[r].pc = "quote"
    /\ \/ req[r].kind = "close" /\ Goto(r, "send")
       \/ /\ req[r].kind = "execute"
          /\ \E quote \in Quotes, stops \in RoundedStops(req[r].want.symbol, req[r].stops) :
               LET entry == EntryPrice(quote, req[r].want.side)
               IN  IF StopsValid(req[r].want.side, entry, req[r].stops)
                   THEN Becomes(r, [req[r] EXCEPT !.pc = "limit", !.stops = stops,
                                                  !.price = entry])
                   ELSE Answer(r, "invalid")
       \/ Unavailable(r)
    /\ UNCHANGED <<clockVars, store, limiterVars, brokerVars, rows, boot, minted, sent>>

\* Ghost: the unit of the quota the limiter hands out next.
NextUnit == [boot |-> boot, day |-> today, slot |-> RolledCount + 1]

\* OrderLimiter.check_and_increment.
TakeQuota(r) ==
    /\ req[r].pc = "limit"
    /\ \/ /\ CheckAndIncrement
          /\ Becomes(r, [req[r] EXCEPT !.pc = "send", !.unit = NextUnit])
       \/ RefuseQuota /\ Answer(r, "limit")
    /\ UNCHANGED <<clockVars, store, brokerVars, rows, boot, minted, sent>>
-----------------------------------------------------------------------------
(* close                                                                     *)

\* close up to redeem: the position is read here and not again.
CloseOrder(r, ticket, token) ==
    /\ req[r] = Idle
    /\ \/ /\ RoomToSend
          /\ \E p \in positions :
               /\ p.ticket = ticket
               /\ Becomes(r, [Idle EXCEPT !.pc = Authorise, !.kind = "close",
                                          !.token = token, !.want = ClosePayload(p)])
       \/ /\ ~IsOpen(ticket) \/ TerminalMayFail
          /\ Refuse(r, "close", "not_found")
    /\ UNCHANGED <<clockVars, store, limiterVars, brokerVars, rows, boot, minted, sent>>
-----------------------------------------------------------------------------
(* The end of execute and close                                              *)

\* Ghost: the order the request hands to the terminal, and what came of it.
SentBy(r, outcome) ==
    [token |-> req[r].token, payload |-> req[r].want, unit |-> req[r].unit,
      boot |-> boot, day |-> today, mode |-> tradeMode,
     reply |-> outcome.reply, filled |-> outcome.filled]

\* MT5Terminal.send_order: one native call, under the terminal's call lock.
SendOrder(r) ==
    /\ req[r].pc = "send"
    /\ \E outcome \in OutcomesFor(req[r].want) :
         /\ sent' = Append(sent, SentBy(r, outcome))
         /\ IF outcome.filled THEN Fill(req[r].want) ELSE UNCHANGED brokerVars
    /\ Becomes(r, [req[r] EXCEPT !.order = Len(sent) + 1, !.pc = "row"])
    /\ UNCHANGED <<clockVars, store, limiterVars, rows, boot, minted>>

\* Mutant of RowFor: any retcode passes for success.
RowForAnyCode(r) ==
    [event |-> IF sent[req[r].order].reply \in {"nothing", "no_session"} THEN "rejected"
               ELSE IF req[r].kind = "close" THEN "closed" ELSE "executed",
     token |-> None,
     order |-> req[r].order]

\* Anything but TRADE_RETCODE_DONE has raised out of send_order.
RowFor(r) ==
    [event |-> IF sent[req[r].order].reply # "done" THEN "rejected"
               ELSE IF req[r].kind = "close" THEN "closed" ELSE "executed",
     token |-> None,
     order |-> req[r].order]

\* Mutant of RecordOrder: only orders that went through are recorded.
RecordSuccess(r) ==
    /\ req[r].pc = "row"
    /\ IF RowFor(r).event = "rejected" THEN UNCHANGED rows ELSE Write(RowFor(r))
    /\ Answer(r, "ok")
    /\ UNCHANGED <<clockVars, store, limiterVars, brokerVars, boot, minted, sent>>

RecordOrder(r) ==
    /\ req[r].pc = "row"
    /\ Write(RowFor(r))
    /\ Answer(r, IF RowFor(r).event = "rejected" THEN "rejected" ELSE "ok")
    /\ UNCHANGED <<clockVars, store, limiterVars, brokerVars, boot, minted, sent>>

\* The response leaves the bridge and the thread is free.
Respond(r) ==
    /\ req[r].pc = "answered"
    /\ Becomes(r, Idle)
    /\ UNCHANGED <<clockVars, store, limiterVars, brokerVars, rows, boot, minted, sent>>
-----------------------------------------------------------------------------
(* The environment                                                           *)

\* The process dies, at any point of any request, and is started again: what
\* was in memory is gone, the account and the journal stay.
Restart ==
    /\ boot < MaxRestarts
    /\ boot' = boot + 1
    /\ store' = EmptyStore
    /\ quotaDate' = 0
    /\ quotaCount' = 0
    /\ req' = [r \in Request |-> Idle]
    /\ UNCHANGED <<clockVars, brokerVars, rows, minted, sent>>

TimePasses ==
    /\ Tick
    /\ UNCHANGED <<store, limiterVars, brokerVars, rows, serviceVars>>

PositionCloses ==
    /\ BrokerCloses
    /\ UNCHANGED <<clockVars, store, limiterVars, rows, serviceVars>>
-----------------------------------------------------------------------------
Call(r) ==
    \/ \E intent \in Intents :
         \/ PreviewOrder(r, intent)
         \/ \E token \in KnownToken : ExecuteOrder(r, intent, token)
    \/ \E ticket \in Ticket :
         \/ PreviewClose(r, ticket)
         \/ \E token \in KnownToken : CloseOrder(r, ticket, token)

Serve(r) ==
    \/ \E token \in Token : IssueToken(r, token)
    \/ RecordPreview(r)
    \/ ReadAccount(r)
    \/ CheckCooldown(r)
    \/ RedeemPop(r)
    \/ CheckToken(r)
    \/ QuoteEntry(r)
    \/ TakeQuota(r)
    \/ SendOrder(r)
    \/ RecordOrder(r)
    \/ Respond(r)

Next ==
    \/ \E r \in Request : Call(r) \/ Serve(r)
    \/ Restart
    \/ TimePasses
    \/ PositionCloses

Spec == Init /\ [][Next]_vars
=============================================================================
