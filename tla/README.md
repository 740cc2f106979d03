# Verification of the MT5 guardrail bridge

This directory models the bridge and its client in TLA+, checks the models with TLC
and proves their main safety properties with TLAPS. The source is Python: a
FastAPI service on Windows (`windows-side/mt5_bridge`) that trades through the
MetaTrader 5 terminal, and a client for it on Linux (`linux-side`). Paths below
are relative to the repository.

## 1. The system

| Part | State | Operations | Hard because |
|---|---|---|---|
| `TradingService` (`trading.py`) | none of its own | `preview`, `preview_close`, `execute`, `close` | every request runs in a thread of its own; each method touches shared state several times, with no lock across the touches |
| `InMemoryConfirmTokenStore` (`guards.py`) | dict token -> (payload, issue time), a lock | `issue` (sweeps first), `redeem` | `redeem` pops under the lock and judges the entry outside it |
| `InMemoryOrderLimiter` (`guards.py`) | date, count, a lock | `check_and_increment`, `remaining` | rolls over at UTC midnight; lost in a restart |
| `ScaleInCooldownGuard` (`guards.py`) | none | `check` on a list of positions | decides on positions read earlier, stamped by another clock |
| `MT5Terminal` (`terminal.py`) | connected flag, time of last verification, symbol cache, two locks | `connect`, `shutdown`, `is_connected`, reads, `send_order` | reconnects, retries, and a native library that is not thread-safe |
| `SqliteJournal` (`journal.py`) | table `trades` on disk | `record`, `recent` | written after the fact; inserts may fail silently; outlives the process |
| `InMemoryAuthAttemptLimiter` (`guards.py`), `verify_api_key` (`dependencies.py`) | failure times, end of the lock-out, a lock | check, record failure, record success | check and record are separate critical sections of one request |
| Linux client (`transport.py`, `client.py`, `config.py`) and `mt5_cli.py` | none between commands | GET with retries, POST without, discovery, one line per command | an answer may be lost after the order was sent, a request served after it was given up |
| `verify_trades.py` | none | reads the journal, gives a verdict | concludes from what rows do not say |
| installers, wiring, settings | none | set-up | not behavioural |
| MetaTrader 5 and the broker (outside) | positions, tickets, account kind | `order_send`, `positions_get`, `account_info` | may not answer, may report a fill as a failure, closes positions on its own, stamps times in its own zone |

How they interact: an HTTP request passes `verify_api_key`, then runs one
`TradingService` method to its end in a threadpool thread. The method calls the
guards, which serialise only their own sections, and the terminal, which
serialises only its native calls. Nothing spans two of those sections. `preview`
hands a token to the caller and the caller hands it back to `execute`, later and
perhaps more than once. The journal is written last. On the other side an agent runs
`mt5_cli.py`, one process per command: a `BridgeClient` sends one request (after one
or more probes of `/health`, with `--discover`) and prints one line, from which the
agent decides what to do next. No component of either side waits for the other but
the client, for as long as its socket timeout.

What makes each part correct:

* tokens: one token, one order, and the order it was previewed for;
* limiter: never more than the ceiling on one date, and only real orders count;
* demo block, cooldown, validation: no opening order gets round them, and a
  refused call costs nothing;
* journal: its rows are true, and no order of a living process is missing;
* terminal: one native call at a time, a lost session is found and restored;
* lock-out: a burst of failures locks, whoever comes then is refused, a lock ends;
* client: an order is never sent twice by a retry, what the line says of it is true,
  and there always is a line.

The list of hazards, each at its line and with the properties that cover it, is
in `PROJECT.json`.

## 2. The modules

| Module | Models |
|---|---|
| `Models` | `models.py`, `TokenPayload`: sides, intents, positions, the payload of a token |
| `Clocks` | the injected monotonic clock and UTC wall clock (`now`), and the UTC date (`today`) |
| `ConfirmTokenStore` | `issue` with `_sweep_expired`, and `redeem` in two parts: `Pop` (locked) and `Admits` (after it) |
| `OrderLimiter` | `check_and_increment`, with its roll-over, passing or raising |
| `ScaleInCooldownGuard` | `check` as a predicate on the positions it is given |
| `OrderValidation` | symbol, volume and stop checks as predicates, and `round_price` |
| `Broker` | external: positions, fills, replies of `order_send`, failing calls, account kind |
| `Journal` | `record`: one row is added, or (failed insert, `NullJournal`) none; `recent` |
| `TradingService` | the four methods, composed with all of the above, crashes and time |
| `TradingProperties` | the properties, and the verdict of `verify_trades.py` |
| `OrderAuthority` | abstract: what confirmation promises, with no threads, clocks or store |
| `TradingRefinement` | the mapping from `TradingService` to `OrderAuthority` |
| `TradingInvariants` | the inductive invariants |
| `TradingService_proofs` | types, tokens, the ceiling and the guards, proved |
| `TradingRefinement_proofs` | the refinement of `OrderAuthority`, proved step by step |
| `TradingAccounting_proofs` | what a call uses up, the stops it leaves with, the journal and the day's count, proved |
| `TradingCooldown_proofs` | what the scale-in guard does promise, proved |
| `MCTradingService` | values for TLC |
| `Terminal` | `MT5Terminal` as a session: locks, flags, `connect`, probes, `shutdown`, `_TtlCache`; with its properties and inductive invariant |
| `Terminal_proofs` | the theorems about it |
| `MCTerminal` | values for TLC |
| `AuthAttemptLimiter` | `check_not_locked_out`, `record_failure`, `record_success`, each one section under the lock |
| `ApiKey` | `verify_api_key` in every thread, over the limiter; with its properties |
| `ApiKey_proofs`, `MCApiKey` | the theorems about it; values for TLC |
| `Transport` | `Transport.request` in every client process, and the wire |
| `BridgeClient` | one command of `mt5_cli.py`: configuration, `autodiscover`, the call, the line |
| `AgentSession` | agents, clients, wire and bridge together; the bridge is `OrderAuthority`; with its properties |
| `AgentSession_proofs`, `AgentOutcome_proofs` | the theorems about it: refusals and retries; successes and discovery |
| `MCAgentSession` | values for TLC |

### State and steps of `TradingService`

`req[r]` is the frame of the thread that serves request `r`: `pc` names the next
access to shared state, `want` is the payload the call describes, `held` the
entry `redeem` popped, `unit` the quota unit it was given, `order` the index of
its order. An action is everything between two accesses to shared state, in the
order the code has it. `QuoteEntry` checks the stops of the call against a fresh quote
and only then rounds them, as `_build_order_payload` does; `stops` and `price` in the
frame are the levels and the price the order will carry:

    preview        PreviewOrder   IssueToken   RecordPreview   Respond
    preview_close  PreviewClose   IssueToken   Respond
    execute        ExecuteOrder   ReadAccount  [CheckCooldown]
                   [RedeemPop   CheckToken]  QuoteEntry  TakeQuota
                   SendOrder    RecordOrder  Respond
    close          CloseOrder     [RedeemPop   CheckToken]  QuoteEntry
                   SendOrder      RecordOrder  Respond

`CheckCooldown` runs on accounts that are not demo, `RedeemPop` and `CheckToken`
where tokens are required. Every early return is an `Answer` or a `Refuse` with
the verdict the exception stands for. `close` visits neither the account check
nor the limiter, as in the code. `Restart` may fall between any two steps: the
store, the count and all threads are gone, the account and the journal stay.
`TimePasses` may move the date; `PositionCloses` is the broker's own doing.

Ghost variables, which no code reads: `sent` (every order handed to the
terminal, with its token, its quota unit, what the broker did and what
`order_send` said), `minted` (what each preview described) and `boot` (the number
of restarts). `opened` in a position is its true opening time; the code sees
`time_open`, the broker's stamp.

### State and steps of `Terminal`

`connected` is `_connected`; `trusted` says that `_last_verified` is less than the
check interval ago; `symbols` is the cache entry of one symbol, named by the
session it comes from (`current`, or `old` for any other); `connectLock` and
`callLock` name their holders. `pc[r]` is where thread `r` stands and `goal[r]` what
it is after:

    health   CheckHealth [Probe  Alive|Dead]
    connect  EnterConnect [Probe  Alive|Dead]
             [Attempt  Joined|Teardown|TeardownRaises  or  AttemptRaises]*
    call     connect  Call                       (account, positions, send_order)
    load     Lookup  connect  Call  Store  call  (tick, candles)
    boot     connect, then the bridge is up;  Stop, StopRaises: the lifespan's shutdown

`Probe`, `Attempt`, `Teardown` and `Call` are native calls: `TakeCallLock` first, the
lock released at their end. While the terminal is not healthy each of them may raise.
`_session` and a probe turn that into a failed call and a dead terminal, and the teardown
swallows it (`TeardownRaises`: the session stays as it is). `initialize` and `login` are not
wrapped: `AttemptRaises` leaves `connect` with both locks released, without a teardown or
a further attempt, and with whatever session `initialize` has opened. The answer of a probe is a step of its own (`Alive`,
`Dead`) because the code writes it after the release. `terminal` is what
`initialize` and `login` would meet (`down`, `refusing` the login, `healthy`) and
changes at any moment; `session` is what the native library holds (`closed`, `half`:
initialized and not logged in, `live`, `lost`: its terminal has died).

`TradingService` and `Terminal` meet in the calls: each read or `order_send` of the
first is a `load` or `call` of the second. They are checked apart; the failing reads
and the `no_session` reply of `TradingService` are the failures of `Terminal`.

### State and steps of `ApiKey`

Instants are kept by their distance from the present, so that time need not be
bounded: `failureAges` is `_failure_times` and `lockLeft` is `_locked_until`. A request is
`Check` (the first call, which refuses or lets pass), then `AcceptKey` or `RejectKey`
(the comparison and the report), then `Respond`; other threads and `Tick` come in between.
Ghosts: `due`, the seconds the last lock has still to run; `overtaken`, the
requests that had passed the check when it was set; `late`, the wrong keys judged during
it; `wrongAges`, the ages of the wrong keys since the last good key, restart or full burst,
kept by the statement of the policy and not by the code's list.

### State and steps of `AgentSession`

    agent   Look   Preview   Execute              one command each: Invoke
    client  Invoke  [ProbeSucceeds | ProbeFails | NoCandidate]*  CommandEnds
    request Begin  (Send (Receive | TimeOut | ConnectionFails))+  Ends
    bridge  ServeRefused  ServeRead  ServePreview  ServeBadToken
            ServeLateError  ServeOrder  ServeStrangely   Expire   Restart

`wire` holds the requests that were sent and not served. A client that gives up
leaves its POST there, and the bridge may serve it at any later time; an answer reaches
the client only if it still waits for that attempt. The bridge is `OrderAuthority`
(`Bridge == INSTANCE OrderAuthority`): what `execute` does to a token is one of its actions,
which `ImplementsOrderAuthority` shows `TradingService` to be a refinement of. `ServeLateError`
is an `execute` that fails after the redeem, `ServeOrder` one that reaches
`order_send`, whose reply may be anything. An agent previews, executes with the token
it was given, previews again if that token was rejected and stops on any other
failure: what `exceptions.py:3-5` says the exceptions are for. `Misconfigured` stands for
every command that ends with its line before a request (bad arguments, no key).
Ghosts: `reached`, how many orders for this agent the broker may have got; `vouched`,
the URLs at which the bridge has told the agent's current invocation that its terminal is
connected. A `/health` without a terminal is the answer `down`, also with status 200.

### Abstractions

In `TradingService`, volumes are integers (hundredths of a lot) and prices are
integers finer than the symbol's digits (`grain` says how many of them one digit is), so
the float tolerance of `_assert_volume_valid` is absent; names, comments, reasoning, HTTP and logging are left out; the position
of a partial fill keeps its volume; one kind of failing read (`unavailable`)
stands for every exception a native read raises; for `position_by_ticket` it is
counted as `not_found`.

## 3. The runs

`tlc -workers 2 -config X.cfg M`, with the module in the second column; `trading_core` takes
between two and three minutes, the others less. Deadlock is checked everywhere: a
thread can always be called, and agents that are done stutter.

| Run | Module | Question | Instance |
|---|---|---|---|
| `trading_core` | `MCTradingService` | tokens, guards, the inductive invariant and the refinement of `OrderAuthority`, all at once | 2 threads, 2 tokens, intents that differ in volume (one off the grid), an open position, demo or real, expiry, 1 restart |
| `audit` | `MCTradingService` | the journal, the ceiling, the stops and the inductive invariant | 2 threads, ceiling 1, 2 dates, no tokens required, two quotes with stops that are valid at one and not at the other and levels between the grains, every reply of `order_send`, among them a fill that is not reported, failing reads, 1 restart |
| `cooldown_sequential` | `MCTradingService` | the cooldown, one request at a time | real account, 3 symbols (one not allowed), cooldown 2, every reply, inserts that may fail |
| `terminal` | `MCTerminal` | the session, under every failure of the terminal | 2 threads, 2 attempts per connect, 4 requests or boots, weak fairness |
| `lockout` | `MCApiKey` | the lock-out with requests past the check | 4 threads, 3 failures in 3 seconds lock for 2, restarts, unbounded time |
| `client` | `MCAgentSession` | one agent, its client, the wire and the bridge | 3 tokens, 2 retries, 5 hosts of which one leads to the bridge, discovery through gateway and nameserver |
| `half_open`, `cooldown_race`, `cooldown_skew`, `ceiling_restart`, `audit_verdict`, `lost_answer` | | statements of the documentation that the code does not keep, section 5 | smallest instance that shows it |

Properties:

* `OneOrderPerToken`, `OrderMatchesToken`: a token moves one order, and it is the
  symbol, side, volume and ticket its preview, in the same process, described.
* `OpensAreGuarded`: an opening order is on an allowed symbol and volume, on a
  demo account where required, and holds a quota unit no other order holds. The run has
  one symbol, which is allowed; for others `GuardsHold` is the evidence.
* `DailyCeiling`, `QuotaSpentOnlyOnOrders`: at most `MaxPerDay` orders per process
  on the quota of one date; the count is the orders sent or about to be.
* `BlockedCostsNothing`: the demo block and the cooldown take neither token nor
  quota. `IndInv` contains it, and so covers the demo block in `trading_core`.
* `NoScaleInTooSoon`: live positions of one symbol are a cooldown apart.
* `CooldownWaitBounded`: a call is refused for the cooldown only while a position of its
  symbol is younger than the window, so the wait ends with it.
* `AuditComplete`, `NoPhantomRows`: every order of a living process has its row
  when its caller is answered; every row is true and none is doubled.
* `ImplementsOrderAuthority`: a token is granted once, for one action, then places
  it once or is withdrawn for good. Expiry, mismatch, failure and restart are all
  just withdrawals.
* `StopsGuardEntry`: an opening order leaves with both levels on their side of the price
  it carries, however the market moved since the preview; rounding may make a level
  touch the price and never carries it across.
* `IndInv`, `ScaleInInv`: what the proofs use, see section 4.

Of the session:

* `OneNativeCall`: no two threads are in the native library at once.
* `NoHalfOpenSession`: the connect lock is not let go over a session that was opened and
  not logged in, whichever thread and whichever earlier attempt left it. A native call that
  raises in that very step is excepted, because there the code does leave one (section 5).
* `ConnectedHasSession`: the flag is up only over a session that was logged in,
  whatever late answers of probes are written.
* `SomeoneCanMove`: while anyone has something left to do, some thread waits for no lock:
  the two locks are never held against each other, or left behind by an error path.
* `EveryRequestAnswered`: no thread is stuck on the two locks or in `connect`.
* `HealthyTerminalConnects`: with a terminal that works from then on, a request that
  connects comes to its call with a live session, also where it finds the flag up over
  a session that was lost, or a half-open one. Within the check interval the flag is
  trusted without a look; that it is not trusted over a lost session is the other premise.
* `TerminalInv`: what the proofs use.

Of the lock-out:

* `VerdictPrecedesLock`: during a lock no key is judged, right or wrong, except for a
  request that had passed the check before the lock was set.
* `LateFailuresBounded`: those requests are few: during one lock, however often they set it
  again, fewer wrong keys are judged than there are threads.
* `BurstLocks`: a wrong key sets the lock exactly when it is the `MaxFailures`-th within
  the window since the last good key, restart or such burst.
* `LockoutEnds`: a lock ends although callers keep calling.
* `LockInv`, `BurstInv`: what the proofs use.

Of the client and the bridge together:

* `RefusalIsFinal`: an agent whose line is a refusal (400, 401, 429, 503) has placed no order,
  and no request of it still on the wire can. A 500 and the 502 of `OrderRejected` are no
  refusals in this sense: the broker may have the order.
* `SuccessIsPlaced`: an agent whose line is a success has placed one order, the one it wanted.
* `OneOrderPerIntention`: previewing again after every rejected token, through restarts,
  expiry, lost answers and requests served late, places one order.
* `DiscoveredIsBridge`: a URL that discovery keeps leads to the bridge, and the bridge has
  answered this very invocation that its terminal is connected.
* `EveryCommandEnds`: every command prints its line, with the bridge down for good. The
  timeout of `urlopen` is taken for one of the attempt; it bounds each socket operation, so
  a body that trickles for ever is outside the statement.
* `SessionInv`, `OutcomeInv`: what the proofs use.

Each has at least one mutant in `PROJECT.json` (an operator beside the one it
mutates, marked as such in the module) with which TLC finds it violated.

Why the bounds are enough. The races are between two threads over one token, or
over the last quota unit; `CeilingHolds` and the other theorems cover more threads. With `Ttl` and `Cooldown` of 0, 1 or 2 and clocks of a few
ticks, each comparison is met below, at and above its limit. Two tokens let one
be exchanged for the other. `MaxSent` is above the ceiling, so the ceiling and
not the bound stops the orders; one restart is the smallest number that leaves
something from before. The bounds are `MaxTime`, `MaxDay`, `MaxSent`,
`MaxRestarts`; each is a guard of one action. Symmetry is used for threads and
tokens only, which are never compared or chosen.

In `terminal` one thread connects while the other is anywhere in a request or a
health probe; four requests are a boot and three more, enough for a reconnect under
a waiting call and for a second boot. Two attempts have a first, a repeated and a
last one. Fairness is weak, per thread (`WF_vars(Step(r))`): a thread that can run
does. Python's locks are not fair, so a thread could starve behind an endless stream
of others; `EveryRequestAnswered` is therefore about finitely many requests
(`MaxRequests`). Neither time nor the terminal is fair. No symmetry is used there.

In `lockout` two threads may be past the check when a third sets the lock and the fourth
comes after it; three failures make a first, a middle and a last one, so that a list of
several ages is pruned in the middle, and the window is longer than the lock, so that
failures outlive one. Only `Tick` is fair: time passes.
In `client` two retries give a first, a middle and a last attempt, three tokens a
token, its replacement and one more; the candidates are the two spellings of
localhost, a gateway and a nameserver, each possibly absent or useless. Callers share
nothing but the bridge's tokens; two of them (800 000 states, four minutes) were checked
once with the same result, and the proofs cover any number. Each client is weakly fair
(`WF_vars(RunClient(c))`): a process runs, and a step is always possible because `urlopen` has a
timeout. The wire, the bridge and the agents are not fair.

For the order path no fairness is assumed: its properties are safety properties. The
liveness of the bridge is that of its terminal session and of its lock-out.

## 4. The proofs

`tlapm M.tla` checks the proofs of module `M`. The theorems hold for every set of
threads, tokens and symbols, every ceiling, time-out and price, from the named
assumptions on constants in each module: `None` is not a value, limits are
naturals, the broker's replies are consistent, and (`QuoteAssumption`) the market
quotes a symbol at prices with the symbol's digits. The last is what `digits` means in
`symbol_info`; without it rounding could carry a stop across the entry price. The
invariants named below are also checked by TLC, as properties of the runs; those of the
conditional theorems (`CalendarInv`, `StampsNotAhead`, `CallHasSession`,
`UnavailableInv`) and their hypotheses were checked while the proofs were made, on
instances like those of the runs, which no cfg here repeats.

Several theorems are about claims of the documentation that the code does not keep
(section 5). Each has what is missing as its hypothesis, so that run and
theorem together say where exactly the claim ends:

| Claim, violated in | holds when | by |
|---|---|---|
| `NoScaleInTooSoon`, `cooldown_race` | no two executes of one symbol are between the cooldown check and `order_send` (`OneClearedPerSymbol`), the broker answers and its clock is not behind UTC | `CooldownHolds` |
| `CooldownWaitBounded`, `cooldown_skew` | the broker's clock is not ahead of UTC, now or when it stamped the positions found at boot | `RefusalsAreDue` |
| `CalendarCeiling`, `ceiling_restart` | the process is not restarted and no request takes its unit before midnight and sends after it (`NoStraddle`) | `CalendarHolds`; whatever happens, `CalendarBounded` |
| `NoTicketNothingReachedBroker`, `audit_verdict` | the journal takes every row, the process is not restarted, the terminal reports every fill, and the journal is no longer than the query | `VerdictHolds` |
| `CallsAreLoggedIn`, `half_open` | nobody connects while another thread is in the native call of an operation or, its own connect done, on the way to it (`NoConnectOverCall`), or there is one thread | `CallsGuaranteed`, `CallsGuaranteedAlone` |
| `UnavailableMeansNotReached`, `lost_answer` | no connection is lost between the request for an order and its answer (`AnswersArrive`) | `UnavailableHolds` |

None of these hypotheses is empty: for each, TLC finds behaviours that satisfy it and in
which the property is about something (two positions of a symbol, a full quota, a journal
without a ticket, a native call, an execute that ends with `BridgeUnavailable`).

### The order path

`TradingService_proofs`:

| Theorem | States |
|---|---|
| `TypeCorrect` | `TypeOK`, and `ThreadInv`: a thread's frame fits the path it has come |
| `TokenSpentOnce` | `OneOrderPerToken` |
| `TokenBindsOrder` | `OrderMatchesToken` |
| `CeilingHolds` | `DailyCeiling` |
| `GuardsHold` | `OpensAreGuarded` |

The argument. None of these is inductive alone: an order is right because the
thread that sends it is in the right state, and that state goes back to the
preview. `ThreadInv` says what a frame has passed when it stands at each `pc`.
`TokenInv` follows a token: in the store it is the one minted (`LiveMinted`),
popped it is in one thread only (`HeldMinted`, `OneHolder`), sent it is in neither
(`SentSpent`). `QuotaInv` follows a quota unit: every unit in a thread or an order
has been given out by the limiter's present count or an earlier date or process
(`UnitsGivenOut`), and no unit is in two places (`UnitsDistinct`). The ceiling is
then a pigeon-hole: the orders of one date map one-to-one to slots in
`1..MaxPerDay`. Steps that touch neither tokens nor units are treated once, as
`Quiet` steps; the rest (`IssueToken`, `RedeemPop`, `TakeQuota`, `SendOrder`, the
environment) have a lemma each.

`TradingRefinement_proofs`, where tokens are required (`RequireToken`; without it the
service mints tokens nobody has to present):

| Theorem | States |
|---|---|
| `BridgeImplementsAuthority` | `ImplementsOrderAuthority` |

The mapping computes the status of a token from `minted`, `store`, `sent` and the threads
that hold it, so the proof asks of every step how each status moves. `StatusFrame` covers
the steps that move none. `IssueToken` is a grant, and the sweep it starts with
withdraws several tokens before it, which is why the authority lets one step withdraw
any number. `SendOrder` is the placement, allowed because `TokenInv` makes its thread the
token's only holder and the payload the minted one. `RedeemPop` changes no status when it
finds the entry; whatever answers a call that holds a token withdraws it.

`TradingAccounting_proofs`:

| Theorem | States |
|---|---|
| `BlockedKeepsAll` | `BlockedCostsNothing` |
| `StopsHoldAtEntry` | `StopsGuardEntry` |
| `RowsAreTrue` | `NoPhantomRows` |
| `AuditHolds` | `AuditComplete`, for `JournalEnabled /\ ~JournalMayFail` |
| `QuotaAccounted` | `QuotaSpentOnlyOnOrders` |
| `Invariant` | `IndInv`, the conjunction of all of these |
| `CalendarBounded` | `CalendarBound`, for finitely many threads |
| `CalendarHolds` | `CalendarCeiling` under `[]NoStraddle`, for `MaxRestarts = 0` |
| `VerdictHolds` | `NoTicketNothingReachedBroker`, for at most `DefaultLimit` rows, a full journal, no restart and reported fills |

`PathInv` adds to `ThreadInv` how a call ends: a verdict exists only in an answer, a
blocked call holds nothing, a unit that is not used is right before `SendOrder`, and from
`TakeQuota` on the levels fit the price. `RoundedBelow` is the arithmetic under it: rounding
to the nearest multiple of the grain does not cross a multiple of the grain.
`RecordInv` follows an order into the journal: the thread about to write is the only one
to write about its order (`AboutToRecord`), so no row is doubled; a good reply was a fill
(`SentTrue`). `AuditHolds` has the two hypotheses because `record` swallows a failed
insert and `NullJournal` writes nothing. `SpendInv` counts: orders and threads are finite
sets of unit holders, `TakeQuota` adds a thread to one, `SendOrder` moves it to the other,
and midnight or a restart makes both empty, as `QuotaInv` has no unit of a later date and
`UnitsOfThisBoot` none of another process.

`CalendarBound` is what the limiter makes of the documented ceiling when nothing is assumed:
on one calendar day at most `MaxPerDay` orders for each process and one more for each thread.
`DailyCeiling` counts orders by the date of their unit, this theorem by the day they
leave. An order whose unit is of the day has a place of its own among process and slot; any
other is one whose thread stood between `check_and_increment` and `order_send` at
midnight. `FewStraddle` counts those together with the threads that stand there still
(`LateHolders`): `SendOrder` moves one from the threads to the orders, `TakeQuota` hands
out units of the present day only, and at midnight nothing has left on the new day. TLC
reaches the bound without a restart (two threads, ceiling 2: four orders on the second day),
so it cannot be improved.

`VerdictHolds` reads the journal as `verify_trades.py` does. Nothing waits to be recorded, so by
`AuditComplete` every order of the process has its row; by `NoPhantomRows` the row says what
`order_send` said; by `FillsReported` that is `done`, with a ticket, for every fill; and the
query misses no row while there are no more than its limit.

`TradingCooldown_proofs`, for a broker that answers (`~TerminalMayFail`) and whose clock is
not behind UTC (`BrokerOffset >= 0`):

| Theorem | States |
|---|---|
| `ScaleInHolds` | `ScaleInInv` under `[]OneClearedPerSymbol` |
| `CooldownHolds` | `NoScaleInTooSoon` under `[]OneClearedPerSymbol` |
| `CooldownHoldsInTurn` | `ScaleInInv` and `NoScaleInTooSoon` with one request at a time |
| `RefusalsAreDue` | `CooldownWaitBounded`, for `BrokerOffset <= 0` instead, and a broker that may fail |

`NoScaleInTooSoon` is false of the code (`cooldown_race`, section 5). The first theorem
says what is missing and nothing more: no two executes of one symbol between the cooldown
check and `order_send` at once. Previews, closes, executes of other symbols, restarts, and
executes of the same symbol that are before the check may interleave as they like, and
tokens may be required or not. The hypotheses on the broker are needed as well: `positions()`
turns a failed read into no exposure, and a clock behind UTC ages positions early.

`RefusalsAreDue` is the other half of the guard, that it refuses nobody without need, and
wants the opposite of the clock: with a stamp ahead of UTC the clamp holds the age at 0. It
asks nothing of the threads or of the terminal, because a refusal is decided in the step
that has read the positions, and a failed read refuses nobody. `StampsNotAhead` carries it.
With `BrokerOffset = 0` both halves hold.

### The terminal session

`Terminal_proofs`, for every set of threads and number of attempts:

| Theorem | States |
|---|---|
| `TypesHold` | `TerminalTypeOK` |
| `SessionState` | `TerminalInv` |
| `NativeCallsExclude` | `OneNativeCall` |
| `NothingHalfOpen` | `NoHalfOpenSession` |
| `FlagIsTrue` | `ConnectedHasSession` |
| `NobodyDeadlocks` | `SomeoneCanMove` |
| `CallsGuaranteed` | `CallsAreLoggedIn` under `[]NoConnectOverCall` |
| `CallsGuaranteedAlone` | `CallsAreLoggedIn` for one thread |

`ConnectedHasSession` is not inductive: it depends on one thread only connecting at a
time. `LocksHeld` ties each label to the lock it needs; `ConnectingIsDown` says the flag is
down during a connect, so nobody trusts the session while it is made, and an attempt that
raises leaves the flag down too; `SessionMade` says that a session which was made, or found
and looked at, under the connect lock is there while the lock is held. With them each step
is checked by itself. Nothing is said of a half-open session here: one that an attempt has
left by raising may lie there, unlocked, until the next connect.

`NothingHalfOpen` is a theorem about steps. The lock is let go by `Alive` and `Joined`, where
`SessionMade` gives the session, by `Teardown`, which has closed what there was, and by the
two steps that raise, which `LocksHeld` shows to be the holder's own.

`NobodyDeadlocks` follows from `LocksHeld` alone: whoever has the call lock is in a native
call, which waits for nobody; if nobody has it, the holder of the connect lock may go
on, as all it can want is the call lock; and if both are free, anyone may. So the order of
the locks is the same everywhere, and no error path leaves with one. That every thread in
fact gets its turn is `EveryRequestAnswered`, which needs fairness and stays with TLC.

`CallsGuaranteed` says what `_session` lacks: the check of the connection and the native call
are under two locks, and the session of the check is still there at the call if nobody
connects in between. `CallHasSession` follows it from the end of the connect to the call.

### The lock-out

`ApiKey_proofs`, for every finite set of threads and every limit:

| Theorem | States |
|---|---|
| `TypeCorrect` | `TypeOK` |
| `BurstHolds` | `BurstInv` |
| `BurstsLock` | `BurstLocks` |
| `LockHolds` | `LockInv` |
| `FewLateFailures` | `LateFailuresBounded` |
| `OthersAreRefused` | `VerdictPrecedesLock` |

`LateFailuresBounded` is a count of threads and needs to know where they are: `LockInv` says
that whoever is past the check during a lock is in `overtaken`, so a wrong key judged then
takes its thread out of that set, and the sum of both never grows. `OthersAreRefused`
is the same fact read over one step.

`BurstsLock` compares the list of the code, pruned only when a failure is recorded, with the
list the policy speaks of, pruned at every instant. `BurstInv` says that pruning the first
gives the second (`PruneEarlierOrLater`: pruning now and after the next second is pruning
after it). That needs the list in order of its times, where the ages that no longer count
are a prefix; `Young` is therefore written as dropping that prefix, which equals the
comprehension at `guards.py:225` on such lists, and `BurstInv` shows the list is one.

### Client, wire and bridge

`AgentSession_proofs`, for every number of callers, tokens, URLs and retries:

| Theorem | States |
|---|---|
| `SessionHolds` | `SessionInv` |
| `RefusalHolds` | `RefusalIsFinal` |
| `OneOrderHolds` | `OneOrderPerIntention` |

The invariant follows the one request for an order that a caller can have out
(`MessagesFit`): until it is sent nothing can come of the order (`Fresh`), while the caller waits
for it the message is on the wire or answered, and an answer that refuses leaves nothing
behind (`ReachedFits`). That a POST has one attempt is used in one place: the retry of
`Receive` and `ConnectionFails` is a read's, so `TryAgain` never meets an execute.

`AgentOutcome_proofs` adds what is known of good answers:

| Theorem | States |
|---|---|
| `OutcomeHolds` | `OutcomeInv` |
| `TypesHold` | `TypeOK` |
| `SuccessHolds` | `SuccessIsPlaced` |
| `DiscoveryHolds` | `DiscoveredIsBridge` |
| `UnavailableHolds` | `UnavailableMeansNotReached` under `AnswersArrive` |

`SuccessIsPlaced` looks at the line only, which comes three steps after the bridge has placed
the order. `OutcomeInv` says the same of each place the good answer passes: the answer the
client waits for, the result of the call, the line; of a probe it says that the bridge has
spoken for its terminal, which `DiscoveryHolds` needs when the URL is kept; and it follows the token from the preview
to the message, so that what the bridge places is what the agent wanted.

`UnavailableHolds` has a hypothesis on steps: no `TimeOut` and no `ConnectionFails` of a caller
that waits for the answer to an execute. All other failures are allowed: of discovery, of reads,
of previews, and of an execute whose request never left. `UnavailableInv` then has no order
behind the result or the line, because `BridgeUnavailable` is never read from an answer.

### What stays model-checked

The four liveness properties, as fairness and `ENABLED` are beyond the prover:
`EveryRequestAnswered`, `HealthyTerminalConnects`, `LockoutEnds`, `EveryCommandEnds`. Every
other property of a passing run is a theorem, and so is, under what it lacks, every
property of the runs of section 5, which are false of the code as it stands.
`AuditComplete`, `ImplementsOrderAuthority`, `NoScaleInTooSoon`, `ScaleInInv` and
`CooldownWaitBounded` have the hypotheses given above. That the hypotheses can be met, and
that the bounds in the conclusions are reached, is TLC's to say as well.

## 5. Where the code and its documentation differ

* `cooldown_race`: the positions are read at `trading.py:213` and the order is sent
  at `:236`; two executes on a live account overlap and both open. README.md:187
  says the second is blocked. One request at a time, `cooldown_sequential` shows it
  is. The same property also fails, for a single caller, when `positions_get`
  fails, because `positions()` returns an empty list (`terminal.py:332`).
* `cooldown_skew`: broker time ahead of UTC keeps the age clamped at 0, so the wait
  does exceed the window the comment at `guards.py:163-165` promises as a bound.
* `ceiling_restart`: the count starts at 0 in every process, so a restart allows
  another quota on the same date (`.env.example:51-52`). The unit of a date may
  also be spent just after midnight, on the next one. `CalendarBounded` says how many orders a
  day can see at most.
* `audit_verdict`: `send_order` raises on `None` and on every code but `DONE`, and
  the row has no ticket even if the broker filled the order; `verify_trades.py:79-81`
  then reports that nothing reached MT5.
* `half_open`: `_session` (`terminal.py:218-222`) connects under one lock and calls
  under another. In between, another thread can find the terminal dead, initialize
  it and fail to log in, and the native call runs in that half-open session;
  `terminal.py:219` says it "guarantees a live connection".
* `lost_answer`: a timeout, or a reset while a POST waits for its answer, raises
  `BridgeUnavailable` (`transport.py:99`, `:125`) although the bridge may have placed the order;
  `exceptions.py:16` says the bridge "is unreachable: not started, wrong URL, or firewall".
  An agent may retry only what `RefusalIsFinal` covers.

Met while modelling, without a run of their own:

* `terminal.py:194-196` says failed attempts are torn down so that they "do not leak IPC
  connections into the terminal". An `initialize` or `login` that raises (`:172-178`) skips
  the teardown and leaves what it opened, with both locks free; a teardown that raises
  leaves it too. The next connect takes over: the flag is down.
* A token does not bind the stop loss and take profit (`trading.py:218-223`);
  `client.py:166` says "describing this exact order". The levels of the execute are
  checked again, never compared with the preview's.
* A level within half a grain of the entry passes the check and is rounded onto the entry
  (`trading.py:301`); `exceptions.py:36-41` of the bridge says wrong-side stops are caught
  locally. `StopsGuardEntry` therefore says `<=`.
* `transport.py:118` says callers "should only ever see bridge exceptions"; a body that breaks
  off or is no JSON raises another, which `main` prints as "unexpected error" with no
  status. After an execute that says nothing about the order.
* `mt5_cli.py:178` says of `health` "No auth needed."; its router requires the key
  (`api/health.py:22`), and a wrong one counts as a failure.

A crash between `order_send` and the insert leaves the order out of the journal;
`AuditComplete` excepts it by name.

## 6. The plan

Done: the order path, its guards, journal and account; abstract authority; the
terminal session; authentication and lock-out; the client, composed with the
bridge over a lossy wire; a theorem for every safety property of the passing runs, and for
every claim of section 5 a theorem that says when it holds. Left:

1. Theorems about several components at once: that the bridge `AgentSession` assumes is the
   one `BridgeImplementsAuthority` provides, stated over one composed module.
2. `TradingService` over `Terminal`: the reads and the `order_send` of the one as sessions of
   the other, in place of the failures `Broker` chooses.

### Not modelled

* The filling mode of an order and its other constants (`deviation`, `magic`, the comment):
  they are passed on and nothing depends on them.
* The validation of single fields of a request: a refusal (422) like any other.
* What the market-data and account endpoints return: pure reads. Their sessions are in
  `Terminal`, their requests in `AgentSession`.
* Application wiring and settings: construction only; the settings are the constants.
* The installers and launchers: one-shot scripts that leave no state the bridge reads.
* `example_usage.py`, the texts of the lines and of the audit report, headers, logging
  and the bytes of the key comparison.
