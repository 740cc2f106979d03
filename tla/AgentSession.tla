----------------------------- MODULE AgentSession -----------------------------
(* Agents that place one order each through the client and the bridge, over  *)
(* a network that loses and delays.  What the bridge does with tokens and    *)
(* orders is OrderAuthority, which TradingService implements.  An agent does *)
(* what the client's exceptions are for (exceptions.py:3-5): it previews,    *)
(* executes with the token it was given and, told that the token was         *)
(* rejected, previews again; on any other failure it stops.                  *)
EXTENDS BridgeClient, FiniteSets

CONSTANTS
    BridgeUrl,  \* the URLs that lead to the bridge; others to something else
    Want        \* the action each caller has in mind

ASSUME SessionAssumption ==
    /\ BridgeUrl \subseteq Url
    /\ Want \in [Caller -> Action]

VARIABLES
    status, authorised, placed, \* the bridge
    goal,                       \* what each agent is about to do
    token,                      \* the token it has been given
    reached,                    \* ghost: orders for it the broker may have got
    vouched                     \* ghost: URLs where the bridge has told its current
                                \* invocation that its terminal is connected

Bridge == INSTANCE OrderAuthority

bridgeVars == <<status, authorised, placed>>
ghosts == <<reached, vouched>>
agentVars == <<goal, token, ghosts>>
vars == <<transportVars, clientVars, bridgeVars, agentVars>>

Goal == {"look", "preview", "execute", "done"}

AgentsTypeOK ==
    /\ ClientTypeOK
    /\ goal \in [Caller -> Goal]
    /\ token \in [Caller -> Token \cup {None}]
    /\ reached \in [Caller -> Nat]
    /\ vouched \in [Caller -> SUBSET Url]

TypeOK == AgentsTypeOK /\ Bridge!AuthorityTypeOK

Init ==
    /\ ClientInit
    /\ Bridge!Init
    /\ goal = [c \in Caller |-> "look"]
    /\ token = [c \in Caller |-> None]
    /\ reached = [c \in Caller |-> 0]
    /\ vouched = [c \in Caller |-> {}]
-----------------------------------------------------------------------------
(* The bridge, serving a request that has come to one of its URLs            *)

\* Refused before anything changes: key, lock-out, validation, the terminal.
EarlyError == {"HTTPException", "BadRequest", "TerminalConnectionError", "Exception"}

ServeRefused(m) ==
    /\ m.url \in BridgeUrl
    /\ \E error \in EarlyError : Answers(m, error, None)
    /\ UNCHANGED <<bridgeVars, ghosts>>

ServeRead(m) ==
    /\ m.url \in BridgeUrl
    /\ IsGet(m.call)
    /\ \/ /\ m.call = Health
          /\ Answers(m, "down", None)
          /\ UNCHANGED vouched
       \/ /\ Answers(m, "ok", None)
          /\ vouched' = IF m.call = Health
                        THEN [vouched EXCEPT ![m.from] = @ \cup {m.url}]
                        ELSE vouched
    /\ UNCHANGED <<bridgeVars, reached>>

ServePreview(m) ==
    /\ m.url \in BridgeUrl
    /\ m.call.op = "preview"
    /\ \E t \in Token :
         /\ authorised' = [authorised EXCEPT ![t] = m.call.action]
         /\ Bridge!Grant(t)
         /\ Answers(m, "ok", t)
    /\ UNCHANGED ghosts

\* The token is gone, has run out or is another action's; redeem spends it.
ServeBadToken(m) ==
    /\ m.url \in BridgeUrl
    /\ m.call.op = "execute"
    /\ IF status[m.call.token] = "live"
       THEN Bridge!Withdraw /\ status'[m.call.token] = "withdrawn"
       ELSE UNCHANGED bridgeVars
    /\ Answers(m, "ConfirmTokenInvalid", None)
    /\ UNCHANGED ghosts

Redeemed(m) ==
    /\ m.call.op = "execute"
    /\ status[m.call.token] = "live"
    /\ authorised[m.call.token] = m.call.action

\* The token is good, and a later guard or the terminal refuses.
ServeLateError(m) ==
    /\ m.url \in BridgeUrl
    /\ Redeemed(m)
    /\ Bridge!Withdraw
    /\ status'[m.call.token] = "withdrawn"
    /\ \E error \in EarlyError \cup {"DailyLimitReached"} : Answers(m, error, None)
    /\ UNCHANGED ghosts

\* The order goes to the terminal.  Only a session that fails first keeps it
\* from the broker, whatever order_send says of it.
ServeOrder(m) ==
    /\ m.url \in BridgeUrl
    /\ Redeemed(m)
    /\ Bridge!Place(m.call.token)
    /\ UNCHANGED vouched
    /\ \/ /\ \E name \in {"TerminalConnectionError", "Exception"} : Answers(m, name, None)
          /\ UNCHANGED reached
       \/ /\ \E name \in {"ok", "OrderRejected", "Exception"} : Answers(m, name, None)
          /\ reached' = [reached EXCEPT ![m.from] = @ + 1]

\* Something else listens at the URL, and answers in its own way.
ServeStrangely(m) ==
    /\ m.url \notin BridgeUrl
    /\ \E name \in {"strange", "BadRequest", "TerminalConnectionError"} :
         Answers(m, name, None)
    /\ UNCHANGED <<bridgeVars, ghosts>>

Serve(m) ==
    /\ \/ ServeRefused(m) \/ ServeRead(m) \/ ServePreview(m) \/ ServeBadToken(m)
       \/ ServeLateError(m) \/ ServeOrder(m) \/ ServeStrangely(m)
    /\ UNCHANGED <<clientVars, goal, token>>

\* Tokens run out.
Expire ==
    /\ Bridge!Withdraw
    /\ UNCHANGED <<transportVars, clientVars, agentVars>>

\* The process dies with its tokens and with the requests on their way to it.
Restart ==
    /\ Bridge!Withdraw
    /\ \A t \in Token : status'[t] # "live"
    /\ wire' = {m \in wire : m.url \notin BridgeUrl}
    /\ UNCHANGED <<phase, target, attempt, answer, result, clientVars, agentVars>>
-----------------------------------------------------------------------------
(* The agents                                                                *)

\* A process of its own for each call; nothing is kept from the one before.
Starts(c, call) ==
    /\ Invoke(c, call)
    /\ vouched' = [vouched EXCEPT ![c] = {}]
    /\ UNCHANGED <<bridgeVars, goal, token, reached>>

Look(c) ==
    /\ goal[c] = "look"
    /\ Starts(c, [op |-> "read", token |-> None, action |-> None])

Preview(c) ==
    /\ goal[c] = "preview"
    /\ Starts(c, [op |-> "preview", token |-> None, action |-> Want[c]])

\* After a human has approved.
Execute(c) ==
    /\ goal[c] = "execute"
    /\ Starts(c, [op |-> "execute", token |-> token[c], action |-> Want[c]])

\* The client runs; when it prints, the agent reads the line.
NextGoal(g, line) ==
    IF g = "look" \/ (g = "execute" /\ line.type = "ConfirmTokenRejected") THEN "preview"
    ELSE IF g = "preview" /\ line.token # None THEN "execute"
    ELSE "done"

RunClient(c) ==
    /\ ClientSteps(c)
    /\ IF command'[c] = None
       THEN /\ goal' = [goal EXCEPT ![c] = NextGoal(@, printed'[c])]
            /\ token' = [token EXCEPT ![c] = printed'[c].token]
       ELSE UNCHANGED <<goal, token>>
    /\ UNCHANGED <<bridgeVars, ghosts>>

Finished ==
    /\ \A c \in Caller : goal[c] = "done"
    /\ UNCHANGED vars

Next ==
    \/ \E c \in Caller : Look(c) \/ Preview(c) \/ Execute(c) \/ RunClient(c)
    \/ \E m \in wire : Serve(m)
    \/ Expire
    \/ Restart
    \/ Finished

\* A client process that can take a step takes it: a timeout always can.
Fairness == \A c \in Caller : WF_vars(RunClient(c))

Spec == Init /\ [][Next]_vars /\ Fairness
-----------------------------------------------------------------------------
(* Lines that say the bridge has refused, by status.  500 and the 502 of a   *)
(* broker that refused leave open what became of the order.                  *)
IsRefusal(line) == line.status \in {400, 401, 429, 503}

\* A request for an order that has not been served, and may be yet.
OnItsWay(c) == \E m \in wire : m.from = c /\ m.call.op = "execute"

(* A caller that is told its order was refused has placed none, and none of  *)
(* its requests can still place one (transport.py:3-5: an /order/execute is  *)
(* never retried; a retry of an order whose answer was lost would be refused *)
(* for its spent token).                                                     *)
RefusalIsFinal ==
    \A c \in Caller :
        goal[c] # "look" /\ printed[c] # None /\ IsRefusal(printed[c]) =>
            reached[c] = 0 /\ ~OnItsWay(c)

(* A caller that is told its order went through has placed it, as it wanted  *)
(* it, and only once.                                                        *)
SuccessIsPlaced ==
    \A c \in Caller :
        goal[c] = "done" /\ printed[c].type = "ok" =>
            /\ reached[c] = 1
            /\ \E i \in DOMAIN placed : placed[i].action = Want[c]

(* An agent that previews again whenever its token is rejected, through      *)
(* restarts, expiry, lost answers and requests served late, still places one *)
(* order for one intention (exceptions.py:3-5: "re-preview and ask the human *)
(* again").                                                                  *)
OneOrderPerIntention == \A c \in Caller : reached[c] <= 1

(* autodiscover keeps a URL only if the bridge is there and has answered     *)
(* this invocation that its terminal is connected (client.py:61, models.py:  *)
(* 35), so no discovered command goes to something else on the port, nor to  *)
(* a bridge that was only ever heard of without its terminal.                *)
DiscoveredIsBridge ==
    \A c \in Caller : found[c] # None => found[c] \in BridgeUrl \cap vouched[c]

(* Whatever is lost on the way, and with the bridge down for good, every     *)
(* invocation of the client prints its line and ends.                        *)
EveryCommandEnds == \A c \in Caller : command[c] # None ~> command[c] = None

-----------------------------------------------------------------------------
(* What the proofs of RefusalIsFinal and OneOrderPerIntention use            *)

\* Nothing of c's order has left the client, or nothing can come of it.
Fresh(c) == reached[c] = 0 /\ ~OnItsWay(c)

\* The request for the order has been sent.
Underway(c) ==
    /\ goal[c] = "execute"
    /\ phase[c] \in {"waiting", "ended"}
    /\ target[c].call.op = "execute"

\* An answer that leaves no doubt.
Refuses(a) == IsError(a) /\ StatusOf(a.name) \in {400, 401, 429, 503}

\* What c calls is what its goal asks for.
CallsFit(c) ==
    /\ phase[c] = "idle" <=> command[c] = None
    /\ phase[c] = "ended" => result[c] # None
    /\ phase[c] # "idle" =>
         /\ target[c] # None
         /\ goal[c] # "done"
         /\ target[c].call \in {Health, command[c]}
         /\ goal[c] = "execute" <=> command[c].op = "execute"
         /\ printed[c] = None

\* At most one request for the order is on the wire, the one c waits for if it
\* waits for one.
MessagesFit(c) ==
    \A m \in wire : m.from = c /\ m.call.op = "execute" =>
        /\ \A n \in wire : n.from = c /\ n.call.op = "execute" => n = m
        /\ Underway(c) /\ phase[c] = "waiting" =>
             /\ [url |-> m.url, call |-> m.call] = target[c]
             /\ m.attempt = attempt[c]
             /\ answer[c] = None

ReachedFits(c) ==
    /\ reached[c] \in {0, 1}
    /\ OnItsWay(c) => reached[c] = 0
    /\ goal[c] # "done" /\ ~Underway(c) => Fresh(c)
    /\ phase[c] # "waiting" => answer[c] = None
    /\ /\ Underway(c) /\ phase[c] = "waiting"
       /\ answer[c] = None \/ Refuses(answer[c])
       => reached[c] = 0
    /\ /\ Underway(c) /\ phase[c] = "ended"
       /\ IsRefusal(result[c]) \/ result[c].type = "ConfirmTokenRejected"
       => Fresh(c)
    /\ goal[c] = "done" /\ IsRefusal(printed[c]) => Fresh(c)

Fits(c) == CallsFit(c) /\ MessagesFit(c) /\ ReachedFits(c)

SessionInv == AgentsTypeOK /\ \A c \in Caller : Fits(c)

\* The order of c has reached the broker, as c wanted it.
PlacedFor(c) ==
    /\ reached[c] = 1
    /\ \E i \in DOMAIN placed : placed[i].action = Want[c]

\* A good answer to the request of c comes from the bridge, and brings what the
\* request was for.
GoodAnswer(c, t) ==
    /\ target[c].url \in BridgeUrl
    /\ target[c].call = Health => target[c].url \in vouched[c]
    /\ target[c].call.op = "preview" => t # None
    /\ target[c].call.op = "execute" => PlacedFor(c)

\* c asks for its order with a token it was given, and is told the truth.
OutcomeFits(c) ==
    /\ found[c] # None => found[c] \in BridgeUrl \cap vouched[c]
    /\ goal[c] = "execute" => token[c] # None
    /\ command[c] # None => (goal[c] = "preview" <=> command[c].op = "preview")
    /\ command[c] # None /\ command[c].op = "execute" =>
         command[c].token # None /\ command[c].action = Want[c]
    /\ \A m \in wire : m.from = c /\ m.call.op = "execute" =>
         m.call.token # None /\ m.call.action = Want[c]
    /\ answer[c] # None /\ answer[c].name = "ok" => GoodAnswer(c, answer[c].token)
    /\ result[c] # None /\ result[c].type = "ok" => GoodAnswer(c, result[c].token)
    /\ goal[c] = "done" /\ printed[c].type = "ok" => PlacedFor(c)

(* Whatever a client has been answered, returns or prints as good is backed  *)
(* by the bridge: its URL leads there, a probe was answered with a terminal, *)
(* a preview brings a token, and an execute has placed the order its caller  *)
(* wanted (client.py, mt5_cli.py).                                           *)
(* The proofs of SuccessIsPlaced and DiscoveredIsBridge rest on it.          *)
OutcomeInv ==
    /\ Bridge!AuthorityTypeOK
    /\ \A t \in Token : status[t] # "unused" => authorised[t] \in Action
    /\ \A c \in Caller : OutcomeFits(c)
-----------------------------------------------------------------------------
(* exceptions.py:15-16: BridgeUnavailable means "The bridge is unreachable:  *)
(* not started, wrong URL, or firewall."                                     *)
UnavailableMeansNotReached ==
    \A c \in Caller :
        printed[c] # None /\ printed[c].type = "BridgeUnavailable" => reached[c] = 0

\* Once the request for an order is written, its connection holds until the answer is
\* there.  Nothing in the code or the network sees to it.
AnswersArrive ==
    [][\A c \in Caller :
         phase[c] = "waiting" /\ target[c].call.op = "execute" =>
            ~TimeOut(c) /\ ~ConnectionFails(c)]_vars

\* A caller that is told, or about to be, that the bridge is unreachable has no order
\* there and none on its way.
UnavailableInv ==
    \A c \in Caller :
        \/ phase[c] = "ended" /\ result[c].type = "BridgeUnavailable"
        \/ printed[c] # None /\ printed[c].type = "BridgeUnavailable"
        => Fresh(c)
=============================================================================
