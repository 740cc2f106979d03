------------------------- MODULE AgentOutcome_proofs -------------------------
(* Proofs that a caller who is told of success has had it, and that          *)
(* discovery finds the bridge or nothing.  OutcomeInv, with SessionInv, is   *)
(* inductive: a good answer is given by the bridge only, to the request that *)
(* waits for it, and when it is about an order that order has been placed.   *)
EXTENDS AgentSession_proofs, SequenceTheorems

\* What the bridge keeps of its tokens.
BridgeInv ==
    /\ Bridge!AuthorityTypeOK
    /\ \A t \in Token : status[t] # "unused" => authorised[t] \in Action

\* What was placed stays placed.
LEMMA PlacedStays ==
    ASSUME NEW c \in Caller, reached' = reached, placed' = placed
    PROVE  /\ PlacedFor(c) <=> PlacedFor(c)'
           /\ target'[c] = target[c] /\ vouched'[c] = vouched[c] =>
                \A t : GoodAnswer(c, t) <=> GoodAnswer(c, t)'
BY DEF PlacedFor, GoodAnswer

\* A caller whose request and goal do not change.
LEMMA OutcomeFrame ==
    ASSUME NEW c \in Caller, OutcomeFits(c), PlacedFor(c) => PlacedFor(c)',
           target'[c] = target[c], answer'[c] = answer[c], result'[c] = result[c],
           command'[c] = command[c], found'[c] = found[c], printed'[c] = printed[c],
           goal'[c] = goal[c], token'[c] = token[c],
           vouched[c] \subseteq vouched'[c],
           \A m \in wire' : m.from = c /\ m.call.op = "execute" => m \in wire
    PROVE  OutcomeFits(c)'
BY DEF OutcomeFits, GoodAnswer
-----------------------------------------------------------------------------
(* The steps of a request                                                    *)

\* What the client reads in an answer is good only if the answer was.
LEMMA ReadIsTrue ==
    ASSUME NEW a \in Answer, Read(a).type = "ok"
    PROVE  a.name = "ok" /\ Read(a).token = a.token
BY DEF Read, Answer, IsError, NoToken, ClientError, StatusOf, BridgeError

LEMMA EndOutcome ==
    ASSUME SessionInv, NEW c \in Caller, OutcomeFits(c), NEW o, Ends(c, o),
           o.type = "ok" => GoodAnswer(c, o.token),
           UNCHANGED <<clientVars, goal, token, placed, reached, vouched>>
    PROVE  OutcomeFits(c)'
<1> USE DEF SessionInv, AgentsTypeOK, ClientTypeOK, TransportTypeOK, clientVars
<1>1. /\ target'[c] = target[c] /\ answer'[c] = None /\ result'[c] = o
      /\ command'[c] = command[c] /\ found'[c] = found[c]
      /\ printed'[c] = printed[c] /\ wire' \subseteq wire
  BY DEF Ends, HangUp
<1>2. PlacedFor(c) <=> PlacedFor(c)'
  BY PlacedStays
<1>3. o.type = "ok" => GoodAnswer(c, o.token)'
  BY <1>1, <1>2 DEF GoodAnswer
<1> QED
  BY <1>1, <1>2, <1>3 DEF OutcomeFits

LEMMA RequestOutcome ==
    ASSUME SessionInv, NEW c \in Caller, \A d \in Caller : OutcomeFits(d),
           RequestSteps(c),
           UNCHANGED <<clientVars, goal, token, placed, reached, vouched>>,
           NEW d \in Caller
    PROVE  OutcomeFits(d)'
<1> USE DEF SessionInv, AgentsTypeOK, ClientTypeOK, TransportTypeOK, clientVars
<1>1. CASE Send(c)
  <2> DEFINE new == [from |-> c, url |-> target[c].url, call |-> target[c].call,
                     attempt |-> attempt[c]]
  <2>1. new.call.op = "execute" => new.call.token # None /\ new.call.action = Want[c]
    BY <1>1, HealthCall DEF Send, Fits, CallsFit, OutcomeFits
  <2>2. CASE d # c
    <3>1. /\ wire' = wire \cup {new} /\ new.from = c
          /\ UNCHANGED <<target, answer, result>>
      BY <1>1 DEF Send
    <3> HIDE DEF new
    <3>2. \A m \in wire' : m.from = d => m \in wire
      BY <2>2, <3>1
    <3> QED
      BY <2>2, <3>1, <3>2, PlacedStays, OutcomeFrame
  <2>3. CASE d = c
    <3>1. /\ wire' = wire \cup {new}
          /\ UNCHANGED <<target, answer, result>>
      BY <1>1 DEF Send
    <3> HIDE DEF new
    <3> QED
      BY <2>1, <2>3, <3>1, PlacedStays DEF OutcomeFits, GoodAnswer
  <2> QED
    BY <2>2, <2>3
<1>2. CASE TryAgain(c) /\ phase[c] # "idle"
  <2>1. CASE d # c
    BY <1>2, <2>1, PlacedStays, OutcomeFrame DEF TryAgain, HangUp
  <2>2. CASE d = c
    <3>1. answer'[c] = None /\ target' = target /\ result' = result /\ wire' \subseteq wire
      BY <1>2 DEF TryAgain, HangUp
    <3> QED
      BY <2>2, <3>1, PlacedStays DEF OutcomeFits, GoodAnswer
  <2> QED
    BY <2>1, <2>2
<1>3. ASSUME NEW o, Ends(c, o), o.type = "ok" => GoodAnswer(c, o.token)
      PROVE  OutcomeFits(d)'
  <2>1. CASE d # c
    BY <1>3, <2>1, PlacedStays, OutcomeFrame DEF Ends, HangUp
  <2>2. CASE d = c
    BY <1>3, <2>2, EndOutcome
  <2> QED
    BY <2>1, <2>2
<1>4. \A type \in {"unexpected", "BridgeUnavailable"} : NoToken(type, 0).type # "ok"
  BY DEF NoToken
<1>5. CASE Receive(c)
  <2>1. answer[c] \in Answer /\ phase[c] # "idle"
    BY <1>5 DEF Receive
  <2>2. ASSUME Read(answer[c]).type = "ok"
        PROVE  GoodAnswer(c, Read(answer[c]).token)
    BY <1>5, <2>1, <2>2, ReadIsTrue DEF Receive, OutcomeFits
  <2> QED
    BY <1>2, <1>3, <1>4, <1>5, <2>1, <2>2 DEF Receive
<1>6. CASE TimeOut(c) \/ ConnectionFails(c)
  BY <1>2, <1>3, <1>4, <1>6 DEF TimeOut, ConnectionFails
<1> QED
  BY <1>1, <1>5, <1>6 DEF RequestSteps
-----------------------------------------------------------------------------
(* The client and its agent                                                  *)

LEMMA InvokeOutcome ==
    ASSUME SessionInv, NEW c \in Caller, \A d \in Caller : OutcomeFits(d),
           NEW call \in Call, Invoke(c, call), goal[c] # "done",
           goal[c] = "preview" <=> call.op = "preview",
           call.op = "execute" => call.token # None /\ call.action = Want[c],
           UNCHANGED <<goal, token, reached, placed>>,
           vouched' = [vouched EXCEPT ![c] = {}], NEW d \in Caller
    PROVE  OutcomeFits(d)'
<1> USE DEF SessionInv, AgentsTypeOK, ClientTypeOK, TransportTypeOK
<1>1. /\ UNCHANGED <<answer, wire>>
      /\ command'[c] = call /\ found'[c] = None /\ printed'[c] = None
      /\ result'[c] = None \/ result'[c].type = "unexpected"
      /\ \A e \in Caller \ {c} :
            /\ target'[e] = target[e] /\ result'[e] = result[e]
            /\ command'[e] = command[e] /\ found'[e] = found[e]
            /\ printed'[e] = printed[e] /\ vouched'[e] = vouched[e]
  <2>1. CASE Misconfigured(c, call)
    BY <2>1 DEF Invoke, Misconfigured, NoToken
  <2>2. CASE \E url \in Configured : Begin(c, url, call) /\ UNCHANGED todo
    BY <2>2 DEF Invoke, Begin
  <2>3. CASE Discover(c)
    BY <2>3 DEF Invoke, Discover, Begin
  <2> QED
    BY <2>1, <2>2, <2>3 DEF Invoke
<1>2. CASE d # c
  BY <1>1, <1>2, PlacedStays, OutcomeFrame
<1>3. CASE d = c
  <2>1. answer[c] = None
    BY DEF Invoke, Fits, CallsFit, ReachedFits
  <2> QED
    BY <1>1, <1>3, <2>1 DEF OutcomeFits
<1> QED
  BY <1>2, <1>3

\* A candidate that is kept has given a good answer.
LEMMA ProbeOutcome ==
    ASSUME SessionInv, NEW c \in Caller, \A d \in Caller : OutcomeFits(d),
           ProbeSucceeds(c) \/ ProbeFails(c),
           UNCHANGED <<goal, token, placed, reached, vouched>>, NEW d \in Caller
    PROVE  OutcomeFits(d)'
<1> USE DEF SessionInv, AgentsTypeOK, ClientTypeOK, TransportTypeOK
<1>1. /\ UNCHANGED <<answer, wire, command, printed>>
      /\ result'[c] = None
      /\ found'[c] = found[c] \/ (IsReady(result[c]) /\ found'[c] = target[c].url)
      /\ \A e \in Caller \ {c} :
            target'[e] = target[e] /\ result'[e] = result[e] /\ found'[e] = found[e]
  BY DEF ProbeSucceeds, ProbeFails, Begin
<1>2. CASE d # c
  BY <1>1, <1>2, PlacedStays, OutcomeFrame
<1>3. CASE d = c
  <2>1. answer[c] = None /\ result[c] # None /\ goal[c] # "done"
    BY DEF ProbeSucceeds, ProbeFails, Probing, Fits, CallsFit, ReachedFits
  <2>2. CASE found'[c] = found[c]
    BY <1>1, <1>3, <2>1, <2>2 DEF OutcomeFits, ghosts
  <2>3. CASE IsReady(result[c]) /\ found'[c] = target[c].url
    <3>1. target[c].call = Health
      BY DEF ProbeSucceeds, ProbeFails, Probing
    <3>2. found'[c] \in BridgeUrl \cap vouched'[c]
      BY <2>1, <2>3, <3>1 DEF IsReady, OutcomeFits, GoodAnswer, ghosts
    <3> QED
      BY <1>1, <1>3, <2>1, <3>2 DEF OutcomeFits
  <2> QED
    BY <1>1, <2>2, <2>3
<1> QED
  BY <1>2, <1>3

\* An agent is done with success only if its order has been placed.
LEMMA PrintOutcome ==
    ASSUME SessionInv, NEW c \in Caller, \A d \in Caller : OutcomeFits(d),
           NoCandidate(c) \/ CommandEnds(c),
           goal' = [goal EXCEPT ![c] = NextGoal(@, printed'[c])],
           token' = [token EXCEPT ![c] = printed'[c].token],
           UNCHANGED <<placed, reached, vouched>>, NEW d \in Caller
    PROVE  OutcomeFits(d)'
<1> USE DEF SessionInv, AgentsTypeOK, ClientTypeOK, TransportTypeOK
<1>1. PICK line :
        /\ Prints(c, line)
        /\ \/ line.type = "BridgeUnavailable"
           \/ line = result[c] /\ ~Probing(c)
        /\ phase[c] = "ended"
  BY DEF NoCandidate, CommandEnds, Probing, NoToken
<1>2. /\ UNCHANGED <<answer, wire, found>>
      /\ printed'[c] = line /\ command'[c] = None /\ result'[c] = None
      /\ goal'[c] = NextGoal(goal[c], line) /\ token'[c] = line.token
      /\ \A e \in Caller \ {c} :
            /\ target'[e] = target[e] /\ result'[e] = result[e]
            /\ command'[e] = command[e] /\ printed'[e] = printed[e]
            /\ goal'[e] = goal[e] /\ token'[e] = token[e]
  BY <1>1 DEF Prints, Forget
<1>3. CASE d # c
  BY <1>2, <1>3, PlacedStays, OutcomeFrame
<1>4. CASE d = c
  <2>1. /\ answer[c] = None /\ result[c] # None /\ goal[c] # "done"
        /\ command[c] # None /\ target[c].call \in {Health, command[c]}
        /\ goal[c] = "execute" <=> command[c].op = "execute"
        /\ goal[c] = "preview" <=> command[c].op = "preview"
    BY <1>1 DEF Fits, CallsFit, ReachedFits, OutcomeFits
  <2>2. goal'[c] = "execute" => token'[c] # None
    BY <1>2 DEF NextGoal
  <2>3. ASSUME goal'[c] = "done", line.type = "ok" PROVE PlacedFor(c)'
    <3>1. line = result[c] /\ target[c].call = command[c]
      BY <1>1, <2>1, <2>3 DEF Probing
    <3>2. GoodAnswer(c, line.token)
      BY <2>1, <2>3, <3>1 DEF OutcomeFits
    <3>3. goal[c] # "preview"
      BY <1>2, <2>1, <2>3, <3>1, <3>2 DEF NextGoal, GoodAnswer
    <3>4. goal[c] = "execute"
      BY <1>2, <2>1, <2>3, <3>3 DEF NextGoal, Goal
    <3> QED
      BY <2>1, <3>1, <3>2, <3>4, PlacedStays DEF GoodAnswer
  <2> QED
    BY <1>2, <1>4, <2>1, <2>2, <2>3 DEF OutcomeFits
<1> QED
  BY <1>3, <1>4

LEMMA RunOutcome ==
    ASSUME SessionInv, NEW c \in Caller, \A d \in Caller : OutcomeFits(d),
           RunClient(c), NEW d \in Caller
    PROVE  OutcomeFits(d)'
<1>1. phase[c] # "idle" => command[c] # None
  BY DEF SessionInv, Fits, CallsFit
<1>2. UNCHANGED <<placed, reached, vouched>>
  BY DEF RunClient, ghosts, bridgeVars
<1>3. CASE Request(c)
  <2>1. RequestSteps(c) /\ UNCHANGED clientVars /\ phase[c] # "idle"
    BY <1>3 DEF Request, RequestSteps, Send, Receive, TimeOut, ConnectionFails
  <2>2. UNCHANGED <<goal, token>>
    BY <1>1, <2>1 DEF RunClient, ghosts, clientVars
  <2> QED
    BY <1>2, <2>1, <2>2, RequestOutcome
<1>4. CASE ProbeSucceeds(c) \/ ProbeFails(c)
  <2>1. phase[c] # "idle" /\ UNCHANGED command
    BY <1>4 DEF ProbeSucceeds, ProbeFails, Probing
  <2>2. UNCHANGED <<goal, token>>
    BY <1>1, <2>1 DEF RunClient, ghosts
  <2> QED
    BY <1>2, <1>4, <2>2, ProbeOutcome
<1>5. CASE NoCandidate(c) \/ CommandEnds(c)
  <2>1. command'[c] = None
    BY <1>5 DEF NoCandidate, CommandEnds, Prints, SessionInv, AgentsTypeOK, ClientTypeOK
  <2> QED
    BY <1>2, <1>5, <2>1, PrintOutcome DEF RunClient, ghosts
<1> QED
  BY <1>3, <1>4, <1>5 DEF RunClient, ghosts, ClientSteps
-----------------------------------------------------------------------------
(* The bridge                                                                *)

\* A request that is served: a good answer is the bridge's, and says what is so.
LEMMA ServedOutcome ==
    ASSUME SessionInv, NEW c \in Caller, OutcomeFits(c),
           NEW m \in wire, NEW name, NEW t, Answers(m, name, t),
           UNCHANGED <<clientVars, goal, token>>,
           PlacedFor(c) => PlacedFor(c)', vouched[c] \subseteq vouched'[c],
           name = "ok" /\ m.from = c =>
             /\ m.url \in BridgeUrl
             /\ m.call = Health => m.url \in vouched'[c]
             /\ m.call.op = "preview" => t # None
             /\ m.call.op = "execute" => PlacedFor(c)'
    PROVE  OutcomeFits(c)'
<1> USE DEF SessionInv, AgentsTypeOK, ClientTypeOK, TransportTypeOK, clientVars
<1>1. /\ wire' \subseteq wire /\ UNCHANGED <<target, result, command, found, printed>>
      /\ m.from \in Caller
  BY DEF Answers, Message
<1>2. CASE answer'[c] = answer[c]
  BY <1>1, <1>2, OutcomeFrame
<1>3. CASE answer'[c] # answer[c]
  <2>1. m.from = c /\ Awaited(m) /\ answer'[c] = [name |-> name, token |-> t]
    BY <1>1, <1>3 DEF Answers
  <2>2. target[c] = [url |-> m.url, call |-> m.call]
    BY <2>1 DEF Awaited
  <2>3. (answer[c].name = "ok" => GoodAnswer(c, answer[c].token))'
    <3>1. answer'[c].name = name /\ answer'[c].token = t
      BY <2>1
    <3>2. target'[c].url = m.url /\ target'[c].call = m.call
      BY <1>1, <2>2
    <3> QED
      BY <2>1, <3>1, <3>2 DEF GoodAnswer
  <2>4. (result[c] # None /\ result[c].type = "ok" => GoodAnswer(c, result[c].token))'
    BY <1>1 DEF OutcomeFits, GoodAnswer
  <2>5. /\ found'[c] = found[c] /\ goal'[c] = goal[c] /\ token'[c] = token[c]
        /\ command'[c] = command[c] /\ printed'[c] = printed[c] /\ wire' \subseteq wire
    BY <1>1
  <2> QED
    BY <2>3, <2>4, <2>5 DEF OutcomeFits
<1> QED
  BY <1>2, <1>3

\* The request for an order asks for what its caller wants, with a token.
LEMMA OrderMessage ==
    ASSUME SessionInv, \A d \in Caller : OutcomeFits(d),
           NEW m \in wire, m.call.op = "execute"
    PROVE  /\ m.from \in Caller /\ m.call.token \in Token
           /\ m.call.action = Want[m.from] /\ OnItsWay(m.from)
<1>1. m \in Message
  BY DEF SessionInv, AgentsTypeOK, ClientTypeOK, TransportTypeOK
<1> QED
  BY <1>1 DEF Message, Call, OutcomeFits, OnItsWay

LEMMA ServeOutcome ==
    ASSUME SessionInv, BridgeInv, \A d \in Caller : OutcomeFits(d),
           NEW m \in wire, Serve(m), NEW c \in Caller
    PROVE  OutcomeFits(c)'
<1>1. UNCHANGED <<clientVars, goal, token>>
  BY DEF Serve
<1>2. CASE \E error \in EarlyError \cup {"DailyLimitReached", "ConfirmTokenInvalid"} :
             Answers(m, error, None) /\ UNCHANGED <<placed, reached, vouched>>
  BY <1>1, <1>2, ServedOutcome, PlacedStays DEF EarlyError, ghosts
<1>3. CASE ServeStrangely(m)
  BY <1>1, <1>3, ServedOutcome, PlacedStays DEF ServeStrangely, bridgeVars, ghosts
<1>4. CASE ServeRead(m)
  <2>1. /\ m.url \in BridgeUrl /\ m.from \in Caller
        /\ m.call.op \notin {"preview", "execute"}
        /\ UNCHANGED <<placed, reached>>
    BY <1>4 DEF ServeRead, bridgeVars, IsGet, SessionInv, AgentsTypeOK, ClientTypeOK,
                TransportTypeOK, Message
  <2>2. PICK name \in {"ok", "down"} :
          /\ Answers(m, name, None)
          /\ \/ name = "down" /\ UNCHANGED vouched
             \/ vouched' = IF m.call = Health
                           THEN [vouched EXCEPT ![m.from] = @ \cup {m.url}]
                           ELSE vouched
    BY <1>4 DEF ServeRead
  <2>3. /\ vouched[c] \subseteq vouched'[c]
        /\ name = "ok" /\ m.call = Health => m.url \in vouched'[m.from]
    BY <2>1, <2>2 DEF SessionInv, AgentsTypeOK
  <2>4. PlacedFor(c) => PlacedFor(c)'
    BY <2>1, PlacedStays
  <2> QED
    BY <1>1, <2>1, <2>2, <2>3, <2>4, ServedOutcome
<1>5. CASE ServePreview(m)
  <2>1. /\ UNCHANGED <<placed, reached, vouched>>
        /\ m.url \in BridgeUrl /\ m.call.op = "preview"
    BY <1>5 DEF ServePreview, Bridge!Grant, ghosts
  <2>2. PICK t \in Token : Answers(m, "ok", t)
    BY <1>5 DEF ServePreview
  <2> QED
    BY <1>1, <2>1, <2>2, ServedOutcome, PlacedStays, HealthCall, TransportAssumption
       DEF ghosts
<1>6. CASE ServeOrder(m)
  <2>1. /\ m.from \in Caller /\ m.call.token \in Token /\ m.url \in BridgeUrl
        /\ m.call.op = "execute" /\ authorised[m.call.token] = Want[m.from]
        /\ OnItsWay(m.from)
    BY <1>6, OrderMessage DEF ServeOrder, Redeemed
  <2> DEFINE order == [token |-> m.call.token, action |-> authorised[m.call.token]]
  <2>2. placed' = Append(placed, order)
    BY <1>6 DEF ServeOrder, Bridge!Place
  <2>3. order \in [token : Token, action : Action \cup {None}]
    BY <2>1 DEF BridgeInv, Bridge!AuthorityTypeOK
  <2>4. placed \in Seq([token : Token, action : Action \cup {None}])
    <3>1. [token : Token, action : Action]
            \subseteq [token : Token, action : Action \cup {None}]
      OBVIOUS
    <3> QED
      BY <3>1, SeqMonotonic DEF BridgeInv, Bridge!AuthorityTypeOK
  <2>5. /\ \A i \in DOMAIN placed : i \in DOMAIN placed' /\ placed'[i] = placed[i]
        /\ \E i \in DOMAIN placed' : placed'[i].action = Want[m.from]
    <3>1. order.action = Want[m.from]
      BY <2>1
    <3> HIDE DEF order
    <3>2. /\ DOMAIN placed = 1..Len(placed) /\ Len(placed) \in Nat
          /\ DOMAIN placed' = 1..Len(placed) + 1
          /\ \A i \in 1..Len(placed) : placed'[i] = placed[i]
          /\ placed'[Len(placed) + 1] = order
      BY <2>2, <2>3, <2>4, AppendProperties, LenProperties
    <3> QED
      BY <3>1, <3>2
  <2>6. reached[m.from] = 0
    BY <2>1 DEF SessionInv, Fits, ReachedFits
  <2>7. /\ UNCHANGED reached \/ reached' = [reached EXCEPT ![m.from] = @ + 1]
        /\ UNCHANGED vouched
    BY <1>6 DEF ServeOrder
  <2>8. PlacedFor(c) => PlacedFor(c)'
    <3>1. PlacedFor(c) => reached'[c] = 1
      BY <2>1, <2>6, <2>7 DEF PlacedFor, SessionInv, AgentsTypeOK
    <3> QED
      BY <2>5, <3>1 DEF PlacedFor
  <2>9. PICK name : /\ Answers(m, name, None)
                    /\ name = "ok" => reached' = [reached EXCEPT ![m.from] = @ + 1]
    BY <1>6 DEF ServeOrder
  <2>10. name = "ok" => PlacedFor(m.from)'
    BY <2>1, <2>5, <2>6, <2>9 DEF PlacedFor, SessionInv, AgentsTypeOK
  <2> QED
    BY <1>1, <2>1, <2>7, <2>8, <2>9, <2>10, ServedOutcome, HealthCall
<1>7. ServeRefused(m) =>
        \E error \in EarlyError :
          Answers(m, error, None) /\ UNCHANGED <<placed, reached, vouched>>
  BY DEF ServeRefused, bridgeVars, ghosts
<1>8. ServeBadToken(m) =>
        Answers(m, "ConfirmTokenInvalid", None) /\ UNCHANGED <<placed, reached, vouched>>
  BY DEF ServeBadToken, Bridge!Withdraw, bridgeVars, ghosts
<1>9. ServeLateError(m) =>
        \E error \in EarlyError \cup {"DailyLimitReached"} :
          Answers(m, error, None) /\ UNCHANGED <<placed, reached, vouched>>
  BY DEF ServeLateError, Bridge!Withdraw, ghosts
<1> QED
  BY <1>2, <1>3, <1>4, <1>5, <1>6, <1>7, <1>8, <1>9 DEF Serve

\* Tokens are granted for actions, and orders placed for tokens.
LEMMA BridgeKeeps ==
    ASSUME BridgeInv
    PROVE  /\ Bridge!Withdraw => BridgeInv'
           /\ UNCHANGED bridgeVars => BridgeInv'
           /\ \A t \in Token : Bridge!Place(t) => BridgeInv'
           /\ \A t \in Token : Bridge!Grant(t) => BridgeInv'
<1> USE DEF BridgeInv, Bridge!AuthorityTypeOK, Bridge!Status
<1>1. Bridge!Withdraw => BridgeInv'
  BY DEF Bridge!Withdraw
<1>2. UNCHANGED bridgeVars => BridgeInv'
  BY DEF bridgeVars
<1>3. ASSUME NEW t \in Token, Bridge!Place(t) PROVE BridgeInv'
  <2>1. [token |-> t, action |-> authorised[t]] \in [token : Token, action : Action]
    BY <1>3 DEF Bridge!Place
  <2>2. placed' \in Seq([token : Token, action : Action])
    BY <1>3, <2>1, AppendProperties DEF Bridge!Place
  <2>3. /\ UNCHANGED authorised /\ status' \in [Token -> Bridge!Status]
        /\ \A u \in Token : status'[u] # "unused" => status[u] # "unused"
    BY <1>3 DEF Bridge!Place
  <2> QED
    BY <2>2, <2>3
<1>4. ASSUME NEW t \in Token, Bridge!Grant(t) PROVE BridgeInv'
  <2>1. UNCHANGED placed /\ authorised'[t] \in Action
    BY <1>4 DEF Bridge!Grant
  <2>2. authorised' \in [Token -> Action \cup {None}]
    BY <1>4 DEF Bridge!Grant
  <2>3. /\ status' \in [Token -> Bridge!Status]
        /\ \A u \in Token \ {t} : status'[u] # "unused" => status[u] # "unused"
        /\ \A u \in Token \ {t} : authorised'[u] = authorised[u]
    BY <1>4 DEF Bridge!Grant
  <2> QED
    BY <2>1, <2>2, <2>3
<1> QED
  BY <1>1, <1>2, <1>3, <1>4
-----------------------------------------------------------------------------
LEMMA StepBridge ==
    ASSUME SessionInv, BridgeInv, \A d \in Caller : OutcomeFits(d), [Next]_vars
    PROVE  BridgeInv'
<1>1. ASSUME NEW m \in wire, Serve(m) PROVE BridgeInv'
  <2>1. CASE ServePreview(m)
    BY <2>1, BridgeKeeps DEF ServePreview
  <2>2. CASE ServeOrder(m)
    <3>1. m.call.token \in Token
      BY <2>2, OrderMessage DEF ServeOrder, Redeemed
    <3> QED
      BY <2>2, <3>1, BridgeKeeps DEF ServeOrder
  <2>3. CASE ServeBadToken(m) \/ ServeLateError(m)
    BY <2>3, BridgeKeeps DEF ServeBadToken, ServeLateError
  <2>4. CASE ServeRefused(m) \/ ServeRead(m) \/ ServeStrangely(m)
    BY <2>4, BridgeKeeps DEF ServeRefused, ServeRead, ServeStrangely
  <2> QED
    BY <1>1, <2>1, <2>2, <2>3, <2>4 DEF Serve
<1>2. ASSUME NEW c \in Caller, Look(c) \/ Preview(c) \/ Execute(c) \/ RunClient(c)
      PROVE  UNCHANGED bridgeVars
  BY <1>2 DEF Look, Preview, Execute, Starts, RunClient
<1>3. Expire \/ Restart => Bridge!Withdraw
  BY DEF Expire, Restart
<1>4. Finished \/ UNCHANGED vars => UNCHANGED bridgeVars
  BY DEF Finished, vars
<1> QED
  BY <1>1, <1>2, <1>3, <1>4, BridgeKeeps DEF Next

LEMMA StepOutcome ==
    ASSUME SessionInv, OutcomeInv, [Next]_vars
    PROVE  OutcomeInv'
<1> SUFFICES ASSUME NEW d \in Caller PROVE OutcomeFits(d)'
  BY StepBridge DEF OutcomeInv, BridgeInv
<1>1. \A e \in Caller : OutcomeFits(e)
  BY DEF OutcomeInv
<1>2. ASSUME NEW c \in Caller, Look(c) \/ Preview(c) \/ Execute(c)
      PROVE  OutcomeFits(d)'
  <2>1. PICK call \in Call :
          /\ Invoke(c, call) /\ goal[c] # "done"
          /\ goal[c] = "preview" <=> call.op = "preview"
          /\ call.op = "execute" => call.token # None /\ call.action = Want[c]
    BY <1>1, <1>2, SessionAssumption
    DEF Look, Preview, Execute, Starts, Call, Op, SessionInv, AgentsTypeOK, OutcomeFits
  <2>2. /\ UNCHANGED <<goal, token, reached, placed>>
        /\ vouched' = [vouched EXCEPT ![c] = {}]
    BY <1>2 DEF Look, Preview, Execute, Starts, bridgeVars
  <2> QED
    BY <1>1, <2>1, <2>2, InvokeOutcome
<1>3. CASE Expire \/ Finished \/ UNCHANGED vars
  <2>1. /\ UNCHANGED <<placed, reached, vouched>>
        /\ UNCHANGED <<target, answer, result, command, found, printed>>
        /\ UNCHANGED <<goal, token, wire>>
    BY <1>3 DEF Expire, Bridge!Withdraw, Finished, vars, transportVars, clientVars,
                agentVars, ghosts, bridgeVars
  <2> QED
    BY <1>1, <2>1, PlacedStays, OutcomeFrame
<1>4. CASE Restart
  <2>1. /\ UNCHANGED <<placed, reached, vouched>>
        /\ UNCHANGED <<target, answer, result, command, found, printed>>
        /\ UNCHANGED <<goal, token>> /\ wire' \subseteq wire
    BY <1>4 DEF Restart, Bridge!Withdraw, clientVars, agentVars, ghosts
  <2> QED
    BY <1>1, <2>1, PlacedStays, OutcomeFrame
<1>5. BridgeInv
  BY DEF OutcomeInv, BridgeInv
<1> QED
  BY <1>1, <1>2, <1>3, <1>4, <1>5, RunOutcome, ServeOutcome DEF Next

LEMMA InitOutcome == Init => OutcomeInv
<1> SUFFICES ASSUME Init PROVE OutcomeInv
  OBVIOUS
<1>1. Bridge!AuthorityTypeOK /\ \A t \in Token : status[t] = "unused"
  BY DEF Init, Bridge!Init, Bridge!AuthorityTypeOK, Bridge!Status
<1>2. ASSUME NEW c \in Caller PROVE OutcomeFits(c)
  BY DEF Init, ClientInit, TransportInit, OutcomeFits
<1> QED
  BY <1>1, <1>2 DEF OutcomeInv

(* In every reachable state a good answer, a good result and a line that     *)
(* tells of success are the bridge's, and true.                              *)
THEOREM OutcomeHolds == Spec => []OutcomeInv
<1>1. SessionInv /\ OutcomeInv /\ [Next]_vars => OutcomeInv'
  BY StepOutcome
<1> QED
  BY InitOutcome, <1>1, SessionHolds, PTL DEF Spec

(* Every variable of the clients, the agents and the bridge keeps its type.  *)
THEOREM TypesHold == Spec => []TypeOK
<1>1. SessionInv /\ OutcomeInv => TypeOK
  BY DEF SessionInv, OutcomeInv, TypeOK
<1> QED
  BY <1>1, SessionHolds, OutcomeHolds, PTL

(* Whoever is told that the order went through has placed it as wanted, and  *)
(* once, whatever was lost or served late on the way.                        *)
THEOREM SuccessHolds == Spec => []SuccessIsPlaced
<1>1. OutcomeInv => SuccessIsPlaced
  BY DEF OutcomeInv, OutcomeFits, PlacedFor, SuccessIsPlaced
<1> QED
  BY <1>1, OutcomeHolds, PTL

(* The URL that discovery keeps leads to the bridge, and the bridge has told *)
(* this very invocation that its terminal is connected, whatever else is at  *)
(* the candidates and whatever was answered late (client.py:61).             *)
THEOREM DiscoveryHolds == Spec => []DiscoveredIsBridge
<1>1. OutcomeInv => DiscoveredIsBridge
  BY DEF OutcomeInv, OutcomeFits, DiscoveredIsBridge
<1> QED
  BY <1>1, OutcomeHolds, PTL
-----------------------------------------------------------------------------
(* What BridgeUnavailable means                                              *)

\* Nothing of an order gets under way by what others do.
LEMMA FreshStays ==
    ASSUME NEW c \in Caller, Fresh(c), reached'[c] = reached[c],
           \A m \in wire' : m.from = c /\ m.call.op = "execute" => m \in wire
    PROVE  Fresh(c)'
BY DEF Fresh, OnItsWay

\* A caller whose outcome a step leaves alone.
LEMMA UnavailableFrame ==
    ASSUME UnavailableInv, NEW c \in Caller,
           phase'[c] = phase[c], result'[c] = result[c], printed'[c] = printed[c],
           Fresh(c) => Fresh(c)',
           \/ (phase[c] = "ended" /\ result[c].type = "BridgeUnavailable")'
           \/ (printed[c] # None /\ printed[c].type = "BridgeUnavailable")'
    PROVE  Fresh(c)'
BY DEF UnavailableInv

\* The client gives up on the bridge before the request has left it, or on a request
\* that asks for no order.
LEMMA RequestUnavailable ==
    ASSUME SessionInv, NEW c \in Caller, RequestSteps(c),
           UNCHANGED <<clientVars, goal, reached>>,
           phase[c] = "waiting" /\ target[c].call.op = "execute" =>
             ~TimeOut(c) /\ ~ConnectionFails(c),
           \/ (phase[c] = "ended" /\ result[c].type = "BridgeUnavailable")'
           \/ (printed[c] # None /\ printed[c].type = "BridgeUnavailable")'
    PROVE  Fresh(c)'
<1> USE DEF SessionInv, AgentsTypeOK, ClientTypeOK, TransportTypeOK, clientVars
<1>1. phase[c] # "idle" /\ goal[c] # "done" /\ printed'[c] = None
  BY DEF RequestSteps, Send, Receive, TimeOut, ConnectionFails, Fits, CallsFit
<1>2. phase'[c] = "ended" /\ result'[c].type = "BridgeUnavailable"
  BY <1>1
<1>3. ~Receive(c)
  <2> SUFFICES ASSUME Receive(c) PROVE FALSE
    OBVIOUS
  <2>1. answer[c] \in Answer
    BY DEF Receive
  <2>2. Read(answer[c]).type # "BridgeUnavailable"
    BY <2>1 DEF Read, Answer, IsError, NoToken, ClientError, StatusOf, BridgeError
  <2>3. NoToken("unexpected", 0).type # "BridgeUnavailable"
    BY DEF NoToken
  <2> QED
    BY <1>2, <2>2, <2>3 DEF Receive, TryAgain, Ends
<1>4. TimeOut(c) \/ ConnectionFails(c)
  BY <1>2, <1>3 DEF RequestSteps, Send
<1>5. ~Underway(c)
  BY <1>4 DEF Underway, TimeOut, ConnectionFails
<1>6. Fresh(c)
  BY <1>1, <1>5 DEF Fits, ReachedFits
<1>7. wire' \subseteq wire
  BY <1>4 DEF TimeOut, ConnectionFails, TryAgain, Ends, HangUp
<1> QED
  BY <1>6, <1>7, FreshStays

LEMMA StepUnavailable ==
    ASSUME SessionInv, UnavailableInv, [Next]_vars,
           \A c \in Caller : phase[c] = "waiting" /\ target[c].call.op = "execute" =>
             ~TimeOut(c) /\ ~ConnectionFails(c)
    PROVE  UnavailableInv'
<1> SUFFICES ASSUME NEW d \in Caller,
                    \/ (phase[d] = "ended" /\ result[d].type = "BridgeUnavailable")'
                    \/ (printed[d] # None /\ printed[d].type = "BridgeUnavailable")'
             PROVE  Fresh(d)'
  BY DEF UnavailableInv
<1> USE DEF SessionInv, AgentsTypeOK, ClientTypeOK, TransportTypeOK
<1>1. ASSUME NEW m \in wire, Serve(m) PROVE Fresh(d)'
  <2>1. /\ UNCHANGED <<phase, result, printed>> /\ wire' \subseteq wire
    BY <1>1 DEF Serve, clientVars, ServeRefused, ServeRead, ServePreview, ServeBadToken,
                ServeLateError, ServeOrder, ServeStrangely, Answers
  <2>2. reached'[d] = reached[d] \/ (m.from = d /\ m.call.op = "execute")
    BY <1>1 DEF Serve, ServeRefused, ServeRead, ServePreview, ServeBadToken,
                ServeLateError, ServeOrder, Redeemed, ServeStrangely, ghosts
  <2>3. Fresh(d) => Fresh(d)'
    BY <2>1, <2>2, FreshStays DEF Fresh, OnItsWay
  <2> QED
    BY <2>1, <2>3, UnavailableFrame
<1>2. ASSUME NEW c \in Caller, Look(c) \/ Preview(c) \/ Execute(c) PROVE Fresh(d)'
  <2>1. PICK call : Invoke(c, call)
    BY <1>2 DEF Look, Preview, Execute, Starts
  <2>2. UNCHANGED <<reached, wire>>
    BY <1>2, <2>1 DEF Look, Preview, Execute, Starts, Invoke, Misconfigured, Begin,
                      Discover
  <2>3. Fresh(d) => Fresh(d)'
    BY <2>2, FreshStays
  <2>4. CASE d # c
    <3>1. phase'[d] = phase[d] /\ result'[d] = result[d] /\ printed'[d] = printed[d]
      BY <2>1, <2>4 DEF Invoke, Misconfigured, Begin, Discover
    <3> QED
      BY <2>3, <3>1, UnavailableFrame
  <2>5. CASE d = c
    <3>1. /\ printed'[c] = None
          /\ phase'[c] # "ended" \/ result'[c].type = "unexpected"
      BY <2>1 DEF Invoke, Misconfigured, Begin, Discover, NoToken
    <3> QED
      BY <2>5, <3>1
  <2> QED
    BY <2>4, <2>5
<1>3. ASSUME NEW c \in Caller, RunClient(c) PROVE Fresh(d)'
  <2>0. reached' = reached
    BY <1>3 DEF RunClient, ghosts
  <2>1. CASE Request(c)
    <3>1. RequestSteps(c) /\ UNCHANGED clientVars /\ phase[c] # "idle"
      BY <2>1 DEF Request, RequestSteps, Send, Receive, TimeOut, ConnectionFails
    <3>2. UNCHANGED <<goal, token>>
      BY <1>3, <3>1 DEF RunClient, ghosts, clientVars, Fits, CallsFit
    <3>3. CASE d = c
      BY <2>0, <3>1, <3>2, <3>3, RequestUnavailable
    <3>4. CASE d # c
      <4>1. phase'[d] = phase[d] /\ result'[d] = result[d] /\ printed'[d] = printed[d]
        BY <3>1, <3>4 DEF clientVars, RequestSteps, Send, Receive, TimeOut,
                          ConnectionFails, TryAgain, Ends
      <4>2. \A m \in wire' : m.from = d => m \in wire
        BY <3>1, <3>4 DEF RequestSteps, Send, Receive, TimeOut, ConnectionFails,
                          TryAgain, Ends, HangUp
      <4>3. Fresh(d) => Fresh(d)'
        BY <2>0, <4>2, FreshStays
      <4> QED
        BY <4>1, <4>3, UnavailableFrame
    <3> QED
      BY <3>3, <3>4
  <2>2. CASE ProbeSucceeds(c) \/ ProbeFails(c)
    <3>1. /\ UNCHANGED <<wire, printed>> /\ phase'[c] = "sending" /\ printed[c] = None
          /\ d # c => phase'[d] = phase[d] /\ result'[d] = result[d]
      BY <2>2 DEF ProbeSucceeds, ProbeFails, Probing, Begin, Fits, CallsFit
    <3>2. d # c
      BY <3>1
    <3>3. Fresh(d) => Fresh(d)'
      BY <2>0, <3>1, FreshStays
    <3> QED
      BY <3>1, <3>2, <3>3, UnavailableFrame
  <2>3. CASE NoCandidate(c) \/ CommandEnds(c)
    <3>1. PICK line :
            /\ Prints(c, line) /\ phase[c] = "ended"
            /\ line = result[c] \/ target[c].call = Health
      BY <2>3 DEF NoCandidate, CommandEnds, Probing
    <3>2. /\ wire' = wire /\ phase'[c] = "idle" /\ printed'[c] = line
          /\ d # c => /\ phase'[d] = phase[d] /\ result'[d] = result[d]
                      /\ printed'[d] = printed[d]
      BY <3>1 DEF Prints, Forget
    <3>3. Fresh(d) => Fresh(d)'
      BY <2>0, <3>2, FreshStays
    <3>4. CASE d # c
      BY <3>2, <3>3, <3>4, UnavailableFrame
    <3>5. CASE d = c
      <4>1. line.type = "BridgeUnavailable"
        BY <3>2, <3>5
      <4>2. CASE line = result[c]
        BY <3>1, <3>3, <3>5, <4>1, <4>2 DEF UnavailableInv
      <4>3. CASE target[c].call = Health
        <5>1. ~Underway(c) /\ goal[c] # "done"
          BY <3>1, <4>3, HealthCall DEF Underway, Fits, CallsFit
        <5> QED
          BY <3>3, <3>5, <5>1 DEF Fits, ReachedFits
      <4> QED
        BY <3>1, <4>2, <4>3
    <3> QED
      BY <3>4, <3>5
  <2> QED
    BY <1>3, <2>1, <2>2, <2>3 DEF RunClient, ghosts, ClientSteps
<1>4. CASE Expire \/ Restart \/ Finished \/ UNCHANGED vars
  <2>1. UNCHANGED <<phase, result, printed, reached>> /\ wire' \subseteq wire
    BY <1>4 DEF Expire, Restart, Finished, vars, transportVars, clientVars, agentVars, ghosts
  <2>2. Fresh(d) => Fresh(d)'
    BY <2>1, FreshStays
  <2> QED
    BY <2>1, <2>2, UnavailableFrame
<1> QED
  BY <1>1, <1>2, <1>3, <1>4 DEF Next

(* exceptions.py:15-16 says of BridgeUnavailable that the bridge was not     *)
(* reached.  A caller that is told so has indeed no order there, and none on *)
(* its way, if no connection fails or times out between the request for an   *)
(* order and its answer; whatever fails before the request is out, or in any *)
(* other request, does not matter.                                           *)
THEOREM UnavailableHolds == Spec /\ AnswersArrive => []UnavailableMeansNotReached
<1>1. Init => UnavailableInv
  BY DEF Init, ClientInit, TransportInit, UnavailableInv
<1>2. /\ SessionInv /\ UnavailableInv /\ [Next]_vars
      /\ [\A c \in Caller :
            phase[c] = "waiting" /\ target[c].call.op = "execute" =>
               ~TimeOut(c) /\ ~ConnectionFails(c)]_vars
      => UnavailableInv'
  <2>1. CASE UNCHANGED vars
    <3>1. UNCHANGED <<phase, result, printed, reached, wire>>
      BY <2>1 DEF vars, transportVars, clientVars, agentVars, ghosts
    <3> QED
      BY <3>1 DEF UnavailableInv, Fresh, OnItsWay
  <2>2. CASE ~UNCHANGED vars
    BY <2>2, StepUnavailable
  <2> QED
    BY <2>1, <2>2
<1>3. UnavailableInv => UnavailableMeansNotReached
  BY DEF UnavailableInv, UnavailableMeansNotReached, Fresh
<1> QED
  BY <1>1, <1>2, <1>3, SessionHolds, PTL DEF Spec, AnswersArrive
=============================================================================
