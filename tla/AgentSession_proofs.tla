------------------------- MODULE AgentSession_proofs -------------------------
(* Proofs that a refusal is final and that an intention becomes one order at *)
(* most, for any number of agents, tokens, URLs and retries.                 *)
EXTENDS AgentSession, TLAPS

(* A health probe is a call, a GET one, and no order.                        *)
LEMMA HealthCall ==
    Health \in Call /\ Health.op = "health" /\ IsGet(Health) /\ Health # None
BY TransportAssumption DEF Health, Call, Op, IsGet

(* What the client makes of an answer is a result; a status that refuses     *)
(* comes from an answer that refuses, and a rejected token is a refusal.     *)
LEMMA ReadFits ==
    ASSUME NEW a \in Answer
    PROVE  /\ Read(a) \in Result
           /\ IsRefusal(Read(a)) => Refuses(a)
           /\ Read(a).type = "ConfirmTokenRejected" => Refuses(a)
BY DEF Read, Answer, Result, IsError, NoToken, ClientError, StatusOf, BridgeError,
       IsRefusal, Refuses

(* The results that request makes up are no refusals.                        *)
LEMMA MadeUp ==
    ASSUME NEW type \in {"unexpected", "BridgeUnavailable"}
    PROVE  /\ NoToken(type, 0) \in Result
           /\ ~IsRefusal(NoToken(type, 0))
           /\ NoToken(type, 0).type # "ConfirmTokenRejected"
BY DEF NoToken, Result, IsRefusal

(* A caller none of whose state changes still fits when requests leave the   *)
(* wire.                                                                     *)
LEMMA Unmoved ==
    ASSUME NEW c \in Caller, Fits(c),
           phase'[c] = phase[c], target'[c] = target[c], attempt'[c] = attempt[c],
           answer'[c] = answer[c], result'[c] = result[c],
           command'[c] = command[c], printed'[c] = printed[c],
           goal'[c] = goal[c], reached'[c] = reached[c],
           \A m \in wire' : m.from = c /\ m.call.op = "execute" => m \in wire
    PROVE  Fits(c)'
<1>1. Underway(c)' = Underway(c)
  BY DEF Underway
<1>2. OnItsWay(c)' => OnItsWay(c)
  BY DEF OnItsWay
<1>3. Fresh(c) => Fresh(c)'
  BY <1>2 DEF Fresh
<1>4. CallsFit(c)'
  BY DEF Fits, CallsFit
<1>5. MessagesFit(c)'
  BY <1>1 DEF Fits, MessagesFit
<1>6. ReachedFits(c)'
  BY <1>1, <1>2, <1>3 DEF Fits, ReachedFits
<1> QED
  BY <1>4, <1>5, <1>6 DEF Fits

(* Initially every caller fits.                                              *)
LEMMA InitSession == Init => SessionInv
<1> SUFFICES ASSUME Init PROVE SessionInv
  OBVIOUS
<1>1. AgentsTypeOK
  BY DEF Init, ClientInit, TransportInit, AgentsTypeOK, ClientTypeOK, TransportTypeOK,
         Phase, Goal
<1>2. ASSUME NEW c \in Caller PROVE Fits(c)
  BY <1>2 DEF Init, ClientInit, TransportInit, Fits, CallsFit, MessagesFit,
             ReachedFits, Underway, Fresh, OnItsWay
<1> QED
  BY <1>1, <1>2 DEF SessionInv
-----------------------------------------------------------------------------
(* The steps of a request                                                    *)

(* A step of a request concerns no other caller.                             *)
LEMMA OthersStay ==
    ASSUME SessionInv, NEW c \in Caller, NEW d \in Caller \ {c},
           RequestSteps(c), UNCHANGED <<clientVars, goal, reached>>
    PROVE  Fits(d)'
<1> USE DEF SessionInv, AgentsTypeOK, ClientTypeOK, TransportTypeOK, clientVars
<1>1. CASE Send(c)
  BY <1>1, Unmoved DEF Send
<1>2. CASE \E o : Ends(c, o)
  BY <1>2, Unmoved DEF Ends, HangUp
<1>3. CASE TryAgain(c)
  BY <1>3, Unmoved DEF TryAgain, HangUp
<1>4. Send(c) \/ (\E o : Ends(c, o)) \/ TryAgain(c)
  BY DEF RequestSteps, Receive, TimeOut, ConnectionFails
<1> QED
  BY <1>1, <1>2, <1>3, <1>4

(* A request that goes out is the only one for its order.                    *)
LEMMA SendFits ==
    ASSUME SessionInv, NEW c \in Caller, Send(c),
           UNCHANGED <<clientVars, goal, reached>>
    PROVE  Fits(c)'
<1> USE DEF SessionInv, AgentsTypeOK, ClientTypeOK, TransportTypeOK, clientVars, Send
<1> DEFINE new == [from |-> c, url |-> target[c].url, call |-> target[c].call,
                   attempt |-> attempt[c]]
<1>1. phase'[c] = "waiting" /\ wire' = wire \cup {new}
  OBVIOUS
<1>2. ~Underway(c) /\ goal[c] # "done"
  BY DEF Underway, Fits, CallsFit
<1>3. Fresh(c) /\ answer[c] = None
  BY <1>2 DEF Fits, ReachedFits
<1>4. target[c] \in Target
  BY DEF Fits, CallsFit
<1>5. CallsFit(c)'
  BY <1>1 DEF Fits, CallsFit
<1>6. ASSUME NEW m \in wire', m.from = c, m.call.op = "execute"
      PROVE  m = new
  BY <1>1, <1>3, <1>6 DEF Fresh, OnItsWay
<1>7. [url |-> new.url, call |-> new.call] = target[c]
  BY <1>4 DEF Target
<1>8. MessagesFit(c)'
  BY <1>3, <1>6, <1>7 DEF MessagesFit
<1>9. new.call.op = "execute" => Underway(c)'
  BY <1>1, <1>5, HealthCall DEF Underway, CallsFit
<1>10. ReachedFits(c)'
  <2>1. OnItsWay(c)' => Underway(c)'
    BY <1>6, <1>9 DEF OnItsWay
  <2>2. reached'[c] = 0
    BY <1>3 DEF Fresh
  <2> QED
    BY <1>1, <1>2, <1>3, <2>1, <2>2 DEF ReachedFits, Fresh
<1> QED
  BY <1>5, <1>8, <1>10 DEF Fits
(* Only reads have a second attempt.                                         *)
LEMMA RetryFits ==
    ASSUME SessionInv, NEW c \in Caller, TryAgain(c), AttemptsLeft(c),
           phase[c] \in {"sending", "waiting"},
           UNCHANGED <<clientVars, goal, reached>>
    PROVE  Fits(c)'
<1> USE DEF SessionInv, AgentsTypeOK, ClientTypeOK, TransportTypeOK, clientVars,
            TryAgain, HangUp
<1>1. target[c] # None /\ goal[c] # "done"
  BY DEF Fits, CallsFit
<1>2. IsGet(target[c].call)
  BY <1>1 DEF AttemptsLeft, MaxAttempts
<1>3. ~Underway(c) /\ ~Underway(c)'
  BY <1>2 DEF Underway, IsGet
<1>4. Fresh(c)
  BY <1>1, <1>3 DEF Fits, ReachedFits
<1>5. ~OnItsWay(c)'
  BY <1>4 DEF Fresh, OnItsWay
<1>6. CallsFit(c)'
  BY DEF Fits, CallsFit
<1>7. MessagesFit(c)'
  BY <1>5 DEF MessagesFit, OnItsWay
<1>8. ReachedFits(c)'
  BY <1>1, <1>3, <1>4, <1>5 DEF ReachedFits, Fresh
<1> QED
  BY <1>6, <1>7, <1>8 DEF Fits

(* A request ends in a refusal only if the bridge has refused.               *)
LEMMA EndFits ==
    ASSUME SessionInv, NEW c \in Caller, NEW o \in Result, Ends(c, o),
           phase[c] \in {"sending", "waiting"},
           IsRefusal(o) \/ o.type = "ConfirmTokenRejected" =>
             phase[c] = "waiting" /\ answer[c] # None /\ Refuses(answer[c]),
           UNCHANGED <<clientVars, goal, reached>>
    PROVE  Fits(c)'
<1> USE DEF SessionInv, AgentsTypeOK, ClientTypeOK, TransportTypeOK, clientVars,
            Ends, HangUp
<1>1. phase'[c] = "ended" /\ result'[c] = o /\ answer'[c] = None
  OBVIOUS
<1>2. goal[c] # "done"
  BY DEF Fits, CallsFit
<1>3. OnItsWay(c)' => OnItsWay(c)
  BY DEF OnItsWay
<1>4. CallsFit(c)'
  BY <1>1, TransportAssumption DEF Fits, CallsFit
<1>5. MessagesFit(c)'
  BY <1>1 DEF Fits, MessagesFit
<1>6. ReachedFits(c)'
  <2>1. CASE ~Underway(c)
    <3>1. Fresh(c) /\ Fresh(c)'
      BY <1>2, <1>3, <2>1 DEF Fits, ReachedFits, Fresh
    <3> QED
      BY <1>1, <1>2, <3>1 DEF ReachedFits, Fresh
  <2>2. CASE Underway(c)
    <3>1. phase[c] = "waiting" /\ Underway(c)'
      BY <1>1, <2>2 DEF Underway
    <3>2. answer[c] # None => ~OnItsWay(c)
      BY <2>2, <3>1 DEF Fits, MessagesFit, OnItsWay
    <3>3. IsRefusal(o) \/ o.type = "ConfirmTokenRejected" => Fresh(c)'
      BY <1>3, <2>2, <3>1, <3>2 DEF Fits, ReachedFits, Fresh
    <3> QED
      BY <1>1, <1>2, <1>3, <3>1, <3>3 DEF Fits, ReachedFits
  <2> QED
    BY <2>1, <2>2
<1> QED
  BY <1>4, <1>5, <1>6 DEF Fits

(* Every step of a request leaves its caller fitting.                        *)
LEMMA RequestFits ==
    ASSUME SessionInv, NEW c \in Caller, RequestSteps(c),
           UNCHANGED <<clientVars, goal, reached>>
    PROVE  Fits(c)'
<1>1. CASE Send(c)
  BY <1>1, SendFits
<1>2. CASE Receive(c)
  <2>1. answer[c] \in Answer
    BY <1>2 DEF Receive, SessionInv, AgentsTypeOK, ClientTypeOK, TransportTypeOK
  <2>2. CASE Ends(c, Read(answer[c]))
    BY <1>2, <2>1, <2>2, EndFits, ReadFits DEF Receive
  <2>3. CASE Ends(c, NoToken("unexpected", 0))
    BY <1>2, <2>3, EndFits, MadeUp DEF Receive
  <2>4. CASE TryAgain(c) /\ AttemptsLeft(c)
    BY <1>2, <2>4, RetryFits DEF Receive
  <2> QED
    BY <1>2, <2>2, <2>3, <2>4 DEF Receive
<1>3. CASE TimeOut(c)
  BY <1>3, EndFits, MadeUp DEF TimeOut
<1>4. CASE ConnectionFails(c)
  BY <1>4, EndFits, MadeUp, RetryFits DEF ConnectionFails
<1> QED
  BY <1>1, <1>2, <1>3, <1>4 DEF RequestSteps
-----------------------------------------------------------------------------
(* The bridge                                                                *)

(* A request that is served leaves every caller fitting, if it places an     *)
(* order only for a request that asks for one and does not deny it then.     *)
LEMMA ServedFits ==
    ASSUME SessionInv, NEW m \in wire, NEW name, NEW t,
           Answers(m, name, t), [name |-> name, token |-> t] \in Answer,
           UNCHANGED <<clientVars, goal>>,
           \/ UNCHANGED reached
           \/ /\ m.call.op = "execute"
              /\ reached' = [reached EXCEPT ![m.from] = @ + 1]
              /\ ~Refuses([name |-> name, token |-> t]),
           NEW c \in Caller
    PROVE  Fits(c)'
<1> USE DEF SessionInv, AgentsTypeOK, ClientTypeOK, TransportTypeOK, clientVars, Answers
<1> DEFINE a == [name |-> name, token |-> t]
<1>1. CASE m.from # c
  BY <1>1, Unmoved DEF Message
<1>2. CASE m.from = c
  <2>1. Underway(c)' = Underway(c)
    BY DEF Underway
  <2>2. OnItsWay(c)' => OnItsWay(c)
    BY DEF OnItsWay
  <2>3. CallsFit(c)'
    BY DEF Fits, CallsFit
  <2>4. answer'[c] = IF Awaited(m) THEN a ELSE answer[c]
    BY <1>2
  <2>5. ASSUME NEW n \in wire', n.from = c, n.call.op = "execute",
               Underway(c), phase[c] = "waiting"
        PROVE  ~Awaited(m)
    BY <1>2, <2>5 DEF Fits, MessagesFit, Awaited, Underway
  <2>6. MessagesFit(c)'
    BY <2>1, <2>4, <2>5 DEF Fits, MessagesFit
  <2>7. phase[c] # "waiting" => answer'[c] = None
    BY <1>2, <2>4 DEF Awaited, Fits, ReachedFits
  <2>8. CASE UNCHANGED reached
    <3>1. Fresh(c) => Fresh(c)'
      BY <2>2, <2>8 DEF Fresh
    <3>2. Underway(c) /\ phase[c] = "waiting" /\ Awaited(m) => reached[c] = 0
      BY <1>2 DEF Awaited, Fits, ReachedFits
    <3> QED
      BY <2>1, <2>2, <2>3, <2>4, <2>6, <2>7, <2>8, <3>1, <3>2 DEF Fits, ReachedFits
  <2>9. CASE /\ m.call.op = "execute"
             /\ reached' = [reached EXCEPT ![m.from] = @ + 1]
             /\ ~Refuses(a)
    <3>1. OnItsWay(c)
      BY <1>2, <2>9 DEF OnItsWay
    <3>2. reached[c] = 0 /\ reached'[c] = 1
      BY <1>2, <2>9, <3>1 DEF Fits, ReachedFits
    <3>3. ~OnItsWay(c)'
      BY <1>2, <2>9 DEF OnItsWay, Fits, MessagesFit
    <3>4. goal[c] = "done" \/ Underway(c)
      BY <3>1 DEF Fits, ReachedFits, Fresh
    <3>5. Underway(c) /\ phase[c] = "waiting" => Awaited(m)
      BY <1>2, <2>9 DEF Fits, MessagesFit, Awaited, Target
    <3>6. a # None
      BY TransportAssumption
    <3> QED
      BY <2>1, <2>3, <2>4, <2>6, <2>7, <2>9, <3>1, <3>2, <3>3, <3>4, <3>5, <3>6
      DEF Fits, ReachedFits, Fresh
  <2> QED
    BY <2>8, <2>9
<1> QED
  BY <1>1, <1>2
(* What the bridge does is of that kind.                                     *)
LEMMA ServeFits ==
    ASSUME SessionInv, NEW m \in wire, Serve(m), NEW c \in Caller
    PROVE  Fits(c)'
<1> USE DEF Answer, BridgeError, EarlyError
<1>1. UNCHANGED <<clientVars, goal, token>>
  BY DEF Serve
<1>2. None \in Token \cup {None}
  OBVIOUS
<1>3. CASE ServeRefused(m)
  BY <1>1, <1>3, ServedFits DEF ServeRefused, ghosts
<1>4. CASE ServeRead(m)
  BY <1>1, <1>4, ServedFits DEF ServeRead
<1>5. CASE ServePreview(m)
  BY <1>1, <1>5, ServedFits DEF ServePreview, ghosts
<1>6. CASE ServeBadToken(m)
  BY <1>1, <1>6, ServedFits DEF ServeBadToken, ghosts
<1>7. CASE ServeLateError(m)
  BY <1>1, <1>7, ServedFits DEF ServeLateError, ghosts
<1>8. CASE ServeOrder(m)
  <2>1. CASE \E name \in {"TerminalConnectionError", "Exception"} :
               Answers(m, name, None) /\ UNCHANGED reached
    BY <1>1, <2>1, ServedFits
  <2>2. ASSUME NEW name \in {"ok", "OrderRejected", "Exception"},
               Answers(m, name, None),
               reached' = [reached EXCEPT ![m.from] = @ + 1]
        PROVE  Fits(c)'
    <3>1. ~Refuses([name |-> name, token |-> None])
      BY DEF Refuses, IsError, StatusOf
    <3>2. m.call.op = "execute"
      BY <1>8 DEF ServeOrder, Redeemed
    <3> QED
      BY <1>1, <2>2, <3>1, <3>2, ServedFits
  <2> QED
    BY <1>8, <2>1, <2>2 DEF ServeOrder
<1>9. CASE ServeStrangely(m)
  BY <1>1, <1>9, ServedFits DEF ServeStrangely, ghosts
<1> QED
  BY <1>3, <1>4, <1>5, <1>6, <1>7, <1>8, <1>9 DEF Serve
-----------------------------------------------------------------------------
(* The client and its agent                                                  *)

(* Discovery tries only URLs, and there is one to begin with.                *)
LEMMA CandidatesAreUrls ==
    ASSUME NEW gateway \in Gateways, NEW nameserver \in Nameservers
    PROVE  /\ CandidateUrls(WindowsHost(gateway, nameserver)) \in Seq(Url)
           /\ Head(CandidateUrls(WindowsHost(gateway, nameserver))) \in Url
           /\ Tail(CandidateUrls(WindowsHost(gateway, nameserver))) \in Seq(Url)
<1> DEFINE host == WindowsHost(gateway, nameserver)
<1>1. host \in Url \cup {None}
  BY ClientAssumption DEF WindowsHost, Useful
<1> HIDE DEF host
<1>2. CASE host = None
  BY <1>2, ClientAssumption DEF CandidateUrls, host
<1>3. CASE host # None
  <2>1. <<host>> \in Seq(Url)
    BY <1>1, <1>3
  <2>2. LocalUrls \o <<host>> \in Seq(Url) /\ LocalUrls \o <<host>> # <<>>
    BY <2>1, ClientAssumption
  <2>3. /\ Head(LocalUrls \o <<host>>) \in Url
        /\ Tail(LocalUrls \o <<host>>) \in Seq(Url)
    BY <2>2
  <2>4. CandidateUrls(host) = LocalUrls \o <<host>>
    BY <1>3 DEF CandidateUrls
  <2> QED
    BY <2>2, <2>3, <2>4 DEF host
<1> QED
  BY <1>2, <1>3

(* An invocation starts with nothing of the order under way.                 *)
LEMMA InvokeFits ==
    ASSUME SessionInv, NEW c \in Caller, NEW call \in Call, Invoke(c, call),
           UNCHANGED <<goal, reached>>,
           goal[c] # "done", goal[c] = "execute" <=> call.op = "execute",
           NEW d \in Caller
    PROVE  Fits(d)'
<1> USE DEF SessionInv, AgentsTypeOK, ClientTypeOK, TransportTypeOK
<1>1. /\ \A e \in Caller \ {c} :
            /\ phase'[e] = phase[e] /\ target'[e] = target[e]
            /\ attempt'[e] = attempt[e] /\ result'[e] = result[e]
            /\ command'[e] = command[e] /\ printed'[e] = printed[e]
      /\ answer' = answer /\ wire' = wire
      /\ command'[c] = call /\ printed'[c] = None
      /\ command[c] = None
      /\ target'[c] # None /\ target'[c].call \in {Health, call}
      /\ \/ phase'[c] = "sending"
         \/ phase'[c] = "ended" /\ result'[c] = NoToken("unexpected", 0)
  <2>1. CASE Misconfigured(c, call)
    BY <2>1, TransportAssumption DEF Invoke, Misconfigured, Target
  <2>2. CASE \E url \in Configured : Begin(c, url, call) /\ UNCHANGED todo
    BY <2>2, TransportAssumption, ClientAssumption DEF Invoke, Begin, Target
  <2>3. CASE Discover(c)
    <3>1. PICK url \in Url : Begin(c, url, Health)
      BY <2>3, CandidatesAreUrls DEF Discover
    <3> QED
      BY <3>1, TransportAssumption, HealthCall DEF Invoke, Begin, Target
  <2> QED
    BY <2>1, <2>2, <2>3 DEF Invoke
<1>2. CASE d # c
  BY <1>1, <1>2, Unmoved
<1>3. CASE d = c
  <2>1. phase[c] = "idle"
    BY <1>1 DEF Fits, CallsFit
  <2>2. ~Underway(c) /\ Fresh(c) /\ Fresh(c)'
    BY <1>1, <2>1 DEF Underway, Fits, ReachedFits, Fresh, OnItsWay
  <2>3. result'[c] = NoToken("unexpected", 0) =>
          ~IsRefusal(result'[c]) /\ result'[c] # None
    BY MadeUp, TransportAssumption
  <2>4. CallsFit(c)'
    BY <1>1, <2>3, TransportAssumption DEF CallsFit
  <2>5. MessagesFit(c)'
    BY <2>2 DEF MessagesFit, Fresh, OnItsWay
  <2>6. ReachedFits(c)'
    BY <1>1, <2>1, <2>2, <2>3 DEF ReachedFits, Fresh, Fits
  <2> QED
    BY <1>3, <2>4, <2>5, <2>6 DEF Fits
<1> QED
  BY <1>2, <1>3

(* A probe is followed by another or by the command.                         *)
LEMMA ProbeFits ==
    ASSUME SessionInv, NEW c \in Caller, ProbeSucceeds(c) \/ ProbeFails(c),
           UNCHANGED <<goal, reached>>, NEW d \in Caller
    PROVE  Fits(d)'
<1> USE DEF SessionInv, AgentsTypeOK, ClientTypeOK, TransportTypeOK, ProbeSucceeds,
            ProbeFails, Begin, Probing
<1>1. CASE d # c
  BY <1>1, Unmoved
<1>2. CASE d = c
  <2>1. phase[c] = "ended" /\ goal[c] # "done" /\ ~Underway(c)
    BY HealthCall DEF Fits, CallsFit, Underway
  <2>2. /\ phase'[c] = "sending"
        /\ target'[c] # None /\ target'[c].call \in {Health, command[c]}
    BY <2>1, TransportAssumption, ClientAssumption, HealthCall
    DEF Target, Fits, CallsFit
  <2>3. ~Underway(c)' /\ Fresh(c) /\ Fresh(c)'
    BY <2>1, <2>2 DEF Underway, Fits, ReachedFits, Fresh, OnItsWay
  <2>4. CallsFit(c)'
    BY <2>1, <2>2 DEF Fits, CallsFit
  <2>5. MessagesFit(c)'
    BY <2>3 DEF MessagesFit, Fresh, OnItsWay
  <2>6. ReachedFits(c)'
    BY <2>1, <2>2, <2>3 DEF ReachedFits, Fresh, Fits
  <2> QED
    BY <1>2, <2>4, <2>5, <2>6 DEF Fits
<1> QED
  BY <1>1, <1>2
(* The agent goes on to a new preview only if nothing of its order is left.  *)
LEMMA PrintFits ==
    ASSUME SessionInv, NEW c \in Caller, NoCandidate(c) \/ CommandEnds(c),
           goal' = [goal EXCEPT ![c] = NextGoal(@, printed'[c])],
           UNCHANGED reached, NEW d \in Caller
    PROVE  Fits(d)'
<1> USE DEF SessionInv, AgentsTypeOK, ClientTypeOK, TransportTypeOK, NoCandidate,
            CommandEnds, Prints, Forget, Probing
<1>1. CASE d # c
  BY <1>1, Unmoved
<1>2. CASE d = c
  <2>1. phase[c] = "ended" /\ goal[c] # "done"
    BY DEF Fits, CallsFit
  <2>2. phase'[c] = "idle" /\ command'[c] = None
    OBVIOUS
  <2>3. OnItsWay(c)' <=> OnItsWay(c)
    BY DEF OnItsWay
  <2>4. ~Underway(c)'
    BY <2>2 DEF Underway
  <2>5. CallsFit(c)'
    BY <2>2 DEF CallsFit
  <2>6. MessagesFit(c)'
    BY <2>4 DEF Fits, MessagesFit
  <2>7. ASSUME Fresh(c) PROVE ReachedFits(c)'
    BY <2>1, <2>2, <2>3, <2>4, <2>7 DEF ReachedFits, Fresh, Fits
  <2>8. ASSUME ~Fresh(c) PROVE ReachedFits(c)'
    <3>1. Underway(c)
      BY <2>1, <2>8 DEF Fits, ReachedFits
    <3>2. CommandEnds(c) /\ printed'[c] = result[c] /\ goal[c] = "execute"
      BY <3>1, HealthCall DEF Underway
    <3>3. ~IsRefusal(result[c]) /\ result[c].type # "ConfirmTokenRejected"
      BY <2>1, <2>8, <3>1 DEF Fits, ReachedFits
    <3>4. goal'[c] = "done"
      BY <3>2, <3>3 DEF NextGoal
    <3> QED
      BY <2>2, <2>3, <2>4, <3>1, <3>2, <3>3, <3>4, <2>1 DEF ReachedFits, Fits
  <2> QED
    BY <1>2, <2>5, <2>6, <2>7, <2>8 DEF Fits
<1> QED
  BY <1>1, <1>2

(* Whatever the client does, every caller still fits.                        *)
LEMMA RunFits ==
    ASSUME SessionInv, NEW c \in Caller, RunClient(c), NEW d \in Caller
    PROVE  Fits(d)'
<1> USE DEF RunClient, ghosts
<1>1. phase[c] # "idle" => command[c] # None
  BY DEF SessionInv, Fits, CallsFit
<1>2. CASE Request(c)
  <2>1. RequestSteps(c) /\ UNCHANGED clientVars /\ phase[c] # "idle"
    BY <1>2 DEF Request, RequestSteps, Send, Receive, TimeOut, ConnectionFails
  <2>2. UNCHANGED <<goal, reached>>
    BY <1>1, <2>1 DEF clientVars
  <2> QED
    BY <2>1, <2>2, OthersStay, RequestFits
<1>3. CASE ProbeSucceeds(c) \/ ProbeFails(c)
  <2>1. phase[c] # "idle" /\ UNCHANGED command
    BY <1>3 DEF ProbeSucceeds, ProbeFails, Probing
  <2>2. UNCHANGED <<goal, reached>>
    BY <1>1, <2>1
  <2> QED
    BY <1>3, <2>2, ProbeFits
<1>4. CASE NoCandidate(c) \/ CommandEnds(c)
  <2>1. command'[c] = None
    BY <1>4 DEF NoCandidate, CommandEnds, Prints, SessionInv, AgentsTypeOK, ClientTypeOK
  <2> QED
    BY <1>4, <2>1, PrintFits
<1> QED
  BY <1>2, <1>3, <1>4 DEF ClientSteps
-----------------------------------------------------------------------------
\* A caller's probes go to URLs.
LEMMA StepVouched ==
    ASSUME SessionInv, [Next]_vars
    PROVE  vouched' \in [Caller -> SUBSET Url]
<1>1. vouched \in [Caller -> SUBSET Url] /\ wire \subseteq Message
  BY DEF SessionInv, AgentsTypeOK, ClientTypeOK, TransportTypeOK
<1>2. ASSUME NEW m \in wire, Serve(m) PROVE vouched' \in [Caller -> SUBSET Url]
  <2>1. m.from \in Caller /\ m.url \in Url
    BY <1>1 DEF Message
  <2>2. vouched' \in {vouched, [vouched EXCEPT ![m.from] = @ \cup {m.url}]}
    BY <1>2 DEF Serve, ServeRefused, ServeRead, ServePreview, ServeBadToken,
         ServeLateError, ServeOrder, ServeStrangely, ghosts
  <2> QED
    BY <1>1, <2>1, <2>2
<1>3. ASSUME NEW c \in Caller, Look(c) \/ Preview(c) \/ Execute(c)
      PROVE  vouched' \in [Caller -> SUBSET Url]
  BY <1>1, <1>3 DEF Look, Preview, Execute, Starts
<1>4. CASE UNCHANGED vouched
  BY <1>1, <1>4
<1>5. \A c \in Caller : RunClient(c) => UNCHANGED vouched
  BY DEF RunClient, ghosts
<1>6. Expire \/ Restart \/ Finished \/ UNCHANGED vars => UNCHANGED vouched
  BY DEF Expire, Restart, Finished, vars, agentVars, ghosts
<1> QED
  BY <1>2, <1>3, <1>4, <1>5, <1>6 DEF Next

(* Every step keeps the types.                                               *)
LEMMA StepTypes ==
    ASSUME SessionInv, [Next]_vars
    PROVE  AgentsTypeOK'
<1> vouched' \in [Caller -> SUBSET Url]
  BY StepVouched
<1> USE DEF AgentsTypeOK, ClientTypeOK, TransportTypeOK
<1>1. AgentsTypeOK
  BY DEF SessionInv
<1>2. ASSUME NEW c \in Caller, Send(c), UNCHANGED <<clientVars, goal, token, reached>>
      PROVE  AgentsTypeOK'
  <2>1. target[c] \in Target
    BY <1>1, <1>2 DEF Send, SessionInv, Fits, CallsFit
  <2> QED
    BY <1>1, <1>2, <2>1 DEF Send, Message, Target, Phase, clientVars
<1>3. ASSUME NEW c \in Caller, NEW o \in Result, Ends(c, o),
             UNCHANGED <<clientVars, goal, token, reached>>
      PROVE  AgentsTypeOK'
  BY <1>1, <1>3 DEF Ends, HangUp, Phase, clientVars
<1>4. ASSUME NEW c \in Caller, TryAgain(c), AttemptsLeft(c),
             UNCHANGED <<clientVars, goal, token, reached>>
      PROVE  AgentsTypeOK'
  <2>1. \A k \in Call : MaxAttempts(k) \in Nat
    BY TransportAssumption DEF MaxAttempts
  <2> QED
    BY <1>1, <1>4, <2>1 DEF TryAgain, AttemptsLeft, HangUp, Phase, clientVars, Target
<1>5. ASSUME NEW c \in Caller, RequestSteps(c),
             UNCHANGED <<clientVars, goal, token, reached>>
      PROVE  AgentsTypeOK'
  <2>1. Receive(c) => answer[c] \in Answer
    BY <1>1 DEF Receive
  <2> QED
    BY <1>2, <1>3, <1>4, <1>5, <2>1, ReadFits, MadeUp
    DEF RequestSteps, Receive, TimeOut, ConnectionFails
<1>6. ASSUME NEW c \in Caller, NEW url \in Url, NEW call \in Call, Begin(c, url, call)
      PROVE  TransportTypeOK'
  <2>1. 1 \in 1..MaxAttempts(call)
    BY TransportAssumption DEF MaxAttempts
  <2> QED
    BY <1>1, <1>6, <2>1 DEF Begin, Target, Phase
<1>7. ASSUME NEW c \in Caller, NEW call \in Call, Invoke(c, call),
             UNCHANGED <<goal, token, reached>>
      PROVE  AgentsTypeOK'
  <2>1. CASE Misconfigured(c, call)
    <3>1. 1 \in 1..MaxAttempts(call)
      BY TransportAssumption DEF MaxAttempts
    <3>2. NoToken("unexpected", 0) \in Result
      BY MadeUp
    <3>3. TransportTypeOK'
      BY <1>1, <2>1, <3>1, <3>2 DEF Misconfigured, Target, Phase
    <3> QED
      BY <1>1, <1>7, <2>1, <3>3 DEF Invoke, Misconfigured
  <2>2. CASE \E url \in Configured : Begin(c, url, call) /\ UNCHANGED todo
    <3>1. TransportTypeOK'
      BY <1>6, <2>2, ClientAssumption
    <3> QED
      BY <1>1, <1>7, <2>2, <3>1 DEF Invoke
  <2>3. CASE Discover(c)
    <3>1. TransportTypeOK' /\ todo' \in [Caller -> Seq(Url)]
      BY <1>1, <1>6, <2>3, CandidatesAreUrls, HealthCall DEF Discover
    <3> QED
      BY <1>1, <1>7, <3>1 DEF Invoke
  <2> QED
    BY <1>7, <2>1, <2>2, <2>3 DEF Invoke
<1>8. ASSUME NEW c \in Caller, ProbeSucceeds(c) \/ ProbeFails(c),
             UNCHANGED <<goal, token, reached>>
      PROVE  AgentsTypeOK'
  <2>1. target[c] \in Target /\ command[c] \in Call
    BY <1>1, <1>8 DEF ProbeSucceeds, ProbeFails, Probing, SessionInv, Fits, CallsFit
  <2>2. todo[c] # <<>> => Head(todo[c]) \in Url /\ Tail(todo[c]) \in Seq(Url)
    BY <1>1
  <2>3. <<>> \in Seq(Url)
    OBVIOUS
  <2>4. TransportTypeOK'
    BY <1>6, <1>8, <2>1, <2>2, HealthCall DEF ProbeSucceeds, ProbeFails, Target
  <2>5. found' \in [Caller -> Url \cup {None}]
    BY <1>1, <1>8, <2>1 DEF ProbeSucceeds, ProbeFails, Target
  <2>6. todo' \in [Caller -> Seq(Url)]
    <3>1. todo \in [Caller -> Seq(Url)]
      BY <1>1
    <3>2. \/ todo' = [todo EXCEPT ![c] = <<>>]
          \/ todo[c] # <<>> /\ todo' = [todo EXCEPT ![c] = Tail(todo[c])]
      BY <1>8 DEF ProbeSucceeds, ProbeFails
    <3> HIDE DEF AgentsTypeOK, ClientTypeOK, TransportTypeOK
    <3> QED
      BY <2>2, <2>3, <3>1, <3>2
  <2> QED
    BY <1>1, <1>8, <2>4, <2>5, <2>6 DEF ProbeSucceeds, ProbeFails
<1>9. ASSUME NEW c \in Caller, NoCandidate(c) \/ CommandEnds(c),
             goal' = [goal EXCEPT ![c] = NextGoal(@, printed'[c])],
             token' = [token EXCEPT ![c] = printed'[c].token], UNCHANGED reached
      PROVE  AgentsTypeOK'
  <2>1. PICK line \in Result : Prints(c, line)
    <3>1. CommandEnds(c) => result[c] \in Result
      BY <1>1 DEF CommandEnds, SessionInv, Fits, CallsFit
    <3> QED
      BY <1>9, <3>1, MadeUp DEF NoCandidate, CommandEnds
  <2> QED
    BY <1>1, <1>9, <2>1 DEF Prints, Forget, Phase, Goal, NextGoal, Result
<1>10. ASSUME NEW c \in Caller, RunClient(c)
       PROVE  AgentsTypeOK'
  <2>1. phase[c] # "idle" => command[c] # None
    BY DEF SessionInv, Fits, CallsFit
  <2>2. CASE Request(c)
    <3>1. RequestSteps(c) /\ UNCHANGED clientVars /\ phase[c] # "idle"
      BY <2>2 DEF Request, RequestSteps, Send, Receive, TimeOut, ConnectionFails
    <3> QED
      BY <1>5, <1>10, <2>1, <3>1 DEF RunClient, ghosts, clientVars
  <2>3. CASE ProbeSucceeds(c) \/ ProbeFails(c)
    <3>1. phase[c] # "idle" /\ UNCHANGED command
      BY <2>3 DEF ProbeSucceeds, ProbeFails, Probing
    <3> QED
      BY <1>8, <1>10, <2>1, <2>3, <3>1 DEF RunClient, ghosts
  <2>4. CASE NoCandidate(c) \/ CommandEnds(c)
    <3>1. command'[c] = None
      BY <1>1, <2>4 DEF NoCandidate, CommandEnds, Prints
    <3> QED
      BY <1>9, <1>10, <2>4, <3>1 DEF RunClient, ghosts
  <2> QED
    BY <1>10, <2>2, <2>3, <2>4 DEF RunClient, ghosts, ClientSteps
<1>11. ASSUME NEW c \in Caller, Look(c) \/ Preview(c) \/ Execute(c)
       PROVE  AgentsTypeOK'
  <2>1. PICK call \in Call : Invoke(c, call)
    BY <1>1, <1>11, SessionAssumption DEF Look, Preview, Execute, Starts, Call, Op
  <2> QED
    BY <1>7, <1>11, <2>1 DEF Look, Preview, Execute, Starts
<1>12. ASSUME NEW m \in wire, NEW name \in BridgeError \cup {"ok", "down", "strange"},
              NEW t \in Token \cup {None}, Answers(m, name, t),
              UNCHANGED <<clientVars, goal, token>>,
              \/ UNCHANGED reached
              \/ reached' = [reached EXCEPT ![m.from] = @ + 1]
       PROVE  AgentsTypeOK'
  <2>1. [name |-> name, token |-> t] \in Answer
    BY <1>12 DEF Answer
  <2>2. m.from \in Caller
    BY <1>1 DEF Message
  <2>3. answer' \in [Caller -> Answer \cup {None}]
    BY <1>1, <1>12, <2>1 DEF Answers
  <2>4. reached' \in [Caller -> Nat]
    <3>1. reached[m.from] + 1 \in Nat
      BY <1>1, <2>2
    <3>2. CASE reached' = [reached EXCEPT ![m.from] = @ + 1]
      BY <1>1, <3>1, <3>2, ZenonT(30)
    <3> QED
      BY <1>1, <1>12, <3>2
  <2> QED
    BY <1>1, <1>12, <2>3, <2>4 DEF Answers, clientVars
<1>13. ASSUME NEW m \in wire, Serve(m)
       PROVE  AgentsTypeOK'
  <2>1. PICK name \in BridgeError \cup {"ok", "down", "strange"},
             t \in Token \cup {None} :
          /\ Answers(m, name, t)
          /\ UNCHANGED reached \/ reached' = [reached EXCEPT ![m.from] = @ + 1]
    BY <1>13 DEF Serve, ServeRefused, ServeRead, ServePreview, ServeBadToken,
         ServeLateError, ServeOrder, ServeStrangely, EarlyError, BridgeError, ghosts
  <2> QED
    BY <1>12, <1>13, <2>1 DEF Serve
<1>14. CASE Expire \/ Finished \/ UNCHANGED vars
  BY <1>1, <1>14 DEF Expire, Finished, vars, transportVars, clientVars, agentVars, ghosts
<1>15. CASE Restart
  BY <1>1, <1>15 DEF Restart, clientVars, agentVars, ghosts
<1> QED
  BY <1>10, <1>11, <1>13, <1>14, <1>15 DEF Next

(* The invariant is inductive.                                               *)
LEMMA StepSession ==
    ASSUME SessionInv, [Next]_vars
    PROVE  SessionInv'
<1> SUFFICES ASSUME NEW d \in Caller PROVE Fits(d)'
  BY StepTypes DEF SessionInv
<1>1. ASSUME NEW c \in Caller, Look(c) \/ Preview(c) \/ Execute(c)
      PROVE  Fits(d)'
  <2>1. PICK call \in Call :
          /\ Invoke(c, call)
          /\ goal[c] # "done"
          /\ goal[c] = "execute" <=> call.op = "execute"
    BY <1>1, SessionAssumption
    DEF Look, Preview, Execute, Starts, Call, Op, SessionInv, AgentsTypeOK
  <2> QED
    BY <1>1, <2>1, InvokeFits DEF Look, Preview, Execute, Starts
<1>2. CASE Expire \/ Finished \/ UNCHANGED vars
  BY <1>2, Unmoved
  DEF SessionInv, Expire, Finished, vars, transportVars, clientVars, agentVars, ghosts
<1>3. CASE Restart
  BY <1>3, Unmoved DEF SessionInv, Restart, clientVars, agentVars, ghosts
<1> QED
  BY <1>1, <1>2, <1>3, RunFits, ServeFits DEF Next

(* In every reachable state each caller's request, its order's request on    *)
(* the wire and what has come of it fit together.                            *)
THEOREM SessionHolds == Spec => []SessionInv
<1>1. SessionInv /\ [Next]_vars => SessionInv'
  BY StepSession
<1> QED
  BY InitSession, <1>1, PTL DEF Spec

(* Whoever is told that an order was refused has placed none, and none of    *)
(* the requests still on the wire can place it.                              *)
THEOREM RefusalHolds == Spec => []RefusalIsFinal
<1>1. SessionInv => RefusalIsFinal
  <2> SUFFICES ASSUME SessionInv, NEW c \in Caller, goal[c] # "look",
                      printed[c] # None, IsRefusal(printed[c])
               PROVE  Fresh(c)
    BY DEF RefusalIsFinal, Fresh
  <2>1. phase[c] = "idle"
    BY DEF SessionInv, AgentsTypeOK, Fits, CallsFit
  <2> QED
    BY <2>1 DEF SessionInv, Fits, ReachedFits, Underway
<1> QED
  BY SessionHolds, <1>1, PTL

(* An agent that previews again whenever its token is rejected places one    *)
(* order at most.                                                            *)
THEOREM OneOrderHolds == Spec => []OneOrderPerIntention
<1>1. SessionInv => OneOrderPerIntention
  <2> SUFFICES ASSUME SessionInv, NEW c \in Caller PROVE reached[c] <= 1
    BY DEF OneOrderPerIntention
  <2>1. reached[c] \in {0, 1}
    BY DEF SessionInv, Fits, ReachedFits
  <2> QED
    BY <2>1
<1> QED
  BY SessionHolds, <1>1, PTL
=============================================================================
