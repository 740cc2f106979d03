------------------------------ MODULE Transport ------------------------------
(* Transport.request (transport.py) in each process that uses the client,    *)
(* and the wire between the clients and the bridge.  A request the client    *)
(* has given up may still be on the wire and be served later; the answer to  *)
(* it is then read by nobody.                                                *)
EXTENDS Naturals

CONSTANTS
    Caller,     \* processes that use the client, one request at a time each
    Url,
    Token, Action, None,
    MaxRetries  \* ClientConfig.max_retries

VARIABLES
    phase,      \* where each caller stands in its request
    target,     \* the URL and the call of that request
    attempt,    \* the number of its current attempt
    answer,     \* what the bridge has answered to that attempt
    result,     \* how the request ended
    wire        \* requests sent and not served yet

transportVars == <<phase, target, attempt, answer, result, wire>>

\* The endpoints, by what a call of one may change.
Op == {"health", "read", "preview", "execute"}
Call == [op : Op, token : Token \cup {None}, action : Action \cup {None}]
IsGet(call) == call.op \in {"health", "read"}

\* The domain errors of the bridge that the client tells apart, and the rest.
BridgeError == {"HTTPException", "BadRequest", "ConfirmTokenInvalid",
                "DailyLimitReached", "OrderRejected", "TerminalConnectionError",
                "Exception"}

\* The bridge's status for each: "BadRequest" are the other 4xx.
StatusOf(error) ==
    CASE error = "HTTPException" -> 401
      [] error \in {"BadRequest", "ConfirmTokenInvalid"} -> 400
      [] error = "DailyLimitReached" -> 429
      [] error = "OrderRejected" -> 502
      [] error = "TerminalConnectionError" -> 503
      [] error = "Exception" -> 500

RetryStatus == {502, 503, 504}

\* "down" is a /health without a terminal, "strange" a body that is no answer
\* of the bridge; both come with status 200.
Answer == [name : BridgeError \cup {"ok", "down", "strange"},
           token : Token \cup {None}]

IsError(a) == a.name \in BridgeError

Result == [type : {"ok", "down", "unexpected", "BridgeUnavailable", "BridgeUnauthorized",
                   "ConfirmTokenRejected", "DailyLimitReached", "OrderRejected",
                   "BridgeHTTPError"},
           status : Nat, token : Token \cup {None}]

Target == [url : Url, call : Call]

Message == [from : Caller, url : Url, call : Call, attempt : Nat]

ASSUME TransportAssumption ==
    /\ MaxRetries \in Nat
    /\ None \notin Token
    /\ None \notin Call /\ None \notin Target
    /\ None \notin Answer /\ None \notin Result

Phase == {"idle", "sending", "waiting", "ended"}

\* Mutant of MaxAttempts: every method is retried.
AttemptsForAny(call) == MaxRetries + 1

\* A POST has one attempt.
MaxAttempts(call) == IF IsGet(call) THEN MaxRetries + 1 ELSE 1

TransportTypeOK ==
    /\ phase \in [Caller -> Phase]
    /\ target \in [Caller -> Target \cup {None}]
    /\ attempt \in [Caller -> Nat]
    /\ answer \in [Caller -> Answer \cup {None}]
    /\ result \in [Caller -> Result \cup {None}]
    /\ wire \subseteq Message
    /\ \A c \in Caller : target[c] # None => attempt[c] \in 1..MaxAttempts(target[c].call)

TransportInit ==
    /\ phase = [c \in Caller |-> "idle"]
    /\ target = [c \in Caller |-> None]
    /\ attempt = [c \in Caller |-> 0]
    /\ answer = [c \in Caller |-> None]
    /\ result = [c \in Caller |-> None]
    /\ wire = {}
-----------------------------------------------------------------------------
\* Mutant of ClientError: a broker's refusal is taken for the token's.
ClientErrorMixed(error) ==
    CASE error \in {"ConfirmTokenInvalid", "OrderRejected"} -> "ConfirmTokenRejected"
      [] error = "HTTPException" -> "BridgeUnauthorized"
      [] error = "DailyLimitReached" -> error
      [] OTHER -> "BridgeHTTPError"

\* _to_exception: the status first, then the error's name.
ClientError(error) ==
    CASE StatusOf(error) = 401 -> "BridgeUnauthorized"
      [] error = "ConfirmTokenInvalid" -> "ConfirmTokenRejected"
      [] error \in {"DailyLimitReached", "OrderRejected"} -> error
      [] OTHER -> "BridgeHTTPError"

NoToken(type, status) == [type |-> type, status |-> status, token |-> None]

\* Mutant of Read: errors of the bridge itself are not raised.
ReadBelow500(a) ==
    IF IsError(a) /\ StatusOf(a.name) < 500
    THEN NoToken(ClientError(a.name), StatusOf(a.name))
    ELSE IF a.name = "strange" THEN NoToken("unexpected", 0)
    ELSE [type |-> IF a.name = "down" THEN "down" ELSE "ok", status |-> 200,
          token |-> a.token]

\* What request returns or raises for an answer: from_dict, called on what it
\* returns, finds the fields of a strange body missing.
Read(a) ==
    IF IsError(a) THEN NoToken(ClientError(a.name), StatusOf(a.name))
    ELSE IF a.name = "strange" THEN NoToken("unexpected", 0)
    ELSE [type |-> a.name, status |-> 200, token |-> a.token]

\* The bridge, or whoever else is at its URL, answers a request on the wire; it
\* does not know whether anyone is waiting still.
Awaited(m) ==
    /\ phase[m.from] = "waiting"
    /\ answer[m.from] = None
    /\ target[m.from] = [url |-> m.url, call |-> m.call]
    /\ attempt[m.from] = m.attempt

Answers(m, name, token) ==
    /\ wire' = wire \ {m}
    /\ answer' = IF Awaited(m)
                 THEN [answer EXCEPT ![m.from] = [name |-> name, token |-> token]]
                 ELSE answer
    /\ UNCHANGED <<phase, target, attempt, result>>
-----------------------------------------------------------------------------
\* The caller has taken the result.
Forget(c) ==
    /\ phase' = [phase EXCEPT ![c] = "idle"]
    /\ target' = [target EXCEPT ![c] = None]
    /\ attempt' = [attempt EXCEPT ![c] = 0]
    /\ result' = [result EXCEPT ![c] = None]
    /\ UNCHANGED <<answer, wire>>

\* request is called.
Begin(c, url, call) ==
    /\ target' = [target EXCEPT ![c] = [url |-> url, call |-> call]]
    /\ attempt' = [attempt EXCEPT ![c] = 1]
    /\ phase' = [phase EXCEPT ![c] = "sending"]
    /\ result' = [result EXCEPT ![c] = None]
    /\ UNCHANGED <<answer, wire>>

\* urlopen has written the request.
Send(c) ==
    /\ phase[c] = "sending"
    /\ wire' = wire \cup {[from |-> c, url |-> target[c].url, call |-> target[c].call,
                           attempt |-> attempt[c]]}
    /\ phase' = [phase EXCEPT ![c] = "waiting"]
    /\ UNCHANGED <<target, attempt, answer, result>>

\* The connection is done with.  A read nobody waits for changes nothing when
\* it is served, so it leaves the wire here.
HangUp(c) ==
    /\ answer' = [answer EXCEPT ![c] = None]
    /\ wire' = {m \in wire : m.from = c => ~IsGet(m.call)}

Ends(c, outcome) ==
    /\ HangUp(c)
    /\ result' = [result EXCEPT ![c] = outcome]
    /\ phase' = [phase EXCEPT ![c] = "ended"]
    /\ UNCHANGED <<target, attempt>>

\* Mutant of AttemptsLeft: max_retries counted once too often.
OneAttemptMore(c) == attempt[c] <= MaxAttempts(target[c].call)

AttemptsLeft(c) == attempt[c] < MaxAttempts(target[c].call)

\* Mutant of TryAgain: the attempts are not counted.
TryForever(c) ==
    /\ HangUp(c)
    /\ phase' = [phase EXCEPT ![c] = "sending"]
    /\ UNCHANGED <<target, attempt, result>>

\* The next attempt, after _backoff.
TryAgain(c) ==
    /\ HangUp(c)
    /\ attempt' = [attempt EXCEPT ![c] = @ + 1]
    /\ phase' = [phase EXCEPT ![c] = "sending"]
    /\ UNCHANGED <<target, result>>

\* An answer arrives.  Its body may break off, which is none of the exceptions
\* that request catches; before a retry the body is not read.
Receive(c) ==
    /\ phase[c] = "waiting"
    /\ answer[c] # None
    /\ IF IsError(answer[c]) /\ StatusOf(answer[c].name) \in RetryStatus /\ AttemptsLeft(c)
       THEN TryAgain(c)
       ELSE \/ Ends(c, Read(answer[c]))
            \/ Ends(c, NoToken("unexpected", 0))

\* A timeout, while connecting or while waiting for the answer, is final.
TimeOut(c) ==
    /\ phase[c] \in {"sending", "waiting"}
    /\ Ends(c, NoToken("BridgeUnavailable", 0))

\* Refused, reset, no such host: URLError and OSError.
ConnectionFails(c) ==
    /\ phase[c] \in {"sending", "waiting"}
    /\ IF AttemptsLeft(c) THEN TryAgain(c) ELSE Ends(c, NoToken("BridgeUnavailable", 0))

RequestSteps(c) ==
    Send(c) \/ Receive(c) \/ TimeOut(c) \/ ConnectionFails(c)
=============================================================================
