----------------------------- MODULE BridgeClient -----------------------------
(* One invocation of mt5_cli.py: main builds a BridgeClient, for the URL of  *)
(* the environment or, with --discover, for the first candidate whose        *)
(* /health says it is ready; runs one command on it; and prints one line.    *)
(* The command is one call of the client, which is one request.              *)
EXTENDS Transport, Sequences

CONSTANTS
    Configured,     \* what MT5_BRIDGE_URL may say
    LocalUrls,      \* the two spellings of localhost, in order
    Gateways,       \* hosts that the default route may name, None if there is none
    Nameservers,    \* hosts that resolv.conf may name, or None
    NeverWindows    \* loopback, link-local and unspecified addresses

ASSUME ClientAssumption ==
    /\ Configured \subseteq Url
    /\ LocalUrls \in Seq(Url) /\ LocalUrls # <<>>
    /\ None \notin Url
    /\ Gateways \subseteq Url \cup {None}
    /\ Nameservers \subseteq Url \cup {None}

VARIABLES
    command,    \* the call each invocation is about, None if there is none
    todo,       \* the candidates autodiscover has not tried yet
    found,      \* the URL autodiscover has kept, None if it was not asked
    printed     \* the line of the caller's last invocation

clientVars == <<command, todo, found, printed>>

ClientTypeOK ==
    /\ TransportTypeOK
    /\ command \in [Caller -> Call \cup {None}]
    /\ todo \in [Caller -> Seq(Url)]
    /\ found \in [Caller -> Url \cup {None}]
    /\ printed \in [Caller -> Result \cup {None}]

ClientInit ==
    /\ TransportInit
    /\ command = [c \in Caller |-> None]
    /\ todo = [c \in Caller |-> <<>>]
    /\ found = [c \in Caller |-> None]
    /\ printed = [c \in Caller |-> None]

Health == [op |-> "health", token |-> None, action |-> None]

\* The host that a source names, if it can be the Windows host.
Useful(host) == IF host \in NeverWindows THEN None ELSE host

\* windows_host_ip: the default gateway, or else the nameserver.
WindowsHost(gateway, nameserver) ==
    IF Useful(gateway) # None THEN Useful(gateway) ELSE Useful(nameserver)

CandidateUrls(host) == LocalUrls \o (IF host = None THEN <<>> ELSE <<host>>)

\* Bad arguments, no key, or a timeout that is no number: main has its line
\* before any request.
Misconfigured(c, call) ==
    /\ \E url \in Url : target' = [target EXCEPT ![c] = [url |-> url, call |-> call]]
    /\ attempt' = [attempt EXCEPT ![c] = 1]
    /\ phase' = [phase EXCEPT ![c] = "ended"]
    /\ result' = [result EXCEPT ![c] = NoToken("unexpected", 0)]
    /\ UNCHANGED <<answer, wire, todo>>

\* autodiscover, up to its first probe.
Discover(c) ==
    \E gateway \in Gateways, nameserver \in Nameservers :
        LET urls == CandidateUrls(WindowsHost(gateway, nameserver))
        IN  /\ Begin(c, Head(urls), Health)
            /\ todo' = [todo EXCEPT ![c] = Tail(urls)]

\* main, up to the first request.  The health command is not among the calls:
\* it is a read like any other.
Invoke(c, call) ==
    /\ command[c] = None
    /\ command' = [command EXCEPT ![c] = call]
    /\ \/ Misconfigured(c, call)
       \/ \E url \in Configured : Begin(c, url, call) /\ UNCHANGED todo
       \/ Discover(c)
    /\ found' = [found EXCEPT ![c] = None]
    /\ printed' = [printed EXCEPT ![c] = None]

Probing(c) == phase[c] = "ended" /\ target[c].call = Health

\* Mutant of IsReady: a /health without a terminal will do.
IsReadyAnyStatus(outcome) == outcome.type \in {"ok", "down"}

\* Health.is_ready; whatever else came back, or was raised, means "next".
IsReady(outcome) == outcome.type = "ok"

\* Mutant of ProbeSucceeds: whatever answers is kept.
ProbeAnswered(c) ==
    /\ Probing(c)
    /\ result[c].type # "BridgeUnavailable"
    /\ found' = [found EXCEPT ![c] = target[c].url]
    /\ Begin(c, target[c].url, command[c])
    /\ todo' = [todo EXCEPT ![c] = <<>>]
    /\ UNCHANGED <<command, printed>>

\* The candidate is kept, and the command goes there.
ProbeSucceeds(c) ==
    /\ Probing(c)
    /\ IsReady(result[c])
    /\ found' = [found EXCEPT ![c] = target[c].url]
    /\ Begin(c, target[c].url, command[c])
    /\ todo' = [todo EXCEPT ![c] = <<>>]
    /\ UNCHANGED <<command, printed>>

ProbeFails(c) ==
    /\ Probing(c)
    /\ ~IsReady(result[c])
    /\ todo[c] # <<>>
    /\ Begin(c, Head(todo[c]), Health)
    /\ todo' = [todo EXCEPT ![c] = Tail(@)]
    /\ UNCHANGED <<command, found, printed>>

\* The line is out and the process ends.
Prints(c, line) ==
    /\ printed' = [printed EXCEPT ![c] = line]
    /\ command' = [command EXCEPT ![c] = None]
    /\ Forget(c)
    /\ UNCHANGED <<todo, found>>

NoCandidate(c) ==
    /\ Probing(c)
    /\ ~IsReady(result[c])
    /\ todo[c] = <<>>
    /\ Prints(c, NoToken("BridgeUnavailable", 0))

\* _DISPATCH has returned or raised; main turns either into a line.
CommandEnds(c) ==
    /\ phase[c] = "ended"
    /\ ~Probing(c)
    /\ Prints(c, result[c])

Request(c) == RequestSteps(c) /\ UNCHANGED clientVars

ClientSteps(c) ==
    Request(c) \/ ProbeSucceeds(c) \/ ProbeFails(c) \/ NoCandidate(c) \/ CommandEnds(c)
=============================================================================
