--------------------------- MODULE MCAgentSession ---------------------------
(* AgentSession on small instances.                                          *)
EXTENDS AgentSession

CONSTANTS c1, t1, t2, t3, buy, sell, gateway, nameserver, localhost, loopback, resolver

MCLocalUrls == <<localhost, loopback>>
MCWant == [c \in Caller |-> buy]
=============================================================================
