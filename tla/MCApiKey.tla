------------------------------ MODULE MCApiKey ------------------------------
(* ApiKey on a small instance.                                               *)
EXTENDS ApiKey, TLC

CONSTANTS r1, r2, r3, r4
=============================================================================
