----------------------------- MODULE MCTerminal -----------------------------
(* Terminal on small instances.                                              *)
EXTENDS Terminal, TLC

CONSTANTS r1, r2, r3

Sym == Permutations(Thread)
=============================================================================
