------------------------ MODULE ScaleInCooldownGuard ------------------------
(* ScaleInCooldownGuard.check (guards.py): refuses a second position on a    *)
(* symbol until Cooldown seconds after the newest one was opened.            *)
EXTENDS Models, Clocks

CONSTANT Cooldown   \* cooldown_seconds

ASSUME CooldownAssumption == Cooldown \in Nat

\* Seconds since `position' was opened according to the broker's stamp, a
\* stamp from the future counting as just opened.
Elapsed(position) ==
    IF now < position.time_open THEN 0 ELSE now - position.time_open

\* Mutant of CooldownBlocks: one second short.
CooldownBlocksShort(symbol, positions) ==
    \E p \in positions : p.symbol = symbol /\ Cooldown - Elapsed(p) > 1

\* Mutant of CooldownBlocks: one second long.
CooldownBlocksLong(symbol, positions) ==
    \E p \in positions : p.symbol = symbol /\ Cooldown - Elapsed(p) >= 0

\* The check raises on its newest same-symbol position, that is on any.
CooldownBlocks(symbol, positions) ==
    \E p \in positions : p.symbol = symbol /\ Cooldown - Elapsed(p) > 0
=============================================================================
