-------------------------- MODULE MCTradingService --------------------------
(* TradingService on small instances.                                        *)
EXTENDS TradingInvariants, TLC

CONSTANTS
    r1, r2, r3, t1, t2, EURUSD, XAUUSD, GER40

Intent(symbol, side, volume, stops) ==
    [symbol |-> symbol, side |-> side, volume |-> volume, stops |-> stops]

NoStops == [sl |-> None, tp |-> None]

\* Half-way between two prices, and wrong-side on the lower of the two quotes.
TooTight == [sl |-> 22, tp |-> None]

\* Good on both, and half-way too.
LowTarget == [sl |-> None, tp |-> 14]

MCStops == {NoStops, TooTight, LowTarget}

\* Lots of 0.01, 0.02, 0.03, and one above the ceiling.
MCVolume == 1..4
MCMaxLot == 3
MCSpec == [s \in {EURUSD, XAUUSD, GER40} |->
             [volume_min |-> 1, volume_max |-> 100, volume_step |-> 2,
              grain |-> 4]]
MCAllowed == {EURUSD, XAUUSD}

\* The market shows either of two quotes.
OneQuote == {[bid |-> 20, ask |-> 24]}
TwoQuotes == {[bid |-> 16, ask |-> 20], [bid |-> 20, ask |-> 24]}

\* Two actions that differ in volume only, and one off the grid.
VolumeIntents == {Intent(EURUSD, "buy", v, NoStops) : v \in {1, 2, 3}}

\* One whose stop is wrong-side on one of the quotes, and one good on both.
TightIntents == {Intent(EURUSD, "buy", 1, TooTight),
                 Intent(EURUSD, "sell", 1, LowTarget)}

OpenPosition(ticket) ==
    [ticket |-> ticket, symbol |-> EURUSD, side |-> "buy", volume |-> 1,
     opened |-> 0, time_open |-> 0]
OneOpen == {OpenPosition(1)}

\* Every outcome the code has to reckon with.
AllOutcomes == {o \in Outcome : /\ o.reply = "done" => o.filled
                                /\ o.reply = "no_session" => ~o.filled}

\* Each reply once: a fill, a fill nobody reports, and two ways to no fill.
EveryReply == {o \in AllOutcomes : o.filled <=> o.reply \in {"done", "nothing"}}

CleanOutcomes == {[reply |-> "done", filled |-> TRUE],
                  [reply |-> "other_code", filled |-> FALSE]}

TwoSymbols == {Intent(EURUSD, "buy", 1, NoStops), Intent(XAUUSD, "sell", 1, NoStops),
               Intent(GER40, "sell", 1, NoStops)}

\* One good intent beside one off the grid.
OneIntent == {Intent(EURUSD, "buy", 1, NoStops), Intent(EURUSD, "buy", 2, NoStops)}

SymRequests == Permutations(Request)
Sym == Permutations(Request) \cup Permutations(Token)
=============================================================================
