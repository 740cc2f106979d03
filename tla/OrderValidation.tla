--------------------------- MODULE OrderValidation ---------------------------
(* The checks preview and execute share (trading.py), as pure predicates.    *)
EXTENDS Models

CONSTANTS
    AllowedSymbol,  \* allowed_symbols
    MaxLot,         \* max_lot_size
    SymbolSpec,     \* symbol |-> the broker's volume_min, volume_max, volume_step,
                    \* and the grain of its prices that digits stands for
    Quotes          \* the [bid, ask] pairs the market may show

ASSUME ValidationAssumption ==
    /\ AllowedSymbol \subseteq Symbol
    /\ MaxLot \in Nat
    /\ \A s \in Symbol : SymbolSpec[s].volume_step \in Nat \ {0}
    /\ \A s \in Symbol : SymbolSpec[s].grain \in Nat \ {0}
    /\ \A quote \in Quotes : quote.bid \in Int /\ quote.ask \in Int

\* The market quotes every symbol at prices with the symbol's digits.
ASSUME QuoteAssumption ==
    \A quote \in Quotes, s \in Symbol :
        quote.bid % SymbolSpec[s].grain = 0 /\ quote.ask % SymbolSpec[s].grain = 0

\* _assert_volume_valid: the configured ceiling, the broker's range and grid.
VolumeValid(symbol, volume) ==
    LET spec == SymbolSpec[symbol]
    IN  /\ volume <= MaxLot
        /\ spec.volume_min <= volume
        /\ volume <= spec.volume_max
        /\ (volume - spec.volume_min) % spec.volume_step = 0

\* Mutant of Valid: the volume is not checked.
ValidSymbol(intent) == intent.symbol \in AllowedSymbol

\* What both preview and execute require before anything else.
Valid(intent) ==
    /\ intent.symbol \in AllowedSymbol
    /\ VolumeValid(intent.symbol, intent.volume)

EntryPrice(quote, side) == IF side = "buy" THEN quote.ask ELSE quote.bid

\* _assert_stops_valid: a level, if given, lies on its side of the entry.
StopsValid(side, entry, stops) ==
    IF side = "buy"
    THEN /\ stops.sl # None => stops.sl < entry
         /\ stops.tp # None => stops.tp > entry
    ELSE /\ stops.sl # None => stops.sl > entry
         /\ stops.tp # None => stops.tp < entry

\* round_price: the nearest price with the symbol's digits.  Half-way between
\* two, it is up to the float that stands for the level.
Rounded(symbol, level) ==
    LET grain == SymbolSpec[symbol].grain
        below == level - (level % grain)
    IN  IF level = None THEN {None}
        ELSE {price \in {below, below + grain} : 2 * (price - level) \in -grain..grain}

\* The levels _build_order_payload may put into an order.
RoundedStops(symbol, stops) ==
    [sl : Rounded(symbol, stops.sl), tp : Rounded(symbol, stops.tp)]
=============================================================================
