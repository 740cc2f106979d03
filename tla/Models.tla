------------------------------- MODULE Models -------------------------------
(* The values that cross the bridge: order intents, positions, and the exact *)
(* action a confirmation token authorises.  Volumes are in hundredths of a   *)
(* lot and prices in fractions of a point, so every quantity is an integer.  *)
EXTENDS Integers

CONSTANTS
    Symbol,     \* instrument names
    Volume,     \* lot sizes a caller may ask for
    Ticket,     \* the position tickets a caller may name
    Stops,      \* the pairs of levels a caller may attach
    None        \* Python's None: an absent token, ticket, level or entry

\* A stop loss and a take profit, each a price or absent.
Levels == [sl : Int \cup {None}, tp : Int \cup {None}]

OrderSide == {"buy", "sell"}

OrderIntent == [symbol : Symbol, side : OrderSide, volume : Volume, stops : Stops]

Position ==
    [ticket : Nat, symbol : Symbol, side : OrderSide, volume : Nat,
     opened : Int,      \* true (UTC) opening time; no code reads it
     time_open : Int]   \* the same instant as the broker's server stamps it

TokenPayload ==
    [symbol : Symbol, side : OrderSide \cup {"close"}, volume : Nat,
     ticket : Nat \cup {None}]

OpenPayload(intent) ==
    [symbol |-> intent.symbol, side |-> intent.side, volume |-> intent.volume,
     ticket |-> None]

ClosePayload(position) ==
    [symbol |-> position.symbol, side |-> "close", volume |-> position.volume,
     ticket |-> position.ticket]

ASSUME ModelsAssumption ==
    /\ Ticket \subseteq Nat
    /\ Volume \subseteq Nat
    /\ None \notin Int
    /\ Stops \subseteq Levels
    /\ None \notin Levels
=============================================================================
