SPECIFICATION Spec
CONSTANTS
    r1 = r1
    r2 = r2
    r3 = r3
    t1 = t1
    t2 = t2
    EURUSD = EURUSD
    XAUUSD = XAUUSD
    GER40 = GER40
    None = None
    Request = {r1}
    Token = {}
    Symbol = {EURUSD, XAUUSD, GER40}
    Ticket = {1, 2, 3}
    Volume <- MCVolume
    Stops <- MCStops
    AllowedSymbol <- MCAllowed
    MaxLot <- MCMaxLot
    SymbolSpec <- MCSpec
    Quotes <- OneQuote
    Intents <- OneIntent
    OpenAtBoot = {}
    TradeModes = {"demo"}
    BrokerOffset = 0
    Outcomes <- AllOutcomes
    Cooldown = 1
    Ttl = 1
    MaxPerDay = 1
    RequireToken = FALSE
    RequireDemo = FALSE
    TerminalMayFail = FALSE
    JournalEnabled = TRUE
    JournalMayFail = FALSE
    MaxTime = 1
    MaxDay = 1
    MaxSent = 2
    MaxRestarts = 0
INVARIANTS
    NoTicketNothingReachedBroker
