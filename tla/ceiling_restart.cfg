SPECIFICATION Spec
CONSTANTS
    r1 = r1
    r2 = r2
    r3 = r3
    t1 = t1
    t2 = t2
    EURUSD = EURUSD
    XAUUSD = XAUUSD
    GER40 = GER40
    None = None
    Request = {r1}
    Token = {}
    Symbol = {EURUSD, XAUUSD, GER40}
    Ticket = {1, 2, 3}
    Volume <- MCVolume
    Stops <- MCStops
    AllowedSymbol <- MCAllowed
    MaxLot <- MCMaxLot
    SymbolSpec <- MCSpec
    Quotes <- OneQuote
    Intents <- OneIntent
    OpenAtBoot = {}
    TradeModes = {"demo"}
    BrokerOffset = 0
    Outcomes <- CleanOutcomes
    Cooldown = 1
    Ttl = 1
    MaxPerDay = 1
    RequireToken = FALSE
    RequireDemo = FALSE
    TerminalMayFail = FALSE
    JournalEnabled = FALSE
    JournalMayFail = FALSE
    MaxTime = 1
    MaxDay = 1
    MaxSent = 2
    MaxRestarts = 1
INVARIANTS
    CalendarCeiling
