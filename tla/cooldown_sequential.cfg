SPECIFICATION Spec
CONSTANTS
    r1 = r1
    r2 = r2
    r3 = r3
    t1 = t1
    t2 = t2
    EURUSD = EURUSD
    XAUUSD = XAUUSD
    GER40 = GER40
    None = None
    Request = {r1}
    Token = {t1, t2}
    Symbol = {EURUSD, XAUUSD, GER40}
    Ticket = {1, 2}
    Volume <- MCVolume
    Stops <- MCStops
    AllowedSymbol <- MCAllowed
    MaxLot <- MCMaxLot
    SymbolSpec <- MCSpec
    Quotes <- OneQuote
    Intents <- TwoSymbols
    OpenAtBoot = {}
    TradeModes = {"real"}
    BrokerOffset = 0
    Outcomes <- AllOutcomes
    Cooldown = 2
    Ttl = 1
    MaxPerDay = 2
    RequireToken = TRUE
    RequireDemo = FALSE
    TerminalMayFail = FALSE
    JournalEnabled = TRUE
    JournalMayFail = TRUE
    MaxTime = 3
    MaxDay = 1
    MaxSent = 2
    MaxRestarts = 0
INVARIANTS
    NoScaleInTooSoon
    ScaleInInv
    BlockedCostsNothing
    NoPhantomRows
PROPERTIES
    CooldownWaitBounded
