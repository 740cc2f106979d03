SPECIFICATION Spec
CONSTANTS
    r1 = r1
    r2 = r2
    r3 = r3
    t1 = t1
    t2 = t2
    EURUSD = EURUSD
    XAUUSD = XAUUSD
    GER40 = GER40
    None = None
    Request = {r1, r2}
    Token = {t1, t2}
    Symbol = {EURUSD, XAUUSD, GER40}
    Ticket = {1, 2}
    Volume <- MCVolume
    Stops <- MCStops
    AllowedSymbol <- MCAllowed
    MaxLot <- MCMaxLot
    SymbolSpec <- MCSpec
    Quotes <- OneQuote
    Intents <- VolumeIntents
    OpenAtBoot <- OneOpen
    TradeModes = {"demo", "real"}
    BrokerOffset = 0
    Outcomes <- CleanOutcomes
    Cooldown = 1
    Ttl = 0
    MaxPerDay = 1
    RequireToken = TRUE
    RequireDemo = TRUE
    TerminalMayFail = FALSE
    JournalEnabled = FALSE
    JournalMayFail = FALSE
    MaxTime = 1
    MaxDay = 1
    MaxSent = 2
    MaxRestarts = 1
SYMMETRY Sym
INVARIANTS
    TypeOK
    OneOrderPerToken
    OrderMatchesToken
    OpensAreGuarded
    IndInv
PROPERTY
    ImplementsOrderAuthority
