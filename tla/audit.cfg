SPECIFICATION Spec
CONSTANTS
    r1 = r1
    r2 = r2
    r3 = r3
    t1 = t1
    t2 = t2
    EURUSD = EURUSD
    XAUUSD = XAUUSD
    GER40 = GER40
    None = None
    Request = {r1, r2}
    Token = {}
    Symbol = {EURUSD, XAUUSD, GER40}
    Ticket = {1, 2}
    Volume <- MCVolume
    Stops <- MCStops
    AllowedSymbol <- MCAllowed
    MaxLot <- MCMaxLot
    SymbolSpec <- MCSpec
    Quotes <- TwoQuotes
    Intents <- TightIntents
    OpenAtBoot <- OneOpen
    TradeModes = {"demo"}
    BrokerOffset = 0
    Outcomes <- EveryReply
    Cooldown = 1
    Ttl = 1
    MaxPerDay = 1
    RequireToken = FALSE
    RequireDemo = FALSE
    TerminalMayFail = TRUE
    JournalEnabled = TRUE
    JournalMayFail = FALSE
    MaxTime = 1
    MaxDay = 2
    MaxSent = 2
    MaxRestarts = 1
SYMMETRY SymRequests
INVARIANTS
    DailyCeiling
    QuotaSpentOnlyOnOrders
    AuditComplete
    NoPhantomRows
    StopsGuardEntry
    IndInv
