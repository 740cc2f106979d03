SPECIFICATION Spec
CONSTANTS
    c1 = c1
    t1 = t1
    t2 = t2
    t3 = t3
    buy = buy
    sell = sell
    gateway = gateway
    localhost = localhost
    loopback = loopback
    nameserver = nameserver
    resolver = resolver
    None = None
    Caller = {c1}
    Url = {localhost, loopback, gateway, nameserver, resolver}
    Token = {t1, t2, t3}
    Action = {buy, sell}
    MaxRetries = 2
    Configured = {gateway, localhost}
    LocalUrls <- MCLocalUrls
    Gateways = {gateway, None}
    Nameservers = {nameserver, resolver, None}
    NeverWindows = {localhost, loopback, resolver}
    BridgeUrl = {gateway}
    Want <- MCWant
INVARIANTS
    TypeOK
    RefusalIsFinal
    SuccessIsPlaced
    OneOrderPerIntention
    DiscoveredIsBridge
    SessionInv
    OutcomeInv
PROPERTY
    EveryCommandEnds
