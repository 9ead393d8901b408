SPECIFICATION FairSpec
CONSTANTS
    ride1 = ride1
    card = card
    momo = momo
    wallet = wallet
    Requests = {ride1}
    Attempts = {card, momo, wallet}
    RequestOf <- OneRide
    WalletAttempts = {wallet}
    ProviderRefunds = TRUE
    EventsOf <- Providers
    BatchSize = 1
    Crashes = TRUE
    MaxCalls = 2
INVARIANTS
    PaidWasReceived
    WalletEntriesMatch
PROPERTIES
    ImplementsLedger
    RefundNotRevived
    OpenIsSettled
CHECK_DEADLOCK FALSE
