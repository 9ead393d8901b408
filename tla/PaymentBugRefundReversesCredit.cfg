SPECIFICATION Spec
CONSTANTS
    ride1 = ride1
    card = card
    momo = momo
    wallet = wallet
    Requests = {ride1}
    Attempts = {card}
    RequestOf <- OneRide
    WalletAttempts = {}
    ProviderRefunds = FALSE
    EventsOf <- Providers
    BatchSize = 1
    Crashes = FALSE
    MaxCalls = 2
INVARIANTS
    RefundReversesCredit
CHECK_DEADLOCK FALSE
