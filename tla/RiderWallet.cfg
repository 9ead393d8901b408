SPECIFICATION FairSpec
CONSTANTS
    small = small
    large = large
    sandbox = sandbox
    cheap = cheap
    dear = dear
    TopUps = {small, large, sandbox}
    Payments = {cheap, dear}
    Amount <- MCAmount
    Sandbox = {sandbox}
    Early = {large}
    Crashes = TRUE
    MaxCalls = 3
INVARIANTS
    CreditIsPaid
    StatusIsTrue
    OneDeposit
PROPERTIES
    ImplementsLedgerAccount
    PaidIsCredited
CHECK_DEADLOCK FALSE
