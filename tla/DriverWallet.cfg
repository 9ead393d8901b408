SPECIFICATION Spec
CONSTANTS
    short = short
    long = long
    some = some
    all = all
    Rides = {short, long}
    Payouts = {p1, p2}
    Recoveries = {some, all}
    Tickets = {ticket}
    Amount <- MCAmount
    MaxCalls = 2
INVARIANTS
    PayoutsMatch
    OwesOnlyRefunds
    RecoveryBounded
PROPERTIES
    ImplementsLedgerAccount
CHECK_DEADLOCK FALSE
