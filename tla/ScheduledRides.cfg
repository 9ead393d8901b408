SPECIFICATION FairSpec
CONSTANTS
    ride1 = ride1
    ride2 = ride2
    rider1 = rider1
    Rides = {ride1, ride2}
    Riders = {rider1}
    RiderOf <- OneRider
    MinAdvance = 3
    MaxAdvance = 4
    Lead = 2
    Slack = 1
    FreeCancelBuffer = 1
    Crashes = TRUE
    MaxNow = 5
    MaxCalls = 2
INVARIANTS
    NotDispatchedEarly
PROPERTIES
    SettledCancelIsFinal
    QueuedIsDispatched
CHECK_DEADLOCK FALSE
