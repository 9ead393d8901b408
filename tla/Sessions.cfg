SPECIFICATION FairSpec
CONSTANTS
    phone = phone
    tablet = tablet
    Devices = {phone, tablet}
    Loads <- MCLoads
    Pollers <- MCPollers
    Driver = TRUE
    MaxSessions = 2
INVARIANTS
    SpentIsReplaced
    SignInTakesOver
PROPERTIES
    DeadTokensForgotten
CHECK_DEADLOCK FALSE
