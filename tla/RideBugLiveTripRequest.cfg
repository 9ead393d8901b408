SPECIFICATION Spec
CONSTANTS
    r1 = r1
    r2 = r2
    q1 = q1
    q2 = q2
    d1 = d1
    d2 = d2
    Riders = {r1}
    Drivers = {d1}
    Requests = {q1}
    RiderOf <- OneRequest
    NoDriver = NoDriver
    Window = 1
    MaxNow = 2
    MaxCalls = 2
INVARIANTS
    LiveTripRequestOpen
