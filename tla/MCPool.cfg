SPECIFICATION Spec
CONSTANTS
    Clients = {c1, c2}
    Sessions = {s1, s2}
    MaxActive = 2
    ConfigMaxIdle = 1
    HealthCheck = TRUE
    NoSession = NoSession
INVARIANTS
    OneHolder
    LimitKept
PROPERTIES
    GetReturns
    CloseReturns
