SPECIFICATION Spec
CONSTANTS
    Clients = {c1, c2, c3, c4}
    Sessions = {s1, s2}
    MaxActive = 2
    ConfigMaxIdle = 2
    HealthCheck = FALSE
    NoSession = NoSession
SYMMETRY Symmetry
INVARIANT NoWaiterStranded
