SPECIFICATION Spec
CONSTANTS
    Clients = {c1}
    Sessions = {s1, s2}
    MaxActive = 2
    ConfigMaxIdle = 1
    HealthCheck = TRUE
    NoSession = NoSession
INVARIANT ActiveAddsUp
