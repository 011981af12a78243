SPECIFICATION Spec
CONSTANTS
    MaxAttempts = 3
    MaxPolls = 3
    Endpoint = api
    Origins = {api, other}
    NoLocation = NoLocation
    BadLocation = BadLocation
INVARIANTS
    KeyStaysWithEndpoint
    CostBounded
    OutcomeIsHonest
PROPERTIES
    FetchEnds
CHECK_DEADLOCK FALSE
