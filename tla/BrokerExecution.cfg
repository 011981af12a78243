SPECIFICATION Spec
CONSTANTS
    x1 = x1
    x2 = x2
    p1 = p1
    Executors = {x1, x2}
    Packets = {p1}
    Offered <- MCOffered
    Tokens <- MCTokens
    Cost <- MCCost
    TokenLimit = 4
    CostLimit = 6
    MaxFaults = 2
    StoppedHolds = FALSE
    Nobody = nobody
INVARIANTS WithinBudget EveryRunPaidOnce NothingLeftBehind
PROPERTIES OnlyOwnRemoved EvidenceCoversRuns ExecutionEnds
