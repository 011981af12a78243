SPECIFICATION Spec
CONSTANTS
    Processes = {p1, p2}
    WorkflowIds = {w1}
    Roots = {r1, r2}
    Anchors = {a1, a2}
    Arts = {x1}
    MaxSeq = 5
    NoDigest = NoDigest
    EmptyArts = EmptyArts
    NoRequest = NoRequest
    NoResult = NoResult
SYMMETRY Symmetry
INVARIANTS
    ExecutedAtMostOnce
    ChainLinked
    AnchorsSurvive
    EvidenceMatchesLedger
PROPERTIES
    ImplementsChain
    InterruptedIsDead
CHECK_DEADLOCK FALSE
