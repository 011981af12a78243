SPECIFICATION Spec
CONSTANTS
    Launches = {l1, l2}
    Roots = {r1}
    Ledgers = {b1, b2}
    WorkflowIds = {w1, w2}
    Anchors = {a1, a2}
    Arts = {x1}
    Shas = {h1}
    MaxSeq = 7
    NoDigest = NoDigest
    EmptyArts = EmptyArts
    NoRequest = NoRequest
    NoResult = NoResult
    NoDir = NoDir
    NoRoot = NoRoot
    NoTransition = NoTransition
INVARIANTS
    ChainInRoot
    StoreMatchesCommitted
    OuterOnlyBehindEvidence
    OneAuthor
PROPERTIES
    WrittenOnce
    EventuallyEnds
CHECK_DEADLOCK FALSE
