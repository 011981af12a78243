SPECIFICATION Spec
CONSTANTS
    Launches = {l1, l2}
    Roots = {r1, r2}
    Ledgers = {b1, b2}
    WorkflowIds = {w1}
    Anchors = {a1}
    Arts = {x1}
    Shas = {h1}
    MaxSeq = 3
    NoDigest = NoDigest
    EmptyArts = EmptyArts
    NoRequest = NoRequest
    NoResult = NoResult
    NoDir = NoDir
    NoRoot = NoRoot
    NoTransition = NoTransition
INVARIANTS
    PhaseNotReplayed
CHECK_DEADLOCK FALSE
