SPECIFICATION Spec
CONSTANTS
    TaskSpec <- MCTaskSpec
    Tree <- MCTree
    Reach <- MCReach
    RoleTokens <- MCRoleTokens
    RoleCost <- MCRoleTokens
    TokenCap = 3
    CostCap = 3
    Absent = Absent
    RuntimeBinding = RuntimeBinding
    Start <- MCStart
    Others <- MCOthers
    Edits = {"c1", "c1a", "c2", "c3"}
    Logs = {"l1", "l2"}
    Outcomes <- MCOutcomes
    Keys = {"k1", "k2"}
    MaxEdits = 2
    MaxMisplaced = 1
INVARIANTS
    SnapshotIsRequested
    PaidForReviewable
    ChargedIsAccepted
    AttestedIsOwn
    PassIsEarned
PROPERTIES
    CleanPasses
CHECK_DEADLOCK FALSE
