SPECIFICATION Spec
CONSTANTS
    Judges = {j1, j2}
    Nonces <- MCNonces
    Bundles <- MCBundles
    NoncesOf <- MCNoncesOf
    Genuine <- MCGenuine
    Repeating <- MCRepeating
    NoBundle = NoBundle
    Nobody = Nobody
    n1 = n1
    n2 = n2
    n3 = n3
    left = left
    middle = middle
    right = right
    forged = forged
    twice = twice
INVARIANTS
    NonceAcceptedOnce
    AcceptedIsConsumed
    WholeBundles
PROPERTIES
    JudgeEnds
    CrashFailsClosed
