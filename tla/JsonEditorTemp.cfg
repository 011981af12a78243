SPECIFICATION FileSpec
CONSTANTS
    Writers = {w1, w2}
    Readers = {r1, r2}
    Documents = {d1, d2}
    Absent = Absent
    Partial = Partial
SYMMETRY Symmetry
INVARIANTS
    FailureLeavesNoTemp
