SPECIFICATION Spec
CONSTANTS
    Versions = {1, 2, 3, 4}
    First = 1
    Builtin = {1, 3}
    Identity <- MCIdentity
    Evidence <- MCEvidence
    Admins = {a, b}
    Investigations = {i}
    Fragile = {2}
    None = None
    MaxChanges = 3
SYMMETRY Symmetry
INVARIANTS
    ChangesFormOneChain
    ChangesAreJustified
    AuditIsTrue
    CandidatesOnlyObserve
CHECK_DEADLOCK FALSE
