SPECIFICATION Spec
CONSTANTS
    Versions = {1, 2, 3}
    First = 1
    Builtin = {1, 3}
    Identity <- MCIdentity
    Evidence <- MCEvidence
    Admins = {a}
    Investigations = {}
    Fragile = {}
    None = None
    MaxChanges = 4
INVARIANT
    EveryChangeIsAudited
CHECK_DEADLOCK FALSE
