SPECIFICATION Spec
CONSTANTS
    Versions = {1, 2, 3}
    First = 1
    Builtin = {1, 3}
    Identity <- MCIdentity
    Evidence <- MCEvidence
    Admins = {a, b}
    Investigations = {}
    Fragile = {}
    None = None
    MaxChanges = 3
INVARIANT
    OneProduction
CHECK_DEADLOCK FALSE
