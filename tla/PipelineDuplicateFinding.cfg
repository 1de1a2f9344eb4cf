SPECIFICATION MCSpec
CONSTANTS
    Consumers = {c1, c2}
    Partitions = {outcomes, transactions}
    Outcomes = outcomes
    None = None
    Decisions = {d1}
    Versions = {"v1", "v2"}
    Economics = {"e1", "e2"}
    Settings <- MCSettings
    MaxEnd = 2
    MaxOther = 0
    MaxTrouble = 1
INVARIANT
    DuplicatesAreReplays
CHECK_DEADLOCK FALSE
