SPECIFICATION MCSpec
CONSTANTS
    Consumers = {c1, c2}
    Partitions = {outcomes, transactions}
    Outcomes = outcomes
    None = None
    Decisions = {d1, d2}
    Versions = {"v1", "v2"}
    Economics = {"e1", "e2"}
    Settings <- MCSettings
    MaxEnd = 2
    MaxOther = 1
    MaxTrouble = 2
SYMMETRY Symmetry
INVARIANTS
    CommittedIsHandled
    HandledInOrder
    CommittedIsLearned
PROPERTY
    RewardsAreFinal
CHECK_DEADLOCK FALSE
