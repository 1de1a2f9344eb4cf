SPECIFICATION FairSpec
CONSTANTS
    Consumers = {c1, c2}
    Partitions = {outcomes, transactions}
    Outcomes = outcomes
    None = None
    Decisions = {d1, d2}
    Versions = {"v1", "v2"}
    Economics = {"e1", "e2"}
    Settings <- OneSetting
    MaxEnd = 2
    MaxOther = 1
    MaxTrouble = 3
PROPERTIES
    EventuallyHandled
    OutcomesAreLearned
CHECK_DEADLOCK FALSE
