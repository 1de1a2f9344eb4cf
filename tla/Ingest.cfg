SPECIFICATION Spec
CONSTANTS
    None = None
    Processes = {p1, p2}
    Keys = {1, 2}
    Singles = {a}
    Batches = {g}
    Streams = {s}
    Sent = {1}
    Lots <- Pairs
    a = a
    g = g
    s = s
    p1 = p1
    p2 = p2
    Placements <- Placed
    MaxTrouble = 1
INVARIANTS
    CountedOnce
    StoredIsCounted
    AnswersAreTrue
    ClaimsExclude
CHECK_DEADLOCK FALSE
