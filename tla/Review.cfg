SPECIFICATION RepeatingSpec
CONSTANTS
    Workers = {w1, w2}
    Tokens = {1, 2, 3}
    Requests <- MCRequests
    Actors <- MCActors
    Actions <- MCActions
    Recommended = "block"
    Outcomes = {o1, o2}
    None = None
    MaxFailures = 2
INVARIANTS
    RecordsAgree
    CheckpointAgrees
    CallsAgree
    CompletedIsExecuted
    AuthorizedIsRecoverable
PROPERTIES
    ImplementsLifecycle
    Answered
    AcceptedIsCompleted
