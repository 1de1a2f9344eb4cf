SPECIFICATION MCSpec
CONSTANTS
    Workers = {w1}
    Tokens = {1, 2}
    Requests <- OneExecutingOneSafe
    Actors <- MCActors
    Actions <- MCActions
    Recommended = "block"
    Outcomes = {o1}
    None = None
    MaxFailures = 0
INVARIANT
    TerminalReplaySucceeds
