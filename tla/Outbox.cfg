SPECIFICATION FairSpec
CONSTANTS
    Dispatchers = {d1, d2}
    Events = {1, 2}
    Contents = {1, 2}
    Limit = 2
    Gone = Gone
    None = None
    MaxTrouble = 2
INVARIANTS
    PublishedIsDelivered
    CopiesAreCommitted
    CopiesAreClaimed
    HeldExclusively
PROPERTIES
    ImplementsDelivery
    EventuallyPublished
