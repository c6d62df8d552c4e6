SPECIFICATION FairSpec
CONSTANTS
    Asks = {a}
    Fleets = {f}
    Watchers = {w}
    Slots = 2
    Threshold = 2
    Backoffs = 1
    MaxOpens = 2
    None = None
INVARIANTS
    TypeOK
    NoStampede
    OpenSpendsOnce
    PermitsConserved
PROPERTIES
    Recovers
