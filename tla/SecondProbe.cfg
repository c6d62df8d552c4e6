SPECIFICATION ProbesSpec
CONSTANTS
    Asks = {a1, a2}
    Fleets = {}
    Watchers = {}
    Slots = 2
    Threshold = 2
    Backoffs = 1
    MaxOpens = 2
    None = None
INVARIANTS
    OneProbeAtATime
