SPECIFICATION Spec
CONSTANTS
    CharMax = 11
    WordSize = 20000
    MaxSent = 12
    MaxPings = 1
    MaxFlight = 2
    MaxFaults = 2
    Absent = Absent
CHECK_DEADLOCK FALSE
INVARIANTS
    InOrderPacketsPass
